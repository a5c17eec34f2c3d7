------------------------------ MODULE MCPdcpTx ------------------------------
(***************************************************************************)
(* Three bearers, each with up to three SDUs and a window of 4 COUNTs, so  *)
(* that sequence numbers wrap after 8.  The UM bearer starts at COUNT 0,   *)
(* where a re-establishment puts it again; the AM bearers start at the     *)
(* COUNT 6 of a status transfer, and their last SDU has sequence number 0. *)
(***************************************************************************)
EXTENDS PdcpTx

MCBearers == {[rb |-> "um", discard_timer |-> "finite", count |-> 0],
              [rb |-> "am", discard_timer |-> "finite", count |-> 6],
              [rb |-> "am", discard_timer |-> "infinity", count |-> 6]}
=============================================================================
