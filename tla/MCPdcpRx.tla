------------------------------ MODULE MCPdcpRx ------------------------------
(***************************************************************************)
(* The instance of PdcpRx that TLC explores: a window of 4 COUNTs, so that *)
(* sequence numbers wrap after 8. After a status transfer reception starts *)
(* at COUNT 6, just below the wrap; COUNT 8 is lost, and COUNT 0 is a PDU  *)
(* that an earlier window left behind.                                     *)
(***************************************************************************)
EXTENDS PdcpRx

MCBearers ==
  {[rb |-> "um", t_reordering |-> "finite"], [rb |-> "am", t_reordering |-> "finite"],
   [rb |-> "am", t_reordering |-> "ms0"], [rb |-> "srb", t_reordering |-> "infinity"]}
=============================================================================
