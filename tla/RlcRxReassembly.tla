-------------------------- MODULE RlcRxReassembly --------------------------
(***************************************************************************)
(* Reassembly of SDUs from segments that arrive in any order and overlap   *)
(* (lib/rlc/rlc_rx_am_entity.cpp).                                         *)
(*                                                                         *)
(* An overlap arises when an SDU is retransmitted with other segment       *)
(* boundaries than before.  got is the set of bytes that arrived for each  *)
(* SN.                                                                     *)
(***************************************************************************)
EXTENDS RlcRxSegments

CONSTANTS Sns,    \* the SNs of the receive window
          SduLen  \* length of every SDU

ASSUME SduLenAssumption == SduLen \in Nat \ {0}

VARIABLES window, got

vars == <<window, got>>

Init ==
  /\ window = [sn \in Sns |-> <<>>]
  /\ got = [sn \in Sns |-> {}]

\* handle_full_data_sdu(): a full SDU replaces what was stored.
handle_full_data_sdu(sn) ==
  /\ ~fully_received(window[sn])
  /\ window' = [window EXCEPT ![sn] = <<[so |-> 0, len |-> SduLen, last |-> TRUE]>>]
  /\ got' = [got EXCEPT ![sn] = 0 .. SduLen - 1]

\* handle_segment_data_sdu().
handle_segment_data_sdu(sn, so, len) ==
  /\ ~fully_received(window[sn])
  /\ so + len <= SduLen /\ len < SduLen
  /\ LET segment == [so |-> so, len |-> len, last |-> so + len = SduLen]
     IN  window' = [window EXCEPT ![sn] = store_segment(@, segment).segments]
  /\ got' = [got EXCEPT ![sn] = @ \cup (so .. so + len - 1)]

Next == \E sn \in Sns :
          \/ handle_full_data_sdu(sn)
          \/ \E so \in 0 .. SduLen - 1, len \in 1 .. SduLen :
               handle_segment_data_sdu(sn, so, len)

Spec == Init /\ [][Next]_vars

-----------------------------------------------------------------------------
Missing(sn) == (0 .. SduLen - 1) \ got[sn]

\* store_segment() keeps every byte that arrived exactly once, in order, whatever
\* the overlaps were: it loses none and reassemble_sdu() repeats none.
StoredExactly ==
  \A sn \in Sns : LET s == window[sn] IN
    /\ Bytes(s) = got[sn]
    /\ \A i \in 1 .. Len(s) - 1 : LastByte(s[i]) < s[i + 1].so

\* fully_received and has_gap of update_segment_inventory() say what their
\* comments do: all bytes are there; a byte is missing before the last received.
InventoryExact ==
  \A sn \in Sns :
    /\ fully_received(window[sn]) <=> Missing(sn) = {}
    /\ has_gap(window[sn]) <=> \E b \in Missing(sn) : \E c \in got[sn] : b < c

=============================================================================
