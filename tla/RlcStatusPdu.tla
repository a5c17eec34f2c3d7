---------------------------- MODULE RlcStatusPdu ----------------------------
(***************************************************************************)
(* RLC AM status PDUs: how the receiver merges and trims the list of NACKs *)
(* (lib/rlc/rlc_am_pdu.cpp) and how the transmitter takes a merged list    *)
(* apart again (lib/rlc/rlc_tx_am_entity.cpp, handle_status_pdu).          *)
(*                                                                         *)
(* A NACK is [sn, range, has_so, so_start, so_end].  has_nack_range is     *)
(* range > 1: a NACK without range stands for one SN in every computation. *)
(* A status PDU is [ack_sn, nacks, packed_size].                           *)
(***************************************************************************)
EXTENDS Integers, Sequences

CONSTANTS Mod,       \* cardinality of the SN space
          MaxRange,  \* largest NACK range a status PDU can hold (255)
          SoEnd      \* so_end_of_sdu (0xffff)

ASSUME PduAssumption == /\ Mod \in Nat \ {0}
                        /\ MaxRange \in Nat \ {0}
                        /\ SoEnd \in Nat

HeaderSize == 3       \* sizeof_header_ack_sn
NackSnSize == 2       \* sizeof_nack_sn_ext_12bit_sn
NackSoSize == 4       \* sizeof_nack_so
NackRangeSize == 1    \* sizeof_nack_range

NackSdu(sn) ==
  [sn |-> sn, range |-> 1, has_so |-> FALSE, so_start |-> 0, so_end |-> SoEnd]

NackSegment(sn, first, last) ==
  [sn |-> sn, range |-> 1, has_so |-> TRUE, so_start |-> first, so_end |-> last]

\* reset().
EmptyPdu(ack) == [ack_sn |-> ack, nacks |-> <<>>, packed_size |-> HeaderSize]

nack_size(nack) ==
  NackSnSize + (IF nack.has_so THEN NackSoSize ELSE 0)
             + (IF nack.range > 1 THEN NackRangeSize ELSE 0)

can_be_merged_end_ignored(left, right) ==
  /\ right.sn = (left.sn + left.range) % Mod
  /\ right.has_so => right.so_start = 0
  /\ left.range + right.range <= MaxRange

can_be_merged(left, right) ==
  /\ right.sn = (left.sn + left.range) % Mod
  /\ left.has_so => left.so_end = SoEnd
  /\ right.has_so => right.so_start = 0
  /\ left.range + right.range <= MaxRange

\* The previous NACK expanded by the next one.
Merged(prev, nack) ==
  [prev EXCEPT !.range = @ + nack.range,
               !.has_so = @ \/ nack.has_so,
               !.so_start = IF nack.has_so /\ ~prev.has_so THEN 0 ELSE @,
               !.so_end = IF nack.has_so THEN nack.so_end
                          ELSE IF prev.has_so THEN SoEnd ELSE @]

push_nack(pdu, nack) ==
  LET n == Len(pdu.nacks)
      expanded == Merged(pdu.nacks[n], nack)
  IN  IF n = 0 \/ ~can_be_merged(pdu.nacks[n], nack)
      THEN [pdu EXCEPT !.nacks = Append(@, nack), !.packed_size = @ + nack_size(nack)]
      ELSE [pdu EXCEPT !.nacks[n] = expanded,
                       !.packed_size = @ - nack_size(pdu.nacks[n]) + nack_size(expanded)]

\* ACK_SN and size once only the first k NACKs are left.
AckAfter(pdu, k) == IF k = Len(pdu.nacks) THEN pdu.ack_sn ELSE pdu.nacks[k + 1].sn

SizeAfter(pdu, k) ==
  LET size[j \in 0 .. Len(pdu.nacks)] ==
        IF j = Len(pdu.nacks) THEN pdu.packed_size ELSE size[j + 1] - nack_size(pdu.nacks[j + 1])
  IN  size[k]

Largest(S) == CHOOSE n \in S : \A m \in S : m <= n

trim_ack_kept(pdu, max_packed_size) ==
  LET k == Largest({j \in 0 .. Len(pdu.nacks) : j = 0 \/ SizeAfter(pdu, j) <= max_packed_size})
  IN  [pdu EXCEPT !.nacks = SubSeq(@, 1, k), !.packed_size = SizeAfter(pdu, k)]

\* trim() for a space that can hold at least the header: NACKs are removed from
\* the back until the rest fits and its last NACK has another SN than ACK_SN.
trim(pdu, max_packed_size) ==
  LET k == Largest({j \in 0 .. Len(pdu.nacks) :
                      \/ j = 0
                      \/ /\ SizeAfter(pdu, j) <= max_packed_size
                         /\ pdu.nacks[j].sn # AckAfter(pdu, j)})
  IN  IF max_packed_size >= pdu.packed_size THEN pdu
      ELSE [ack_sn |-> AckAfter(pdu, k), nacks |-> SubSeq(pdu.nacks, 1, k),
            packed_size |-> SizeAfter(pdu, k)]

-----------------------------------------------------------------------------
\* The transmitter's side.

\* The number of SNs of a NACK that handle_status_pdu() looks at: a range is cut
\* at ACK_SN.
NackCount(nack, ack_sn) ==
  LET below == (ack_sn - nack.sn) % Mod
  IN  IF nack.range > 1 /\ below < nack.range THEN below ELSE nack.range

\* The NACKs of single SNs that handle_status_pdu() makes of one NACK: so_start
\* applies to the first SN of a range, so_end to its last one.
ExpandNack(nack, ack_sn) ==
  IF nack.range = 1 THEN <<nack>>
  ELSE [i \in 1 .. NackCount(nack, ack_sn) |->
          LET first == IF i = 1 /\ nack.has_so THEN nack.so_start ELSE 0
              last == IF i = nack.range /\ nack.has_so THEN nack.so_end ELSE SoEnd
          IN  [sn |-> (nack.sn + i - 1) % Mod, range |-> 1,
               has_so |-> nack.has_so /\ (first # 0 \/ last # SoEnd),
               so_start |-> first, so_end |-> last]]

\* The loop over the NACKs of a status PDU.
ExpandLoop(pdu) ==
  LET out[i \in 0 .. Len(pdu.nacks)] ==
        IF i = 0 THEN <<>> ELSE out[i - 1] \o ExpandNack(pdu.nacks[i], pdu.ack_sn)
  IN  out

\* The sequence of NACKs handle_nack() is called with.
ExpandNacks(pdu) == ExpandLoop(pdu)[Len(pdu.nacks)]

=============================================================================
