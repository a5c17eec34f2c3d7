--------------------------- MODULE RlcRxSegments ---------------------------
(***************************************************************************)
(* The segments of one SDU in the window of the RLC AM receiver            *)
(* (lib/rlc/rlc_rx_am_entity.cpp, rlc_rx_am_sdu_info).                     *)
(*                                                                         *)
(* A segment is [so, len, last]: offset and length of its payload, and     *)
(* whether its SI field says last_segment.  segment_set_t is a sequence in *)
(* increasing order of so.                                                 *)
(***************************************************************************)
EXTENDS Integers, Sequences

LastByte(s) == s.so + s.len - 1

\* What advance() leaves of segment s from byte b on; its SI is kept.
From(s, b) == [s EXCEPT !.so = b, !.len = LastByte(s) - b + 1]

StoreStep_overlap_kept(acc, cur) ==
  CASE acc.done -> [acc EXCEPT !.out = Append(@, cur)]
    [] ~acc.done /\ acc.new.so >= cur.so /\ LastByte(acc.new) <= LastByte(cur) ->
         [acc EXCEPT !.out = Append(@, cur), !.done = TRUE, !.stored = FALSE]
    [] ~acc.done /\ acc.new.so < cur.so /\ LastByte(acc.new) < LastByte(cur) ->
         [acc EXCEPT !.out = @ \o <<acc.new, cur>>, !.done = TRUE]
    [] OTHER -> [acc EXCEPT !.out = Append(@, cur)]

\* One turn of the loop of store_segment(): the new segment acc.new meets cur.
StoreStep(acc, cur) ==
  LET new == acc.new IN
  CASE acc.done -> [acc EXCEPT !.out = Append(@, cur)]
    [] ~acc.done /\ new.so > LastByte(cur) -> [acc EXCEPT !.out = Append(@, cur)]
    [] ~acc.done /\ new.so \in cur.so .. LastByte(cur) ->
         IF LastByte(new) <= LastByte(cur)
         THEN [acc EXCEPT !.out = Append(@, cur), !.done = TRUE, !.stored = FALSE]
         ELSE [acc EXCEPT !.out = Append(@, cur), !.new = From(new, LastByte(cur) + 1)]
    [] ~acc.done /\ new.so < cur.so ->
         IF LastByte(new) < cur.so
         THEN [acc EXCEPT !.out = @ \o <<new, cur>>, !.done = TRUE]
         ELSE IF LastByte(new) < LastByte(cur)
         THEN [acc EXCEPT !.out = @ \o <<new, From(cur, LastByte(new) + 1)>>, !.done = TRUE]
         ELSE acc

\* The loop over the segments that are stored.
StoreLoop(segments, new) ==
  LET acc[i \in 0 .. Len(segments)] ==
        IF i = 0 THEN [new |-> new, out |-> <<>>, done |-> FALSE, stored |-> TRUE]
        ELSE StoreStep(acc[i - 1], segments[i])
  IN  acc

\* store_segment(): the segments afterwards, and whether a byte was new.
store_segment(segments, new) ==
  LET acc == StoreLoop(segments, new)[Len(segments)]
  IN  [segments |-> IF acc.done THEN acc.out ELSE Append(acc.out, acc.new),
       stored |-> acc.stored]

\* The segments up to the first gap.
Contiguous(segments) ==
  {i \in DOMAIN segments :
     \A j \in 1 .. i : segments[j].so = (IF j = 1 THEN 0 ELSE LastByte(segments[j - 1]) + 1)}

fully_received_any_order(segments) == \E i \in DOMAIN segments : segments[i].last

\* update_segment_inventory(): fully_received and has_gap.
fully_received(segments) == \E i \in Contiguous(segments) : segments[i].last

has_gap(segments) ==
  /\ ~fully_received(segments)
  /\ Contiguous(segments) # DOMAIN segments

\* The bytes the segments hold.
Bytes(segments) == UNION {segments[i].so .. LastByte(segments[i]) : i \in DOMAIN segments}

=============================================================================
