------------------------------ MODULE RlcAmTx ------------------------------
(***************************************************************************)
(* The transmitting side of an RLC AM bearer                               *)
(* (lib/rlc/rlc_tx_am_entity.cpp, rlc_retx_queue.h).                       *)
(*                                                                         *)
(* tx is the state of the entity, data the set of AMD PDUs it submitted to *)
(* lower layers that are still on their way.  pull_pdu(),                  *)
(* handle_status_pdu() and the timer callback all run in the cell          *)
(* executor, hence each is one step.                                       *)
(*                                                                         *)
(* SDUs are numbered in the order PDCP hands them down; Lens[i] is the     *)
(* length of SDU i.  sdu_queue holds [id, disc]: disc marks an SDU that    *)
(* PDCP discarded and the queue has not dropped yet.  tx_window maps an SN *)
(* to [id, next_so, retx_count]; acked is the set of SDUs reported as      *)
(* delivered to PDCP.                                                      *)
(* A grant is the room it leaves for payload once the header is written; 0 *)
(* is a grant too small for any.                                           *)
(* A PDU is [sn, so, len, last, p, id, n]; it holds a full SDU when so = 0 *)
(* and last.  n counts SDUs from the start without wrapping; it is no part *)
(* of the PDU and only bounds how late a PDU may arrive (RlcAmLink).       *)
(*                                                                         *)
(* The code logs an error and gives up on a PDU when one of its sanity     *)
(* checks fails.  Those branches are not actions: TxSane and               *)
(* NoProtocolFailure (RlcAmLink) say that none of the checks can fail.     *)
(***************************************************************************)
EXTENDS RlcAmWindow, FiniteSets

CONSTANTS Lens,        \* lengths of the SDUs
          Grants,      \* sizes of grants
          PollPdu,     \* poll_pdu; 0: off
          PollByte,    \* poll_byte; 0: off
          MaxRetx,     \* max_retx_thresh
          MaxWindow,   \* max_window; 0: no limit
          Discards     \* the SDUs that PDCP may discard

ASSUME TxAssumption ==
  /\ \A i \in DOMAIN Lens : Lens[i] \in Nat \ {0} /\ Lens[i] < SoEnd
  /\ Grants \subseteq Nat /\ {PollPdu, PollByte, MaxRetx, MaxWindow} \subseteq Nat
  /\ Discards \subseteq DOMAIN Lens

VARIABLES tx, data

INVALID_RLC_SN == -1
RETX_COUNT_NOT_STARTED == -1

TxInit ==
  /\ tx = [sdu_queue |-> <<>>, arrived |-> 0, pending_buffer_state |-> FALSE,
           tx_window |-> <<>>, tx_next |-> Start, tx_next_ack |-> Start,
           poll_sn |-> (Start - 1) % Mod, pdu_without_poll |-> 0, byte_without_poll |-> 0,
           sn_under_segmentation |-> INVALID_RLC_SN,
           retx_queue |-> <<>>, retx_sn |-> INVALID_RLC_SN,
           max_retx_reached |-> FALSE, poll_retransmit_timer |-> FALSE,
           acked |-> {}, on_max_retx |-> FALSE, on_protocol_failure |-> FALSE]
  /\ data = {}

-----------------------------------------------------------------------------
tx_mod_base(t, sn) == (sn - t.tx_next_ack) % Mod

has_sn(t, sn) == sn \in DOMAIN t.tx_window

SduLength(t, sn) == Lens[t.tx_window[sn].id]

is_tx_window_full(t) ==
  \/ Cardinality(DOMAIN t.tx_window) = WindowSize
  \/ MaxWindow # 0 /\ tx_mod_base(t, t.tx_next) > MaxWindow

\* Transmission and retransmission buffer are empty.
BuffersEmpty(t) ==
  t.sdu_queue = <<>> /\ t.retx_queue = <<>> /\ t.sn_under_segmentation = INVALID_RLC_SN

\* The queue from the first of the positions to keep.
FromFirst(q, keep) == IF keep = {} THEN <<>> ELSE SubSeq(q, Min(keep), Len(q))

DropDiscarded(q) == FromFirst(q, {i \in DOMAIN q : ~q[i].disc})

DropUnknown(t) == FromFirst(t.retx_queue, {i \in DOMAIN t.retx_queue : has_sn(t, t.retx_queue[i].sn)})

\* What get_buffer_state() changes: front() drops the discarded SDUs at the head
\* of the queue, which it looks at unless an SDU is under segmentation.
get_buffer_state(t) ==
  [t EXCEPT !.sdu_queue = IF t.sn_under_segmentation = INVALID_RLC_SN
                          THEN DropDiscarded(@) ELSE @,
            !.retx_queue = DropUnknown(t)]

\* get_polling_bit(): the state afterwards and the bit.
get_polling_bit(t, sn, is_retx, payload_size) ==
  LET t1 == IF is_retx THEN t
            ELSE [t EXCEPT !.pdu_without_poll = @ + 1, !.byte_without_poll = @ + payload_size]
      poll == \/ ~is_retx /\ PollPdu > 0 /\ t1.pdu_without_poll >= PollPdu
              \/ ~is_retx /\ PollByte > 0 /\ t1.byte_without_poll >= PollByte
              \/ BuffersEmpty(t1)
              \/ is_tx_window_full(t1)
  IN  <<IF poll THEN [t1 EXCEPT !.pdu_without_poll = 0, !.byte_without_poll = 0,
                                !.poll_sn = IF is_retx THEN @ ELSE sn,
                                !.poll_retransmit_timer = TRUE]
        ELSE t1, poll>>

NoPdu == [sn |-> INVALID_RLC_SN]

\* An AMD PDU with part of the SDU that has SN sn.
Pdu(t, sn, so, len, last, p) ==
  [sn |-> sn, so |-> so, len |-> len, last |-> last, p |-> p, id |-> t.tx_window[sn].id,
   n |-> Cardinality(t.acked) + tx_mod_base(t, sn)]

-----------------------------------------------------------------------------
\* The three kinds of AMD PDU; each operator returns <<state, PDU>>.

\* build_new_pdu() and build_first_sdu_segment().  For a full SDU the polling bit
\* is computed from the length of sdu.buf after it was moved into the window,
\* which is 0.
build_new_pdu(t, grant) ==
  LET q == DropDiscarded(t.sdu_queue)
      sn == t.tx_next
      id == Head(q).id
      added == [t EXCEPT !.sdu_queue = Tail(q),
                         !.tx_window = (sn :> [id |-> id, next_so |-> 0,
                                               retx_count |-> RETX_COUNT_NOT_STARTED]) @@ @]
      full == get_polling_bit(added, sn, FALSE, 0)
      first == get_polling_bit([added EXCEPT !.sn_under_segmentation = sn], sn, FALSE, grant)
  IN  CASE grant = 0 \/ is_tx_window_full(t) -> <<t, NoPdu>>
        [] ~(grant = 0 \/ is_tx_window_full(t)) /\ q = <<>> ->
             <<[t EXCEPT !.sdu_queue = <<>>], NoPdu>>
        [] OTHER ->
             IF Lens[id] <= grant
             THEN <<[full[1] EXCEPT !.tx_next = (sn + 1) % Mod],
                    Pdu(added, sn, 0, Lens[id], TRUE, full[2])>>
             ELSE <<[first[1] EXCEPT !.tx_window[sn].next_so = grant],
                    Pdu(added, sn, 0, grant, FALSE, first[2])>>

build_continued_sdu_segment(t, grant) ==
  LET sn == t.tx_next
      info == t.tx_window[t.sn_under_segmentation]
      left == Lens[info.id] - info.next_so
      last == left <= grant
      len == IF last THEN left ELSE grant
      polled == get_polling_bit(
                  [t EXCEPT !.sn_under_segmentation = IF last THEN INVALID_RLC_SN ELSE @],
                  sn, FALSE, len)
  IN  IF grant = 0 THEN <<t, NoPdu>>
      ELSE <<[polled[1] EXCEPT !.tx_window[t.sn_under_segmentation].next_so = @ + len,
                               !.tx_next = IF last THEN (@ + 1) % Mod ELSE @],
             Pdu(t, sn, info.next_so, len, last, polled[2])>>

\* build_retx_pdu().
build_retx_pdu(t, grant) ==
  LET q == DropUnknown(t)
      retx == Head(q)
      len == IF retx.len <= grant THEN retx.len ELSE grant
      begun == [t EXCEPT !.retx_queue = q, !.retx_sn = retx.sn]
      rest == [retx EXCEPT !.so = @ + len, !.len = @ - len]
      taken == IF len = retx.len
               THEN [begun EXCEPT !.retx_queue = Tail(q),
                                  !.max_retx_reached =
                                     @ \/ t.tx_window[retx.sn].retx_count = MaxRetx]
               ELSE [begun EXCEPT !.retx_queue = <<rest>> \o Tail(q)]
      polled == get_polling_bit(taken, retx.sn, TRUE, 0)
  IN  CASE q = <<>> -> <<[t EXCEPT !.retx_queue = <<>>], NoPdu>>
        [] q # <<>> /\ grant = 0 -> <<begun, NoPdu>>
        [] OTHER -> <<polled[1],
                      Pdu(t, retx.sn, retx.so, len,
                          retx.so + len >= SduLength(t, retx.sn), polled[2])>>

\* pull_pdu(), its status PDUs left out; the MAC then asks for the buffer state.
PullResult(t, grant) ==
  LET pulled == CASE t.retx_queue # <<>> -> build_retx_pdu(t, grant)
                  [] t.retx_queue = <<>> /\ t.sn_under_segmentation # INVALID_RLC_SN ->
                       build_continued_sdu_segment(t, grant)
                  [] OTHER -> build_new_pdu(t, grant)
  IN  <<get_buffer_state(pulled[1]), pulled[2]>>

pull_pdu(grant) ==
  /\ ~tx.max_retx_reached
  /\ ~BuffersEmpty(tx)
  /\ tx' = PullResult(tx, grant)[1]
  /\ LET pdu == PullResult(tx, grant)[2]
     IN  data' = IF pdu = NoPdu THEN data ELSE data \cup {pdu}

-----------------------------------------------------------------------------
\* Upper layers.

\* handle_sdu() and, through handle_changed_buffer_state(), the request for
\* update_mac_buffer_state().
handle_sdu ==
  /\ tx.arrived < Len(Lens)
  /\ tx' = [tx EXCEPT !.arrived = @ + 1,
                      !.sdu_queue = Append(@, [id |-> tx.arrived + 1, disc |-> FALSE]),
                      !.pending_buffer_state = TRUE]
  /\ UNCHANGED data

discard_sdu(i) ==
  /\ i \in DOMAIN tx.sdu_queue
  /\ tx.sdu_queue[i].id \in Discards /\ ~tx.sdu_queue[i].disc
  /\ tx' = [tx EXCEPT !.sdu_queue[i].disc = TRUE, !.pending_buffer_state = TRUE]
  /\ UNCHANGED data

\* The task that handle_changed_buffer_state() defers.  A second one left behind
\* when the flag was cleared in between finds nothing more to do.
update_mac_buffer_state ==
  /\ tx.pending_buffer_state
  /\ tx' = [get_buffer_state(tx) EXCEPT !.pending_buffer_state = FALSE]
  /\ UNCHANGED data

-----------------------------------------------------------------------------
\* Status reports.

valid_ack_sn(t, sn) == tx_mod_base(t, sn) \in 1 .. WindowSize

\* valid_nack(); its two checks against tx_next never fail (NoProtocolFailure).
valid_nack(t, ack_sn, nack) ==
  LET last == tx_mod_base(t, nack.sn + nack.range - 1)
  IN  /\ tx_mod_base(t, nack.sn) < tx_mod_base(t, ack_sn)
      /\ last < tx_mod_base(t, ack_sn)
      /\ tx_mod_base(t, nack.sn) < WindowSize /\ last < WindowSize

ProcessAcks_window_kept(t, stop_sn) ==
  LET acked == {sn \in DOMAIN t.tx_window : tx_mod_base(t, sn) < tx_mod_base(t, stop_sn)}
  IN  [t EXCEPT !.tx_next_ack = stop_sn,
                !.acked = @ \cup {t.tx_window[sn].id : sn \in acked}]

\* The SDUs up to stop_sn leave the window.
ProcessAcks(t, stop_sn) ==
  LET acked == {sn \in DOMAIN t.tx_window : tx_mod_base(t, sn) < tx_mod_base(t, stop_sn)}
  IN  [t EXCEPT !.tx_window = [sn \in DOMAIN @ \ acked |-> @[sn]], !.tx_next_ack = stop_sn,
                !.acked = @ \cup {t.tx_window[sn].id : sn \in acked}]

increment_retx_count(t, sn) ==
  LET n == t.tx_window[sn].retx_count + 1
  IN  [t EXCEPT !.tx_window[sn].retx_count = n, !.on_max_retx = @ \/ n = MaxRetx]

decrement_retx_count(t, sn) ==
  [t EXCEPT !.tx_window[sn].retx_count =
     IF @ = RETX_COUNT_NOT_STARTED THEN @ ELSE @ - 1]

\* The ReTx queue is emptied; the count of an SN whose ReTx had not begun is
\* rewound once.
ClearRetx(t) ==
  LET rewind(u, retx) ==
        [(IF u.retx_sn # retx.sn /\ has_sn(u, retx.sn)
          THEN decrement_retx_count(u, retx.sn) ELSE u) EXCEPT !.retx_sn = retx.sn]
  IN  [FoldLeft(rewind, t, t.retx_queue) EXCEPT !.retx_queue = <<>>,
                                                !.retx_sn = INVALID_RLC_SN]

\* The last byte to retransmit: an open end is the end of the SDU, or of what
\* was already sent of it.
RetxEnd(t, nack) ==
  CASE ~nack.has_so -> SduLength(t, nack.sn) - 1
    [] nack.has_so /\ nack.so_end # SoEnd -> nack.so_end
    [] nack.has_so /\ nack.so_end = SoEnd /\ nack.sn # t.sn_under_segmentation ->
         SduLength(t, nack.sn) - 1
    [] OTHER -> t.tx_window[nack.sn].next_so - 1

\* What handle_nack() queues.
Retx(t, nack) ==
  [sn |-> nack.sn, so |-> nack.so_start, len |-> RetxEnd(t, nack) - nack.so_start + 1]

\* handle_nack() and the counting after it: nothing is queued for an SN outside
\* the window, for the part of an SDU under segmentation that was not sent yet,
\* or when the queue is full.
handle_nack(acc, nack) ==
  LET t == acc.t
      ignored == \/ tx_mod_base(t, nack.sn) > tx_mod_base(t, t.tx_next)
                 \/ /\ nack.sn = t.sn_under_segmentation /\ nack.so_end = SoEnd
                    /\ nack.has_so /\ nack.so_start >= t.tx_window[nack.sn].next_so
                 \/ Len(t.retx_queue) = WindowSize
      queued == [t EXCEPT !.retx_queue = Append(@, Retx(t, nack))]
  IN  IF ignored THEN acc
      ELSE [t |-> IF acc.prev_retx_sn = nack.sn THEN queued
                  ELSE increment_retx_count(queued, nack.sn),
            prev_retx_sn |-> nack.sn]

StatusResult_timer_stopped(t, status) ==
  LET stop_sn == IF status.nacks = <<>> THEN status.ack_sn ELSE status.nacks[1].sn
      stopped == [t EXCEPT !.poll_retransmit_timer = FALSE]
      cleared == ClearRetx(ProcessAcks(stopped, stop_sn))
      rebuilt == FoldLeft(handle_nack, [t |-> cleared, prev_retx_sn |-> INVALID_RLC_SN],
                          ExpandNacks(status))
  IN  [get_buffer_state(rebuilt.t) EXCEPT !.pending_buffer_state = FALSE]

StatusResult_nacks_acked(t, status) ==
  LET stopped == [t EXCEPT !.poll_retransmit_timer =
                    @ /\ ~(tx_mod_base(t, t.poll_sn) < tx_mod_base(t, status.ack_sn))]
      cleared == ClearRetx(ProcessAcks(stopped, status.ack_sn))
      rebuilt == FoldLeft(handle_nack, [t |-> cleared, prev_retx_sn |-> INVALID_RLC_SN],
                          ExpandNacks(status))
  IN  [get_buffer_state(rebuilt.t) EXCEPT !.pending_buffer_state = FALSE]

StatusResult(t, status) ==
  LET stop_sn == IF status.nacks = <<>> THEN status.ack_sn ELSE status.nacks[1].sn
      stopped == [t EXCEPT !.poll_retransmit_timer =
                    @ /\ ~(tx_mod_base(t, t.poll_sn) < tx_mod_base(t, status.ack_sn))]
      cleared == ClearRetx(ProcessAcks(stopped, stop_sn))
      rebuilt == FoldLeft(handle_nack, [t |-> cleared, prev_retx_sn |-> INVALID_RLC_SN],
                          ExpandNacks(status))
  IN  [get_buffer_state(rebuilt.t) EXCEPT !.pending_buffer_state = FALSE]

\* handle_status_pdu(): a report that fails the checks has no effect, or only
\* that of on_protocol_failure().
handle_status_pdu(status) ==
  /\ tx' = IF ~valid_ack_sn(tx, status.ack_sn) THEN tx
           ELSE IF tx_mod_base(tx, status.ack_sn) > tx_mod_base(tx, tx.tx_next + 1)
           THEN [tx EXCEPT !.on_protocol_failure = TRUE]
           ELSE IF \A i \in DOMAIN status.nacks : valid_nack(tx, status.ack_sn, status.nacks[i])
           THEN StatusResult(tx, status)
           ELSE tx
  /\ UNCHANGED data

\* on_expired_poll_retransmit_timer().
on_expired_poll_retransmit_timer ==
  /\ tx.poll_retransmit_timer
  /\ LET t == [tx EXCEPT !.poll_retransmit_timer = FALSE]
         sn == t.tx_next_ack
         retx == [sn |-> sn, so |-> 0, len |-> SduLength(t, sn)]
         queued == IF Len(t.retx_queue) = WindowSize THEN t
                   ELSE increment_retx_count([t EXCEPT !.retx_queue = Append(@, retx)], sn)
     IN  tx' = IF (BuffersEmpty(t) \/ is_tx_window_full(t)) /\ DOMAIN t.tx_window # {}
               THEN [get_buffer_state(queued) EXCEPT !.pending_buffer_state = FALSE]
               ELSE t
  /\ UNCHANGED data

=============================================================================
