----------------------------- MODULE RlcAmLink -----------------------------
(***************************************************************************)
(* One direction of an RLC AM bearer: a transmitter (RlcAmTx), a receiver  *)
(* (RlcAmRx) and the air between them, which loses and reorders AMD PDUs   *)
(* and status PDUs.  Nothing is so late that a whole window passed it by:  *)
(* sequence numbers could not be told apart then.                          *)
(***************************************************************************)
EXTENDS RlcAmTx, RlcAmRx

CONSTANTS MaxLoss,    \* bound on the number of lost PDUs
          MaxEarly    \* bound on timers that expire while an answer is under way

ASSUME LinkAssumption == {MaxLoss, MaxEarly} \subseteq Nat

VARIABLES lost, early

txVars == <<tx, data>>
rxVars == <<rx, delivered, reports>>
vars == <<txVars, rxVars, lost, early>>

Init == TxInit /\ RxInit /\ lost = 0 /\ early = 0

Pull == \E grant \in Grants : pull_pdu(grant) /\ UNCHANGED <<rxVars, lost, early>>

HandleSdu == handle_sdu /\ UNCHANGED <<rxVars, lost, early>>

DiscardSdu == \E i \in 1 .. Len(Lens) : discard_sdu(i) /\ UNCHANGED <<rxVars, lost, early>>

UpdateBufferState == update_mac_buffer_state /\ UNCHANGED <<rxVars, lost, early>>

\* A PDU arrives.
HandleDataPdu ==
  \E pdu \in data :
    /\ handle_data_pdu(pdu)
    /\ data' = data \ {pdu}
    /\ \A late \in data' : rx'.passed <= late.n + WindowSize
    /\ UNCHANGED <<tx, lost, early>>

SendStatus == \E space \in StatusSpaces : send_status(space) /\ UNCHANGED <<txVars, lost, early>>

HandleStatusPdu ==
  \E status \in reports :
    /\ handle_status_pdu(status)
    /\ reports' = reports \ {status}
    /\ \A late \in reports' : Cardinality(tx'.acked) < late.n + WindowSize
    /\ UNCHANGED <<rx, delivered, lost, early>>

\* Nothing is under way that could still answer what a timer waits for.
AirEmpty == data = {} /\ reports = {} /\ ~rx.do_status

\* A timer is normally longer than what it waits for takes: a round trip, or the
\* HARQ retransmissions of a PDU.  It may expire earlier MaxEarly times.
PollRetransmitExpires ==
  /\ on_expired_poll_retransmit_timer
  /\ early' = IF AirEmpty THEN early ELSE early + 1
  /\ early' <= MaxEarly
  /\ UNCHANGED <<rxVars, lost>>

ReassemblyExpires ==
  /\ on_expired_reassembly_timer
  /\ early' = IF data = {} THEN early ELSE early + 1
  /\ early' <= MaxEarly
  /\ UNCHANGED <<txVars, lost>>

LoseData ==
  /\ lost < MaxLoss
  /\ \E pdu \in data : data' = data \ {pdu}
  /\ lost' = lost + 1
  /\ UNCHANGED <<tx, rxVars, early>>

LoseStatus ==
  /\ lost < MaxLoss
  /\ \E status \in reports : reports' = reports \ {status}
  /\ lost' = lost + 1
  /\ UNCHANGED <<txVars, rx, delivered, early>>

\* Something can still be done: an SDU, a task, a PDU, a report or a timer is
\* pending, or the transmitter has a PDU for the next grant.
Busy ==
  \/ tx.arrived < Len(Lens) \/ tx.pending_buffer_state \/ tx.poll_retransmit_timer
  \/ /\ ~tx.max_retx_reached
     /\ \/ tx.retx_queue # <<>> \/ tx.sn_under_segmentation # INVALID_RLC_SN
        \/ tx.sdu_queue # <<>> /\ ~is_tx_window_full(tx)
  \/ rx.do_status \/ rx.reassembly_timer \/ data # {} \/ reports # {}

\* The bearer is at rest.
Idle == ~Busy /\ UNCHANGED vars

Next ==
  \/ HandleSdu \/ DiscardSdu \/ UpdateBufferState \/ Pull \/ HandleDataPdu
  \/ SendStatus \/ HandleStatusPdu \/ PollRetransmitExpires \/ ReassemblyExpires
  \/ LoseData \/ LoseStatus \/ Idle

Spec == Init /\ [][Next]_vars

\* The system goes on while it is busy: the scheduler serves a bearer that has
\* something to send, executors run their tasks, running timers expire, and a PDU
\* that is not lost arrives.  This is weak fairness of Next with Busy for ENABLED:
\* TLC's deadlock check shows that a busy bearer always has a step.
Fairness == []<>~Busy \/ []<><<TRUE>>_vars

LiveSpec == Spec /\ Fairness

-----------------------------------------------------------------------------
Sn == 0 .. Mod - 1
Sdu == 1 .. Len(Lens)

\* Types of the state of both sides.
TypeOK ==
  /\ tx.arrived \in 0 .. Len(Lens) /\ tx.acked \subseteq Sdu
  /\ {tx.tx_next, tx.tx_next_ack, tx.poll_sn} \subseteq Sn
  /\ DOMAIN tx.tx_window \subseteq Sn
  /\ \A sn \in DOMAIN tx.tx_window :
       /\ tx.tx_window[sn].next_so \in 0 .. Lens[tx.tx_window[sn].id]
       /\ tx.tx_window[sn].retx_count >= RETX_COUNT_NOT_STARTED
  /\ {tx.sn_under_segmentation, tx.retx_sn} \subseteq Sn \cup {INVALID_RLC_SN}
  /\ {rx.rx_next, rx.rx_next_highest, rx.rx_highest_status, rx.rx_next_status_trigger}
       \subseteq Sn
  /\ \A pdu \in data : pdu.sn \in Sn /\ pdu.len >= 1 /\ pdu.so + pdu.len <= Lens[pdu.id]

\* Upper layers get every SDU at most once and in one piece, although SNs are
\* reused: no segment of another SDU with the same SN is mixed in.
DeliveredOnce ==
  /\ \A i \in DOMAIN delivered : Cardinality(delivered[i]) = 1
  /\ \A i, j \in DOMAIN delivered : delivered[i] = delivered[j] => i = j

\* PDCP is told that an SDU was delivered (on_delivered_sdu) only when the peer
\* passed it to its upper layers.
AckedDelivered == \A id \in tx.acked : {id} \in Range(delivered)

\* The sequence numbers of both sides stay in order: TX_Next_Ack <= RX_Next <=
\* RX_Highest_Status <= RX_Next_Highest <= TX_Next + 1, within one window.
WindowsAgree ==
  LET next == tx_mod_base(tx, rx.rx_next)
  IN  /\ next <= tx_mod_base(tx, tx.tx_next)
      /\ rx_mod_base(rx, rx.rx_highest_status) <= rx_mod_base(rx, rx.rx_next_highest)
      /\ rx_mod_base(rx, rx.rx_next_highest) <= WindowSize
      /\ next + rx_mod_base(rx, rx.rx_next_highest) <= tx_mod_base(tx, tx.tx_next) + 1

\* The window holds the SNs from TX_Next_Ack to TX_Next, TX_Next itself only while
\* its SDU is under segmentation, and a ReTx covers bytes of its SDU: the sanity
\* checks of pull_pdu() and of its build_ functions never fail.
TxSane ==
  LET seg == tx.sn_under_segmentation
  IN  /\ DOMAIN tx.tx_window =
           {sn \in Sn : tx_mod_base(tx, sn) < tx_mod_base(tx, tx.tx_next)}
             \cup (IF seg = INVALID_RLC_SN THEN {} ELSE {tx.tx_next})
      /\ seg # INVALID_RLC_SN =>
           seg = tx.tx_next /\ tx.tx_window[seg].next_so \in 1 .. SduLength(tx, seg) - 1
      /\ \A i \in DOMAIN tx.retx_queue : LET retx == tx.retx_queue[i] IN
           has_sn(tx, retx.sn) => retx.len >= 1 /\ retx.so + retx.len <= SduLength(tx, retx.sn)

\* The peers never disagree: a report that passes the check of ACK_SN names no SN
\* that the transmitter does not hold, so on_protocol_failure() is not called and
\* every acknowledged SN is found; and while t-Reassembly runs the SDU before
\* RX_Next_Status_Trigger is in the window, where handle_data_pdu() looks for gaps.
NoProtocolFailure ==
  /\ ~tx.on_protocol_failure
  /\ \A status \in reports : valid_ack_sn(tx, status.ack_sn) =>
       \A k \in 0 .. tx_mod_base(tx, status.ack_sn) - 1 : has_sn(tx, (tx.tx_next_ack + k) % Mod)
  /\ rx.reassembly_timer /\ rx_mod_base(rx, rx.rx_next_status_trigger) > 0 =>
       rx.rx_window[(rx.rx_next_status_trigger - 1) % Mod] # <<>>

\* The bearer never waits in silence: when SDUs are unacknowledged, nothing is
\* left to send and nothing under way, t-PollRetransmit or t-Reassembly runs.
NoSilentStall ==
  AirEmpty /\ DOMAIN tx.tx_window # {} /\ BuffersEmpty(tx) /\ ~tx.max_retx_reached =>
    tx.poll_retransmit_timer \/ rx.reassembly_timer

\* Every SDU is delivered and acknowledged, whatever is lost on the way, or the
\* transmitter gives up and tells RRC.
AllAcknowledged == <>(tx.acked = Sdu \/ tx.on_max_retx)

=============================================================================
