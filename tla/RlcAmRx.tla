------------------------------ MODULE RlcAmRx ------------------------------
(***************************************************************************)
(* The receiving side of an RLC AM bearer                                  *)
(* (lib/rlc/rlc_rx_am_entity.cpp).                                         *)
(*                                                                         *)
(* rx is the state of the entity: the state variables of TS 38.322, the    *)
(* window (SN to segments; <<>> is an SN that is not in it), the SDUs that *)
(* the segments of each SN came from (src), t-Reassembly, do_status and    *)
(* the status report last built.  delivered is the sequence of SDUs passed *)
(* to upper layers, reports the set of status PDUs on their way to the     *)
(* peer.  passed counts the SDUs that RX_Next passed, without wrapping; it *)
(* and the n of a report only bound how late a PDU may arrive (RlcAmLink). *)
(* PDUs and timers are handled in the UE executor, hence each handler is   *)
(* one step; RlcAmStatus looks into the hand-over of reports to the        *)
(* transmitter.                                                            *)
(***************************************************************************)
EXTENDS RlcStatusReport, RlcAmWindow

CONSTANTS MaxSnPerReport,  \* max_nof_sn_per_status_report
          StatusSpaces     \* the sizes of grants a status PDU may get

ASSUME RxAssumption ==
  /\ MaxSnPerReport \in 1 .. WindowSize
  /\ StatusSpaces \subseteq {n \in Nat : n >= HeaderSize}

VARIABLES rx, delivered, reports

RxInit ==
  /\ rx = [rx_next |-> Start, rx_next_highest |-> Start, rx_highest_status |-> Start,
           rx_next_status_trigger |-> Start,
           rx_window |-> [sn \in 0 .. Mod - 1 |-> <<>>],
           src |-> [sn \in 0 .. Mod - 1 |-> {}],
           passed |-> 0, reassembly_timer |-> FALSE,
           do_status |-> FALSE, status |-> EmptyPdu(Start)]
  /\ delivered = <<>>
  /\ reports = {}

-----------------------------------------------------------------------------
rx_mod_base(r, sn) == (sn - r.rx_next) % Mod

inside_rx_window(r, sn) == rx_mod_base(r, sn) < WindowSize

Complete(r, sn) == fully_received(r.rx_window[sn])

\* The first SN from sn on that is not complete; the loops stop at RX_Next_Highest.
FirstIncomplete(r, sn) ==
  LET ends == {k \in 0 .. Mod : LET x == (sn + k) % Mod IN
                 rx_mod_base(r, x) >= rx_mod_base(r, r.rx_next_highest) \/ ~Complete(r, x)}
  IN  (sn + Min(ends)) % Mod

refresh_status_report_one_past(r) ==
  LET wanted == rx_mod_base(r, r.rx_highest_status) + 1
      n == IF wanted > MaxSnPerReport THEN MaxSnPerReport ELSE wanted
  IN  [r EXCEPT !.status = status_report(r.rx_window, r.rx_next, n)]

\* refresh_status_report().
refresh_status_report(r) ==
  LET wanted == rx_mod_base(r, r.rx_highest_status)
      n == IF wanted > MaxSnPerReport THEN MaxSnPerReport ELSE wanted
  IN  [r EXCEPT !.status = status_report(r.rx_window, r.rx_next, n)]

Store_highest_lowered(r, pdu) ==
  LET segment == [so |-> pdu.so, len |-> pdu.len, last |-> pdu.last]
  IN  [r EXCEPT !.rx_window[pdu.sn] = IF pdu.so = 0 /\ pdu.last THEN <<segment>>
                                      ELSE store_segment(@, segment).segments,
                !.src[pdu.sn] = IF pdu.so = 0 /\ pdu.last THEN {pdu.id} ELSE @ \cup {pdu.id},
                !.rx_next_highest = (pdu.sn + 1) % Mod]

\* handle_full_data_sdu() and handle_segment_data_sdu(), and RX_Next_Highest.
Store(r, pdu) ==
  LET segment == [so |-> pdu.so, len |-> pdu.len, last |-> pdu.last]
  IN  [r EXCEPT !.rx_window[pdu.sn] = IF pdu.so = 0 /\ pdu.last THEN <<segment>>
                                      ELSE store_segment(@, segment).segments,
                !.src[pdu.sn] = IF pdu.so = 0 /\ pdu.last THEN {pdu.id} ELSE @ \cup {pdu.id},
                !.rx_next_highest = IF rx_mod_base(r, pdu.sn) >= rx_mod_base(r, @)
                                    THEN (pdu.sn + 1) % Mod ELSE @]

\* RX_Highest_Status and then RX_Next move past complete SDUs, which leave the
\* window when RX_Next passes them.
Advance(r, sn) ==
  LET status == IF sn = r.rx_highest_status THEN FirstIncomplete(r, (sn + 1) % Mod)
                ELSE r.rx_highest_status
      next == IF sn = r.rx_next THEN FirstIncomplete(r, sn) ELSE r.rx_next
      passed == {x \in 0 .. Mod - 1 : rx_mod_base(r, x) < rx_mod_base(r, next)}
  IN  [r EXCEPT !.rx_highest_status = status,
                !.rx_next = next, !.passed = @ + rx_mod_base(r, next),
                !.rx_window = [x \in DOMAIN @ |-> IF x \in passed THEN <<>> ELSE @[x]],
                !.src = [x \in DOMAIN @ |-> IF x \in passed THEN {} ELSE @[x]]]

\* t-Reassembly is stopped when what it waits for has arrived ...
StopReassembly(r) ==
  LET stop == \/ r.rx_next_status_trigger = r.rx_next
              \/ /\ rx_mod_base(r, r.rx_next_status_trigger) = rx_mod_base(r, r.rx_next + 1)
                 /\ ~has_gap(r.rx_window[r.rx_next])
              \/ ~inside_rx_window(r, r.rx_next_status_trigger)
  IN  [r EXCEPT !.reassembly_timer = @ /\ ~stop]

\* ... and started when something is missing after sn: RX_Next when a PDU
\* arrived, RX_Highest_Status when the timer expired.
StartReassembly(r, sn) ==
  LET start == /\ ~r.reassembly_timer
               /\ \/ rx_mod_base(r, r.rx_next_highest) > rx_mod_base(r, sn + 1)
                  \/ /\ rx_mod_base(r, r.rx_next_highest) = rx_mod_base(r, sn + 1)
                     /\ has_gap(r.rx_window[sn])
  IN  [r EXCEPT !.reassembly_timer = @ \/ start,
                !.rx_next_status_trigger = IF start THEN r.rx_next_highest ELSE @]

\* The window after a PDU inside it.
Placed(r, pdu) ==
  LET stored == Store(r, pdu)
      moved == IF Complete(stored, pdu.sn) THEN Advance(stored, pdu.sn) ELSE stored
      stopped == StopReassembly(moved)
  IN  StartReassembly(stopped, stopped.rx_next)

Changed(r, pdu) ==
  \/ pdu.so = 0 /\ pdu.last
  \/ store_segment(r.rx_window[pdu.sn], [so |-> pdu.so, len |-> pdu.len, last |-> pdu.last]).stored

\* A report is rebuilt when the window changed or a report is requested.
Reported(r, changed, requested) ==
  LET u == IF changed \/ requested THEN refresh_status_report(r) ELSE r
  IN  [u EXCEPT !.do_status = @ \/ requested]

handle_data_pdu_accepts_all(pdu) ==
  LET placed == ~Complete(rx, pdu.sn)
  IN  /\ rx' = Reported(IF placed THEN Placed(rx, pdu) ELSE rx,
                        placed /\ Changed(rx, pdu), pdu.p)
      /\ delivered' = IF placed /\ Complete(Store(rx, pdu), pdu.sn)
                      THEN Append(delivered, Store(rx, pdu).src[pdu.sn]) ELSE delivered
      /\ UNCHANGED reports

\* handle_data_pdu(): the poll bit counts even when the PDU itself is dropped,
\* because it is outside of the window or a duplicate.
handle_data_pdu(pdu) ==
  LET placed == inside_rx_window(rx, pdu.sn) /\ ~Complete(rx, pdu.sn)
  IN  /\ rx' = Reported(IF placed THEN Placed(rx, pdu) ELSE rx,
                        placed /\ Changed(rx, pdu), pdu.p)
      /\ delivered' = IF placed /\ Complete(Store(rx, pdu), pdu.sn)
                      THEN Append(delivered, Store(rx, pdu).src[pdu.sn]) ELSE delivered
      /\ UNCHANGED reports

\* on_expired_reassembly_timer().
on_expired_reassembly_timer ==
  /\ rx.reassembly_timer
  /\ LET r == [rx EXCEPT !.reassembly_timer = FALSE]
         waited == [r EXCEPT !.rx_highest_status = FirstIncomplete(r, r.rx_next_status_trigger)]
         started == StartReassembly(waited, waited.rx_highest_status)
     IN  rx' = IF rx_mod_base(r, r.rx_next_status_trigger) \in 1 .. WindowSize
               THEN Reported(started, TRUE, TRUE)
               ELSE r
  /\ UNCHANGED <<delivered, reports>>

\* pull_pdu() sends the status report that was last built, cut to the grant.
send_status(space) ==
  /\ rx.do_status
  /\ rx' = [rx EXCEPT !.do_status = FALSE]
  /\ LET pdu == trim(rx.status, space)
     IN  reports' = reports \cup {[ack_sn |-> pdu.ack_sn, nacks |-> pdu.nacks,
                                    n |-> rx.passed + rx_mod_base(rx, pdu.ack_sn)]}
  /\ UNCHANGED delivered

=============================================================================
