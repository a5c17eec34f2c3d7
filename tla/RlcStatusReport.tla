-------------------------- MODULE RlcStatusReport --------------------------
(***************************************************************************)
(* refresh_status_report() of the RLC AM receiver                          *)
(* (lib/rlc/rlc_rx_am_entity.cpp): the status PDU that a receive window    *)
(* calls for.  A window maps each SN to its segments; the empty sequence   *)
(* is an SN that is not in the window, and an SDU received in one piece is *)
(* a single last segment with offset 0.                                    *)
(***************************************************************************)
EXTENDS RlcRxSegments, RlcStatusPdu

\* last_so after the first i segments.
LastSo(segments, i) == IF i = 0 THEN 0 ELSE LastByte(segments[i]) + 1

\* The loop over the segments of one SDU: every gap before a segment is NACKed.
SegmentLoop(pdu, sn, segments) ==
  LET acc[i \in 0 .. Len(segments)] ==
        IF i = 0 THEN pdu
        ELSE IF segments[i].so = LastSo(segments, i - 1) THEN acc[i - 1]
        ELSE push_nack(acc[i - 1], NackSegment(sn, LastSo(segments, i - 1), segments[i].so - 1))
  IN  acc

\* The NACKs of one SN: the whole SDU when no segment was received, else every
\* gap before a segment, and the tail when the last segment is missing.
PushSdu(pdu, sn, segments) ==
  LET n == Len(segments)
      gaps == SegmentLoop(pdu, sn, segments)[n]
  IN  CASE segments = <<>> -> push_nack(pdu, NackSdu(sn))
        [] segments # <<>> /\ fully_received(segments) -> pdu
        [] OTHER -> IF \E i \in DOMAIN segments : segments[i].last THEN gaps
                    ELSE push_nack(gaps, NackSegment(sn, LastSo(segments, n), SoEnd))

\* The loop over the n SNs from rx_next on.
ReportLoop(window, rx_next, n) ==
  LET acc[i \in 0 .. n] ==
        IF i = 0 THEN EmptyPdu((rx_next + n) % Mod)
        ELSE PushSdu(acc[i - 1], (rx_next + i - 1) % Mod, window[(rx_next + i - 1) % Mod])
  IN  acc

\* The report on the n SNs from rx_next on.
status_report(window, rx_next, n) == ReportLoop(window, rx_next, n)[n]

=============================================================================
