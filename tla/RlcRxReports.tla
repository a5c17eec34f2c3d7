---------------------------- MODULE RlcRxReports ----------------------------
(***************************************************************************)
(* The status reports made of a receive window whose SDUs arrive in        *)
(* segments (lib/rlc/rlc_rx_am_entity.cpp, lib/rlc/rlc_am_pdu.cpp), and    *)
(* what the peer makes of them (lib/rlc/rlc_tx_am_entity.cpp).             *)
(***************************************************************************)
EXTENDS RlcRxReassembly, RlcStatusReport

CONSTANTS First,  \* RX_Next
          N       \* SNs covered by a report

ASSUME ReportsAssumption ==
  /\ First \in 0 .. Mod - 1 /\ N \in 1 .. Mod - 1
  /\ Sns = {(First + i) % Mod : i \in 0 .. N - 1}
  /\ SduLen <= SoEnd

Report == status_report(window, First, N)

\* Every space a status PDU may be given, from the bare header up.
Spaces == HeaderSize .. Report.packed_size

\* The bytes of sn that the transmitter takes as missing.
Nacked(pdu, sn) ==
  LET singles == ExpandNacks(pdu)
  IN  UNION {IF ~singles[i].has_so \/ singles[i].so_end = SoEnd
             THEN singles[i].so_start .. SduLen - 1
             ELSE singles[i].so_start .. singles[i].so_end :
               i \in {j \in DOMAIN singles : singles[j].sn = sn}}

Acked(pdu) == {(First + i) % Mod : i \in 0 .. ((pdu.ack_sn - First) % Mod) - 1}

\* The bytes the peer will retransmit for an untrimmed report are the bytes that
\* are missing: merging NACKs into ranges and taking them apart loses nothing.
ReportExact == \A sn \in Sns : Nacked(Report, sn) = Missing(sn)

\* Trimming never acknowledges data that is missing: an SN below ACK_SN has all
\* its missing bytes NACKed, and none that arrived.
TrimSound ==
  \A space \in Spaces :
    LET pdu == trim(Report, space)
    IN  \A sn \in Acked(pdu) : Nacked(pdu, sn) = Missing(sn)

\* trim() leaves no NACK for an SN from ACK_SN on (comment of trim(): "when
\* removing a NACK for a segment, we have to remove all other NACKs with the same
\* SN as well"); the peer's valid_nack() discards a report that has one.
TrimmedBelowAck ==
  \A space \in Spaces :
    LET pdu == trim(Report, space)
    IN  \A i \in DOMAIN pdu.nacks : LET nack == pdu.nacks[i] IN
          \A k \in 0 .. nack.range - 1 : (nack.sn + k) % Mod \in Acked(pdu)

=============================================================================
