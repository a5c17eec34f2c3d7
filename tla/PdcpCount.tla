------------------------------ MODULE PdcpCount ------------------------------
(***************************************************************************)
(* COUNT, sequence number and hyper frame number of a PDCP PDU             *)
(* (lib/pdcp/pdcp_sn.h).  A PDU carries only the sequence number; receiver *)
(* and transmitter recover the COUNT from it and from the lower edge of    *)
(* their window.  The code's 2^sn_size is 2 * Window and its 2^32 is       *)
(* CountCard.                                                              *)
(***************************************************************************)
EXTENDS Integers

CONSTANTS Window,     \* window_size
          CountCard   \* number of COUNT values

ASSUME WindowAssumption == Window \in Nat \ {0}
ASSUME CountCardAssumption == CountCard \in Nat \ {0}

SnCard == 2 * Window

SN(count) == count % SnCard

HFN(count) == count \div SnCard

COUNT(hfn, sn) == ((hfn * SnCard) + sn) % CountCard

count_estimation_no_next_hfn(sn, lower) ==
  COUNT(IF sn >= SN(lower) + Window THEN HFN(lower) - 1 ELSE HFN(lower), sn)

\* The COUNT nearest to the lower edge of the window that has this SN.
count_estimation(sn, lower) ==
  COUNT(CASE sn < SN(lower) - Window -> HFN(lower) + 1
          [] sn >= SN(lower) + Window -> HFN(lower) - 1
          [] OTHER -> HFN(lower), sn)

-----------------------------------------------------------------------------
\* The slot of a COUNT in a window, which is a circular_map of Window slots.
Slot(count) == count % Window
=============================================================================
