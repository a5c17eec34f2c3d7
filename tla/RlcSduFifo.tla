----------------------------- MODULE RlcSduFifo -----------------------------
(***************************************************************************)
(* What the RLC transmit queue promises to its two users, as the class     *)
(* comment of rlc_sdu_queue_lockfree states it: SDUs are read in the order *)
(* in which they were written, an SDU that was discarded is never read,    *)
(* and no other SDU disappears.                                            *)
(*                                                                         *)
(* buf is the sequence of buffered SDUs that are not discarded; out is the *)
(* SDU most recently returned by read(), and gone the PDCP SN of the most  *)
(* recent successful try_discard().                                        *)
(***************************************************************************)
EXTENDS Integers, Sequences

CONSTANTS Sdu,    \* the SDUs upper layers may write: records with fields sn and size
          NoSdu,  \* the value of out before the first read
          NoSn    \* the sn of an SDU without PDCP SN, which cannot be discarded

VARIABLES buf, out, gone

absVars == <<buf, out, gone>>

AbsInit ==
  /\ buf = <<>>
  /\ out = NoSdu
  /\ gone = NoSn

AbsWrite(s) ==
  /\ buf' = Append(buf, s)
  /\ UNCHANGED <<out, gone>>

\* A discard removes one SDU, wherever it is in the queue.
AbsDiscard(i) ==
  /\ buf[i].sn # NoSn
  /\ gone' = buf[i].sn
  /\ buf' = SubSeq(buf, 1, i - 1) \o SubSeq(buf, i + 1, Len(buf))
  /\ UNCHANGED out

AbsRead ==
  /\ buf # <<>>
  /\ out' = Head(buf)
  /\ buf' = Tail(buf)
  /\ UNCHANGED gone

AbsNext ==
  \/ \E s \in Sdu : AbsWrite(s)
  \/ \E i \in 1 .. Len(buf) : AbsDiscard(i)
  \/ AbsRead

AbsSpec == AbsInit /\ [][AbsNext]_absVars
=============================================================================
