---------------------------- MODULE RlcAmWindow ----------------------------
(***************************************************************************)
(* What both sides of an RLC AM bearer agree on: the size of the window    *)
(* and the SN the bearer is at.  A bearer starts with SN 0; a bearer whose *)
(* SDUs were all acknowledged is in the same state with another SN.        *)
(***************************************************************************)
EXTENDS RlcStatusPdu, SequencesExt, FiniteSetsExt

CONSTANTS WindowSize,  \* AM_Window_Size
          Start        \* SN of the first SDU

ASSUME WindowAssumption ==
  WindowSize \in 1 .. Mod \div 2 /\ Start \in 0 .. Mod - 1

=============================================================================
