--------------------------- MODULE MCRlcSduQueue ---------------------------
(***************************************************************************)
(* The liveness of RlcSduQueue, and its instance for TLC.                  *)
(***************************************************************************)
EXTENDS RlcSduQueue

\* A slot that is taken becomes free again, so that a later SDU with the same value
\* of [PDCP_SN mod capacity] can be written: no interleaving blocks an SN for good.
SlotReleased == \A i \in Slots : sdu_states[i] # STATE_FREE ~> sdu_states[i] = STATE_FREE
=============================================================================
