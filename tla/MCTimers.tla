------------------------------ MODULE MCTimers ------------------------------
(***************************************************************************)
(* The timer service for TLC, and the contract it implements.              *)
(***************************************************************************)
EXTENDS Timers

Contract == INSTANCE TimerContract

\* The service keeps the contract of unique_timer: a callback takes effect only
\* while the timer runs, after its duration, once per run, and never after
\* stop(), a restart or destruction, whatever the clock thread is doing.
KeepsContract == Contract!CSpec
=============================================================================
