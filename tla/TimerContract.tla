--------------------------- MODULE TimerContract ---------------------------
(***************************************************************************)
(* What the owner of a unique_timer may rely on (timers.h): a timer        *)
(* expires only while it is running, never before the duration of the      *)
(* last run() or set(), and never after stop() or destruction.             *)
(***************************************************************************)
EXTENDS Integers

CONSTANTS Timer, Durations, INVALID_DURATION, MaxAge

VARIABLES state, duration, handle, age

vars == <<state, duration, handle, age>>

CInit ==
  /\ state = [t \in Timer |-> "stopped"]
  /\ duration \in [Timer -> {INVALID_DURATION}]
  /\ handle = [t \in Timer |-> FALSE]
  /\ age = [t \in Timer |-> 0]

CCreate(t) ==
  /\ ~handle[t] /\ duration[t] = INVALID_DURATION
  /\ handle' = [handle EXCEPT ![t] = TRUE]
  /\ UNCHANGED <<state, duration, age>>

CSet(t, d) ==
  /\ handle[t]
  /\ duration' = [duration EXCEPT ![t] = d]
  /\ age' = [age EXCEPT ![t] = 0]
  /\ UNCHANGED <<state, handle>>

CRun(t) ==
  /\ handle[t] /\ duration[t] # INVALID_DURATION
  /\ state' = [state EXCEPT ![t] = "running"]
  /\ age' = [age EXCEPT ![t] = 0]
  /\ UNCHANGED <<duration, handle>>

CStop(t) ==
  /\ handle[t] /\ state[t] = "running"
  /\ state' = [state EXCEPT ![t] = "stopped"]
  /\ age' = [age EXCEPT ![t] = 0]
  /\ UNCHANGED <<duration, handle>>

CDestroy(t) ==
  /\ handle[t]
  /\ handle' = [handle EXCEPT ![t] = FALSE]
  /\ state' = [state EXCEPT ![t] = "stopped"]
  /\ age' = [age EXCEPT ![t] = 0]
  /\ UNCHANGED duration

\* A destroyed timer becomes reusable.
CRecycle(t) ==
  /\ ~handle[t]
  /\ duration' = [duration EXCEPT ![t] = INVALID_DURATION]
  /\ UNCHANGED <<state, handle, age>>

\* A tick counts for a running timer unless its start is still being announced.
CTick ==
  /\ \E S \in SUBSET {t \in Timer : state[t] = "running" /\ age[t] < MaxAge} :
       age' = [t \in Timer |-> IF t \in S THEN age[t] + 1 ELSE age[t]]
  /\ UNCHANGED <<state, duration, handle>>

CExpire(t) ==
  /\ handle[t] /\ state[t] = "running"
  /\ age[t] >= 1 /\ age[t] >= duration[t]
  /\ state' = [state EXCEPT ![t] = "expired"]
  /\ age' = [age EXCEPT ![t] = 0]
  /\ UNCHANGED <<duration, handle>>

CNext ==
  \/ CTick
  \/ \E t \in Timer :
       \/ CCreate(t) \/ CRun(t) \/ CStop(t) \/ CDestroy(t) \/ CRecycle(t)
       \/ CExpire(t)
       \/ \E d \in Durations : CSet(t, d)

CSpec == CInit /\ [][CNext]_vars
=============================================================================
