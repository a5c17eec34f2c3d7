------------------------- MODULE RlcAmStatusProofs -------------------------
(***************************************************************************)
(* Proofs about the status report exchange, for any number of reports and  *)
(* whether or not t-StatusProhibit is used.                                *)
(***************************************************************************)
EXTENDS RlcAmStatus, TLAPS

\* The initial state satisfies the inductive invariant (constructor).
LEMMA InitIndInv == Init => IndInv
  <1> SUFFICES ASSUME Init PROVE IndInv
    OBVIOUS
  <1>1. TypeOK
    <2>1. status_buf \in [0 .. 2 -> 0 .. MaxVersion] /\ sent \in Seq(0 .. MaxVersion)
      BY VersionAssumption DEF Init
    <2>2. /\ status_owned_by_writer \in 0 .. 2 /\ status_for_exchange \in 0 .. 2
          /\ status_owned_by_reader \in 0 .. 2 /\ run_tasks \in Nat /\ updates \in Nat
          /\ version \in 0 .. MaxVersion /\ req \in 0 .. MaxVersion
      BY VersionAssumption DEF Init
    <2>3. /\ do_status \in BOOLEAN /\ timer_is_running \in BOOLEAN
          /\ requested \in BOOLEAN /\ informed \in BOOLEAN
          /\ pending_buffer_state \in BOOLEAN /\ unheard \in BOOLEAN
      BY Zenon DEF Init
    <2>4. /\ timer \in {"stopped", "running", "expired"}
          /\ wpc \in {"idle", "store", "request", "notify", "wake"}
          /\ rpc \in {"idle", "clear", "defer", "flag", "exchange", "state"}
      BY DEF Init
    <2>5. disturbed \subseteq {"refused", "preempted"}
      BY DEF Init
    <2> QED
      BY <2>1, <2>2, <2>3, <2>4, <2>5 DEF TypeOK
  <1>2. ReportsDisjoint
    BY DEF Init, ReportsDisjoint
  <1>3. RequestCovered
    BY DEF Init, RequestCovered, Fresh
  <1>4. RequestNotLost /\ PendingQueued /\ WakeupNotLost
    BY DEF Init, RequestNotLost, PendingQueued, WakeupNotLost, status_report_required
  <1> QED
    BY <1>1, <1>2, <1>3, <1>4 DEF IndInv

\* Each step keeps the types and the three buffers apart.
LEMMA NextTypeOK == TypeOK /\ [Next]_vars => TypeOK'
  <1> SUFFICES ASSUME TypeOK, [Next]_vars PROVE TypeOK'
    OBVIOUS
  <1> USE VersionAssumption
  <1>1. ASSUME NEW r \in BOOLEAN, Refresh(r) PROVE TypeOK'
    BY <1>1 DEF TypeOK, Refresh, timerVars, wakeVars
  <1>2. CASE Store
    BY <1>2 DEF TypeOK, Store, timerVars, wakeVars
  <1>3. CASE Request
    BY <1>3 DEF TypeOK, Request, timerVars, bufVars, wakeVars
  <1>4. CASE NotifyChanged
    BY <1>4 DEF TypeOK, NotifyChanged, timerVars, bufVars, wakeVars
  <1>5. CASE RunTimer
    BY <1>5 DEF TypeOK, RunTimer, bufVars, wakeVars
  <1>6. CASE ProhibitExpires
    <2>1. disturbed' \subseteq {"refused", "preempted"}
      BY <1>6 DEF TypeOK, ProhibitExpires
    <2> QED
      BY <1>6, <2>1, Zenon DEF TypeOK, ProhibitExpires, bufVars, wakeVars
  <1>7. CASE Pull
    BY <1>7, Zenon DEF TypeOK, Pull, timerVars, bufVars, wakeVars
  <1>8. CASE Clear
    BY <1>8, Zenon DEF TypeOK, Clear, timerVars, bufVars, wakeVars
  <1>9. CASE DeferRun
    <2>1. run_tasks' \in Nat
      BY <1>9 DEF TypeOK, DeferRun
    <2>2. disturbed' = disturbed \/ disturbed' = disturbed \cup {"refused"}
      BY <1>9 DEF DeferRun
    <2>3. disturbed' \subseteq {"refused", "preempted"}
      BY <2>2, Zenon DEF TypeOK
    <2>4. UNCHANGED <<bufVars, do_status, timer_is_running, timer, wpc, requested, version,
                      req, sent, informed, wakeVars>> /\ rpc' = "flag"
      BY <1>9 DEF DeferRun
    <2> QED
      BY <2>1, <2>3, <2>4 DEF TypeOK, bufVars, wakeVars
  <1>10. CASE SetFlag
    BY <1>10 DEF TypeOK, SetFlag, bufVars, wakeVars
  <1>11. CASE Take
    <2>1. sent' \in Seq(0 .. MaxVersion)
      BY <1>11 DEF TypeOK, Take
    <2> QED
      BY <1>11, <2>1 DEF TypeOK, Take, timerVars, wakeVars
  <1>12. ASSUME handle_changed_buffer_state
         PROVE  /\ pending_buffer_state' \in BOOLEAN /\ unheard' \in BOOLEAN /\ updates' \in Nat
    <2>1. updates' = updates \/ updates' = updates + 1
      BY <1>12 DEF handle_changed_buffer_state, wakeVars
    <2>2. updates' \in Nat
      BY <2>1 DEF TypeOK
    <2> QED
      BY <1>12, <2>2, Zenon DEF TypeOK, handle_changed_buffer_state, wakeVars
  <1>13. CASE Wake
    BY <1>12, <1>13, ZenonT(60) DEF TypeOK, Wake, timerVars, bufVars
  <1>14. CASE SduChanged
    BY <1>12, <1>14, ZenonT(60) DEF TypeOK, SduChanged, timerVars, bufVars
  <1>15. CASE UpdateQueued \/ UpdateForced
    <2>1. updates' \in Nat /\ ClearPending
      BY <1>15 DEF TypeOK, UpdateQueued, UpdateForced
    <2> QED
      BY <2>1, Zenon DEF TypeOK, ClearPending, timerVars, bufVars
  <1>16. CASE SendState
    <2>1. informed' \in BOOLEAN
      BY <1>16 DEF SendState, TypeOK, status_report_required
    <2> QED
      BY <1>16, <2>1, Zenon DEF TypeOK, SendState, timerVars, bufVars, wakeVars
  <1>17. CASE UNCHANGED vars
    BY <1>17 DEF TypeOK, vars, timerVars, bufVars, wakeVars
  <1> QED
    BY <1>1, <1>2, <1>3, <1>4, <1>5, <1>6, <1>7, <1>8, <1>9, <1>10, <1>11, <1>13,
       <1>14, <1>15, <1>16, <1>17
    DEF Next, Receiver, Transmitter

\* A report that has been handed out stays handed out.
LEMMA ReportedStays ==
  ASSUME TypeOK, NEW v \in Nat, Reported(v), sent' = sent \/ \E n \in 0 .. MaxVersion : sent' = Append(sent, n)
  PROVE  Reported(v)'
  <1>1. CASE sent' = sent
    BY <1>1 DEF Reported
  <1>2. CASE \E n \in 0 .. MaxVersion : sent' = Append(sent, n)
    <2>1. PICK n \in 0 .. MaxVersion : sent' = Append(sent, n)
      BY <1>2
    <2>2. PICK i \in DOMAIN sent : sent[i] >= v
      BY DEF Reported
    <2>3. i \in DOMAIN sent' /\ sent'[i] = sent[i]
      BY <2>1, <2>2 DEF TypeOK
    <2> QED
      BY <2>2, <2>3 DEF Reported
  <1> QED
    BY <1>1, <1>2

\* The report taken by get_status_pdu() counts as reported.
LEMMA TakeReports ==
  ASSUME TypeOK, Take, NEW v \in Nat, status_buf[status_for_exchange] >= v
  PROVE  Reported(v)'
  <1> DEFINE n == status_buf[status_for_exchange]
  <1>1. n \in 0 .. MaxVersion
    BY DEF TypeOK
  <1>2. sent' = Append(sent, n)
    BY DEF Take
  <1>3. Len(sent) + 1 \in DOMAIN sent' /\ sent'[Len(sent) + 1] = n
    BY <1>1, <1>2 DEF TypeOK
  <1> QED
    BY <1>1, <1>3 DEF Reported

\* Each step keeps the buffers of receiver and transmitter apart.
LEMMA NextReportsDisjoint ==
  ReportsDisjoint /\ [Next]_vars => ReportsDisjoint'
  <1> SUFFICES ASSUME ReportsDisjoint, [Next]_vars PROVE ReportsDisjoint'
    OBVIOUS
  <1>1. CASE Store
    BY <1>1 DEF ReportsDisjoint, Store
  <1>2. CASE Take
    BY <1>2, Zenon DEF ReportsDisjoint, Take
  <1>3. CASE UNCHANGED <<status_owned_by_writer, status_for_exchange,
                         status_owned_by_reader>>
    BY <1>3 DEF ReportsDisjoint
  <1> QED
    BY <1>1, <1>2, <1>3
    DEF Next, Receiver, Transmitter, Refresh, Request, NotifyChanged, RunTimer,
        ProhibitExpires, Pull, Clear, DeferRun, SetFlag, Wake, SduChanged, UpdateQueued,
        UpdateForced, ClearPending, SendState, vars, bufVars

\* Each step keeps unanswered requests covered: the receiver stores the report
\* before it raises do_status, and takes leave what they took reported.
LEMMA NextRequestCovered ==
  TypeOK /\ ReportsDisjoint /\ RequestCovered /\ [Next]_vars => RequestCovered'
  <1> SUFFICES ASSUME TypeOK, ReportsDisjoint, RequestCovered, [Next]_vars
               PROVE  RequestCovered'
    OBVIOUS
  <1> USE VersionAssumption
  <1>n. req \in Nat /\ version \in Nat
    BY DEF TypeOK
  <1>d. status_owned_by_writer # status_for_exchange
    <2>1. 0 \in 0 .. 2 /\ 1 \in 0 .. 2 /\ 2 \in 0 .. 2
      OBVIOUS
    <2>2. \A i \in {0, 1, 2} : i \in {status_owned_by_writer, status_for_exchange,
                                       status_owned_by_reader}
      BY <2>1 DEF ReportsDisjoint
    <2> QED
      BY <2>2
  <1>1. ASSUME NEW r \in BOOLEAN, Refresh(r) PROVE RequestCovered'
    <2>1. status_buf'[status_for_exchange] = status_buf[status_for_exchange]
      BY <1>1, <1>d DEF Refresh, TypeOK
    <2>2. Fresh(req)'
      BY <1>1, <2>1 DEF Refresh, RequestCovered, Fresh, Reported
    <2>3. status_buf'[status_owned_by_writer] = version + 1
      BY <1>1 DEF Refresh, TypeOK
    <2> QED
      BY <1>1, <1>n, <2>2, <2>3 DEF Refresh, RequestCovered
  <1>2. CASE Store
    <2>1. status_buf'[status_for_exchange'] = version
      BY <1>2 DEF Store, RequestCovered
    <2>2. Fresh(req)' /\ Fresh(version)'
      BY <1>2, <1>n, <2>1 DEF Store, RequestCovered, Fresh
    <2> QED
      BY <1>2, <2>2 DEF Store, RequestCovered
  <1>3. CASE Request
    BY <1>3, <1>n DEF Request, RequestCovered, Fresh, Reported, bufVars
  <1>4. CASE Take
    <2>1. \A v \in Nat : Fresh(v) => Fresh(v)'
      <3> SUFFICES ASSUME NEW v \in Nat, Fresh(v) PROVE Reported(v)'
        BY DEF Fresh
      <3>1. CASE Reported(v)
        <4>1. \E n \in 0 .. MaxVersion : sent' = Append(sent, n)
          BY <1>4 DEF Take, TypeOK
        <4> QED
          BY <3>1, <4>1, ReportedStays
      <3>2. CASE status_buf[status_for_exchange] >= v
        BY <3>2, <1>4, TakeReports
      <3> QED
        BY <3>1, <3>2 DEF Fresh
    <2>2. version' = version /\ req' = req /\ wpc' = wpc /\ status_buf' = status_buf
          /\ status_owned_by_writer' = status_owned_by_writer
      BY <1>4 DEF Take
    <2>3. Fresh(req)' /\ (wpc = "request" => Fresh(version)')
      BY <1>n, <2>1, <2>2 DEF RequestCovered, Fresh
    <2> QED
      BY <2>2, <2>3 DEF RequestCovered, Fresh
  <1>5. CASE /\ UNCHANGED <<bufVars, version, req, sent>>
             /\ wpc' = wpc \/ wpc' \in {"notify", "wake", "idle"}
    BY <1>5 DEF RequestCovered, Fresh, Reported, bufVars
  <1> QED
    BY <1>1, <1>2, <1>3, <1>4, <1>5
    DEF Next, Receiver, Transmitter, NotifyChanged, RunTimer, ProhibitExpires,
        Pull, Clear, DeferRun, SetFlag, Wake, SduChanged, UpdateQueued, UpdateForced,
        ClearPending, SendState, vars

\* Each step keeps requests from being forgotten: only get_status_pdu() lowers
\* do_status, and it takes the report afterwards.
LEMMA NextRequestNotLost ==
  TypeOK /\ RequestCovered /\ RequestNotLost /\ [Next]_vars => RequestNotLost'
  <1> SUFFICES ASSUME TypeOK, RequestCovered, RequestNotLost, [Next]_vars
               PROVE  RequestNotLost'
    OBVIOUS
  <1>1. CASE Request
    BY <1>1 DEF Request, RequestNotLost
  <1>2. CASE Take
    <2>1. req \in Nat /\ req' = req
      BY <1>2 DEF TypeOK, Take
    <2>2. Reported(req)'
      <3>1. CASE Reported(req)
        <4>1. \E n \in 0 .. MaxVersion : sent' = Append(sent, n)
          BY <1>2 DEF Take, TypeOK
        <4> QED
          BY <2>1, <3>1, <4>1, ReportedStays DEF Reported
      <3>2. CASE status_buf[status_for_exchange] >= req
        BY <1>2, <2>1, <3>2, TakeReports DEF Reported
      <3> QED
        BY <3>1, <3>2 DEF RequestCovered, Fresh
    <2> QED
      BY <2>2 DEF RequestNotLost
  <1>3. CASE Clear
    BY <1>3 DEF Clear, RequestNotLost, Reported
  <1>4. CASE DeferRun \/ SetFlag
    BY <1>4 DEF DeferRun, SetFlag, RequestNotLost, Reported
  <1>5. CASE Pull
    BY <1>5 DEF Pull, RequestNotLost, Reported
  <1>6. CASE /\ UNCHANGED <<do_status, req, sent>>
             /\ rpc' = rpc \/ rpc \in {"idle", "state"}
    BY <1>6 DEF RequestNotLost, Reported
  <1> QED
    BY <1>1, <1>2, <1>3, <1>4, <1>5, <1>6
    DEF Next, Receiver, Transmitter, Refresh, Store, NotifyChanged, RunTimer,
        ProhibitExpires, Wake, SduChanged, UpdateQueued, UpdateForced, ClearPending,
        SendState, vars

\* Each step keeps the flag of handle_changed_buffer_state() backed by a task.
LEMMA NextPendingQueued ==
  TypeOK /\ PendingQueued /\ [Next]_vars => PendingQueued'
  <1> SUFFICES ASSUME TypeOK, PendingQueued, [Next]_vars PROVE PendingQueued'
    OBVIOUS
  <1> USE DEF PendingQueued
  <1>1. CASE handle_changed_buffer_state
    <2>1. updates' = updates + 1 => updates' > 0
      BY DEF TypeOK
    <2> QED
      BY <1>1, <2>1, Zenon DEF handle_changed_buffer_state, wakeVars
  <1>2. CASE ClearPending
    BY <1>2 DEF ClearPending
  <1>3. CASE UNCHANGED wakeVars
    BY <1>3 DEF wakeVars
  <1> QED
    BY <1>1, <1>2, <1>3
    DEF Next, Receiver, Transmitter, Refresh, Store, Request, NotifyChanged, Wake, SduChanged,
        RunTimer, ProhibitExpires, Pull, Clear, DeferRun, SetFlag, Take, UpdateQueued,
        UpdateForced, SendState, vars

\* Each step keeps the scheduler informed of a report that may be sent.
LEMMA NextWakeupNotLost ==
  TypeOK /\ PendingQueued /\ WakeupNotLost /\ [Next]_vars => WakeupNotLost'
  <1> SUFFICES ASSUME TypeOK, PendingQueued, WakeupNotLost, [Next]_vars PROVE WakeupNotLost'
    OBVIOUS
  <1> USE DEF WakeupNotLost, status_report_required
  <1>1. ASSUME NEW r \in BOOLEAN, Refresh(r) PROVE WakeupNotLost'
    BY <1>1 DEF Refresh, timerVars, wakeVars
  <1>2. CASE Store
    BY <1>2 DEF Store, timerVars, wakeVars
  <1>3. CASE Request
    BY <1>3 DEF Request
  <1>4. CASE NotifyChanged
    BY <1>4 DEF NotifyChanged, timerVars, wakeVars
  <1>5. CASE RunTimer
    BY <1>5 DEF RunTimer, wakeVars
  <1>6. CASE ProhibitExpires
    BY <1>6 DEF ProhibitExpires
  <1>7. CASE Pull
    BY <1>7 DEF Pull, timerVars
  <1>8. CASE Clear
    BY <1>8 DEF Clear
  <1>9. CASE DeferRun
    BY <1>9 DEF DeferRun, wakeVars
  <1>10. CASE SetFlag
    BY <1>10 DEF SetFlag
  <1>11. CASE Take
    BY <1>11 DEF Take, timerVars, wakeVars
  <1>12. CASE Wake
    <2>1. unheard' \/ updates' > 0
      BY <1>12 DEF Wake, handle_changed_buffer_state, wakeVars, PendingQueued, TypeOK
    <2> QED
      BY <2>1
  <1>13. CASE SduChanged
    <2>1. UNCHANGED <<do_status, timer_is_running, informed, wpc, rpc>>
      BY <1>13 DEF SduChanged, timerVars
    <2>2. (updates > 0 => updates' > 0) /\ (unheard => unheard')
      BY <1>13 DEF SduChanged, handle_changed_buffer_state, wakeVars, TypeOK
    <2> QED
      BY <2>1, <2>2
  <1>14. CASE UpdateQueued \/ UpdateForced
    BY <1>14, Zenon DEF UpdateQueued, UpdateForced, ClearPending
  <1>15. CASE SendState
    BY <1>15, Zenon DEF SendState, timerVars
  <1>16. CASE UNCHANGED vars
    BY <1>16 DEF vars, timerVars, wakeVars
  <1> QED
    BY <1>1, <1>2, <1>3, <1>4, <1>5, <1>6, <1>7, <1>8, <1>9, <1>10, <1>11, <1>12, <1>13,
       <1>14, <1>15, <1>16
    DEF Next, Receiver, Transmitter

\* IndInv is an invariant of the exchange.
THEOREM IndInvHolds == Spec => []IndInv
  <1>1. IndInv /\ [Next]_vars => IndInv'
    BY NextTypeOK, NextReportsDisjoint, NextRequestCovered, NextRequestNotLost,
       NextPendingQueued, NextWakeupNotLost DEF IndInv
  <1> QED
    BY InitIndInv, <1>1, PTL DEF Spec

\* Receiver and transmitter never work on the same status report.
THEOREM ReportsDisjointHolds == Spec => []ReportsDisjoint
  <1>1. IndInv => ReportsDisjoint
    BY DEF IndInv
  <1> QED
    BY IndInvHolds, <1>1, PTL

\* A requested status report is never forgotten.
THEOREM RequestNotLostHolds == Spec => []RequestNotLost
  <1>1. IndInv => RequestNotLost
    BY DEF IndInv
  <1> QED
    BY IndInvHolds, <1>1, PTL

\* The scheduler learns that a status report may be sent, unless the cell executor
\* refuses the task that would tell it: until the flag is next cleared.
THEOREM WakeupNotLostHolds == Spec => []WakeupNotLost
  <1>1. IndInv => WakeupNotLost
    BY DEF IndInv
  <1> QED
    BY IndInvHolds, <1>1, PTL

\* Each step keeps the flag, raised or about to be, backed by the timer.
LEMMA NextFlagCovered == TypeOK /\ FlagCovered /\ [Next]_vars => FlagCovered'
  <1> SUFFICES ASSUME TypeOK, FlagCovered, [Next]_vars PROVE FlagCovered'
    OBVIOUS
  <1> USE DEF FlagCovered
  <1>1. CASE RunTimer
    BY <1>1 DEF RunTimer
  <1>2. CASE ProhibitExpires
    <2>1. timer_is_running' = FALSE /\ rpc' = rpc
      BY <1>2 DEF ProhibitExpires
    <2>2. CASE rpc = "flag"
      BY <1>2, <2>2 DEF ProhibitExpires
    <2>3. CASE rpc # "flag"
      BY <2>1, <2>3
    <2> QED
      BY <2>2, <2>3
  <1>3. CASE DeferRun
    <2>1. CASE run_tasks' = run_tasks + 1
      BY <2>1 DEF TypeOK
    <2>2. CASE disturbed' = disturbed \cup {"refused"}
      BY <2>2
    <2> QED
      BY <1>3, <2>1, <2>2 DEF DeferRun
  <1>4. CASE SetFlag
    BY <1>4 DEF SetFlag
  <1>5. CASE UNCHANGED timerVars /\ (rpc' = rpc \/ rpc' # "flag")
    BY <1>5 DEF timerVars
  <1> QED
    BY <1>1, <1>2, <1>3, <1>4, <1>5
    DEF Next, Receiver, Transmitter, Refresh, Store, Request, NotifyChanged, Pull, Clear,
        Take, Wake, SduChanged, UpdateQueued, UpdateForced, ClearPending, SendState, vars

\* Unless the hand-over is disturbed, the flag that get_status_pdu() raises is
\* always backed by the timer whose expiry lowers it.
THEOREM FlagHasTimerHolds == Spec => []FlagHasTimer
  <1>1. Init => FlagCovered
    BY DEF Init, FlagCovered
  <1>2. TypeOK /\ FlagCovered => FlagHasTimer
    BY DEF FlagCovered, FlagHasTimer, FlagBacked
  <1>3. IndInv => TypeOK
    BY DEF IndInv
  <1> QED
    BY IndInvHolds, NextFlagCovered, <1>1, <1>2, <1>3, PTL DEF Spec
=============================================================================
