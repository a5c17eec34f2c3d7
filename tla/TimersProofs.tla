---------------------------- MODULE TimersProofs ----------------------------
(***************************************************************************)
(* The triple buffer of backend_channel is never shared, and no callback   *)
(* finds its timer stopped: proofs for every set of timers, of durations   *)
(* and every width of the tick counter.                                    *)
(***************************************************************************)
EXTENDS Timers, TLAPS

\* What the invariant says of one timer.
Good(t) == Channel(t) /\ Commands(t) /\ OneRun(t) /\ Signalled(t) /\ Handover(t)

\* All that Good(t) looks at, but for the signals.
SameState(t) ==
  /\ state'[t] = state[t]
  /\ handle'[t] <=> handle[t]
  /\ fpc'[t] = fpc[t] /\ cmd_id'[t] = cmd_id[t] /\ buffers'[t] = buffers[t]
  /\ write_buffer'[t] = write_buffer[t] /\ middle_buffer'[t] = middle_buffer[t]
  /\ read_buffer'[t] = read_buffer[t] /\ got'[t] = got[t] /\ unsaved'[t] = unsaved[t]
  /\ backend'[t] = backend[t] /\ failed'[t] = failed[t] /\ tasks'[t] = tasks[t]
  /\ t \in free_list' <=> t \in free_list

Same(t) ==
  /\ SameState(t)
  /\ signals'[t] = signals[t] /\ batch'[t] = batch[t] /\ tpc' = tpc

Others(t) == \A u \in Timer \ {t} : Same(u)

\* An epoch between two others that are the same is that one.
LEMMA Squeezed ==
  ASSUME NEW e \in Nat, NEW a \in Nat, NEW b \in Nat, e <= a, a <= b
  PROVE  e = b => a = e
OBVIOUS

\* An epoch above another is none of those up to it, and not zero.
LEMMA Apart ==
  /\ \A e, a, f \in Nat : e <= a /\ f > a => f # e
  /\ \A a, f \in Nat : a < f => f > 0
OBVIOUS

\* Of at most one run, the executor takes the last.
LEMMA LastOne ==
  \A x, y \in Nat : y > 0 /\ x + y <= 1 => x + (y - 1) = 0
BY SMTT(60)

\* The tick counter of the timer service wraps.
LEMMA Ticked == ASSUME NEW n \in 0 .. Word - 1 PROVE (n + 1) % Word \in 0 .. Word - 1
  BY WordAssumption

\* A step that leaves a timer alone leaves its invariant alone.
LEMMA StateFrame ==
  ASSUME NEW t \in Timer, Good(t), SameState(t)
  PROVE  /\ Channel(t)' /\ Commands(t)' /\ OneRun(t)' /\ Handover(t)'
         /\ Middle(t)' = Middle(t) /\ (GoingToSignal(t)' <=> GoingToSignal(t))
<1>1. Channel(t)'
  BY DEF Good, SameState, Channel, OwnedByWriter, Written, Middle
<1>2. Commands(t)'
  BY DEF Good, SameState, Commands, Meaning, Written, Middle
<1>3. OneRun(t)'
  BY DEF Good, SameState, OneRun
<1>4. Middle(t)' = Middle(t) /\ (GoingToSignal(t)' <=> GoingToSignal(t))
  BY DEF SameState, Middle, GoingToSignal
<1>5. Handover(t)'
  BY <1>4 DEF Good, SameState, Handover
<1> QED
  BY <1>1, <1>2, <1>3, <1>4, <1>5

LEMMA Frame == ASSUME NEW t \in Timer, Good(t), Same(t) PROVE Good(t)'
<1>1. SameState(t)
  BY DEF Same
<1>2. Signalled(t)'
  BY <1>1, StateFrame DEF Good, Same, Signalled
<1> QED
  BY <1>1, <1>2, StateFrame DEF Good

\* A timer service starts with idle channels and nothing running: the constructor of
\* timer_manager establishes the invariant.
LEMMA InitIndInv == Init => IndInv
<1> SUFFICES ASSUME Init PROVE IndInv
  OBVIOUS
<1>1. Processed \in Cmd /\ ~Processed.pending
  BY BoundAssumption DEF Processed, Cmd, CmdIds, Actions
<1>2. 0 \in CmdIds /\ 0 \in 0 .. Word - 1
  BY BoundAssumption, WordAssumption DEF CmdIds
<1>3. buffers \in [Timer -> [Buffers -> Cmd]] /\ \A t \in Timer, b \in Buffers : ~buffers[t][b].pending
  <2> HIDE DEF Processed
  <2> QED
    BY <1>1 DEF Init
<1>4. Types
  <2>1. /\ write_buffer \in [Timer -> Buffers] /\ middle_buffer \in [Timer -> Buffers]
        /\ read_buffer \in [Timer -> Buffers] /\ got \in [Timer -> Buffers]
    BY DEF Init, Buffers
  <2>2. unsaved \in [Timer -> Buffers \cup {NoBuffer}] /\ raced \in BOOLEAN
    BY ZenonT(30) DEF Init
  <2>3. signals \in [Timer -> Nat] /\ batch \in [Timer -> Nat]
    BY DEF Init
  <2>4. /\ failed \in [Timer -> [CmdIds -> Nat]] /\ tasks \in [Timer -> [CmdIds -> Nat]]
        /\ cur_time \in 0 .. Word - 1 /\ cmd_id \in [Timer -> CmdIds]
    BY <1>2 DEF Init
  <2>5. backend \in [Timer -> [cmd_id : CmdIds, timeout : 0 .. Word - 1,
                               state : {"stopped", "running", "expired"}]]
    BY <1>2 DEF Init
  <2> QED
    BY <1>3, <2>1, <2>2, <2>3, <2>4, <2>5, ZenonT(30) DEF Init, Types
<1>5. ASSUME NEW t \in Timer
      PROVE  Channel(t) /\ Commands(t) /\ OneRun(t) /\ Signalled(t) /\ Handover(t)
  <2>1. /\ write_buffer[t] = 2 /\ middle_buffer[t] = 1 /\ read_buffer[t] = 0
        /\ fpc[t] = "idle" /\ cmd_id[t] = 0 /\ backend[t].cmd_id = 0
        /\ backend[t].state = "stopped" /\ ~handle[t] /\ unsaved[t] = NoBuffer
        /\ signals[t] = 0 /\ batch[t] = 0
        /\ \A e \in CmdIds : failed[t][e] = 0 /\ tasks[t][e] = 0
    BY SMTT(30) DEF Init
  <2>2. ~buffers[t][0].pending /\ ~Middle(t).pending
    BY <2>1, <1>3 DEF Middle, Buffers
  <2>3. Channel(t)
    BY <2>1, <2>2, SMTT(30) DEF Channel, OwnedByWriter, Buffers
  <2>4. Commands(t)
    BY <2>1, <2>2 DEF Commands
  <2>5. OneRun(t)
    BY <2>1 DEF OneRun
  <2>6. Signalled(t) /\ Handover(t)
    BY <2>1, <2>2 DEF Signalled, Handover, GoingToSignal
  <2> QED
    BY <2>3, <2>4, <2>5, <2>6
<1> QED
  BY <1>4, <1>5 DEF IndInv

\* The invariant is strong enough for the assertion in trigger_timeout_handling().
LEMMA RunsInEpoch == IndInv => CallbackFindsRunning
<1> SUFFICES ASSUME IndInv, NEW t \in Timer, NEW e \in CmdIds, tasks[t][e] > 0, cmd_id[t] = e
             PROVE  state[t] = "running"
  BY DEF CallbackFindsRunning
<1>1. failed[t][e] \in Nat /\ tasks[t][e] \in Nat /\ OneRun(t)
  BY DEF IndInv, Types
<1>2. failed[t][e] + tasks[t][e] = 1
  BY <1>1 DEF OneRun
<1> QED
  BY <1>1, <1>2 DEF OneRun

\* The operations of unique_timer that send a command, once push() has filled the
\* writer's buffer: "start" follows a state set to running, "destroy" the end of the
\* handle, and only the first command of a timer is "create".
LEMMA PushOK ==
  ASSUME Types, NEW t \in Timer, NEW a \in Actions,
         NEW d \in Durations \cup {INVALID_DURATION},
         Good(t), Push(t, a, d), UNCHANGED <<backVars, free_list>>,
         duration' \in [Timer -> Durations \cup {INVALID_DURATION}],
         state' \in [Timer -> {"stopped", "running", "expired"}],
         handle' \in [Timer -> BOOLEAN],
         \A u \in Timer \ {t} : state'[u] = state[u] /\ (handle'[u] <=> handle[u]),
         handle[t] \/ cmd_id[t] = 0,
         t \notin free_list,
         a = "start" => state'[t] = "running",
         a = "destroy" => ~handle'[t] /\ state'[t] = "stopped",
         a = "create" => cmd_id[t] = 0
  PROVE  Types' /\ Others(t) /\ OneRun(t)' /\ (~raced' => Good(t)')
<1> DEFINE w == write_buffer[t]
           m == middle_buffer[t]
           r == read_buffer[t]
           n == cmd_id[t] + 1
           c == [pending |-> TRUE, cmd_id |-> n, action |-> a, duration |-> d]
<1>1. /\ w \in Buffers /\ m \in Buffers /\ r \in Buffers
      /\ fpc[t] = "idle" /\ cmd_id[t] \in Nat /\ n \in CmdIds
  <2>1. cmd_id[t] \in CmdIds /\ cmd_id[t] < MaxCmd
    BY DEF Types, Push
  <2>2. cmd_id[t] \in Nat /\ n \in CmdIds
    BY <2>1, BoundAssumption DEF CmdIds
  <2> QED
    BY <2>2 DEF Types, Push
<1>2. ~raced' => unsaved[t] = NoBuffer /\ {w, m, r} = Buffers
  BY <1>1, Zenon DEF Good, Channel, OwnedByWriter, Push
<1>3. ~raced' => w # m /\ w # r
  BY <1>1, <1>2 DEF Buffers
<1>4. c \in Cmd
  BY <1>1 DEF Cmd
<1>5. /\ cmd_id' \in [Timer -> CmdIds] /\ cmd_id'[t] = n
      /\ fpc' \in [Timer -> {"idle", "exchange", "assign", "notify"}]
      /\ fpc'[t] = "exchange"
  BY <1>1 DEF Types, Push
<1>6. /\ buffers' \in [Timer -> [Buffers -> Cmd]]
      /\ buffers'[t][w] = c
      /\ ~raced' => buffers'[t][m] = buffers[t][m] /\ buffers'[t][r] = buffers[t][r]
  <2> HIDE DEF c
  <2>1. buffers' = [buffers EXCEPT ![t] = [@ EXCEPT ![w] = c]]
    BY DEF Push, c
  <2> QED
    BY <2>1, <1>1, <1>3, <1>4 DEF Types
<1>7. w = write_buffer'[t] /\ m = middle_buffer'[t] /\ r = read_buffer'[t]
  BY DEF Push
<1>8. ~raced' =>
        /\ Written(t)' = c /\ Middle(t)' = Middle(t)
        /\ buffers'[t][read_buffer'[t]] = buffers[t][read_buffer[t]]
  BY <1>6, <1>7 DEF Written, Middle
<1>9. c.pending /\ c.cmd_id = n /\ c.action = a
  OBVIOUS
<1> HIDE DEF c
<1> USE DEF backVars
<1>10. backend[t].cmd_id \in Nat /\ Middle(t).cmd_id \in Nat
  <2>1. Middle(t) \in Cmd
    BY <1>1, SMTT(60) DEF Types, Middle
  <2> QED
    BY <2>1, BoundAssumption DEF Types, CmdIds, Cmd
<1>11. ASSUME ~raced' PROVE Channel(t)'
  <2>1. {OwnedByWriter(t), middle_buffer[t], read_buffer[t]}' = Buffers
    BY <1>2, <1>5, <1>7, <1>11, SMTT(60) DEF OwnedByWriter, Push
  <2>2. backend[t].cmd_id < n /\ (Middle(t).pending => Middle(t).cmd_id < n)
    BY <1>1, <1>10 DEF Good, Channel
  <2> QED
    BY <2>1, <2>2, <1>1, <1>5, <1>8, <1>9, <1>10, <1>11 DEF Good, Channel
<1>12. ASSUME ~raced' PROVE Commands(t)'
  <2>1. Middle(t).pending => cmd_id[t] # 0 /\ Middle(t).cmd_id # n /\ Middle(t).action # "destroy"
    BY <1>1, <1>10, SMTT(60) DEF Good, Channel, Commands, Meaning
  <2>2. Middle(t)'.pending => Meaning(t, Middle(t))'
    BY <2>1, <1>5, <1>8, <1>12 DEF Good, Commands, Meaning
  <2>3. cmd_id[t] = 0 => backend[t].state # "running"
    BY <1>10 DEF Good, Channel, Commands
  <2>4. Meaning(t, Written(t))'
    BY <2>3, <1>1, <1>5, <1>8, <1>9, <1>12 DEF Meaning
  <2> QED
    BY <2>2, <2>4 DEF Good, Commands
<1>13. OneRun(t)'
  <2>1. backend[t].cmd_id < n
    BY <1>1, <1>10, SMTT(60) DEF Good, Channel
  <2> QED
    BY <2>1, <1>1, <1>5, <1>10, SMTT(60) DEF Good, OneRun, CmdIds
<1>14. Types'
  BY <1>5, <1>6 DEF Types, Push
<1>15. Others(t)
  BY SMTT(60) DEF Types, Push, Others, Same, SameState
<1>16. ASSUME ~raced' PROVE Signalled(t)' /\ Handover(t)'
  <2>1. ~GoingToSignal(t) /\ ~GoingToSignal(t)'
    BY <1>1, <1>5, SMTT(60) DEF GoingToSignal
  <2>2. Signalled(t)'
    BY <2>1, <1>8, <1>16 DEF Good, Signalled
  <2>3. unsaved'[t] = NoBuffer
    BY <1>2, <1>16 DEF Push
  <2> QED
    BY <2>2, <2>3 DEF Handover
<1> QED
  BY <1>11, <1>12, <1>13, <1>14, <1>15, <1>16 DEF Good

-----------------------------------------------------------------------------
\* The steps of the clock thread and of the executors.

\* The deferred callback: one of the current epoch ends the only run there is.
LEMMA RunCallbackOK ==
  ASSUME Types, NEW t \in Timer, NEW e \in CmdIds, Good(t), RunCallback(t, e)
  PROVE  Types' /\ Good(t)' /\ Others(t)
<1> USE DEF channelVars
<1>1. /\ UNCHANGED <<handle, fpc, cmd_id, buffers, write_buffer, middle_buffer, read_buffer,
                     got, unsaved, free_list, backend, failed, signals, batch, tpc>>
      /\ tasks' = [tasks EXCEPT ![t][e] = @ - 1]
      /\ tasks[t] \in [CmdIds -> Nat] /\ failed[t] \in [CmdIds -> Nat] /\ tasks[t][e] > 0
  BY DEF RunCallback, Types
<1>2. /\ tasks' \in [Timer -> [CmdIds -> Nat]]
      /\ tasks'[t][e] = tasks[t][e] - 1
      /\ \A f \in CmdIds \ {e} : tasks'[t][f] = tasks[t][f]
  BY <1>1 DEF Types
<1>3. IF cmd_id[t] = e THEN fpc[t] = "idle" /\ state' = [state EXCEPT ![t] = "expired"]
                       ELSE state' = state
  BY DEF RunCallback
<1>4. Types' /\ Others(t)
  <2>1. state' \in [Timer -> {"stopped", "running", "expired"}]
    BY <1>3, Zenon DEF Types
  <2>2. Types'
    BY <2>1, <1>2 DEF Types, RunCallback
  <2>3. Others(t)
    BY <1>1, <1>3 DEF Types, Others, Same, SameState
  <2> QED
    BY <2>2, <2>3
<1>5. Middle(t)' = Middle(t) /\ Written(t)' = Written(t) /\ OwnedByWriter(t)' = OwnedByWriter(t)
  BY <1>1 DEF Middle, Written, OwnedByWriter
<1>6. Channel(t)'
  BY <1>1, <1>5 DEF Good, Channel
<1>7. e <= backend[t].cmd_id
  <2>1. e \in Nat /\ backend[t].cmd_id \in Nat
    BY BoundAssumption DEF Types, CmdIds
  <2>2. e > backend[t].cmd_id => tasks[t][e] = 0
    BY SMTT(30) DEF Good, OneRun
  <2> QED
    BY <2>1, <2>2, <1>1
<1>8. e = cmd_id[t] => ~Middle(t).pending /\ fpc[t] = "idle"
  <2>1. e = cmd_id[t] => backend[t].cmd_id = cmd_id[t]
    BY <1>7, BoundAssumption DEF Good, Channel, Types, CmdIds
  <2>2. middle_buffer[t] \in Buffers /\ backend[t].cmd_id \in Nat
    BY BoundAssumption DEF Types, CmdIds
  <2> QED
    BY <2>1, <2>2, <1>3 DEF Good, Channel
<1>9. Commands(t)'
  <2>1. CASE cmd_id[t] = e
    BY <2>1, <1>1, <1>5, <1>8 DEF Good, Commands
  <2>2. CASE cmd_id[t] # e
    BY <2>2, <1>1, <1>3, <1>5 DEF Good, Commands, Meaning
  <2> QED
    BY <2>1, <2>2
<1>10. OneRun(t)'
  <2>1. CASE cmd_id[t] = e
    <3>1. /\ tasks[t][e] \in Nat /\ failed[t][e] \in Nat /\ tasks[t][e] > 0
          /\ e \in Nat /\ backend[t].cmd_id \in Nat
      BY <1>1, BoundAssumption, SMTT(60) DEF Types, CmdIds
    <3>2. /\ failed[t][e] + tasks[t][e] <= 1
          /\ ~(backend[t].state = "running" /\ backend[t].cmd_id = e)
      BY <2>1, <3>1, SMTT(30) DEF Good, OneRun
    <3>3. failed'[t][e] + tasks'[t][e] = 0
      <4>1. failed'[t][e] = failed[t][e] /\ tasks'[t][e] = tasks[t][e] - 1
        BY <1>1, <1>2, Zenon
      <4> QED
        BY <3>1, <3>2, <4>1, LastOne, Zenon
    <3>4. ASSUME NEW f \in CmdIds, f > backend[t].cmd_id
          PROVE  failed'[t][f] = 0 /\ tasks'[t][f] = 0
      <4>1. f # e
        BY <3>1, <3>4, <1>7
      <4>2. failed[t][f] = 0 /\ tasks[t][f] = 0
        BY <3>4, Zenon DEF Good, OneRun
      <4> QED
        BY <4>1, <4>2, <1>1, <1>2
    <3> QED
      BY <2>1, <3>2, <3>3, <3>4, <1>1 DEF OneRun
  <2>2. CASE cmd_id[t] # e
    BY <2>2, <1>1, <1>2, <1>3, <1>7, SMTT(60) DEF Good, OneRun
  <2> QED
    BY <2>1, <2>2
<1>11. Signalled(t)' /\ Handover(t)'
  BY <1>1, <1>5 DEF Good, Signalled, Handover, GoingToSignal
<1> QED
  BY <1>4, <1>6, <1>9, <1>10, <1>11 DEF Good

\* A callback that is deferred again moves from the failed list to the executor; one
\* of a run that is over is dropped.
LEMMA RetryOK ==
  ASSUME Types, NEW t \in Timer, NEW e \in CmdIds, Good(t), Retry(t, e)
  PROVE  Types' /\ Good(t)' /\ Others(t)
<1>1. /\ UNCHANGED <<state, duration, handle, fpc, cmd_id, buffers, write_buffer, middle_buffer,
                     read_buffer, got, unsaved, raced, free_list, backend, cur_time, signals,
                     batch, tpc>>
      /\ failed' = [failed EXCEPT ![t][e] = @ - 1]
      /\ failed[t] \in [CmdIds -> Nat] /\ tasks[t] \in [CmdIds -> Nat] /\ failed[t][e] > 0
      /\ IF Live(t, e) THEN tasks' = [tasks EXCEPT ![t][e] = @ + 1] ELSE tasks' = tasks
  BY DEF Retry, Types, Defer, frontVars, channelVars
<1>2. /\ failed' \in [Timer -> [CmdIds -> Nat]] /\ failed'[t][e] = failed[t][e] - 1
      /\ \A f \in CmdIds \ {e} : failed'[t][f] = failed[t][f]
      /\ \A u \in Timer \ {t} : failed'[u] = failed[u]
  BY <1>1, SMTT(30) DEF Types
<1>3. /\ tasks' \in [Timer -> [CmdIds -> Nat]]
      /\ Live(t, e) => tasks'[t][e] = tasks[t][e] + 1
      /\ ~Live(t, e) => tasks'[t][e] = tasks[t][e]
      /\ \A f \in CmdIds \ {e} : tasks'[t][f] = tasks[t][f]
      /\ \A u \in Timer \ {t} : tasks'[u] = tasks[u]
  <2>1. CASE Live(t, e)
    <3>0. tasks' = [tasks EXCEPT ![t][e] = @ + 1] /\ tasks[t][e] + 1 \in Nat
      BY <2>1, <1>1
    <3>1. tasks' \in [Timer -> [CmdIds -> Nat]] /\ tasks'[t][e] = tasks[t][e] + 1
      BY <3>0 DEF Types
    <3>2. \A f \in CmdIds \ {e} : tasks'[t][f] = tasks[t][f]
      BY <2>1, <1>1 DEF Types
    <3>3. \A u \in Timer \ {t} : tasks'[u] = tasks[u]
      BY <2>1, <1>1 DEF Types
    <3> QED
      BY <2>1, <3>1, <3>2, <3>3
  <2>2. CASE ~Live(t, e)
    BY <2>2, <1>1, SMTT(30) DEF Types
  <2> QED
    BY <2>1, <2>2
<1>4. Types'
  BY <1>1, <1>2, <1>3 DEF Types
<1>5. Others(t)
  BY <1>1, <1>2, <1>3 DEF Others, Same, SameState
<1>6. Channel(t)'
  BY <1>1, Zenon DEF Good, Channel, OwnedByWriter, Written, Middle
<1>7. Commands(t)'
  BY <1>1, ZenonT(30) DEF Good, Commands, Meaning, Written, Middle
<1>8. OneRun(t)'
  <2>1. e \in Nat /\ backend[t].cmd_id \in Nat /\ cmd_id[t] \in Nat
    BY BoundAssumption DEF Types, CmdIds
  <2>2. e <= backend[t].cmd_id
    <3>1. e > backend[t].cmd_id => failed[t][e] = 0
      BY ZenonT(40) DEF Good, OneRun
    <3> QED
      BY <2>1, <3>1, <1>1
  <2>3. e = cmd_id[t] => Live(t, e)
    <3>1. backend[t].cmd_id <= cmd_id[t]
      BY Zenon DEF Good, Channel
    <3> DEFINE a == backend[t].cmd_id
               b == cmd_id[t]
    <3>2. a \in Nat /\ b \in Nat /\ e <= a /\ a <= b
      BY <2>1, <2>2, <3>1, ZenonT(30)
    <3> HIDE DEF a, b
    <3>3. e = b => a = e
      BY <2>1, <3>2, Squeezed, Zenon
    <3> QED
      BY <3>3, Zenon DEF Live, a, b
  <2>4. ASSUME NEW f \in CmdIds, f > backend[t].cmd_id PROVE failed'[t][f] = 0 /\ tasks'[t][f] = 0
    <3>1. f # e
      <4>1. f \in Nat
        BY BoundAssumption DEF CmdIds
      <4> QED
        BY <4>1, <2>1, <2>2, <2>4, Apart, Zenon
    <3>2. failed[t][f] = 0 /\ tasks[t][f] = 0
      BY <2>4, Zenon DEF Good, OneRun
    <3> QED
      BY <3>1, <3>2, <1>2, <1>3, ZenonT(60)
  <2>5. ASSUME NEW f \in CmdIds, f = cmd_id[t]
        PROVE  failed'[t][f] + tasks'[t][f] = failed[t][f] + tasks[t][f]
    BY <2>3, <2>5, <1>1, <1>2, <1>3, SMTT(60)
  <2> QED
    BY <2>4, <2>5, <1>1 DEF Good, OneRun
<1>9. Signalled(t)' /\ Handover(t)'
  BY <1>1 DEF Good, Signalled, Handover, GoingToSignal, Middle
<1> QED
  BY <1>4, <1>5, <1>6, <1>7, <1>8, <1>9 DEF Good

Backend == [cmd_id : CmdIds, timeout : 0 .. Word - 1, state : {"stopped", "running", "expired"}]

\* try_stop_timer_backend(expiry): the run leaves the backend and its callback goes to
\* the executor or to the failed list, unless a newer command made it void.
LEMMA ExpireOK ==
  ASSUME Types, NEW t \in Timer, Good(t), Expire(t)
  PROVE  Types' /\ Good(t)' /\ Others(t)
<1> DEFINE e == backend[t].cmd_id
<1>1. /\ UNCHANGED <<state, duration, handle, fpc, cmd_id, buffers, write_buffer, middle_buffer,
                     read_buffer, got, unsaved, raced, free_list, cur_time, signals, batch,
                     tpc>>
      /\ backend' = [backend EXCEPT ![t].state = "expired"]
      /\ backend[t].state = "running"
  BY DEF Expire, Due, frontVars, channelVars
<1>2. /\ backend[t] \in Backend /\ e \in CmdIds /\ cmd_id[t] \in CmdIds
      /\ failed[t] \in [CmdIds -> Nat] /\ tasks[t] \in [CmdIds -> Nat]
  BY DEF Types, Backend
<1>3. /\ backend' \in [Timer -> Backend]
      /\ backend'[t].cmd_id = e /\ backend'[t].state = "expired"
      /\ \A u \in Timer \ {t} : backend'[u] = backend[u]
  BY <1>1, <1>2, Zenon DEF Types, Backend
<1> HIDE DEF e
<1>4. /\ failed' \in [Timer -> [CmdIds -> Nat]] /\ tasks' \in [Timer -> [CmdIds -> Nat]]
      /\ \A u \in Timer \ {t} : failed'[u] = failed[u] /\ tasks'[u] = tasks[u]
      /\ \A f \in CmdIds \ {e} : failed'[t][f] = failed[t][f] /\ tasks'[t][f] = tasks[t][f]
      /\ cmd_id[t] = e => failed'[t][e] + tasks'[t][e] = failed[t][e] + tasks[t][e] + 1
  <2>1. CASE cmd_id[t] = e /\ tasks' = [tasks EXCEPT ![t][e] = @ + 1] /\ failed' = failed
    <3>1. tasks' \in [Timer -> [CmdIds -> Nat]] /\ tasks'[t][e] = tasks[t][e] + 1
      BY <2>1, <1>2 DEF Types
    <3>2. \A f \in CmdIds \ {e} : tasks'[t][f] = tasks[t][f]
      BY <2>1, <1>2 DEF Types
    <3>3. \A u \in Timer \ {t} : tasks'[u] = tasks[u]
      BY <2>1, <1>2 DEF Types
    <3>4. failed[t][e] \in Nat /\ tasks[t][e] \in Nat /\ failed' = failed
      BY <2>1, <1>2, Zenon
    <3>5. failed'[t][e] + tasks'[t][e] = failed[t][e] + tasks[t][e] + 1
      BY <3>1, <3>4
    <3> QED
      BY <3>1, <3>2, <3>3, <3>4, <3>5 DEF Types
  <2>2. CASE cmd_id[t] = e /\ failed' = [failed EXCEPT ![t][e] = @ + 1] /\ tasks' = tasks
    <3>1. failed' \in [Timer -> [CmdIds -> Nat]] /\ failed'[t][e] = failed[t][e] + 1
      BY <2>2, <1>2 DEF Types
    <3>2. \A f \in CmdIds \ {e} : failed'[t][f] = failed[t][f]
      BY <2>2, <1>2 DEF Types
    <3>3. \A u \in Timer \ {t} : failed'[u] = failed[u]
      BY <2>2, <1>2 DEF Types
    <3>4. failed[t][e] \in Nat /\ tasks[t][e] \in Nat /\ tasks' = tasks
      BY <2>2, <1>2, Zenon
    <3>5. failed'[t][e] + tasks'[t][e] = failed[t][e] + tasks[t][e] + 1
      BY <3>1, <3>4
    <3> QED
      BY <3>1, <3>2, <3>3, <3>4, <3>5 DEF Types
  <2>3. CASE cmd_id[t] # e /\ failed' = failed /\ tasks' = tasks
    BY <2>3 DEF Types
  <2> QED
    BY <2>1, <2>2, <2>3, Zenon DEF Expire, Defer, e
<1>5. Types'
  BY <1>1, <1>3, <1>4 DEF Types, Backend
<1>6. Others(t)
  BY <1>1, <1>3, <1>4 DEF Others, Same, SameState
<1>7. Channel(t)'
  BY <1>1, <1>3 DEF Good, Channel, OwnedByWriter, Written, Middle, e
<1>8. Commands(t)'
  BY <1>1, <1>3, Zenon DEF Good, Commands, Meaning, Written, Middle, e
<1>9. OneRun(t)'
  <2>1. e \in Nat /\ cmd_id[t] \in Nat
    BY <1>2, BoundAssumption, SMTT(30) DEF CmdIds
  <2>2. ASSUME NEW f \in CmdIds, f > e PROVE failed'[t][f] = 0 /\ tasks'[t][f] = 0
    BY <2>1, <2>2, <1>4 DEF Good, OneRun, e
  <2>3. CASE cmd_id[t] = e
    <3>1. state[t] = "running" /\ failed[t][e] + tasks[t][e] = 0
      BY <2>3, <1>1, <1>2 DEF Good, OneRun, e
    <3> QED
      BY <2>2, <2>3, <3>1, <1>1, <1>2, <1>3, <1>4 DEF OneRun
  <2>4. CASE cmd_id[t] # e
    BY <2>2, <2>4, <1>1, <1>2, <1>3, <1>4 DEF Good, OneRun
  <2> QED
    BY <2>3, <2>4
<1>10. Signalled(t)' /\ Handover(t)'
  BY <1>1 DEF Good, Signalled, Handover, GoingToSignal, Middle
<1> QED
  BY <1>5, <1>6, <1>7, <1>8, <1>9, <1>10 DEF Good

\* What a command makes of the backend's record of a timer: the epoch is the one of
\* the command, and it runs only if the command says "start", or "create" while it ran.
LEMMA AppliedOK ==
  ASSUME cur_time \in 0 .. Word - 1, NEW b \in Backend, NEW c \in Cmd
  PROVE  /\ Applied(b, c) \in Backend
         /\ Applied(b, c).cmd_id = c.cmd_id
         /\ Applied(b, c).state = "running" =>
              c.action = "start" \/ (c.action = "create" /\ b.state = "running")
<1>1. c.cmd_id \in CmdIds /\ c.action \in Actions /\ c.duration \in Durations \cup {INVALID_DURATION}
  BY DEF Cmd
<1>2. StartTimeout(c.duration) \in 0 .. Word - 1
  <2>1. Longer(c.duration, 1) \in Nat
    <3>1. c.duration \in Int
      <4>1. CASE c.duration \in Durations
        <5>1. c.duration \in Nat
          BY <4>1, DurationAssumption, Zenon
        <5> QED
          BY <5>1
      <4>2. CASE c.duration = INVALID_DURATION
        BY <4>2 DEF INVALID_DURATION
      <4> QED
        BY <1>1, <4>1, <4>2
    <3> QED
      BY <3>1 DEF Longer
  <2> QED
    BY <2>1, WordAssumption DEF StartTimeout
<1>3. 0 \in 0 .. Word - 1
  BY WordAssumption
<1>4. CASE c.action = "start"
  BY <1>1, <1>2, <1>4 DEF Applied, Backend
<1>5. CASE c.action = "stop"
  BY <1>1, <1>5, Zenon DEF Applied, Backend
<1>6. CASE c.action = "create"
  BY <1>1, <1>6 DEF Applied, Backend
<1>7. CASE c.action = "destroy"
  BY <1>1, <1>3, <1>7 DEF Applied, Backend
<1> QED
  BY <1>1, <1>4, <1>5, <1>6, <1>7 DEF Actions

\* handle_timer_updates(): the command in the middle, if it is pending, is newer than
\* all that was applied, and a "destroy" is the last one of its timer.
LEMMA HandleCommandOK ==
  ASSUME Types, NEW t \in Timer, Good(t), HandleCommand(t)
  PROVE  Types' /\ Good(t)' /\ Others(t)
<1> DEFINE m == middle_buffer[t]
           r == read_buffer[t]
           c == Middle(t)
           destroyed == c.pending /\ c.action = "destroy"
<1>1. /\ UNCHANGED <<handle, fpc, cmd_id, write_buffer, got, unsaved, raced, failed, tasks,
                     cur_time, signals, tpc>>
      /\ tpc = "commands" /\ batch[t] > 0 /\ batch' = [batch EXCEPT ![t] = @ - 1]
      /\ read_buffer' = [read_buffer EXCEPT ![t] = m]
      /\ middle_buffer' = [middle_buffer EXCEPT ![t] = r]
      /\ buffers' = [buffers EXCEPT ![t][m].pending = FALSE]
      /\ IF c.pending THEN backend' = [backend EXCEPT ![t] = Applied(@, c)] ELSE backend' = backend
      /\ IF destroyed THEN /\ state' = [state EXCEPT ![t] = "stopped"]
                           /\ duration' = [duration EXCEPT ![t] = INVALID_DURATION]
                           /\ free_list' = free_list \cup {t}
                      ELSE UNCHANGED <<state, duration, free_list>>
  BY DEF HandleCommand, Middle, ownerVars
<1>2. /\ m \in Buffers /\ r \in Buffers /\ OwnedByWriter(t) \in Buffers /\ c \in Cmd
      /\ backend[t] \in Backend /\ cmd_id[t] \in CmdIds /\ cur_time \in 0 .. Word - 1
  <2>1. OwnedByWriter(t) \in Buffers
    BY DEF Types, OwnedByWriter
  <2> QED
    BY <2>1 DEF Types, Middle, Backend
<1>3. {OwnedByWriter(t), m, r} = Buffers
  BY DEF Good, Channel
<1>4. r # m /\ OwnedByWriter(t) # m
  BY <1>2, <1>3 DEF Buffers
<1>5. /\ buffers' \in [Timer -> [Buffers -> Cmd]]
      /\ ~buffers'[t][m].pending
      /\ \A b \in Buffers \ {m} : buffers'[t][b] = buffers[t][b]
  <2> DEFINE d == [c EXCEPT !.pending = FALSE]
  <2>1. d \in Cmd /\ ~d.pending
    BY <1>2, Zenon DEF Cmd
  <2>2. buffers' = [buffers EXCEPT ![t][m] = d]
    BY <1>1 DEF Middle
  <2> HIDE DEF d
  <2>3. buffers' \in [Timer -> [Buffers -> Cmd]] /\ buffers'[t][m] = d
    BY <2>1, <2>2, <1>2 DEF Types
  <2>4. \A b \in Buffers \ {m} : buffers'[t][b] = buffers[t][b]
    BY <2>2, <1>2 DEF Types
  <2> QED
    BY <2>1, <2>3, <2>4
<1>6. /\ read_buffer'[t] = m /\ middle_buffer'[t] = r /\ Middle(t)' = buffers[t][r]
      /\ ~Middle(t)'.pending
  BY <1>1, <1>2, <1>4, <1>5 DEF Types, Middle, Good, Channel
<1>7. /\ c.pending => /\ backend'[t] \in Backend
                      /\ backend'[t].cmd_id = c.cmd_id
                      /\ backend'[t].state = "running" => c.action = "start"
      /\ ~c.pending => backend'[t] = backend[t]
      /\ backend' \in [Timer -> Backend]
  <2>1. c.pending /\ c.action = "create" => backend[t].state # "running"
    BY DEF Good, Commands, Meaning
  <2>2. c.pending => backend'[t] = Applied(backend[t], c)
    BY <1>1 DEF Types
  <2>3. /\ Applied(backend[t], c) \in Backend
        /\ Applied(backend[t], c).cmd_id = c.cmd_id
        /\ Applied(backend[t], c).state = "running" =>
             c.action = "start" \/ (c.action = "create" /\ backend[t].state = "running")
    BY <1>2, AppliedOK
  <2>4. backend \in [Timer -> Backend]
    BY DEF Types, Backend
  <2>5. backend' \in [Timer -> Backend]
    BY <1>1, <2>3, <2>4
  <2> QED
    BY <1>1, <2>1, <2>2, <2>3, <2>5
<1>8. c.cmd_id \in Nat /\ backend[t].cmd_id \in Nat /\ cmd_id[t] \in Nat
  BY <1>2, BoundAssumption, SMTT(30) DEF Cmd, Backend, CmdIds
<1>9. c.pending =>
        /\ backend[t].cmd_id < c.cmd_id
        /\ fpc[t] = "exchange" => c.cmd_id < cmd_id[t]
        /\ fpc[t] # "exchange" => c.cmd_id = cmd_id[t]
        /\ c.action = "start" /\ c.cmd_id = cmd_id[t] => state[t] = "running"
        /\ c.action = "destroy" => ~handle[t] /\ c.cmd_id = cmd_id[t]
  BY Zenon DEF Good, Channel, Commands, Meaning
<1>10. Types'
  <2>1. /\ state' \in [Timer -> {"stopped", "running", "expired"}]
        /\ duration' \in [Timer -> Durations \cup {INVALID_DURATION}]
    BY <1>1, ZenonT(30) DEF Types
  <2>2. batch' \in [Timer -> Nat]
    <3>1. batch[t] - 1 \in Nat
      BY <1>1 DEF Types
    <3> QED
      BY <3>1, <1>1 DEF Types
  <2> QED
    BY <2>1, <2>2, <1>1, <1>2, <1>5, <1>7 DEF Types, Backend
<1>11. Others(t)
  <2>1. \A u \in Timer \ {t} : backend'[u] = backend[u] /\ buffers'[u] = buffers[u]
    BY <1>1 DEF Types
  <2>2. \A u \in Timer \ {t} : state'[u] = state[u] /\ (u \in free_list' <=> u \in free_list)
    BY <1>1 DEF Types
  <2> HIDE DEF m, r
  <2> QED
    BY <2>1, <2>2, <1>1 DEF Types, Others, Same, SameState
<1> HIDE DEF m, r, c
<1>12. OwnedByWriter(t)' = OwnedByWriter(t)
  BY <1>1 DEF OwnedByWriter
<1>13. fpc[t] = "exchange" => Written(t)' = Written(t) /\ ~destroyed
  <2>1. fpc[t] = "exchange" => write_buffer[t] = OwnedByWriter(t)
    BY ZenonT(30) DEF OwnedByWriter, Good, Handover
  <2> QED
    BY <2>1, <1>1, <1>2, <1>4, <1>5, <1>8, <1>9 DEF Written
<1>14. Channel(t)'
  <2>1. {OwnedByWriter(t), middle_buffer[t], read_buffer[t]}' = Buffers
    BY <1>3, <1>6, <1>12
  <2>2. ~buffers'[t][read_buffer'[t]].pending
    BY <1>5, <1>6
  <2>3. backend'[t].cmd_id <= cmd_id'[t]
    BY <1>1, <1>7, <1>8, <1>9 DEF Good, Channel
  <2>4. fpc'[t] = "exchange" =>
          Written(t)'.pending /\ Written(t)'.cmd_id = cmd_id'[t] /\ backend'[t].cmd_id < cmd_id'[t]
    BY <1>1, <1>7, <1>8, <1>9, <1>13 DEF Good, Channel
  <2> QED
    BY <2>1, <2>2, <2>3, <2>4, <1>6 DEF Channel
<1>15. Commands(t)'
  <2>1. fpc'[t] = "exchange" => Meaning(t, Written(t))'
    <3>1. SUFFICES ASSUME fpc[t] = "exchange" PROVE Meaning(t, Written(t))'
      BY <1>1
    <3>2. /\ Meaning(t, Written(t)) /\ Written(t).cmd_id = cmd_id[t]
          /\ Written(t)' = Written(t) /\ UNCHANGED <<state, free_list, handle, cmd_id>>
      BY <3>1, <1>1, <1>13 DEF Good, Commands, Channel
    <3>3. c.pending => cmd_id[t] > 1
      BY <3>1, <1>8, <1>9, SMTT(60)
    <3>4. Written(t).action = "create" => backend'[t] = backend[t]
      BY <3>2, <3>3, <1>7, <1>8 DEF Meaning
    <3> QED
      BY <3>2, <3>4 DEF Meaning
  <2>2. handle'[t] => t \notin free_list'
    BY <1>1, <1>9, ZenonT(30) DEF Good, Commands
  <2>3. backend'[t].state = "running" => backend'[t].cmd_id > 0
    <3>1. CASE c.pending
      <4>1. backend'[t].cmd_id = c.cmd_id /\ backend[t].cmd_id < c.cmd_id
        BY <1>7, <1>9, <3>1, Zenon
      <4>2. c.cmd_id > 0
        BY <1>8, <4>1, Apart, Zenon
      <4> QED
        BY <4>1, <4>2, Zenon
    <3>2. CASE ~c.pending
      BY <1>7, <3>2, Zenon DEF Good, Commands
    <3> QED
      BY <3>1, <3>2, Zenon
  <2> QED
    BY <2>1, <2>2, <2>3, <1>6 DEF Commands
<1>16. OneRun(t)'
  <2>1. CASE c.pending
    <3>1. \A e \in CmdIds : e > backend[t].cmd_id => failed[t][e] = 0 /\ tasks[t][e] = 0
      BY DEF Good, OneRun
    <3>2. \A e \in CmdIds : e > backend'[t].cmd_id => failed[t][e] = 0 /\ tasks[t][e] = 0
      BY <2>1, <3>1, <1>7, <1>8, <1>9, BoundAssumption, SMTT(30) DEF CmdIds
    <3>3. failed[t][cmd_id[t]] = 0 /\ tasks[t][cmd_id[t]] = 0
      BY <2>1, <3>1, <1>2, <1>8, <1>9
    <3>4. backend'[t].state = "running" /\ backend'[t].cmd_id = cmd_id[t] => state'[t] = "running"
      BY <2>1, <1>1, <1>7, <1>8, <1>9
    <3> QED
      BY <3>2, <3>3, <3>4, <1>1, SMTT(60) DEF OneRun
  <2>2. CASE ~c.pending
    BY <2>2, <1>1, <1>7, ZenonT(30) DEF Good, OneRun
  <2> QED
    BY <2>1, <2>2, Zenon
<1>17. Signalled(t)' /\ Handover(t)'
  <2>1. GoingToSignal(t)' <=> GoingToSignal(t)
    <3>1. fpc[t] = "assign" => OwnedByWriter(t) = got[t]
      BY ZenonT(30) DEF OwnedByWriter, Good, Handover
    <3> QED
      BY <3>1, <1>1, <1>2, <1>4, <1>5, ZenonT(30) DEF GoingToSignal
  <2>2. c.pending /\ signals[t] = 0 /\ batch[t] = 1 /\ ~GoingToSignal(t)
    BY <1>1 DEF Good, Signalled, c
  <2>3. batch'[t] = 0
    <3>1. batch'[t] = batch[t] - 1
      BY <1>1 DEF Types
    <3> QED
      BY <2>2, <3>1
  <2>4. Signalled(t)'
    BY <2>1, <2>2, <2>3, <1>1, <1>6 DEF Signalled
  <2>5. t \in free_list' => fpc'[t] \in {"idle", "assign"} /\ ~GoingToSignal(t)'
    <3>1. CASE destroyed
      <4>1. fpc[t] # "exchange" /\ fpc[t] # "notify"
        BY <3>1, <2>2, <1>8, <1>9 DEF GoingToSignal
      <4> QED
        BY <4>1, <2>1, <2>2, <1>1 DEF Types
    <3>2. CASE ~destroyed
      BY <3>2, <2>1, <1>1 DEF Good, Handover
    <3> QED
      BY <3>1, <3>2
  <2>6. unsaved'[t] # NoBuffer => fpc'[t] = "idle" /\ buffers'[t][unsaved'[t]].pending
    <3>1. unsaved[t] # NoBuffer => OwnedByWriter(t) = unsaved[t]
      BY DEF OwnedByWriter
    <3> QED
      BY <3>1, <1>1, <1>2, <1>4, <1>5 DEF Good, Handover
  <2> QED
    BY <2>4, <2>5, <2>6 DEF Handover
<1> QED
  BY <1>10, <1>11, <1>14, <1>15, <1>16, <1>17, ZenonT(30) DEF Good

-----------------------------------------------------------------------------
\* The steps of a timer's owner: its commands, and push() in its three steps.

\* Reuse: a cached timer is handed out without a command.
LEMMA ReuseOK ==
  ASSUME Types, NEW t \in Timer, Good(t), Reuse(t) PROVE Types' /\ Good(t)' /\ Others(t)
<1>1. /\ t \in free_list /\ free_list' = free_list \ {t}
      /\ fpc' = [fpc EXCEPT ![t] = "idle"]
      /\ unsaved' = [unsaved EXCEPT ![t] = IF fpc[t] = "idle" THEN @ ELSE got[t]]
      /\ handle' = [handle EXCEPT ![t] = TRUE]
      /\ UNCHANGED <<state, duration, cmd_id, buffers, write_buffer, middle_buffer, read_buffer,
                     got, raced, signals, batch, backend, failed, tasks, cur_time, tpc>>
  BY ZenonT(30) DEF Reuse, backVars
<1>2. /\ fpc[t] \in {"idle", "assign"} /\ ~GoingToSignal(t)
      /\ unsaved[t] # NoBuffer => fpc[t] = "idle" /\ buffers[t][unsaved[t]].pending
      /\ got[t] \in Buffers /\ unsaved[t] \in Buffers \cup {NoBuffer}
  BY <1>1, ZenonT(30) DEF Good, Handover, Types
<1>3. /\ fpc'[t] = "idle" /\ handle'[t] /\ t \notin free_list'
      /\ unsaved'[t] = IF fpc[t] = "idle" THEN unsaved[t] ELSE got[t]
      /\ got[t] # NoBuffer
  <2>1. got[t] # NoBuffer
    BY <1>2 DEF Buffers, NoBuffer
  <2> QED
    BY <1>1, <2>1, ZenonT(30) DEF Types
<1>4. Types'
  <2>1. unsaved' \in [Timer -> Buffers \cup {NoBuffer}]
    BY <1>1, <1>2 DEF Types
  <2> QED
    BY <2>1, <1>1, ZenonT(30) DEF Types
<1>5. Others(t)
  BY <1>1, ZenonT(30) DEF Types, Others, Same, SameState
<1>6. OwnedByWriter(t)' = OwnedByWriter(t) /\ Middle(t)' = Middle(t) /\ fpc[t] # "exchange"
  BY <1>1, <1>2, <1>3 DEF OwnedByWriter, Middle
<1>7. Channel(t)'
  BY <1>1, <1>3, <1>6, ZenonT(30) DEF Good, Channel
<1>8. Commands(t)'
  <2>1. ~(Middle(t).pending /\ Middle(t).action = "destroy")
    BY <1>1, ZenonT(30) DEF Good, Commands, Meaning
  <2> QED
    BY <2>1, <1>1, <1>3, <1>6, ZenonT(30) DEF Good, Commands, Meaning
<1>9. OneRun(t)'
  BY <1>1, ZenonT(30) DEF Good, OneRun
<1>10. ~GoingToSignal(t)'
  BY <1>3 DEF GoingToSignal
<1>11. Signalled(t)'
  BY <1>1, <1>2, <1>6, <1>10, ZenonT(30) DEF Good, Signalled
<1>12. Handover(t)'
  <2>1. fpc[t] = "assign" => buffers[t][got[t]].pending
    BY <1>2 DEF GoingToSignal
  <2> QED
    BY <2>1, <1>1, <1>2, <1>3, SMTT(60) DEF Handover
<1> QED
  BY <1>4, <1>5, <1>7, <1>8, <1>9, <1>11, <1>12, ZenonT(30) DEF Good

\* The operations of unique_timer that send a command.
LEMMA CommandOK ==
  ASSUME Types, NEW t \in Timer, Good(t),
         Create(t) \/ Run(t) \/ Stop(t) \/ Destroy(t) \/ \E d \in Durations : Set(t, d)
  PROVE  Types' /\ Others(t) /\ OneRun(t)' /\ (~raced' => Good(t)')
<1>1. CASE Create(t)
  <2>1. /\ Push(t, "create", INVALID_DURATION)
        /\ UNCHANGED <<state, duration, free_list, backVars>>
        /\ free_list = {} /\ cmd_id[t] = 0
        /\ handle' = [handle EXCEPT ![t] = TRUE]
    BY <1>1, ZenonT(30) DEF Create
  <2>2. /\ state' \in [Timer -> {"stopped", "running", "expired"}]
        /\ handle' \in [Timer -> BOOLEAN]
        /\ duration' \in [Timer -> Durations \cup {INVALID_DURATION}]
        /\ \A u \in Timer \ {t} : state'[u] = state[u] /\ (handle'[u] <=> handle[u])
    BY <2>1, ZenonT(30) DEF Types
  <2> QED
    BY <2>1, <2>2, PushOK, ZenonT(30) DEF Actions
<1>2. CASE Run(t)
  <2>1. /\ Push(t, "start", duration[t])
        /\ UNCHANGED <<duration, handle, free_list, backVars>>
        /\ handle[t]
        /\ state' = [state EXCEPT ![t] = "running"]
        /\ duration[t] \in Durations \cup {INVALID_DURATION}
    BY <1>2, ZenonT(30) DEF Run, Types
  <2>2. /\ state' \in [Timer -> {"stopped", "running", "expired"}]
        /\ handle' \in [Timer -> BOOLEAN]
        /\ duration' \in [Timer -> Durations \cup {INVALID_DURATION}]
        /\ \A u \in Timer \ {t} : state'[u] = state[u] /\ (handle'[u] <=> handle[u])
        /\ state'[t] = "running" /\ t \notin free_list
    BY <2>1, ZenonT(30) DEF Types, Good, Commands
  <2> QED
    BY <2>1, <2>2, PushOK, ZenonT(30) DEF Actions
<1>3. CASE Stop(t)
  <2>1. /\ Push(t, "stop", INVALID_DURATION)
        /\ UNCHANGED <<duration, handle, free_list, backVars>>
        /\ handle[t]
        /\ state' = [state EXCEPT ![t] = "stopped"]
    BY <1>3, ZenonT(30) DEF Stop
  <2>2. /\ state' \in [Timer -> {"stopped", "running", "expired"}]
        /\ handle' \in [Timer -> BOOLEAN] /\ t \notin free_list
        /\ duration' \in [Timer -> Durations \cup {INVALID_DURATION}]
        /\ \A u \in Timer \ {t} : state'[u] = state[u] /\ (handle'[u] <=> handle[u])
    BY <2>1, ZenonT(30) DEF Types, Good, Commands
  <2> QED
    BY <2>1, <2>2, PushOK, ZenonT(30) DEF Actions
<1>4. CASE Destroy(t)
  <2>1. /\ Push(t, "destroy", INVALID_DURATION)
        /\ UNCHANGED <<duration, free_list, backVars>>
        /\ handle[t]
        /\ handle' = [handle EXCEPT ![t] = FALSE]
        /\ state' = [state EXCEPT ![t] = "stopped"]
    BY <1>4, ZenonT(30) DEF Destroy
  <2>2. /\ state' \in [Timer -> {"stopped", "running", "expired"}]
        /\ handle' \in [Timer -> BOOLEAN] /\ t \notin free_list
        /\ duration' \in [Timer -> Durations \cup {INVALID_DURATION}]
        /\ \A u \in Timer \ {t} : state'[u] = state[u] /\ (handle'[u] <=> handle[u])
        /\ state'[t] = "stopped" /\ ~handle'[t]
    BY <2>1, ZenonT(30) DEF Types, Good, Commands
  <2> QED
    BY <2>1, <2>2, PushOK, ZenonT(30) DEF Actions
<1>5. ASSUME NEW d \in Durations, Set(t, d)
      PROVE  Types' /\ Others(t) /\ OneRun(t)' /\ (~raced' => Good(t)')
  <2>1. /\ UNCHANGED <<state, handle, free_list, backVars>>
        /\ handle[t]
        /\ duration' = [duration EXCEPT ![t] = d]
        /\ state' \in [Timer -> {"stopped", "running", "expired"}]
        /\ handle' \in [Timer -> BOOLEAN] /\ t \notin free_list
        /\ duration' \in [Timer -> Durations \cup {INVALID_DURATION}]
    BY <1>5, ZenonT(30) DEF Set, Types, Good, Commands
  <2>2. CASE state[t] = "running"
    <3>1. Push(t, "start", d)
      BY <2>2, <1>5, ZenonT(30) DEF Set
    <3> QED
      BY <2>1, <2>2, <3>1, PushOK, ZenonT(30) DEF Actions
  <2>3. CASE state[t] # "running"
    <3>1. UNCHANGED <<fpc, channelVars>>
      BY <2>3, <1>5, ZenonT(30) DEF Set
    <3>2. Types'
      BY <2>1, <3>1, ZenonT(30) DEF Types, channelVars, backVars
    <3>3. \A u \in Timer : Same(u)
      BY <2>1, <3>1, ZenonT(30) DEF Types, channelVars, backVars, Same, SameState
    <3> QED
      BY <3>2, <3>3, Frame, ZenonT(30) DEF Others, Good
  <2> QED
    BY <2>2, <2>3, Zenon
<1> QED
  BY <1>1, <1>2, <1>3, <1>4, <1>5, Zenon

\* The exchange publishes the command, signalled already if what it replaced was
\* pending; storing the buffer received and signalling change nothing else.
LEMMA PublishOK ==
  ASSUME Types, NEW t \in Timer, Good(t), Exchange(t) \/ Assign(t) \/ Notify(t)
  PROVE  Types' /\ Good(t)' /\ Others(t)
<1> USE DEF frontVars, backVars, channelVars
<1>0. fpc[t] # "idle" /\ unsaved[t] = NoBuffer /\ unsaved' = unsaved
  BY ZenonT(30) DEF Exchange, Assign, Notify, Good, Handover
<1>1. CASE Exchange(t)
  <2>1. /\ fpc[t] = "exchange" /\ fpc'[t] = "assign"
        /\ middle_buffer'[t] = write_buffer[t] /\ got'[t] = middle_buffer[t]
        /\ UNCHANGED <<state, handle, free_list, backend, failed, tasks, cmd_id, buffers,
                       write_buffer, read_buffer, signals, batch, tpc>>
    BY <1>1, ZenonT(30) DEF Exchange, Types
  <2>2. Types' /\ Others(t)
    BY <1>1, Zenon DEF Types, Exchange, Others, Same, SameState
  <2>3. OwnedByWriter(t) = write_buffer[t] /\ OwnedByWriter(t)' = middle_buffer[t]
    BY <2>1, <1>0, Zenon DEF OwnedByWriter
  <2>4. Middle(t)' = Written(t)
    BY <2>1, Zenon DEF Middle, Written
  <2>5. Channel(t)'
    BY <2>1, <2>3, <2>4, Zenon DEF Good, Channel
  <2>6. Commands(t)'
    BY <2>1, <2>4, ZenonT(30) DEF Good, Commands, Meaning
  <2>7. OneRun(t)'
    BY <2>1, ZenonT(30) DEF Good, OneRun
  <2>8. ~GoingToSignal(t) /\ (GoingToSignal(t)' <=> ~Middle(t).pending) /\ Middle(t)'.pending
    <3>1. Written(t).pending
      BY <2>1, ZenonT(30) DEF Good, Channel
    <3> QED
      BY <3>1, <2>1, <2>4, ZenonT(30) DEF GoingToSignal, Middle
  <2>9. Signalled(t)'
    BY <2>1, <2>8, ZenonT(30) DEF Good, Signalled
  <2>10. Handover(t)'
    BY <2>1, <1>0, ZenonT(30) DEF Good, Handover
  <2> QED
    BY <2>2, <2>5, <2>6, <2>7, <2>9, <2>10, ZenonT(30) DEF Good
<1>2. CASE Assign(t)
  <2>1. /\ fpc[t] = "assign" /\ write_buffer'[t] = got[t]
        /\ fpc'[t] = IF buffers[t][got[t]].pending THEN "idle" ELSE "notify"
        /\ UNCHANGED <<state, handle, free_list, backend, failed, tasks, cmd_id, buffers,
                       middle_buffer, read_buffer, got, signals, batch, tpc>>
    BY <1>2, ZenonT(30) DEF Assign, Types
  <2>2. Types' /\ Others(t)
    BY <1>2, Zenon DEF Types, Assign, Others, Same, SameState
  <2>3. /\ OwnedByWriter(t)' = OwnedByWriter(t) /\ Middle(t)' = Middle(t)
        /\ fpc'[t] \in {"idle", "notify"} /\ (GoingToSignal(t)' <=> GoingToSignal(t))
    BY <2>1, <1>0, ZenonT(30) DEF OwnedByWriter, Middle, GoingToSignal
  <2>4. Channel(t)'
    BY <2>1, <2>3, ZenonT(30) DEF Good, Channel
  <2>5. Commands(t)'
    BY <2>1, <2>3, Zenon DEF Good, Commands, Meaning
  <2>6. OneRun(t)'
    BY <2>1, ZenonT(30) DEF Good, OneRun
  <2>7. Signalled(t)'
    BY <2>1, <2>3, ZenonT(30) DEF Good, Signalled
  <2>8. Handover(t)'
    BY <2>1, <2>3, <1>0, ZenonT(30) DEF Good, Handover, GoingToSignal
  <2> QED
    BY <2>2, <2>4, <2>5, <2>6, <2>7, <2>8, ZenonT(30) DEF Good
<1>3. CASE Notify(t)
  <2>1. /\ fpc[t] = "notify" /\ fpc'[t] = "idle"
        /\ signals' = [signals EXCEPT ![t] = @ + 1]
        /\ UNCHANGED <<state, handle, free_list, backend, failed, tasks, cmd_id, buffers,
                       write_buffer, middle_buffer, read_buffer, batch, tpc>>
    BY <1>3, ZenonT(30) DEF Notify, Types
  <2>2. signals' \in [Timer -> Nat] /\ signals'[t] = signals[t] + 1
    BY <2>1 DEF Types
  <2>3. Types' /\ Others(t)
    BY <1>3, <2>2, Zenon DEF Types, Notify, Others, Same, SameState
  <2>4. OwnedByWriter(t)' = OwnedByWriter(t) /\ Middle(t)' = Middle(t)
    BY <2>1, <1>0, ZenonT(30) DEF OwnedByWriter, Middle
  <2>5. Channel(t)'
    BY <2>1, <2>4, ZenonT(30) DEF Good, Channel
  <2>6. Commands(t)'
    BY <2>1, <2>4, ZenonT(30) DEF Good, Commands, Meaning
  <2>7. OneRun(t)'
    BY <2>1, Zenon DEF Good, OneRun
  <2>8. GoingToSignal(t) /\ ~GoingToSignal(t)'
    BY <2>1, ZenonT(30) DEF GoingToSignal
  <2>9. Signalled(t)'
    <3>1. Middle(t).pending /\ signals[t] = 0 /\ batch[t] = 0
      BY <2>8, ZenonT(30) DEF Good, Signalled
    <3>2. signals'[t] = 1
      BY <3>1, <2>2
    <3> QED
      BY <3>1, <3>2, <2>1, <2>4, <2>8, ZenonT(30) DEF Signalled
  <2>10. Handover(t)'
    BY <2>1, <1>0, ZenonT(30) DEF Good, Handover
  <2> QED
    BY <2>3, <2>5, <2>6, <2>7, <2>9, <2>10, ZenonT(30) DEF Good
<1> QED
  BY <1>1, <1>2, <1>3, Zenon

\* The previous owner of a reused timer stores the buffer that is its own.
LEMMA AssignLateOK ==
  ASSUME Types, NEW t \in Timer, Good(t), AssignLate(t) PROVE Types' /\ Good(t)' /\ Others(t)
<1>1. /\ unsaved[t] # NoBuffer
      /\ write_buffer' = [write_buffer EXCEPT ![t] = unsaved[t]]
      /\ unsaved' = [unsaved EXCEPT ![t] = NoBuffer]
      /\ UNCHANGED <<state, duration, handle, fpc, cmd_id, buffers, middle_buffer, read_buffer,
                     got, raced, free_list, signals, batch, backend, failed, tasks, cur_time, tpc>>
  BY ZenonT(30) DEF AssignLate, frontVars, backVars
<1>2. /\ fpc[t] = "idle" /\ unsaved[t] \in Buffers
      /\ write_buffer'[t] = unsaved[t] /\ unsaved'[t] = NoBuffer
  BY <1>1, ZenonT(30) DEF Good, Handover, Types
<1>3. Types' /\ Others(t)
  <2>1. write_buffer' \in [Timer -> Buffers] /\ unsaved' \in [Timer -> Buffers \cup {NoBuffer}]
    BY <1>1, <1>2 DEF Types
  <2>2. Types'
    BY <2>1, <1>1, ZenonT(30) DEF Types
  <2>3. Others(t)
    BY <1>1, ZenonT(30) DEF Types, Others, Same, SameState
  <2> QED
    BY <2>2, <2>3
<1>4. OwnedByWriter(t)' = OwnedByWriter(t) /\ Middle(t)' = Middle(t) /\ ~GoingToSignal(t)'
  BY <1>1, <1>2, ZenonT(30) DEF OwnedByWriter, Middle, GoingToSignal
<1>5. Channel(t)'
  BY <1>1, <1>2, <1>4, ZenonT(30) DEF Good, Channel
<1>6. Commands(t)'
  BY <1>1, <1>2, <1>4, ZenonT(30) DEF Good, Commands, Meaning
<1>7. OneRun(t)'
  BY <1>1, ZenonT(30) DEF Good, OneRun
<1>8. ~GoingToSignal(t)
  BY <1>2, ZenonT(30) DEF GoingToSignal
<1>9. Signalled(t)' /\ Handover(t)'
  BY <1>1, <1>2, <1>4, <1>8, ZenonT(30) DEF Good, Signalled, Handover
<1> QED
  BY <1>3, <1>5, <1>6, <1>7, <1>9, ZenonT(30) DEF Good

\* The steps of tick() that concern all timers: taking the signals present makes them
\* the batch, and the batch is handled before anything else.
LEMMA TickOK ==
  ASSUME Types, NEW t \in Timer, Good(t), TickBegin \/ CommandsDone \/ TickEnd \/ Advance
  PROVE  Good(t)'
<1>1. UNCHANGED <<frontVars, fpc, channelVars, free_list, backend, failed, tasks>>
  BY ZenonT(30) DEF TickBegin, CommandsDone, TickEnd, Advance
<1>2. SameState(t)
  BY <1>1, ZenonT(30) DEF SameState, frontVars, channelVars
<1>3. Signalled(t)'
  <2>1. Middle(t)' = Middle(t) /\ (GoingToSignal(t)' <=> GoingToSignal(t))
    BY <1>2, StateFrame, ZenonT(60)
  <2>2. CASE TickBegin
    <3>1. tpc = "idle" /\ tpc' = "commands" /\ batch'[t] = signals[t] /\ signals'[t] = 0
      BY <2>2, Zenon DEF TickBegin
    <3>2. batch[t] = 0
      BY <3>1, Zenon DEF Good, Signalled
    <3> QED
      BY <2>1, <3>1, <3>2, Zenon DEF Good, Signalled
  <2>3. CASE CommandsDone \/ TickEnd \/ Advance
    <3>1. batch[t] = 0 /\ UNCHANGED <<signals, batch>>
      <4>1. CASE CommandsDone
        BY <4>1, ZenonT(30) DEF CommandsDone
      <4>2. CASE TickEnd \/ Advance
        <5>1. tpc # "commands" /\ UNCHANGED <<signals, batch>>
          BY <4>2, ZenonT(30) DEF TickEnd, Advance
        <5> QED
          BY <5>1, ZenonT(30) DEF Good, Signalled
      <4> QED
        BY <2>3, <4>1, <4>2
    <3> QED
      BY <2>1, <3>1 DEF Good, Signalled
  <2> QED
    BY <2>2, <2>3
<1> QED
  BY <1>2, <1>3, StateFrame, Zenon DEF Good

-----------------------------------------------------------------------------
\* Every operation of an owner, every callback and every step of tick() preserves the
\* invariant: one timer is touched, by one of the lemmas above, or none.
LEMMA NextIndInv == IndInv /\ [Next]_vars => IndInv'
<1> SUFFICES ASSUME IndInv, [Next]_vars PROVE IndInv'
  OBVIOUS
<1> DEFINE Kept == Types' /\ \A t \in Timer : OneRun(t)' /\ (~raced' => Good(t)')
<1>1. SUFFICES Kept
  BY ZenonT(30) DEF IndInv, Good
<1>2. CASE UNCHANGED vars
  <2>1. Types /\ \A t \in Timer : OneRun(t) /\ (~raced => Good(t))
    BY ZenonT(30) DEF IndInv, Good
  <2>2. UNCHANGED <<frontVars, fpc, channelVars, signals, batch, free_list, backend, failed, tasks,
                    cur_time, tpc>>
    BY <1>2, ZenonT(30) DEF vars
  <2>3. Types' /\ raced' = raced /\ \A t \in Timer : Same(t)
    BY <2>1, <2>2, ZenonT(30) DEF Types, Same, SameState, frontVars, channelVars
  <2>4. \A t \in Timer : OneRun(t)'
    BY <2>1, <2>2, ZenonT(30) DEF OneRun, frontVars, channelVars
  <2> QED
    BY <2>1, <2>3, <2>4, Frame, Zenon
<1>3. CASE Next
  <2>1. ~raced /\ (Clock \/ \E t \in Timer : Owner(t))
    BY <1>3, Zenon DEF Next
  <2>2. Types /\ \A t \in Timer : Good(t)
    BY <2>1, ZenonT(30) DEF IndInv, Good
  <2>3. ASSUME NEW t \in Timer, Types' /\ Others(t) /\ OneRun(t)' /\ (~raced' => Good(t)')
        PROVE  Kept
    BY <2>2, <2>3, Frame, ZenonT(30) DEF Others, Good
  <2>4. ASSUME NEW t \in Timer, Types' /\ Good(t)' /\ Others(t) PROVE Kept
    BY <2>3, <2>4, ZenonT(30) DEF Good
  <2>5. ASSUME NEW t \in Timer, Owner(t) PROVE Kept
    <3>1. CASE Reuse(t)
      BY <3>1, <2>2, <2>4, ReuseOK, Zenon
    <3>2. CASE Create(t) \/ Run(t) \/ Stop(t) \/ Destroy(t) \/ \E d \in Durations : Set(t, d)
      BY <3>2, <2>2, <2>3, CommandOK, Zenon
    <3>3. CASE Exchange(t) \/ Assign(t) \/ Notify(t)
      BY <3>3, <2>2, <2>4, PublishOK, Zenon
    <3>4. CASE AssignLate(t)
      BY <3>4, <2>2, <2>4, AssignLateOK, Zenon
    <3>5. CASE \E e \in CmdIds : RunCallback(t, e)
      BY <3>5, <2>2, <2>4, RunCallbackOK, Zenon
    <3> QED
      BY <3>1, <3>2, <3>3, <3>4, <3>5, <2>5, ZenonT(30) DEF Owner
  <2>6. ASSUME NEW t \in Timer, HandleCommand(t) \/ Expire(t) \/ \E e \in CmdIds : Retry(t, e)
        PROVE  Kept
    BY <2>2, <2>4, <2>6, HandleCommandOK, ExpireOK, RetryOK, Zenon
  <2>7. CASE TickBegin \/ CommandsDone \/ TickEnd \/ Advance
    <3>1. Types'
      <4>1. CASE TickBegin
        <5>1. batch' = signals /\ signals' = [t \in Timer |-> 0]
          BY <4>1, ZenonT(30) DEF TickBegin
        <5>2. batch' \in [Timer -> Nat] /\ signals' \in [Timer -> Nat]
          BY <5>1, <2>2 DEF Types
        <5>3. UNCHANGED <<frontVars, fpc, channelVars, backend, failed, tasks, cur_time>>
          BY <4>1, ZenonT(30) DEF TickBegin
        <5> QED
          BY <5>2, <5>3, <2>2, ZenonT(30) DEF Types, frontVars, channelVars
      <4>2. CASE CommandsDone \/ TickEnd
        <5>1. UNCHANGED <<frontVars, fpc, channelVars, signals, batch, backend, failed, tasks,
                          cur_time>>
          BY <4>2, ZenonT(30) DEF CommandsDone, TickEnd
        <5> QED
          BY <5>1, <2>2, ZenonT(30) DEF Types, frontVars, channelVars
      <4>3. CASE Advance
        <5>1. /\ UNCHANGED <<frontVars, fpc, channelVars, signals, batch, backend, failed, tasks>>
              /\ cur_time' = (cur_time + 1) % Word
          BY <4>3, ZenonT(30) DEF Advance
        <5>2. cur_time' \in 0 .. Word - 1
          BY <5>1, <2>2, Ticked, Zenon DEF Types
        <5> QED
          BY <5>1, <5>2, <2>2, ZenonT(30) DEF Types, frontVars, channelVars
      <4> QED
        BY <2>7, <4>1, <4>2, <4>3
    <3>2. \A t \in Timer : Good(t)'
      BY <2>2, <2>7, TickOK, Zenon
    <3> QED
      BY <3>1, <3>2, ZenonT(30) DEF Good
  <2> QED
    BY <2>1, <2>5, <2>6, <2>7, ZenonT(30) DEF Clock
<1> QED
  BY <1>2, <1>3

\* The invariant of the timer service holds in every state.
THEOREM IndInvHolds == Spec => []IndInv
  BY InitIndInv, NextIndInv, PTL DEF Spec

\* push() and pop() of backend_channel never hand the same buffer to two threads, for
\* any number of timers and commands, as long as the new owner of a reused timer does
\* not enter push() before the previous one has stored the buffer it got.
THEOREM BuffersDisjointHolds == Spec => []BuffersDisjoint
<1>1. IndInv => BuffersDisjoint
  BY ZenonT(30) DEF IndInv, Channel, BuffersDisjoint
<1> QED
  BY <1>1, IndInvHolds, PTL

\* A callback that is not void finds its timer running, as the assertion in
\* trigger_timeout_handling() requires: the run of an epoch is in one place only.
THEOREM CallbackFindsRunningHolds == Spec => []CallbackFindsRunning
  BY RunsInEpoch, IndInvHolds, PTL
=============================================================================
