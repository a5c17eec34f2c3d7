------------------------------- MODULE Timers -------------------------------
(***************************************************************************)
(* The timer service (lib/support/timers.cpp) under every interleaving of  *)
(* the timers' owners, the clock thread and the executors.                 *)
(*                                                                         *)
(* The owner of a unique_timer sends the clock thread commands through a   *)
(* triple buffer (backend_channel) and signals it when the buffer it gets  *)
(* back had been processed.  The clock thread's tick() applies the         *)
(* signalled commands, retries the callbacks it could not dispatch, and    *)
(* expires the runs whose timeout is reached by deferring their callback   *)
(* to the owner's executor.  A callback takes effect only when the command *)
(* counter has not moved since the run it belongs to was started.          *)
(*                                                                         *)
(* Steps are single accesses to what the threads share: the command        *)
(* counter, the middle buffer, the signal queue, the executor queue.       *)
(* signals, batch, tasks and failed count the entries of queues whose      *)
(* order does not matter.  age[t] counts the ticks since the last start    *)
(* command of t became visible to the clock thread.                        *)
(*                                                                         *)
(* A timer that is destroyed can be in the free list, and be reused, while *)
(* its previous owner is still inside push().  When the new owner enters   *)
(* push() before that one has stored the buffer it got, both write the same*)
(* pointer and the new command goes to a buffer that the clock thread may  *)
(* hold: the data race that the sanity check at the end of push() reports. *)
(* It is recorded in raced, and the service is followed no further.        *)
(***************************************************************************)
EXTENDS Integers

CONSTANTS Timer,       \* the timer identifiers
          Reserved,    \* timers that the constructor creates in advance
          Durations,   \* the durations in use, in ticks
          Word,        \* number of values of the tick counter
          MaxCmd,      \* bound on the commands sent for one timer
          MaxAge       \* age stops counting here

ASSUME ReservedAssumption == Reserved \subseteq Timer
ASSUME DurationAssumption == Durations \subseteq Nat
ASSUME WordAssumption == Word \in Nat \ {0} /\ \A d \in Durations : d + 1 < Word
ASSUME BoundAssumption == MaxCmd \in Nat /\ MaxAge \in Nat

VARIABLES state, duration, exec, handle, fpc,   \* frontend_handle, unique_timer
          cmd_id, buffers, write_buffer, middle_buffer, read_buffer, got,
          unsaved,                          \* what a previous owner got and has to store
          raced,
          signals, batch,                   \* timer_update_signaller
          connected, free_list,             \* timers, timer_free_list
          backend, failed, tasks,           \* timer_backend_context
          cur_time, tpc, age

channelVars == <<cmd_id, buffers, write_buffer, middle_buffer, read_buffer, got,
                 unsaved, raced>>
frontVars == <<state, duration, exec, handle>>
vars == <<frontVars, fpc, channelVars, signals, batch, connected, free_list,
          backend, failed, tasks, cur_time, tpc, age>>

-----------------------------------------------------------------------------
INVALID_DURATION == -1
CmdIds == 0 .. MaxCmd
Buffers == 0 .. 2
NoBuffer == -1
Actions == {"start", "stop", "create", "destroy"}
Cmd == [pending : BOOLEAN, cmd_id : CmdIds, action : Actions,
        duration : Durations \cup {INVALID_DURATION}]
Processed == [pending |-> FALSE, cmd_id |-> 0, action |-> "stop",
              duration |-> INVALID_DURATION]

Longer(a, b) == IF a > b THEN a ELSE b

Init ==
  /\ state = [t \in Timer |-> "stopped"]
  /\ duration = [t \in Timer |-> INVALID_DURATION]
  /\ exec = [t \in Timer |-> FALSE]
  /\ handle = [t \in Timer |-> FALSE]
  /\ fpc = [t \in Timer |-> "idle"]
  /\ cmd_id = [t \in Timer |-> 0]
  /\ buffers = [t \in Timer |-> [b \in Buffers |-> Processed]]
  /\ write_buffer = [t \in Timer |-> 2]
  /\ middle_buffer = [t \in Timer |-> 1]
  /\ read_buffer = [t \in Timer |-> 0]
  /\ got = [t \in Timer |-> 0]
  /\ unsaved = [t \in Timer |-> NoBuffer]
  /\ raced = FALSE
  /\ signals = [t \in Timer |-> 0]
  /\ batch = [t \in Timer |-> 0]
  /\ connected = Reserved
  /\ free_list = Reserved
  /\ backend = [t \in Timer |->
                  [cmd_id |-> 0, state |-> "stopped", timeout |-> 0]]
  /\ failed = [t \in Timer |-> [e \in CmdIds |-> 0]]
  /\ tasks = [t \in Timer |-> [e \in CmdIds |-> 0]]
  /\ cur_time = 0
  /\ tpc = "idle"
  /\ age = [t \in Timer |-> 0]

-----------------------------------------------------------------------------
\* Frontend: the operations of unique_timer and backend_channel::push().

backVars == <<signals, batch, connected, backend, failed, tasks, cur_time, tpc>>

Push_epoch_kept(t, action, d) ==
  /\ fpc[t] = "idle" /\ cmd_id[t] < MaxCmd
  /\ buffers' = [buffers EXCEPT ![t][write_buffer[t]] =
                   [pending |-> TRUE, cmd_id |-> cmd_id[t],
                    action |-> action, duration |-> d]]
  /\ fpc' = [fpc EXCEPT ![t] = "exchange"]
  /\ raced' = (unsaved[t] # NoBuffer)
  /\ UNCHANGED <<cmd_id, write_buffer, middle_buffer, read_buffer, got, unsaved>>

\* A new epoch, then the command in the writer's own buffer.
Push(t, action, d) ==
  /\ fpc[t] = "idle" /\ cmd_id[t] < MaxCmd
  /\ cmd_id' = [cmd_id EXCEPT ![t] = @ + 1]
  /\ buffers' = [buffers EXCEPT ![t][write_buffer[t]] =
                   [pending |-> TRUE, cmd_id |-> cmd_id[t] + 1,
                    action |-> action, duration |-> d]]
  /\ fpc' = [fpc EXCEPT ![t] = "exchange"]
  /\ raced' = (unsaved[t] # NoBuffer)
  /\ UNCHANGED <<write_buffer, middle_buffer, read_buffer, got, unsaved>>

\* A cached timer is reused without a command, also while its previous owner is
\* still inside the push() of "destroy", after the exchange.
Reuse(t) ==
  /\ t \in free_list
  /\ fpc' = [fpc EXCEPT ![t] = "idle"]
  /\ unsaved' = [unsaved EXCEPT ![t] = IF fpc[t] = "idle" THEN @ ELSE got[t]]
  /\ exec' = [exec EXCEPT ![t] = TRUE]
  /\ handle' = [handle EXCEPT ![t] = TRUE]
  /\ free_list' = free_list \ {t}
  /\ UNCHANGED <<state, duration, cmd_id, buffers, write_buffer, middle_buffer,
                 read_buffer, got, raced, backVars, age>>

\* With none cached, a new handle is queued for the backend and announced.
Create(t) ==
  /\ free_list = {} /\ t \notin connected /\ cmd_id[t] = 0
  /\ exec' = [exec EXCEPT ![t] = TRUE]
  /\ handle' = [handle EXCEPT ![t] = TRUE]
  /\ Push(t, "create", INVALID_DURATION)
  /\ UNCHANGED <<state, duration, free_list, backVars, age>>

\* set() on a running timer restarts it.
Set(t, d) ==
  /\ handle[t] /\ fpc[t] = "idle"
  /\ duration' = [duration EXCEPT ![t] = d]
  /\ IF state[t] = "running"
       THEN Push(t, "start", d)
       ELSE UNCHANGED <<fpc, channelVars>>
  /\ age' = [age EXCEPT ![t] = 0]
  /\ UNCHANGED <<state, exec, handle, free_list, backVars>>

Run(t) ==
  /\ handle[t] /\ duration[t] # INVALID_DURATION
  /\ state' = [state EXCEPT ![t] = "running"]
  /\ age' = [age EXCEPT ![t] = 0]
  /\ Push(t, "start", duration[t])
  /\ UNCHANGED <<duration, exec, handle, free_list, backVars>>

Stop(t) ==
  /\ handle[t] /\ state[t] = "running"
  /\ state' = [state EXCEPT ![t] = "stopped"]
  /\ age' = [age EXCEPT ![t] = 0]
  /\ Push(t, "stop", INVALID_DURATION)
  /\ UNCHANGED <<duration, exec, handle, free_list, backVars>>

\* reset(): the handle is given up; the backend clears the rest later.
Destroy(t) ==
  /\ handle[t]
  /\ handle' = [handle EXCEPT ![t] = FALSE]
  /\ state' = [state EXCEPT ![t] = "stopped"]
  /\ age' = [age EXCEPT ![t] = 0]
  /\ Push(t, "destroy", INVALID_DURATION)
  /\ UNCHANGED <<duration, exec, free_list, backVars>>

\* middle_buffer.exchange(): from here on the clock thread sees the command.
Exchange(t) ==
  /\ fpc[t] = "exchange"
  /\ middle_buffer' = [middle_buffer EXCEPT ![t] = write_buffer[t]]
  /\ got' = [got EXCEPT ![t] = middle_buffer[t]]
  /\ fpc' = [fpc EXCEPT ![t] = "assign"]
  /\ UNCHANGED <<frontVars, cmd_id, buffers, write_buffer, read_buffer, unsaved, raced,
                 free_list, backVars, age>>

Assign_signal_inverted(t) ==
  /\ fpc[t] = "assign"
  /\ write_buffer' = [write_buffer EXCEPT ![t] = got[t]]
  /\ fpc' = [fpc EXCEPT ![t] = IF buffers[t][got[t]].pending THEN "notify" ELSE "idle"]
  /\ UNCHANGED <<frontVars, cmd_id, buffers, middle_buffer, read_buffer, got, unsaved,
                 raced, free_list, backVars, age>>

\* Keep the buffer received; signal only if it had been processed.
Assign(t) ==
  /\ fpc[t] = "assign"
  /\ write_buffer' = [write_buffer EXCEPT ![t] = got[t]]
  /\ fpc' = [fpc EXCEPT ![t] = IF buffers[t][got[t]].pending THEN "idle" ELSE "notify"]
  /\ UNCHANGED <<frontVars, cmd_id, buffers, middle_buffer, read_buffer, got, unsaved,
                 raced, free_list, backVars, age>>

\* The previous owner of a reused timer stores the buffer it got.  Its "destroy" was
\* popped on an earlier signal, so the buffer was pending and nothing is signalled.
AssignLate(t) ==
  /\ unsaved[t] # NoBuffer
  /\ write_buffer' = [write_buffer EXCEPT ![t] = unsaved[t]]
  /\ unsaved' = [unsaved EXCEPT ![t] = NoBuffer]
  /\ UNCHANGED <<frontVars, fpc, cmd_id, buffers, middle_buffer, read_buffer, got,
                 raced, free_list, backVars, age>>

Notify(t) ==
  /\ fpc[t] = "notify"
  /\ signals' = [signals EXCEPT ![t] = @ + 1]
  /\ fpc' = [fpc EXCEPT ![t] = "idle"]
  /\ UNCHANGED <<frontVars, channelVars, batch, connected, free_list, backend,
                 failed, tasks, cur_time, tpc, age>>

RunCallback_epoch_unchecked(t, e) ==
  /\ tasks[t][e] > 0
  /\ tasks' = [tasks EXCEPT ![t][e] = @ - 1]
  /\ state' = [state EXCEPT ![t] = "expired"]
  /\ age' = [age EXCEPT ![t] = 0]
  /\ UNCHANGED <<duration, exec, handle, fpc, channelVars, signals, batch, connected,
                 free_list, backend, failed, cur_time, tpc>>

\* The deferred callback.  One of an older epoch may run in the executor of a
\* previous owner, so it does not wait for the present owner's push().
RunCallback(t, e) ==
  /\ tasks[t][e] > 0
  /\ tasks' = [tasks EXCEPT ![t][e] = @ - 1]
  /\ IF cmd_id[t] = e
       THEN /\ fpc[t] = "idle"
            /\ state' = [state EXCEPT ![t] = "expired"]
            /\ age' = [age EXCEPT ![t] = 0]
       ELSE UNCHANGED <<state, age>>
  /\ UNCHANGED <<duration, exec, handle, fpc, channelVars, signals, batch, connected,
                 free_list, backend, failed, cur_time, tpc>>

-----------------------------------------------------------------------------
\* Backend: timer_manager::tick(), one step per command, retry and expiry.

ownerVars == <<handle, fpc, cmd_id, write_buffer, got, unsaved, raced>>

\* pop_updated_timers(): the signals present are taken in one batch.
TickBegin ==
  /\ tpc = "idle"
  /\ tpc' = "commands"
  /\ batch' = signals
  /\ signals' = [t \in Timer |-> 0]
  /\ UNCHANGED <<frontVars, fpc, channelVars, connected, free_list, backend,
                 failed, tasks, cur_time, age>>

StartTimeout_at_once(d) == (cur_time + d) % Word

StartTimeout(d) == (cur_time + Longer(d, 1)) % Word

\* The backend context after command c: any run is stopped first, except that
\* "create" only adopts the epoch.
Applied(b, c) ==
  CASE c.action = "start"   -> [cmd_id |-> c.cmd_id, state |-> "running",
                                timeout |-> StartTimeout(c.duration)]
    [] c.action = "stop"    -> [b EXCEPT !.cmd_id = c.cmd_id,
                                  !.state = IF @ = "running" THEN "stopped" ELSE @]
    [] c.action = "create"  -> [b EXCEPT !.cmd_id = c.cmd_id]
    [] c.action = "destroy" -> [cmd_id |-> c.cmd_id, state |-> "stopped", timeout |-> 0]

HandleCommand_not_exchanged(t) ==
  LET c == buffers[t][middle_buffer[t]] IN
  /\ tpc = "commands" /\ batch[t] > 0
  /\ batch' = [batch EXCEPT ![t] = @ - 1]
  /\ connected' = connected \cup {t}
  /\ read_buffer' = [read_buffer EXCEPT ![t] = middle_buffer[t]]
  /\ buffers' = [buffers EXCEPT ![t][middle_buffer[t]].pending = FALSE]
  /\ IF c.pending
       THEN backend' = [backend EXCEPT ![t] = Applied(@, c)]
       ELSE UNCHANGED backend
  /\ UNCHANGED <<frontVars, free_list, middle_buffer, ownerVars,
                 signals, failed, tasks, cur_time, tpc, age>>

\* handle_timer_updates(): pop() swaps the read and the middle buffer and marks
\* what it got as processed; "destroy" clears the frontend and frees the timer.
HandleCommand(t) ==
  LET c == buffers[t][middle_buffer[t]]
      destroyed == c.pending /\ c.action = "destroy" IN
  /\ tpc = "commands" /\ batch[t] > 0
  /\ batch' = [batch EXCEPT ![t] = @ - 1]
  /\ connected' = connected \cup {t}
  /\ read_buffer' = [read_buffer EXCEPT ![t] = middle_buffer[t]]
  /\ middle_buffer' = [middle_buffer EXCEPT ![t] = read_buffer[t]]
  /\ buffers' = [buffers EXCEPT ![t][middle_buffer[t]].pending = FALSE]
  /\ IF c.pending
       THEN backend' = [backend EXCEPT ![t] = Applied(@, c)]
       ELSE UNCHANGED backend
  /\ IF destroyed
       THEN /\ state' = [state EXCEPT ![t] = "stopped"]
            /\ duration' = [duration EXCEPT ![t] = INVALID_DURATION]
            /\ exec' = [exec EXCEPT ![t] = FALSE]
            /\ free_list' = free_list \cup {t}
       ELSE UNCHANGED <<state, duration, exec, free_list>>
  /\ UNCHANGED <<ownerVars, signals, failed, tasks, cur_time, tpc, age>>

CommandsDone ==
  /\ tpc = "commands" /\ \A t \in Timer : batch[t] = 0
  /\ tpc' = "postponed"
  /\ UNCHANGED <<frontVars, fpc, channelVars, signals, batch, connected,
                 free_list, backend, failed, tasks, cur_time, age>>

\* task_executor::defer() of the callback for the run of epoch e.
Defer(t, e) == tasks' = [tasks EXCEPT ![t][e] = @ + 1]

\* The run of epoch e is still the timer's last one, as far as can be seen.
Live(t, e) == backend[t].cmd_id = e /\ cmd_id[t] = e

\* An entry whose run is over is dropped, any other one is dispatched again.
Retry(t, e) ==
  /\ tpc = "postponed" /\ failed[t][e] > 0
  /\ IF Live(t, e) THEN Defer(t, e) ELSE UNCHANGED tasks
  /\ failed' = [failed EXCEPT ![t][e] = @ - 1]
  /\ UNCHANGED <<frontVars, fpc, channelVars, signals, batch, connected,
                 free_list, backend, cur_time, tpc, age>>

\* The last command of t is in the middle buffer or beyond, and signalled.
Visible(t) == fpc[t] = "idle" \/ (fpc[t] = "assign" /\ buffers[t][got[t]].pending)

\* The list is done, or the dispatch of a live entry failed once more.
Advance ==
  /\ tpc = "postponed"
  /\ \/ \A t \in Timer, e \in CmdIds : failed[t][e] = 0
     \/ \E t \in Timer, e \in CmdIds : failed[t][e] > 0 /\ Live(t, e)
  /\ cur_time' = (cur_time + 1) % Word
  /\ tpc' = "expire"
  /\ age' = [t \in Timer |->
               IF state[t] = "running" /\ Visible(t) /\ age[t] < MaxAge
                 THEN age[t] + 1 ELSE age[t]]
  /\ UNCHANGED <<frontVars, fpc, channelVars, signals, batch, connected,
                 free_list, backend, failed, tasks>>

Due(t) == backend[t].state = "running" /\ backend[t].timeout = cur_time

\* try_stop_timer_backend(expiry): the callback is deferred if the epoch is
\* current; a full executor leaves it for the next tick.
Expire(t) ==
  LET e == backend[t].cmd_id IN
  /\ tpc = "expire" /\ Due(t)
  /\ backend' = [backend EXCEPT ![t].state = "expired"]
  /\ \/ cmd_id[t] = e /\ Defer(t, e) /\ UNCHANGED failed
     \/ cmd_id[t] = e /\ failed' = [failed EXCEPT ![t][e] = @ + 1] /\ UNCHANGED tasks
     \/ cmd_id[t] # e /\ UNCHANGED <<failed, tasks>>
  /\ UNCHANGED <<frontVars, fpc, channelVars, signals, batch, connected,
                 free_list, cur_time, tpc, age>>

TickEnd ==
  /\ tpc = "expire" /\ \A t \in Timer : ~Due(t)
  /\ tpc' = "idle"
  /\ UNCHANGED <<frontVars, fpc, channelVars, signals, batch, connected,
                 free_list, backend, failed, tasks, cur_time, age>>

-----------------------------------------------------------------------------
Owner(t) ==
  \/ Reuse(t) \/ Create(t) \/ Run(t) \/ Stop(t) \/ Destroy(t)
  \/ \E d \in Durations : Set(t, d)
  \/ Exchange(t) \/ Assign(t) \/ AssignLate(t) \/ Notify(t)
  \/ \E e \in CmdIds : RunCallback(t, e)

Clock ==
  \/ TickBegin \/ CommandsDone \/ Advance \/ TickEnd
  \/ \E t \in Timer : HandleCommand(t) \/ Expire(t) \/ \E e \in CmdIds : Retry(t, e)

Next ==
  /\ ~raced
  /\ Clock \/ \E t \in Timer : Owner(t)

Spec == Init /\ [][Next]_vars

-----------------------------------------------------------------------------
\* The clock thread, the executors and the threads that are inside push() run
\* forever; an executor is not full forever.
Fairness ==
  /\ WF_vars(~raced /\ Clock)
  /\ \A t \in Timer :
       /\ WF_vars(~raced /\ (Exchange(t) \/ Assign(t) \/ Notify(t)))
       /\ WF_vars(~raced /\ AssignLate(t))
  /\ \A t \in Timer, e \in CmdIds :
       /\ WF_vars(~raced /\ RunCallback(t, e))
       /\ SF_vars(~raced /\ Retry(t, e))

LiveSpec == Spec /\ Fairness

\* Every variable keeps its type; a queue never holds two entries for the same
\* timer and epoch (signaller, executor and failed_to_trigger_timers).
TypeOK ==
  /\ state \in [Timer -> {"stopped", "running", "expired"}]
  /\ duration \in [Timer -> Durations \cup {INVALID_DURATION}]
  /\ exec \in [Timer -> BOOLEAN]
  /\ handle \in [Timer -> BOOLEAN]
  /\ fpc \in [Timer -> {"idle", "exchange", "assign", "notify"}]
  /\ cmd_id \in [Timer -> CmdIds]
  /\ buffers \in [Timer -> [Buffers -> Cmd]]
  /\ write_buffer \in [Timer -> Buffers]
  /\ middle_buffer \in [Timer -> Buffers]
  /\ read_buffer \in [Timer -> Buffers]
  /\ got \in [Timer -> Buffers]
  /\ unsaved \in [Timer -> Buffers \cup {NoBuffer}]
  /\ raced \in BOOLEAN
  /\ signals \in [Timer -> 0 .. 1]
  /\ batch \in [Timer -> 0 .. 1]
  /\ connected \subseteq Timer
  /\ free_list \subseteq connected
  /\ backend \in [Timer -> [cmd_id : CmdIds, timeout : 0 .. Word - 1,
                            state : {"stopped", "running", "expired"}]]
  /\ failed \in [Timer -> [CmdIds -> 0 .. 1]]
  /\ tasks \in [Timer -> [CmdIds -> 0 .. 1]]
  /\ cur_time \in 0 .. Word - 1
  /\ tpc \in {"idle", "commands", "postponed", "expire"}
  /\ age \in [Timer -> 0 .. MaxAge]

\* The buffer the owner may write: after the exchange it is the one received.
OwnedByWriter(t) ==
  IF unsaved[t] # NoBuffer THEN unsaved[t]
  ELSE IF fpc[t] = "assign" THEN got[t] ELSE write_buffer[t]

\* Owner and clock thread never hold the same buffer of the channel, and neither
\* holds the one in the middle (push() and pop() of backend_channel), until a timer is
\* reused and its new owner enters push() before the previous one has stored the
\* buffer it got.  A reuse alone, and a push() after that store, are safe.
BuffersDisjoint ==
  ~raced =>
    \A t \in Timer : {OwnedByWriter(t), middle_buffer[t], read_buffer[t]} = Buffers

\* A callback of the current epoch finds the timer running, as the assertion in
\* trigger_timeout_handling() requires: stop(), run(), set() and the destructor
\* cancel a callback that was dispatched before them.
CallbackFindsRunning ==
  \A t \in Timer, e \in CmdIds :
    tasks[t][e] > 0 /\ cmd_id[t] = e => state[t] = "running"

\* A run is over, or its callback is with the executor or waits to be dispatched again,
\* at the latest one tick after its duration: the start command is neither lost nor
\* left for the next lap of the tick counter.
TriggeredInTime ==
  \A t \in Timer :
    state[t] = "running" /\ failed[t][cmd_id[t]] = 0 /\ tasks[t][cmd_id[t]] = 0
      => age[t] <= Longer(duration[t], 1) + 1

\* A run that is not stopped, restarted or destroyed ends with its callback, unless
\* the push() of two owners raced.
RunEnds ==
  \A t \in Timer, e \in CmdIds :
    (state[t] = "running" /\ cmd_id[t] = e)
      ~> (state[t] # "running" \/ cmd_id[t] # e \/ raced)
-----------------------------------------------------------------------------
\* The inductive invariant behind BuffersDisjoint and CallbackFindsRunning.

\* Types, without the bounds on the queues.
Types ==
  /\ state \in [Timer -> {"stopped", "running", "expired"}]
  /\ duration \in [Timer -> Durations \cup {INVALID_DURATION}]
  /\ handle \in [Timer -> BOOLEAN]
  /\ fpc \in [Timer -> {"idle", "exchange", "assign", "notify"}]
  /\ cmd_id \in [Timer -> CmdIds]
  /\ buffers \in [Timer -> [Buffers -> Cmd]]
  /\ write_buffer \in [Timer -> Buffers]
  /\ middle_buffer \in [Timer -> Buffers]
  /\ read_buffer \in [Timer -> Buffers]
  /\ got \in [Timer -> Buffers]
  /\ unsaved \in [Timer -> Buffers \cup {NoBuffer}]
  /\ raced \in BOOLEAN
  /\ signals \in [Timer -> Nat]
  /\ batch \in [Timer -> Nat]
  /\ backend \in [Timer -> [cmd_id : CmdIds, timeout : 0 .. Word - 1,
                            state : {"stopped", "running", "expired"}]]
  /\ failed \in [Timer -> [CmdIds -> Nat]]
  /\ tasks \in [Timer -> [CmdIds -> Nat]]
  /\ cur_time \in 0 .. Word - 1

Written(t) == buffers[t][write_buffer[t]]
Middle(t) == buffers[t][middle_buffer[t]]

\* Where the commands are.  Before the exchange the latest one is in the writer's
\* buffer and what waits in the middle is older; after it the one in the middle is
\* the latest.  The clock thread has applied neither, and holds a processed one.
Channel(t) ==
  /\ {OwnedByWriter(t), middle_buffer[t], read_buffer[t]} = Buffers
  /\ ~buffers[t][read_buffer[t]].pending
  /\ backend[t].cmd_id <= cmd_id[t]
  /\ Middle(t).pending =>
       /\ backend[t].cmd_id < Middle(t).cmd_id
       /\ fpc[t] = "exchange" => Middle(t).cmd_id < cmd_id[t]
       /\ fpc[t] # "exchange" => Middle(t).cmd_id = cmd_id[t]
  /\ fpc[t] = "exchange" =>
       Written(t).pending /\ Written(t).cmd_id = cmd_id[t] /\ backend[t].cmd_id < cmd_id[t]

\* What a command that is not applied yet says of the timer: "start" that it runs,
\* "destroy" that it was given up for good and "create" that nothing ran before.
Meaning(t, c) ==
  /\ c.action = "start" /\ c.cmd_id = cmd_id[t] => state[t] = "running"
  /\ c.action = "destroy" =>
       ~handle[t] /\ t \notin free_list /\ state[t] = "stopped" /\ c.cmd_id = cmd_id[t]
  /\ c.action = "create" => backend[t].state # "running" /\ c.cmd_id = 1

Commands(t) ==
  /\ Middle(t).pending => Meaning(t, Middle(t))
  /\ fpc[t] = "exchange" => Meaning(t, Written(t))
  /\ handle[t] => t \notin free_list
  /\ backend[t].state = "running" => backend[t].cmd_id > 0

\* The run of an epoch is in one place only: the backend, the failed list or the
\* executor; before the clock thread knows of it, in none.
OneRun(t) ==
  /\ \A e \in CmdIds :
       e > backend[t].cmd_id => failed[t][e] = 0 /\ tasks[t][e] = 0
  /\ \A e \in CmdIds :
       e = cmd_id[t] =>
         /\ failed[t][e] + tasks[t][e] <= 1
         /\ failed[t][e] + tasks[t][e] = 1 => state[t] = "running"
         /\ backend[t].state = "running" /\ backend[t].cmd_id = e =>
              state[t] = "running" /\ failed[t][e] + tasks[t][e] = 0

\* A thread inside push() has published its command and is going to signal it.
GoingToSignal(t) ==
  fpc[t] = "notify" \/ (fpc[t] = "assign" /\ ~buffers[t][got[t]].pending)

\* A command that waits in the middle is signalled once: in the queue, in the batch of
\* the present tick, or by the thread that is still inside push().
Signalled(t) ==
  /\ IF Middle(t).pending
       THEN \/ signals[t] = 1 /\ batch[t] = 0 /\ ~GoingToSignal(t)
            \/ signals[t] = 0 /\ batch[t] = 1 /\ ~GoingToSignal(t)
            \/ signals[t] = 0 /\ batch[t] = 0 /\ GoingToSignal(t)
       ELSE signals[t] = 0 /\ batch[t] = 0 /\ ~GoingToSignal(t)
  /\ tpc # "commands" => batch[t] = 0

\* A timer that can be reused was destroyed by a thread that has left push(), or that
\* has only to store the buffer it got; after the reuse that store is still due.
Handover(t) ==
  /\ t \in free_list => fpc[t] \in {"idle", "assign"} /\ ~GoingToSignal(t)
  /\ unsaved[t] # NoBuffer => fpc[t] = "idle" /\ buffers[t][unsaved[t]].pending

IndInv ==
  /\ Types
  /\ \A t \in Timer :
       /\ OneRun(t)
       /\ ~raced => Channel(t) /\ Commands(t) /\ Signalled(t) /\ Handover(t)
====
