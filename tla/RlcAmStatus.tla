---------------------------- MODULE RlcAmStatus ----------------------------
(***************************************************************************)
(* How status reports travel from the RLC AM receiver to the transmitter   *)
(* of the same bearer (lib/rlc/rlc_rx_am_entity.cpp, rlc_am_interconnect.h)*)
(*                                                                         *)
(* The receiver runs in the UE executor: it rebuilds the report in its own *)
(* buffer, swaps it into status_for_exchange, raises do_status when a      *)
(* report is requested (poll or t-Reassembly) and wakes the transmitter.   *)
(* The transmitter runs in the cell executor: pull_pdu() asks              *)
(* status_report_required() and then takes the report with                 *)
(* get_status_pdu(), which also starts t-StatusProhibit.  It is woken by a *)
(* task in the cell executor that tells the scheduler the buffer state;    *)
(* pending_buffer_state keeps a second one from being queued.              *)
(*                                                                         *)
(* Every access to an atomic is a step.  A report is its version: the      *)
(* number of refresh_status_report() calls before it.  wpc and rpc are     *)
(* the program counters of receiver and transmitter, req the version of    *)
(* the last requested report, sent the versions handed to lower layers,    *)
(* informed that the scheduler expects the bearer to have data.  disturbed *)
(* records that the UE executor "refused" the task that starts             *)
(* t-StatusProhibit, and that the timer expired inside get_status_pdu(),   *)
(* which was "preempted" for so long; unheard, that the cell executor      *)
(* refused the task and pending_buffer_state has not been cleared since.   *)
(***************************************************************************)
EXTENDS Integers, Sequences

CONSTANTS Prohibit,         \* t_status_prohibit > 0
          MaxVersion,       \* bound on refresh_status_report() calls
          MaxUpdates        \* bound on queued buffer state updates

ASSUME ProhibitAssumption == Prohibit \in BOOLEAN
ASSUME VersionAssumption == MaxVersion \in Nat
ASSUME UpdatesAssumption == MaxUpdates \in Nat

VARIABLES status_buf, status_owned_by_writer, status_for_exchange,
          status_owned_by_reader, do_status, timer_is_running,
          timer, run_tasks, disturbed, wpc, requested, rpc, version, req, sent,
          informed, pending_buffer_state, updates, unheard

bufVars == <<status_buf, status_owned_by_writer, status_for_exchange,
             status_owned_by_reader>>
timerVars == <<timer_is_running, timer, run_tasks, disturbed>>
wakeVars == <<pending_buffer_state, updates, unheard>>
vars == <<bufVars, do_status, timerVars, wpc, requested, rpc, version, req,
          sent, informed, wakeVars>>

Init ==
  /\ status_buf = [b \in 0 .. 2 |-> 0]
  /\ status_owned_by_writer = 0
  /\ status_for_exchange = 1
  /\ status_owned_by_reader = 2
  /\ do_status = FALSE
  /\ timer_is_running = FALSE
  /\ timer = "stopped"
  /\ run_tasks = 0 /\ disturbed = {}
  /\ wpc = "idle" /\ requested = FALSE /\ rpc = "idle"
  /\ version = 0 /\ req = 0 /\ sent = <<>>
  /\ informed = FALSE
  /\ pending_buffer_state = FALSE /\ updates = 0 /\ unheard = FALSE

status_report_required == do_status /\ ~timer_is_running

-----------------------------------------------------------------------------
\* Receiver, in the UE executor.

Refresh_request_first(r) ==
  /\ wpc = "idle" /\ version < MaxVersion
  /\ version' = version + 1
  /\ status_buf' = [status_buf EXCEPT ![status_owned_by_writer] = version + 1]
  /\ do_status' = (do_status \/ r)
  /\ req' = IF r THEN version + 1 ELSE req
  /\ requested' = FALSE
  /\ wpc' = "store"
  /\ UNCHANGED <<status_owned_by_writer, status_for_exchange, status_owned_by_reader,
                 timerVars, rpc, sent, informed, wakeVars>>

\* refresh_status_report(): rebuild the report in the writer's buffer, because
\* the window changed (r false) or because a report is requested (r true).
Refresh(r) ==
  /\ wpc = "idle" /\ version < MaxVersion
  /\ version' = version + 1
  /\ status_buf' = [status_buf EXCEPT ![status_owned_by_writer] = version + 1]
  /\ requested' = r
  /\ wpc' = "store"
  /\ UNCHANGED <<status_owned_by_writer, status_for_exchange, status_owned_by_reader,
                 do_status, timerVars, rpc, req, sent, informed, wakeVars>>

Store_not_exchanged ==
  /\ wpc = "store"
  /\ status_for_exchange' = status_owned_by_writer
  /\ wpc' = IF requested THEN "request" ELSE "notify"
  /\ UNCHANGED <<status_buf, status_owned_by_writer, status_owned_by_reader,
                 do_status, timerVars, requested, rpc, version, req, sent, informed, wakeVars>>

\* store_status_report().
Store ==
  /\ wpc = "store"
  /\ status_owned_by_writer' = status_for_exchange
  /\ status_for_exchange' = status_owned_by_writer
  /\ wpc' = IF requested THEN "request" ELSE "notify"
  /\ UNCHANGED <<status_buf, status_owned_by_reader, do_status, timerVars,
                 requested, rpc, version, req, sent, informed, wakeVars>>

Request ==
  /\ wpc = "request"
  /\ do_status' = TRUE
  /\ req' = version
  /\ wpc' = "notify"
  /\ UNCHANGED <<bufVars, timerVars, requested, rpc, version, sent, informed, wakeVars>>

\* notify_status_report_changed().
NotifyChanged ==
  /\ wpc = "notify"
  /\ wpc' = IF status_report_required THEN "wake" ELSE "idle"
  /\ UNCHANGED <<bufVars, do_status, timerVars, requested, rpc, version, req, sent,
                 informed, wakeVars>>

\* The flag is tested and set, and the task deferred; a refusal is only logged.
handle_changed_buffer_state ==
  \/ pending_buffer_state /\ UNCHANGED wakeVars
  \/ /\ ~pending_buffer_state
     /\ pending_buffer_state' = TRUE
     /\ \/ updates' = updates + 1 /\ UNCHANGED unheard
        \/ unheard' = TRUE /\ UNCHANGED updates

\* on_status_report_changed().
Wake ==
  /\ wpc = "wake"
  /\ handle_changed_buffer_state
  /\ wpc' = "idle"
  /\ UNCHANGED <<bufVars, do_status, timerVars, requested, rpc, version, req, sent, informed>>

\* An SDU arrives or is discarded: other tasks, and other threads, use the same flag.
SduChanged ==
  /\ handle_changed_buffer_state
  /\ UNCHANGED <<bufVars, do_status, timerVars, wpc, requested, rpc, version, req, sent,
                 informed>>

\* The task that get_status_pdu() deferred: status_prohibit_timer.run().
RunTimer ==
  /\ wpc = "idle" /\ run_tasks > 0
  /\ run_tasks' = run_tasks - 1
  /\ timer' = "running"
  /\ UNCHANGED <<bufVars, do_status, timer_is_running, disturbed, wpc, requested, rpc,
                 version, req, sent, informed, wakeVars>>

ProhibitExpires_unannounced ==
  /\ wpc = "idle" /\ timer = "running"
  /\ timer' = "expired"
  /\ timer_is_running' = FALSE
  /\ disturbed' = IF rpc = "flag" THEN disturbed \cup {"preempted"} ELSE disturbed
  /\ UNCHANGED <<bufVars, do_status, run_tasks, wpc, requested, rpc, version,
                 req, sent, informed, wakeVars>>

\* on_expired_status_prohibit_timer(); it notifies but does not refresh.
ProhibitExpires ==
  /\ wpc = "idle" /\ timer = "running"
  /\ timer' = "expired"
  /\ timer_is_running' = FALSE
  /\ disturbed' = IF rpc = "flag" THEN disturbed \cup {"preempted"} ELSE disturbed
  /\ wpc' = "notify"
  /\ UNCHANGED <<bufVars, do_status, run_tasks, requested, rpc, version, req,
                 sent, informed, wakeVars>>

-----------------------------------------------------------------------------
\* Transmitter, in the cell executor: pull_pdu() and get_status_pdu().

\* The scheduler may also pull because the bearer has data.
Pull ==
  /\ rpc = "idle"
  /\ informed' = FALSE
  /\ rpc' = IF status_report_required THEN "clear" ELSE "idle"
  /\ UNCHANGED <<bufVars, do_status, timerVars, wpc, requested, version, req, sent,
                 wakeVars>>

Clear ==
  /\ rpc = "clear"
  /\ do_status' = FALSE
  /\ rpc' = IF Prohibit THEN "defer" ELSE "exchange"
  /\ UNCHANGED <<bufVars, timerVars, wpc, requested, version, req, sent, informed, wakeVars>>

DeferRun_skipped ==
  /\ rpc = "defer"
  /\ rpc' = "flag"
  /\ UNCHANGED <<bufVars, do_status, timerVars, wpc, requested, version, req,
                 sent, informed, wakeVars>>

\* ue_executor.defer(run): a refusal is only logged.
DeferRun ==
  /\ rpc = "defer"
  /\ \/ run_tasks' = run_tasks + 1 /\ UNCHANGED disturbed
     \/ disturbed' = disturbed \cup {"refused"} /\ UNCHANGED run_tasks
  /\ rpc' = "flag"
  /\ UNCHANGED <<bufVars, do_status, timer_is_running, timer, wpc, requested,
                 version, req, sent, informed, wakeVars>>

SetFlag ==
  /\ rpc = "flag"
  /\ timer_is_running' = TRUE
  /\ rpc' = "exchange"
  /\ UNCHANGED <<bufVars, do_status, timer, run_tasks, disturbed, wpc, requested,
                 version, req, sent, informed, wakeVars>>

\* The report is swapped out and packed for lower layers.
Take ==
  /\ rpc = "exchange"
  /\ status_owned_by_reader' = status_for_exchange
  /\ status_for_exchange' = status_owned_by_reader
  /\ sent' = Append(sent, status_buf[status_for_exchange])
  /\ rpc' = "idle"
  /\ UNCHANGED <<status_buf, status_owned_by_writer, do_status, timerVars, wpc,
                 requested, version, req, informed, wakeVars>>

ClearPending_forgotten ==
  /\ UNCHANGED <<pending_buffer_state, unheard>>
  /\ rpc' = "state"
  /\ UNCHANGED <<bufVars, do_status, timerVars, wpc, requested, version, req, sent, informed>>

\* update_mac_buffer_state() clears the flag before it looks at the buffer.
ClearPending ==
  /\ pending_buffer_state' = FALSE /\ unheard' = FALSE
  /\ rpc' = "state"
  /\ UNCHANGED <<bufVars, do_status, timerVars, wpc, requested, version, req, sent, informed>>

UpdateQueued ==
  /\ rpc = "idle" /\ updates > 0
  /\ updates' = updates - 1
  /\ ClearPending

\* After a status PDU of the peer, or when the poll retransmit timer expired.
UpdateForced ==
  /\ rpc = "idle" /\ updates < MaxUpdates
  /\ UNCHANGED updates
  /\ ClearPending

\* The scheduler is told whether there is a report to send.  A very large buffer is
\* not announced again; the scheduler expects data all the same.
SendState ==
  /\ rpc = "state"
  /\ informed' = status_report_required
  /\ rpc' = "idle"
  /\ UNCHANGED <<bufVars, do_status, timerVars, wpc, requested, version, req, sent, wakeVars>>

-----------------------------------------------------------------------------
Receiver == Store \/ Request \/ NotifyChanged \/ Wake \/ RunTimer \/ ProhibitExpires
Transmitter == \/ Pull \/ Clear \/ DeferRun \/ SetFlag \/ Take
               \/ UpdateQueued \/ UpdateForced \/ SendState

Next == (\E r \in BOOLEAN : Refresh(r)) \/ SduChanged \/ Receiver \/ Transmitter

Spec == Init /\ [][Next]_vars

\* The executors run what is queued, the timer expires, the scheduler grants a
\* bearer it believes to have data.  PDUs need not arrive.  Queues are FIFO and
\* slots go on, however often an update is forced in between.
Fairness ==
  /\ WF_vars(Receiver)
  /\ WF_vars(Clear \/ DeferRun \/ SetFlag \/ Take \/ SendState)
  /\ SF_vars(UpdateQueued)
  /\ SF_vars(informed /\ Pull)

LiveSpec == Spec /\ Fairness

-----------------------------------------------------------------------------
\* Every variable keeps its type.
TypeOK ==
  /\ status_buf \in [0 .. 2 -> 0 .. MaxVersion]
  /\ status_owned_by_writer \in 0 .. 2
  /\ status_for_exchange \in 0 .. 2
  /\ status_owned_by_reader \in 0 .. 2
  /\ do_status \in BOOLEAN /\ timer_is_running \in BOOLEAN
  /\ timer \in {"stopped", "running", "expired"}
  /\ run_tasks \in Nat /\ disturbed \subseteq {"refused", "preempted"}
  /\ wpc \in {"idle", "store", "request", "notify", "wake"}
  /\ requested \in BOOLEAN
  /\ rpc \in {"idle", "clear", "defer", "flag", "exchange", "state"}
  /\ version \in 0 .. MaxVersion /\ req \in 0 .. MaxVersion
  /\ sent \in Seq(0 .. MaxVersion)
  /\ informed \in BOOLEAN
  /\ pending_buffer_state \in BOOLEAN /\ updates \in Nat /\ unheard \in BOOLEAN

\* Receiver and transmitter never work on the same report, and neither works on
\* the one that is being exchanged (store_status_report(), get_status_pdu()).
ReportsDisjoint ==
  {status_owned_by_writer, status_for_exchange, status_owned_by_reader} = 0 .. 2

\* A report at least as new as v has been handed to lower layers.
Reported(v) == \E i \in DOMAIN sent : sent[i] >= v

\* A requested report is not forgotten: until one at least that new has been
\* sent, do_status is raised or the transmitter is about to take it.
RequestNotLost ==
  req > 0 /\ ~Reported(req) => do_status \/ rpc \in {"defer", "flag", "exchange"}

\* Version v has been reported or is the one lying in the exchange.
Fresh(v) == Reported(v) \/ status_buf[status_for_exchange] >= v

\* What RequestNotLost rests on: the report lying in the exchange covers every
\* request not yet answered, because the receiver stores before it requests.
RequestCovered ==
  /\ req <= version
  /\ Fresh(req)
  /\ wpc = "store" => status_buf[status_owned_by_writer] = version
  /\ wpc = "request" => Fresh(version)

\* Whenever a report may be sent, the scheduler has been told, or the receiver or a
\* task of the cell executor is about to tell it, unless the executor refused that
\* task: no wake-up is lost between do_status, t-StatusProhibit and the flag that
\* spares a second task.
WakeupNotLost ==
  status_report_required /\ ~unheard =>
    informed \/ wpc \in {"notify", "wake"} \/ rpc \in {"clear", "state"} \/ updates > 0

\* What WakeupNotLost rests on: pending_buffer_state stands for a queued task.
PendingQueued == pending_buffer_state /\ ~unheard => updates > 0

\* The flag that says t-StatusProhibit runs is backed by the timer or by the
\* queued task that starts it.
FlagBacked == timer_is_running => timer = "running" \/ run_tasks > 0

\* Unless the task was refused or the timer expired before the flag was raised,
\* the flag of get_status_pdu() is backed by the timer, however the two executors
\* interleave.
FlagHasTimer == disturbed = {} => FlagBacked

\* What FlagHasTimer rests on: the task or the timer is there already when
\* get_status_pdu() is about to raise the flag.
FlagCovered ==
  disturbed = {} /\ (timer_is_running \/ rpc = "flag") => timer = "running" \/ run_tasks > 0

\* The inductive invariant of the exchange.
IndInv ==
  /\ TypeOK /\ ReportsDisjoint /\ RequestCovered /\ RequestNotLost
  /\ PendingQueued /\ WakeupNotLost

\* Unless the hand-over was disturbed or the wake-up refused, every requested report
\* is eventually sent, in that version or a newer one.
RequestAnswered ==
  \A v \in 1 .. MaxVersion : (req = v) ~> (Reported(v) \/ disturbed # {} \/ unheard)
=============================================================================
