# TLA+ models of the gNB user plane

This directory holds TLA+ models of the parts of this gNB (srsRAN Project with
DSCP-based prioritisation) whose correctness depends on the order in which threads,
timers and messages meet. `PROJECT.json` lists components, runs, hazards, findings,
theorems, and the source lines behind every definition.

To check a run: `tlc -config RlcAmLink.cfg MCRlcAmLink`. To check the proofs:
`tlapm RlcSduQueueProofs.tla`, and likewise for the other `*Proofs` modules.

## 1. Inventory

The gNB is a pipeline. In the downlink a packet goes GTP-U, SDAP, PDCP (CU-UP), F1-U,
RLC, MAC and scheduler (DU), PHY. CU-CP, RRC and the interface protocols set bearers
up. Each layer of a UE runs in an executor: RLC receives PDUs in the *UE executor* and
is pulled by MAC in the *cell executor*; PDCP and SDAP run in CU-UP executors and PDCP
hands its ciphering to a pool of crypto workers; the
timer service ticks in a clock thread and defers expiries to the owner's executor.

| Component | State | Operations | What is hard | Properties | Status |
|---|---|---|---|---|---|
| RLC SDU queue | inner SPSC queue, slot states and sizes, packed counter | `write`, `try_discard`, `read`, `front` | lock-free; discard races release; slot reuse modulo capacity | FIFO with discard, exact counters, slot ownership | modelled, proved |
| Timer service | triple buffer, signals, wheel, failed list | `set`, `run`, `stop`, `destroy`, `tick`, callbacks | stale expiries, refused tasks, reuse of handles | contract of `unique_timer` | partly, safety proved |
| RLC AM status exchange | three status PDUs, `do_status`, prohibit flag and timer, `pending_buffer_state` | `store_status_report`, `get_status_pdu`, notification, buffer state updates | two executors, no lock | nothing shared, no request or wake-up lost | modelled, proved |
| RLC AM receiver | RX_Next, RX_Highest_Status, RX_Next_Highest, window, segments | `handle_data_pdu`, `t-Reassembly` | overlap, reordering, SN reuse | bytes kept once, reports exact | partly, reassembly proved |
| RLC AM transmitter | TX_Next, TX_Next_Ack, window, ReTx queue, poll state | `pull_pdu`, `handle_status_pdu`, `t-PollRetransmit` | late reports, NACK of an SDU under segmentation, missed polls | windows agree, acknowledged means delivered, no stall | partly |
| Status PDU | NACK list, packed size | `push_nack`, `trim` | ranges across the SN wrap and across segments | report and cuts say what is missing | partly, proved |
| DSCP mapper, SDAP, DU manager, time-QoS scheduler | DSCP per UE, 5QI per DSCP, interned channel configurations | `handle_sdu`, `setup_drbs`, `apply_5qi_based_runtime_overrides`, `compute_dl_qos_weights` | four threads, several lock acquisitions per decision, shared mutable objects | one profile per decision, convergence | safety proved |
| PDCP receiver | RX_NEXT, RX_DELIV, RX_REORD, window, t-Reordering, crypto tokens | `handle_pdu`, `apply_security`, `apply_reordering`, timer, status report, key change, release | PDUs overtake each other in the crypto pool while the window moves; executors refuse | delivered once, gaps watched and closed, reports exact, procedures end unless a wake-up is lost | partly, safety proved |
| PDCP transmitter | TX_NEXT, TX_TRANS_CRYPTO, TX_REORD_CRYPTO, TX_TRANS, TX_NEXT_ACK, window, two timers | `handle_sdu`, `apply_security`, `apply_reordering`, notifications, status report, discard, data recovery, key change, release | one discard timer for a window with holes; PDUs lost in the pool; retransmission with new keys | order, COUNT used once per key, discard in time, nobody waits without a timer | partly, safety proved |
| RLC UM/TM, GTP-U/F1-U, scheduler, UE procedures | windows, HARQ processes, UE contexts | | see section 6 | | not modelled |
| ASN.1, FAPI, PHY, OFH, logging, applications | | | encoding, signal processing, I/O | | out of reach |

`PROJECT.json` has the complete list with sources and reasons.

## 2. Order of the work

1. SDU queue: abstract FIFO, detailed model, refinement, inductive proof.
2. Timer service against the contract of `unique_timer`.
3. RLC AM: pure algorithms (segments, status PDU) against reference definitions; the
   status exchange with proof; both entities composed over a lossy air.
4. DSCP-based QoS across SDAP, DU manager and scheduler.
5. PDCP: both entities with crypto pool, timers and the CU-UP's procedures.
6. Inductive proofs of the PDCP receiver, the timer service and the QoS decision.
7. Inductive proofs of the PDCP transmitter, of reassembly and of the status report.

Candidates beyond this: the composed AM entities; PDCP's transmitter composed with the
SDU queue through `on_discard_pdu`.

## 3. Modules

### SDU queue (`lib/rlc/rlc_sdu_queue_lockfree.h`)

`RlcSduFifo` is the promise: a FIFO of SDUs in which an SDU that is still buffered may
be discarded by PDCP SN. `RlcSduQueue` is the code, one step per access to shared
memory; `upc` and `lpc` are the program counters of the upper-layer thread (`write`,
`try_discard`) and of the lower-layer thread (`read`, `front`). The packed 64-bit
counter is a number modulo `Word * Word`, so that it wraps as in the code.
The abstract buffer (`Buffered`) is the sequence of SDUs that are pushed, in the inner queue or in
the lower thread's hand, and not discarded. `MCRlcSduQueue` adds the liveness property.

### Timers (`lib/support/timers.cpp`)

`Timers` models `unique_timer`, the triple buffer of `backend_channel`, the signal
queue, `tick()` in its phases and the deferral of callbacks, which the executor may
refuse. Time is modulo `Word`. `TimerContract` is what an owner may rely on; a callback
takes effect only while the timer runs and only after its duration. A destroyed timer may
be reused before its owner has stored the index of the buffer it exchanged (`AssignLate`);
`raced` marks a push in between. `TriggeredInTime` says that a run is with an executor, or
in the list of refused deferrals, at the latest one tick after its duration. The spin wheel is
reduced to "the run is due when the counter equals its time-out".

### RLC AM

* `RlcRxSegments`: `store_segment` and `update_segment_inventory` as operators on
  sequences of `[so, len, last]`.
* `RlcStatusPdu`, `RlcStatusReport`: `push_nack` with merging, `trim`, the size
  arithmetic, the expansion of ranges in the transmitter, and `refresh_status_report`.
  The loops of the code are recursive functions on the number of iterations
  (`StoreLoop`, `SegmentLoop`, `ReportLoop`, `ExpandLoop`).
* `RlcRxReassembly`: full SDUs and arbitrary overlapping segments of several SDUs; the
  stored segments are compared with the set of bytes that arrived. `RlcRxReports` adds the
  status reports of such a window and what the peer reads in them.
* `RlcAmStatus`: the hand-over of reports between the two executors, at the granularity
  of single atomics. A report is its version number. The transmitter is woken by a task of
  the cell executor (`updates`), which `pending_buffer_state` keeps from being queued
  twice; SDUs use the same flag from other threads (`SduChanged`), and a status PDU or an
  expired timer forces an update without a task. The executor may refuse the task, which
  `unheard` records until the flag is cleared.
* `RlcAmWindow`, `RlcAmTx`, `RlcAmRx`: the two entities; each handler is one step
  because it runs in one executor. `Lens` gives the SDUs of a run; a PDU carries the
  number of its SDU so that properties can tell SDUs with equal SNs apart.
* `RlcAmLink`: both ends and the air. The air reorders within what the window allows,
  and loses at most `MaxLoss` PDUs. Timers may expire while an answer is under way at
  most `MaxEarly` times.

Each entity is bidirectional in the code; the models take one direction, since the two
directions meet only in `pull_pdu` (a status PDU goes first).

### PDCP (`lib/pdcp`)

* `PdcpCount`: SN, HFN and COUNT, and the estimation of a COUNT from an SN relative to
  the lower edge of a window, which the receiver (for PDUs) and the transmitter (for
  notifications of RLC) share.
* `PdcpTokens`: the token manager. Each PDU in the pool holds a token, the entity holds
  one itself; whoever returns the last one sets the event the CU-UP waits for.
* `PdcpRx`: arrival numbers a PDU, a crypto worker verifies it, and the UE executor puts
  it in the window. A PDU is the COUNT and key of its sender and verifies if the receiver
  uses the same. `rx` is the record `st` with the window and the timer; `held` are the
  COUNTs of the window whose buffer is not an empty placeholder.
* `PdcpTx`: the same for the transmitter. An element of the window has its age in ticks
  instead of its arrival time, so that no clock grows; `pdu` tells whether a protected PDU
  waits there, and from which round of retransmissions. A callback may run ticks after its
  timer expired; `late` counts these ticks for the timer that runs, and a restart by the
  difference of arrival times hands them on. Where the code aborts or hangs,
  `tx.failed` says why and nothing happens any more.

In both, a CU-UP procedure stops the entity's processing and returns the entity's token;
once the event is set it changes the keys, re-establishes if asked to, and flushes what was
buffered, in one step. `PdcpRx` has the await in between as the code does it
(`event_impl.h`): a test of the event, the suspension, and the resumption by whoever returns
the last token, which may be a crypto worker. An event that is set between test and
suspension is overwritten, and the wake-up is lost (`awaiter`). In
`PdcpTx`, which has no fairness, the await is a guard, and a lost wake-up is a
procedure that never takes its second step.
Handlers of an entity are one step each, since the UE's executors are one strand.

### DSCP-based QoS

`DscpQosMapper` is the singleton: DSCP per UE index, 5QI per DSCP, the profile table and
the standard 5QI table. Each method holds the mutex and is one step.
`DscpQosScheduling` adds the threads: SDAP registers a DSCP and maps it in a second
acquisition; the DU manager reads the DSCP, maps it, and interns the configuration of
the logical channel; the cell thread configures UEs and, for each priority, reads the
DSCP, overlays the shared object and weighs. `pool` maps what `operator==` looks at to
the object, whose runtime part is mutable. A 5QI that the DU is not configured with
makes `qos_config.at()` throw, which ends the program (`Alive`).
One index stands for the CU-UP's and the DU's number of a UE.

## 4. Runs

| Run | Shows |
|---|---|
| `sdu_queue` | all interleavings of both threads: refinement of the FIFO, dead error branches, exact counters between calls, the byte limit and, under fairness, slots released |
| `timers` | triple buffer disjoint, no stale or late callback, contract kept, every run ends |
| `am_status` | with refused tasks and an arbitrarily delayed reader: reports disjoint, no request lost, no wake-up lost unless the cell executor refused the task; and, unless the task that starts the timer was refused or the reader was preempted for a whole prohibit period (`disturbed`), the flag backed by a timer and every request answered |
| `rx_reassembly` | segments and status PDUs against their reference definitions, for every grant size |
| `am_link` | five SDUs over four SNs with loss, reordering, early timers, a discarded SDU, poll counters and status PDUs cut to the bare header |
| `am_link_live` | whatever is lost, all SDUs are acknowledged or RRC is told |
| `qos` | two UEs that share configuration objects: one profile per decision, rate targets only against measured rates, convergence |
| `pdcp_rx` | UM, AM and SRB: delivered once, an SRB in order, no gap without a timer, status reports exact, keys replaced only when the pool is empty; under fairness every gap closes, and every procedure ends unless the last token comes back on a crypto worker in the middle of the await |
| `pdcp_tx` | UM and AM, finite and infinite discard timer: submitted in order, no COUNT used for two SDUs under one key, SDUs discarded within a tick and the lateness of callbacks, no PDU waits without a timer, TX_NEXT_ACK at the oldest SDU |
| `rx_reassembly_trim`, `am_link_stall`, `pdcp_tx_abort` | the code departs from its comments or assertions, see section 7 |

Bounds:

* `sdu_queue`: capacity 2 with PDCP SNs 0, 1, 2, so that 0 and 2 share a slot; a byte limit
  of 3 that two SDUs reach (the code compares with `<`), while the inner queue can also
  be full of discarded SDUs below the limit; a counter half of 4 values, which wraps.
  SDUs have one size: with sizes 1 and 2 the run also passes (390931 states) but takes
  several minutes.
* `timers`: one timer that is created, with two commands after its creation (or a
  destruction and one command after its reuse), durations 0 and 2, a counter of 4 values:
  restart, stop and destruction each race with the expiry before, and the reuse with the
  end of the destruction. Timers meet only in
  queues whose order does not matter, so one stands for several; the proofs of section 5
  are for any number.
* `am_status`: four reports, one more than there are status PDUs to exchange, so that
  each of the three is reused; two queued buffer state updates, one more than
  `pending_buffer_state` lets in while nothing is forced.
* `rx_reassembly`: three SDUs of three bytes across the SN wrap, `MaxRange` 2 so that a
  range is full.
* `am_link`: 4 SNs and a window of 2, the smallest space in which SNs are reused while
  the receiver still remembers; one SDU in two segments; one loss and one early timer.
* `am_link_live`: an SDU in three segments and a short one, two losses, grants too small
  for any payload.
* `qos`: two UEs with a conversational bearer (5QI 1, rates from the core), DSCP 34 (in
  the table, GBR, its 5QI not configured in the DU) and 46 (not in the table, becomes 5QI 9).
* `pdcp_rx`: a window of 4, hence 8 SNs; reception starts at COUNT 6, so that SN and slot
  wrap; COUNT 8 never arrives, COUNT 0 is an old PDU with the SN of COUNT 8. Two tasks in
  the pool are enough to overtake; one PDU buffered during one key change; a status
  report of one bit, so that the bitmap is cut; a hard limit of 12, which the
  COUNTs exceed that wrap below zero after a re-establishment (an HFN of -1).
* `pdcp_tx`: the same window; three SDUs, so that there can be a hole between two; two
  tasks, a discard time of two ticks, one key change or data recovery. UM starts at COUNT
  0, the value a re-establishment goes back to, AM at COUNT 6, so that SNs wrap. The hard
  limit of COUNTs is 9. Callbacks of one timer run are late by one tick in all
  (`MaxLate`), which is enough for the lateness to be handed on to the next run.

Deadlock is not checked where the system really may come to rest: after the bounded
number of SDUs, commands or reports, or when the program ended.

Fairness:

* `sdu_queue`: threads finish the calls they are in, MAC pulls a bearer that reports
  data, and each report of the buffer state calls `front()`.
* `timers`: the clock ticks, executors run their tasks, and an executor that refuses
  tasks does not do so for ever (strong fairness of `Retry`).
* `am_status`: executors run, the timer expires, the scheduler serves a bearer it was
  told of. PDUs need not arrive. Updates that are forced in between disable the queued task
  and the pull again and again, hence strong fairness of both: the queue is FIFO and slots go on.
* `pdcp_rx`: the pool and the UE executor run what they accepted, a running timer expires,
  a coroutine goes on unless it is suspended or its wake-up was lost. The enabling conditions are written out
  (`Fairness` in `PdcpRx`), which is weak fairness and much faster to check. Nothing is
  assumed of the peer or of the control plane.
* `am_link_live`: the system goes on while it is `Busy`, that is while an SDU, a task, a
  PDU, a report or a timer is pending or a grant could be used. Which step is taken is
  not constrained; losses are bounded by `MaxLoss`. That a busy bearer always has a step
  is what the deadlock check of this run shows.
* `qos`: handlers finish, and every slot visits every UE that has data (strong fairness
  of `compute_prio`, since other UEs' turns disable it in between).

## 5. Proofs

`RlcSduQueueProofs` proves, for every capacity, limit, word size and set of SNs and sizes,
`TypeCorrect`, `SlotOwnershipHolds` and `NoQueueErrorHolds`. `NoQueueError` says that no
error branch was taken and is not inductive. Its strengthening `SlotOwnership` says who
owns a slot at every program point: the SDU in the inner queue (`QueueSlots`), the SDU the
lower thread popped until its exchange (`InHandSlot`), the SDU being written until its
push (`WritingSlot`); and that the SDU `front()` found discarded is still the front when
it pops it (`FrontStays`). `IndInv == TypeOK /\ SlotOwnership` is proved action by action.

On top of it the module proves `QuiescentStateExactHolds`, `ByteLimitRespectedHolds` and
`RefinesFifoHolds`: the lock-free queue implements `RlcSduFifo`. Their invariant
`BufferInv` has three parts. `CounterExact`: modulo `Word * Word` the packed counter is what
is buffered plus the updates that are due, a subtraction of either thread or an addition of
the writer; each step moves a term of that sum to another place or settles it. `RoomLeft`:
what is buffered, or read and not yet subtracted, leaves room below the limit for the SDU
that passed the check; the lower thread only makes more room. `SlotsHeld`: a slot that
holds an SN has an SDU that waits, which is the one a discard removes from the abstract
buffer. Neither half of the counter may overflow (`CounterAssumption`; in the code each half
is 32 bits wide, as is the byte limit, and the capacity is far smaller). For each action one lemma
shows both that it keeps `BufferInv` and that it is a step of the FIFO or a stutter: a push
is `AbsWrite`, the exchange of `try_discard` is `AbsDiscard`, the exchange of
`check_and_release` (or the pop of an SDU without SN) is `AbsRead`. The abstract buffer is
a recursive function of the queue and the slots; `KeptConcat`, `KeptFirst` and `KeptButOne`
say by induction how it changes with one SDU more, one less in front, one less in between.

`RlcAmStatusProofs` proves for every number of reports, and with refusing executors and
preemption, `ReportsDisjointHolds`, `RequestNotLostHolds`, `WakeupNotLostHolds` and
`FlagHasTimerHolds`. `RequestNotLost` needs `RequestCovered`: the exchange holds a report
at least as new as the last request unless such a report has been sent already, because
the receiver stores before it requests. `WakeupNotLost` needs `PendingQueued`: the flag
stands for a queued task unless that task was refused. `FlagHasTimer` needs `FlagCovered`: the timer
runs, or the task that starts it is queued, already when the flag is about to be raised.

`PdcpRxProofs` proves for every window size, every set of COUNTs and any number of PDUs in
the crypto pool the five safety properties of `pdcp_rx`: `DeliveredOnceHolds`,
`GapWatchedHolds`, `StatusExactHolds`, `DrainedWhenSetHolds` and the action property
`AscendingDeliveryHolds`. None of them is inductive. `IndInv` in `PdcpRx` adds
(`WindowOK`) that what lies below RX_DELIV is final and that the window holds only COUNTs
less than a window above RX_DELIV, so that two of them never share a slot and the branch
that removes an old PDU is dead; (`TasksOK`) that every COUNT in the pool lies below that
same edge, since RX_DELIV only moves up while a PDU is in the pool; (`TokensOK`) that the
tokens count the PDUs in the pool, less the entity's own once a procedure began, so that
the pool is empty when an entity is re-established; (`ProcedureOK`) that nothing
enters the pool during a procedure; and (`AwaiterOK`) that a routine goes on only after the
event was set. `HardAssumption` keeps the hard limit of COUNTs a
window away from the end of the range, as the default 0xd0000000 is.
The module also proves `CountRecovered`: for every window size and any two HFNs, a COUNT
at most a window below and less than a window above the lower edge is what
`count_estimation` returns for its SN. The lemma `CountSplit` writes a COUNT as HFN and
SN, `FactorOrder` compares multiples of the number of SNs.

`PdcpTxProofs` proves for every window size, discard time, set of bearers and number of
PDUs in the crypto pool the five properties of `pdcp_tx`: `SubmittedInOrderHolds`,
`CountOnceHolds`, `DiscardedInTimeHolds`, `WaitingWatchedHolds` and `HeadInWindowHolds`.
Its `IndInv` (in `PdcpTxWindowProofs`, with the lemmas on the operations that arrive,
submit and discard) has these parts. `Ordered`: the COUNTs are in order, what was
submitted last lies below TX_TRANS_CRYPTO, the window lies between TX_NEXT_ACK and
TX_NEXT, and a PDU that waits above TX_TRANS_CRYPTO is watched by the reordering timer.
`Pooled`: a task of the pool is the only one of its COUNT and retransmission round, and
all of pool, window and the SDUs already protected agree which SDU has which COUNT; only
so can `CountOnce` survive a retransmission, which protects the same SDUs again. `Timed`:
a finite discard timer runs while the window holds an SDU, its rest plus the age of any
SDU stays within the discard time plus the tick of a zero restart and the lateness that was
handed on (`late`, for any `MaxLate`), and ages descend with
COUNTs, which is why one timer for the oldest SDU is enough. `Headed`: the oldest SDU is
that of TX_NEXT_ACK. `Counted` and `Controlled`: the tokens count the tasks, and a
procedure that waits for the event finds the pool empty, so that new keys or COUNTs that
start over meet no PDU of the old ones. All of these hold also after the code has come to
one of its aborts or endless loops (`tx.failed`), apart from the timers. `Least` and
`Greatest` of the COUNTs a loop runs over exist by well-founded induction; the loop over
the SDUs that were buffered during a key change (`EnqueueLoop`) is an induction of its own.

`RlcRxReportsProofs` proves for every SDU length, number of SDUs, number of SNs and any
overlap of segments `StoredExactlyHolds`, `InventoryExactHolds`, `ReportExactHolds` and
`TrimSoundHolds`, provided that the SNs of the window are fewer than all SNs and that an
SDU is not longer than the segment offset that stands for its end. The invariant says that the segments of an SDU are sorted, disjoint and
hold exactly the bytes that arrived. That `store_segment` keeps it is an induction over
the iterations of its loop. `ReportExact` is an induction over the SNs of the window and
inside it over the segments of an SDU: after each `push_nack`, merged with the NACK before
or not, the list reads as exactly the missing bytes so far, and its NACKs are in order and below
the SN at which the next one starts (`UpTo`). `TrimSound` says that a report cut to any
size claims no missing byte as received. Its proof rests on that order: the NACKs that are
cut are the last ones, and none of them begins below the new ACK_SN. NACKs that reach
beyond it are the subject of section 7.

Recursive functions are defined with CHOOSE in TLA+; that such a function exists, and
hence satisfies its equations, is the lemma `RecursionExists`, from which `StoreLoop` and
the others get theirs. The inductions use the lemma `Induction`: a set that contains 0
and with i also i + 1 contains 0 .. n.

`TimersProofs` proves for any number of timers, commands and durations
`BuffersDisjointHolds` and `CallbackFindsRunningHolds`. The invariant says per timer where
the latest command is (`Channel`: before the exchange in the writer's buffer, after it in
the middle, and always newer than what the clock thread applied), what a command that is
not applied yet means for the timer (`Commands`), and that the run of the current epoch is
in one place only, the backend, the failed list or the executor (`OneRun`). `Signalled`
says that a command in the middle is signalled exactly once, and `Handover` that the
previous owner of a reused timer has at most the index of its buffer to store.
Both theorems hold until a new owner pushes before that store (`raced`, section 7).

`DscpQosProofs` proves `OneProfileHolds` for every set of code points, UEs and bearers.
The lemmas `QosRows` and `ProfileRows` go through the rows of both tables: a DSCP has
rates exactly if its 5QI is a GBR one. The invariant adds that a DSCP is only ever mapped
to its own 5QI, that an object of the pool that a channel uses stays there, and that the
UE being weighed stays configured. `UnmeasuredOnlyOvertakenHolds` says in which decision
alone a rate target meets a rate that is not measured: the two reads of the DSCP differ and
the first one has no row in the table. It adds `MeasuredInv`: an object
keeps the 5QI it was created with, whatever is overlaid; a UE that never had a DSCP has the
bearer the core asked for (`AsAsked`), so that its rate is measured if it is guaranteed;
and what the scheduler read at the start of a decision still holds when it weighs
(`AsRead`). It needs `GbrBearerAssumption`, that the core sends rates with a GBR 5QI, which
the code relies on and does not check.

Each invariant was also checked by TLC on the instance of the component's run before it
was proved, with the parts that quantify over infinite sets (the type `Tx`, the bytes of
an SDU) restricted to the values of the instance.

The assumptions are the named `ASSUME`s on constants: sizes are natural numbers, the
capacity and the width of the tick counter are positive, and those named above. TLC evaluates them in the runs of these modules.

Only model-checked: refinement of `TimerContract`, the composed AM entities (`RlcAmLink`),
and all liveness. Liveness under fairness is beyond the prover; the
others are not, but their invariants have not been worked out.

## 6. What is left out

* Weak memory: steps are sequentially consistent. The SDU queue uses acquire and release
  on the slots; `do_status` and the prohibit flag are relaxed, and what compiler or CPU
  may reorder around them is not modelled.
* Metrics, logging, PCAP, queue-full alarms, `stop()` of RLC entities.
* PDCP: ciphering itself, control-PDU parsing, SRBs on the transmitting side (the same path without
  discard), failing buffer allocations, the desired buffer size of RLC (an SDU may be
  dropped at any time instead), test mode.
* Weights of the QoS scheduler are floating-point; the model has what they are computed
  from. Several DRBs per UE, ARP, slices and the weights of the uplink (`scheduler_time_qos.cpp:317-386`,
  which use the same overlay and the average rate of the logical channel group) are left out.
* `throughput_controller.cpp` is in no CMake target. The setters of explicit DSCP mappings
  have no caller in the repository.
* RLC UM and the reordering buffer of the NG-U tunnel repeat the window and the timer that
  `RlcAmRx` and `PdcpRx` model, in one executor and without status reports.
* The scheduler and HARQ run in one thread for each cell; resource allocation is numeric.
* The procedures of CU-CP, DU manager and CU-UP are long coroutines over ASN.1 messages that run one at
  a time for each UE; only what they do to PDCP and to logical channels is modelled.
* Most of the repository's lines are generated ASN.1 code, signal processing, fronthaul,
  configuration and command line. They have no states whose order could go wrong in the
  sense of these models, so the share of all lines that the models cover is small by
  nature (below one percent); of `lib/rlc` and `lib/pdcp` it is most of the control flow of the AM
  and PDCP entities.

## 7. Departures of the code from its comments

Three have a run each; `PROJECT.json` quotes the lines.

* `rx_reassembly_trim`: `trim()` can leave a NACK range that reaches ACK_SN; the peer
  ignores such a report.
* `am_link_stall`: a report that arrives between the expiry of t-PollRetransmit and the
  next grant clears the queued retransmission; if it brings no NACK, the bearer stalls.
* `pdcp_tx_abort`: TX_TRANS_CRYPTO stays where it is when SDUs are discarded. The loop that
  starts there looks up SDUs that left the window, which an assertion forbids.

Others were met while modelling. The models follow the code in these points unless
noted, and no property depends on them:

* `get_status_pdu()` defers the start of t-StatusProhibit before it raises the flag that
  mirrors the timer (`rlc_rx_am_entity.cpp:655-658`). If the timer expires in between, or
  the task is refused, the flag stays raised and the bearer sends no status report any
  more. These are the two events that `disturbed` records.
* When the cell executor refuses the task of `handle_changed_buffer_state()`,
  `pending_buffer_state` stays set (`rlc_tx_am_entity.cpp:1003-1014`); no further task is
  queued until a status PDU or t-PollRetransmit forces an update (`unheard`).
* `manual_event` is not atomic (`event_impl.h:51-59`, `91-97`). The token of a PDU that the
  UE executor refused is returned on a crypto worker (`pdcp_entity_rx.cpp:353`, `377`): the
  wake-up of the waiting procedure can be lost (`awaiter = "lost"` in `PdcpRx`), or the
  procedure resumes on that worker, beside the UE's strand. The models take what follows as
  one step; what it does concurrently with other handlers is not modelled. The same holds for
  the transmitter (`pdcp_entity_tx.cpp:571`).
* Without integrity protection a PDU that was given a wrong COUNT passes
  (`pdcp_entity_rx.cpp:592-602`). Such bearers are not modelled.
* `set_count` may be applied to a bearer in use (`pdu_session_manager_impl.cpp:566-578`),
  where it only warns (`pdcp_entity_tx.h:159-168`). In the models it gives initial states.
* An entity may be re-established without a new key, which the CU-UP does not rule out; COUNTs
  then start over under the old one. `CountOnce` is about re-establishment with a new key.
* UEs with equal configurations share one configuration object, so that a new bearer starts
  with the runtime QoS that another UE's DSCP left there (`config_object_pool.h:47`).
* `retransmit_all_pdus()` says that PDUs under way are dropped
  (`pdcp_entity_tx.cpp:751-752`); those that wait in the window are kept, and may be
  submitted although they were protected with the old key.
* `discard_pdu()` and `reset()` do not stop the discard timer (`pdcp_entity_tx.h:229`,
  `298-304`), so that it may run on for an SDU that is gone and expire early for the next.
* A discard callback runs when the UE executor gets to it, and a refused one is deferred again
  in a later tick (`timers.cpp:507-550`). The restart by the difference of arrival times
  (`pdcp_entity_tx.cpp:1166`) hands the delay on from SDU to SDU. `DiscardedInTime` has it as `late`.
* A discard timer that was restarted with a duration of zero is a tick late. A
  notification while a callback is late computes a negative rest as an unsigned number
  (`pdcp_entity_tx.cpp:1094`), which the timer's assertion rejects (`tx.failed = "timer"`).
* `crypto_reordering_timeout()` compares with `!=` (`pdcp_entity_tx.cpp:1195`). After a
  re-establishment or a retransmission moved TX_TRANS_CRYPTO it may start beyond its end
  (`tx.failed = "loop"`). A late PDU is stored and not submitted, where the
  header (`pdcp_entity_tx.h:316-319`) says it is discarded.
* With an infinite discard timer and a hole at TX_NEXT_ACK `stop_discard_timer()` returns
  early, and TX_NEXT_ACK does not move any more; `HeadInWindow` and `DiscardedInTime` are
  about finite timers.
* When a header cannot be prepended the SDU stays in the window without TX_NEXT being
  incremented (`pdcp_entity_tx.cpp:287-292`). Not modelled.
* Removing a DRB in a modification destroys its PDCP entity without waiting for the
  crypto pool (`pdu_session_manager_impl.cpp:626`). Not modelled.
* Between the push and the counter update of `write()`, `get_state()` may return a counter
  that wrapped below zero (`rlc_sdu_queue_lockfree.h:106-117`).
* A destroyed timer may be back in the pool while its previous owner is still inside
  `push_new_cmd()` (`timers.cpp:161-174`, `382`): an earlier signal, still queued, lets
  `tick()` pop the destruction before its own signal is pushed. The new owner may then
  push with the old index of the write buffer. `Timers` reaches this (`raced`) and goes no
  further; it is what the code's own check (`timers.cpp:172`) can report, and the two
  threads may then share a buffer. The check also reports the harmless case of a new owner
  that pushes between the store and the check.
* `get_status_pdu()` may return an older report than the call before, if the request was
  raised after its report had been taken (`rlc_rx_am_entity.cpp:133-138`, `653-660`).
* `is_tx_window_full()` lets `max_window + 1` SDUs out, and with `max_window` the PDU that
  fills the window carries no poll (`rlc_tx_am_entity.cpp:1248`, `1135`).
* `build_new_pdu()` reads the length of a buffer it moved away, so that full SDUs never
  count towards `poll_byte` (`rlc_tx_am_entity.cpp:288-318`).
* SDUs that are discarded but not dropped yet suppress the poll of the last PDU
  (`rlc_tx_am_entity.cpp:1135`).
* t-Reassembly is restarted although its trigger equals RX_Next + AM_Window_Size
  (`rlc_rx_am_entity.cpp:304`).
* A DSCP that is neither in the table nor mapped yet, followed by a GBR packet between
  overlay and weighing, gives a UE on a GBR bearer a rate target without a measured rate
  for one decision, and the UE max_metric_weight although it is served
  (`scheduler_time_qos.cpp:225`). `UnmeasuredOnlyOvertaken` says that this is the only case.
* An entry of `ue_dscp_map` is never erased (`dscp_qos_mapper.h:96`): a UE that gets the
  index of a released one is weighed with the old DSCP until a packet of its own arrives.
* The comments of `dscp_qos_mapper.h:237` and `257` speak of 9 and 6 Mbit/s for the
  maximum rates; the constants are 7.5 and 4.5 Mbit/s.
