------------------------------- MODULE PdcpRx -------------------------------
(***************************************************************************)
(* The receiving side of a PDCP entity (lib/pdcp/pdcp_entity_rx.cpp).      *)
(*                                                                         *)
(* A PDU is numbered when it arrives, deciphered and verified on a pool of *)
(* crypto workers, and only then, back on the UE's executor, put in the    *)
(* receive window and delivered.  PDUs overtake each other in the pool, and*)
(* RX_DELIV moves while they are there.  The UE's executors are one strand,*)
(* so each handler below is one step; what interleaves is the pool, the    *)
(* reordering timer, and the CU-UP procedures that replace the keys or     *)
(* release the entity, which wait for the pool to drain.                   *)
(*                                                                         *)
(* A PDU is the COUNT and the key its sender protected it with; it verifies*)
(* exactly if the receiver uses both.  Which PDUs arrive, in which order   *)
(* and how often, is left open.  The constructor makes every DRB deliver   *)
(* out of order; an SRB delivers in order, uses inline executors, never    *)
(* starts its reordering timer and is never re-established.                *)
(***************************************************************************)
EXTENDS PdcpCount, PdcpTokens, FiniteSets, Sequences

CONSTANTS Bearers,      \* the configurations [rb, t_reordering] considered
          StartCounts,  \* the COUNTs a status transfer may install
          Sent,         \* the COUNTs the peer sends
          Lost,         \* a COUNT that never arrives
          MaxNotify,    \* cfg.custom.max_count.notify
          MaxHard,      \* cfg.custom.max_count.hard
          TaskIds,      \* room in the crypto executor's queue
          BufferSize,   \* capacity of pdu_buffer
          MaxBits,      \* bits that fit in the bitmap of a status report
          MaxKey        \* bound on the number of key changes

ASSUME BearersAssumption ==
  /\ Bearers \subseteq [rb : {"srb", "um", "am"},
                        t_reordering : {"ms0", "finite", "infinity"}]
  /\ \A b \in Bearers : b.rb = "srb" => b.t_reordering = "infinity"
ASSUME CountsAssumption ==
  /\ StartCounts \subseteq Nat /\ Sent \subseteq Nat /\ Lost \in Nat \ Sent
  /\ MaxNotify \in Nat
\* The limit keeps COUNTs that wrapped below zero out: its default is 0xd0000000.
ASSUME HardAssumption == MaxHard \in Nat /\ MaxHard <= CountCard - Window
ASSUME TasksAssumption == TaskIds \subseteq Nat \ {0}
ASSUME BoundsAssumption == BufferSize \in Nat /\ MaxKey \in Nat /\ MaxBits \in Nat

VARIABLES cfg,         \* the bearer's configuration
          rx,          \* st, the window and the reordering timer
          max_count,   \* max_count_notified and max_count_overflow
          token_mngr, tasks, key,
          buffering, pdu_buffer, stopped,
          pc,          \* the CU-UP procedure under way on this entity
          awaiter      \* how far it is with awaiting pending_crypto

vars == <<cfg, rx, max_count, token_mngr, tasks, key, buffering, pdu_buffer,
          stopped, pc, awaiter>>

-----------------------------------------------------------------------------
Key == 0 .. MaxKey
Pdu == [key : Key, count : Sent]

\* A PDU in the crypto executor ("crypto") or waiting for the UE executor.
Task == [id : TaskIds, key : Key, count : Sent, rcvd_count : Nat,
         stage : {"crypto", "apply_reordering", "handle_failure"}]

FreeIds == TaskIds \ {t.id : t \in tasks}

is_srb == cfg.rb = "srb"
is_um == cfg.rb = "um"

out_of_order_delivery_srb_too == TRUE

out_of_order_delivery == ~is_srb

\* window holds the COUNTs in rx_window, held those among them whose buffer is
\* not empty; delivered counts how often each COUNT went to the upper layer.
InitialRx(count) ==
  [rx_next |-> count, rx_deliv |-> count, rx_reord |-> count,
   window |-> {}, held |-> {}, reordering_timer |-> FALSE,
   delivered |-> [c \in Sent |-> 0]]

Init ==
  /\ cfg \in Bearers
  /\ \E count \in StartCounts : rx = InitialRx(count)
  /\ max_count = [notified |-> FALSE, overflow |-> FALSE]
  /\ token_mngr = ManagerInit
  /\ tasks = {}
  /\ key = 0
  /\ buffering = FALSE /\ pdu_buffer = <<>>
  /\ stopped = FALSE
  /\ pc = "idle" /\ awaiter = "none"

-----------------------------------------------------------------------------
\* Delivery.  Each operator maps the record rx to its next value.

\* SDUs go to the upper layer.
Deliver(r, sdus) ==
  [r EXCEPT !.delivered =
     [c \in Sent |-> r.delivered[c] + (IF c \in sdus THEN 1 ELSE 0)]]

Advance_placeholders_delivered(r, n) ==
  LET below == r.rx_deliv .. n - 1
  IN  [Deliver(r, r.window \cap below) EXCEPT
         !.rx_deliv = n, !.window = @ \ below, !.held = @ \ below]

\* RX_DELIV moves up to n; what the window holds below n is delivered, except
\* the empty placeholders of SDUs that went up on arrival.
Advance(r, n) ==
  LET below == r.rx_deliv .. n - 1
  IN  [Deliver(r, r.held \cap below) EXCEPT
         !.rx_deliv = n, !.window = @ \ below, !.held = @ \ below]

\* The first COUNT from RX_DELIV on that is not in the window.
FirstMissing(r) ==
  CHOOSE n \in r.rx_deliv .. r.rx_next :
    /\ r.rx_deliv .. n - 1 \subseteq r.window
    /\ n \notin r.window \/ n = r.rx_next

deliver_all_consecutive_counts(r) == Advance(r, FirstMissing(r))

StartReordering(r) == [r EXCEPT !.rx_reord = r.rx_next, !.reordering_timer = TRUE]

expire_not_restarted(r) ==
  [deliver_all_consecutive_counts(Advance(r, r.rx_reord)) EXCEPT !.reordering_timer = FALSE]

handle_t_reordering_expire(r) ==
  LET e == [deliver_all_consecutive_counts(Advance(r, r.rx_reord))
              EXCEPT !.reordering_timer = FALSE]
  IN  IF e.rx_deliv < e.rx_next /\ cfg.t_reordering # "ms0"
      THEN StartReordering(e) ELSE e

\* A verified PDU enters the window, in the slot of whatever was there.
Store(r, count) ==
  LET added == [r EXCEPT
        !.window = {c \in @ : Slot(c) # Slot(count)} \cup {count},
        !.held = {c \in @ : Slot(c) # Slot(count)}
                   \cup (IF out_of_order_delivery THEN {} ELSE {count}),
        !.rx_next = IF count >= @ THEN count + 1 ELSE @]
  IN  IF out_of_order_delivery THEN Deliver(added, {count}) ELSE added

StopReordering(r) ==
  [r EXCEPT !.reordering_timer = @ /\ r.rx_deliv < r.rx_reord]

\* t-Reordering after a PDU was stored.
UpdateReordering(r) ==
  CASE cfg.t_reordering = "infinity" -> r
    [] cfg.t_reordering = "ms0" ->
         handle_t_reordering_expire([r EXCEPT !.rx_reord = r.rx_next])
    [] OTHER -> IF ~r.reordering_timer /\ r.rx_deliv < r.rx_next
                THEN StartReordering(r) ELSE r

Reorder(r, count) ==
  LET s == Store(r, count)
      d == IF count = s.rx_deliv THEN deliver_all_consecutive_counts(s) ELSE s
  IN  UpdateReordering(StopReordering(d))

\* What apply_reordering does to st and the window.
reordered(r, count) ==
  IF count < r.rx_deliv \/ count \in r.window THEN r ELSE Reorder(r, count)

-----------------------------------------------------------------------------
\* Arrival.  handle_data_pdu numbers the PDU against the current RX_DELIV.

rcvd_count(r, p) == count_estimation(SN(p.count), r.rx_deliv)

Refused == 0

NewTask(r, p, id) ==
  [id |-> id, key |-> p.key, count |-> p.count, rcvd_count |-> rcvd_count(r, p),
   stage |-> "crypto"]

\* handle_data_pdu for a sequence of PDUs, numbered against r.  ids[i] is
\* Refused if the crypto executor refuses the i-th PDU, whose token then comes
\* straight back; a PDU at the hard limit never takes one.
handle_data_pdus(r, pdus, ids, mngr) ==
  LET counts == {rcvd_count(r, pdus[i]) : i \in DOMAIN pdus}
      queued == {i \in DOMAIN pdus : ids[i] # Refused /\ rcvd_count(r, pdus[i]) < MaxHard}
  IN  /\ \A i, j \in queued : ids[i] = ids[j] => i = j
      /\ max_count' = [notified |-> max_count.notified \/ \E c \in counts : c > MaxNotify,
                       overflow |-> max_count.overflow \/ \E c \in counts : c >= MaxHard]
      /\ tasks' = tasks \cup {NewTask(r, pdus[i], ids[i]) : i \in queued}
      /\ token_mngr' = increment_tokens(mngr, Cardinality(queued))

handle_pdu(p) ==
  /\ ~stopped /\ ~buffering
  /\ is_srb => tasks = {}
  /\ \E id \in FreeIds \cup {Refused} : handle_data_pdus(rx, <<p>>, <<id>>, token_mngr)
  /\ UNCHANGED <<cfg, rx, key, buffering, pdu_buffer, stopped, pc, awaiter>>

handle_pdu_buffered(p) ==
  /\ ~stopped /\ buffering
  /\ Len(pdu_buffer) < BufferSize
  /\ pdu_buffer' = Append(pdu_buffer, p)
  /\ UNCHANGED <<cfg, rx, max_count, token_mngr, tasks, key, buffering, stopped, pc, awaiter>>

handle_pdu_dropped ==
  /\ stopped \/ (buffering /\ Len(pdu_buffer) = BufferSize)
  /\ UNCHANGED vars

-----------------------------------------------------------------------------
\* Crypto workers, and their results on the UE executor.

\* A PDU verifies iff it was protected with the current key and the COUNT that it is
\* taken for.  A bearer without integrity protection lets every PDU pass, deciphered
\* or not; such a bearer is not modelled.
apply_security(t) ==
  /\ t.stage = "crypto"
  /\ tasks' = (tasks \ {t}) \cup
       {[t EXCEPT !.stage = IF t.key = key /\ t.count = t.rcvd_count
                            THEN "apply_reordering" ELSE "handle_failure"]}
  /\ UNCHANGED <<cfg, rx, max_count, token_mngr, key, buffering, pdu_buffer, stopped, pc, awaiter>>

\* flush() resumes the routine that is suspended when the event gets set.
flush(m) == awaiter' = IF awaiter = "suspended" /\ m.pending_crypto THEN "resumed" ELSE awaiter

Finish(t) ==
  /\ tasks' = tasks \ {t}
  /\ token_mngr' = return_token(token_mngr)
  /\ flush(return_token(token_mngr))
  /\ UNCHANGED <<cfg, max_count, key, buffering, pdu_buffer, stopped, pc>>

\* The UE executor's queue is full: the token is returned on the crypto worker.
apply_security_refused(t) ==
  /\ t.stage = "crypto"
  /\ ~is_srb
  /\ Finish(t) /\ UNCHANGED rx

handle_failure_token_kept(t) ==
  /\ t.stage = "handle_failure"
  /\ tasks' = tasks \ {t}
  /\ UNCHANGED <<cfg, rx, max_count, token_mngr, key, buffering, pdu_buffer, stopped, pc, awaiter>>

\* An integrity failure changes nothing but the metrics.
handle_failure(t) ==
  /\ t.stage = "handle_failure"
  /\ Finish(t) /\ UNCHANGED rx

\* A late PDU is still stored and delivered after stop().
apply_reordering(t) ==
  /\ t.stage = "apply_reordering"
  /\ rx' = reordered(rx, t.rcvd_count)
  /\ Finish(t)

reordering_callback ==
  /\ rx.reordering_timer /\ pc # "gone"
  /\ rx' = IF stopped THEN [rx EXCEPT !.reordering_timer = FALSE]
                      ELSE handle_t_reordering_expire(rx)
  /\ UNCHANGED <<cfg, max_count, token_mngr, tasks, key, buffering, pdu_buffer, stopped, pc, awaiter>>

-----------------------------------------------------------------------------
compile_status_report_shifted(r) ==
  [fmc |-> r.rx_deliv,
   bits |-> [c \in r.rx_deliv + 1 .. r.rx_next - 1 |-> c - 1 \in r.window]]

\* The status report: the first missing COUNT and, for the COUNTs after it, as
\* many as fit, whether they were received.
compile_status_report(r) ==
  LET begin == r.rx_deliv + 1
      end == IF r.rx_next - begin > MaxBits THEN begin + MaxBits ELSE r.rx_next
  IN  [fmc |-> r.rx_deliv, bits |-> [c \in begin .. end - 1 |-> c \in r.window]]

-----------------------------------------------------------------------------
\* CU-UP procedures: a key change (bearer context modification), with or without
\* re-establishment of the entity, and a release.  Both give the entity's own
\* token back and await pending_crypto, after the events of other entities.

BeginKeyChange ==
  /\ pc = "idle" /\ ~is_srb /\ key < MaxKey
  /\ pc' = "change"
  /\ buffering' = TRUE
  /\ token_mngr' = stop(token_mngr)
  /\ UNCHANGED <<cfg, rx, max_count, tasks, key, pdu_buffer, stopped, awaiter>>

\* The awaiter tests the event,
await_ready ==
  /\ pc \in {"change", "release"} /\ awaiter = "none"
  /\ awaiter' = IF token_mngr.pending_crypto THEN "resumed" ELSE "tested"
  /\ UNCHANGED <<cfg, rx, max_count, token_mngr, tasks, key, buffering, pdu_buffer, stopped, pc>>

\* and, if it is not set, puts itself in its place.  Nothing protects the event: one that
\* a crypto worker set in the meantime is overwritten, and nobody sets it again.
await_suspend ==
  /\ awaiter = "tested"
  /\ awaiter' = IF token_mngr.pending_crypto THEN "lost" ELSE "suspended"
  /\ token_mngr' = [token_mngr EXCEPT !.pending_crypto = FALSE]
  /\ UNCHANGED <<cfg, rx, max_count, tasks, key, buffering, pdu_buffer, stopped, pc>>

\* Only a UM entity starts over; its COUNTs are then new ones, under a new key.
reestablish(r) ==
  IF is_um
  THEN LET stored == r.rx_deliv .. r.rx_next - 1
       IN  [InitialRx(0) EXCEPT !.window = r.window \ stored, !.held = r.held \ stored]
  ELSE r

\* set_security_config, restart_pdcp_pdu_processing, modify_pdu_session if the
\* request asks for it, and end_pdcp_buffering, which flushes the buffer.  A routine that
\* was resumed by the crypto worker of a refused PDU does all this on that worker; it is
\* one step here all the same.
EndKeyChange ==
  /\ pc = "change" /\ awaiter = "resumed"
  /\ pc' = "idle" /\ awaiter' = "none"
  /\ key' = key + 1
  /\ \E r \in {rx, reestablish(rx)} :
       /\ rx' = r
       /\ \E ids \in [DOMAIN pdu_buffer -> FreeIds \cup {Refused}] :
            handle_data_pdus(r, pdu_buffer, ids, start(token_mngr))
  /\ buffering' = FALSE /\ pdu_buffer' = <<>>
  /\ UNCHANGED <<cfg, stopped>>

\* disconnect_all_pdu_sessions calls stop().
BeginRelease ==
  /\ pc = "idle" /\ ~stopped
  /\ is_srb => tasks = {}
  /\ pc' = "release"
  /\ stopped' = TRUE
  /\ rx' = [rx EXCEPT !.reordering_timer = FALSE]
  /\ token_mngr' = stop(token_mngr)
  /\ UNCHANGED <<cfg, max_count, tasks, key, buffering, pdu_buffer, awaiter>>

EndRelease ==
  /\ pc = "release" /\ awaiter = "resumed"
  /\ pc' = "gone" /\ awaiter' = "none"
  /\ UNCHANGED <<cfg, rx, max_count, token_mngr, tasks, key, buffering, pdu_buffer, stopped>>

-----------------------------------------------------------------------------
\* The strand of the UE runs nothing else between await_ready() and await_suspend().
UeStep ==
  /\ awaiter # "tested"
  /\ \/ \E p \in Pdu : handle_pdu(p) \/ handle_pdu_buffered(p)
     \/ handle_pdu_dropped
     \/ \E t \in tasks : apply_reordering(t) \/ handle_failure(t)
     \/ reordering_callback
     \/ BeginKeyChange \/ BeginRelease

WorkerStep == \E t \in tasks : apply_security(t) \/ apply_security_refused(t)

RoutineStep == await_ready \/ await_suspend \/ EndKeyChange \/ EndRelease

Next == UeStep \/ WorkerStep \/ RoutineStep

Spec == Init /\ [][Next]_vars

\* Weak fairness, with the enabling conditions written out: the crypto pool and
\* the UE executor run what was queued, a running timer expires, and a coroutine
\* goes on unless it is suspended.  Nothing is assumed of the peer or of the
\* requests of the control plane, and nothing of a wake-up that is lost.
TaskStep == \E t \in tasks : apply_security(t) \/ apply_reordering(t) \/ handle_failure(t)

Resumable == pc \in {"change", "release"} /\ awaiter \notin {"suspended", "lost"}

Fairness ==
  /\ []<>(tasks = {}) \/ []<><<TaskStep>>_vars
  /\ []<>(~rx.reordering_timer \/ pc = "gone") \/ []<><<reordering_callback>>_vars
  /\ []<>~Resumable \/ []<><<RoutineStep>>_vars

FairSpec == Spec /\ Fairness

-----------------------------------------------------------------------------
Rx == [rx_next : Nat, rx_deliv : Nat, rx_reord : Nat,
       window : SUBSET Nat, held : SUBSET Nat, reordering_timer : BOOLEAN,
       delivered : [Sent -> Nat]]

TypeOK ==
  /\ cfg \in Bearers
  /\ rx \in Rx
  /\ max_count \in [notified : BOOLEAN, overflow : BOOLEAN]
  /\ token_mngr \in Manager
  /\ tasks \subseteq Task
  /\ key \in Key
  /\ buffering \in BOOLEAN /\ pdu_buffer \in Seq(Pdu)
  /\ stopped \in BOOLEAN
  /\ pc \in {"idle", "change", "release", "gone"}
  /\ awaiter \in {"none", "tested", "suspended", "resumed", "lost"}

Received(c) == c \in rx.held \/ (c \in Sent /\ rx.delivered[c] > 0)

\* An SDU goes to the upper layer at most once, however often and however late
\* its PDU arrives: RX_DELIV and the window are read when the PDU comes back
\* from the crypto pool (apply_reordering), and a placeholder is not delivered a
\* second time when RX_DELIV passes it (deliver_sdu).
DeliveredOnce == \A c \in Sent : rx.delivered[c] <= 1

\* While a COUNT is missing, t-Reordering runs and is armed for a COUNT beyond
\* RX_DELIV, so that no gap is waited for without a timer; with a timer of 0 ms
\* no gap outlives the PDU that revealed it (apply_reordering,
\* handle_t_reordering_expire).
GapWatched ==
  ~stopped =>
    /\ cfg.t_reordering = "finite" /\ rx.rx_deliv < rx.rx_next => rx.reordering_timer
    /\ rx.reordering_timer => rx.rx_deliv < rx.rx_reord /\ rx.rx_reord <= rx.rx_next
    /\ cfg.t_reordering = "ms0" => rx.rx_deliv = rx.rx_next

\* A status report asks for a COUNT that was not received, and each of its bits
\* is set exactly if that COUNT was received: the peer drops what is reported
\* received, and sends the rest again (compile_status_report).  Nothing beyond
\* RX_NEXT was received.
StatusExact ==
  LET report == compile_status_report(rx)
  IN  /\ \A c \in DOMAIN report.bits : report.bits[c] <=> Received(c)
      /\ \A c \in Sent : c = report.fmc \/ c >= rx.rx_next => ~Received(c)

\* Keys are replaced and the entity is destroyed only when no PDU is in the
\* crypto pool or on its way back, and the token counter never underflows: the
\* assertion of return_token holds.
DrainedWhenSet ==
  /\ token_mngr.pending_crypto \/ awaiter = "resumed" => tasks = {}
  /\ token_mngr.tokens >= -1

\* In-order delivery on an SRB: no step delivers a COUNT below one that was
\* delivered before (deliver_all_consecutive_counts).
AscendingDelivery ==
  [][is_srb => \A c, d \in Sent :
       (rx.delivered'[c] > rx.delivered[c] /\ rx.delivered[d] > 0) => c > d]_vars

\* A key change or a release that has begun comes to its end: every token finds its
\* way back, also those of PDUs that fail or that an executor refuses, and the last one
\* resumes the routine.  The code guarantees this with one exception: if the last token
\* is that of a PDU the UE executor refused, returned on a crypto worker just between
\* await_ready() and await_suspend() of manual_event, the wake-up is lost and the
\* procedure never ends.
ProcedureEnds ==
  pc \in {"change", "release"} ~> pc \in {"idle", "gone"} \/ awaiter = "lost"

\* Reordering never blocks for good: with a finite t-Reordering, RX_DELIV passes
\* a COUNT that never arrives, unless the entity is stopped or started over.
GapCloses ==
  (cfg.t_reordering = "finite" /\ rx.rx_deliv <= Lost /\ Lost < rx.rx_next)
    ~> (stopped \/ Lost < rx.rx_deliv \/ rx.rx_next <= Lost)

-----------------------------------------------------------------------------
\* The inductive invariant behind the safety properties.

\* What the window and the deliveries have in common, also within a handler.
WindowOK(r) ==
  /\ r \in Rx
  /\ r.rx_deliv <= r.rx_next
  /\ r.window \subseteq Sent \cap r.rx_deliv .. r.rx_next - 1
  /\ \A c \in r.window : c < r.rx_deliv + Window
  /\ r.held = IF out_of_order_delivery THEN {} ELSE r.window
  /\ \A c \in Sent :
       /\ r.delivered[c] <= 1
       /\ r.rx_deliv <= c =>
            r.delivered[c] = IF c \in r.window /\ out_of_order_delivery THEN 1 ELSE 0

\* What was delivered below RX_DELIV of r is final.
Kept(r, s) == \A c \in Sent : c < r.rx_deliv => s.delivered[c] = r.delivered[c]

\* The timer is armed for a COUNT that is still to come.
TimerOK(r) == r.reordering_timer => r.rx_deliv < r.rx_reord /\ r.rx_reord <= r.rx_next

\* Between handlers RX_DELIV is missing, and every gap is watched.
Settled(r) ==
  /\ WindowOK(r) /\ TimerOK(r)
  /\ r.rx_deliv \notin r.window
  /\ cfg.t_reordering = "ms0" => r.rx_deliv = r.rx_next

Watched ==
  ~stopped /\ cfg.t_reordering = "finite" /\ rx.rx_deliv < rx.rx_next => rx.reordering_timer

\* The pool holds no COUNT beyond the window: RX_DELIV only moves up while a PDU
\* is there.
TasksOK ==
  \A t \in tasks :
    /\ t.rcvd_count < rx.rx_deliv + Window
    /\ t.stage = "apply_reordering" => t.count = t.rcvd_count

\* The counter is the number of PDUs in the pool, less one once the entity gave
\* its own token back, and the event is set once the pool is empty after that.
TokensOK ==
  /\ IsFiniteSet(tasks)
  /\ \A t, u \in tasks : t.id = u.id => t = u
  /\ token_mngr.tokens = Cardinality(tasks) - IF pc = "idle" THEN 0 ELSE 1
  /\ token_mngr.pending_crypto <=> pc # "idle" /\ tasks = {} /\ awaiter # "lost"

\* No PDU enters the pool during a procedure.
ProcedureOK ==
  /\ pc = "change" => buffering /\ key < MaxKey
  /\ pc \in {"release", "gone"} => stopped

\* A routine goes on only after the event was set, and a wake-up is lost only with the
\* last token.
AwaiterOK ==
  /\ awaiter # "none" => pc \in {"change", "release"}
  /\ awaiter = "resumed" => token_mngr.pending_crypto
  /\ awaiter = "lost" => tasks = {}

IndInv == TypeOK /\ Settled(rx) /\ Watched /\ TasksOK /\ TokensOK /\ ProcedureOK /\ AwaiterOK
=============================================================================
