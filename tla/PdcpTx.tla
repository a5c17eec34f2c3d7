------------------------------- MODULE PdcpTx -------------------------------
(***************************************************************************)
(* The transmitting side of a DRB's PDCP entity                            *)
(* (lib/pdcp/pdcp_entity_tx.cpp).                                          *)
(*                                                                         *)
(* An SDU gets its COUNT and a place in the transmit window when it        *)
(* arrives, is protected on a pool of crypto workers, and comes back to the*)
(* UE's executor, where PDUs are put in order again and submitted to RLC.  *)
(* One discard timer serves the whole window; a second timer bounds the    *)
(* wait for a PDU that the pool or an executor lost.  RLC reports what was *)
(* transmitted and delivered, the peer reports what it received, and the   *)
(* CU-UP replaces keys, re-establishes or releases the entity.             *)
(*                                                                         *)
(* An access to a COUNT that is not in the window, a timer duration that   *)
(* wraps, and a loop that runs past its end are assertion failures or      *)
(* hangs of the process: they are recorded in tx.failed and nothing happens*)
(* afterwards.                                                             *)
(***************************************************************************)
EXTENDS PdcpCount, PdcpTokens, Sequences, FiniteSets

CONSTANTS Bearers,      \* the bearers considered, with the COUNT they start from
          MaxHard,      \* cfg.custom.max_count.hard
          Discard,      \* duration of a finite discard timer, in ticks
          BufferSize,   \* capacity of sdu_buffer
          MaxSdus, MaxTasks,
          MaxLate,      \* bound on the ticks by which expiries of the discard timer are late
          MaxRounds     \* bound on key changes and data recoveries together

ASSUME BearersAssumption ==
  Bearers \subseteq [rb : {"um", "am"}, discard_timer : {"finite", "infinity"}, count : Nat]
ASSUME HardAssumption == MaxHard \in Nat
ASSUME DiscardAssumption == Discard \in Nat \ {0}
ASSUME BoundsAssumption ==
  {BufferSize, MaxSdus, MaxTasks, MaxLate, MaxRounds} \subseteq Nat

VARIABLES cfg,         \* the bearer's configuration
          tx,          \* st, the window, the timers and the PDUs in the pool
          token_mngr, key, buffering, sdu_buffer, stopped,
          pc,          \* the CU-UP procedure under way on this entity
          sdus,        \* number of SDUs that have arrived
          protected    \* history: the <<COUNT, SDU>> protected with the current key

vars == <<cfg, tx, token_mngr, key, buffering, sdu_buffer, stopped, pc, sdus,
          protected>>

-----------------------------------------------------------------------------
Off == -1
NoPdu == -1

is_um == cfg.rb = "um"
is_am == cfg.rb = "am"
finite == cfg.discard_timer = "finite"

\* An SDU with the crypto executor or, secured, on its way back to the UE executor.
Task == [count : Nat, sdu : Nat, retx_id : Nat, secured : BOOLEAN]

\* age is the number of ticks since tick_point_of_arrival, kept for a finite
\* discard timer only; pdu is NoPdu or the retransmit_id for which the stored PDU was made.
Element == [sdu : Nat, age : Nat, pdu : Int]

\* late is the number of ticks by which expiries have been late since the discard
\* timer was last set from the arrival of an SDU and the present time.
\* submitted holds the COUNTs passed to RLC since the state was last reset, last
\* the highest since the last retransmission, and disorder latches when a PDU is
\* submitted that does not follow it.
InitialTx(count) ==
  [tx_next |-> count, tx_trans_crypto |-> count, tx_reord_crypto |-> count,
   tx_trans |-> count, tx_next_ack |-> count,
   window |-> <<>>, discard_timer |-> Off, late |-> 0,
   crypto_reordering_timer |-> FALSE, retransmit_id |-> 0, tasks |-> {},
   submitted |-> {}, last |-> -1, disorder |-> FALSE, failed |-> "no"]

\* set_count() of a status transfer gives the first COUNT.  Nothing but a warning keeps
\* a modification from applying it to a bearer in use; here it comes first.
Init ==
  /\ cfg \in Bearers
  /\ tx = InitialTx(cfg.count)
  /\ token_mngr = ManagerInit
  /\ key = 0
  /\ buffering = FALSE /\ sdu_buffer = <<>>
  /\ stopped = FALSE
  /\ pc = "idle"
  /\ sdus = 0
  /\ protected = {}

Alive == tx.failed = "no" /\ pc # "gone"

-----------------------------------------------------------------------------
\* Helpers on the record tx.

Least(S) == CHOOSE n \in S : \A m \in S : n <= m
Greatest(S) == CHOOSE n \in S : \A m \in S : m <= n

has_sn(r, count) == count \in DOMAIN r.window

Keep(r, counts) == [r EXCEPT !.window = [c \in DOMAIN @ \cap counts |-> @[c]]]

\* The discard timer is set to a duration and started.  The duration is an
\* unsigned number: a negative one is beyond what the timer accepts.  The timer
\* takes at least one tick.
RunDiscard(r, duration) ==
  IF duration < 0 THEN [r EXCEPT !.failed = "timer"]
  ELSE [r EXCEPT !.discard_timer = IF duration = 0 THEN 1 ELSE duration]

\* PDUs leave for RLC; the buffers in the window are moved out.
write_data_pdus_to_lower_layers(r, counts) ==
  IF counts = {} THEN r
  ELSE [r EXCEPT
          !.window = [c \in DOMAIN @ |-> IF c \in counts THEN [@[c] EXCEPT !.pdu = NoPdu] ELSE @[c]],
          !.submitted = @ \cup counts,
          !.disorder = @ \/ Least(counts) <= r.last,
          !.last = Greatest(counts)]

Waiting(r, count) == has_sn(r, count) /\ r.window[count].pdu # NoPdu

\* The loop that submits PDUs from TX_TRANS_CRYPTO on, up to the first one that
\* is not there yet.  It looks that one up without asking whether the window
\* still holds it.
SubmitInOrder(r) ==
  LET n == Least({c \in r.tx_trans_crypto .. r.tx_next : c = r.tx_next \/ ~Waiting(r, c)})
      s == write_data_pdus_to_lower_layers(r, r.tx_trans_crypto .. n - 1)
  IN  [s EXCEPT !.tx_trans_crypto = n,
                !.failed = IF n < r.tx_next /\ ~has_sn(r, n) THEN "window" ELSE @]

StartReordering(r) ==
  [r EXCEPT !.tx_reord_crypto = r.tx_next, !.crypto_reordering_timer = TRUE]

-----------------------------------------------------------------------------
\* Arrival of SDUs.  check_early_drop also drops when the desired buffer size is
\* exceeded, which depends on lengths and is left to handle_sdu_dropped.  What RRC
\* is told when the COUNTs run out changes nothing here and is left out.

Accepted(r) ==
  /\ r.tx_next - r.tx_next_ack < Window - 1
  /\ r.tx_next < MaxHard

AddTask(r, count, sdu) ==
  [r EXCEPT !.tasks = @ \cup
     {[count |-> count, sdu |-> sdu, retx_id |-> r.retransmit_id, secured |-> FALSE]}]

\* sdu enters the window with the next COUNT; refused tells whether the crypto
\* executor refuses its task.
accept_sdu(r, sdu, refused) ==
  LET timed == IF finite /\ r.discard_timer = Off
               THEN RunDiscard([r EXCEPT !.late = 0], Discard) ELSE r
      added == [timed EXCEPT
        !.window = [c \in {r.tx_next} \cup {d \in DOMAIN @ : Slot(d) # Slot(r.tx_next)} |->
                      IF c = r.tx_next THEN [sdu |-> sdu, age |-> 0, pdu |-> NoPdu] ELSE @[c]],
        !.tx_next = r.tx_next + 1]
  IN  IF refused THEN added ELSE AddTask(added, r.tx_next, sdu)

\* The loop of end_buffering() over the SDUs of a buffer.
EnqueueLoop(r, buffer, refused) ==
  LET acc[i \in 0 .. Len(buffer)] ==
        IF i = 0 THEN r
        ELSE IF Accepted(acc[i - 1]) THEN accept_sdu(acc[i - 1], buffer[i], refused[i])
        ELSE acc[i - 1]
  IN  acc

\* The tokens taken by the tasks that r adds to the pool.
TokensFor(mngr, r) == increment_tokens(mngr, Cardinality(r.tasks \ tx.tasks))

handle_sdu ==
  /\ Alive /\ ~stopped /\ ~buffering
  /\ sdus < MaxSdus /\ Cardinality(tx.tasks) < MaxTasks
  /\ Accepted(tx)
  /\ sdus' = sdus + 1
  /\ \E refused \in BOOLEAN : tx' = accept_sdu(tx, sdus, refused)
  /\ token_mngr' = TokensFor(token_mngr, tx')
  /\ UNCHANGED <<cfg, key, buffering, sdu_buffer, stopped, pc, protected>>

handle_sdu_buffered ==
  /\ Alive /\ ~stopped /\ buffering
  /\ sdus < MaxSdus /\ Len(sdu_buffer) < BufferSize
  /\ sdus' = sdus + 1
  /\ sdu_buffer' = Append(sdu_buffer, sdus)
  /\ UNCHANGED <<cfg, tx, token_mngr, key, buffering, stopped, pc, protected>>

\* The entity is stopped, or the window, the buffer or RLC's queue is full.
handle_sdu_dropped == UNCHANGED vars

-----------------------------------------------------------------------------
\* Crypto workers, and their results on the UE executor.

apply_security(t) ==
  /\ Alive /\ ~t.secured
  /\ tx' = [tx EXCEPT !.tasks = (@ \ {t}) \cup {[t EXCEPT !.secured = TRUE]}]
  /\ protected' = protected \cup {<<t.count, t.sdu>>}
  /\ UNCHANGED <<cfg, token_mngr, key, buffering, sdu_buffer, stopped, pc, sdus>>

\* The UE executor's queue is full, or the crypto engine failed.
apply_security_refused(t) ==
  /\ Alive /\ ~t.secured
  /\ tx' = [tx EXCEPT !.tasks = @ \ {t}]
  /\ protected' = protected \cup {<<t.count, t.sdu>>}
  /\ token_mngr' = return_token(token_mngr)
  /\ UNCHANGED <<cfg, key, buffering, sdu_buffer, stopped, pc, sdus>>

OutOfDate(r, t) ==
  \/ t.retx_id # r.retransmit_id
  \/ t.count < r.tx_next_ack
  \/ t.count < r.tx_trans
  \/ ~has_sn(r, t.count)

reordered_late_submitted(r, t) ==
  LET s == [r EXCEPT !.window[t.count].pdu = t.retx_id]
      late == write_data_pdus_to_lower_layers(s, {t.count})
  IN  IF t.count < r.tx_trans_crypto THEN late
      ELSE LET e == SubmitInOrder(s)
           IN  IF e.tx_trans_crypto < e.tx_next THEN StartReordering(e) ELSE e

reordered_timed_if_submitted(r, t) ==
  LET s == SubmitInOrder([r EXCEPT !.window[t.count].pdu = t.retx_id])
      stop_timer == s.tx_trans_crypto >= s.tx_reord_crypto
      e == [s EXCEPT !.crypto_reordering_timer = @ /\ ~stop_timer]
  IN  IF ~e.crypto_reordering_timer /\ r.tx_trans_crypto < e.tx_trans_crypto /\ e.tx_trans_crypto < e.tx_next
      THEN StartReordering(e) ELSE e

reordered(r, t) ==
  LET s == SubmitInOrder([r EXCEPT !.window[t.count].pdu = t.retx_id])
      stop_timer == s.tx_trans_crypto >= s.tx_reord_crypto
      e == [s EXCEPT !.crypto_reordering_timer = @ /\ ~stop_timer]
  IN  IF ~e.crypto_reordering_timer /\ e.tx_trans_crypto < e.tx_next
      THEN StartReordering(e) ELSE e

apply_reordering(t) ==
  /\ Alive /\ t.secured
  /\ LET r == [tx EXCEPT !.tasks = @ \ {t}]
     IN  tx' = IF stopped \/ OutOfDate(r, t) THEN r ELSE reordered(r, t)
  /\ token_mngr' = return_token(token_mngr)
  /\ UNCHANGED <<cfg, key, buffering, sdu_buffer, stopped, pc, sdus, protected>>

\* The loop runs until the COUNTs are equal, over all COUNTs if need be.
crypto_reordering_timeout ==
  /\ Alive /\ tx.crypto_reordering_timer
  /\ LET waiting == {c \in tx.tx_trans_crypto .. tx.tx_reord_crypto - 1 : Waiting(tx, c)}
         s == SubmitInOrder([write_data_pdus_to_lower_layers(tx, waiting) EXCEPT
                               !.tx_trans_crypto = tx.tx_reord_crypto,
                               !.crypto_reordering_timer = FALSE])
     IN  tx' = IF tx.tx_trans_crypto > tx.tx_reord_crypto
               THEN [tx EXCEPT !.failed = "loop"]
               ELSE IF s.tx_trans_crypto < s.tx_next THEN StartReordering(s) ELSE s
  /\ UNCHANGED <<cfg, token_mngr, key, buffering, sdu_buffer, stopped, pc, sdus, protected>>

-----------------------------------------------------------------------------
\* Discarding.

stop_discard_timer_not_restarted(r, highest_count) ==
  IF highest_count < r.tx_next_ack \/ highest_count >= r.tx_next \/ ~has_sn(r, r.tx_next_ack)
  THEN r
  ELSE [Keep(r, {c \in DOMAIN r.window : c > highest_count}) EXCEPT
          !.discard_timer = Off, !.late = 0,
          !.tx_next_ack = highest_count + 1,
          !.tx_trans = Greatest({@, highest_count + 1})]

stop_discard_timer(r, highest_count) ==
  IF highest_count < r.tx_next_ack \/ highest_count >= r.tx_next \/ ~has_sn(r, r.tx_next_ack)
  THEN r
  ELSE LET s == [Keep(r, {c \in DOMAIN r.window : c > highest_count}) EXCEPT
                   !.discard_timer = Off, !.late = 0,
                   !.tx_next_ack = highest_count + 1,
                   !.tx_trans = Greatest({@, highest_count + 1})]
       IN  IF ~finite \/ s.tx_next_ack = s.tx_next THEN s
           ELSE IF ~has_sn(s, s.tx_next_ack) THEN [s EXCEPT !.failed = "window"]
           ELSE RunDiscard(s, Discard - s.window[s.tx_next_ack].age)

discard_pdus_holes_kept(r, counts) ==
  LET gone == {c \in DOMAIN r.window \cap counts : r.tx_next_ack <= c /\ c < r.tx_next}
      next == IF r.tx_next_ack \in gone THEN r.tx_next_ack + 1 ELSE r.tx_next_ack
  IN  [Keep(r, DOMAIN r.window \ gone) EXCEPT
         !.tx_next_ack = next, !.tx_trans = Greatest({@, next})]

\* discard_pdu for each of the COUNTs that is in the window.  TX_NEXT_ACK moves to
\* the oldest one left; the discard timer is not touched.
discard_pdus(r, counts) ==
  LET gone == {c \in DOMAIN r.window \cap counts : r.tx_next_ack <= c /\ c < r.tx_next}
      s == Keep(r, DOMAIN r.window \ gone)
      oldest == Least({c \in r.tx_next_ack .. r.tx_next : c = r.tx_next \/ has_sn(s, c)})
  IN  IF gone = {} THEN r
      ELSE [s EXCEPT !.tx_next_ack = oldest, !.tx_trans = Greatest({@, oldest})]

\* All SDUs that arrived at the same tick as the oldest one are discarded, and
\* the timer is restarted for the next one by the difference of their arrivals:
\* when this expiry is late, so will the next one be.
discard_callback ==
  /\ Alive /\ tx.discard_timer = 0
  /\ LET r == [tx EXCEPT !.discard_timer = Off]
         oldest == r.window[r.tx_next_ack].age
         s == discard_pdus(r, {c \in DOMAIN r.window : r.window[c].age = oldest})
     IN  tx' = IF ~has_sn(r, r.tx_next_ack) THEN r
               ELSE IF ~has_sn(s, s.tx_next_ack) THEN s
               ELSE RunDiscard(s, oldest - s.window[s.tx_next_ack].age)
  /\ UNCHANGED <<cfg, token_mngr, key, buffering, sdu_buffer, stopped, pc, sdus, protected>>

\* A tick of the clock.  The timer comes one tick nearer to its expiry, or it does
\* not: the command that starts it is handled after the tick began, or it has
\* expired and the callback is still in the queue of the executor, or was refused
\* and is dispatched again.
Tick ==
  /\ Alive /\ finite /\ tx.discard_timer # Off
  /\ \E k \in {0, 1} :
       /\ tx.discard_timer >= k /\ tx.late + 1 - k <= MaxLate
       /\ tx' = [tx EXCEPT !.discard_timer = @ - k, !.late = @ + 1 - k,
                    !.window = [c \in DOMAIN tx.window |-> [tx.window[c] EXCEPT !.age = @ + 1]]]
  /\ UNCHANGED <<cfg, token_mngr, key, buffering, sdu_buffer, stopped, pc, sdus, protected>>

-----------------------------------------------------------------------------
\* Notifications of RLC and status reports of the peer, for COUNTs that were
\* submitted and are still near enough to be told from their SN.

Notifiable == {c \in tx.submitted : c >= tx.tx_next_ack - Window}

notification_count_estimation(count) == count_estimation(SN(count), tx.tx_next_ack)

OnlyTx == UNCHANGED <<cfg, token_mngr, key, buffering, sdu_buffer, stopped, pc, sdus, protected>>

\* Of a first transmission or of a retransmission.
handle_transmit_notification(count) ==
  /\ Alive /\ ~stopped
  /\ LET notif_count == notification_count_estimation(count)
         r == [tx EXCEPT !.tx_trans = notif_count + 1]
     IN  /\ notif_count < tx.tx_trans_crypto /\ notif_count < tx.tx_next
         /\ notif_count >= tx.tx_trans
         /\ tx' = IF is_um THEN stop_discard_timer(r, notif_count) ELSE r
  /\ OnlyTx

handle_delivery_notification(count) ==
  /\ Alive /\ ~stopped /\ is_am
  /\ LET notif_count == notification_count_estimation(count)
     IN  /\ notif_count < tx.tx_next
         /\ tx' = stop_discard_timer(tx, notif_count)
  /\ OnlyTx

handle_status_report(fmc, received) ==
  /\ Alive /\ ~stopped /\ is_am
  /\ tx' = discard_pdus(tx, {c \in DOMAIN tx.window : c < fmc} \cup received)
  /\ OnlyTx

-----------------------------------------------------------------------------
\* Retransmission, key change, re-establishment and release.

\* The SDUs left in the window are sent again, except those whose task the crypto
\* executor refuses.  PDUs that wait in the window stay there.
retransmit_all_pdus(r, refused) ==
  LET s == [r EXCEPT !.tx_trans = r.tx_next_ack, !.tx_trans_crypto = r.tx_next_ack,
                     !.retransmit_id = r.retransmit_id + 1, !.last = -1]
      again == {c \in DOMAIN r.window : r.tx_next_ack <= c /\ c < r.tx_next} \ refused
  IN  [s EXCEPT !.tasks = @ \cup
         {[count |-> c, sdu |-> r.window[c].sdu, retx_id |-> s.retransmit_id, secured |-> FALSE] :
            c \in again}]

\* Bounds the rounds, and the tasks that one adds.
InBounds ==
  /\ key + tx.retransmit_id < MaxRounds
  /\ Cardinality(tx.tasks) + Cardinality(DOMAIN tx.window) <= MaxTasks

data_recovery ==
  /\ Alive /\ ~stopped /\ pc = "idle" /\ is_am
  /\ InBounds
  /\ \E refused \in SUBSET DOMAIN tx.window : tx' = retransmit_all_pdus(tx, refused)
  /\ token_mngr' = TokensFor(token_mngr, tx')
  /\ UNCHANGED <<cfg, key, buffering, sdu_buffer, stopped, pc, sdus, protected>>

\* State and window start over; timers and retransmit_id are left alone.
reset(r) ==
  [InitialTx(0) EXCEPT
     !.discard_timer = r.discard_timer, !.late = r.late,
     !.crypto_reordering_timer = r.crypto_reordering_timer,
     !.retransmit_id = r.retransmit_id, !.tasks = r.tasks,
     !.disorder = r.disorder, !.failed = r.failed]

reestablish(r, refused) == IF is_um THEN reset(r) ELSE retransmit_all_pdus(r, refused)

BeginKeyChange ==
  /\ Alive /\ pc = "idle" /\ InBounds
  /\ pc' = "change"
  /\ buffering' = TRUE
  /\ token_mngr' = stop(token_mngr)
  /\ UNCHANGED <<cfg, tx, key, sdu_buffer, stopped, sdus, protected>>

\* set_security_config, restart_pdcp_pdu_processing, modify_pdu_session if the
\* request asks for it, and end_pdcp_buffering, which flushes the buffer.  The worker
\* that returns the last token may resume the routine on its own thread, and a wake-up
\* may be lost (PdcpRx models it).  Here the routine goes on, in one step, or never.
EndKeyChange ==
  /\ Alive /\ pc = "change" /\ token_mngr.pending_crypto
  /\ pc' = "idle"
  /\ key' = key + 1 /\ protected' = {}
  /\ \E r \in {tx} \cup {reestablish(tx, refused) : refused \in SUBSET DOMAIN tx.window},
        refused \in [DOMAIN sdu_buffer -> BOOLEAN] :
       tx' = EnqueueLoop(r, sdu_buffer, refused)[Len(sdu_buffer)]
  /\ token_mngr' = TokensFor(start(token_mngr), tx')
  /\ buffering' = FALSE /\ sdu_buffer' = <<>>
  /\ UNCHANGED <<cfg, stopped, sdus>>

BeginRelease ==
  /\ Alive /\ pc = "idle" /\ ~stopped
  /\ pc' = "release"
  /\ stopped' = TRUE
  /\ tx' = [tx EXCEPT !.window = <<>>, !.discard_timer = Off, !.crypto_reordering_timer = FALSE]
  /\ token_mngr' = stop(token_mngr)
  /\ UNCHANGED <<cfg, key, buffering, sdu_buffer, sdus, protected>>

EndRelease ==
  /\ Alive /\ pc = "release" /\ token_mngr.pending_crypto
  /\ pc' = "gone"
  /\ UNCHANGED <<cfg, tx, token_mngr, key, buffering, sdu_buffer, stopped, sdus, protected>>

-----------------------------------------------------------------------------
Next ==
  \/ handle_sdu \/ handle_sdu_buffered \/ handle_sdu_dropped
  \/ \E t \in tx.tasks : apply_security(t) \/ apply_security_refused(t) \/ apply_reordering(t)
  \/ crypto_reordering_timeout \/ discard_callback \/ Tick
  \/ \E c \in Notifiable : handle_transmit_notification(c) \/ handle_delivery_notification(c)
  \/ \E fmc \in {tx.tx_next_ack} \cup {c + 1 : c \in tx.submitted},
        received \in SUBSET (DOMAIN tx.window \cap tx.submitted) :
       /\ \A c \in received : c > fmc
       /\ handle_status_report(fmc, received)
  \/ data_recovery \/ BeginKeyChange \/ EndKeyChange \/ BeginRelease \/ EndRelease

Spec == Init /\ [][Next]_vars

-----------------------------------------------------------------------------
\* Properties.

TypeOK ==
  /\ cfg \in Bearers
  /\ {tx.tx_next, tx.tx_trans_crypto, tx.tx_reord_crypto, tx.tx_trans, tx.tx_next_ack} \subseteq Nat
  /\ \A c \in DOMAIN tx.window : c \in Nat /\ tx.window[c] \in Element
  /\ tx.discard_timer \in Nat \cup {Off} /\ tx.late \in 0 .. MaxLate
  /\ tx.crypto_reordering_timer \in BOOLEAN /\ tx.retransmit_id \in Nat
  /\ tx.tasks \subseteq Task /\ tx.failed \in {"no", "window", "timer", "loop"}
  /\ token_mngr \in Manager
  /\ key \in 0 .. MaxRounds /\ sdus \in 0 .. MaxSdus
  /\ buffering \in BOOLEAN /\ stopped \in BOOLEAN /\ Len(sdu_buffer) <= BufferSize
  /\ pc \in {"idle", "change", "release", "gone"}

\* Whatever the order in which the pool finishes and whichever PDUs it loses,
\* PDUs are submitted to RLC in ascending order of COUNT, from TX_NEXT_ACK again
\* after a retransmission.
SubmittedInOrder == ~tx.disorder

\* No two SDUs are protected with the same key and COUNT, although a
\* re-establishment of a UM bearer starts the COUNTs over while the pool runs
\* concurrently.
CountOnce ==
  \A p, q \in protected : p[1] = q[1] => p[2] = q[2]

\* With a finite discard timer no SDU outstays it in the window by more than the
\* one tick that a timer takes when it is set to zero and the ticks by which
\* expiries were late, whatever notifications, status reports and expiries restart
\* the one timer.  Lateness is handed on from one expiry to the next, by the restart
\* by a difference of arrivals, and ends with the next notification.
DiscardedInTime ==
  finite /\ Alive =>
    \A c \in DOMAIN tx.window :
      tx.discard_timer # Off /\ tx.window[c].age + tx.discard_timer <= Discard + 1 + tx.late

\* A PDU of the current round of transmissions that waits in the window for
\* earlier ones waits under a running reordering timer: a PDU that an executor
\* lost delays it and does not block it.
WaitingWatched ==
  Alive /\ (\E c \in tx.tx_trans_crypto .. tx.tx_next - 1 :
              Waiting(tx, c) /\ tx.window[c].pdu = tx.retransmit_id)
    => tx.crypto_reordering_timer

\* With a finite discard timer TX_NEXT_ACK is the oldest SDU of the window, or
\* TX_NEXT when there is none: the window can never be full of nothing.
HeadInWindow ==
  finite /\ Alive /\ ~stopped =>
    tx.tx_next_ack = Least({tx.tx_next} \cup DOMAIN tx.window)

\* The assertion in the window's operator[]: an element that is accessed exists.
ExistingAccessed == tx.failed # "window"
=============================================================================
