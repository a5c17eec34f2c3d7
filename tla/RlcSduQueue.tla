---------------------------- MODULE RlcSduQueue ----------------------------
(***************************************************************************)
(* The lock-free RLC SDU queue (lib/rlc/rlc_sdu_queue_lockfree.h) under    *)
(* every interleaving of its two threads.                                  *)
(*                                                                         *)
(* The upper-layer thread writes SDUs and discards them by PDCP SN, the    *)
(* lower-layer thread reads them and looks at the front.  Each step below  *)
(* is one access to shared memory: the inner SPSC queue, a slot state, a   *)
(* slot size, or the packed counter.  The acquire and release orderings in *)
(* the code make every such access observe the previous one to the same    *)
(* slot, so sequentially consistent steps are exact.                       *)
(*                                                                         *)
(* upc and lpc are the threads' program counters; usdu, lsdu and lsize are *)
(* their local variables; lop tells read() from front().  The packed       *)
(* 64-bit counter has two halves of Word values each (2^32 in the code).   *)
(* out is the SDU most recently returned by read(), gone the PDCP SN most  *)
(* recently discarded, and error latches once a branch that the code       *)
(* reports with log_error has been taken.                                  *)
(***************************************************************************)
EXTENDS Integers, Sequences

CONSTANTS Capacity,    \* slots of sdu_states, and size of the inner queue
          ByteLimit,   \* configured limit of buffered bytes
          Word,        \* number of values of each half of the packed counter
          PdcpSns,     \* the PDCP sequence numbers in use
          Sizes        \* the SDU lengths in use

ASSUME CapacityAssumption == Capacity \in Nat \ {0}
ASSUME LimitAssumption == ByteLimit \in Nat
ASSUME WordAssumption == Word \in Nat \ {0}
ASSUME SnAssumption == PdcpSns \subseteq Nat
ASSUME SizeAssumption == Sizes \subseteq Nat

\* Neither half of the counter can overflow: one SDU more than the inner queue takes
\* may be counted, the one that the lower thread has popped.
ASSUME CounterAssumption == Capacity + 1 < Word /\ ByteLimit <= Word

VARIABLES queue, sdu_states, sdu_sizes, state,
          upc, usdu, lpc, lop, lsdu, lsize, out, gone, error

vars == <<queue, sdu_states, sdu_sizes, state,
          upc, usdu, lpc, lop, lsdu, lsize, out, gone, error>>

-----------------------------------------------------------------------------
\* Sentinels: 0xffffffff, 0xfffffffe and the empty optional of rlc_sdu::pdcp_sn.
STATE_FREE == -1
STATE_DISCARDED == -2
NoSn == -3

Sdu == [sn : PdcpSns \cup {NoSn}, size : Sizes]
NoSdu == [sn |-> NoSn, size |-> 0]

Slots == 0 .. Capacity - 1
Slot(s) == s.sn % Capacity

HasSn(s) == s.sn # NoSn

\* The packed counter holds values modulo Word * Word.
state_add(size) == (state + Word + size) % (Word * Word)
state_sub(size) == (state - Word - size) % (Word * Word)

n_bytes == state % Word
n_sdus == state \div Word

Init ==
  /\ queue = <<>>
  /\ sdu_states = [i \in Slots |-> STATE_FREE]
  /\ sdu_sizes = [i \in Slots |-> 0]
  /\ state = 0
  /\ upc = "idle" /\ usdu = NoSdu
  /\ lpc = "idle" /\ lop = "read" /\ lsdu = NoSdu /\ lsize = 0
  /\ out = NoSdu /\ gone = NoSn
  /\ error = FALSE

-----------------------------------------------------------------------------
\* Upper-layer thread: write() and try_discard().

upperLocal == <<upc, usdu, gone>>
lowerLocal == <<lpc, lop, lsdu, lsize, out>>

WriteBegin_size_ignored(s) ==
  /\ upc = "idle"
  /\ n_bytes < ByteLimit
  /\ usdu' = s
  /\ upc' = IF HasSn(s) THEN "slot" ELSE "push"
  /\ UNCHANGED <<queue, sdu_states, sdu_sizes, state, gone, lowerLocal, error>>

\* get_state() and the byte limit; a refused write leaves no trace.
WriteBegin(s) ==
  /\ upc = "idle"
  /\ s.size + n_bytes < ByteLimit
  /\ usdu' = s
  /\ upc' = IF HasSn(s) THEN "slot" ELSE "push"
  /\ UNCHANGED <<queue, sdu_states, sdu_sizes, state, gone, lowerLocal, error>>

WriteSlot_unchecked ==
  /\ upc = "slot"
  /\ upc' = "alloc"
  /\ sdu_sizes' = [sdu_sizes EXCEPT ![Slot(usdu)] = usdu.size]
  /\ UNCHANGED <<queue, sdu_states, state, usdu, gone, lowerLocal, error>>

\* A slot that is not free refuses the write; a free one receives the size.
WriteSlot ==
  /\ upc = "slot"
  /\ IF sdu_states[Slot(usdu)] # STATE_FREE
       THEN upc' = "idle" /\ UNCHANGED sdu_sizes
       ELSE /\ upc' = "alloc"
            /\ sdu_sizes' = [sdu_sizes EXCEPT ![Slot(usdu)] = usdu.size]
  /\ UNCHANGED <<queue, sdu_states, state, usdu, gone, lowerLocal, error>>

WriteAlloc ==
  /\ upc = "alloc"
  /\ sdu_states' = [sdu_states EXCEPT ![Slot(usdu)] = usdu.sn]
  /\ upc' = "push"
  /\ UNCHANGED <<queue, sdu_sizes, state, usdu, gone, lowerLocal, error>>

WritePush ==
  /\ upc = "push"
  /\ IF Len(queue) < Capacity
       THEN queue' = Append(queue, usdu) /\ upc' = "add"
       ELSE UNCHANGED queue /\ upc' = IF HasSn(usdu) THEN "undo" ELSE "idle"
  /\ UNCHANGED <<sdu_states, sdu_sizes, state, usdu, gone, lowerLocal, error>>

\* The inner queue was full: the slot is released again.
WriteUndo ==
  /\ upc = "undo"
  /\ sdu_states' = [sdu_states EXCEPT ![Slot(usdu)] = STATE_FREE]
  /\ upc' = "idle"
  /\ UNCHANGED <<queue, sdu_sizes, state, usdu, gone, lowerLocal, error>>

WriteAdd ==
  /\ upc = "add"
  /\ state' = state_add(usdu.size)
  /\ upc' = "idle"
  /\ UNCHANGED <<queue, sdu_states, sdu_sizes, usdu, gone, lowerLocal, error>>

\* compare_exchange on the slot, then the load of the size, which only this
\* thread ever stores.  A slot that does not hold sn refuses the discard.
DiscardExchange(sn) ==
  /\ upc = "idle"
  /\ sdu_states[sn % Capacity] = sn
  /\ sdu_states' = [sdu_states EXCEPT ![sn % Capacity] = STATE_DISCARDED]
  /\ usdu' = [sn |-> sn, size |-> sdu_sizes[sn % Capacity]]
  /\ gone' = sn
  /\ upc' = "sub"
  /\ UNCHANGED <<queue, sdu_sizes, state, lowerLocal, error>>

DiscardSub_totals_kept ==
  /\ upc = "sub"
  /\ upc' = "idle"
  /\ UNCHANGED <<queue, sdu_states, sdu_sizes, state, usdu, gone, lowerLocal, error>>

DiscardSub ==
  /\ upc = "sub"
  /\ state' = state_sub(usdu.size)
  /\ upc' = "idle"
  /\ UNCHANGED <<queue, sdu_states, sdu_sizes, usdu, gone, lowerLocal, error>>

-----------------------------------------------------------------------------
\* Lower-layer thread: read() and front().  A call starts at "idle"; its loop
\* continues at "again" after an SDU that turned out to be discarded.

ReadPop ==
  /\ lpc = "idle" \/ (lpc = "again" /\ lop = "read")
  /\ queue # <<>>
  /\ queue' = Tail(queue)
  /\ lop' = "read"
  /\ lsdu' = Head(queue)
  /\ IF HasSn(Head(queue))
       THEN lpc' = "load" /\ UNCHANGED <<lsize, out>>
       ELSE lpc' = "sub" /\ lsize' = Head(queue).size /\ out' = Head(queue)
  /\ UNCHANGED <<sdu_states, sdu_sizes, state, upperLocal, error>>

\* The loop of read() or front() ends on an empty inner queue.
LoopEmpty ==
  /\ lpc = "again"
  /\ queue = <<>>
  /\ lpc' = "idle"
  /\ UNCHANGED <<queue, sdu_states, sdu_sizes, state, upperLocal,
                 lop, lsdu, lsize, out, error>>

\* check_and_release(): the size is loaded before the slot is freed.
ReleaseLoad ==
  /\ lpc = "load"
  /\ lsize' = sdu_sizes[Slot(lsdu)]
  /\ lpc' = "exchange"
  /\ UNCHANGED <<queue, sdu_states, sdu_sizes, state, upperLocal, lop, lsdu, out, error>>

ReleaseExchange ==
  LET old == sdu_states[Slot(lsdu)]
  IN /\ lpc = "exchange"
     /\ sdu_states' = [sdu_states EXCEPT ![Slot(lsdu)] = STATE_FREE]
     /\ \/ /\ old = lsdu.sn
           /\ lpc' = "sub"
           /\ out' = IF lop = "read" THEN lsdu ELSE out
           /\ error' = (error \/ lop = "front")   \* "Unexpected result of check_and_release"
        \/ /\ old = STATE_DISCARDED
           /\ lpc' = "again"
           /\ UNCHANGED <<out, error>>
        \/ /\ old \notin {lsdu.sn, STATE_DISCARDED}
           /\ lpc' = "subAgain"
           /\ error' = TRUE                       \* "Invalid release of pdcp_sn"
           /\ UNCHANGED out
     /\ UNCHANGED <<queue, sdu_sizes, state, upperLocal, lop, lsdu, lsize>>

ReleaseSub ==
  /\ lpc \in {"sub", "subAgain"}
  /\ state' = state_sub(lsize)
  /\ lpc' = IF lpc = "sub" THEN "idle" ELSE "again"
  /\ UNCHANGED <<queue, sdu_states, sdu_sizes, upperLocal, lop, lsdu, lsize, out, error>>

FrontCheck_always_drops ==
  /\ lpc = "idle" \/ (lpc = "again" /\ lop = "front")
  /\ queue # <<>>
  /\ lop' = "front"
  /\ lsdu' = Head(queue)
  /\ lpc' = IF HasSn(Head(queue)) THEN "frontPop" ELSE "idle"
  /\ UNCHANGED <<queue, sdu_states, sdu_sizes, state, upperLocal, lsize, out, error>>

FrontCheck_never_drops ==
  /\ lpc = "idle" \/ (lpc = "again" /\ lop = "front")
  /\ queue # <<>>
  /\ lop' = "front"
  /\ lsdu' = Head(queue)
  /\ lpc' = "idle"
  /\ UNCHANGED <<queue, sdu_states, sdu_sizes, state, upperLocal, lsize, out, error>>

\* front() returns a valid front SDU at once and sets out to drop a discarded one.
FrontCheck ==
  /\ lpc = "idle" \/ (lpc = "again" /\ lop = "front")
  /\ queue # <<>>
  /\ lop' = "front"
  /\ lsdu' = Head(queue)
  /\ lpc' = IF HasSn(Head(queue)) /\ sdu_states[Slot(Head(queue))] # Head(queue).sn
              THEN "frontPop" ELSE "idle"
  /\ UNCHANGED <<queue, sdu_states, sdu_sizes, state, upperLocal, lsize, out, error>>

FrontPop ==
  /\ lpc = "frontPop"
  /\ IF queue = <<>>
       THEN lpc' = "idle" /\ error' = TRUE /\ UNCHANGED queue
       ELSE /\ queue' = Tail(queue)
            /\ IF Head(queue).sn # lsdu.sn
                 THEN lpc' = "idle" /\ error' = TRUE
                 ELSE lpc' = "load" /\ UNCHANGED error
  /\ UNCHANGED <<sdu_states, sdu_sizes, state, upperLocal, lop, lsdu, lsize, out>>

-----------------------------------------------------------------------------
Upper ==
  \/ \E s \in Sdu : WriteBegin(s)
  \/ WriteSlot \/ WriteAlloc \/ WritePush \/ WriteUndo \/ WriteAdd
  \/ \E sn \in PdcpSns : DiscardExchange(sn)
  \/ DiscardSub

Lower ==
  \/ ReadPop \/ LoopEmpty \/ ReleaseLoad \/ ReleaseExchange \/ ReleaseSub
  \/ FrontCheck \/ FrontPop

Next == Upper \/ Lower

Spec == Init /\ [][Next]_vars

\* The slot of an SDU with a PDCP SN still holds that SN: it was not discarded.
Valid(s) == HasSn(s) => sdu_states[Slot(s)] = s.sn

\* The SDU that read() has popped but not yet claimed with its exchange.
InHand == IF lpc \in {"load", "exchange"} THEN <<lsdu>> ELSE <<>>

\* The members of S that occur in the sequence s, in their order.
Kept(s, S) ==
  LET kept[i \in 0 .. Len(s)] ==
        IF i = 0 THEN <<>>
        ELSE IF s[i] \in S THEN Append(kept[i - 1], s[i]) ELSE kept[i - 1]
  IN  kept[Len(s)]

\* The SDUs that wait for the lower thread, discarded or not.
Held == InHand \o queue

ValidSdus == {s \in Sdu : Valid(s)}

\* The SDUs the queue holds: buffered and not discarded, oldest first.
Buffered == Kept(Held, ValidSdus)

Bytes(sdus) ==
  LET bytes[i \in 0 .. Len(sdus)] == IF i = 0 THEN 0 ELSE bytes[i - 1] + sdus[i].size
  IN  bytes[Len(sdus)]

\* Both threads finish the calls they are in.  MAC pulls as long as the bearer
\* reports data, and every report calls front() (rlc_tx_am_entity::get_buffer_state).
Fairness ==
  /\ WF_vars(Upper /\ upc # "idle")
  /\ WF_vars(Lower /\ lpc # "idle")
  /\ WF_vars(ReadPop /\ Buffered # <<>>)
  /\ WF_vars(FrontCheck)

LiveSpec == Spec /\ Fairness

-----------------------------------------------------------------------------
TypeOK ==
  /\ queue \in Seq(Sdu)
  /\ sdu_states \in [Slots -> PdcpSns \cup {STATE_FREE, STATE_DISCARDED}]
  /\ sdu_sizes \in [Slots -> Sizes \cup {0}]
  /\ state \in 0 .. Word * Word - 1
  /\ upc \in {"idle", "slot", "alloc", "push", "undo", "add", "sub"}
  /\ usdu \in [sn : PdcpSns \cup {NoSn}, size : Sizes \cup {0}]
  /\ lpc \in {"idle", "again", "load", "exchange", "sub", "subAgain", "frontPop"}
  /\ lop \in {"read", "front"}
  /\ lsdu \in Sdu \cup {NoSdu}
  /\ lsize \in Sizes \cup {0}
  /\ out \in Sdu \cup {NoSdu}
  /\ gone \in PdcpSns \cup {NoSn}
  /\ error \in BOOLEAN

\* No slot is released by an SDU that does not own it and front() never drops a
\* valid SDU: the log_error branches of check_and_release() and front() are dead.
NoQueueError == ~error

\* The inductive invariant behind NoQueueError, one conjunct per holder of a slot.
\* An SDU of the inner queue owns its slot alone, and the slot has its size.
QueueSlots ==
  \A i \in 1 .. Len(queue) : HasSn(queue[i]) =>
    /\ sdu_states[Slot(queue[i])] \in {queue[i].sn, STATE_DISCARDED}
    /\ sdu_sizes[Slot(queue[i])] = queue[i].size
    /\ \A j \in 1 .. Len(queue) :
         HasSn(queue[j]) /\ Slot(queue[j]) = Slot(queue[i]) => j = i

NotInQueue(s) ==
  \A i \in 1 .. Len(queue) : HasSn(queue[i]) => Slot(queue[i]) # Slot(s)

\* The lower thread owns the slot of the SDU it popped until its exchange.
InHandSlot ==
  lpc \in {"load", "exchange"} =>
    /\ HasSn(lsdu)
    /\ NotInQueue(lsdu)
    /\ sdu_states[Slot(lsdu)] \in {lsdu.sn, STATE_DISCARDED}
    /\ lop = "front" => sdu_states[Slot(lsdu)] = STATE_DISCARDED
    /\ sdu_sizes[Slot(lsdu)] = lsdu.size
    /\ lpc = "exchange" => lsize = lsdu.size

\* The upper thread owns the slot of the SDU it is writing until the push.
WritingSlot ==
  /\ upc \in {"slot", "alloc", "undo"} => HasSn(usdu)
  /\ upc \in {"slot", "alloc", "push", "undo", "add"} => usdu \in Sdu
  /\ upc \in {"alloc", "push", "undo"} /\ HasSn(usdu) =>
       /\ NotInQueue(usdu)
       /\ lpc \in {"load", "exchange"} => Slot(lsdu) # Slot(usdu)
       /\ sdu_states[Slot(usdu)] = IF upc = "alloc" THEN STATE_FREE ELSE usdu.sn
       /\ sdu_sizes[Slot(usdu)] = usdu.size

\* The SDU that front() found discarded is still the front when it pops it.
FrontStays ==
  lpc = "frontPop" =>
    /\ queue # <<>> /\ Head(queue) = lsdu /\ HasSn(lsdu)
    /\ sdu_states[Slot(lsdu)] = STATE_DISCARDED

\* Every party that holds an SDU with a PDCP SN owns the slot of that SN alone and
\* finds its size there, so that both threads always settle the totals with the
\* size of the SDU they hold; no error branch of the lower thread is reached.
SlotOwnership ==
  /\ QueueSlots
  /\ InHandSlot
  /\ WritingSlot
  /\ FrontStays
  /\ lpc # "subAgain" /\ ~error

IndInv == TypeOK /\ SlotOwnership

-----------------------------------------------------------------------------
\* Between calls get_state() is exact: it counts the SDUs and the bytes that are
\* buffered and not discarded, whatever interleaving led there.
QuiescentStateExact ==
  upc = "idle" /\ lpc \in {"idle", "again", "load", "frontPop"}
    => n_sdus = Len(Buffered) /\ n_bytes = Bytes(Buffered)

\* The byte limit that write() checks on a counter it loaded earlier bounds the
\* bytes really buffered, at every instant.
ByteLimitRespected == Buffered # <<>> => Bytes(Buffered) < ByteLimit

\* read() and front() keep the promise of the class comment, RlcSduFifo.
Fifo == INSTANCE RlcSduFifo WITH buf <- Buffered

RefinesFifo == Fifo!AbsSpec

\* The inductive invariant behind the three.  A slot that holds an SN has an SDU with
\* that slot: the one being written, or one that waits for the lower thread.
SlotsHeld ==
  \A i \in Slots : sdu_states[i] \in PdcpSns =>
    \/ upc \in {"push", "undo"} /\ HasSn(usdu) /\ Slot(usdu) = i
    \/ \E j \in 1 .. Len(Held) : HasSn(Held[j]) /\ Slot(Held[j]) = i

\* What a thread that is about to update the counter changes it by.
Due(now, size) == IF now THEN Word + size ELSE 0

Total == Len(Buffered) * Word + Bytes(Buffered) + Due(lpc = "sub", lsize)
           + Due(upc = "sub", usdu.size) - Due(upc = "add", usdu.size)

\* The counter is exact but for the updates that are due.
CounterExact == state = Total % (Word * Word)

\* Bytes that are buffered, or read and not yet subtracted.
Occupied == Bytes(Buffered) + IF lpc = "sub" THEN lsize ELSE 0

\* There is room for what is buffered and for the SDU that passed the check of the limit.
RoomLeft ==
  /\ Len(queue) <= Capacity
  /\ Buffered # <<>> \/ lpc = "sub" => Occupied < ByteLimit
  /\ upc \in {"slot", "alloc", "push"} => usdu.size + Occupied < ByteLimit

BufferInv == SlotsHeld /\ CounterExact /\ RoomLeft

=============================================================================
