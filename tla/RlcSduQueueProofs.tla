------------------------- MODULE RlcSduQueueProofs -------------------------
(***************************************************************************)
(* Proofs about RlcSduQueue, for every capacity, byte limit, word size and *)
(* every set of PDCP sequence numbers and SDU sizes.                       *)
(*                                                                         *)
(* First the ownership of the slots (IndInv), then what the recursive      *)
(* Kept and Bytes compute, how each kind of step changes what is buffered, *)
(* and for each action that it keeps BufferInv and is a step of RlcSduFifo *)
(* or a stutter.                                                           *)
(***************************************************************************)
EXTENDS RlcSduQueue, SequenceTheorems, NaturalsInduction, WellFoundedInduction, TLAPS

USE DEF STATE_FREE, STATE_DISCARDED, NoSn

\* Counting modulo m.
LEMMA ModAdd ==
  ASSUME NEW m \in Nat \ {0}, NEW x \in Int, NEW c \in Int
  PROVE  ((x % m) + c) % m = (x + c) % m
<1> DEFINE q == x \div m  r == x % m  y == r + c  p == y \div m  z == (x + c) \div m
<1>1. /\ q \in Int /\ r \in 0 .. m - 1 /\ x = q * m + r
  BY SMT
<1>2. p \in Int /\ y % m \in 0 .. m - 1 /\ y = p * m + (y % m)
  BY <1>1, SMT
<1>3. z \in Int /\ (x + c) % m \in 0 .. m - 1 /\ x + c = z * m + ((x + c) % m)
  BY SMT
<1> DEFINE a == y % m  b == (x + c) % m
<1>4. x + c = q * m + y /\ y = p * m + a /\ x + c = z * m + b /\ y \in Int
  BY <1>1, <1>2, <1>3
<1> HIDE DEF q, r, y, p, z, a, b
<1>5. a \in 0 .. m - 1 /\ b \in 0 .. m - 1 /\ q \in Int /\ p \in Int /\ z \in Int
  BY <1>1, <1>2, <1>3, Zenon DEF a, b
<1>6. ((q + p) - z) * m = b - a
  BY <1>4, <1>5
<1>7. \A k \in Int : k * m > -m /\ k * m < m => k = 0
  <2> SUFFICES ASSUME NEW k \in Int, k * m > -m, k * m < m PROVE k = 0
    OBVIOUS
  <2>1. ASSUME k >= 1 PROVE FALSE
    <3>1. (k - 1) * m >= 0
      BY <2>1
    <3>2. k * m = (k - 1) * m + m
      OBVIOUS
    <3> QED
      BY <3>1, <3>2
  <2>2. ASSUME k <= -1 PROVE FALSE
    <3>1. (-1 - k) * m >= 0
      BY <2>2
    <3>2. k * m = -((-1 - k) * m) - m
      OBVIOUS
    <3> QED
      BY <3>1, <3>2
  <2> QED
    BY <2>1, <2>2
<1>8. (q + p) - z = 0
  <2>1. b - a > -m /\ b - a < m /\ (q + p) - z \in Int
    BY <1>5
  <2> QED
    BY <1>6, <1>7, <2>1, Zenon
<1>9. a = b
  BY <1>5, <1>6, <1>8
<1> QED
  BY <1>9, Zenon DEF a, b, y, r

\* The two halves of the packed counter.
LEMMA Halves ==
  ASSUME NEW n \in 0 .. Word - 1, NEW b \in 0 .. Word - 1
  PROVE  LET x == (n * Word + b) % (Word * Word) IN x % Word = b /\ x \div Word = n
<1> DEFINE y == n * Word + b  M == Word * Word
<1>1. Word \in Nat \ {0}
  BY WordAssumption, Zenon
<1>2. y \in Nat /\ M \in Nat \ {0}
  BY <1>1
<1>3. y < M
  <2>1. (Word - 1 - n) * Word >= 0
    BY <1>1
  <2>2. M = (Word - 1 - n) * Word + n * Word + Word
    BY <1>1
  <2> QED
    BY <1>1, <2>1, <2>2
<1>4. y % M = y
  <2> HIDE DEF y, M
  <2> QED
    BY <1>2, <1>3
<1>5. y % Word = b /\ y \div Word = n
  BY <1>1
<1> QED
  BY <1>4, <1>5, Zenon

\* An SDU that is counted or taken while its update becomes due leaves the total as it is.
LEMMA SameTotal ==
  ASSUME NEW n \in Int, NEW b \in Int, NEW z \in Int, NEW l \in Int, NEW w \in Int
  PROVE  /\ (n + 1) * w + (b + z) + l + 0 - (w + z) = (n * w + b + l + 0 - 0) + 0
         /\ n * w + b + l + (w + z) - 0 = ((n + 1) * w + (b + z) + l + 0 - 0) + 0
<1>1. (n + 1) * w = n * w + w /\ n * w \in Int
  OBVIOUS
<1> QED
  BY <1>1

\* The slot of an SDU with a PDCP SN is one of the Capacity slots.
LEMMA SlotInRange ==
  ASSUME NEW s, s.sn \in PdcpSns
  PROVE  Slot(s) \in Slots
<1>1. \A n \in Nat : n % Capacity \in 0 .. Capacity - 1
  BY CapacityAssumption
<1>2. s.sn \in Nat
  BY SnAssumption, Zenon
<1>3. QED
  BY <1>1, <1>2, Zenon DEF Slot, Slots

\* A slot size is a natural number, whether or not the slot was ever used.
LEMMA SizeNat ==
  ASSUME NEW n \in Sizes \cup {0}
  PROVE  n \in Nat
BY SizeAssumption

\* state_add() and state_sub() stay in the range of the packed counter.
LEMMA StateInRange ==
  ASSUME NEW size \in Nat, state \in Int
  PROVE  /\ state_add(size) \in 0 .. Word * Word - 1
         /\ state_sub(size) \in 0 .. Word * Word - 1
<1> DEFINE M == Word * Word
<1>1. M \in Nat /\ M > 0
  BY WordAssumption
<1> HIDE DEF M
<1>2. \A x \in Int : x % M \in 0 .. M - 1
  BY <1>1
<1>3. state + Word + size \in Int /\ state - Word - size \in Int
  BY WordAssumption
<1>4. QED
  BY <1>2, <1>3, Zenon DEF state_add, state_sub, M

\* The constructor establishes the invariant.
LEMMA InitIndInv == Init => IndInv
<1> SUFFICES ASSUME Init PROVE IndInv
  OBVIOUS
<1>1. TypeOK
  <2>1. 0 \in 0 .. Word * Word - 1
    <3>1. Word * Word > 0
      BY WordAssumption
    <3>2. QED
      BY <3>1, WordAssumption
  <2>2. queue \in Seq(Sdu) /\ NoSdu \in [sn : PdcpSns \cup {NoSn}, size : Sizes \cup {0}]
    BY DEF Init, NoSdu
  <2>3. QED
    BY <2>1, <2>2, Zenon DEF Init, TypeOK
<1>2. SlotOwnership
  BY DEF Init, SlotOwnership, QueueSlots, InHandSlot, WritingSlot, FrontStays
<1>3. QED
  BY <1>1, <1>2, Zenon DEF IndInv

\* Every step keeps every variable in its type.
LEMMA NextTypeOK == IndInv /\ [Next]_vars => TypeOK'
<1> SUFFICES ASSUME IndInv, [Next]_vars PROVE TypeOK'
  OBVIOUS
<1> USE DEF IndInv, TypeOK, upperLocal, lowerLocal
<1>0. usdu.size \in Nat /\ lsize \in Nat /\ state \in Int
  <2>0. usdu.size \in Sizes \cup {0}
    OBVIOUS
  <2>1. usdu.size \in Nat
    BY <2>0, SizeNat, Zenon
  <2>2. lsize \in Nat
    BY SizeAssumption
  <2>3. state \in Int
    OBVIOUS
  <2>4. QED
    BY <2>1, <2>2, <2>3, Zenon
<1>1. ASSUME NEW s \in Sdu, WriteBegin(s) PROVE TypeOK'
  BY <1>1 DEF WriteBegin, Sdu
<1>2. CASE WriteSlot
  BY <1>2 DEF WriteSlot
<1>3. CASE WriteAlloc
  <2>1. usdu.sn \in PdcpSns
    BY <1>3, Zenon DEF WriteAlloc, SlotOwnership, WritingSlot, HasSn
  <2>2. sdu_states' \in [Slots -> PdcpSns \cup {STATE_FREE, STATE_DISCARDED}]
    BY <1>3, <2>1, Zenon DEF WriteAlloc
  <2>3. QED
    BY <1>3, <2>2 DEF WriteAlloc
<1>4. CASE WritePush
  <2>1. usdu \in Sdu
    BY <1>4, Zenon DEF WritePush, SlotOwnership, WritingSlot
  <2>2. queue' \in Seq(Sdu)
    <3>1. queue' = Append(queue, usdu) \/ queue' = queue
      BY <1>4, Zenon DEF WritePush
    <3>2. QED
      BY <2>1, <3>1
  <2>3. upc' \in {"add", "undo", "idle"}
    BY <1>4, Zenon DEF WritePush
  <2>4. UNCHANGED <<sdu_states, sdu_sizes, state, usdu, gone, lowerLocal, error>>
    BY <1>4, Zenon DEF WritePush
  <2>5. QED
    BY <2>2, <2>3, <2>4
<1>5. CASE WriteUndo
  <2>1. sdu_states' \in [Slots -> PdcpSns \cup {STATE_FREE, STATE_DISCARDED}]
    BY <1>5, Zenon DEF WriteUndo
  <2>2. QED
    BY <1>5, <2>1 DEF WriteUndo
<1>6. CASE WriteAdd
  <2>1. state' \in 0 .. Word * Word - 1
    BY <1>0, <1>6, StateInRange, Zenon DEF WriteAdd
  <2>2. QED
    BY <1>6, <2>1 DEF WriteAdd
<1>7. ASSUME NEW sn \in PdcpSns, DiscardExchange(sn) PROVE TypeOK'
  <2>1. sn % Capacity \in Slots
    <3>1. Slot([sn |-> sn, size |-> 0]) \in Slots
      BY SlotInRange, Zenon
    <3>2. QED
      BY <3>1, Zenon DEF Slot
  <2>2. QED
    BY <1>7, <2>1 DEF DiscardExchange
<1>8. CASE DiscardSub
  <2>1. state' \in 0 .. Word * Word - 1
    BY <1>0, <1>8, StateInRange, Zenon DEF DiscardSub
  <2>2. QED
    BY <1>8, <2>1 DEF DiscardSub
<1>9. CASE ReadPop
  <2>1. Head(queue) \in Sdu /\ Tail(queue) \in Seq(Sdu)
    BY <1>9 DEF ReadPop
  <2>2. Head(queue).size \in Sizes
    BY <2>1, Zenon DEF Sdu
  <2>3. QED
    BY <1>9, <2>1, <2>2 DEF ReadPop
<1>10. CASE LoopEmpty
  BY <1>10 DEF LoopEmpty
<1>11. CASE ReleaseLoad
  <2>1. Slot(lsdu) \in Slots
    BY <1>11, SlotInRange DEF ReleaseLoad, SlotOwnership, InHandSlot, HasSn, Sdu, NoSdu
  <2>2. QED
    BY <1>11, <2>1 DEF ReleaseLoad
<1>12. CASE ReleaseExchange
  <2>1. sdu_states' \in [Slots -> PdcpSns \cup {STATE_FREE, STATE_DISCARDED}]
    BY <1>12, Zenon DEF ReleaseExchange
  <2>2. /\ lpc' \in {"sub", "again", "subAgain"}
        /\ out' \in {lsdu, out}
    BY <1>12, Zenon DEF ReleaseExchange
  <2>3. error' \in BOOLEAN
    BY <1>12, Zenon DEF ReleaseExchange
  <2>4. UNCHANGED <<queue, sdu_sizes, state, upperLocal, lop, lsdu, lsize>>
    BY <1>12, Zenon DEF ReleaseExchange
  <2>5. QED
    BY <2>1, <2>2, <2>3, <2>4
<1>13. CASE ReleaseSub
  <2>1. state' \in 0 .. Word * Word - 1
    BY <1>0, <1>13, StateInRange, Zenon DEF ReleaseSub
  <2>2. QED
    BY <1>13, <2>1 DEF ReleaseSub
<1>14. CASE FrontCheck
  BY <1>14 DEF FrontCheck
<1>15. CASE FrontPop
  <2>1. queue' \in Seq(Sdu)
    BY <1>15 DEF FrontPop
  <2>2. lpc' \in {"idle", "load"} /\ error' \in BOOLEAN
    BY <1>15, Zenon DEF FrontPop
  <2>3. UNCHANGED <<sdu_states, sdu_sizes, state, upperLocal, lop, lsdu, lsize, out>>
    BY <1>15, Zenon DEF FrontPop
  <2>4. QED
    BY <2>1, <2>2, <2>3
<1>16. CASE UNCHANGED vars
  BY <1>16 DEF vars
<1>17. QED
  BY <1>1, <1>2, <1>3, <1>4, <1>5, <1>6, <1>7, <1>8, <1>9, <1>10, <1>11, <1>12,
     <1>13, <1>14, <1>15, <1>16, Zenon DEF Next, Upper, Lower

\* Popping the front keeps the ownership of the other SDUs, and no SDU that stays
\* in the queue has the slot of the popped one.
LEMMA PopKeepsSlots ==
  ASSUME queue \in Seq(Sdu), queue # <<>>, queue' = Tail(queue),
         UNCHANGED <<sdu_states, sdu_sizes>>, QueueSlots
  PROVE  /\ QueueSlots'
         /\ Head(queue) = queue[1] /\ 1 \in 1 .. Len(queue)
         /\ \A i \in 1 .. Len(queue') : i + 1 \in 1 .. Len(queue) /\ queue'[i] = queue[i + 1]
         /\ \A i \in 1 .. Len(queue') : HasSn(queue[1]) /\ HasSn(queue'[i])
              => Slot(queue'[i]) # Slot(queue[1])
<1>1. /\ Head(queue) = queue[1] /\ 1 \in 1 .. Len(queue)
      /\ \A i \in 1 .. Len(queue') : i + 1 \in 1 .. Len(queue) /\ queue'[i] = queue[i + 1]
  OBVIOUS
<1>2. \A i \in 1 .. Len(queue') : i \in Int /\ i >= 1
  OBVIOUS
<1>3. ASSUME NEW i \in 1 .. Len(queue'), HasSn(queue'[i])
      PROVE  /\ sdu_states[Slot(queue'[i])] \in {queue'[i].sn, STATE_DISCARDED}
             /\ sdu_sizes[Slot(queue'[i])] = queue'[i].size
  BY <1>1, <1>3 DEF QueueSlots
<1>4. ASSUME NEW i \in 1 .. Len(queue'), HasSn(queue'[i]),
             NEW j \in 1 .. Len(queue'), HasSn(queue'[j]),
             Slot(queue'[j]) = Slot(queue'[i])
      PROVE  j = i
  <2>1. j + 1 = i + 1
    BY <1>1, <1>4 DEF QueueSlots
  <2>2. QED
    BY <1>2, <2>1
<1>5. ASSUME NEW i \in 1 .. Len(queue'), HasSn(queue[1]), HasSn(queue'[i]),
             Slot(queue'[i]) = Slot(queue[1])
      PROVE  FALSE
  <2>1. i + 1 = 1
    BY <1>1, <1>5 DEF QueueSlots
  <2>2. QED
    BY <1>2, <2>1
<1>6. QueueSlots'
  BY <1>3, <1>4, Zenon DEF QueueSlots, Slot, HasSn
<1>7. QED
  BY <1>1, <1>5, <1>6, Zenon

\* Every step keeps the ownership of the slots.
LEMMA NextSlotOwnership == IndInv /\ [Next]_vars => SlotOwnership'
<1> SUFFICES ASSUME IndInv, [Next]_vars PROVE SlotOwnership'
  OBVIOUS
<1> USE DEF upperLocal, lowerLocal
<1>t. TypeOK /\ TypeOK'
  BY NextTypeOK, Zenon DEF IndInv
<1>q. \A i \in 1 .. Len(queue) : HasSn(queue[i]) =>
        queue[i].sn \in PdcpSns /\ Slot(queue[i]) \in Slots
  <2> SUFFICES ASSUME NEW i \in 1 .. Len(queue), HasSn(queue[i])
               PROVE  queue[i].sn \in PdcpSns /\ Slot(queue[i]) \in Slots
    OBVIOUS
  <2>1. queue[i] \in Sdu
    BY <1>t DEF TypeOK
  <2>2. queue[i].sn \in PdcpSns
    BY <2>1, Zenon DEF Sdu, HasSn
  <2>3. QED
    BY <2>2, SlotInRange, Zenon
<1>u. HasSn(usdu) => usdu.sn \in PdcpSns /\ Slot(usdu) \in Slots
  BY <1>t, SlotInRange, Zenon DEF TypeOK, HasSn
<1>l. HasSn(lsdu) => lsdu.sn \in PdcpSns /\ Slot(lsdu) \in Slots
  BY <1>t, SlotInRange DEF TypeOK, Sdu, NoSdu, HasSn
<1>i. SlotOwnership
  BY Zenon DEF IndInv
<1>f. lpc = "frontPop" => 1 \in 1 .. Len(queue) /\ lsdu = queue[1] /\ HasSn(lsdu)
  BY <1>i, <1>t DEF SlotOwnership, FrontStays, TypeOK
<1> USE DEF SlotOwnership
<1>1. ASSUME NEW s \in Sdu, WriteBegin(s) PROVE SlotOwnership'
  <2>1. QueueSlots'
    BY <1>1, <1>i, Zenon DEF WriteBegin, QueueSlots
  <2>2. InHandSlot'
    BY <1>1, <1>i, Zenon DEF WriteBegin, InHandSlot, NotInQueue
  <2>3. WritingSlot'
    BY <1>1, <1>i, Zenon DEF WriteBegin, WritingSlot, NotInQueue, HasSn
  <2>4. FrontStays'
    BY <1>1, <1>i, Zenon DEF WriteBegin, FrontStays
  <2>5. QED
    BY <1>1, <1>i, <2>1, <2>2, <2>3, <2>4, Zenon DEF WriteBegin
<1>2. CASE WriteSlot
  <2>1. QueueSlots'
    BY <1>2, <1>i, <1>t, <1>q, <1>u, SnAssumption DEF WriteSlot, QueueSlots, TypeOK, WritingSlot
  <2>2. InHandSlot'
    BY <1>2, <1>i, <1>t, <1>l, <1>u, SnAssumption DEF WriteSlot, InHandSlot, NotInQueue, TypeOK, WritingSlot
  <2>3. WritingSlot'
    <3>1. CASE sdu_states[Slot(usdu)] # STATE_FREE
      BY <1>2, <1>i, <3>1, Zenon DEF WriteSlot, WritingSlot
    <3>2. CASE sdu_states[Slot(usdu)] = STATE_FREE
      <4>1. HasSn(usdu) /\ usdu \in Sdu
        BY <1>2, <1>i, Zenon DEF WriteSlot, WritingSlot
      <4>2. NotInQueue(usdu)
        BY <1>i, <1>q, <3>2, SnAssumption DEF NotInQueue, QueueSlots
      <4>3. lpc \in {"load", "exchange"} => Slot(lsdu) # Slot(usdu)
        BY <1>i, <1>l, <3>2, SnAssumption DEF InHandSlot
      <4>4. sdu_sizes'[Slot(usdu)] = usdu.size
        BY <1>2, <1>t, <1>u, <3>2, <4>1 DEF WriteSlot, TypeOK
      <4>5. QED
        BY <1>2, <3>2, <4>1, <4>2, <4>3, <4>4 DEF WriteSlot, WritingSlot, NotInQueue
    <3>3. QED
      BY <3>1, <3>2, Zenon
  <2>4. FrontStays'
    BY <1>2, <1>i, Zenon DEF WriteSlot, FrontStays
  <2>5. QED
    BY <1>2, <1>i, <2>1, <2>2, <2>3, <2>4, Zenon DEF WriteSlot
<1>3. CASE WriteAlloc
  <2>0. HasSn(usdu) /\ NotInQueue(usdu) /\ usdu \in Sdu
    BY <1>3, <1>i, Zenon DEF WriteAlloc, WritingSlot
  <2>1. QueueSlots'
    BY <1>3, <1>i, <1>t, <1>q, <1>u, <2>0 DEF WriteAlloc, QueueSlots, NotInQueue, TypeOK
  <2>2. InHandSlot'
    BY <1>3, <1>i, <1>t, <1>l, <1>u, <2>0 DEF WriteAlloc, InHandSlot, NotInQueue, TypeOK, WritingSlot
  <2>3. WritingSlot'
    BY <1>3, <1>i, <1>t, <1>u, <2>0, Zenon DEF WriteAlloc, WritingSlot, NotInQueue, TypeOK
  <2>4. FrontStays'
    <3>1. lpc = "frontPop" => Slot(lsdu) # Slot(usdu)
      BY <1>3, <1>i DEF WriteAlloc, FrontStays, WritingSlot
    <3>2. QED
      BY <1>3, <1>i, <1>t, <1>l, <1>u, <2>0, <3>1, Zenon DEF WriteAlloc, FrontStays, TypeOK
  <2>5. QED
    BY <1>3, <1>i, <2>1, <2>2, <2>3, <2>4, Zenon DEF WriteAlloc
<1>4. CASE WritePush
  <2>0. usdu \in Sdu /\ (HasSn(usdu) => NotInQueue(usdu))
    BY <1>4, <1>i, Zenon DEF WritePush, WritingSlot
  <2>a. CASE Len(queue) < Capacity
    <3>0. /\ Len(queue') = Len(queue) + 1
          /\ \A i \in 1 .. Len(queue) : queue'[i] = queue[i]
          /\ queue'[Len(queue) + 1] = usdu
      BY <1>4, <1>t, <2>0, <2>a DEF WritePush, TypeOK
    <3>1. QueueSlots'
      <4>0. Len(queue) \in Nat /\ UNCHANGED <<sdu_states, sdu_sizes>>
        BY <1>4, <1>t DEF WritePush, TypeOK
      <4>1. HasSn(usdu) => /\ sdu_states[Slot(usdu)] = usdu.sn
                           /\ sdu_sizes[Slot(usdu)] = usdu.size
        BY <1>4, <1>i, Zenon DEF WritePush, WritingSlot
      <4>2. ASSUME NEW i \in 1 .. Len(queue'), HasSn(queue'[i])
            PROVE  /\ sdu_states[Slot(queue'[i])] \in {queue'[i].sn, STATE_DISCARDED}
                   /\ sdu_sizes[Slot(queue'[i])] = queue'[i].size
        BY <1>i, <3>0, <4>0, <4>1, <4>2 DEF QueueSlots
      <4>3. ASSUME NEW i \in 1 .. Len(queue'), HasSn(queue'[i]),
                   NEW j \in 1 .. Len(queue'), HasSn(queue'[j]),
                   Slot(queue'[j]) = Slot(queue'[i])
            PROVE  j = i
        BY <1>i, <2>0, <3>0, <4>0, <4>3 DEF QueueSlots, NotInQueue
      <4>4. QED
        BY <4>0, <4>2, <4>3, Zenon DEF QueueSlots, Slot, HasSn
    <3>2. InHandSlot'
      <4>0. UNCHANGED <<sdu_states, sdu_sizes, lpc, lop, lsdu, lsize>>
        BY <1>4, Zenon DEF WritePush, lowerLocal
      <4>1. ASSUME lpc \in {"load", "exchange"}
            PROVE  NotInQueue(lsdu)'
        <5>1. NotInQueue(lsdu) /\ (HasSn(usdu) => Slot(lsdu) # Slot(usdu))
          BY <1>4, <1>i, <4>1, Zenon DEF WritePush, InHandSlot, WritingSlot
        <5>2. ASSUME NEW i \in 1 .. Len(queue'), HasSn(queue'[i])
              PROVE  Slot(queue'[i]) # Slot(lsdu)
          <6>1. i \in 1 .. Len(queue) \/ i = Len(queue) + 1
            BY <1>t, <3>0 DEF TypeOK
          <6>2. QED
            BY <3>0, <5>1, <5>2, <6>1, Zenon DEF NotInQueue
        <5>3. QED
          BY <4>0, <5>2, Zenon DEF NotInQueue, Slot, HasSn
      <4>2. QED
        BY <1>i, <4>0, <4>1, Zenon DEF InHandSlot, Slot, HasSn
    <3>3. WritingSlot'
      BY <1>4, <2>0, <2>a, Zenon DEF WritePush, WritingSlot
    <3>4. FrontStays'
      <4>1. queue # <<>> => queue' # <<>> /\ Head(queue') = Head(queue)
        BY <1>t, <3>0 DEF TypeOK
      <4>2. QED
        BY <1>4, <1>i, <4>1, Zenon DEF WritePush, FrontStays, Slot, HasSn
    <3>5. QED
      BY <1>4, <1>i, <3>1, <3>2, <3>3, <3>4 DEF WritePush
  <2>b. CASE ~(Len(queue) < Capacity)
    <3>1. QueueSlots' /\ InHandSlot' /\ FrontStays'
      BY <1>4, <1>i, <2>b
         DEF WritePush, QueueSlots, InHandSlot, FrontStays, NotInQueue, Slot, HasSn
    <3>2. WritingSlot'
      BY <1>4, <1>i, <2>0, <2>b DEF WritePush, WritingSlot, NotInQueue, Slot, HasSn
    <3>3. QED
      BY <1>4, <1>i, <3>1, <3>2, Zenon DEF WritePush
  <2>c. QED
    BY <2>a, <2>b, Zenon
<1>5. CASE WriteUndo
  <2>0. HasSn(usdu) /\ NotInQueue(usdu)
    BY <1>5, <1>i, Zenon DEF WriteUndo, WritingSlot
  <2>1. QueueSlots'
    BY <1>5, <1>i, <1>t, <1>q, <1>u, <2>0 DEF WriteUndo, QueueSlots, NotInQueue, TypeOK
  <2>2. InHandSlot'
    BY <1>5, <1>i, <1>t, <1>l, <1>u, <2>0 DEF WriteUndo, InHandSlot, NotInQueue, TypeOK, WritingSlot
  <2>3. WritingSlot'
    BY <1>5, Zenon DEF WriteUndo, WritingSlot
  <2>4. FrontStays'
    <3>1. lpc = "frontPop" => Slot(lsdu) # Slot(usdu)
      BY <1>f, <2>0, Zenon DEF NotInQueue
    <3>2. QED
      BY <1>5, <1>i, <1>t, <1>l, <1>u, <2>0, <3>1 DEF WriteUndo, FrontStays, TypeOK
  <2>5. QED
    BY <1>5, <1>i, <2>1, <2>2, <2>3, <2>4, Zenon DEF WriteUndo
<1>6. CASE WriteAdd
  BY <1>6, <1>i, Zenon DEF WriteAdd, QueueSlots, InHandSlot, WritingSlot, FrontStays, NotInQueue
<1>7. ASSUME NEW sn \in PdcpSns, DiscardExchange(sn) PROVE SlotOwnership'
  <2>1. QueueSlots'
    BY <1>7, <1>i, <1>t, <1>q DEF DiscardExchange, QueueSlots, TypeOK
  <2>2. InHandSlot'
    BY <1>7, <1>i, <1>t, <1>l, Zenon DEF DiscardExchange, InHandSlot, NotInQueue, TypeOK
  <2>3. WritingSlot'
    BY <1>7, Zenon DEF DiscardExchange, WritingSlot
  <2>4. FrontStays'
    BY <1>7, <1>i, <1>t, <1>l, Zenon DEF DiscardExchange, FrontStays, TypeOK
  <2>5. QED
    BY <1>7, <1>i, <2>1, <2>2, <2>3, <2>4, Zenon DEF DiscardExchange
<1>8. CASE DiscardSub
  BY <1>8, <1>i DEF DiscardSub, QueueSlots, InHandSlot, WritingSlot, FrontStays, NotInQueue
<1>9. CASE ReadPop
  <2>0. /\ QueueSlots'
        /\ Head(queue) = queue[1] /\ 1 \in 1 .. Len(queue)
        /\ \A i \in 1 .. Len(queue') : i + 1 \in 1 .. Len(queue) /\ queue'[i] = queue[i + 1]
        /\ \A i \in 1 .. Len(queue') : HasSn(queue[1]) /\ HasSn(queue'[i])
             => Slot(queue'[i]) # Slot(queue[1])
    BY <1>9, <1>i, <1>t, PopKeepsSlots, Zenon DEF ReadPop, TypeOK
  <2>1. InHandSlot'
    BY <1>9, <1>i, <2>0 DEF ReadPop, InHandSlot, QueueSlots, NotInQueue, Slot, HasSn
  <2>2. WritingSlot'
    BY <1>9, <1>i, <2>0 DEF ReadPop, WritingSlot, NotInQueue, Slot, HasSn
  <2>3. FrontStays'
    BY <1>9, Zenon DEF ReadPop, FrontStays
  <2>4. QED
    BY <1>9, <1>i, <2>0, <2>1, <2>2, <2>3 DEF ReadPop
<1>10. CASE LoopEmpty
  BY <1>10, <1>i DEF LoopEmpty, QueueSlots, InHandSlot, WritingSlot, FrontStays, NotInQueue
<1>11. CASE ReleaseLoad
  BY <1>11, <1>i DEF ReleaseLoad, QueueSlots, InHandSlot, WritingSlot, FrontStays, NotInQueue, Slot, HasSn
<1>12. CASE ReleaseExchange
  <2>0. /\ HasSn(lsdu) /\ NotInQueue(lsdu)
        /\ sdu_states[Slot(lsdu)] \in {lsdu.sn, STATE_DISCARDED}
        /\ lop = "front" => sdu_states[Slot(lsdu)] # lsdu.sn
    <3>1. lpc = "exchange"
      BY <1>12, Zenon DEF ReleaseExchange
    <3>2. HasSn(lsdu) /\ lsdu.sn # STATE_DISCARDED
      BY <1>i, <1>l, <3>1, SnAssumption, SMTT(60) DEF InHandSlot
    <3>3. QED
      BY <1>i, <3>1, <3>2, Zenon DEF InHandSlot
  <2>1. QueueSlots'
    BY <1>12, <1>i, <1>t, <1>q, <1>l, <2>0 DEF ReleaseExchange, QueueSlots, NotInQueue, TypeOK
  <2>2. lpc' \in {"sub", "again"} /\ ~error'
    <3>1. CASE sdu_states[Slot(lsdu)] = lsdu.sn
      <4>1. lop # "front"
        BY <2>0, <3>1, Zenon
      <4>2. lsdu.sn # STATE_DISCARDED
        BY <1>l, <2>0, SnAssumption
      <4>3. lpc' = "sub" /\ error' = (error \/ lop = "front")
        BY <1>12, <3>1, <4>2, Zenon DEF ReleaseExchange
      <4>4. QED
        BY <1>i, <4>1, <4>3, Zenon
    <3>2. CASE sdu_states[Slot(lsdu)] = STATE_DISCARDED
      <4>1. lsdu.sn # STATE_DISCARDED
        BY <1>l, <2>0, SnAssumption
      <4>2. QED
        BY <1>12, <1>i, <3>2, <4>1 DEF ReleaseExchange
    <3>3. QED
      BY <2>0, <3>1, <3>2, Zenon
  <2>3. InHandSlot' /\ FrontStays'
    BY <2>2, Zenon DEF InHandSlot, FrontStays
  <2>4. WritingSlot'
    BY <1>12, <1>i, <1>t, <1>u, <1>l, <2>0, <2>2, Zenon
       DEF ReleaseExchange, WritingSlot, NotInQueue, TypeOK, Slot, HasSn
  <2>5. QED
    BY <2>1, <2>2, <2>3, <2>4, Zenon
<1>13. CASE ReleaseSub
  <2>1. lpc' = "idle"
    BY <1>13, <1>i, Zenon DEF ReleaseSub
  <2>2. QED
    BY <1>13, <1>i, <2>1
       DEF ReleaseSub, QueueSlots, InHandSlot, WritingSlot, FrontStays, NotInQueue
<1>14. CASE FrontCheck
  <2>0. queue # <<>> /\ Head(queue) = queue[1] /\ 1 \in 1 .. Len(queue)
    BY <1>14, <1>t DEF FrontCheck, TypeOK
  <2>1. QueueSlots' /\ WritingSlot'
    BY <1>14, <1>i, Zenon DEF FrontCheck, QueueSlots, WritingSlot, NotInQueue
  <2>2. InHandSlot'
    BY <1>14, Zenon DEF FrontCheck, InHandSlot
  <2>3. FrontStays'
    BY <1>14, <1>i, <2>0 DEF FrontCheck, FrontStays, QueueSlots, Slot, HasSn
  <2>4. QED
    BY <1>14, <1>i, <2>1, <2>2, <2>3, Zenon DEF FrontCheck
<1>15. CASE FrontPop
  <2>a. queue # <<>> /\ Head(queue) = lsdu /\ HasSn(lsdu)
    BY <1>15, <1>i, Zenon DEF FrontPop, FrontStays
  <2>b. queue' = Tail(queue) /\ lpc' = "load" /\ UNCHANGED error
    BY <1>15, <2>a, Zenon DEF FrontPop
  <2>0. /\ QueueSlots'
        /\ Head(queue) = queue[1] /\ 1 \in 1 .. Len(queue)
        /\ \A i \in 1 .. Len(queue') : i + 1 \in 1 .. Len(queue) /\ queue'[i] = queue[i + 1]
        /\ \A i \in 1 .. Len(queue') : HasSn(queue[1]) /\ HasSn(queue'[i])
             => Slot(queue'[i]) # Slot(queue[1])
    BY <1>15, <1>i, <1>t, <2>a, <2>b, PopKeepsSlots DEF FrontPop, TypeOK
  <2>1. InHandSlot'
    <3>1. /\ sdu_states[Slot(lsdu)] = STATE_DISCARDED
          /\ sdu_sizes[Slot(lsdu)] = lsdu.size
      BY <1>15, <1>i, <2>a, <2>0, Zenon DEF FrontPop, FrontStays, QueueSlots
    <3>2. UNCHANGED <<sdu_states, sdu_sizes, lsdu>>
      BY <1>15, Zenon DEF FrontPop
    <3>3. QED
      BY <2>a, <2>b, <2>0, <3>1, <3>2, Zenon DEF InHandSlot, NotInQueue, Slot, HasSn
  <2>2. WritingSlot'
    BY <1>15, <1>i, <2>a, <2>b, <2>0 DEF FrontPop, WritingSlot, NotInQueue, Slot, HasSn
  <2>3. FrontStays'
    BY <2>b, Zenon DEF FrontStays
  <2>4. QED
    BY <1>i, <2>0, <2>b, <2>1, <2>2, <2>3
<1>16. CASE UNCHANGED vars
  BY <1>16, <1>i DEF vars, QueueSlots, InHandSlot, WritingSlot, FrontStays, NotInQueue
<1>17. QED
  BY <1>1, <1>2, <1>3, <1>4, <1>5, <1>6, <1>7, <1>8, <1>9, <1>10, <1>11, <1>12,
     <1>13, <1>14, <1>15, <1>16 DEF Next, Upper, Lower

\* Type correctness and slot ownership together are inductive.
THEOREM IndInvHolds == Spec => []IndInv
<1>1. IndInv /\ [Next]_vars => IndInv'
  BY NextTypeOK, NextSlotOwnership, Zenon DEF IndInv
<1>2. QED
  BY InitIndInv, <1>1, PTL DEF Spec

\* The two threads never violate the types of the shared and local variables.
THEOREM TypeCorrect == Spec => []TypeOK
<1>1. IndInv => TypeOK
  BY Zenon DEF IndInv
<1>2. QED
  BY IndInvHolds, <1>1, PTL

\* Whatever the interleaving, each slot is owned by the one SDU that holds its SN.
THEOREM SlotOwnershipHolds == Spec => []SlotOwnership
<1>1. IndInv => SlotOwnership
  BY Zenon DEF IndInv
<1>2. QED
  BY IndInvHolds, <1>1, PTL

\* check_and_release() and front() never take a log_error branch.
THEOREM NoQueueErrorHolds == Spec => []NoQueueError
<1>1. IndInv => NoQueueError
  BY Zenon DEF IndInv, SlotOwnership, NoQueueError
<1>2. QED
  BY IndInvHolds, <1>1, PTL

-----------------------------------------------------------------------------
\* A set of natural numbers that is not empty has a least element.
LEMMA LeastExists ==
  ASSUME NEW T \in SUBSET Nat, T # {}
  PROVE  \E n \in T : \A m \in T : n <= m
<1>1. PICK x \in T : \A y \in T : ~ (<<y, x>> \in OpToRel(<, Nat))
  BY NatLessThanWellFounded, WFMin, Zenon
<1>2. \A y \in T : ~(y < x)
  BY <1>1, Zenon DEF OpToRel
<1> QED
  BY <1>2

\* What holds of 0, and of n + 1 when it holds of n, holds up to any bound.
LEMMA Induction ==
  ASSUME NEW n \in Nat, NEW T, 0 \in T, \A i \in 1 .. n : i - 1 \in T => i \in T
  PROVE  0 .. n \subseteq T
<1> DEFINE U == {i \in 0 .. n : i \notin T}
<1>1. SUFFICES ASSUME U # {} PROVE FALSE
  OBVIOUS
<1>2. U \in SUBSET Nat
  OBVIOUS
<1>3. PICK i \in U : \A j \in U : i <= j
  BY <1>1, <1>2, LeastExists, Zenon
<1>4. i \in 1 .. n /\ i - 1 \in 0 .. n
  BY <1>3
<1>5. i - 1 \notin U
  BY <1>3, <1>4
<1> QED
  BY <1>3, <1>4, <1>5, Zenon

\* f begins with a and goes on as g says, up to n.
Solves(f, n, a, g) == f[0] = a /\ \A i \in 1 .. n : f[i] = g[<<i, f[i - 1]>>]

\* A recursion over 0 .. n has a solution.
LEMMA RecursionExists ==
  ASSUME NEW n \in Nat, NEW S, NEW a \in S, NEW g \in [(1 .. n) \X S -> S]
  PROVE  \E f \in [0 .. n -> S] : Solves(f, n, a, g)
<1> DEFINE T == {k \in 0 .. n : \E f \in [0 .. k -> S] : Solves(f, k, a, g)}
<1>1. 0 \in T
  <2> DEFINE f0 == [i \in 0 .. 0 |-> a]
  <2>1. f0 \in [0 .. 0 -> S] /\ Solves(f0, 0, a, g)
    BY DEF Solves
  <2> HIDE DEF f0
  <2> QED
    BY <2>1
<1>2. ASSUME NEW k \in 1 .. n, k - 1 \in T PROVE k \in T
  <2>1. PICK f \in [0 .. k - 1 -> S] : Solves(f, k - 1, a, g)
    BY <1>2, Zenon
  <2> DEFINE h == [i \in 0 .. k |-> IF i = k THEN g[<<k, f[k - 1]>>] ELSE f[i]]
  <2>2. f[k - 1] \in S /\ g[<<k, f[k - 1]>>] \in S
    <3>1. k - 1 \in 0 .. k - 1
      OBVIOUS
    <3>2. f[k - 1] \in S
      BY <3>1, Zenon
    <3> QED
      BY <3>2, Zenon
  <2>3. h \in [0 .. k -> S]
    BY <2>2
  <2>4. h[k] = g[<<k, f[k - 1]>>] /\ \A i \in 0 .. k - 1 : h[i] = f[i]
    OBVIOUS
  <2> HIDE DEF h
  <2>5. h[0] = a
    BY <2>1, <2>4 DEF Solves
  <2>6. ASSUME NEW i \in 1 .. k PROVE h[i] = g[<<i, h[i - 1]>>]
    <3>1. h[i - 1] = f[i - 1]
      BY <2>4
    <3>2. CASE i = k
      BY <2>4, <3>1, <3>2, Zenon
    <3>3. CASE i # k
      <4>1. i \in 1 .. k - 1 /\ h[i] = f[i]
        BY <2>4, <3>3
      <4> QED
        BY <2>1, <3>1, <4>1, Zenon DEF Solves
    <3> QED
      BY <3>2, <3>3, Zenon
  <2>7. Solves(h, k, a, g)
    BY <2>5, <2>6, Zenon DEF Solves
  <2>8. k \in 0 .. n
    OBVIOUS
  <2> QED
    BY <2>3, <2>7, <2>8, Zenon
<1> HIDE DEF T
<1>3. 0 .. n \subseteq T
  BY <1>1, <1>2, Induction, Zenon
<1>4. n \in T
  BY <1>3
<1> QED
  BY <1>4, Zenon DEF T

\* One step of the recursion of Kept.
Keeps(f, s, S, i) == f[i] = IF s[i] \in S THEN Append(f[i - 1], s[i]) ELSE f[i - 1]

\* The recursion of Kept has its solution.
LEMMA KeptDef ==
  ASSUME NEW s \in Seq(Sdu), NEW S
  PROVE  \E f \in [0 .. Len(s) -> Seq(Sdu)] :
           /\ f[0] = <<>>
           /\ \A i \in 1 .. Len(s) : Keeps(f, s, S, i)
           /\ Kept(s, S) = f[Len(s)]
<1> DEFINE n == Len(s)
           step(i, x) == IF s[i] \in S THEN Append(x, s[i]) ELSE x
           g == [x \in (1 .. n) \X Seq(Sdu) |-> step(x[1], x[2])]
           Def(f) == [i \in 0 .. n |-> IF i = 0 THEN <<>> ELSE step(i, f[i - 1])]
<1>1. n \in Nat /\ <<>> \in Seq(Sdu) /\ \A i \in 1 .. n : s[i] \in Sdu
  OBVIOUS
<1>2. \A i \in 1 .. n, x \in Seq(Sdu) : step(i, x) \in Seq(Sdu)
  BY <1>1
<1>3. Kept(s, S) = (CHOOSE f : f = Def(f))[n]
  BY Zenon DEF Kept
<1> HIDE DEF step
<1>4. g \in [(1 .. n) \X Seq(Sdu) -> Seq(Sdu)]
  BY <1>2, Zenon
<1>5. \A i \in 1 .. n, x \in Seq(Sdu) : g[<<i, x>>] = step(i, x)
  BY Zenon
<1> HIDE DEF n, g
<1>6. PICK f \in [0 .. n -> Seq(Sdu)] : Solves(f, n, <<>>, g)
  BY <1>1, <1>4, RecursionExists, Zenon
<1>7. \A i \in 1 .. n : i - 1 \in 0 .. n
  BY <1>1
<1>8. f[0] = <<>> /\ \A i \in 1 .. n : f[i] = step(i, f[i - 1])
  BY <1>5, <1>6, <1>7, Zenon DEF Solves
<1>9. f = Def(f)
  <2>1. \A i \in 0 .. n : i = 0 \/ i \in 1 .. n
    BY <1>1
  <2> QED
    BY <1>8, <2>1, Zenon
<1>10. ASSUME NEW h, h = Def(h) PROVE h = f
  <2>1. h[0] = <<>> /\ \A i \in 1 .. n : h[i] = step(i, h[i - 1])
    BY <1>1, <1>10
  <2> DEFINE T == {i \in 0 .. n : h[i] = f[i]}
  <2>2. 0 \in T
    BY <1>1, <1>8, <2>1
  <2>3. ASSUME NEW i \in 1 .. n, i - 1 \in T PROVE i \in T
    <3>1. i \in 0 .. n
      BY <1>1
    <3> QED
      BY <1>8, <2>1, <2>3, <3>1, Zenon
  <2> HIDE DEF T
  <2>4. 0 .. n \subseteq T
    BY <1>1, <2>2, <2>3, Induction, Zenon
  <2>5. \A i \in 0 .. n : h[i] = f[i]
    BY <2>4, Zenon DEF T
  <2>6. DOMAIN h = 0 .. n /\ h = [i \in 0 .. n |-> h[i]] /\ f = [i \in 0 .. n |-> f[i]]
    BY <1>10, Zenon
  <2> QED
    BY <2>5, <2>6, Zenon
<1>11. (CHOOSE h : h = Def(h)) = f
  BY <1>9, <1>10, Zenon
<1> QED
  BY <1>3, <1>8, <1>11, Zenon DEF step, n, Keeps

\* The size of an SDU is a natural number.
LEMMA SduSize ==
  ASSUME NEW s \in Sdu
  PROVE  s.size \in Nat
BY SizeAssumption, Zenon DEF Sdu

\* The same for Bytes.
LEMMA BytesDef ==
  ASSUME NEW s \in Seq(Sdu)
  PROVE  \E f \in [0 .. Len(s) -> Nat] :
           /\ f[0] = 0
           /\ \A i \in 1 .. Len(s) : f[i] = f[i - 1] + s[i].size
           /\ Bytes(s) = f[Len(s)]
<1> DEFINE n == Len(s)
           step(i, x) == x + s[i].size
           g == [x \in (1 .. n) \X Nat |-> step(x[1], x[2])]
           Def(f) == [i \in 0 .. n |-> IF i = 0 THEN 0 ELSE step(i, f[i - 1])]
<1>0. n \in Nat /\ 0 \in Nat /\ \A i \in 1 .. n : s[i] \in Sdu
  OBVIOUS
<1>1. n \in Nat /\ 0 \in Nat /\ \A i \in 1 .. n : s[i].size \in Nat
  BY <1>0, SduSize, Zenon
<1>2. \A i \in 1 .. n, x \in Nat : step(i, x) \in Nat
  BY <1>1
<1>3. Bytes(s) = (CHOOSE f : f = Def(f))[n]
  BY Zenon DEF Bytes
<1> HIDE DEF step
<1>4. g \in [(1 .. n) \X Nat -> Nat]
  BY <1>2, Zenon
<1>5. \A i \in 1 .. n, x \in Nat : g[<<i, x>>] = step(i, x)
  BY Zenon
<1> HIDE DEF n, g
<1>6. PICK f \in [0 .. n -> Nat] : Solves(f, n, 0, g)
  BY <1>1, <1>4, RecursionExists, Zenon
<1>7. \A i \in 1 .. n : i - 1 \in 0 .. n
  BY <1>1
<1>8. f[0] = 0 /\ \A i \in 1 .. n : f[i] = step(i, f[i - 1])
  BY <1>5, <1>6, <1>7, Zenon DEF Solves
<1>9. f = Def(f)
  <2>1. \A i \in 0 .. n : i = 0 \/ i \in 1 .. n
    BY <1>1
  <2> QED
    BY <1>8, <2>1, Zenon
<1>10. ASSUME NEW h, h = Def(h) PROVE h = f
  <2>1. h[0] = 0 /\ \A i \in 1 .. n : h[i] = step(i, h[i - 1])
    BY <1>1, <1>10
  <2> DEFINE T == {i \in 0 .. n : h[i] = f[i]}
  <2>2. 0 \in T
    BY <1>1, <1>8, <2>1
  <2>3. ASSUME NEW i \in 1 .. n, i - 1 \in T PROVE i \in T
    <3>1. i \in 0 .. n
      BY <1>1
    <3> QED
      BY <1>8, <2>1, <2>3, <3>1, Zenon
  <2> HIDE DEF T
  <2>4. 0 .. n \subseteq T
    BY <1>1, <2>2, <2>3, Induction, Zenon
  <2>5. \A i \in 0 .. n : h[i] = f[i]
    BY <2>4, Zenon DEF T
  <2>6. DOMAIN h = 0 .. n /\ h = [i \in 0 .. n |-> h[i]] /\ f = [i \in 0 .. n |-> f[i]]
    BY <1>10, Zenon
  <2> QED
    BY <2>5, <2>6, Zenon
<1>11. (CHOOSE h : h = Def(h)) = f
  BY <1>9, <1>10, Zenon
<1> QED
  BY <1>3, <1>8, <1>11, Zenon DEF step, n


\* Appending to the end of a concatenation.
LEMMA SnocAssoc ==
  ASSUME NEW s \in Seq(Sdu), NEW t \in Seq(Sdu), NEW x \in Sdu
  PROVE  Append(s \o t, x) = s \o Append(t, x)
<1>1. s \o t \in Seq(Sdu) /\ <<x>> \in Seq(Sdu)
  OBVIOUS
<1>2. Append(s \o t, x) = (s \o t) \o <<x>> /\ Append(t, x) = t \o <<x>>
  BY <1>1, AppendIsConcat, Zenon
<1> QED
  BY <1>1, <1>2, ConcatAssociative, SMTT(60)

\* The SDUs kept of a concatenation.
LEMMA KeptConcat ==
  ASSUME NEW s \in Seq(Sdu), NEW t \in Seq(Sdu), NEW S
  PROVE  Kept(s \o t, S) = Kept(s, S) \o Kept(t, S)
<1> DEFINE m == Len(s)  n == Len(t)  u == s \o t
<1>1. /\ m \in Nat /\ n \in Nat /\ u \in Seq(Sdu) /\ Len(u) = m + n
      /\ \A i \in 1 .. m : u[i] = s[i]
      /\ \A i \in 1 .. n : u[m + i] = t[i] /\ t[i] \in Sdu
  OBVIOUS
<1>2. PICK f \in [0 .. m -> Seq(Sdu)] :
        f[0] = <<>> /\ (\A i \in 1 .. m : Keeps(f, s, S, i)) /\ Kept(s, S) = f[m]
  BY KeptDef, Zenon
<1>3. PICK g \in [0 .. n -> Seq(Sdu)] :
        g[0] = <<>> /\ (\A i \in 1 .. n : Keeps(g, t, S, i)) /\ Kept(t, S) = g[n]
  BY KeptDef, Zenon
<1>4. PICK h \in [0 .. m + n -> Seq(Sdu)] :
        h[0] = <<>> /\ (\A i \in 1 .. m + n : Keeps(h, u, S, i)) /\ Kept(u, S) = h[m + n]
  BY <1>1, KeptDef, ZenonT(40)
<1> HIDE DEF m, n, u
<1>5. h[m] = f[m]
  <2> DEFINE T == {i \in 0 .. m : h[i] = f[i]}
  <2>1. 0 \in T
    BY <1>1, <1>2, <1>4
  <2>2. ASSUME NEW i \in 1 .. m, i - 1 \in T PROVE i \in T
    <3>1. i \in 1 .. m + n /\ i \in 0 .. m /\ u[i] = s[i]
      BY <1>1
    <3> QED
      BY <1>2, <1>4, <2>2, <3>1, Zenon DEF Keeps
  <2> HIDE DEF T
  <2>3. 0 .. m \subseteq T
    BY <1>1, <2>1, <2>2, Induction, Zenon
  <2>4. m \in 0 .. m
    BY <1>1
  <2> QED
    BY <2>3, <2>4, Zenon DEF T
<1>6. h[m + n] = f[m] \o g[n]
  <2> DEFINE T == {i \in 0 .. n : h[m + i] = f[m] \o g[i]}
  <2>0. f[m] \in Seq(Sdu)
    BY <1>1
  <2>1. 0 \in T
    <3>1. m + 0 = m /\ 0 \in 0 .. n /\ f[m] \o <<>> = f[m]
      BY <1>1, <2>0
    <3> QED
      BY <1>3, <1>5, <3>1, Zenon
  <2>2. ASSUME NEW i \in 1 .. n, i - 1 \in T PROVE i \in T
    <3>1. /\ m + i \in 1 .. m + n /\ i \in 0 .. n /\ i - 1 \in 0 .. n
          /\ (m + i) - 1 = m + (i - 1)
      BY <1>1
    <3>a. u[m + i] = t[i] /\ t[i] \in Sdu
      BY <1>1, Zenon
    <3>2. Keeps(h, u, S, m + i) /\ Keeps(g, t, S, i)
      BY <1>3, <1>4, <3>1, Zenon
    <3>3. h[m + (i - 1)] = f[m] \o g[i - 1] /\ g[i - 1] \in Seq(Sdu)
      BY <2>2, <3>1, Zenon
    <3>4. Append(f[m] \o g[i - 1], t[i]) = f[m] \o Append(g[i - 1], t[i])
      BY <2>0, <3>a, <3>3, SnocAssoc, Zenon
    <3> QED
      BY <3>1, <3>a, <3>2, <3>3, <3>4, Zenon DEF Keeps
  <2> HIDE DEF T
  <2>3. 0 .. n \subseteq T
    BY <1>1, <2>1, <2>2, Induction, Zenon
  <2>4. n \in 0 .. n
    BY <1>1
  <2> QED
    BY <2>3, <2>4, Zenon DEF T
<1> QED
  BY <1>2, <1>3, <1>4, <1>6, Zenon DEF u

\* The bytes of a concatenation.
LEMMA BytesConcat ==
  ASSUME NEW s \in Seq(Sdu), NEW t \in Seq(Sdu)
  PROVE  Bytes(s \o t) = Bytes(s) + Bytes(t)
<1> DEFINE m == Len(s)  n == Len(t)  u == s \o t
           Step(f, w, i) == f[i] = f[i - 1] + w[i].size
<1>1. /\ m \in Nat /\ n \in Nat /\ u \in Seq(Sdu) /\ Len(u) = m + n
      /\ \A i \in 1 .. m : u[i] = s[i]
      /\ \A i \in 1 .. n : u[m + i] = t[i] /\ t[i].size \in Nat
  <2>1. /\ m \in Nat /\ n \in Nat /\ u \in Seq(Sdu) /\ Len(u) = m + n
        /\ \A i \in 1 .. m : u[i] = s[i]
        /\ \A i \in 1 .. n : u[m + i] = t[i] /\ t[i] \in Sdu
    OBVIOUS
  <2> QED
    BY <2>1, SduSize, Zenon
<1>2. PICK f \in [0 .. m -> Nat] :
        f[0] = 0 /\ (\A i \in 1 .. m : Step(f, s, i)) /\ Bytes(s) = f[m]
  BY BytesDef, Zenon
<1>3. PICK g \in [0 .. n -> Nat] :
        g[0] = 0 /\ (\A i \in 1 .. n : Step(g, t, i)) /\ Bytes(t) = g[n]
  BY BytesDef, Zenon
<1>4. PICK h \in [0 .. m + n -> Nat] :
        h[0] = 0 /\ (\A i \in 1 .. m + n : Step(h, u, i)) /\ Bytes(u) = h[m + n]
  BY <1>1, BytesDef, Zenon
<1> HIDE DEF m, n, u
<1>5. h[m] = f[m]
  <2> DEFINE T == {i \in 0 .. m : h[i] = f[i]}
  <2>1. 0 \in T
    BY <1>1, <1>2, <1>4
  <2>2. ASSUME NEW i \in 1 .. m, i - 1 \in T PROVE i \in T
    <3>1. i \in 1 .. m + n /\ i \in 0 .. m /\ u[i] = s[i]
      BY <1>1
    <3> QED
      BY <1>2, <1>4, <2>2, <3>1, Zenon
  <2> HIDE DEF T
  <2>3. 0 .. m \subseteq T
    BY <1>1, <2>1, <2>2, Induction, Zenon
  <2>4. m \in 0 .. m
    BY <1>1
  <2> QED
    BY <2>3, <2>4, Zenon DEF T
<1>6. h[m + n] = f[m] + g[n]
  <2> DEFINE T == {i \in 0 .. n : h[m + i] = f[m] + g[i]}
  <2>0. f[m] \in Nat
    BY <1>1
  <2>1. 0 \in T
    BY <1>1, <1>3, <1>5, <2>0
  <2>2. ASSUME NEW i \in 1 .. n, i - 1 \in T PROVE i \in T
    <3>1. /\ m + i \in 1 .. m + n /\ i \in 0 .. n /\ i - 1 \in 0 .. n
          /\ u[m + i] = t[i] /\ t[i].size \in Nat /\ (m + i) - 1 = m + (i - 1)
      BY <1>1, SMTT(30)
    <3>2. Step(h, u, m + i) /\ Step(g, t, i)
      BY <1>3, <1>4, <3>1, Zenon
    <3>3. h[m + (i - 1)] = f[m] + g[i - 1] /\ g[i - 1] \in Nat
      BY <2>2, <3>1, Zenon
    <3>4. (f[m] + g[i - 1]) + t[i].size = f[m] + (g[i - 1] + t[i].size)
      BY <2>0, <3>1, <3>3, SMTT(60)
    <3> QED
      BY <3>1, <3>2, <3>3, <3>4, Zenon
  <2> HIDE DEF T
  <2>3. 0 .. n \subseteq T
    BY <1>1, <2>1, <2>2, Induction, Zenon
  <2>4. n \in 0 .. n
    BY <1>1
  <2> QED
    BY <2>3, <2>4, Zenon DEF T
<1> QED
  BY <1>2, <1>3, <1>4, <1>6, Zenon DEF u

\* No SDU.
LEMMA KeptEmpty ==
  ASSUME NEW S
  PROVE  Kept(<<>>, S) = <<>> /\ Bytes(<<>>) = 0
<1> DEFINE e == <<>>
<1>1. e \in Seq(Sdu) /\ Len(e) = 0
  OBVIOUS
<1> HIDE DEF e
<1>2. PICK f : f[0] = <<>> /\ Kept(e, S) = f[Len(e)]
  BY <1>1, KeptDef, Zenon
<1>3. PICK g : g[0] = 0 /\ Bytes(e) = g[Len(e)]
  BY <1>1, BytesDef, Zenon
<1> QED
  BY <1>1, <1>2, <1>3, Zenon DEF e

\* One SDU.
LEMMA KeptSmall ==
  ASSUME NEW S, NEW x \in Sdu
  PROVE  Kept(<<x>>, S) = (IF x \in S THEN <<x>> ELSE <<>>) /\ Bytes(<<x>>) = x.size
<1> DEFINE o == <<x>>
<1>1. o \in Seq(Sdu) /\ Len(o) = 1 /\ o[1] = x
  OBVIOUS
<1>2. 1 - 1 = 0 /\ 1 \in 1 .. 1 /\ Append(<<>>, x) = <<x>>
  OBVIOUS
<1>3. x.size \in Nat /\ 0 + x.size = x.size
  BY SduSize
<1> HIDE DEF o
<1>5. PICK f : f[0] = <<>> /\ (\A i \in 1 .. 1 : Keeps(f, o, S, i)) /\ Kept(o, S) = f[1]
  BY <1>1, KeptDef, Zenon
<1>6. PICK g : g[0] = 0 /\ (\A i \in 1 .. 1 : g[i] = g[i - 1] + o[i].size) /\ Bytes(o) = g[1]
  BY <1>1, BytesDef, Zenon
<1>7. Bytes(o) = x.size
  BY <1>1, <1>2, <1>3, <1>6, Zenon
<1>8. Kept(o, S) = IF x \in S THEN <<x>> ELSE <<>>
  BY <1>1, <1>2, <1>5, Zenon DEF Keeps
<1> QED
  BY <1>7, <1>8, Zenon DEF o

\* What is kept is a sequence of SDUs, not longer, and has a number of bytes.
LEMMA KeptTyped ==
  ASSUME NEW s \in Seq(Sdu), NEW S
  PROVE  /\ Kept(s, S) \in Seq(Sdu) /\ Len(Kept(s, S)) \in 0 .. Len(s)
         /\ Bytes(s) \in Nat
<1> DEFINE n == Len(s)
<1>1. n \in Nat /\ n \in 0 .. n
  OBVIOUS
<1>2. PICK f \in [0 .. n -> Seq(Sdu)] :
        f[0] = <<>> /\ (\A i \in 1 .. n : Keeps(f, s, S, i)) /\ Kept(s, S) = f[n]
  BY KeptDef, Zenon
<1>3. PICK g \in [0 .. n -> Nat] : Bytes(s) = g[n]
  BY BytesDef, Zenon
<1> HIDE DEF n
<1> DEFINE T == {i \in 0 .. n : Len(f[i]) \in 0 .. i}
<1>4. 0 \in T
  BY <1>1, <1>2, SMTT(30)
<1>5. ASSUME NEW i \in 1 .. n, i - 1 \in T PROVE i \in T
  <2>1. i \in 0 .. n /\ i - 1 \in 0 .. n
    BY <1>1
  <2>2. f[i] \in {f[i - 1], Append(f[i - 1], s[i])}
    BY <1>2, Zenon DEF Keeps
  <2>3. f[i - 1] \in Seq(Sdu) /\ Len(f[i - 1]) \in 0 .. i - 1
    BY <1>5, <2>1, Zenon
  <2>4. Len(f[i]) \in {Len(f[i - 1]), Len(f[i - 1]) + 1}
    BY <2>2, <2>3
  <2>5. Len(f[i]) \in 0 .. i
    BY <2>3, <2>4
  <2> QED
    BY <2>1, <2>5, Zenon
<1> HIDE DEF T
<1>6. 0 .. n \subseteq T
  BY <1>1, <1>4, <1>5, Induction, Zenon
<1> QED
  BY <1>1, <1>2, <1>3, <1>6, Zenon DEF T, n

\* What is kept depends only on the members of the sequence.
LEMMA KeptSame ==
  ASSUME NEW s \in Seq(Sdu), NEW S, NEW U, \A i \in 1 .. Len(s) : s[i] \in S <=> s[i] \in U
  PROVE  Kept(s, S) = Kept(s, U)
<1> DEFINE n == Len(s)
<1>1. n \in Nat /\ n \in 0 .. n /\ \A i \in 1 .. n : i \in 0 .. n
  OBVIOUS
<1>2. PICK f \in [0 .. n -> Seq(Sdu)] :
        f[0] = <<>> /\ (\A i \in 1 .. n : Keeps(f, s, S, i)) /\ Kept(s, S) = f[n]
  BY KeptDef, Zenon
<1>3. PICK g \in [0 .. n -> Seq(Sdu)] :
        g[0] = <<>> /\ (\A i \in 1 .. n : Keeps(g, s, U, i)) /\ Kept(s, U) = g[n]
  BY KeptDef, Zenon
<1>a. \A i \in 1 .. n : s[i] \in S <=> s[i] \in U
  OBVIOUS
<1> HIDE DEF n
<1> DEFINE T == {i \in 0 .. n : f[i] = g[i]}
<1>4. 0 \in T
  BY <1>1, <1>2, <1>3
<1>5. ASSUME NEW i \in 1 .. n, i - 1 \in T PROVE i \in T
  <2>1. f[i - 1] = g[i - 1] /\ i \in 0 .. n
    BY <1>1, <1>5, Zenon
  <2> QED
    BY <1>a, <1>2, <1>3, <2>1, Zenon DEF Keeps
<1> HIDE DEF T
<1>6. 0 .. n \subseteq T
  BY <1>1, <1>4, <1>5, Induction, Zenon
<1> QED
  BY <1>1, <1>2, <1>3, <1>6, Zenon DEF T

\* The front of a queue is kept or dropped.
LEMMA KeptFirst ==
  ASSUME NEW x \in Sdu, NEW s \in Seq(Sdu), NEW S
  PROVE  /\ <<x>> \o s \in Seq(Sdu)
         /\ x \in S => Kept(<<x>> \o s, S) = <<x>> \o Kept(s, S)
         /\ x \notin S => Kept(<<x>> \o s, S) = Kept(s, S)
<1> DEFINE o == <<x>>
<1>1. o \in Seq(Sdu)
  OBVIOUS
<1>2. Kept(o, S) = IF x \in S THEN o ELSE <<>>
  BY KeptSmall, Zenon
<1>3. Kept(s, S) \in Seq(Sdu)
  BY KeptTyped, Zenon
<1> HIDE DEF o
<1>4. Kept(o \o s, S) = Kept(o, S) \o Kept(s, S)
  BY <1>1, KeptConcat, Zenon
<1>5. <<>> \o Kept(s, S) = Kept(s, S) /\ o \o s \in Seq(Sdu)
  BY <1>1, <1>3
<1> QED
  BY <1>2, <1>4, <1>5, Zenon DEF o

\* S and U differ in one place of the sequence s.
DifferAt(s, S, U, j) ==
  /\ j \in 1 .. Len(s) /\ s[j] \in S /\ s[j] \notin U
  /\ \A i \in 1 .. Len(s) : i # j => (s[i] \in S <=> s[i] \in U)

\* t is s without one x.
Without(t, s, x) ==
  /\ \E i \in 1 .. Len(s) :
       s[i] = x /\ t = SubSeq(s, 1, i - 1) \o SubSeq(s, i + 1, Len(s))
  /\ Len(s) = Len(t) + 1
  /\ Bytes(s) = Bytes(t) + x.size

\* Dropping one SDU more, in whatever place it is.
LEMMA KeptButOne ==
  ASSUME NEW s \in Seq(Sdu), NEW S, NEW U, NEW j, DifferAt(s, S, U, j)
  PROVE  Without(Kept(s, U), Kept(s, S), s[j])
<1>0. /\ j \in 1 .. Len(s) /\ s[j] \in S /\ s[j] \notin U
      /\ \A i \in 1 .. Len(s) : i # j => (s[i] \in S <=> s[i] \in U)
  BY Zenon DEF DifferAt
<1> DEFINE a == SubSeq(s, 1, j - 1)  b == SubSeq(s, j + 1, Len(s))  x == s[j]
           c == <<x>> \o b
<1>1. /\ a \in Seq(Sdu) /\ b \in Seq(Sdu) /\ x \in Sdu
      /\ \A i \in 1 .. Len(a) : a[i] = s[i] /\ i # j /\ i \in 1 .. Len(s)
      /\ \A i \in 1 .. Len(b) : b[i] = s[i + j] /\ i + j # j /\ i + j \in 1 .. Len(s)
  BY <1>0
<1>2. s = a \o c /\ c \in Seq(Sdu)
  <2>1. c = SubSeq(s, j, Len(s))
    BY <1>0, SubSeqRecursiveFirst
  <2>2. a \o SubSeq(s, (j - 1) + 1, Len(s)) = SubSeq(s, 1, Len(s))
    <3>1. 1 \in 1 .. Len(s) + 1 /\ j - 1 \in 0 .. Len(s) /\ Len(s) \in j - 1 .. Len(s) /\ 1 - 1 = 0
      BY <1>0
    <3> QED
      BY <3>1, ConcatAdjacentSubSeq, Zenon
  <2>3. SubSeq(s, 1, Len(s)) = s /\ (j - 1) + 1 = j
    BY <1>0, SubSeqFull
  <2>4. c \in Seq(Sdu)
    BY <1>1
  <2> QED
    BY <2>1, <2>2, <2>3, <2>4, Zenon
<1>c. a \in Seq(Sdu) /\ c \in Seq(Sdu)
  BY <1>1, <1>2, Zenon
<1> HIDE DEF a, b, x, c
<1>3. \A i \in 1 .. Len(a) : a[i] \in S <=> a[i] \in U
  BY <1>0, <1>1, Zenon
<1>4. \A i \in 1 .. Len(b) : b[i] \in S <=> b[i] \in U
  BY <1>0, <1>1, Zenon
<1> DEFINE A == Kept(a, S)  B == Kept(b, S)  K == Kept(s, S)  L == Kept(s, U)
<1>5. A = Kept(a, U) /\ B = Kept(b, U)
  BY <1>1, <1>3, <1>4, KeptSame, Zenon
<1>6. A \in Seq(Sdu) /\ B \in Seq(Sdu)
  BY <1>1, KeptTyped, Zenon
<1>7. x \in S /\ x \notin U
  BY <1>0, Zenon DEF x
<1>8. Kept(c, S) = <<x>> \o B /\ Kept(c, U) = B
  BY <1>1, <1>5, <1>7, KeptFirst, Zenon DEF c
<1>9. K = A \o (<<x>> \o B) /\ L = A \o B
  <2>1. Kept(a \o c, S) = Kept(a, S) \o Kept(c, S)
    BY <1>c, KeptConcat, ZenonT(40)
  <2>2. Kept(a \o c, U) = Kept(a, U) \o Kept(c, U)
    BY <1>c, KeptConcat, ZenonT(40)
  <2> QED
    BY <1>2, <1>5, <1>8, <2>1, <2>2, Zenon
<1> HIDE DEF A, B, K, L
<1>10. /\ Len(A) + 1 \in 1 .. Len(K) /\ K[Len(A) + 1] = x /\ Len(K) = Len(L) + 1
       /\ L = SubSeq(K, 1, (Len(A) + 1) - 1) \o SubSeq(K, (Len(A) + 1) + 1, Len(K))
  <2>1. /\ K \in Seq(Sdu) /\ Len(K) = Len(A) + 1 + Len(B) /\ Len(A) \in Nat /\ Len(B) \in Nat
        /\ Len(L) = Len(A) + Len(B)
    BY <1>1, <1>6, <1>9
  <2>2. /\ \A i \in 1 .. Len(A) : K[i] = A[i]
        /\ K[Len(A) + 1] = x
        /\ \A i \in 1 .. Len(B) : K[i + (Len(A) + 1)] = B[i]
    <3> DEFINE C == <<x>> \o B
    <3>1. /\ C \in Seq(Sdu) /\ Len(C) = Len(B) + 1 /\ C[1] = x
          /\ \A i \in 1 .. Len(B) : C[i + 1] = B[i]
      BY <1>1, <1>6
    <3>2. K = A \o C
      BY <1>9, Zenon
    <3> HIDE DEF C
    <3>3. \A i \in 1 .. Len(A) : K[i] = A[i]
      BY <1>6, <2>1, <3>1, <3>2
    <3>4. \A i \in 1 .. Len(C) : K[i + Len(A)] = C[i]
      BY <1>6, <2>1, <3>1, <3>2
    <3>5. \A i \in 1 .. Len(B) : i + 1 \in 1 .. Len(C) /\ (i + 1) + Len(A) = i + (Len(A) + 1)
      BY <2>1, <3>1
    <3>6. 1 \in 1 .. Len(C) /\ 1 + Len(A) = Len(A) + 1
      BY <2>1, <3>1
    <3> QED
      BY <3>1, <3>3, <3>4, <3>5, <3>6, Zenon
  <2>3. SubSeq(K, 1, (Len(A) + 1) - 1) = A
    BY <1>6, <2>1, <2>2
  <2>4. SubSeq(K, (Len(A) + 1) + 1, Len(K)) = B
    <3> DEFINE D == SubSeq(K, (Len(A) + 1) + 1, Len(K))
    <3>1. D \in Seq(Sdu) /\ Len(D) = Len(B) /\ \A i \in 1 .. Len(B) : D[i] = K[i + (Len(A) + 1)]
      BY <2>1
    <3> HIDE DEF D
    <3>2. D = B
      BY <1>6, <2>2, <3>1, SMTT(60)
    <3> QED
      BY <3>2, Zenon DEF D
  <2>5. Len(A) + 1 \in 1 .. Len(K) /\ Len(K) = Len(L) + 1
    BY <2>1
  <2> QED
    BY <1>9, <2>2, <2>3, <2>4, <2>5, Zenon
<1>11. Bytes(K) = Bytes(L) + x.size
  <2> DEFINE o == <<x>>
  <2>1. o \in Seq(Sdu)
    BY <1>1
  <2>2. Bytes(o) = x.size
    BY <1>1, KeptSmall, Zenon
  <2> HIDE DEF o
  <2>3. o \o B \in Seq(Sdu)
    BY <1>6, <2>1
  <2>4. Bytes(A \o (o \o B)) = Bytes(A) + (Bytes(o) + Bytes(B)) /\ Bytes(A \o B) = Bytes(A) + Bytes(B)
    BY <1>6, <2>1, <2>3, BytesConcat, Zenon
  <2>5. Bytes(A) \in Nat /\ Bytes(B) \in Nat /\ x.size \in Nat
    BY <1>1, <1>6, KeptTyped, SduSize, Zenon
  <2>6. Bytes(K) = Bytes(A) + (Bytes(o) + Bytes(B)) /\ Bytes(L) = Bytes(A) + Bytes(B)
    BY <1>9, <2>4, Zenon DEF o
  <2> QED
    BY <2>2, <2>5, <2>6
<1> QED
  BY <1>10, <1>11, Zenon DEF K, L, x, Without

-----------------------------------------------------------------------------
\* The SDUs that wait own their slots, each its own, and none has the slot of the SDU
\* that is being written.
LEMMA HeldSlots ==
  ASSUME IndInv
  PROVE  /\ Held \in Seq(Sdu)
         /\ lpc \in {"load", "exchange"} => lsdu \in Sdu /\ InHand = <<lsdu>> /\ Held = <<lsdu>> \o queue
         /\ lpc \notin {"load", "exchange"} => InHand = <<>> /\ Held = queue
         /\ \A i \in 1 .. Len(Held) : HasSn(Held[i]) =>
              /\ Held[i].sn \in PdcpSns /\ Slot(Held[i]) \in Slots
              /\ sdu_states[Slot(Held[i])] \in {Held[i].sn, STATE_DISCARDED}
              /\ sdu_sizes[Slot(Held[i])] = Held[i].size
              /\ \A j \in 1 .. Len(Held) : HasSn(Held[j]) /\ Slot(Held[j]) = Slot(Held[i]) => j = i
              /\ upc \in {"alloc", "push", "undo"} /\ HasSn(usdu) => Slot(Held[i]) # Slot(usdu)
<1>t. TypeOK /\ QueueSlots /\ InHandSlot /\ WritingSlot
  BY Zenon DEF IndInv, SlotOwnership
<1>1. queue \in Seq(Sdu)
  BY <1>t, Zenon DEF TypeOK
<1>2. CASE lpc \in {"load", "exchange"}
  <2>1. /\ HasSn(lsdu) /\ NotInQueue(lsdu)
        /\ sdu_states[Slot(lsdu)] \in {lsdu.sn, STATE_DISCARDED}
        /\ sdu_sizes[Slot(lsdu)] = lsdu.size
    BY <1>t, <1>2, Zenon DEF InHandSlot
  <2>2. lsdu \in Sdu
    BY <1>t, <2>1 DEF TypeOK, HasSn, NoSdu
  <2>3. InHand = <<lsdu>> /\ Held = <<lsdu>> \o queue
    BY <1>2, Zenon DEF InHand, Held
  <2>4. /\ Held \in Seq(Sdu) /\ Len(Held) = Len(queue) + 1 /\ Held[1] = lsdu
        /\ \A i \in 1 .. Len(queue) : Held[i + 1] = queue[i]
    BY <1>1, <2>2, <2>3
  <2>5. \A i \in 1 .. Len(Held) : i = 1 \/ (i - 1 \in 1 .. Len(queue) /\ i = (i - 1) + 1)
    BY <1>1, <2>4
  <2>6. \A i \in 1 .. Len(Held) : i = 1 \/ (i - 1 \in 1 .. Len(queue) /\ Held[i] = queue[i - 1])
    BY <2>4, <2>5, Zenon
  <2>7. ASSUME NEW i \in 1 .. Len(Held), HasSn(Held[i])
        PROVE  /\ Held[i].sn \in PdcpSns /\ Slot(Held[i]) \in Slots
               /\ sdu_states[Slot(Held[i])] \in {Held[i].sn, STATE_DISCARDED}
               /\ sdu_sizes[Slot(Held[i])] = Held[i].size
               /\ \A j \in 1 .. Len(Held) : HasSn(Held[j]) /\ Slot(Held[j]) = Slot(Held[i]) => j = i
               /\ upc \in {"alloc", "push", "undo"} /\ HasSn(usdu) => Slot(Held[i]) # Slot(usdu)
    <3>1. Held[i] \in Sdu
      BY <2>4
    <3>2. Held[i].sn \in PdcpSns /\ Slot(Held[i]) \in Slots
      BY <2>7, <3>1, SlotInRange, Zenon DEF Sdu, HasSn
    <3>3. /\ sdu_states[Slot(Held[i])] \in {Held[i].sn, STATE_DISCARDED}
          /\ sdu_sizes[Slot(Held[i])] = Held[i].size
      BY <1>t, <2>1, <2>4, <2>6, <2>7, ZenonT(40) DEF QueueSlots
    <3>4. upc \in {"alloc", "push", "undo"} /\ HasSn(usdu) => Slot(Held[i]) # Slot(usdu)
      BY <1>2, <1>t, <2>4, <2>6, <2>7, Zenon DEF WritingSlot, NotInQueue
    <3>5. ASSUME NEW j \in 1 .. Len(Held), HasSn(Held[j]), Slot(Held[j]) = Slot(Held[i])
          PROVE  j = i
      <4>1. i - 1 \in 1 .. Len(queue) /\ j - 1 \in 1 .. Len(queue)
                /\ Held[i] = queue[i - 1] /\ Held[j] = queue[j - 1] => j - 1 = i - 1
        BY <1>t, <2>7, <3>5, Zenon DEF QueueSlots
      <4>2. i = 1 <=> j = 1
        BY <2>1, <2>4, <2>6, <2>7, <3>5, Zenon DEF NotInQueue
      <4> QED
        BY <2>6, <4>1, <4>2
    <3> QED
      BY <3>2, <3>3, <3>4, <3>5, Zenon
  <2> QED
    BY <1>2, <2>2, <2>3, <2>4, <2>7, Zenon
<1>3. CASE lpc \notin {"load", "exchange"}
  <2>1. InHand = <<>> /\ Held = queue
    BY <1>1, <1>3 DEF InHand, Held
  <2>2. ASSUME NEW i \in 1 .. Len(queue), HasSn(queue[i])
        PROVE  queue[i].sn \in PdcpSns /\ Slot(queue[i]) \in Slots
    <3>1. queue[i] \in Sdu
      BY <1>1
    <3> QED
      BY <2>2, <3>1, SlotInRange, Zenon DEF Sdu, HasSn
  <2> QED
    BY <1>1, <1>3, <1>t, <2>1, <2>2, Zenon DEF QueueSlots, WritingSlot, NotInQueue
<1> QED
  BY <1>2, <1>3, Zenon

\* Buffered SDUs, and what they are kept of.
LEMMA BufferedTyped ==
  ASSUME IndInv
  PROVE  /\ Buffered \in Seq(Sdu) /\ Bytes(Buffered) \in Nat /\ Len(Buffered) \in Nat
         /\ Len(queue) \in Nat
         /\ Len(Buffered) + (IF lpc = "sub" THEN 1 ELSE 0) <= Len(queue) + 1
<1>1. Held \in Seq(Sdu) /\ queue \in Seq(Sdu)
  BY HeldSlots, Zenon DEF IndInv, TypeOK
<1>2. Buffered \in Seq(Sdu) /\ Len(Buffered) \in 0 .. Len(Held)
  BY <1>1, KeptTyped, Zenon DEF Buffered
<1>3. Bytes(Buffered) \in Nat
  BY <1>2, KeptTyped, Zenon
<1>4. Len(Held) <= Len(queue) + 1 /\ (lpc = "sub" => Len(Held) = Len(queue))
  <2>1. CASE lpc \in {"load", "exchange"}
    BY <1>1, <2>1, HeldSlots
  <2>2. CASE lpc \notin {"load", "exchange"}
    BY <1>1, <2>2, HeldSlots
  <2> QED
    BY <2>1, <2>2, Zenon
<1> QED
  BY <1>1, <1>2, <1>3, <1>4

\* A step that changes neither the SDUs that wait nor the slot of one of them.
LEMMA BufferedStays ==
  ASSUME IndInv, UNCHANGED Held,
         \A i \in 1 .. Len(Held) : HasSn(Held[i]) =>
           sdu_states'[Slot(Held[i])] = sdu_states[Slot(Held[i])]
  PROVE  Buffered' = Buffered
<1>1. Held \in Seq(Sdu)
  BY HeldSlots, Zenon
<1>2. ASSUME NEW i \in 1 .. Len(Held)
      PROVE  Held[i] \in ValidSdus <=> Held[i] \in ValidSdus'
  <2>1. Valid(Held[i]) <=> sdu_states'[Slot(Held[i])] = Held[i].sn \/ ~HasSn(Held[i])
    BY Zenon DEF Valid
  <2>2. Held[i] \in ValidSdus' <=> Held[i] \in Sdu /\ (HasSn(Held[i]) => sdu_states'[Slot(Held[i])] = Held[i].sn)
    BY Zenon DEF ValidSdus, Valid, HasSn, Slot
  <2> QED
    BY <2>1, <2>2, Zenon DEF ValidSdus
<1>3. Buffered' = Kept(Held', ValidSdus')
  BY Zenon DEF Buffered
<1> QED
  BY <1>1, <1>2, <1>3, KeptSame, Zenon DEF Buffered

\* The oldest SDU that waits leaves.
LEMMA BufferedTakes ==
  ASSUME IndInv, Held' \in Seq(Sdu), NEW x \in Sdu, Held = <<x>> \o Held',
         \A i \in 1 .. Len(Held') : HasSn(Held'[i]) =>
           sdu_states'[Slot(Held'[i])] = sdu_states[Slot(Held'[i])]
  PROVE  /\ Valid(x) => /\ Buffered = <<x>> \o Buffered'
                        /\ Len(Buffered) = Len(Buffered') + 1
                        /\ Bytes(Buffered) = Bytes(Buffered') + x.size
         /\ ~Valid(x) => Buffered' = Buffered
<1>1. Held \in Seq(Sdu) /\ Held' \in Seq(Sdu)
  BY HeldSlots, Zenon
<1>2. ASSUME NEW i \in 1 .. Len(Held')
      PROVE  Held'[i] \in ValidSdus <=> Held'[i] \in ValidSdus'
  <2>1. Valid(Held'[i]) <=> sdu_states'[Slot(Held'[i])] = Held'[i].sn \/ ~HasSn(Held'[i])
    BY Zenon DEF Valid
  <2>2. Held'[i] \in ValidSdus' <=> Held'[i] \in Sdu /\ (HasSn(Held'[i]) => sdu_states'[Slot(Held'[i])] = Held'[i].sn)
    BY Zenon DEF ValidSdus, Valid, HasSn, Slot
  <2> QED
    BY <2>1, <2>2, Zenon DEF ValidSdus
<1>3. Buffered' = Kept(Held', ValidSdus')
  BY Zenon DEF Buffered
<1>4. Buffered' = Kept(Held', ValidSdus)
  BY <1>1, <1>2, <1>3, KeptSame, Zenon
<1>5. ~Valid(x) => Buffered = Buffered'
  BY <1>1, <1>4, KeptFirst, Zenon DEF Buffered, ValidSdus
<1>6. Valid(x) => Buffered = <<x>> \o Buffered'
  <2>1. Valid(x) => x \in ValidSdus
    BY Zenon DEF ValidSdus
  <2>2. x \in ValidSdus => Kept(<<x>> \o Held', ValidSdus) = <<x>> \o Kept(Held', ValidSdus)
    BY KeptFirst, Zenon
  <2> QED
    BY <1>4, <2>1, <2>2, Zenon DEF Buffered
<1>7. Buffered' \in Seq(Sdu) /\ Bytes(Buffered') \in Nat /\ x.size \in Nat
  <2>1. Buffered' \in Seq(Sdu)
    BY <1>3, KeptTyped, Zenon
  <2> QED
    BY <2>1, KeptTyped, SduSize, Zenon
<1>8. Bytes(<<x>> \o Buffered') = Bytes(<<x>>) + Bytes(Buffered') /\ Len(<<x>> \o Buffered') = Len(Buffered') + 1
  <2>1. <<x>> \in Seq(Sdu) /\ Len(<<x>> \o Buffered') = Len(Buffered') + 1
    BY <1>7
  <2> QED
    BY <1>7, <2>1, BytesConcat, Zenon
<1>9. Bytes(<<x>>) = x.size
  BY KeptSmall, Zenon
<1>10. x.size + Bytes(Buffered') = Bytes(Buffered') + x.size
  BY <1>7
<1> QED
  BY <1>5, <1>6, <1>8, <1>9, <1>10, Zenon

\* An SDU is pushed that owns its slot.
LEMMA BufferedPushes ==
  ASSUME IndInv, usdu \in Sdu, Valid(usdu), Held' = Append(Held, usdu), UNCHANGED sdu_states
  PROVE  /\ Buffered' = Append(Buffered, usdu)
         /\ Len(Buffered') = Len(Buffered) + 1
         /\ Bytes(Buffered') = Bytes(Buffered) + usdu.size
<1> DEFINE o == <<usdu>>
<1>1. Held \in Seq(Sdu)
  BY HeldSlots, Zenon
<1>2. Buffered' = Kept(Held', ValidSdus') /\ ValidSdus' = ValidSdus
  BY Zenon DEF Buffered, ValidSdus, Valid, HasSn, Slot
<1>3. usdu \in ValidSdus
  BY Zenon DEF ValidSdus
<1>4. o \in Seq(Sdu) /\ Append(Held, usdu) = Held \o o
  BY <1>1, AppendIsConcat
<1>5. Buffered \in Seq(Sdu)
  BY <1>1, KeptTyped, Zenon DEF Buffered
<1>6. Append(Buffered, usdu) = Buffered \o o /\ Len(Append(Buffered, usdu)) = Len(Buffered) + 1
  BY <1>5, AppendIsConcat
<1>7. Kept(o, ValidSdus) = o /\ Bytes(o) = usdu.size
  BY <1>3, KeptSmall, Zenon
<1> HIDE DEF o
<1>8. Kept(Held \o o, ValidSdus) = Buffered \o o
  <2>1. Kept(Held \o o, ValidSdus) = Kept(Held, ValidSdus) \o Kept(o, ValidSdus)
    BY <1>1, <1>4, KeptConcat, Zenon
  <2> QED
    BY <1>7, <2>1, Zenon DEF Buffered
<1>9. Bytes(Buffered \o o) = Bytes(Buffered) + usdu.size
  BY <1>4, <1>5, <1>7, BytesConcat, Zenon
<1> QED
  BY <1>2, <1>4, <1>6, <1>8, <1>9, Zenon

\* try_discard() finds an SDU that waits, and drops it from what is buffered.
LEMMA BufferedDrops ==
  ASSUME IndInv, SlotsHeld, NEW sn \in PdcpSns, DiscardExchange(sn)
  PROVE  /\ \E i \in 1 .. Len(Buffered) :
              /\ Buffered[i].sn = sn
              /\ Buffered' = SubSeq(Buffered, 1, i - 1)
                               \o SubSeq(Buffered, i + 1, Len(Buffered))
         /\ Len(Buffered) = Len(Buffered') + 1
         /\ Bytes(Buffered) = Bytes(Buffered') + usdu'.size
<1> DEFINE k == sn % Capacity
<1>1. Held \in Seq(Sdu)
  BY HeldSlots, Zenon
<1>2. k \in Slots
  <2>1. Slot([sn |-> sn, size |-> 0]) \in Slots
    BY SlotInRange, Zenon
  <2> QED
    BY <2>1, Zenon DEF Slot
<1>3. /\ upc = "idle" /\ sdu_states[k] = sn /\ usdu' = [sn |-> sn, size |-> sdu_sizes[k]]
      /\ sdu_states' = [sdu_states EXCEPT ![k] = STATE_DISCARDED]
      /\ UNCHANGED <<queue, lpc, lsdu>>
  BY Zenon DEF DiscardExchange, lowerLocal
<1>4. sdu_states \in [Slots -> PdcpSns \cup {STATE_FREE, STATE_DISCARDED}]
  BY Zenon DEF IndInv, TypeOK
<1>5. UNCHANGED Held
  BY <1>3, Zenon DEF Held, InHand
<1>6. sdu_states'[k] = STATE_DISCARDED /\ \A m \in Slots : m # k => sdu_states'[m] = sdu_states[m]
  BY <1>2, <1>3, <1>4, Zenon
<1> HIDE DEF k
<1>7. PICK j \in 1 .. Len(Held) : HasSn(Held[j]) /\ Slot(Held[j]) = k
  <2>1. upc \notin {"push", "undo"}
    BY <1>3, Zenon
  <2> QED
    BY <1>2, <1>3, <2>1, Zenon DEF SlotsHeld
<1>8. sn # STATE_DISCARDED /\ sn \in Nat
  BY SnAssumption
<1>9. Held[j].sn = sn /\ sdu_sizes[k] = Held[j].size
  BY <1>3, <1>7, <1>8, HeldSlots, Zenon
<1>10. Held[j] \in Sdu
  BY <1>1
<1>11. ASSUME NEW i \in 1 .. Len(Held), i # j
       PROVE  Held[i] \in ValidSdus <=> Held[i] \in ValidSdus'
  <2>1. HasSn(Held[i]) => Slot(Held[i]) \in Slots /\ Slot(Held[i]) # k
    BY <1>7, <1>11, HeldSlots, Zenon
  <2>2. HasSn(Held[i]) => sdu_states'[Slot(Held[i])] = sdu_states[Slot(Held[i])]
    BY <1>6, <2>1, Zenon
  <2>3. Held[i] \in ValidSdus' <=> Held[i] \in Sdu /\ (HasSn(Held[i]) => sdu_states'[Slot(Held[i])] = Held[i].sn)
    BY Zenon DEF ValidSdus, Valid, HasSn, Slot
  <2> QED
    BY <2>2, <2>3, Zenon DEF ValidSdus, Valid
<1>12. Held[j] \in ValidSdus /\ Held[j] \notin ValidSdus'
  <2>1. Held[j] \in ValidSdus' <=> Held[j] \in Sdu /\ (HasSn(Held[j]) => sdu_states'[Slot(Held[j])] = Held[j].sn)
    BY Zenon DEF ValidSdus, Valid, HasSn, Slot
  <2> QED
    BY <1>3, <1>6, <1>7, <1>8, <1>9, <1>10, <2>1, Zenon DEF ValidSdus, Valid
<1>13. Buffered' = Kept(Held, ValidSdus')
  BY <1>5, Zenon DEF Buffered
<1>14. usdu'.size = Held[j].size
  BY <1>3, <1>9, Zenon
<1>15. DifferAt(Held, ValidSdus, ValidSdus', j)
  BY <1>11, <1>12, Zenon DEF DifferAt
<1>16. Without(Buffered', Buffered, Held[j])
  BY <1>1, <1>13, <1>15, KeptButOne, Zenon DEF Buffered
<1> QED
  BY <1>9, <1>14, <1>16, Zenon DEF Without

\* The numbers of which the total is made up.
LEMMA TotalTyped ==
  ASSUME IndInv
  PROVE  /\ usdu.size \in Nat /\ lsize \in Nat /\ Word \in Nat \ {0}
         /\ Len(Buffered) \in Nat /\ Bytes(Buffered) \in Nat
         /\ Total \in Int /\ Occupied \in Nat
<1>1. usdu.size \in Sizes \cup {0} /\ lsize \in Sizes \cup {0}
  BY Zenon DEF IndInv, TypeOK
<1>2. usdu.size \in Nat /\ lsize \in Nat /\ Word \in Nat \ {0}
  BY <1>1, SizeNat, WordAssumption, Zenon
<1>3. Len(Buffered) \in Nat /\ Bytes(Buffered) \in Nat
  BY BufferedTyped, Zenon
<1> QED
  BY <1>2, <1>3, SMTT(30) DEF Total, Due, Occupied

\* A step changes what is buffered, what is due and the counter alike.
LEMMA CounterStep ==
  ASSUME IndInv, CounterExact, NEW c \in Int, Total' = Total + c,
         state' = (state + c) % (Word * Word) \/ (c = 0 /\ state' = state)
  PROVE  CounterExact'
<1> DEFINE M == Word * Word
<1>1. M \in Nat \ {0} /\ Total \in Int
  BY TotalTyped
<1>2. CounterExact' <=> state' = Total' % M
  BY Zenon DEF CounterExact
<1>3. state = Total % M
  BY Zenon DEF CounterExact
<1> HIDE DEF M
<1>4. CASE state' = (state + c) % M
  BY <1>1, <1>2, <1>3, <1>4, ModAdd, Zenon
<1>5. CASE c = 0 /\ state' = state
  <2>1. Total' = Total
    BY <1>1, <1>5
  <2> QED
    BY <1>2, <1>3, <1>5, <2>1, Zenon
<1> QED
  BY <1>4, <1>5, Zenon DEF M

\* A step that changes neither what is buffered nor the counter, nor what is due.
LEMMA Quiet ==
  ASSUME IndInv, CounterExact, Buffered' = Buffered, state' = state,
         UNCHANGED <<upc, usdu>> \/ (upc \notin {"sub", "add"} /\ upc' \notin {"sub", "add"}),
         lpc' = "sub" <=> lpc = "sub", lpc = "sub" => lsize' = lsize
  PROVE  CounterExact' /\ Occupied' = Occupied
<1>1. Due(upc = "sub", usdu.size)' = Due(upc = "sub", usdu.size)
  BY Zenon DEF Due
<1>2. Due(upc = "add", usdu.size)' = Due(upc = "add", usdu.size)
  BY Zenon DEF Due
<1>3. Due(lpc = "sub", lsize)' = Due(lpc = "sub", lsize)
  BY Zenon DEF Due
<1>4. Total' = Total
  BY <1>1, <1>2, <1>3, Zenon DEF Total
<1>5. Total' = Total + 0
  BY <1>4, TotalTyped
<1>6. Occupied' = Occupied
  BY Zenon DEF Occupied
<1> QED
  BY <1>5, <1>6, CounterStep

\* While the upper thread is between calls the counter shows what is buffered, and what
\* the lower thread has taken and not subtracted yet.
LEMMA CounterReads ==
  ASSUME IndInv, CounterExact, RoomLeft, upc = "idle"
  PROVE  /\ n_bytes = Occupied
         /\ n_sdus = Len(Buffered) + (IF lpc = "sub" THEN 1 ELSE 0)
<1> DEFINE n == Len(Buffered) + (IF lpc = "sub" THEN 1 ELSE 0)
<1>1. /\ Len(Buffered) \in Nat /\ Bytes(Buffered) \in Nat /\ lsize \in Nat
      /\ Word \in Nat \ {0} /\ Occupied \in Nat
  BY TotalTyped, Zenon
<1>2. Total = n * Word + Occupied
  BY <1>1 DEF Total, Due, Occupied
<1>3. n \in Nat /\ n < Word
  BY <1>1, BufferedTyped, CounterAssumption, CapacityAssumption DEF RoomLeft
<1>4. Occupied < Word
  <2>1. CASE Buffered # <<>> \/ lpc = "sub"
    BY <1>1, <2>1, CounterAssumption, LimitAssumption DEF RoomLeft
  <2>2. CASE Buffered = <<>> /\ lpc # "sub"
    <3>1. Bytes(Buffered) = 0
      BY <2>2, KeptEmpty, Zenon
    <3> QED
      BY <1>1, <2>2, <3>1 DEF Occupied
  <2> QED
    BY <2>1, <2>2, Zenon
<1> HIDE DEF n
<1>5. n \in 0 .. Word - 1 /\ Occupied \in 0 .. Word - 1
  BY <1>1, <1>3, <1>4
<1>6. state = (n * Word + Occupied) % (Word * Word)
  BY <1>2, Zenon DEF CounterExact
<1> QED
  BY <1>5, <1>6, Halves, Zenon DEF n_bytes, n_sdus, n

-----------------------------------------------------------------------------
\* What a step of the queue may do to the queue that is promised.
FifoStep == [Fifo!AbsNext]_(Fifo!absVars)

\* A step that changes neither the SDUs that wait nor what is buffered is no step of the
\* abstract queue.
LEMMA Stutters ==
  ASSUME Buffered' = Buffered, UNCHANGED <<out, gone>>
  PROVE  FifoStep
BY Zenon DEF FifoStep, Fifo!absVars

\* write() up to the push.
LEMMA WriteBeginKeeps ==
  ASSUME IndInv, BufferInv, NEW s \in Sdu, WriteBegin(s)
  PROVE  BufferInv' /\ FifoStep
<1>1. /\ upc = "idle" /\ s.size + n_bytes < ByteLimit /\ usdu' = s /\ upc' \in {"slot", "push"}
      /\ UNCHANGED <<queue, sdu_states, state, lpc, lsdu, lsize, out, gone>>
  BY Zenon DEF WriteBegin, lowerLocal
<1>2. UNCHANGED Held
  BY <1>1, Zenon DEF Held, InHand
<1>3. Buffered' = Buffered
  BY <1>1, <1>2, BufferedStays, Zenon
<1>4. CounterExact' /\ Occupied' = Occupied
  BY <1>1, <1>3, Quiet, Zenon DEF BufferInv
<1>5. SlotsHeld'
  BY <1>1, <1>2, Zenon DEF BufferInv, SlotsHeld, HasSn, Slot
<1>6. RoomLeft'
  <2>1. n_bytes = Occupied
    BY <1>1, CounterReads, Zenon DEF BufferInv
  <2> QED
    BY <1>1, <1>3, <1>4, <2>1, Zenon DEF BufferInv, RoomLeft
<1> QED
  BY <1>1, <1>3, <1>4, <1>5, <1>6, Stutters, Zenon DEF BufferInv

\* write() claims a slot only when it is free; nothing waits in it.
LEMMA WriteSlotKeeps ==
  ASSUME IndInv, BufferInv, WriteSlot
  PROVE  BufferInv' /\ FifoStep
<1>1. /\ upc = "slot" /\ upc' \in {"idle", "alloc"}
      /\ UNCHANGED <<queue, sdu_states, state, usdu, lpc, lsdu, lsize, out, gone>>
  BY Zenon DEF WriteSlot, lowerLocal
<1>2. UNCHANGED Held
  BY <1>1, Zenon DEF Held, InHand
<1>3. Buffered' = Buffered
  BY <1>1, <1>2, BufferedStays, Zenon
<1>4. CounterExact' /\ Occupied' = Occupied
  BY <1>1, <1>3, Quiet, Zenon DEF BufferInv
<1>5. SlotsHeld'
  BY <1>1, <1>2, Zenon DEF BufferInv, SlotsHeld, HasSn, Slot
<1>6. RoomLeft'
  BY <1>1, <1>3, <1>4, Zenon DEF BufferInv, RoomLeft
<1> QED
  BY <1>1, <1>3, <1>4, <1>5, <1>6, Stutters, Zenon DEF BufferInv

\* The slot receives the SN of an SDU that does not wait yet, so nothing that waits changes.
LEMMA WriteAllocKeeps ==
  ASSUME IndInv, BufferInv, WriteAlloc
  PROVE  BufferInv' /\ FifoStep
<1>1. /\ upc = "alloc" /\ upc' = "push"
      /\ sdu_states' = [sdu_states EXCEPT ![Slot(usdu)] = usdu.sn]
      /\ UNCHANGED <<queue, state, usdu, lpc, lsdu, lsize, out, gone>>
  BY Zenon DEF WriteAlloc, lowerLocal
<1>2. UNCHANGED Held
  BY <1>1, Zenon DEF Held, InHand
<1>3. HasSn(usdu) /\ sdu_states \in [Slots -> PdcpSns \cup {STATE_FREE, STATE_DISCARDED}]
  BY <1>1, Zenon DEF IndInv, SlotOwnership, WritingSlot, TypeOK
<1>4. \A k \in Slots : k # Slot(usdu) => sdu_states'[k] = sdu_states[k]
  BY <1>1, <1>3, Zenon
<1>5. Buffered' = Buffered
  BY <1>1, <1>2, <1>3, <1>4, HeldSlots, BufferedStays, Zenon
<1>6. CounterExact' /\ Occupied' = Occupied
  BY <1>1, <1>5, Quiet, Zenon DEF BufferInv
<1>7. SlotsHeld'
  <2>1. ASSUME NEW k \in Slots, sdu_states'[k] \in PdcpSns, Slot(usdu) # k
        PROVE  \E j \in 1 .. Len(Held) : HasSn(Held[j]) /\ Slot(Held[j]) = k
    <3>1. sdu_states[k] \in PdcpSns /\ upc \notin {"push", "undo"}
      BY <1>1, <1>4, <2>1, Zenon
    <3> QED
      BY <3>1, Zenon DEF BufferInv, SlotsHeld
  <2> QED
    BY <1>1, <1>2, <1>3, <2>1, Zenon DEF SlotsHeld, HasSn, Slot
<1>8. RoomLeft'
  BY <1>1, <1>5, <1>6, Zenon DEF BufferInv, RoomLeft
<1> QED
  BY <1>1, <1>5, <1>6, <1>7, <1>8, Stutters, Zenon DEF BufferInv

\* A write that finds the inner queue full frees the slot that no waiting SDU has.
LEMMA WriteUndoKeeps ==
  ASSUME IndInv, BufferInv, WriteUndo
  PROVE  BufferInv' /\ FifoStep
<1>1. /\ upc = "undo" /\ upc' = "idle"
      /\ sdu_states' = [sdu_states EXCEPT ![Slot(usdu)] = STATE_FREE]
      /\ UNCHANGED <<queue, state, usdu, lpc, lsdu, lsize, out, gone>>
  BY Zenon DEF WriteUndo, lowerLocal
<1>2. UNCHANGED Held
  BY <1>1, Zenon DEF Held, InHand
<1>3. HasSn(usdu) /\ sdu_states \in [Slots -> PdcpSns \cup {STATE_FREE, STATE_DISCARDED}]
  BY <1>1, Zenon DEF IndInv, SlotOwnership, WritingSlot, TypeOK
<1>4. \A k \in Slots : sdu_states'[k] = IF k = Slot(usdu) THEN STATE_FREE ELSE sdu_states[k]
  BY <1>1, <1>3, Zenon
<1>5. Buffered' = Buffered
  BY <1>1, <1>2, <1>3, <1>4, HeldSlots, BufferedStays, Zenon
<1>6. CounterExact' /\ Occupied' = Occupied
  BY <1>1, <1>5, Quiet, Zenon DEF BufferInv
<1>7. SlotsHeld'
  <2>1. ASSUME NEW k \in Slots, sdu_states'[k] \in PdcpSns
        PROVE  \E j \in 1 .. Len(Held) : HasSn(Held[j]) /\ Slot(Held[j]) = k
    <3>1. sdu_states[k] \in PdcpSns /\ k # Slot(usdu)
      BY <1>4, <2>1, SnAssumption
    <3> QED
      BY <3>1, Zenon DEF BufferInv, SlotsHeld
  <2> QED
    BY <1>1, <1>2, <2>1, Zenon DEF SlotsHeld, HasSn, Slot
<1>8. RoomLeft'
  BY <1>1, <1>5, <1>6, Zenon DEF BufferInv, RoomLeft
<1> QED
  BY <1>1, <1>5, <1>6, <1>7, <1>8, Stutters, Zenon DEF BufferInv

\* The push is the step at which an SDU is buffered: its addition to the counter becomes due.
LEMMA WritePushKeeps ==
  ASSUME IndInv, BufferInv, WritePush
  PROVE  BufferInv' /\ FifoStep
<1>1. upc = "push" /\ UNCHANGED <<sdu_states, state, usdu, lpc, lsdu, lsize, out, gone>>
  BY Zenon DEF WritePush, lowerLocal
<1>2. /\ usdu \in Sdu /\ Valid(usdu) /\ queue \in Seq(Sdu)
      /\ HasSn(usdu) => Slot(usdu) \in Slots
  <2>1. usdu \in Sdu /\ (HasSn(usdu) => sdu_states[Slot(usdu)] = usdu.sn) /\ queue \in Seq(Sdu)
    BY <1>1, Zenon DEF IndInv, SlotOwnership, WritingSlot, TypeOK
  <2>2. HasSn(usdu) => Slot(usdu) \in Slots
    BY <2>1, SlotInRange, Zenon DEF Sdu, HasSn
  <2> QED
    BY <2>1, <2>2, Zenon DEF Valid
<1>3. CASE Len(queue) < Capacity
  <2>1. queue' = Append(queue, usdu) /\ upc' = "add"
    BY <1>3, Zenon DEF WritePush
  <2>2. Held' = Append(Held, usdu)
    <3>1. InHand' = InHand
      BY <1>1, Zenon DEF InHand
    <3>2. InHand \in Seq(Sdu)
      <4>1. lpc \in {"load", "exchange"} => lsdu \in Sdu
        BY HeldSlots, Zenon
      <4> QED
        BY <4>1 DEF InHand
    <3> QED
      BY <1>2, <2>1, <3>1, <3>2, SnocAssoc, Zenon DEF Held
  <2>3. /\ Buffered' = Append(Buffered, usdu)
        /\ Len(Buffered') = Len(Buffered) + 1
        /\ Bytes(Buffered') = Bytes(Buffered) + usdu.size
    BY <1>1, <1>2, <2>2, BufferedPushes, Zenon
  <2>4. CounterExact'
    <3>1. Total' = Total + 0
      <4> DEFINE l == Due(lpc = "sub", lsize)
      <4>1. l' = l /\ l \in Int
        BY <1>1, TotalTyped DEF Due
      <4>2. Total = Len(Buffered) * Word + Bytes(Buffered) + l + 0 - 0
        BY <1>1, Zenon DEF Total, Due
      <4>3. Total' = (Len(Buffered) + 1) * Word + (Bytes(Buffered) + usdu.size) + l' + 0 - (Word + usdu.size)
        BY <1>1, <2>1, <2>3, Zenon DEF Total, Due
      <4>4. /\ Len(Buffered) \in Int /\ Bytes(Buffered) \in Int /\ usdu.size \in Int
            /\ Word \in Int
        BY TotalTyped
      <4> HIDE DEF l
      <4>5. (Len(Buffered) + 1) * Word + (Bytes(Buffered) + usdu.size) + l + 0 - (Word + usdu.size)
              = (Len(Buffered) * Word + Bytes(Buffered) + l + 0 - 0) + 0
        BY <4>1, <4>4, SameTotal
      <4> QED
        BY <4>1, <4>2, <4>3, <4>5, Zenon
    <3> QED
      BY <1>1, <3>1, CounterStep DEF BufferInv
  <2>5. SlotsHeld'
    <3>1. Held \in Seq(Sdu)
      BY HeldSlots, Zenon
    <3>2. /\ \A j \in 1 .. Len(Held) : j \in 1 .. Len(Held') /\ Held'[j] = Held[j]
          /\ Len(Held) + 1 \in 1 .. Len(Held') /\ Held'[Len(Held) + 1] = usdu
      BY <1>2, <2>2, <3>1
    <3> QED
      BY <1>1, <3>2, Zenon DEF BufferInv, SlotsHeld, HasSn, Slot
  <2>6. RoomLeft'
    <3>1. Occupied' = usdu.size + Occupied
      BY <1>1, <2>3, TotalTyped DEF Occupied
    <3>2. usdu.size + Occupied < ByteLimit
      BY <1>1, Zenon DEF BufferInv, RoomLeft
    <3>3. Len(queue') <= Capacity
      BY <1>2, <1>3, <2>1, CapacityAssumption
    <3> QED
      BY <2>1, <3>1, <3>2, <3>3 DEF RoomLeft
  <2>7. FifoStep
    BY <1>1, <1>2, <2>3, Zenon DEF FifoStep, Fifo!AbsNext, Fifo!AbsWrite
  <2> QED
    BY <2>4, <2>5, <2>6, <2>7, Zenon DEF BufferInv
<1>4. CASE ~(Len(queue) < Capacity)
  <2>1. UNCHANGED queue /\ upc' = IF HasSn(usdu) THEN "undo" ELSE "idle"
    BY <1>4, Zenon DEF WritePush
  <2>2. UNCHANGED Held
    BY <1>1, <2>1, Zenon DEF Held, InHand
  <2>3. Buffered' = Buffered
    BY <1>1, <2>2, BufferedStays, Zenon
  <2>a. upc' \in {"undo", "idle"}
    BY <2>1, Zenon
  <2>4. CounterExact' /\ Occupied' = Occupied
    BY <1>1, <2>3, <2>a, Quiet, Zenon DEF BufferInv
  <2>5. SlotsHeld'
    BY <1>1, <2>1, <2>2, Zenon DEF BufferInv, SlotsHeld, HasSn, Slot
  <2>6. RoomLeft'
    BY <1>1, <2>1, <2>3, <2>4, <2>a, Zenon DEF BufferInv, RoomLeft
  <2> QED
    BY <1>1, <2>3, <2>4, <2>5, <2>6, Stutters, Zenon DEF BufferInv
<1> QED
  BY <1>3, <1>4, Zenon

\* The upper thread's update of the counter settles what is due, of a write or of a discard.
LEMMA UpperSettles ==
  ASSUME IndInv, BufferInv, WriteAdd \/ DiscardSub
  PROVE  BufferInv' /\ FifoStep
<1>1. /\ upc \in {"add", "sub"} /\ upc' = "idle"
      /\ UNCHANGED <<queue, sdu_states, usdu, lpc, lsdu, lsize, out, gone>>
  BY Zenon DEF WriteAdd, DiscardSub, lowerLocal
<1>2. UNCHANGED Held
  BY <1>1, Zenon DEF Held, InHand
<1>3. Buffered' = Buffered
  BY <1>1, <1>2, BufferedStays, Zenon
<1>4. CounterExact'
  <2> DEFINE c == IF upc = "add" THEN Word + usdu.size ELSE -(Word + usdu.size)
  <2>1. c \in Int
    BY TotalTyped
  <2>2. Total' = Total + c
    <3> DEFINE l == Len(Buffered) * Word + Bytes(Buffered) + Due(lpc = "sub", lsize)
    <3>1. l' = l /\ l \in Int
      BY <1>1, <1>3, TotalTyped DEF Due
    <3>2. Total' = l' + 0 - 0
      BY <1>1, Zenon DEF Total, Due
    <3>3. Total = IF upc = "add" THEN l + 0 - (Word + usdu.size) ELSE l + (Word + usdu.size) - 0
      BY <1>1, Zenon DEF Total, Due
    <3> HIDE DEF l
    <3> QED
      BY <1>1, <3>1, <3>2, <3>3, TotalTyped, SMTT(30)
  <2>3. state' = (state + c) % (Word * Word)
    <3>1. state \in Int
      BY WordAssumption DEF IndInv, TypeOK
    <3> DEFINE M == Word * Word
    <3>2. \/ upc = "add" /\ state' = (state + Word + usdu.size) % M
          \/ upc = "sub" /\ state' = (state - Word - usdu.size) % M
      <4>1. CASE WriteAdd
        BY <4>1, Zenon DEF WriteAdd, state_add
      <4>2. CASE DiscardSub
        BY <4>2, Zenon DEF DiscardSub, state_sub
      <4> QED
        BY <4>1, <4>2, Zenon
    <3> HIDE DEF M
    <3>3. state + Word + usdu.size = state + (Word + usdu.size) /\ state - Word - usdu.size = state + -(Word + usdu.size)
      BY <3>1, TotalTyped
    <3>4. upc = "add" => c = Word + usdu.size
      OBVIOUS
    <3>5. upc = "sub" => c = -(Word + usdu.size)
      OBVIOUS
    <3> HIDE DEF c
    <3>6. state' = (state + c) % M
      BY <3>2, <3>3, <3>4, <3>5, Zenon
    <3> QED
      BY <3>6, Zenon DEF M
  <2> QED
    BY <2>1, <2>2, <2>3, CounterStep, Zenon DEF BufferInv
<1>5. Occupied' = Occupied
  BY <1>1, <1>3, Zenon DEF Occupied
<1>6. SlotsHeld'
  BY <1>1, <1>2, Zenon DEF BufferInv, SlotsHeld, HasSn, Slot
<1>7. RoomLeft'
  BY <1>1, <1>3, <1>5, Zenon DEF BufferInv, RoomLeft
<1> QED
  BY <1>1, <1>3, <1>4, <1>6, <1>7, Stutters, Zenon DEF BufferInv

\* The exchange of try_discard() takes exactly one SDU, the one that has the slot, out of what
\* is buffered: its subtraction becomes due.
LEMMA DiscardKeeps ==
  ASSUME IndInv, BufferInv, NEW sn \in PdcpSns, DiscardExchange(sn)
  PROVE  BufferInv' /\ FifoStep
<1>1. /\ upc = "idle" /\ upc' = "sub" /\ gone' = sn
      /\ sdu_states' = [sdu_states EXCEPT ![sn % Capacity] = STATE_DISCARDED]
      /\ UNCHANGED <<queue, state, lpc, lsdu, lsize, out>>
  BY Zenon DEF DiscardExchange, lowerLocal
<1>2. UNCHANGED Held
  BY <1>1, Zenon DEF Held, InHand
<1>3. /\ \E i \in 1 .. Len(Buffered) :
           /\ Buffered[i].sn = sn
           /\ Buffered' = SubSeq(Buffered, 1, i - 1) \o SubSeq(Buffered, i + 1, Len(Buffered))
      /\ Len(Buffered) = Len(Buffered') + 1
      /\ Bytes(Buffered) = Bytes(Buffered') + usdu'.size
  BY BufferedDrops, Zenon DEF BufferInv
<1>a. Len(Buffered) = Len(Buffered') + 1 /\ Bytes(Buffered) = Bytes(Buffered') + usdu'.size
  BY <1>3, Zenon
<1>4. /\ Len(Buffered) \in Nat /\ Bytes(Buffered) \in Nat /\ lsize \in Nat /\ Word \in Nat \ {0}
      /\ Total \in Int
  BY TotalTyped, Zenon
<1>5. usdu'.size \in Nat /\ Len(Buffered') \in Nat /\ Bytes(Buffered') \in Nat /\ Bytes(Buffered') <= Bytes(Buffered)
  <2>1. usdu'.size \in Nat /\ Held' \in Seq(Sdu)
    <3>1. sdu_sizes[sn % Capacity] \in Sizes \cup {0}
      <4>1. Slot([sn |-> sn, size |-> 0]) \in Slots
        BY SlotInRange, Zenon
      <4> QED
        BY <4>1, Zenon DEF Slot, IndInv, TypeOK
    <3>2. usdu' = [sn |-> sn, size |-> sdu_sizes[sn % Capacity]]
      BY Zenon DEF DiscardExchange
    <3>3. usdu'.size \in Nat
      BY <3>1, <3>2, SizeNat, Zenon
    <3> QED
      BY <1>2, <3>3, HeldSlots, Zenon
  <2>2. Buffered' \in Seq(Sdu)
    <3>1. Buffered' = Kept(Held', ValidSdus')
      BY Zenon DEF Buffered
    <3> QED
      BY <2>1, <3>1, KeptTyped, Zenon
  <2>3. Bytes(Buffered') \in Nat
    BY <2>2, KeptTyped, Zenon
  <2>4. Len(Buffered') \in Nat
    BY <2>2
  <2> QED
    BY <1>a, <2>1, <2>3, <2>4
<1>6. CounterExact'
  <2>1. Total' = Total + 0
    <3> DEFINE l == Due(lpc = "sub", lsize)
    <3>1. l' = l /\ l \in Int
      BY <1>1, <1>4 DEF Due
    <3>2. Total = (Len(Buffered') + 1) * Word + (Bytes(Buffered') + usdu'.size) + l + 0 - 0
      BY <1>1, <1>3, Zenon DEF Total, Due
    <3>3. Total' = Len(Buffered') * Word + Bytes(Buffered') + l' + (Word + usdu'.size) - 0
      BY <1>1, Zenon DEF Total, Due
    <3>4. /\ Len(Buffered') \in Int /\ Bytes(Buffered') \in Int /\ usdu'.size \in Int
          /\ Word \in Int
      BY <1>4, <1>5
    <3> HIDE DEF l
    <3>5. Len(Buffered') * Word + Bytes(Buffered') + l + (Word + usdu'.size) - 0
            = ((Len(Buffered') + 1) * Word + (Bytes(Buffered') + usdu'.size) + l + 0 - 0) + 0
      BY <3>1, <3>4, SameTotal
    <3> QED
      BY <3>1, <3>2, <3>3, <3>5, Zenon
  <2> QED
    BY <1>1, <2>1, CounterStep DEF BufferInv
<1>7. Buffered # <<>>
  <2>1. Len(Buffered') \in Int /\ Len(Buffered) # 0
    BY <1>a, <1>5
  <2> QED
    BY <2>1
<1>8. Occupied' \in Nat /\ Occupied' <= Occupied
  BY <1>1, <1>4, <1>5 DEF Occupied
<1>9. RoomLeft'
  <2>1. Buffered # <<>> \/ lpc = "sub" => Occupied < ByteLimit
    BY Zenon DEF BufferInv, RoomLeft
  <2>2. Occupied \in Nat
    BY TotalTyped, Zenon
  <2>3. Buffered' # <<>> \/ lpc' = "sub" => Occupied' < ByteLimit
    BY <1>1, <1>7, <1>8, <2>1, <2>2, LimitAssumption
  <2> QED
    BY <1>1, <2>3, Zenon DEF BufferInv, RoomLeft
<1>10. SlotsHeld'
  <2>1. ASSUME NEW k \in Slots, sdu_states'[k] \in PdcpSns PROVE sdu_states[k] \in PdcpSns
    <3>1. STATE_DISCARDED \notin PdcpSns
      BY SnAssumption
    <3>2. sdu_states \in [Slots -> PdcpSns \cup {STATE_FREE, STATE_DISCARDED}]
      BY Zenon DEF IndInv, TypeOK
    <3> QED
      BY <1>1, <2>1, <3>1, <3>2, Zenon
  <2>2. upc \notin {"push", "undo"}
    BY <1>1, Zenon
  <2> QED
    BY <1>2, <2>1, <2>2, Zenon DEF BufferInv, SlotsHeld, HasSn, Slot
<1>11. FifoStep
  <2>1. sn # NoSn
    BY SnAssumption
  <2> QED
    BY <1>1, <1>3, <2>1, Zenon DEF FifoStep, Fifo!AbsNext, Fifo!AbsDiscard
<1> QED
  BY <1>6, <1>9, <1>10, <1>11, Zenon DEF BufferInv

\* read() takes an SDU out of the queue: one without SN when it pops it, one with SN when
\* its exchange finds the slot valid.
LEMMA Taken ==
  ASSUME IndInv, BufferInv, NEW x \in Sdu, Valid(x), Held = <<x>> \o Held', Held' \in Seq(Sdu),
         \A i \in 1 .. Len(Held') : HasSn(Held'[i]) =>
           sdu_states'[Slot(Held'[i])] = sdu_states[Slot(Held'[i])],
         lpc # "sub", lpc' = "sub", lsize' = x.size, out' = x,
         UNCHANGED <<state, upc, usdu, gone>>, Len(queue') <= Len(queue), Len(queue') \in Nat
  PROVE  CounterExact' /\ RoomLeft' /\ FifoStep
<1>1. /\ Buffered = <<x>> \o Buffered' /\ Len(Buffered) = Len(Buffered') + 1
      /\ Bytes(Buffered) = Bytes(Buffered') + x.size
  BY BufferedTakes, Zenon
<1>2. /\ Buffered' \in Seq(Sdu) /\ Len(Buffered') \in Nat /\ Bytes(Buffered') \in Nat
      /\ x.size \in Nat /\ Len(queue) \in Nat
  <2>1. Buffered' = Kept(Held', ValidSdus')
    BY Zenon DEF Buffered
  <2>2. Buffered' \in Seq(Sdu)
    BY <2>1, KeptTyped, Zenon
  <2>3. Bytes(Buffered') \in Nat /\ x.size \in Nat /\ Len(queue) \in Nat
    BY <2>2, KeptTyped, SduSize, BufferedTyped, Zenon
  <2>4. Len(Buffered') \in Nat
    BY <2>2
  <2> QED
    BY <2>2, <2>3, <2>4, Zenon
<1>3. CounterExact'
  <2> DEFINE l == Due(upc = "sub", usdu.size) - Due(upc = "add", usdu.size)
             a == Due(upc = "sub", usdu.size)  b == Due(upc = "add", usdu.size)
  <2>1. a' = a /\ b' = b /\ a \in Int /\ b \in Int /\ Word \in Int
    BY TotalTyped DEF Due
  <2>2. Total = (Len(Buffered') + 1) * Word + (Bytes(Buffered') + x.size) + 0 + a - b
    BY <1>1, Zenon DEF Total, Due
  <2>3. Total' = Len(Buffered') * Word + Bytes(Buffered') + (Word + x.size) + a' - b'
    BY Zenon DEF Total, Due
  <2> HIDE DEF a, b
  <2>4. Len(Buffered') \in Int /\ Bytes(Buffered') \in Int /\ x.size \in Int
    BY <1>2
  <2>5. /\ (Len(Buffered') + 1) * Word = Len(Buffered') * Word + Word
        /\ Len(Buffered') * Word \in Int
    BY <2>1, <2>4
  <2>6. Len(Buffered') * Word + Bytes(Buffered') + (Word + x.size) + a - b
          = ((Len(Buffered') + 1) * Word + (Bytes(Buffered') + x.size) + 0 + a - b) + 0
    <3> DEFINE p == Len(Buffered') * Word
    <3>1. p \in Int /\ (Len(Buffered') + 1) * Word = p + Word
      BY <2>5
    <3> HIDE DEF p
    <3>2. p + Bytes(Buffered') + (Word + x.size) + a - b
            = ((p + Word) + (Bytes(Buffered') + x.size) + 0 + a - b) + 0
      BY <2>1, <2>4, <3>1, SMTT(30)
    <3> QED
      BY <3>1, <3>2, Zenon DEF p
  <2>7. Total' = Total + 0
    BY <2>1, <2>2, <2>3, <2>6, Zenon
  <2> QED
    BY <2>7, CounterStep DEF BufferInv
<1>4. Occupied' = Occupied
  BY <1>1, <1>2 DEF Occupied
<1>5. Buffered # <<>>
  BY <1>1, <1>2
<1>6. RoomLeft'
  <2>1. Occupied < ByteLimit /\ Len(queue) <= Capacity
    BY <1>5, Zenon DEF BufferInv, RoomLeft
  <2>2. Len(queue') <= Capacity
    BY <1>2, <2>1, CapacityAssumption
  <2> QED
    BY <1>4, <2>1, <2>2, Zenon DEF BufferInv, RoomLeft
<1>7. FifoStep
  <2>1. out' = Head(Buffered) /\ Buffered' = Tail(Buffered)
    BY <1>1, <1>2, SMTT(30)
  <2> QED
    BY <1>5, <2>1, Zenon DEF FifoStep, Fifo!AbsNext, Fifo!AbsRead
<1> QED
  BY <1>3, <1>6, <1>7, Zenon

\* The lower thread pops the front of the inner queue and holds it in hand.
LEMMA PopKeepsHeld ==
  ASSUME IndInv, queue # <<>>, lpc \notin {"load", "exchange"}, lpc' = "load",
         lsdu' = Head(queue), queue' = Tail(queue)
  PROVE  UNCHANGED Held
<1>1. Held = queue /\ queue \in Seq(Sdu)
  BY HeldSlots, Zenon DEF IndInv, TypeOK
<1>2. Held' = <<Head(queue)>> \o Tail(queue)
  BY Zenon DEF Held, InHand
<1>3. <<Head(queue)>> \o Tail(queue) = queue
  BY <1>1
<1> QED
  BY <1>1, <1>2, <1>3, Zenon

\* A step of the lower thread that takes no SDU and settles nothing.
LEMMA LowerQuiet ==
  ASSUME IndInv, BufferInv, UNCHANGED <<Held, sdu_states, state, upc, usdu, out, gone>>,
         lpc # "sub", lpc' # "sub", Len(queue') <= Len(queue), Len(queue') \in Nat
  PROVE  BufferInv' /\ FifoStep
<1>1. Buffered' = Buffered
  BY BufferedStays, Zenon
<1>2. CounterExact' /\ Occupied' = Occupied
  BY <1>1, Quiet, Zenon DEF BufferInv
<1>3. SlotsHeld'
  BY Zenon DEF BufferInv, SlotsHeld, HasSn, Slot
<1>4. RoomLeft'
  <2>1. Len(queue) \in Nat /\ Len(queue) <= Capacity
    BY BufferedTyped, Zenon DEF BufferInv, RoomLeft
  <2>2. Len(queue') <= Capacity
    BY <2>1, CapacityAssumption
  <2> QED
    BY <1>1, <1>2, <2>2, Zenon DEF BufferInv, RoomLeft
<1> QED
  BY <1>1, <1>2, <1>3, <1>4, Stutters, Zenon DEF BufferInv

\* read() pops: an SDU without SN is read at once, one with SN is held in hand.
LEMMA ReadPopKeeps ==
  ASSUME IndInv, BufferInv, ReadPop
  PROVE  BufferInv' /\ FifoStep
<1> DEFINE x == Head(queue)
<1>1. /\ lpc \in {"idle", "again"} /\ queue # <<>> /\ queue' = Tail(queue) /\ lsdu' = x
      /\ UNCHANGED <<sdu_states, state, upc, usdu, gone>>
  BY Zenon DEF ReadPop, upperLocal
<1>2. queue \in Seq(Sdu) /\ Held = queue
  BY <1>1, HeldSlots, Zenon DEF IndInv, TypeOK
<1>3. x \in Sdu /\ Tail(queue) \in Seq(Sdu) /\ Len(Tail(queue)) = Len(queue) - 1 /\ Len(queue) \in Nat
      /\ queue = <<x>> \o Tail(queue)
  BY <1>1, <1>2
<1>4. Len(queue') <= Len(queue) /\ Len(queue') \in Nat
  <2>1. Len(queue') \in Nat /\ Len(queue') = Len(queue) - 1
    BY <1>1, <1>3
  <2> QED
    BY <1>3, <2>1
<1>5. CASE HasSn(x)
  <2>1. lpc' = "load" /\ UNCHANGED out
    BY <1>5, Zenon DEF ReadPop
  <2>2. UNCHANGED Held
    BY <1>1, <2>1, PopKeepsHeld, Zenon
  <2> QED
    BY <1>1, <1>4, <2>1, <2>2, LowerQuiet, Zenon
<1>6. CASE ~HasSn(x)
  <2>1. lpc' = "sub" /\ lsize' = x.size /\ out' = x
    BY <1>6, Zenon DEF ReadPop
  <2>2. Held' = Tail(queue)
    <3>1. Held' = <<>> \o Tail(queue)
      BY <1>1, <2>1, Zenon DEF Held, InHand
    <3> QED
      BY <1>3, <3>1
  <2>3. Valid(x)
    BY <1>6, Zenon DEF Valid
  <2>a. lpc # "sub" /\ Held = <<x>> \o Held' /\ Held' \in Seq(Sdu)
    BY <1>1, <1>2, <1>3, <2>2, Zenon
  <2> HIDE DEF x
  <2>4. CounterExact' /\ RoomLeft' /\ FifoStep
    BY <1>1, <1>3, <1>4, <2>1, <2>3, <2>a, Taken, Zenon
  <2>5. SlotsHeld'
    <3>1. /\ Len(Held) = Len(Held') + 1 /\ Held[1] = x /\ Len(Held') \in Nat
          /\ \A j \in 1 .. Len(Held') : Held[j + 1] = Held'[j]
      BY <1>3, <2>a
    <3>2. \A j \in 1 .. Len(Held) : j = 1 \/ (j - 1 \in 1 .. Len(Held') /\ (j - 1) + 1 = j)
      BY <3>1
    <3>3. \A j \in 1 .. Len(Held) : HasSn(Held[j]) => j - 1 \in 1 .. Len(Held') /\ Held'[j - 1] = Held[j]
      BY <1>6, <3>1, <3>2, Zenon
    <3> QED
      BY <1>1, <3>3, Zenon DEF BufferInv, SlotsHeld, HasSn, Slot
  <2> QED
    BY <2>4, <2>5, Zenon DEF BufferInv
<1> QED
  BY <1>5, <1>6, Zenon

\* front() pops the discarded SDU that it saw at the front, and holds it in hand.
LEMMA FrontPopKeeps ==
  ASSUME IndInv, BufferInv, FrontPop
  PROVE  BufferInv' /\ FifoStep
<1>1. lpc = "frontPop" /\ UNCHANGED <<sdu_states, state, upc, usdu, gone, lsdu, out>>
  BY Zenon DEF FrontPop, upperLocal
<1>2. queue # <<>> /\ Head(queue) = lsdu /\ queue \in Seq(Sdu)
  BY <1>1, Zenon DEF IndInv, TypeOK, SlotOwnership, FrontStays
<1>3. queue' = Tail(queue) /\ lpc' = "load"
  BY <1>2, Zenon DEF FrontPop
<1>4. UNCHANGED Held
  BY <1>1, <1>2, <1>3, PopKeepsHeld, Zenon
<1>5. Len(queue') <= Len(queue) /\ Len(queue') \in Nat
  BY <1>2, <1>3
<1> QED
  BY <1>1, <1>3, <1>4, <1>5, LowerQuiet

\* Steps of the lower thread that only look.
LEMMA LookKeeps ==
  ASSUME IndInv, BufferInv, LoopEmpty \/ ReleaseLoad \/ FrontCheck
  PROVE  BufferInv' /\ FifoStep
<1>1. UNCHANGED <<queue, sdu_states, state, upc, usdu, gone, out>>
  BY Zenon DEF LoopEmpty, ReleaseLoad, FrontCheck, upperLocal
<1>2. /\ lpc # "sub" /\ lpc' # "sub" /\ (lpc \in {"load", "exchange"} <=> lpc' \in {"load", "exchange"})
      /\ lpc \in {"load", "exchange"} => UNCHANGED lsdu
  BY Zenon DEF LoopEmpty, ReleaseLoad, FrontCheck
<1>3. UNCHANGED Held
  BY <1>1, <1>2, Zenon DEF Held, InHand
<1>4. queue \in Seq(Sdu)
  BY Zenon DEF IndInv, TypeOK
<1>5. Len(queue') <= Len(queue) /\ Len(queue') \in Nat
  BY <1>1, <1>4
<1> QED
  BY <1>1, <1>2, <1>3, <1>5, LowerQuiet, Zenon

\* check_and_release() frees the slot: a valid SDU is read, a discarded one is dropped and
\* was subtracted by the discard.
LEMMA ReleaseExchangeKeeps ==
  ASSUME IndInv, BufferInv, ReleaseExchange
  PROVE  BufferInv' /\ FifoStep
<1>1. /\ lpc = "exchange" /\ sdu_states' = [sdu_states EXCEPT ![Slot(lsdu)] = STATE_FREE]
      /\ UNCHANGED <<queue, state, upc, usdu, gone, lsdu, lsize>>
  BY ZenonT(40) DEF ReleaseExchange, upperLocal
<1>2. /\ HasSn(lsdu) /\ lsize = lsdu.size
      /\ sdu_states[Slot(lsdu)] \in {lsdu.sn, STATE_DISCARDED}
      /\ lop = "front" => sdu_states[Slot(lsdu)] = STATE_DISCARDED
      /\ queue \in Seq(Sdu) /\ lsdu \in Sdu /\ Held = <<lsdu>> \o queue
      /\ sdu_states \in [Slots -> PdcpSns \cup {STATE_FREE, STATE_DISCARDED}]
      /\ lop \in {"read", "front"}
  BY <1>1, HeldSlots DEF IndInv, TypeOK, SlotOwnership, InHandSlot
<1>3. lsdu.sn # STATE_DISCARDED
  BY <1>2, SnAssumption DEF Sdu, HasSn
<1>4. lpc' \in {"sub", "again"} /\ (lpc' = "sub" <=> sdu_states[Slot(lsdu)] = lsdu.sn)
      /\ (lpc' = "again" => UNCHANGED out) /\ (lpc' = "sub" => out' = lsdu)
  BY <1>2, <1>3, Zenon DEF ReleaseExchange
<1>5. Held' = queue /\ Held = <<lsdu>> \o Held'
  BY <1>1, <1>2, <1>4 DEF Held, InHand
<1>6. /\ Len(Held) = Len(Held') + 1 /\ Held[1] = lsdu /\ Len(Held') \in Nat /\ Held' \in Seq(Sdu)
      /\ \A j \in 1 .. Len(Held') : Held[j + 1] = Held'[j]
  BY <1>2, <1>5
<1>7. /\ \A j \in 1 .. Len(Held') : j + 1 \in 1 .. Len(Held) /\ 1 \in 1 .. Len(Held) /\ j + 1 # 1
      /\ \A j \in 1 .. Len(Held) : j = 1 \/ (j - 1 \in 1 .. Len(Held') /\ (j - 1) + 1 = j)
  BY <1>6
<1>8. \A j \in 1 .. Len(Held') : HasSn(Held'[j]) => Slot(Held'[j]) \in Slots /\ Slot(Held'[j]) # Slot(lsdu)
  <2>1. ASSUME NEW i \in 1 .. Len(Held), HasSn(Held[i]), i # 1
        PROVE  Slot(Held[i]) \in Slots /\ (1 \in 1 .. Len(Held) => Slot(Held[i]) # Slot(lsdu))
    <3>1. HasSn(Held[1])
      BY <1>2, <1>6, Zenon
    <3>2. Slot(Held[i]) \in Slots
      BY <2>1, HeldSlots, Zenon
    <3>3. 1 \in 1 .. Len(Held) => Slot(Held[1]) # Slot(Held[i])
      BY <2>1, <3>1, HeldSlots, Zenon
    <3> QED
      BY <1>6, <3>2, <3>3, Zenon
  <2> QED
    BY <1>6, <1>7, <2>1, Zenon
<1>9. \A j \in 1 .. Len(Held') : HasSn(Held'[j]) =>
        sdu_states'[Slot(Held'[j])] = sdu_states[Slot(Held'[j])]
  BY <1>1, <1>2, <1>8, Zenon
<1>10. SlotsHeld'
  <2>1. ASSUME NEW k \in Slots, sdu_states'[k] \in PdcpSns
        PROVE  sdu_states[k] \in PdcpSns /\ k # Slot(lsdu)
    <3>1. STATE_FREE \notin PdcpSns
      BY SnAssumption
    <3> QED
      BY <1>1, <1>2, <2>1, <3>1, Zenon
  <2>2. \A j \in 1 .. Len(Held) : Slot(Held[j]) # Slot(lsdu) => j - 1 \in 1 .. Len(Held') /\ Held'[j - 1] = Held[j]
    BY <1>6, <1>7, Zenon
  <2> QED
    BY <1>1, <2>1, <2>2, Zenon DEF BufferInv, SlotsHeld, HasSn, Slot
<1>a. Len(queue') <= Len(queue) /\ Len(queue') \in Nat
  BY <1>1, <1>2
<1>11. CASE sdu_states[Slot(lsdu)] = lsdu.sn
  <2>1. Valid(lsdu) /\ lpc # "sub" /\ lsize' = lsdu.size
    BY <1>1, <1>2, <1>11 DEF Valid
  <2> QED
    BY <1>1, <1>2, <1>4, <1>5, <1>6, <1>9, <1>10, <1>11, <1>a, <2>1, Taken, Zenon DEF BufferInv
<1>12. CASE sdu_states[Slot(lsdu)] # lsdu.sn
  <2>1. ~Valid(lsdu) /\ lpc # "sub" /\ lpc' = "again" /\ UNCHANGED out
    BY <1>1, <1>2, <1>4, <1>12 DEF Valid
  <2>2. Buffered' = Buffered
    BY <1>2, <1>5, <1>6, <1>9, <2>1, BufferedTakes, Zenon
  <2>b. lpc' # "sub"
    BY <2>1, Zenon
  <2>3. CounterExact' /\ Occupied' = Occupied
    BY <1>1, <2>1, <2>2, <2>b, Quiet, Zenon DEF BufferInv
  <2>4. RoomLeft'
    BY <1>1, <2>2, <2>3, <2>b, Zenon DEF BufferInv, RoomLeft
  <2> QED
    BY <1>1, <1>10, <2>1, <2>2, <2>3, <2>4, Stutters, Zenon DEF BufferInv
<1> QED
  BY <1>11, <1>12, Zenon

\* The lower thread's update of the counter settles what is due of the SDU it read.
LEMMA ReleaseSubKeeps ==
  ASSUME IndInv, BufferInv, ReleaseSub
  PROVE  BufferInv' /\ FifoStep
<1>1. /\ lpc = "sub" /\ lpc' = "idle" /\ state' = state_sub(lsize)
      /\ UNCHANGED <<queue, sdu_states, upc, usdu, gone, lsdu, lsize, out>>
  BY Zenon DEF ReleaseSub, upperLocal, IndInv, SlotOwnership
<1>2. UNCHANGED Held
  BY <1>1, Zenon DEF Held, InHand
<1>3. Buffered' = Buffered
  BY <1>1, <1>2, BufferedStays, Zenon
<1>4. CounterExact'
  <2> DEFINE c == -(Word + lsize)  n == Len(Buffered) * Word + Bytes(Buffered)
             a == Due(upc = "sub", usdu.size)  b == Due(upc = "add", usdu.size)
  <2>1. a' = a /\ b' = b /\ a \in Int /\ b \in Int
    BY <1>1, TotalTyped DEF Due
  <2>a. c \in Int /\ n \in Int /\ n' = n
    BY <1>3, TotalTyped
  <2>2. Total = n + (Word + lsize) + a - b /\ Total' = n' + 0 + a' - b'
    BY <1>1, Zenon DEF Total, Due
  <2> HIDE DEF a, b, n
  <2>3. Total' = Total + c
    BY <2>1, <2>a, <2>2, TotalTyped, SMTT(30)
  <2>4. state' = (state + c) % (Word * Word)
    <3>1. state \in Int
      BY WordAssumption DEF IndInv, TypeOK
    <3>2. state - Word - lsize = state + c
      BY <3>1, TotalTyped
    <3> QED
      BY <1>1, <3>2, Zenon DEF state_sub
  <2> HIDE DEF c
  <2> QED
    BY <2>a, <2>3, <2>4, CounterStep, Zenon DEF BufferInv
<1>5. Occupied' <= Occupied /\ Occupied' \in Nat /\ Occupied \in Nat
  BY <1>1, <1>3, TotalTyped DEF Occupied
<1>6. SlotsHeld'
  BY <1>1, <1>2, Zenon DEF BufferInv, SlotsHeld, HasSn, Slot
<1>7. RoomLeft'
  <2>1. Len(queue) <= Capacity /\ Occupied < ByteLimit /\ (upc \in {"slot", "alloc", "push"} => usdu.size + Occupied < ByteLimit)
    BY <1>1, Zenon DEF BufferInv, RoomLeft
  <2>2. Occupied' < ByteLimit /\ (upc \in {"slot", "alloc", "push"} => usdu.size + Occupied' < ByteLimit)
    BY <1>5, <2>1, LimitAssumption, TotalTyped, SMTT(30)
  <2> QED
    BY <1>1, <2>1, <2>2, Zenon DEF RoomLeft
<1> QED
  BY <1>1, <1>3, <1>4, <1>6, <1>7, Stutters, Zenon DEF BufferInv

\* A state in which nothing moves keeps the invariant and is a stutter of the FIFO.
LEMMA StutterKeeps ==
  ASSUME IndInv, BufferInv, UNCHANGED vars
  PROVE  BufferInv' /\ FifoStep
<1>1. UNCHANGED <<queue, sdu_states, sdu_sizes, state, upc, usdu, gone, lpc, lop, lsdu, lsize, out>>
  BY Zenon DEF vars
<1>2. UNCHANGED Held
  BY <1>1, Zenon DEF Held, InHand
<1>3. Buffered' = Buffered
  BY <1>1, <1>2, BufferedStays, Zenon
<1>4. UNCHANGED <<Total, Occupied>>
  BY <1>1, <1>3, Zenon DEF Total, Due, Occupied
<1> QED
  BY <1>1, <1>2, <1>3, <1>4, Stutters, Zenon DEF BufferInv, SlotsHeld, CounterExact, RoomLeft, HasSn, Slot

\* Every step of the two threads keeps the counters exact and is a step of the FIFO.
LEMMA NextKeeps ==
  ASSUME IndInv, BufferInv, [Next]_vars
  PROVE  BufferInv' /\ FifoStep
<1>1. CASE \E s \in Sdu : WriteBegin(s)
  BY <1>1, WriteBeginKeeps, Zenon
<1>2. CASE \E sn \in PdcpSns : DiscardExchange(sn)
  BY <1>2, DiscardKeeps, Zenon
<1>3. CASE UNCHANGED vars
  BY <1>3, StutterKeeps, Zenon
<1>4. CASE WriteSlot
  BY <1>4, WriteSlotKeeps, Zenon
<1>5. CASE WriteAlloc
  BY <1>5, WriteAllocKeeps, Zenon
<1>6. CASE WritePush
  BY <1>6, WritePushKeeps, Zenon
<1>7. CASE WriteUndo
  BY <1>7, WriteUndoKeeps, Zenon
<1>8. CASE WriteAdd \/ DiscardSub
  BY <1>8, UpperSettles, Zenon
<1>9. CASE ReadPop
  BY <1>9, ReadPopKeeps, Zenon
<1>10. CASE LoopEmpty \/ ReleaseLoad \/ FrontCheck
  BY <1>10, LookKeeps, Zenon
<1>11. CASE ReleaseExchange
  BY <1>11, ReleaseExchangeKeeps, Zenon
<1>12. CASE ReleaseSub
  BY <1>12, ReleaseSubKeeps, Zenon
<1>13. CASE FrontPop
  BY <1>13, FrontPopKeeps, Zenon
<1> QED
  BY <1>1, <1>2, <1>3, <1>4, <1>5, <1>6, <1>7, <1>8, <1>9, <1>10, <1>11, <1>12, <1>13, Zenon
     DEF Next, Upper, Lower

\* The queue starts empty, with a counter that says so.
LEMMA InitBuffer ==
  ASSUME Init
  PROVE  BufferInv /\ Fifo!AbsInit
<1>1. Held = <<>>
  BY DEF Init, Held, InHand
<1>2. Buffered = <<>> /\ Bytes(<<>>) = 0
  BY <1>1, KeptEmpty, Zenon DEF Buffered
<1>3. SlotsHeld
  <2>1. STATE_FREE \notin PdcpSns
    BY SnAssumption
  <2> QED
    BY <2>1, Zenon DEF Init, SlotsHeld
<1>4. upc = "idle" /\ lpc = "idle" /\ queue = <<>> /\ state = 0
  BY Zenon DEF Init
<1>5. CounterExact
  <2>1. Total = 0
    BY <1>2, <1>4, WordAssumption DEF Total, Due
  <2>2. 0 % (Word * Word) = 0
    <3>1. Word * Word \in Nat \ {0}
      BY WordAssumption
    <3> QED
      BY <3>1
  <2> QED
    BY <1>4, <2>1, <2>2 DEF CounterExact
<1>6. RoomLeft
  BY <1>2, <1>4, CapacityAssumption DEF RoomLeft
<1> QED
  BY <1>2, <1>3, <1>5, <1>6 DEF BufferInv, Fifo!AbsInit, Init

\* The invariant holds in every state of the two threads.
LEMMA BufferInvariant == Spec => [](IndInv /\ BufferInv)
<1>1. Init => IndInv /\ BufferInv
  BY InitIndInv, InitBuffer, Zenon
<1>2. IndInv /\ BufferInv /\ [Next]_vars => (IndInv /\ BufferInv)'
  BY NextTypeOK, NextSlotOwnership, NextKeeps, Zenon DEF IndInv
<1> QED
  BY <1>1, <1>2, PTL DEF Spec

\* Whenever the upper thread is between calls and the lower thread has no subtraction left,
\* get_state() gives the number and the bytes of the buffered SDUs that are not discarded,
\* for every capacity, byte limit and word size and every interleaving.
THEOREM QuiescentStateExactHolds == Spec => []QuiescentStateExact
<1>1. IndInv /\ BufferInv => QuiescentStateExact
  <2> SUFFICES ASSUME IndInv, BufferInv, upc = "idle", lpc \in {"idle", "again", "load", "frontPop"}
               PROVE  n_sdus = Len(Buffered) /\ n_bytes = Bytes(Buffered)
    BY Zenon DEF QuiescentStateExact
  <2>1. n_bytes = Occupied /\ n_sdus = Len(Buffered) + (IF lpc = "sub" THEN 1 ELSE 0)
    BY CounterReads, Zenon DEF BufferInv
  <2> QED
    BY <2>1, TotalTyped DEF Occupied
<1> QED
  BY <1>1, BufferInvariant, PTL

\* The bytes buffered stay below the limit at every instant, although write() compares
\* the limit with a counter it read before the lower thread moved on.
THEOREM ByteLimitRespectedHolds == Spec => []ByteLimitRespected
<1>1. IndInv /\ BufferInv => ByteLimitRespected
  <2> SUFFICES ASSUME IndInv, BufferInv, Buffered # <<>>
               PROVE  Bytes(Buffered) < ByteLimit
    BY Zenon DEF ByteLimitRespected
  <2>1. Occupied < ByteLimit
    BY Zenon DEF BufferInv, RoomLeft
  <2> QED
    BY <2>1, TotalTyped, LimitAssumption DEF Occupied
<1> QED
  BY <1>1, BufferInvariant, PTL

\* The lock-free queue implements RlcSduFifo: what read() returns leaves the front of the
\* sequence of valid SDUs, a successful discard removes its SDU wherever it is, and
\* every other step of the two threads leaves that sequence as it is.
THEOREM RefinesFifoHolds == Spec => RefinesFifo
<1>1. Init => Fifo!AbsInit
  BY InitBuffer, Zenon
<1>2. IndInv /\ BufferInv /\ [Next]_vars => [Fifo!AbsNext]_(Fifo!absVars)
  BY NextKeeps, Zenon DEF FifoStep
<1> QED
  BY <1>1, <1>2, BufferInvariant, PTL DEF Spec, RefinesFifo, Fifo!AbsSpec

=============================================================================
