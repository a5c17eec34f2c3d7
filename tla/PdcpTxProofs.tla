----------------------------- MODULE PdcpTxProofs -----------------------------
(***************************************************************************)
(* The transmitting PDCP entity submits PDUs in order, protects no COUNT   *)
(* twice with a key, discards in time and never waits without a timer, for *)
(* every window size, discard time and number of SDUs.                     *)
(***************************************************************************)
EXTENDS PdcpTxWindowProofs

-----------------------------------------------------------------------------
\* Key changes and recovery.

\* What holds of an entity that is not being released, when nothing is protected yet
\* with the current key.
Fresh(r) ==
  r \in Tx /\ Ordered(r) /\ Pooled(r, {}) /\ (finite => Timed(r) /\ Headed(r))

\* Buffered SDUs enter the window one after the other.
LEMMA EnqueueOK ==
  ASSUME NEW r, Fresh(r), NEW buffer \in Seq(Nat), NEW refused
  PROVE  Fresh(EnqueueLoop(r, buffer, refused)[Len(buffer)])
<1> DEFINE n == Len(buffer)
           S == {x \in Tx : Fresh(x)}
           Step(x, i) == IF Accepted(x) THEN accept_sdu(x, buffer[i], refused[i]) ELSE x
           g == [x \in (1 .. n) \X S |-> Step(x[2], x[1])]
           Def(f) == [i \in 0 .. n |-> IF i = 0 THEN r ELSE Step(f[i - 1], i)]
           L == EnqueueLoop(r, buffer, refused)
<1>1. n \in Nat /\ \A i \in 1 .. n : buffer[i] \in Nat
  OBVIOUS
<1>2. r \in S
  BY Zenon DEF Fresh
<1>3. ASSUME NEW i \in 1 .. n, NEW x \in S PROVE Step(x, i) \in S
  <2>1. CASE Accepted(x)
    <3> DEFINE e == accept_sdu(x, buffer[i], refused[i])
    <3>1. x \in Tx /\ Ordered(x) /\ Pooled(x, {}) /\ (finite => Timed(x) /\ Headed(x))
      BY Zenon DEF Fresh
    <3>2. /\ e \in Tx /\ Ordered(e)
          /\ finite /\ Timed(x) /\ Headed(x) => Timed(e) /\ Headed(e)
          /\ \A done : Pooled(x, done) => Pooled(e, done)
      BY <1>1, <2>1, <3>1, AcceptOK, Zenon
    <3> HIDE DEF e
    <3>3. Fresh(e)
      BY <3>1, <3>2, Zenon DEF Fresh
    <3> QED
      BY <2>1, <3>2, <3>3, Zenon DEF e
  <2>2. CASE ~Accepted(x)
    BY <2>2, Zenon
  <2> QED
    BY <2>1, <2>2, Zenon
<1>4. L = CHOOSE f : f = Def(f)
  BY Zenon DEF EnqueueLoop
<1> HIDE DEF Step, S, n
<1>5. g \in [(1 .. n) \X S -> S] /\ \A i \in 1 .. n, x \in S : g[<<i, x>>] = Step(x, i)
  BY <1>3, Zenon
<1> HIDE DEF g
<1>6. PICK f \in [0 .. n -> S] : Solves(f, n, r, g)
  BY <1>1, <1>2, <1>5, RecursionExists, Zenon
<1>7. f = Def(f)
  <2>1. \A i \in 1 .. n : f[i] = Step(f[i - 1], i)
    <3>1. ASSUME NEW i \in 1 .. n PROVE i - 1 \in 0 .. n /\ f[i - 1] \in S
      BY <1>1, <1>6
    <3> QED
      BY <1>5, <1>6, <3>1, Zenon DEF Solves
  <2>2. f[0] = r
    BY <1>6, Zenon DEF Solves
  <2>3. \A i \in 0 .. n : f[i] = IF i = 0 THEN r ELSE Step(f[i - 1], i)
    BY <1>1, <2>1, <2>2
  <2> QED
    BY <1>6, <2>3, Zenon
<1>8. L = Def(L)
  <2> HIDE DEF Def, L
  <2> QED
    BY <1>4, <1>7, Zenon
<1> HIDE DEF L
<1>9. L[0] = r /\ \A i \in 1 .. n : L[i] = Step(L[i - 1], i)
  BY <1>1, <1>8
<1> HIDE DEF Def
<1> DEFINE T == {i \in 0 .. n : L[i] \in S}
<1>10. 0 .. n \subseteq T
  <2>1. 0 \in T
    BY <1>1, <1>2, <1>9
  <2>2. ASSUME NEW i \in 1 .. n, i - 1 \in T PROVE i \in T
    BY <1>3, <1>9, <2>2
  <2> HIDE DEF T
  <2> QED
    BY <1>1, <2>1, <2>2, Induction, Zenon
<1>11. L[n] \in S
  BY <1>1, <1>10
<1> QED
  BY <1>11, Zenon DEF S, L, n

-----------------------------------------------------------------------------
\* Retransmission and re-establishment.

\* A window without elements.
LEMMA EmptyWindow == <<>> \in Windows /\ DOMAIN <<>> = {}
<1>1. DOMAIN <<>> = {} /\ <<>> \in [{} -> Element] /\ {} \in SUBSET Nat
  OBVIOUS
<1> QED
  BY <1>1, IsWindow, Zenon

\* The SDUs of the window are sent again, in a new round.
LEMMA RetransmitOK ==
  ASSUME NEW r \in Tx, Ordered(r), NEW R
  PROVE  LET e == retransmit_all_pdus(r, R) IN
         /\ e \in Tx /\ Ordered(e) /\ r.tasks \subseteq e.tasks
         /\ Timed(r) => Timed(e)
         /\ Headed(r) => Headed(e)
         /\ DOMAIN e.window = DOMAIN r.window
         /\ \A done : Pooled(r, done) => Pooled(e, done)
<1> DEFINE m == r.retransmit_id + 1
           s == [r EXCEPT !.tx_trans = r.tx_next_ack, !.tx_trans_crypto = r.tx_next_ack,
                          !.retransmit_id = m, !.last = -1]
           again == {c \in DOMAIN r.window : r.tx_next_ack <= c /\ c < r.tx_next} \ R
           Job(c) == [count |-> c, sdu |-> r.window[c].sdu, retx_id |-> s.retransmit_id,
                      secured |-> FALSE]
           j == [c \in again |-> Job(c)]
           J == {Job(c) : c \in again}
           K == s.tasks \cup J
           e == retransmit_all_pdus(r, R)
<1>1. /\ r.tx_next \in Nat /\ r.tx_next_ack \in Nat /\ r.tx_next_ack <= r.tx_next
      /\ DOMAIN r.window \subseteq r.tx_next_ack .. r.tx_next - 1
      /\ DOMAIN r.window \in SUBSET Nat
      /\ r.retransmit_id \in Nat /\ r.tasks \in SUBSET Task
      /\ \A c \in DOMAIN r.window : r.window[c].sdu \in Nat /\ r.window[c].pdu \in Int
  BY TxFacts, WindowFacts, Zenon DEF Ordered
<1>2. e = [s EXCEPT !.tasks = K]
  BY Zenon DEF retransmit_all_pdus
<1>3. m \in Nat /\ -1 \in Int /\ -1 < r.tx_next_ack
  BY <1>1
<1> HIDE DEF e, m
<1>4. /\ s \in Tx /\ s.tasks = r.tasks
      /\ s.tx_next = r.tx_next /\ s.tx_trans_crypto = r.tx_next_ack
      /\ s.tx_reord_crypto = r.tx_reord_crypto /\ s.tx_next_ack = r.tx_next_ack
      /\ s.crypto_reordering_timer = r.crypto_reordering_timer
      /\ s.retransmit_id = m
      /\ s.last = -1 /\ s.disorder = r.disorder /\ s.window = r.window
      /\ s.failed = r.failed /\ s.discard_timer = r.discard_timer /\ s.late = r.late
  BY <1>1, <1>3, Zenon DEF Tx
<1> HIDE DEF s
<1>5. again \subseteq DOMAIN r.window
  OBVIOUS
<1> HIDE DEF again
<1>6. \A u \in J : /\ u \in Task /\ u.count \in again /\ u.sdu = r.window[u.count].sdu
                   /\ u.retx_id = m /\ ~u.secured
  <2>1. ASSUME NEW c \in again
        PROVE  /\ Job(c) \in Task /\ Job(c).count = c /\ Job(c).sdu = r.window[c].sdu
               /\ Job(c).retx_id = m /\ ~Job(c).secured
    <3>1. c \in Nat /\ r.window[c].sdu \in Nat
      BY <1>1, <1>5, Zenon
    <3> QED
      BY <1>3, <1>4, <3>1, Zenon DEF Task
  <2> HIDE DEF Job
  <2> TAKE u \in J
  <2>2. PICK c \in again : u = Job(c)
    OBVIOUS
  <2> QED
    BY <2>1, <2>2, Zenon
<1>7. IsFiniteSet(J)
  <2>1. IsFiniteSet(again)
    <3>1. IsFiniteSet(r.tx_next_ack .. r.tx_next - 1)
      <4>1. r.tx_next_ack \in Int /\ r.tx_next - 1 \in Int
        BY <1>1
      <4> QED
        BY <4>1, FS_Interval, Zenon
    <3>2. again \subseteq r.tx_next_ack .. r.tx_next - 1
      BY <1>1, <1>5, Zenon
    <3> QED
      BY <3>1, <3>2, FS_Subset, Zenon
  <2>2. j \in Surjection(again, J)
    <3>1. j \in [again -> J] /\ \A u \in J : \E c \in again : j[c] = u
      BY Zenon
    <3> QED
      BY <3>1, Zenon DEF Surjection
  <2> HIDE DEF j, J
  <2> QED
    BY <2>1, <2>2, FS_Surjection, Zenon
<1>8. \A u, v \in J : u.count = v.count => u = v
  <2>1. \A c : Job(c).count = c
    OBVIOUS
  <2> HIDE DEF Job
  <2> TAKE u, v \in J
  <2>2. PICK c \in again : u = Job(c)
    OBVIOUS
  <2>3. PICK d \in again : v = Job(d)
    OBVIOUS
  <2> QED
    BY <2>1, <2>2, <2>3
<1> HIDE DEF J
<1>9. K = r.tasks \cup J /\ K \in SUBSET Task
  BY <1>1, <1>4, <1>6, Zenon
<1> HIDE DEF K
<1>10. /\ e \in Tx /\ e.tasks = K
       /\ e.tx_next = r.tx_next /\ e.tx_trans_crypto = r.tx_next_ack
       /\ e.tx_reord_crypto = r.tx_reord_crypto /\ e.tx_next_ack = r.tx_next_ack
       /\ e.crypto_reordering_timer = r.crypto_reordering_timer
       /\ e.retransmit_id = m
       /\ e.last = -1 /\ e.disorder = r.disorder /\ e.window = r.window
       /\ e.failed = r.failed /\ e.discard_timer = r.discard_timer /\ e.late = r.late
  <2>1. /\ e \in Tx /\ e.tasks = K
        /\ e.tx_next = s.tx_next /\ e.tx_trans_crypto = s.tx_trans_crypto
        /\ e.tx_reord_crypto = s.tx_reord_crypto /\ e.tx_next_ack = s.tx_next_ack
        /\ e.crypto_reordering_timer = s.crypto_reordering_timer
        /\ e.retransmit_id = s.retransmit_id
        /\ e.last = s.last /\ e.disorder = s.disorder /\ e.window = s.window
        /\ e.failed = s.failed /\ e.discard_timer = s.discard_timer /\ e.late = s.late
    BY <1>2, <1>4, <1>9, Zenon DEF Tx
  <2> QED
    BY <1>4, <2>1, Zenon
<1>11. \A c \in DOMAIN r.window : r.window[c].pdu < m
  BY <1>1 DEF Ordered, m
<1>12. Ordered(e)
  <2>1. \A c \in DOMAIN r.window : r.window[c].pdu <= m /\ r.window[c].pdu # m
    BY <1>1, <1>3, <1>11
  <2>2. Watched(e)
    BY <1>10, <2>1, Zenon DEF Watched, Waiting, has_sn
  <2> QED
    BY <1>1, <1>3, <1>10, <2>1, <2>2, Zenon DEF Ordered
<1>13. Timed(r) => Timed(e)
  BY <1>10, Zenon DEF Timed
<1>14. Headed(r) => Headed(e)
  BY <1>10, Zenon DEF Headed
<1>15. ASSUME NEW done, Pooled(r, done) PROVE Pooled(e, done)
  <2>1. Used(e, done) \subseteq Used(r, done)
    <3> DEFINE W == {<<c, r.window[c].sdu>> : c \in DOMAIN r.window}
    <3>1. Used(e, done) = done \cup {<<u.count, u.sdu>> : u \in r.tasks \cup J} \cup W
      BY <1>9, <1>10, Zenon DEF Used
    <3>2. \A u \in J : <<u.count, u.sdu>> \in W
      BY <1>5, <1>6, Zenon
    <3>3. Used(r, done) = done \cup {<<u.count, u.sdu>> : u \in r.tasks} \cup W
      BY Zenon DEF Used
    <3> HIDE DEF W
    <3> QED
      BY <3>1, <3>2, <3>3, Zenon
  <2>2. IsFiniteSet(e.tasks)
    <3>1. IsFiniteSet(r.tasks)
      BY <1>15, Zenon DEF Pooled
    <3>2. IsFiniteSet(r.tasks \cup J)
      BY <1>7, <3>1, FS_Union, Zenon
    <3> QED
      BY <1>9, <1>10, <3>2, Zenon
  <2>3. ASSUME NEW u \in r.tasks
        PROVE  u.count < r.tx_next /\ u.retx_id <= m /\ u.retx_id # m
    <3>1. u.count < r.tx_next /\ u.retx_id <= r.retransmit_id /\ u.retx_id \in Nat
      BY <1>1, <1>15, Zenon DEF Pooled, Task
    <3> QED
      BY <1>1, <3>1 DEF m
  <2>4. ASSUME NEW u \in J
        PROVE  u.count < r.tx_next /\ u.retx_id <= m
    <3>1. u.count \in DOMAIN r.window /\ u.retx_id = m
      BY <1>5, <1>6, Zenon
    <3> QED
      BY <1>1, <1>3, <3>1
  <2>5. \A u \in e.tasks : u.count < e.tx_next /\ u.retx_id <= e.retransmit_id
    BY <1>9, <1>10, <2>3, <2>4, Zenon
  <2>6. \A u, v \in e.tasks : u.count = v.count /\ u.retx_id = v.retx_id => u = v
    <3>1. \A u, v \in r.tasks : u.count = v.count /\ u.retx_id = v.retx_id => u = v
      BY <1>15, Zenon DEF Pooled
    <3>2. (\A u \in J : u.retx_id = m) /\ (\A u \in r.tasks : u.retx_id # m)
          /\ e.tasks = r.tasks \cup J
      BY <1>6, <1>9, <1>10, <2>3, Zenon
    <3> QED
      BY <1>8, <3>1, <3>2, Zenon
  <2> QED
    BY <1>10, <1>15, <2>1, <2>2, <2>5, <2>6, Zenon DEF Pooled
<1> QED
  BY <1>9, <1>10, <1>12, <1>13, <1>14, <1>15 DEF e

\* State and window start over.
LEMMA ResetOK ==
  ASSUME NEW r \in Tx, r.tasks = {}, Ordered(r)
  PROVE  /\ reset(r) \in Tx /\ Ordered(reset(r)) /\ Pooled(reset(r), {})
         /\ Timed(r) => Timed(reset(r))
         /\ Headed(reset(r))
<1> DEFINE e == reset(r)
<1>1. /\ e.tx_next = 0 /\ e.tx_trans_crypto = 0 /\ e.tx_reord_crypto = 0 /\ e.tx_trans = 0
      /\ e.tx_next_ack = 0 /\ e.window = <<>> /\ e.discard_timer = r.discard_timer /\ e.late = r.late
      /\ e.crypto_reordering_timer = r.crypto_reordering_timer
      /\ e.retransmit_id = r.retransmit_id /\ e.tasks = {} /\ e.submitted = {} /\ e.last = -1
      /\ e.disorder = r.disorder /\ e.failed = r.failed
  BY Zenon DEF reset, InitialTx
<1> DEFINE i == InitialTx(0)
<1>2. e = [i EXCEPT !.discard_timer = r.discard_timer, !.late = r.late,
                    !.crypto_reordering_timer = r.crypto_reordering_timer,
                    !.retransmit_id = r.retransmit_id, !.tasks = r.tasks,
                    !.disorder = r.disorder, !.failed = r.failed]
  BY Zenon DEF reset
<1> HIDE DEF e
<1>3. DOMAIN e.window = {} /\ e.window \in Windows
  BY <1>1, EmptyWindow, Zenon
<1>4. e \in Tx
  <2>1. i \in Tx
    <3>1. 0 \in Nat /\ -1 \in Int /\ Off \in Nat \cup {Off} /\ "no" \in {"no", "window", "timer", "loop"}
      OBVIOUS
    <3>2. <<>> \in Windows
      BY EmptyWindow, Zenon
    <3> QED
      BY <3>1, <3>2, Zenon DEF InitialTx, Tx
  <2> HIDE DEF i
  <2>2. /\ r.discard_timer \in Nat \cup {Off} /\ r.crypto_reordering_timer \in BOOLEAN
        /\ r.late \in Nat /\ r.retransmit_id \in Nat /\ r.tasks \in SUBSET Task
        /\ r.disorder \in BOOLEAN /\ r.failed \in {"no", "window", "timer", "loop"}
    BY TxFacts, Zenon
  <2> QED
    BY <1>2, <2>1, <2>2, Zenon DEF Tx
<1>5. Watched(e)
  BY <1>3, Zenon DEF Watched, Waiting, has_sn
<1>6. Ordered(e)
  <2>1. /\ e.tx_next_ack <= e.tx_next /\ e.tx_trans_crypto <= e.tx_next
        /\ e.tx_reord_crypto <= e.tx_next /\ e.last < e.tx_trans_crypto /\ ~e.disorder
    BY <1>1 DEF Ordered
  <2> QED
    BY <1>3, <1>5, <2>1, Zenon DEF Ordered
<1>7. Timed(r) => Timed(e)
  BY <1>1, <1>3, Zenon DEF Timed
<1>8. Headed(e)
  BY <1>1, Zenon DEF Headed
<1>9. Pooled(e, {})
  <2>1. Used(e, {}) = {}
    BY <1>1, <1>3, Zenon DEF Used
  <2>2. IsFiniteSet(e.tasks)
    BY <1>1, FS_EmptySet, Zenon
  <2> QED
    BY <1>1, <2>1, <2>2, Zenon DEF Pooled
<1> QED
  BY <1>4, <1>6, <1>7, <1>8, <1>9, Zenon DEF e


-----------------------------------------------------------------------------
\* The steps of the entity.

\* A step that changes nothing but the state of the entity, and no tasks.
LEMMA EntityStep ==
  ASSUME IndInv,
         UNCHANGED <<cfg, token_mngr, key, buffering, sdu_buffer, stopped, pc, sdus, protected>>,
         tx' \in Tx, Ordered(tx'), Pooled(tx', protected),
         finite => (Timed(tx) => Timed(tx')) /\ (Headed(tx) => Headed(tx')),
         tx'.tasks = tx.tasks, DOMAIN tx'.window \subseteq DOMAIN tx.window
  PROVE  IndInv'
<1>1. Counted'
  BY Zenon DEF IndInv, Counted
<1>2. Controlled'
  BY Zenon DEF IndInv, Controlled
<1>3. finite' = finite
  BY Zenon DEF finite
<1> QED
  BY <1>1, <1>2, <1>3, Zenon DEF IndInv

\* The tasks in the pool after some were added.
LEMMA Grown ==
  ASSUME NEW S, NEW T, S \subseteq T, IsFiniteSet(T)
  PROVE  Cardinality(T) \in Nat /\ Cardinality(T) = Cardinality(S) + Cardinality(T \ S)
<1>1. IsFiniteSet(S) /\ IsFiniteSet(T \ S)
  BY FS_Subset, Zenon
<1>2. S \cup (T \ S) = T /\ S \cap (T \ S) = {}
  OBVIOUS
<1>3. Cardinality(S \cup (T \ S)) = Cardinality(S) + Cardinality(T \ S) - Cardinality(S \cap (T \ S))
  BY <1>1, FS_Union, Zenon
<1>4. Cardinality({}) = 0
  BY FS_EmptySet, Zenon
<1>5. Cardinality(S) \in Nat /\ Cardinality(T \ S) \in Nat /\ Cardinality(T) \in Nat
  BY <1>1, FS_CardinalityType, Zenon
<1> QED
  BY <1>2, <1>3, <1>4, <1>5

\* A task leaves the pool and gives its token back.
LEMMA TaskLeaves ==
  ASSUME IndInv, NEW t \in tx.tasks, tx'.tasks = tx.tasks \ {t}, pc' = pc,
         token_mngr' = return_token(token_mngr)
  PROVE  Counted'
<1> DEFINE n == Cardinality(tx.tasks)
           m == token_mngr.tokens
<1>1. IsFiniteSet(tx.tasks)
  BY Zenon DEF IndInv, Pooled
<1>2. n \in Nat /\ n # 0 /\ Cardinality(tx'.tasks) = n - 1 /\ IsFiniteSet(tx'.tasks)
  <2>1. n \in Nat
    BY <1>1, FS_CardinalityType, Zenon
  <2>2. n # 0
    BY <1>1, FS_EmptySet, Zenon
  <2>3. Cardinality(tx.tasks \ {t}) = n - 1 /\ IsFiniteSet(tx.tasks \ {t})
    BY <1>1, FS_RemoveElement, Zenon
  <2> QED
    BY <2>1, <2>2, <2>3, Zenon
<1>3. n - 1 = 0 => tx'.tasks = {}
  BY <1>2, FS_EmptySet, Zenon
<1> HIDE DEF n
<1>4. /\ m \in Int /\ token_mngr.pending_crypto \in BOOLEAN
      /\ pc = "idle" => m = n /\ ~token_mngr.pending_crypto
      /\ pc # "idle" => m = n - 1 /\ ~token_mngr.pending_crypto
  BY Zenon DEF IndInv, Counted, Manager, n
<1>5. /\ token_mngr'.tokens = m - 1
      /\ token_mngr'.pending_crypto = (token_mngr.pending_crypto \/ m = 0)
      /\ token_mngr' \in Manager
  <2>1. m - 1 \in Int
    BY <1>4
  <2>2. (token_mngr.pending_crypto \/ m = 0) \in BOOLEAN
    OBVIOUS
  <2> QED
    BY <2>1, <2>2, Zenon DEF return_token, Manager
<1> HIDE DEF m
<1>6. /\ pc = "idle" => token_mngr'.tokens = n - 1 /\ ~token_mngr'.pending_crypto
      /\ pc # "idle" => /\ token_mngr'.tokens = (n - 1) - 1
                        /\ token_mngr'.pending_crypto => n - 1 = 0
  BY <1>2, <1>4, <1>5, Zenon
<1> QED
  BY <1>2, <1>3, <1>5, <1>6, Zenon DEF Counted

\* Tasks are added, each with a token, while no procedure waits for the pool.
LEMMA TasksAdded ==
  ASSUME IndInv, pc = "idle", pc' = pc, tx.tasks \subseteq tx'.tasks, IsFiniteSet(tx'.tasks),
         token_mngr' = TokensFor(token_mngr, tx')
  PROVE  Counted'
<1> DEFINE n == Cardinality(tx.tasks)
           k == Cardinality(tx'.tasks \ tx.tasks)
<1>1. Cardinality(tx'.tasks) = n + k /\ n + k \in Nat
  BY Grown, Zenon
<1>2. n \in Nat /\ k \in Nat
  <2>1. IsFiniteSet(tx.tasks) /\ IsFiniteSet(tx'.tasks \ tx.tasks)
    BY FS_Subset, Zenon
  <2> QED
    BY <2>1, FS_CardinalityType, Zenon
<1>3. token_mngr \in Manager /\ token_mngr.tokens = n /\ ~token_mngr.pending_crypto
  BY Zenon DEF IndInv, Counted
<1>4. token_mngr' = [token_mngr EXCEPT !.tokens = token_mngr.tokens + k]
  BY Zenon DEF TokensFor, increment_tokens
<1> HIDE DEF n, k
<1>5. token_mngr.tokens + k \in Int
  BY <1>2, <1>3
<1>6. /\ token_mngr' \in Manager /\ token_mngr'.tokens = token_mngr.tokens + k
      /\ ~token_mngr'.pending_crypto
  BY <1>3, <1>4, <1>5, Zenon DEF Manager
<1> QED
  BY <1>1, <1>3, <1>6, Zenon DEF Counted

\* An SDU arrives.
LEMMA ArrivalStep ==
  ASSUME IndInv, handle_sdu \/ handle_sdu_buffered
  PROVE  IndInv'
<1>1. CASE handle_sdu
  <2>1. PICK refused \in BOOLEAN : tx' = accept_sdu(tx, sdus, refused)
    BY <1>1, Zenon DEF handle_sdu
  <2>2. /\ tx \in Tx /\ Ordered(tx) /\ Accepted(tx) /\ sdus \in Nat /\ ~stopped /\ pc = "idle"
        /\ Pooled(tx, protected) /\ (finite => Timed(tx) /\ Headed(tx))
    BY <1>1, Zenon DEF handle_sdu, IndInv, Controlled
  <2>3. /\ tx' \in Tx /\ Ordered(tx') /\ tx.tasks \subseteq tx'.tasks
        /\ finite /\ Timed(tx) /\ Headed(tx) => Timed(tx') /\ Headed(tx')
        /\ Pooled(tx', protected)
    BY <2>1, <2>2, AcceptOK, Zenon
  <2>4. /\ UNCHANGED <<cfg, key, buffering, sdu_buffer, stopped, pc, protected>>
        /\ sdus' = sdus + 1 /\ token_mngr' = TokensFor(token_mngr, tx')
    BY <1>1, Zenon DEF handle_sdu
  <2>5. Counted'
    <3>1. IsFiniteSet(tx'.tasks)
      BY <2>3, Zenon DEF Pooled
    <3> QED
      BY <2>2, <2>3, <2>4, <3>1, TasksAdded, ZenonT(30)
  <2>6. Controlled'
    BY <2>2, <2>4 DEF IndInv, Controlled
  <2>7. finite' = finite
    BY <2>4, Zenon DEF finite
  <2> QED
    BY <2>2, <2>3, <2>4, <2>5, <2>6, <2>7 DEF IndInv
<1>2. CASE handle_sdu_buffered
  <2>1. /\ UNCHANGED <<cfg, tx, token_mngr, key, buffering, stopped, pc, protected>>
        /\ sdus' = sdus + 1 /\ sdu_buffer' = Append(sdu_buffer, sdus)
    BY <1>2, Zenon DEF handle_sdu_buffered
  <2>2. Counted'
    BY <2>1, Zenon DEF IndInv, Counted
  <2>3. Controlled'
    BY <2>1 DEF IndInv, Controlled
  <2>4. finite' = finite
    BY <2>1, Zenon DEF finite
  <2> QED
    BY <2>1, <2>2, <2>3, <2>4, Zenon DEF IndInv
<1> QED
  BY <1>1, <1>2, Zenon

\* What is left of an entity when a task leaves the pool.
LEMMA WithoutTask ==
  ASSUME NEW r \in Tx, Ordered(r), NEW t \in r.tasks
  PROVE  LET e == [r EXCEPT !.tasks = r.tasks \ {t}] IN
         /\ e \in Tx /\ Ordered(e) /\ Sound(e)
         /\ e.tasks = r.tasks \ {t} /\ e.window = r.window /\ e.tx_next = r.tx_next
         /\ e.retransmit_id = r.retransmit_id
         /\ Timed(r) => Timed(e)
         /\ Headed(r) => Headed(e)
         /\ \A done : Pooled(r, done) => Pooled(e, done)
<1> DEFINE K == r.tasks \ {t}
           e == [r EXCEPT !.tasks = K]
<1>1. K \in SUBSET Task /\ K \subseteq r.tasks
  BY TxFacts, Zenon
<1> HIDE DEF K
<1>2. /\ e \in Tx /\ e.tasks = K
      /\ e.tx_next = r.tx_next /\ e.tx_trans_crypto = r.tx_trans_crypto
      /\ e.tx_reord_crypto = r.tx_reord_crypto /\ e.tx_next_ack = r.tx_next_ack
      /\ e.crypto_reordering_timer = r.crypto_reordering_timer
      /\ e.retransmit_id = r.retransmit_id
      /\ e.last = r.last /\ e.disorder = r.disorder /\ e.window = r.window
      /\ e.failed = r.failed /\ e.discard_timer = r.discard_timer /\ e.late = r.late
  BY <1>1, Zenon DEF Tx
<1> HIDE DEF e
<1>3. Ordered(e)
  BY <1>2, Zenon DEF Ordered, Watched, Waiting, has_sn
<1>4. Sound(e)
  BY <1>3, Zenon DEF Ordered, Sound
<1>5. Timed(r) => Timed(e)
  BY <1>2, Zenon DEF Timed
<1>6. Headed(r) => Headed(e)
  BY <1>2, Zenon DEF Headed
<1>7. ASSUME NEW done, Pooled(r, done) PROVE Pooled(e, done)
  <2>1. Used(e, done) \subseteq Used(r, done)
    BY <1>1, <1>2, Zenon DEF Used
  <2>2. IsFiniteSet(e.tasks)
    BY <1>1, <1>2, <1>7, FS_Subset, SMTT(30) DEF Pooled
  <2> QED
    BY <1>1, <1>2, <1>7, <2>1, <2>2, Zenon DEF Pooled
<1> QED
  BY <1>2, <1>3, <1>4, <1>5, <1>6, <1>7 DEF e, K


\* A worker protects an SDU.
LEMMA SecurityStep ==
  ASSUME IndInv, NEW t \in tx.tasks, apply_security(t)
  PROVE  IndInv'
<1> DEFINE u == [t EXCEPT !.secured = TRUE]
           K == (tx.tasks \ {t}) \cup {u}
<1>1. /\ tx \in Tx /\ Ordered(tx) /\ Pooled(tx, protected) /\ t \in Task
      /\ tx.tasks \in SUBSET Task
  BY TxFacts, Zenon DEF IndInv
<1>2. /\ ~t.secured /\ protected' = protected \cup {<<t.count, t.sdu>>}
      /\ tx' = [tx EXCEPT !.tasks = K]
      /\ UNCHANGED <<cfg, token_mngr, key, buffering, sdu_buffer, stopped, pc, sdus>>
  BY Zenon DEF apply_security
<1>3. /\ u \in Task /\ u.count = t.count /\ u.sdu = t.sdu /\ u.retx_id = t.retx_id /\ u.secured
      /\ t.count \in Nat /\ t.sdu \in Nat
  BY <1>1, Zenon DEF Task
<1> HIDE DEF u
<1>4. u \notin tx.tasks
  BY <1>1, <1>2, <1>3, Zenon DEF Pooled
<1>5. K \in SUBSET Task
  BY <1>1, <1>3, Zenon
<1> DEFINE e == [tx EXCEPT !.tasks = K]
<1>6. /\ e \in Tx /\ e.tasks = K
      /\ e.tx_next = tx.tx_next /\ e.tx_trans_crypto = tx.tx_trans_crypto
      /\ e.tx_reord_crypto = tx.tx_reord_crypto /\ e.tx_next_ack = tx.tx_next_ack
      /\ e.crypto_reordering_timer = tx.crypto_reordering_timer
      /\ e.retransmit_id = tx.retransmit_id
      /\ e.last = tx.last /\ e.disorder = tx.disorder /\ e.window = tx.window
      /\ e.failed = tx.failed /\ e.discard_timer = tx.discard_timer /\ e.late = tx.late
  <2> HIDE DEF K
  <2> QED
    BY <1>1, <1>5, Zenon DEF Tx
<1>7. tx' = e
  BY <1>2, Zenon
<1> HIDE DEF e
<1>8. Ordered(e)
  BY <1>1, <1>6, Zenon DEF Ordered, Watched, Waiting, has_sn
<1>9. (Timed(tx) => Timed(e)) /\ (Headed(tx) => Headed(e))
  BY <1>6, Zenon DEF Timed, Headed
<1>10. IsFiniteSet(K) /\ Cardinality(K) = Cardinality(tx.tasks)
  <2> DEFINE n == Cardinality(tx.tasks)
  <2>1. IsFiniteSet(tx.tasks)
    BY <1>1, Zenon DEF Pooled
  <2>2. n \in Nat
    BY <2>1, FS_CardinalityType, Zenon
  <2>3. IsFiniteSet(tx.tasks \ {t}) /\ Cardinality(tx.tasks \ {t}) = n - 1
    BY <2>1, FS_RemoveElement, Zenon
  <2>4. u \notin tx.tasks \ {t}
    BY <1>4, Zenon
  <2>5. IsFiniteSet(K) /\ Cardinality(K) = Cardinality(tx.tasks \ {t}) + 1
    BY <2>3, <2>4, FS_AddElement, Zenon
  <2> HIDE DEF K, n
  <2>6. Cardinality(K) = n
    BY <2>2, <2>3, <2>5
  <2> QED
    BY <2>5, <2>6, Zenon DEF n
<1>11. Pooled(e, protected')
  <2>1. <<t.count, t.sdu>> \in Used(tx, protected)
    BY Zenon DEF Used
  <2>2. Used(e, protected') \subseteq Used(tx, protected)
    <3> DEFINE W == {<<c, tx.window[c].sdu>> : c \in DOMAIN tx.window}
    <3>1. Used(e, protected') = protected' \cup {<<v.count, v.sdu>> : v \in K} \cup W
      BY <1>6, Zenon DEF Used
    <3>2. Used(tx, protected) = protected \cup {<<v.count, v.sdu>> : v \in tx.tasks} \cup W
      BY Zenon DEF Used
    <3>3. \A v \in K : <<v.count, v.sdu>> \in Used(tx, protected)
      BY <1>3, <2>1, <3>2, Zenon
    <3> HIDE DEF W, K
    <3>4. {<<v.count, v.sdu>> : v \in K} \subseteq Used(tx, protected)
      BY <3>3, Zenon
    <3>5. protected' \subseteq Used(tx, protected)
      BY <1>2, <2>1, <3>2, Zenon
    <3> QED
      BY <3>1, <3>2, <3>4, <3>5, Zenon
  <2>3. \A p, q \in Used(e, protected') : p[1] = q[1] => p[2] = q[2]
    BY <1>1, <2>2, Zenon DEF Pooled
  <2>4. protected' \subseteq (0 .. e.tx_next - 1) \X Nat
    <3>1. t.count < tx.tx_next /\ tx.tx_next \in Nat
      BY <1>1, TxFacts, Zenon DEF Pooled
    <3>2. t.count \in 0 .. tx.tx_next - 1
      BY <1>3, <3>1
    <3> QED
      BY <1>1, <1>2, <1>3, <1>6, <3>2, SMTT(30) DEF Pooled
  <2>5. \A v \in K : v.count < e.tx_next /\ v.retx_id <= e.retransmit_id
    BY <1>1, <1>3, <1>6, Zenon DEF Pooled
  <2>6. \A v, w \in K : v.count = w.count /\ v.retx_id = w.retx_id => v = w
    BY <1>1, <1>3, ZenonT(30) DEF Pooled
  <2> QED
    BY <1>6, <1>10, <2>3, <2>4, <2>5, <2>6, ZenonT(30) DEF Pooled
<1>12. Counted'
  <2>1. tx.tasks # {} /\ tx'.tasks # {}
    BY <1>6, <1>7, Zenon
  <2>2. Cardinality(tx'.tasks) = Cardinality(tx.tasks)
    BY <1>6, <1>7, <1>10, Zenon
  <2> QED
    BY <1>2, <2>1, <2>2, Zenon DEF IndInv, Counted
<1>13. Controlled'
  BY <1>2, <1>6, <1>7, Zenon DEF IndInv, Controlled
<1>14. finite' = finite /\ stopped' = stopped
  BY <1>2, Zenon DEF finite
<1> QED
  BY <1>6, <1>7, <1>8, <1>9, <1>11, <1>12, <1>13, <1>14, SMTT(30) DEF IndInv

\* The result of a worker is lost.
LEMMA RefusedStep ==
  ASSUME IndInv, NEW t \in tx.tasks, apply_security_refused(t)
  PROVE  IndInv'
<1> DEFINE e == [tx EXCEPT !.tasks = tx.tasks \ {t}]
<1>1. /\ tx \in Tx /\ Ordered(tx) /\ Pooled(tx, protected) /\ t \in Task
  BY TxFacts, Zenon DEF IndInv
<1>2. /\ protected' = protected \cup {<<t.count, t.sdu>>}
      /\ tx' = e /\ token_mngr' = return_token(token_mngr)
      /\ UNCHANGED <<cfg, key, buffering, sdu_buffer, stopped, pc, sdus>>
  BY Zenon DEF apply_security_refused
<1>3. /\ e \in Tx /\ Ordered(e) /\ e.tasks = tx.tasks \ {t}
      /\ e.window = tx.window /\ e.tx_next = tx.tx_next
      /\ Timed(tx) => Timed(e)
      /\ Headed(tx) => Headed(e)
      /\ Pooled(e, protected)
  BY <1>1, WithoutTask, Zenon
<1> HIDE DEF e
<1>4. Pooled(e, protected')
  <2>1. <<t.count, t.sdu>> \in Used(tx, protected)
    BY Zenon DEF Used
  <2>2. Used(e, protected') \subseteq Used(tx, protected)
    BY <1>2, <1>3, <2>1, Zenon DEF Used
  <2>3. \A p, q \in Used(e, protected') : p[1] = q[1] => p[2] = q[2]
    BY <1>1, <2>2, Zenon DEF Pooled
  <2>4. protected' \subseteq (0 .. e.tx_next - 1) \X Nat
    <3>1. t.count < tx.tx_next /\ tx.tx_next \in Nat /\ t.count \in Nat /\ t.sdu \in Nat
      BY <1>1, TxFacts, Zenon DEF Pooled, Task
    <3>2. t.count \in 0 .. tx.tx_next - 1
      BY <3>1
    <3>3. protected \subseteq (0 .. tx.tx_next - 1) \X Nat
      BY <1>1, Zenon DEF Pooled
    <3>4. protected' \subseteq (0 .. tx.tx_next - 1) \X Nat
      BY <1>2, <3>1, <3>2, <3>3
    <3> QED
      BY <1>3, <3>4, Zenon
  <2> QED
    BY <1>3, <2>3, <2>4, Zenon DEF Pooled
<1>5. Counted'
  BY <1>2, <1>3, TaskLeaves, Zenon
<1>6. Controlled'
  BY <1>2, <1>3, Zenon DEF IndInv, Controlled
<1>7. finite' = finite /\ stopped' = stopped
  BY <1>2, Zenon DEF finite
<1> QED
  BY <1>2, <1>3, <1>4, <1>5, <1>6, <1>7, SMTT(30) DEF IndInv

\* A protected PDU comes back to the UE executor.
LEMMA ReorderingStep ==
  ASSUME IndInv, NEW t \in tx.tasks, apply_reordering(t)
  PROVE  IndInv'
<1> DEFINE r == [tx EXCEPT !.tasks = tx.tasks \ {t}]
<1>1. /\ tx \in Tx /\ Ordered(tx) /\ Pooled(tx, protected) /\ t \in Task
  BY TxFacts, Zenon DEF IndInv
<1>2. /\ tx' = IF stopped \/ OutOfDate(r, t) THEN r ELSE reordered(r, t)
      /\ token_mngr' = return_token(token_mngr)
      /\ UNCHANGED <<cfg, key, buffering, sdu_buffer, stopped, pc, sdus, protected>>
  BY Zenon DEF apply_reordering
<1>3. /\ r \in Tx /\ Ordered(r) /\ Sound(r) /\ r.tasks = tx.tasks \ {t}
      /\ r.window = tx.window
      /\ Timed(tx) => Timed(r)
      /\ Headed(tx) => Headed(r)
      /\ Pooled(r, protected)
  BY <1>1, WithoutTask, Zenon
<1> HIDE DEF r
<1>4. /\ tx' \in Tx /\ Ordered(tx') /\ Pooled(tx', protected) /\ tx'.tasks = tx.tasks \ {t}
      /\ DOMAIN tx'.window = DOMAIN tx.window
      /\ Timed(tx) => Timed(tx')
      /\ Headed(tx) => Headed(tx')
  <2>1. CASE stopped \/ OutOfDate(r, t)
    <3>1. tx' = r
      BY <1>2, <2>1, Zenon
    <3> QED
      BY <1>3, <3>1, Zenon
  <2>2. CASE ~(stopped \/ OutOfDate(r, t))
    <3> DEFINE e == reordered(r, t)
    <3>1. tx' = e
      BY <1>2, <2>2, Zenon
    <3>2. t.count \in DOMAIN r.window /\ t.retx_id = r.retransmit_id
      BY <2>2, Zenon DEF OutOfDate, has_sn
    <3>3. e \in Tx /\ Kept(r, e) /\ Sound(e) /\ Watched(e)
      BY <1>1, <1>3, <3>2, ReorderedOK, Zenon
    <3> HIDE DEF e
    <3>4. Ordered(e)
      BY <3>3, Zenon DEF Sound, Ordered
    <3>5. /\ Timed(r) => Timed(e)
          /\ Headed(r) => Headed(e)
          /\ Pooled(e, protected)
      BY <1>3, <3>3, KeptKeeps, Zenon
    <3>6. e.tasks = r.tasks /\ DOMAIN e.window = DOMAIN r.window
      BY <3>3, Zenon DEF Kept
    <3> QED
      BY <1>3, <3>1, <3>3, <3>4, <3>5, <3>6, SMTT(30)
  <2> QED
    BY <2>1, <2>2, Zenon
<1>5. Counted'
  BY <1>2, <1>4, TaskLeaves, Zenon
<1>6. Controlled'
  BY <1>2, <1>4, Zenon DEF IndInv, Controlled
<1>7. finite' = finite
  BY <1>2, Zenon DEF finite
<1> QED
  BY <1>2, <1>4, <1>5, <1>6, <1>7 DEF IndInv

\* The timers expire, and time passes.
LEMMA TimerStep ==
  ASSUME IndInv, crypto_reordering_timeout \/ discard_callback \/ Tick
  PROVE  IndInv'
<1>1. /\ tx \in Tx /\ Ordered(tx) /\ Pooled(tx, protected) /\ Sound(tx)
  BY Zenon DEF IndInv, Ordered, Sound
<1>2. UNCHANGED <<cfg, token_mngr, key, buffering, sdu_buffer, stopped, pc, sdus, protected>>
  BY Zenon DEF crypto_reordering_timeout, discard_callback, Tick
<1>3. CASE crypto_reordering_timeout
  <2>1. tx' \in Tx /\ Kept(tx, tx') /\ Sound(tx') /\ (tx'.failed = "no" => Watched(tx'))
    BY <1>1, <1>3, TimeoutOK, ZenonT(30) DEF crypto_reordering_timeout
  <2>2. Ordered(tx')
    BY <2>1, Zenon DEF Sound, Ordered
  <2>3. /\ Timed(tx) => Timed(tx')
        /\ Headed(tx) => Headed(tx')
        /\ Pooled(tx', protected)
    BY <1>1, <2>1, KeptKeeps, Zenon
  <2>4. tx'.tasks = tx.tasks /\ DOMAIN tx'.window \subseteq DOMAIN tx.window
    BY <2>1, Zenon DEF Kept
  <2> QED
    BY <1>2, <2>1, <2>2, <2>3, <2>4, EntityStep
<1>4. CASE discard_callback
  <2>1. tx.discard_timer = 0
    BY <1>4, ZenonT(30) DEF discard_callback
  <2>2. /\ tx' \in Tx /\ Fewer(tx, tx')
        /\ Timed(tx) => Timed(tx')
        /\ Headed(tx) => Headed(tx')
    BY <1>1, <1>4, <2>1, CallbackOK, Zenon DEF discard_callback
  <2>3. Ordered(tx') /\ Pooled(tx', protected)
    BY <1>1, <2>2, FewerKeeps, Zenon
  <2>4. tx'.tasks = tx.tasks /\ DOMAIN tx'.window \subseteq DOMAIN tx.window
    BY <2>2, Zenon DEF Fewer
  <2> QED
    BY <1>2, <2>2, <2>3, <2>4, EntityStep
<1>5. CASE Tick
  <2>1. PICK k \in {0, 1} :
          /\ tx.discard_timer # Off /\ tx.discard_timer >= k
          /\ tx' = [tx EXCEPT !.discard_timer = @ - k, !.late = @ + 1 - k,
                 !.window = [c \in DOMAIN tx.window |-> [tx.window[c] EXCEPT !.age = @ + 1]]]
    BY <1>5, Zenon DEF Tick
  <2>2. /\ tx' \in Tx /\ tx'.tasks = tx.tasks /\ DOMAIN tx'.window = DOMAIN tx.window
        /\ Ordered(tx')
        /\ Timed(tx) => Timed(tx')
        /\ Headed(tx) => Headed(tx')
        /\ Pooled(tx', protected)
    BY <1>1, <2>1, TickOK, Zenon
  <2>3. DOMAIN tx'.window \subseteq DOMAIN tx.window
    BY <2>2, Zenon
  <2> QED
    BY <1>2, <2>2, <2>3, EntityStep
<1> QED
  BY <1>3, <1>4, <1>5, Zenon


\* A COUNT that is recovered from a notification is a natural number.
LEMMA EstimateType ==
  ASSUME NEW count \in Nat, NEW lower \in Nat
  PROVE  count_estimation(SN(count), lower) \in Nat
<1>1. SnCard \in Nat \ {0}
  BY WindowAssumption DEF SnCard
<1> DEFINE sn == SN(count)
           h == CASE sn < SN(lower) - Window -> HFN(lower) + 1
                  [] sn >= SN(lower) + Window -> HFN(lower) - 1
                  [] OTHER -> HFN(lower)
<1>2. \A m \in Nat \ {0}, c \in Nat : c % m \in Nat /\ c \div m \in Nat
  BY SMT
<1>3. sn \in Nat /\ HFN(lower) \in Nat
  BY <1>1, <1>2, Zenon DEF SN, HFN
<1>4. h \in {HFN(lower) + 1, HFN(lower) - 1, HFN(lower)}
  <2> HIDE DEF sn
  <2>1. CASE sn < SN(lower) - Window
    <3>1. SN(lower) \in Nat
      BY <1>1, <1>2, Zenon DEF SN
    <3>2. ~(sn >= SN(lower) + Window)
      BY <1>3, <2>1, <3>1, WindowAssumption
    <3> QED
      BY <2>1, <3>2, Zenon
  <2>2. CASE ~(sn < SN(lower) - Window)
    BY <2>2, Zenon
  <2> QED
    BY <2>1, <2>2, Zenon
<1>5. h \in Int
  <2> HIDE DEF h
  <2> QED
    BY <1>3, <1>4
<1>6. count_estimation(sn, lower) = COUNT(h, sn)
  BY Zenon DEF count_estimation
<1> HIDE DEF h, sn
<1>7. h * SnCard + sn \in Int
  BY <1>1, <1>3, <1>5, SMT
<1>8. \A m \in Nat \ {0}, c \in Int : c % m \in Nat
  BY SMT
<1>9. COUNT(h, sn) \in Nat
  BY <1>7, <1>8, CountCardAssumption, Zenon DEF COUNT
<1> QED
  BY <1>6, <1>9, Zenon DEF sn

\* RLC and the peer tell what was transmitted, delivered and received.
LEMMA NotificationStep ==
  ASSUME IndInv, NEW c \in tx.submitted,
         handle_transmit_notification(c) \/ handle_delivery_notification(c)
  PROVE  IndInv'
<1> DEFINE n == notification_count_estimation(c)
<1>1. /\ tx \in Tx /\ Ordered(tx) /\ Pooled(tx, protected) /\ c \in Nat /\ tx.tx_next_ack \in Nat
  BY TxFacts, Zenon DEF IndInv
<1>2. UNCHANGED <<cfg, token_mngr, key, buffering, sdu_buffer, stopped, pc, sdus, protected>>
  BY Zenon DEF handle_transmit_notification, handle_delivery_notification, OnlyTx
<1>3. n \in Nat /\ n + 1 \in Nat
  <2>1. n \in Nat
    BY <1>1, EstimateType, ZenonT(30) DEF notification_count_estimation
  <2> HIDE DEF n
  <2> QED
    BY <2>1
<1> DEFINE r == [tx EXCEPT !.tx_trans = n + 1]
<1>4. handle_transmit_notification(c) => tx' = IF is_um THEN stop_discard_timer(r, n) ELSE r
  BY Zenon DEF handle_transmit_notification
<1>5. handle_delivery_notification(c) => tx' = stop_discard_timer(tx, n)
  BY Zenon DEF handle_delivery_notification
<1> HIDE DEF n
<1>6. ASSUME NEW q \in Tx, Ordered(q), Pooled(q, protected), Timed(tx) => Timed(q),
             Headed(tx) => Headed(q), q.tasks = tx.tasks, q.window = tx.window,
             tx' = stop_discard_timer(q, n) \/ tx' = q
      PROVE  IndInv'
  <2>1. CASE tx' = q
    BY <1>2, <1>6, <2>1, EntityStep, SMTT(30)
  <2>2. CASE tx' = stop_discard_timer(q, n)
    <3>1. /\ tx' \in Tx /\ Fewer(q, tx')
          /\ finite => (Timed(q) => Timed(tx')) /\ (Headed(q) => Headed(tx'))
      BY <1>3, <1>6, <2>2, StopOK, SMTT(30)
    <3>2. Ordered(tx') /\ Pooled(tx', protected)
      BY <1>6, <3>1, FewerKeeps, Zenon
    <3>3. tx'.tasks = tx.tasks /\ DOMAIN tx'.window \subseteq DOMAIN tx.window
      BY <1>6, <3>1, Zenon DEF Fewer
    <3>4. finite => (Timed(tx) => Timed(tx')) /\ (Headed(tx) => Headed(tx'))
      BY <1>6, <3>1, Zenon
    <3> QED
      BY <1>2, <3>1, <3>2, <3>3, <3>4, EntityStep, SMTT(30)
  <2> QED
    BY <1>6, <2>1, <2>2, Zenon
<1>7. CASE handle_transmit_notification(c)
  <2>1. /\ r \in Tx /\ r.tasks = tx.tasks
        /\ r.tx_next = tx.tx_next /\ r.tx_trans_crypto = tx.tx_trans_crypto
        /\ r.tx_reord_crypto = tx.tx_reord_crypto /\ r.tx_next_ack = tx.tx_next_ack
        /\ r.crypto_reordering_timer = tx.crypto_reordering_timer
        /\ r.retransmit_id = tx.retransmit_id
        /\ r.last = tx.last /\ r.disorder = tx.disorder /\ r.window = tx.window
        /\ r.failed = tx.failed /\ r.discard_timer = tx.discard_timer /\ r.late = tx.late
    BY <1>1, <1>3, Zenon DEF Tx
  <2>2. tx' = stop_discard_timer(r, n) \/ tx' = r
    BY <1>4, <1>7, Zenon
  <2> HIDE DEF r
  <2>3. Ordered(r)
    BY <1>1, <2>1, Zenon DEF Ordered, Watched, Waiting, has_sn
  <2>4. (Timed(tx) => Timed(r)) /\ (Headed(tx) => Headed(r))
    BY <2>1, Zenon DEF Timed, Headed
  <2>5. Pooled(r, protected)
    <3>1. Used(r, protected) = Used(tx, protected)
      BY <2>1, Zenon DEF Used
    <3> QED
      BY <1>1, <2>1, <3>1, Zenon DEF Pooled
  <2> QED
    BY <1>6, <2>1, <2>2, <2>3, <2>4, <2>5
<1>8. CASE handle_delivery_notification(c)
  BY <1>1, <1>5, <1>6, <1>8
<1> QED
  BY <1>7, <1>8, Zenon

\* A status report of the peer discards what it acknowledges (handle_status_report()).
LEMMA ReportStep ==
  ASSUME IndInv, NEW fmc, NEW received, handle_status_report(fmc, received)
  PROVE  IndInv'
<1> DEFINE D == {c \in DOMAIN tx.window : c < fmc} \cup received
<1>1. /\ tx \in Tx /\ Ordered(tx) /\ Pooled(tx, protected)
  BY Zenon DEF IndInv
<1>2. /\ UNCHANGED <<cfg, token_mngr, key, buffering, sdu_buffer, stopped, pc, sdus, protected>>
      /\ tx' = discard_pdus(tx, D)
  BY Zenon DEF handle_status_report, OnlyTx
<1> HIDE DEF D
<1>3. tx' \in Tx /\ Fewer(tx, tx') /\ (Headed(tx) => Headed(tx'))
  BY <1>1, <1>2, DiscardOK, Zenon
<1>4. Timed(tx) => Timed(tx')
  BY <1>1, <1>2, DiscardTimed, Zenon
<1>5. Ordered(tx') /\ Pooled(tx', protected)
  BY <1>1, <1>3, FewerKeeps, Zenon
<1>6. tx'.tasks = tx.tasks /\ DOMAIN tx'.window \subseteq DOMAIN tx.window
  BY <1>3, Zenon DEF Fewer
<1> QED
  BY <1>2, <1>3, <1>4, <1>5, <1>6, EntityStep, SMTT(30)

\* The SDUs of the window are sent again on request.
LEMMA RecoveryStep ==
  ASSUME IndInv, data_recovery
  PROVE  IndInv'
<1>1. PICK R \in SUBSET DOMAIN tx.window : tx' = retransmit_all_pdus(tx, R)
  BY Zenon DEF data_recovery
<1>2. /\ tx \in Tx /\ Ordered(tx) /\ Pooled(tx, protected) /\ ~stopped /\ pc = "idle"
  BY Zenon DEF IndInv, data_recovery
<1>3. /\ UNCHANGED <<cfg, key, buffering, sdu_buffer, stopped, pc, sdus, protected>>
      /\ token_mngr' = TokensFor(token_mngr, tx')
  BY Zenon DEF data_recovery
<1>4. /\ tx' \in Tx /\ Ordered(tx') /\ tx.tasks \subseteq tx'.tasks
      /\ Timed(tx) => Timed(tx')
      /\ Headed(tx) => Headed(tx')
      /\ DOMAIN tx'.window = DOMAIN tx.window
      /\ Pooled(tx', protected)
  BY <1>1, <1>2, RetransmitOK, Zenon
<1>5. Counted'
  <2>1. IsFiniteSet(tx'.tasks)
    BY <1>4, Zenon DEF Pooled
  <2> QED
    BY <1>2, <1>3, <1>4, <2>1, TasksAdded, SMTT(30)
<1>6. Controlled'
  BY <1>3, <1>4, Zenon DEF IndInv, Controlled
<1>7. finite' = finite
  BY <1>3, Zenon DEF finite
<1> QED
  BY <1>3, <1>4, <1>5, <1>6, <1>7 DEF IndInv

\* A procedure gives back the token of the entity itself, and the pool drains.
LEMMA Stopping ==
  ASSUME IndInv, pc = "idle", pc' # "idle", tx'.tasks = tx.tasks,
         token_mngr' = stop(token_mngr)
  PROVE  Counted'
<1> DEFINE n == Cardinality(tx.tasks)
<1>1. IsFiniteSet(tx.tasks)
  BY Zenon DEF IndInv, Pooled
<1>2. n \in Nat /\ (n = 0 => tx.tasks = {})
  BY <1>1, FS_CardinalityType, FS_EmptySet, Zenon
<1>3. token_mngr \in Manager /\ token_mngr.tokens = n /\ ~token_mngr.pending_crypto
  BY Zenon DEF IndInv, Counted
<1> HIDE DEF n
<1>4. /\ token_mngr'.tokens = n - 1 /\ token_mngr'.pending_crypto = (n = 0)
      /\ token_mngr' \in Manager
  <2>1. n - 1 \in Int /\ (token_mngr.pending_crypto \/ token_mngr.tokens = 0) = (n = 0)
    BY <1>2, <1>3
  <2>2. token_mngr' = [tokens |-> n - 1, pending_crypto |-> (n = 0)]
    BY <1>3, <2>1, Zenon DEF stop, return_token
  <2> QED
    BY <2>1, <2>2 DEF Manager
<1> QED
  BY <1>2, <1>4, ZenonT(30) DEF Counted, n

\* A key change begins, or a release.
LEMMA BeginStep ==
  ASSUME IndInv, BeginKeyChange \/ BeginRelease
  PROVE  IndInv'
<1>1. CASE BeginKeyChange
  <2>1. /\ UNCHANGED <<cfg, tx, key, sdu_buffer, stopped, sdus, protected>>
        /\ pc = "idle" /\ pc' = "change" /\ buffering' = TRUE /\ token_mngr' = stop(token_mngr)
    BY <1>1, Zenon DEF BeginKeyChange
  <2>2. Counted'
    BY <2>1, Stopping, Zenon
  <2>3. Controlled'
    BY <2>1, Zenon DEF IndInv, Controlled
  <2>4. finite' = finite
    BY <2>1, Zenon DEF finite
  <2> QED
    BY <2>1, <2>2, <2>3, <2>4 DEF IndInv
<1>2. CASE BeginRelease
  <2> DEFINE w == <<>>
             e == [tx EXCEPT !.window = w, !.discard_timer = Off, !.crypto_reordering_timer = FALSE]
  <2>1. /\ UNCHANGED <<cfg, key, buffering, sdu_buffer, sdus, protected>>
        /\ pc = "idle" /\ pc' = "release" /\ stopped' = TRUE /\ token_mngr' = stop(token_mngr)
        /\ tx' = e
    BY <1>2, Zenon DEF BeginRelease
  <2>2. w \in Windows /\ DOMAIN w = {}
    BY EmptyWindow, Zenon
  <2> HIDE DEF w
  <2>3. tx \in Tx /\ Ordered(tx) /\ Pooled(tx, protected)
    BY Zenon DEF IndInv
  <2>4. /\ e \in Tx /\ e.tasks = tx.tasks
        /\ e.tx_next = tx.tx_next /\ e.tx_trans_crypto = tx.tx_trans_crypto
        /\ e.tx_reord_crypto = tx.tx_reord_crypto /\ e.tx_next_ack = tx.tx_next_ack
        /\ e.retransmit_id = tx.retransmit_id
        /\ e.last = tx.last /\ e.disorder = tx.disorder /\ e.window = w
        /\ e.failed = tx.failed /\ e.discard_timer = Off /\ e.late \in Nat
    <3>1. Off \in Nat \cup {Off}
      OBVIOUS
    <3> QED
      BY <2>2, <2>3, <3>1, Zenon DEF Tx
  <2> HIDE DEF e
  <2>5. Ordered(e)
    <3>1. Watched(e)
      BY <2>2, <2>4, Zenon DEF Watched, Waiting, has_sn
    <3> QED
      BY <2>2, <2>3, <2>4, <3>1, Zenon DEF Ordered
  <2>6. Timed(e)
    <3>1. \A l \in Nat : Off <= Discard + 1 + l
      BY DiscardAssumption DEF Off
    <3> QED
      BY <2>2, <2>4, <3>1, Zenon DEF Timed
  <2>7. Pooled(e, protected)
    <3>1. Used(e, protected) \subseteq Used(tx, protected)
      BY <2>2, <2>4, ZenonT(30) DEF Used
    <3> QED
      BY <2>3, <2>4, <3>1, Zenon DEF Pooled
  <2>8. Counted'
    <3>1. pc' # "idle"
      BY <2>1, Zenon
    <3> QED
      BY <2>1, <2>4, <3>1, Stopping
  <2>9. Controlled'
    BY <2>1, <2>2, <2>4, Zenon DEF IndInv, Controlled
  <2>10. finite' = finite /\ stopped'
    BY <2>1, Zenon DEF finite
  <2> QED
    BY <2>1, <2>4, <2>5, <2>6, <2>7, <2>8, <2>9, <2>10, SMTT(30) DEF IndInv
<1> QED
  BY <1>1, <1>2, Zenon

\* A key change, or a release, goes on once the pool is empty.
LEMMA EndStep ==
  ASSUME IndInv, EndKeyChange \/ EndRelease
  PROVE  IndInv'
<1>1. CASE EndKeyChange
  <2>1. /\ UNCHANGED <<cfg, stopped, sdus>>
        /\ pc = "change" /\ pc' = "idle" /\ buffering' = FALSE /\ sdu_buffer' = <<>>
        /\ token_mngr.pending_crypto /\ protected' = {}
        /\ token_mngr' = TokensFor(start(token_mngr), tx')
    BY <1>1, Zenon DEF EndKeyChange
  <2>2. /\ tx \in Tx /\ Ordered(tx) /\ Pooled(tx, protected) /\ ~stopped
        /\ sdu_buffer \in Seq(Nat)
        /\ finite => Timed(tx) /\ Headed(tx)
    BY <2>1, Zenon DEF IndInv, Controlled
  <2>3. /\ tx.tasks = {} /\ token_mngr \in Manager /\ token_mngr.tokens = -1
    <3>1. /\ tx.tasks = {} /\ token_mngr \in Manager
          /\ token_mngr.tokens = Cardinality(tx.tasks) - 1
      BY <2>1, Zenon DEF IndInv, Counted
    <3>2. Cardinality({}) = 0
      BY FS_EmptySet, Zenon
    <3> QED
      BY <3>1, <3>2, SMTT(30)
  <2>4. Pooled(tx, {})
    <3>1. Used(tx, {}) \subseteq Used(tx, protected)
      BY Zenon DEF Used
    <3>2. {} \subseteq (0 .. tx.tx_next - 1) \X Nat
      BY Zenon
    <3> QED
      BY <2>2, <3>1, <3>2, Zenon DEF Pooled
  <2>5. PICK r \in {tx} \cup {reestablish(tx, refused) : refused \in SUBSET DOMAIN tx.window},
             refused \in [DOMAIN sdu_buffer -> BOOLEAN] :
          tx' = EnqueueLoop(r, sdu_buffer, refused)[Len(sdu_buffer)]
    BY <1>1, Zenon DEF EndKeyChange
  <2>6. Fresh(r)
    <3>1. CASE r = tx
      BY <2>2, <2>4, <3>1, Zenon DEF Fresh
    <3>2. CASE r # tx
      <4>1. PICK R \in SUBSET DOMAIN tx.window : r = reestablish(tx, R)
        BY <2>5, <3>2, ZenonT(30)
      <4>2. CASE is_um
        <5>1. r = reset(tx)
          BY <4>1, <4>2, Zenon DEF reestablish
        <5> QED
          BY <2>2, <2>3, <5>1, ResetOK DEF Fresh
      <4>3. CASE ~is_um
        <5>1. r = retransmit_all_pdus(tx, R)
          BY <4>1, <4>3, Zenon DEF reestablish
        <5>2. /\ r \in Tx /\ Ordered(r)
              /\ Timed(tx) => Timed(r)
              /\ Headed(tx) => Headed(r)
              /\ Pooled(r, {})
          BY <2>2, <2>4, <5>1, RetransmitOK
        <5> QED
          BY <2>2, <5>2, Zenon DEF Fresh
      <4> QED
        BY <4>2, <4>3, Zenon
    <3> QED
      BY <3>1, <3>2, Zenon
  <2>7. Fresh(tx')
    BY <2>2, <2>5, <2>6, EnqueueOK
  <2>8. tx' \in Tx /\ Ordered(tx') /\ Pooled(tx', {}) /\ (finite => Timed(tx') /\ Headed(tx'))
    BY <2>7, Zenon DEF Fresh
  <2>9. Counted'
    <3> DEFINE k == Cardinality(tx'.tasks)
    <3>1. k \in Nat /\ tx'.tasks \ tx.tasks = tx'.tasks
      <4>1. IsFiniteSet(tx'.tasks)
        BY <2>8, Zenon DEF Pooled
      <4> QED
        BY <2>3, <4>1, FS_CardinalityType, Zenon
    <3>2. token_mngr' = [[[token_mngr EXCEPT !.pending_crypto = FALSE] EXCEPT !.tokens = @ + 1]
                           EXCEPT !.tokens = @ + k]
      BY <2>1, <3>1, Zenon DEF TokensFor, start, increment_tokens
    <3> HIDE DEF k
    <3>3. token_mngr' \in Manager /\ token_mngr'.tokens = k /\ ~token_mngr'.pending_crypto
      <4> DEFINE m == [token_mngr EXCEPT !.pending_crypto = FALSE]
      <4>1. m \in Manager /\ m.tokens = -1 /\ ~m.pending_crypto
        BY <2>3, Zenon DEF Manager
      <4> HIDE DEF m
      <4> DEFINE q == [m EXCEPT !.tokens = m.tokens + 1]
      <4>2. m.tokens + 1 = 0 /\ 0 \in Int
        BY <4>1
      <4>3. q \in Manager /\ q.tokens = 0 /\ ~q.pending_crypto
        BY <4>1, <4>2, Zenon DEF Manager
      <4>4. token_mngr' = [q EXCEPT !.tokens = q.tokens + k]
        BY <3>2, Zenon DEF m
      <4> HIDE DEF q
      <4>5. q.tokens + k = k /\ k \in Int
        BY <3>1, <4>3
      <4> QED
        BY <4>3, <4>4, <4>5, Zenon DEF Manager
    <3> QED
      BY <2>1, <3>3, Zenon DEF Counted, k
  <2>10. Controlled'
    <3>1. <<>> \in Seq(Nat) /\ "idle" \in {"idle", "change", "release", "gone"}
          /\ ~("idle" = "change") /\ ~("idle" \in {"release", "gone"})
          /\ FALSE \in BOOLEAN
      OBVIOUS
    <3>2. cfg \in Bearers /\ sdus \in Nat /\ stopped \in BOOLEAN
      BY Zenon DEF IndInv, Controlled
    <3> QED
      BY <2>1, <2>2, <3>1, <3>2, Zenon DEF Controlled
  <2>11. finite' = finite
    BY <2>1, Zenon DEF finite
  <2> QED
    BY <2>1, <2>8, <2>9, <2>10, <2>11, SMTT(30) DEF IndInv
<1>2. CASE EndRelease
  <2>1. /\ UNCHANGED <<cfg, tx, token_mngr, key, buffering, sdu_buffer, stopped, sdus, protected>>
        /\ pc = "release" /\ pc' = "gone"
    BY <1>2, Zenon DEF EndRelease
  <2>2. Counted'
    BY <2>1, Zenon DEF IndInv, Counted
  <2>3. Controlled'
    BY <2>1, Zenon DEF IndInv, Controlled
  <2>4. finite' = finite
    BY <2>1, Zenon DEF finite
  <2> QED
    BY <2>1, <2>2, <2>3, <2>4, Zenon DEF IndInv
<1> QED
  BY <1>1, <1>2, Zenon


-----------------------------------------------------------------------------
\* Every state of the entity satisfies the invariant.

\* An entity starts with an empty window, at COUNT 0 or at that of a status transfer.
LEMMA InitInv == Init => IndInv
<1> SUFFICES ASSUME Init PROVE IndInv
  OBVIOUS
<1> DEFINE n == cfg.count
<1>1. cfg \in Bearers /\ n \in Nat
  BY BearersAssumption, Zenon DEF Init
<1>2. tx = InitialTx(n)
  BY Zenon DEF Init
<1> HIDE DEF n
<1>3. /\ tx.tx_next = n /\ tx.tx_trans_crypto = n /\ tx.tx_reord_crypto = n /\ tx.tx_trans = n
      /\ tx.tx_next_ack = n /\ tx.window = <<>> /\ tx.discard_timer = Off /\ tx.late = 0
      /\ tx.retransmit_id = 0 /\ tx.tasks = {} /\ tx.last = -1
      /\ tx.disorder = FALSE /\ tx.failed = "no"
  BY <1>2, Zenon DEF InitialTx
<1>4. DOMAIN tx.window = {}
  BY <1>3, EmptyWindow, Zenon
<1>5. tx \in Tx
  <2>1. 0 \in Nat /\ -1 \in Int /\ Off \in Nat \cup {Off} /\ "no" \in {"no", "window", "timer", "loop"}
    OBVIOUS
  <2>2. <<>> \in Windows
    BY EmptyWindow, Zenon
  <2> QED
    BY <1>1, <1>2, <2>1, <2>2 DEF InitialTx, Tx
<1>6. Ordered(tx)
  <2>1. /\ tx.tx_next_ack <= tx.tx_next /\ tx.tx_trans_crypto <= tx.tx_next
        /\ tx.tx_reord_crypto <= tx.tx_next /\ tx.last < tx.tx_trans_crypto /\ ~tx.disorder
    BY <1>1, <1>3
  <2>2. Watched(tx)
    BY <1>4, Zenon DEF Watched, Waiting, has_sn
  <2> QED
    BY <1>4, <2>1, <2>2, Zenon DEF Ordered
<1>7. Timed(tx) /\ Headed(tx)
  <2>1. Off <= Discard + 1 + 0
    BY DiscardAssumption DEF Off
  <2> QED
    BY <1>3, <1>4, <2>1, Zenon DEF Timed, Headed
<1>8. Pooled(tx, protected)
  <2>1. protected = {}
    BY Zenon DEF Init
  <2>2. Used(tx, protected) = {}
    BY <1>3, <1>4, <2>1, Zenon DEF Used
  <2>3. IsFiniteSet(tx.tasks)
    BY <1>3, FS_EmptySet, Zenon
  <2> QED
    BY <1>3, <2>1, <2>2, <2>3, Zenon DEF Pooled
<1>9. Counted
  <2>1. Cardinality(tx.tasks) = 0
    BY <1>3, FS_EmptySet, Zenon
  <2> QED
    BY <2>1 DEF Init, ManagerInit, Manager, Counted
<1>10. Controlled
  <2>1. <<>> \in Seq(Nat)
    OBVIOUS
  <2> QED
    BY <1>1, <2>1, ZenonT(30) DEF Init, Controlled
<1> QED
  BY <1>5, <1>6, <1>7, <1>8, <1>9, <1>10, SMTT(30) DEF IndInv

\* Every operation of the entity keeps the invariant, by one of the lemmas above.
LEMMA NextInv == IndInv /\ [Next]_vars => IndInv'
<1> SUFFICES ASSUME IndInv, [Next]_vars PROVE IndInv'
  OBVIOUS
<1>1. CASE UNCHANGED vars
  <2>1. UNCHANGED <<cfg, tx, token_mngr, buffering, sdu_buffer, stopped, pc, sdus, protected>>
    BY <1>1, Zenon DEF vars
  <2>2. Counted' /\ Controlled' /\ finite' = finite
    BY <2>1, Zenon DEF IndInv, Counted, Controlled, finite
  <2> QED
    BY <2>1, <2>2, Zenon DEF IndInv
<1>2. CASE handle_sdu \/ handle_sdu_buffered
  BY <1>2, ArrivalStep, Zenon
<1>3. CASE handle_sdu_dropped
  BY <1>1, <1>3, Zenon DEF handle_sdu_dropped
<1>4. CASE \E t \in tx.tasks : apply_security(t) \/ apply_security_refused(t) \/ apply_reordering(t)
  BY <1>4, SecurityStep, RefusedStep, ReorderingStep
<1>5. CASE crypto_reordering_timeout \/ discard_callback \/ Tick
  BY <1>5, TimerStep, Zenon
<1>6. CASE \E c \in Notifiable : handle_transmit_notification(c) \/ handle_delivery_notification(c)
  <2>1. Notifiable \subseteq tx.submitted
    BY Zenon DEF Notifiable
  <2> QED
    BY <1>6, <2>1, NotificationStep, Zenon
<1>7. CASE \E fmc \in {tx.tx_next_ack} \cup {c + 1 : c \in tx.submitted},
              received \in SUBSET (DOMAIN tx.window \cap tx.submitted) :
             /\ \A c \in received : c > fmc
             /\ handle_status_report(fmc, received)
  BY <1>7, ReportStep, Zenon
<1>8. CASE data_recovery
  BY <1>8, RecoveryStep, Zenon
<1>9. CASE BeginKeyChange \/ BeginRelease
  BY <1>9, BeginStep, Zenon
<1>10. CASE EndKeyChange \/ EndRelease
  BY <1>10, EndStep, Zenon
<1> QED
  BY <1>1, <1>2, <1>3, <1>4, <1>5, <1>6, <1>7, <1>8, <1>9, <1>10, SMTT(30) DEF Next

\* The inductive invariant of the transmitting entity.
LEMMA Invariance == Spec => []IndInv
  BY InitInv, NextInv, PTL DEF Spec

\* PDUs are submitted to RLC in ascending order of COUNT, whatever the pool of
\* crypto workers reorders, delays or loses (apply_reordering(),
\* handle_crypto_reordering_timeout()).
THEOREM SubmittedInOrderHolds == Spec => []SubmittedInOrder
<1>1. IndInv => SubmittedInOrder
  BY Zenon DEF IndInv, Ordered, SubmittedInOrder
<1> QED
  BY <1>1, Invariance, PTL

\* No two SDUs are protected with the same key and COUNT: a re-establishment that
\* starts the COUNTs over waits until the token manager has every token back.
THEOREM CountOnceHolds == Spec => []CountOnce
<1>1. IndInv => CountOnce
  <2>1. protected \subseteq Used(tx, protected)
    BY Zenon DEF Used
  <2> QED
    BY <2>1, Zenon DEF IndInv, Pooled, CountOnce
<1> QED
  BY <1>1, Invariance, PTL

\* The one discard timer removes every SDU in time, but for the lateness of its
\* expiries, although it is stopped and restarted by notifications, status reports
\* and its own expiry.
THEOREM DiscardedInTimeHolds == Spec => []DiscardedInTime
<1>1. IndInv => DiscardedInTime
  <2> SUFFICES ASSUME IndInv, finite, Alive, NEW c \in DOMAIN tx.window
               PROVE  /\ tx.discard_timer # Off
                      /\ tx.window[c].age + tx.discard_timer <= Discard + 1 + tx.late
    BY Zenon DEF DiscardedInTime
  <2>1. Timed(tx) /\ tx.failed = "no"
    BY Zenon DEF IndInv, Alive
  <2>2. DOMAIN tx.window # {}
    BY Zenon
  <2> QED
    BY <2>1, <2>2, Zenon DEF Timed
<1> QED
  BY <1>1, Invariance, PTL

\* A PDU that waits for earlier ones waits under a running reordering timer.
THEOREM WaitingWatchedHolds == Spec => []WaitingWatched
<1>1. IndInv => WaitingWatched
  BY Zenon DEF IndInv, Ordered, Watched, Alive, WaitingWatched
<1> QED
  BY <1>1, Invariance, PTL

\* TX_NEXT_ACK is the oldest SDU of the window, or TX_NEXT.
THEOREM HeadInWindowHolds == Spec => []HeadInWindow
<1>1. IndInv => HeadInWindow
  <2> SUFFICES ASSUME IndInv, finite, Alive, ~stopped
               PROVE  tx.tx_next_ack = Least({tx.tx_next} \cup DOMAIN tx.window)
    BY Zenon DEF HeadInWindow
  <2> DEFINE S == {tx.tx_next} \cup DOMAIN tx.window
             h == tx.tx_next_ack
  <2>1. /\ tx \in Tx /\ Headed(tx) /\ tx.failed = "no" /\ h <= tx.tx_next
        /\ DOMAIN tx.window \subseteq h .. tx.tx_next - 1
    BY Zenon DEF IndInv, Alive, Ordered
  <2>2. h \in Nat /\ tx.tx_next \in Nat
    BY <2>1, TxFacts, Zenon
  <2>3. h \in S
    BY <2>1, Zenon DEF Headed
  <2>4. S \in SUBSET Nat /\ \A c \in S : h <= c
    BY <2>1, <2>2
  <2> HIDE DEF S
  <2>5. Least(S) \in S /\ \A c \in S : Least(S) <= c
    BY <2>3, <2>4, LeastExists, Zenon
  <2> DEFINE l == Least(S)
  <2>6. l \in Nat /\ l <= h /\ h <= l
    BY <2>3, <2>4, <2>5, Zenon
  <2> HIDE DEF l, h
  <2>7. h = l
    BY <2>2, <2>6 DEF h
  <2> QED
    BY <2>7, Zenon DEF h, l, S
<1> QED
  BY <1>1, Invariance, PTL
=============================================================================
