------------------------- MODULE PdcpTxWindowProofs -------------------------
(***************************************************************************)
(* What the arrival, submission and discard operations of a transmitting   *)
(* PDCP entity keep of its window: the order of the PDUs, the timers and   *)
(* the COUNTs.  PdcpTxProofs builds on these lemmas.                       *)
(***************************************************************************)
EXTENDS PdcpTx, FiniteSetTheorems, WellFoundedInduction, TLAPS

Windows == UNION {[D -> Element] : D \in SUBSET Nat}

Tx == [tx_next : Nat, tx_trans_crypto : Nat, tx_reord_crypto : Nat, tx_trans : Nat,
       tx_next_ack : Nat, window : Windows, discard_timer : Nat \cup {Off}, late : Nat,
       crypto_reordering_timer : BOOLEAN, retransmit_id : Nat, tasks : SUBSET Task,
       submitted : SUBSET Nat, last : Int, disorder : BOOLEAN,
       failed : {"no", "window", "timer", "loop"}]

Watched(r) ==
  (\E c \in r.tx_trans_crypto .. r.tx_next - 1 :
     Waiting(r, c) /\ r.window[c].pdu = r.retransmit_id) => r.crypto_reordering_timer

\* The COUNTs of an entity, its window, and the order of what it submits.
Ordered(r) ==
  /\ r.tx_next_ack <= r.tx_next /\ r.tx_trans_crypto <= r.tx_next
  /\ r.tx_reord_crypto <= r.tx_next
  /\ r.last < r.tx_trans_crypto /\ ~r.disorder
  /\ DOMAIN r.window \subseteq r.tx_next_ack .. r.tx_next - 1
  /\ \A c \in DOMAIN r.window : r.window[c].pdu <= r.retransmit_id
  /\ r.failed = "no" => Watched(r)

\* A finite discard timer runs while the window holds an SDU, and expires in time for
\* each, but for its lateness; SDUs that came later are not older.
Timed(r) ==
  r.failed = "no" =>
    /\ r.discard_timer <= Discard + 1 + r.late
    /\ DOMAIN r.window # {} => r.tx_next_ack \in DOMAIN r.window /\ r.discard_timer # Off
    /\ \A c \in DOMAIN r.window : r.window[c].age + r.discard_timer <= Discard + 1 + r.late
    /\ \A c, d \in DOMAIN r.window : c <= d => r.window[d].age <= r.window[c].age

\* The oldest SDU is that of TX_NEXT_ACK.
Headed(r) ==
  r.failed = "no" => r.tx_next_ack = r.tx_next \/ r.tx_next_ack \in DOMAIN r.window

\* The <<COUNT, SDU>> that were, or may yet be, protected with the current key.
Used(r, done) == done \cup {<<t.count, t.sdu>> : t \in r.tasks}
                      \cup {<<c, r.window[c].sdu>> : c \in DOMAIN r.window}

\* The PDUs in the pool, and the SDUs that have COUNTs.
Pooled(r, done) ==
  /\ IsFiniteSet(r.tasks)
  /\ \A t \in r.tasks : t.count < r.tx_next /\ t.retx_id <= r.retransmit_id
  /\ \A t, u \in r.tasks : t.count = u.count /\ t.retx_id = u.retx_id => t = u
  /\ done \subseteq (0 .. r.tx_next - 1) \X Nat
  /\ \A p, q \in Used(r, done) : p[1] = q[1] => p[2] = q[2]

\* The token manager counts the PDUs in the pool, and the entity itself while no
\* procedure waits for them; the event is set when none is left.
Counted ==
  /\ token_mngr \in Manager
  /\ pc = "idle" => token_mngr.tokens = Cardinality(tx.tasks) /\ ~token_mngr.pending_crypto
  /\ pc # "idle" => /\ token_mngr.tokens = Cardinality(tx.tasks) - 1
                    /\ token_mngr.pending_crypto => tx.tasks = {}

Controlled ==
  /\ cfg \in Bearers /\ sdus \in Nat /\ sdu_buffer \in Seq(Nat)
  /\ pc \in {"idle", "change", "release", "gone"}
  /\ buffering \in BOOLEAN /\ stopped \in BOOLEAN
  /\ buffering <=> pc = "change"
  /\ stopped <=> pc \in {"release", "gone"}
  /\ stopped => DOMAIN tx.window = {}

IndInv ==
  /\ tx \in Tx /\ Ordered(tx) /\ Pooled(tx, protected)
  /\ finite => Timed(tx) /\ (~stopped => Headed(tx))
  /\ Counted /\ Controlled


-----------------------------------------------------------------------------
\* Numbers and windows.

\* A set of natural numbers that is not empty has a least element.
LEMMA LeastExists ==
  ASSUME NEW T \in SUBSET Nat, T # {}
  PROVE  Least(T) \in T /\ \A m \in T : Least(T) <= m
<1>1. PICK x \in T : \A y \in T : ~ (<<y, x>> \in OpToRel(<, Nat))
  BY NatLessThanWellFounded, WFMin, Zenon
<1>2. \A y \in T : ~(y < x)
  BY <1>1, Zenon DEF OpToRel
<1>3. \A y \in T : x <= y
  BY <1>2
<1> QED
  BY <1>3, Zenon DEF Least

\* A set of natural numbers below a bound has a greatest element.
LEMMA GreatestExists ==
  ASSUME NEW T \in SUBSET Nat, T # {}, NEW k \in Nat, \A m \in T : m < k
  PROVE  Greatest(T) \in T /\ \A m \in T : m <= Greatest(T)
<1> DEFINE U == {k - m : m \in T}
<1>1. U \in SUBSET Nat /\ U # {}
  <2>1. \A m \in T : k - m \in Nat
    OBVIOUS
  <2> QED
    BY <2>1, Zenon
<1> HIDE DEF U
<1>2. Least(U) \in U /\ \A u \in U : Least(U) <= u
  BY <1>1, LeastExists, Zenon
<1>3. PICK n \in T : Least(U) = k - n
  BY <1>2, Zenon DEF U
<1>4. \A m \in T : k - n <= k - m
  BY <1>2, <1>3, Zenon DEF U
<1>5. \A m \in T : m <= n
  BY <1>4
<1> QED
  BY <1>5, Zenon DEF Greatest

\* The larger of two numbers.
LEMMA GreatestOfTwo ==
  ASSUME NEW a \in Nat, NEW b \in Nat
  PROVE  Greatest({a, b}) \in Nat /\ Greatest({a, b}) \in {a, b}
<1>1. {a, b} \in SUBSET Nat /\ {a, b} # {} /\ a + b + 1 \in Nat /\ \A m \in {a, b} : m < a + b + 1
  OBVIOUS
<1>2. Greatest({a, b}) \in {a, b}
  BY <1>1, GreatestExists, Zenon
<1> QED
  BY <1>2, Zenon

\* What holds of 0, and of n + 1 when it holds of n, holds up to any bound.
LEMMA Induction ==
  ASSUME NEW n \in Nat, NEW T, 0 \in T, \A i \in 1 .. n : i - 1 \in T => i \in T
  PROVE  0 .. n \subseteq T
<1> DEFINE U == {i \in 0 .. n : i \notin T}
<1>1. SUFFICES ASSUME U # {} PROVE FALSE
  OBVIOUS
<1>2. U \in SUBSET Nat
  OBVIOUS
<1>3. PICK i \in U : \A j \in U : i <= j
  BY <1>1, <1>2, LeastExists, Zenon
<1>4. i \in 1 .. n /\ i - 1 \in 0 .. n
  BY <1>3
<1>5. i - 1 \notin U
  BY <1>3, <1>4
<1> QED
  BY <1>3, <1>4, <1>5, Zenon

\* f begins with a and goes on as g says, up to n.
Solves(f, n, a, g) == f[0] = a /\ \A i \in 1 .. n : f[i] = g[<<i, f[i - 1]>>]

\* A recursion over 0 .. n has a solution.
LEMMA RecursionExists ==
  ASSUME NEW n \in Nat, NEW S, NEW a \in S, NEW g \in [(1 .. n) \X S -> S]
  PROVE  \E f \in [0 .. n -> S] : Solves(f, n, a, g)
<1> DEFINE T == {k \in 0 .. n : \E f \in [0 .. k -> S] : Solves(f, k, a, g)}
<1>1. 0 \in T
  <2> DEFINE f0 == [i \in 0 .. 0 |-> a]
  <2>1. f0 \in [0 .. 0 -> S] /\ Solves(f0, 0, a, g)
    BY DEF Solves
  <2> HIDE DEF f0
  <2> QED
    BY <2>1
<1>2. ASSUME NEW k \in 1 .. n, k - 1 \in T PROVE k \in T
  <2>1. PICK f \in [0 .. k - 1 -> S] : Solves(f, k - 1, a, g)
    BY <1>2, Zenon
  <2> DEFINE h == [i \in 0 .. k |-> IF i = k THEN g[<<k, f[k - 1]>>] ELSE f[i]]
  <2>2. f[k - 1] \in S /\ g[<<k, f[k - 1]>>] \in S
    <3>1. k - 1 \in 0 .. k - 1
      OBVIOUS
    <3>2. f[k - 1] \in S
      BY <3>1, Zenon
    <3> QED
      BY <3>2, Zenon
  <2>3. h \in [0 .. k -> S]
    BY <2>2
  <2>4. h[k] = g[<<k, f[k - 1]>>] /\ \A i \in 0 .. k - 1 : h[i] = f[i]
    OBVIOUS
  <2> HIDE DEF h
  <2>5. h[0] = a
    BY <2>1, <2>4 DEF Solves
  <2>6. ASSUME NEW i \in 1 .. k PROVE h[i] = g[<<i, h[i - 1]>>]
    <3>1. h[i - 1] = f[i - 1]
      BY <2>4
    <3>2. CASE i = k
      BY <2>4, <3>1, <3>2, Zenon
    <3>3. CASE i # k
      <4>1. i \in 1 .. k - 1 /\ h[i] = f[i]
        BY <2>4, <3>3
      <4> QED
        BY <2>1, <3>1, <4>1, Zenon DEF Solves
    <3> QED
      BY <3>2, <3>3, Zenon
  <2>7. Solves(h, k, a, g)
    BY <2>5, <2>6, Zenon DEF Solves
  <2>8. k \in 0 .. n
    OBVIOUS
  <2> QED
    BY <2>3, <2>7, <2>8, Zenon
<1> HIDE DEF T
<1>3. 0 .. n \subseteq T
  BY <1>1, <1>2, Induction, Zenon
<1>4. n \in T
  BY <1>3
<1> QED
  BY <1>4, Zenon DEF T

\* A window is a function from COUNTs to elements.
LEMMA WindowFacts ==
  ASSUME NEW w \in Windows
  PROVE  /\ DOMAIN w \in SUBSET Nat /\ w \in [DOMAIN w -> Element]
         /\ \A c \in DOMAIN w : /\ w[c] \in Element /\ w[c].sdu \in Nat /\ w[c].age \in Nat
                                /\ w[c].pdu \in Int
<1>1. PICK D \in SUBSET Nat : w \in [D -> Element]
  BY Zenon DEF Windows
<1>2. DOMAIN w = D
  BY <1>1, Zenon
<1>3. \A c \in D : w[c] \in Element
  BY <1>1, Zenon
<1> QED
  BY <1>1, <1>2, <1>3, Zenon DEF Element

\* A function from COUNTs to elements is a window.
LEMMA IsWindow ==
  ASSUME NEW D \in SUBSET Nat, NEW w \in [D -> Element]
  PROVE  w \in Windows
  BY Zenon DEF Windows

\* The fields of an entity.
LEMMA TxFacts ==
  ASSUME NEW r \in Tx
  PROVE  /\ r.tx_next \in Nat /\ r.tx_trans_crypto \in Nat /\ r.tx_reord_crypto \in Nat
         /\ r.tx_trans \in Nat /\ r.tx_next_ack \in Nat /\ r.window \in Windows
         /\ r.discard_timer \in Nat \cup {Off} /\ r.late \in Nat /\ r.crypto_reordering_timer \in BOOLEAN
         /\ r.retransmit_id \in Nat /\ r.tasks \in SUBSET Task /\ r.submitted \in SUBSET Nat
         /\ r.last \in Int /\ r.disorder \in BOOLEAN
         /\ r.failed \in {"no", "window", "timer", "loop"}
  BY Zenon DEF Tx

-----------------------------------------------------------------------------
\* Submission to RLC.

\* s holds the SDUs that r does.
Kept(r, s) ==
  /\ s.tx_next = r.tx_next /\ s.tx_next_ack = r.tx_next_ack /\ s.retransmit_id = r.retransmit_id
  /\ s.discard_timer = r.discard_timer /\ s.late = r.late /\ s.tasks = r.tasks
  /\ DOMAIN s.window = DOMAIN r.window
  /\ \A c \in DOMAIN r.window : /\ s.window[c].sdu = r.window[c].sdu
                                /\ s.window[c].age = r.window[c].age
  /\ s.failed = "no" => r.failed = "no"

\* Some of their PDUs have left.
Passed(r, s) ==
  Kept(r, s) /\ \A c \in DOMAIN r.window : s.window[c].pdu \in {NoPdu, r.window[c].pdu}

\* PDUs that are passed to RLC.
LEMMA WriteFields ==
  ASSUME NEW r \in Tx, NEW C \in SUBSET Nat
  PROVE  LET s == write_data_pdus_to_lower_layers(r, C) IN
         /\ s \in Tx => Passed(r, s)
         /\ s.tx_next = r.tx_next /\ s.tx_trans_crypto = r.tx_trans_crypto
         /\ s.tx_reord_crypto = r.tx_reord_crypto /\ s.tx_trans = r.tx_trans
         /\ s.crypto_reordering_timer = r.crypto_reordering_timer /\ s.failed = r.failed
         /\ (C = {} => s = r)
         /\ (C # {} => s.last = Greatest(C) /\ s.disorder = (r.disorder \/ Least(C) <= r.last))
         /\ (C # {} /\ Greatest(C) \in Int => s \in Tx)
<1> DEFINE s == write_data_pdus_to_lower_layers(r, C)
           w == [c \in DOMAIN r.window |->
                   IF c \in C THEN [r.window[c] EXCEPT !.pdu = NoPdu] ELSE r.window[c]]
           u == r.submitted \cup C
           d == r.disorder \/ Least(C) <= r.last
           g == Greatest(C)
<1>1. CASE C = {}
  <2>1. s = r
    BY <1>1, Zenon DEF write_data_pdus_to_lower_layers
  <2> HIDE DEF s
  <2> QED
    BY <1>1, <2>1, Zenon DEF Passed, Kept, s
<1>2. CASE C # {}
  <2>1. s = [r EXCEPT !.window = w, !.submitted = u, !.disorder = d, !.last = g]
    BY <1>2, Zenon DEF write_data_pdus_to_lower_layers
  <2>2. /\ DOMAIN w = DOMAIN r.window
        /\ \A c \in DOMAIN r.window : /\ w[c] \in Element
                                      /\ w[c].sdu = r.window[c].sdu /\ w[c].age = r.window[c].age
                                      /\ w[c].pdu \in {NoPdu, r.window[c].pdu}
    <3>1. \A c \in DOMAIN r.window : r.window[c] \in Element
      BY TxFacts, WindowFacts, Zenon
    <3>2. NoPdu \in Int
      BY DEF NoPdu
    <3>3. ASSUME NEW x \in Element
          PROVE  LET y == [x EXCEPT !.pdu = NoPdu] IN
                 y \in Element /\ y.sdu = x.sdu /\ y.age = x.age /\ y.pdu = NoPdu
      BY <3>2, Zenon DEF Element
    <3> QED
      BY <3>1, <3>3, Zenon
  <2>3. w \in Windows
    <3>1. DOMAIN r.window \in SUBSET Nat
      BY TxFacts, WindowFacts, Zenon
    <3>2. w \in [DOMAIN r.window -> Element]
      BY <2>2, Zenon
    <3> QED
      BY <3>1, <3>2, IsWindow, Zenon
  <2>4. u \in SUBSET Nat /\ d \in BOOLEAN
    BY TxFacts, Zenon
  <2> HIDE DEF s, w, u, d, g
  <2>5. /\ s.tx_next = r.tx_next /\ s.tx_trans_crypto = r.tx_trans_crypto
        /\ s.tx_reord_crypto = r.tx_reord_crypto /\ s.tx_trans = r.tx_trans
        /\ s.tx_next_ack = r.tx_next_ack /\ s.retransmit_id = r.retransmit_id
        /\ s.discard_timer = r.discard_timer /\ s.late = r.late /\ s.tasks = r.tasks
        /\ s.crypto_reordering_timer = r.crypto_reordering_timer /\ s.failed = r.failed
        /\ s.window = w /\ s.last = g /\ s.disorder = d
    BY <2>1, Zenon DEF Tx
  <2>6. g \in Int => s \in Tx
    BY <2>1, <2>3, <2>4, Zenon DEF Tx
  <2>7. Passed(r, s)
    BY <2>2, <2>5, Zenon DEF Passed, Kept
  <2> QED
    BY <1>2, <2>5, <2>6, <2>7, Zenon DEF s, d, g
<1> QED
  BY <1>1, <1>2, Zenon

\* What is left in the window keeps its time, its COUNT and its place.
LEMMA KeptKeeps ==
  ASSUME NEW r \in Tx, NEW s \in Tx, Kept(r, s)
  PROVE  /\ Timed(r) => Timed(s)
         /\ Headed(r) => Headed(s)
         /\ \A done : Pooled(r, done) => Pooled(s, done)
<1>1. Timed(r) => Timed(s)
  BY Zenon DEF Timed, Kept
<1>2. Headed(r) => Headed(s)
  BY Zenon DEF Headed, Kept
<1>3. ASSUME NEW done, Pooled(r, done) PROVE Pooled(s, done)
  <2>1. {<<c, s.window[c].sdu>> : c \in DOMAIN s.window}
          = {<<c, r.window[c].sdu>> : c \in DOMAIN r.window}
    BY Zenon DEF Kept
  <2>2. Used(s, done) = Used(r, done)
    BY <2>1, Zenon DEF Used, Kept
  <2> QED
    BY <1>3, <2>2, Zenon DEF Pooled, Kept
<1> QED
  BY <1>1, <1>2, <1>3, Zenon

\* What Ordered says but for the timer.
Sound(r) ==
  /\ r.tx_next_ack <= r.tx_next /\ r.tx_trans_crypto <= r.tx_next
  /\ r.tx_reord_crypto <= r.tx_next
  /\ r.last < r.tx_trans_crypto /\ ~r.disorder
  /\ DOMAIN r.window \subseteq r.tx_next_ack .. r.tx_next - 1
  /\ \A c \in DOMAIN r.window : r.window[c].pdu <= r.retransmit_id

\* Windows and COUNTs of Sound are kept when PDUs leave.
LEMMA PassedSound ==
  ASSUME NEW r \in Tx, NEW s \in Tx, Passed(r, s), Sound(r)
  PROVE  /\ s.tx_next_ack <= s.tx_next
         /\ DOMAIN s.window \subseteq s.tx_next_ack .. s.tx_next - 1
         /\ \A c \in DOMAIN s.window : s.window[c].pdu <= s.retransmit_id
<1>1. ASSUME NEW c \in DOMAIN s.window PROVE s.window[c].pdu <= s.retransmit_id
  <2>1. c \in DOMAIN r.window /\ s.window[c].pdu \in {NoPdu, r.window[c].pdu}
        /\ s.retransmit_id = r.retransmit_id /\ r.window[c].pdu <= r.retransmit_id
    BY Zenon DEF Passed, Kept, Sound
  <2>2. r.retransmit_id \in Nat
    BY TxFacts, Zenon
  <2> QED
    BY <2>1, <2>2 DEF NoPdu
<1>2. /\ s.tx_next_ack <= s.tx_next
      /\ DOMAIN s.window \subseteq s.tx_next_ack .. s.tx_next - 1
  BY Zenon DEF Passed, Kept, Sound
<1> QED
  BY <1>1, <1>2, Zenon

\* The loop that submits PDUs in order.
LEMMA SubmitOK ==
  ASSUME NEW r \in Tx, Sound(r)
  PROVE  LET e == SubmitInOrder(r) IN
         /\ e \in Tx /\ Passed(r, e) /\ Sound(e)
         /\ e.tx_reord_crypto = r.tx_reord_crypto
         /\ e.crypto_reordering_timer = r.crypto_reordering_timer
         /\ r.tx_trans_crypto <= e.tx_trans_crypto
<1> DEFINE S == {c \in r.tx_trans_crypto .. r.tx_next : c = r.tx_next \/ ~Waiting(r, c)}
           n == Least(S)
           C == r.tx_trans_crypto .. n - 1
           s == write_data_pdus_to_lower_layers(r, C)
           f == IF n < r.tx_next /\ ~has_sn(r, n) THEN "window" ELSE s.failed
           e == SubmitInOrder(r)
<1>1. /\ r.tx_next \in Nat /\ r.tx_trans_crypto \in Nat /\ r.tx_trans_crypto <= r.tx_next
      /\ r.last \in Int /\ r.last < r.tx_trans_crypto /\ ~r.disorder
  BY TxFacts, Zenon DEF Sound
<1>2. S \in SUBSET Nat /\ S # {}
  <2>1. r.tx_next \in S
    BY <1>1
  <2> QED
    BY <1>1, <2>1
<1> HIDE DEF S
<1>3. n \in S
  BY <1>2, LeastExists, Zenon
<1>4. n \in r.tx_trans_crypto .. r.tx_next /\ n \in Nat
  BY <1>1, <1>3 DEF S
<1> HIDE DEF n
<1>5. C \in SUBSET Nat /\ \A m \in C : m < n
  BY <1>1, <1>4
<1>6. s \in Tx /\ Passed(r, s) /\ s.last < n /\ ~s.disorder
  <2>1. CASE C = {}
    <3>1. s = r
      BY <1>5, <2>1, WriteFields, Zenon
    <3> HIDE DEF s
    <3> QED
      BY <1>1, <1>4, <3>1 DEF Passed, Kept
  <2>2. CASE C # {}
    <3>1. Least(C) \in C /\ Greatest(C) \in C
      <4> HIDE DEF C
      <4>1. n \in Nat
        BY <1>4, Zenon
      <4> QED
        BY <1>5, <2>2, <4>1, LeastExists, GreatestExists, Zenon
    <3>2. ~(Least(C) <= r.last) /\ Greatest(C) < n /\ Greatest(C) \in Int
      BY <1>1, <1>4, <3>1
    <3> HIDE DEF C
    <3>3. /\ s.last = Greatest(C) /\ s.disorder = (r.disorder \/ Least(C) <= r.last)
          /\ s \in Tx /\ Passed(r, s)
      BY <1>5, <2>2, <3>2, WriteFields, Zenon
    <3> HIDE DEF s
    <3> QED
      BY <1>1, <3>2, <3>3, Zenon
  <2> QED
    BY <2>1, <2>2, Zenon
<1>7. /\ s.tx_next = r.tx_next /\ s.tx_reord_crypto = r.tx_reord_crypto /\ s.failed = r.failed
      /\ s.crypto_reordering_timer = r.crypto_reordering_timer
  BY <1>5, WriteFields, Zenon
<1>8. e = [s EXCEPT !.tx_trans_crypto = n, !.failed = f]
  BY Zenon DEF SubmitInOrder, n, S
<1>9. f \in {"no", "window", "timer", "loop"} /\ (f = "no" => s.failed = "no")
  <2>1. s.failed \in {"no", "window", "timer", "loop"}
    BY <1>6, TxFacts, Zenon
  <2> HIDE DEF s
  <2> QED
    BY <2>1, Zenon
<1> HIDE DEF s, f, e
<1>10. /\ e \in Tx /\ e.tx_trans_crypto = n /\ e.failed = f
       /\ e.tx_next = s.tx_next /\ e.tx_reord_crypto = s.tx_reord_crypto
       /\ e.tx_next_ack = s.tx_next_ack /\ e.window = s.window
       /\ e.discard_timer = s.discard_timer /\ e.late = s.late /\ e.retransmit_id = s.retransmit_id
       /\ e.crypto_reordering_timer = s.crypto_reordering_timer
       /\ e.tasks = s.tasks /\ e.last = s.last /\ e.disorder = s.disorder
  BY <1>4, <1>6, <1>8, <1>9, Zenon DEF Tx
<1>11. Passed(r, e)
  BY <1>6, <1>9, <1>10, Zenon DEF Passed, Kept
<1>12. Sound(e)
  <2>1. /\ e.tx_next_ack <= e.tx_next
        /\ DOMAIN e.window \subseteq e.tx_next_ack .. e.tx_next - 1
        /\ \A c \in DOMAIN e.window : e.window[c].pdu <= e.retransmit_id
    BY <1>10, <1>11, PassedSound, Zenon
  <2>2. /\ e.tx_trans_crypto <= e.tx_next /\ e.tx_reord_crypto <= e.tx_next
        /\ e.last < e.tx_trans_crypto /\ ~e.disorder
    BY <1>1, <1>4, <1>6, <1>7, <1>10 DEF Sound
  <2> QED
    BY <2>1, <2>2, Zenon DEF Sound
<1>13. r.tx_trans_crypto <= e.tx_trans_crypto
  BY <1>1, <1>4, <1>10
<1> QED
  BY <1>7, <1>10, <1>11, <1>12, <1>13, Zenon DEF e

\* The reordering timer is started again.
LEMMA StartOK ==
  ASSUME NEW r \in Tx, Sound(r)
  PROVE  LET e == StartReordering(r) IN
         e \in Tx /\ Kept(r, e) /\ Sound(e) /\ e.crypto_reordering_timer
<1> DEFINE e == StartReordering(r)
<1>1. e = [r EXCEPT !.tx_reord_crypto = r.tx_next, !.crypto_reordering_timer = TRUE]
  BY Zenon DEF StartReordering
<1>2. r.tx_next \in Nat
  BY TxFacts, Zenon
<1> HIDE DEF e
<1>3. /\ e \in Tx /\ e.tx_reord_crypto = r.tx_next /\ e.crypto_reordering_timer
      /\ e.tx_next = r.tx_next /\ e.tx_trans_crypto = r.tx_trans_crypto
      /\ e.tx_next_ack = r.tx_next_ack /\ e.window = r.window
      /\ e.discard_timer = r.discard_timer /\ e.late = r.late /\ e.retransmit_id = r.retransmit_id
      /\ e.tasks = r.tasks /\ e.last = r.last /\ e.disorder = r.disorder
      /\ e.failed = r.failed
  BY <1>1, <1>2, Zenon DEF Tx
<1>4. e.tx_reord_crypto <= e.tx_next
  BY <1>2, <1>3
<1>5. Sound(e) /\ Kept(r, e)
  BY <1>3, <1>4, Zenon DEF Sound, Kept
<1> QED
  BY <1>3, <1>5, Zenon DEF e

\* A window of which everything was submitted, or whose timer runs.
LEMMA WatchedOK ==
  ASSUME NEW r \in Tx, r.crypto_reordering_timer \/ ~(r.tx_trans_crypto < r.tx_next)
  PROVE  Watched(r)
<1>1. CASE r.crypto_reordering_timer
  BY <1>1, Zenon DEF Watched
<1>2. CASE ~(r.tx_trans_crypto < r.tx_next)
  <2>1. r.tx_trans_crypto .. r.tx_next - 1 = {}
    BY <1>2, TxFacts
  <2> QED
    BY <2>1, Zenon DEF Watched
<1> QED
  BY <1>1, <1>2, Zenon

\* A PDU comes back from the pool and is put in order.
LEMMA ReorderedOK ==
  ASSUME NEW r \in Tx, Sound(r), NEW t \in Task,
         t.count \in DOMAIN r.window, t.retx_id = r.retransmit_id
  PROVE  LET e == reordered(r, t) IN e \in Tx /\ Kept(r, e) /\ Sound(e) /\ Watched(e)
<1> DEFINE x == [r.window[t.count] EXCEPT !.pdu = t.retx_id]
           w == [r.window EXCEPT ![t.count] = x]
           p == [r EXCEPT !.window = w]
           s == SubmitInOrder(p)
           b == s.crypto_reordering_timer /\ ~(s.tx_trans_crypto >= s.tx_reord_crypto)
           q == [s EXCEPT !.crypto_reordering_timer = b]
           e == reordered(r, t)
<1>1. e = IF ~q.crypto_reordering_timer /\ q.tx_trans_crypto < q.tx_next
          THEN StartReordering(q) ELSE q
  BY Zenon DEF reordered
<1>2. r.window[t.count] \in Element /\ t.retx_id \in Nat
  BY TxFacts, WindowFacts, Zenon DEF Task
<1>3. /\ x \in Element /\ x.sdu = r.window[t.count].sdu /\ x.age = r.window[t.count].age
      /\ x.pdu = t.retx_id
  <2>1. t.retx_id \in Int
    BY <1>2
  <2> QED
    BY <1>2, <2>1, Zenon DEF Element
<1> HIDE DEF x
<1>4. /\ w \in Windows /\ DOMAIN w = DOMAIN r.window
      /\ \A c \in DOMAIN r.window : w[c] = IF c = t.count THEN x ELSE r.window[c]
  <2>1. DOMAIN r.window \in SUBSET Nat /\ r.window \in [DOMAIN r.window -> Element]
    BY TxFacts, WindowFacts, Zenon
  <2>2. w \in [DOMAIN r.window -> Element]
    BY <1>3, <2>1, Zenon
  <2> QED
    BY <2>1, <2>2, IsWindow, Zenon
<1> HIDE DEF w
<1>5. /\ p \in Tx /\ p.tx_next = r.tx_next /\ p.tx_trans_crypto = r.tx_trans_crypto
      /\ p.tx_next_ack = r.tx_next_ack /\ p.window = w
      /\ p.discard_timer = r.discard_timer /\ p.late = r.late /\ p.retransmit_id = r.retransmit_id
      /\ p.tx_reord_crypto = r.tx_reord_crypto
      /\ p.tasks = r.tasks /\ p.last = r.last /\ p.disorder = r.disorder
      /\ p.failed = r.failed
  BY <1>4, Zenon DEF Tx
<1> HIDE DEF p
<1>6. Kept(r, p)
  <2>1. \A c \in DOMAIN r.window : w[c].sdu = r.window[c].sdu /\ w[c].age = r.window[c].age
    BY <1>3, <1>4, Zenon
  <2> QED
    BY <1>4, <1>5, <2>1, Zenon DEF Kept
<1>7. Sound(p)
  <2>1. t.retx_id <= t.retx_id
    BY <1>2
  <2>2. \A c \in DOMAIN w : w[c].pdu <= r.retransmit_id
    BY <1>3, <1>4, <2>1, Zenon DEF Sound
  <2> QED
    BY <1>4, <1>5, <2>2, Zenon DEF Sound
<1>8. s \in Tx /\ Passed(p, s) /\ Sound(s)
  BY <1>5, <1>7, SubmitOK, Zenon
<1> HIDE DEF s
<1>9. b \in BOOLEAN
  OBVIOUS
<1> HIDE DEF b
<1>10. /\ q \in Tx /\ q.tx_next = s.tx_next /\ q.tx_trans_crypto = s.tx_trans_crypto
       /\ q.tx_next_ack = s.tx_next_ack /\ q.window = s.window
       /\ q.discard_timer = s.discard_timer /\ q.late = s.late /\ q.retransmit_id = s.retransmit_id
       /\ q.tx_reord_crypto = s.tx_reord_crypto
       /\ q.tasks = s.tasks /\ q.last = s.last /\ q.disorder = s.disorder
       /\ q.failed = s.failed
  BY <1>8, <1>9, Zenon DEF Tx
<1> HIDE DEF q
<1>11. Kept(r, q) /\ Sound(q)
  <2>1. Kept(p, s)
    BY <1>8, Zenon DEF Passed
  <2>2. Sound(q)
    BY <1>8, <1>10, Zenon DEF Sound
  <2>3. Kept(r, q)
    BY <1>6, <2>1, <1>10, ZenonT(40) DEF Kept
  <2> QED
    BY <2>2, <2>3, Zenon
<1> HIDE DEF e
<1>12. CASE ~q.crypto_reordering_timer /\ q.tx_trans_crypto < q.tx_next
  <2>1. e = StartReordering(q)
    BY <1>1, <1>12, Zenon
  <2>2. e \in Tx /\ Kept(q, e) /\ Sound(e) /\ e.crypto_reordering_timer
    BY <1>10, <1>11, <2>1, StartOK, Zenon
  <2>3. Kept(r, e)
    BY <1>11, <2>2, Zenon DEF Kept
  <2> QED
    BY <2>2, <2>3, WatchedOK, Zenon DEF e
<1>13. CASE ~(~q.crypto_reordering_timer /\ q.tx_trans_crypto < q.tx_next)
  <2>1. e = q
    BY <1>1, <1>13, Zenon
  <2> QED
    BY <1>10, <1>11, <1>13, <2>1, WatchedOK, Zenon DEF e
<1> QED
  BY <1>12, <1>13, Zenon

\* The reordering timer expires.
LEMMA TimeoutOK ==
  ASSUME NEW r \in Tx, Sound(r)
  PROVE  LET waiting == {c \in r.tx_trans_crypto .. r.tx_reord_crypto - 1 : Waiting(r, c)}
             s == SubmitInOrder([write_data_pdus_to_lower_layers(r, waiting) EXCEPT
                                   !.tx_trans_crypto = r.tx_reord_crypto,
                                   !.crypto_reordering_timer = FALSE])
             e == IF r.tx_trans_crypto > r.tx_reord_crypto THEN [r EXCEPT !.failed = "loop"]
                  ELSE IF s.tx_trans_crypto < s.tx_next THEN StartReordering(s) ELSE s
         IN  e \in Tx /\ Kept(r, e) /\ Sound(e) /\ (e.failed = "no" => Watched(e))
<1> DEFINE C == {c \in r.tx_trans_crypto .. r.tx_reord_crypto - 1 : Waiting(r, c)}
           p == write_data_pdus_to_lower_layers(r, C)
           q == [p EXCEPT !.tx_trans_crypto = r.tx_reord_crypto,
                          !.crypto_reordering_timer = FALSE]
           s == SubmitInOrder(q)
           e == IF r.tx_trans_crypto > r.tx_reord_crypto THEN [r EXCEPT !.failed = "loop"]
                ELSE IF s.tx_trans_crypto < s.tx_next THEN StartReordering(s) ELSE s
<1> SUFFICES e \in Tx /\ Kept(r, e) /\ Sound(e) /\ (e.failed = "no" => Watched(e))
  OBVIOUS
<1>1. /\ r.tx_next \in Nat /\ r.tx_trans_crypto \in Nat /\ r.tx_reord_crypto \in Nat
      /\ r.tx_reord_crypto <= r.tx_next
      /\ r.last \in Int /\ r.last < r.tx_trans_crypto /\ ~r.disorder
  BY TxFacts, Zenon DEF Sound
<1>2. CASE r.tx_trans_crypto > r.tx_reord_crypto
  <2>1. e = [r EXCEPT !.failed = "loop"]
    BY <1>2, Zenon
  <2> HIDE DEF e
  <2>2. /\ e \in Tx /\ e.tx_next = r.tx_next /\ e.tx_trans_crypto = r.tx_trans_crypto
        /\ e.tx_next_ack = r.tx_next_ack /\ e.window = r.window
        /\ e.discard_timer = r.discard_timer /\ e.late = r.late /\ e.retransmit_id = r.retransmit_id
        /\ e.tx_reord_crypto = r.tx_reord_crypto
        /\ e.tasks = r.tasks /\ e.last = r.last /\ e.disorder = r.disorder
        /\ e.failed = "loop"
    BY <2>1, Zenon DEF Tx
  <2>3. e.failed # "no"
    BY <2>2, Zenon
  <2> QED
    BY <2>2, <2>3, Zenon DEF Kept, Sound
<1>3. CASE ~(r.tx_trans_crypto > r.tx_reord_crypto)
  <2>1. e = IF s.tx_trans_crypto < s.tx_next THEN StartReordering(s) ELSE s
    BY <1>3, Zenon
  <2> HIDE DEF e
  <2>2. C \in SUBSET Nat /\ \A m \in C : m < r.tx_reord_crypto
    BY <1>1
  <2>3. /\ p \in Tx /\ Passed(r, p) /\ p.last < r.tx_reord_crypto /\ ~p.disorder
    <3>1. CASE C = {}
      <4>1. p = r
        BY <2>2, <3>1, WriteFields, Zenon
      <4> HIDE DEF p
      <4> QED
        BY <1>1, <1>3, <4>1 DEF Passed, Kept
    <3>2. CASE C # {}
      <4>1. Least(C) \in C /\ Greatest(C) \in C
        <5> HIDE DEF C
        <5> QED
          BY <1>1, <2>2, <3>2, LeastExists, GreatestExists, Zenon
      <4>2. ~(Least(C) <= r.last) /\ Greatest(C) < r.tx_reord_crypto /\ Greatest(C) \in Int
        BY <1>1, <4>1
      <4> HIDE DEF C
      <4>3. /\ p.last = Greatest(C) /\ p.disorder = (r.disorder \/ Least(C) <= r.last)
            /\ p \in Tx /\ Passed(r, p)
        BY <2>2, <3>2, <4>2, WriteFields, Zenon
      <4> HIDE DEF p
      <4> QED
        BY <1>1, <4>2, <4>3, Zenon
    <3> QED
      BY <3>1, <3>2, Zenon
  <2>4. p.tx_next = r.tx_next /\ p.tx_reord_crypto = r.tx_reord_crypto
    BY <2>2, WriteFields, Zenon
  <2> HIDE DEF p
  <2>5. /\ q \in Tx /\ q.tx_next = p.tx_next /\ q.tx_trans_crypto = r.tx_reord_crypto
        /\ q.tx_next_ack = p.tx_next_ack /\ q.window = p.window
        /\ q.discard_timer = p.discard_timer /\ q.late = p.late /\ q.retransmit_id = p.retransmit_id
        /\ q.tx_reord_crypto = p.tx_reord_crypto
        /\ q.tasks = p.tasks /\ q.last = p.last /\ q.disorder = p.disorder
        /\ q.failed = p.failed
    BY <1>1, <2>3, Zenon DEF Tx
  <2> HIDE DEF q
  <2>6. Passed(r, q)
    BY <2>3, <2>5, Zenon DEF Passed, Kept
  <2>7. Sound(q)
    <3>1. /\ q.tx_next_ack <= q.tx_next
          /\ DOMAIN q.window \subseteq q.tx_next_ack .. q.tx_next - 1
          /\ \A c \in DOMAIN q.window : q.window[c].pdu <= q.retransmit_id
      BY <2>5, <2>6, PassedSound, Zenon
    <3> QED
      BY <1>1, <2>3, <2>4, <2>5, <3>1, Zenon DEF Sound
  <2>8. s \in Tx /\ Passed(q, s) /\ Sound(s)
    BY <2>5, <2>7, SubmitOK, Zenon
  <2> HIDE DEF s
  <2>9. Kept(r, s)
    BY <2>6, <2>8, Zenon DEF Passed, Kept
  <2>10. CASE s.tx_trans_crypto < s.tx_next
    <3>1. e = StartReordering(s)
      BY <2>1, <2>10, Zenon
    <3>2. e \in Tx /\ Kept(s, e) /\ Sound(e) /\ e.crypto_reordering_timer
      BY <2>8, <3>1, StartOK, Zenon
    <3>3. Kept(r, e)
      BY <2>9, <3>2, Zenon DEF Kept
    <3> QED
      BY <3>2, <3>3, WatchedOK, Zenon
  <2>11. CASE ~(s.tx_trans_crypto < s.tx_next)
    <3>1. e = s
      BY <2>1, <2>11, Zenon
    <3> QED
      BY <2>8, <2>9, <2>11, <3>1, WatchedOK, Zenon
  <2> QED
    BY <2>10, <2>11, Zenon
<1> QED
  BY <1>2, <1>3, Zenon

-----------------------------------------------------------------------------
\* Discarding.

\* SDUs have left the window, and TX_NEXT_ACK has moved.
Fewer(r, s) ==
  /\ s.tx_next = r.tx_next /\ s.tx_trans_crypto = r.tx_trans_crypto
  /\ s.tx_reord_crypto = r.tx_reord_crypto
  /\ s.crypto_reordering_timer = r.crypto_reordering_timer
  /\ s.retransmit_id = r.retransmit_id /\ s.tasks = r.tasks
  /\ s.last = r.last /\ s.disorder = r.disorder
  /\ s.failed = "no" => r.failed = "no"
  /\ r.tx_next_ack <= s.tx_next_ack /\ s.tx_next_ack <= s.tx_next
  /\ DOMAIN s.window \subseteq DOMAIN r.window
  /\ DOMAIN s.window \subseteq s.tx_next_ack .. s.tx_next - 1
  /\ \A c \in DOMAIN s.window : s.window[c] = r.window[c]

\* Removing SDUs from the window breaks neither the order nor the use of COUNTs.
LEMMA FewerKeeps ==
  ASSUME NEW r \in Tx, NEW s \in Tx, Fewer(r, s)
  PROVE  /\ Ordered(r) => Ordered(s)
         /\ \A done : Pooled(r, done) => Pooled(s, done)
<1>1. ASSUME Watched(r) PROVE Watched(s)
  BY <1>1, Zenon DEF Watched, Waiting, has_sn, Fewer
<1>2. Ordered(r) => Ordered(s)
  BY <1>1, Zenon DEF Ordered, Fewer
<1>3. ASSUME NEW done, Pooled(r, done) PROVE Pooled(s, done)
  <2>1. {<<c, s.window[c].sdu>> : c \in DOMAIN s.window}
          \subseteq {<<c, r.window[c].sdu>> : c \in DOMAIN r.window}
    BY Zenon DEF Fewer
  <2>2. Used(s, done) \subseteq Used(r, done)
    BY <2>1, Zenon DEF Used, Fewer
  <2> QED
    BY <1>3, <2>2, Zenon DEF Pooled, Fewer
<1> QED
  BY <1>2, <1>3, Zenon

\* What is kept of a window.
LEMMA KeepOK ==
  ASSUME NEW r \in Tx, NEW D
  PROVE  LET s == Keep(r, D) IN
         /\ s \in Tx /\ s = [r EXCEPT !.window = s.window]
         /\ DOMAIN s.window = DOMAIN r.window \cap D
         /\ \A c \in DOMAIN s.window : s.window[c] = r.window[c]
<1> DEFINE w == [c \in DOMAIN r.window \cap D |-> r.window[c]]
<1>1. Keep(r, D) = [r EXCEPT !.window = w]
  BY Zenon DEF Keep
<1>2. DOMAIN r.window \in SUBSET Nat /\ \A c \in DOMAIN r.window : r.window[c] \in Element
  BY TxFacts, WindowFacts, Zenon
<1>3. /\ DOMAIN w = DOMAIN r.window \cap D /\ DOMAIN r.window \cap D \in SUBSET Nat
      /\ w \in [DOMAIN r.window \cap D -> Element]
      /\ \A c \in DOMAIN r.window \cap D : w[c] = r.window[c]
  BY <1>2, Zenon
<1>4. w \in Windows
  BY <1>3, IsWindow, Zenon
<1> HIDE DEF w
<1>5. Keep(r, D) \in Tx /\ Keep(r, D).window = w
  BY <1>1, <1>4, ZenonT(30) DEF Tx
<1> QED
  BY <1>1, <1>3, <1>5, Zenon

\* The discard timer is started.
LEMMA RunOK ==
  ASSUME NEW r \in Tx, NEW d \in Int
  PROVE  LET s == RunDiscard(r, d) IN
         /\ s \in Tx
         /\ s.tx_next = r.tx_next /\ s.tx_trans_crypto = r.tx_trans_crypto
         /\ s.tx_reord_crypto = r.tx_reord_crypto /\ s.tx_next_ack = r.tx_next_ack
         /\ s.crypto_reordering_timer = r.crypto_reordering_timer
         /\ s.retransmit_id = r.retransmit_id /\ s.tasks = r.tasks
         /\ s.last = r.last /\ s.disorder = r.disorder /\ s.window = r.window
         /\ s.late = r.late
         /\ s.failed = "no" => /\ r.failed = "no" /\ 0 <= d
                               /\ s.discard_timer = IF d = 0 THEN 1 ELSE d
<1> DEFINE s == RunDiscard(r, d)
<1>1. CASE d < 0
  <2>1. s = [r EXCEPT !.failed = "timer"]
    BY <1>1, Zenon DEF RunDiscard
  <2> HIDE DEF s
  <2>2. /\ s \in Tx
        /\ s.tx_next = r.tx_next /\ s.tx_trans_crypto = r.tx_trans_crypto
        /\ s.tx_reord_crypto = r.tx_reord_crypto /\ s.tx_next_ack = r.tx_next_ack
        /\ s.crypto_reordering_timer = r.crypto_reordering_timer
        /\ s.retransmit_id = r.retransmit_id /\ s.tasks = r.tasks
        /\ s.last = r.last /\ s.disorder = r.disorder /\ s.window = r.window
        /\ s.late = r.late /\ s.failed = "timer"
    BY <2>1, Zenon DEF Tx
  <2>3. s.failed # "no"
    BY <2>2, Zenon
  <2> QED
    BY <2>2, <2>3, Zenon DEF s
<1>2. CASE ~(d < 0)
  <2> DEFINE k == IF d = 0 THEN 1 ELSE d
  <2>1. s = [r EXCEPT !.discard_timer = k]
    BY <1>2, Zenon DEF RunDiscard
  <2>2. k \in Nat \cup {Off} /\ 0 <= d
    BY <1>2
  <2> HIDE DEF s, k
  <2>3. /\ s \in Tx
        /\ s.tx_next = r.tx_next /\ s.tx_trans_crypto = r.tx_trans_crypto
        /\ s.tx_reord_crypto = r.tx_reord_crypto /\ s.tx_next_ack = r.tx_next_ack
        /\ s.crypto_reordering_timer = r.crypto_reordering_timer
        /\ s.retransmit_id = r.retransmit_id /\ s.tasks = r.tasks
        /\ s.last = r.last /\ s.disorder = r.disorder /\ s.window = r.window
        /\ s.failed = r.failed /\ s.discard_timer = k /\ s.late = r.late
    BY <2>1, <2>2, Zenon DEF Tx
  <2> QED
    BY <2>2, <2>3, Zenon DEF s, k
<1> QED
  BY <1>1, <1>2, Zenon

\* What is older is at least as old: ages do not grow with COUNTs.
Aged(r) == \A c, d \in DOMAIN r.window : c <= d => r.window[d].age <= r.window[c].age

\* A timer that is started for the head of a window serves the whole window.
LEMMA TimerServes ==
  ASSUME NEW r \in Tx, Aged(r), r.tx_next_ack \in DOMAIN r.window,
         DOMAIN r.window \subseteq r.tx_next_ack .. r.tx_next - 1,
         NEW d \in Int, d = 0 => r.window[r.tx_next_ack].age <= Discard + r.late,
         d # 0 => r.window[r.tx_next_ack].age + d <= Discard + 1 + r.late
  PROVE  Timed(RunDiscard(r, d))
<1> DEFINE s == RunDiscard(r, d)
           w == r.window
           h == r.tx_next_ack
           k == s.discard_timer
           m == Discard + 1 + r.late
<1> SUFFICES ASSUME s.failed = "no" PROVE Timed(s)
  BY Zenon DEF Timed
<1>1. /\ s.window = w /\ s.tx_next_ack = h /\ s.late = r.late /\ 0 <= d
      /\ k = IF d = 0 THEN 1 ELSE d
  BY RunOK, Zenon
<1>2. h \in Nat /\ r.tx_next \in Nat /\ \A c \in DOMAIN w : w[c].age \in Nat /\ c \in Nat /\ h <= c
  BY TxFacts, WindowFacts
<1> HIDE DEF s, w, h
<1>3. k \in Nat /\ w[h].age + k <= m /\ m \in Nat
  BY <1>1, <1>2, TxFacts, DiscardAssumption DEF w, h
<1> HIDE DEF k, m
<1>4. k <= m /\ k # Off
  BY <1>2, <1>3, DiscardAssumption DEF Off, w, h
<1>5. \A c \in DOMAIN w : w[c].age <= w[h].age
  BY <1>2, Zenon DEF Aged, w, h
<1>6. \A c \in DOMAIN w : w[c].age + k <= m
  <2> TAKE c \in DOMAIN w
  <2> DEFINE a == w[c].age
             b == w[h].age
  <2>1. a \in Nat /\ b \in Nat /\ a <= b /\ b + k <= m
    BY <1>2, <1>3, <1>5, Zenon DEF w, h
  <2> HIDE DEF a, b
  <2>2. a + k <= m
    BY <1>3, <2>1
  <2> QED
    BY <2>2, Zenon DEF a
<1> QED
  BY <1>1, <1>4, <1>6, Zenon DEF Timed, Aged, w, h, k, m

\* What TX_NEXT_ACK acknowledges leaves the window.
LEMMA StopOK ==
  ASSUME NEW r \in Tx, Ordered(r), NEW h \in Nat
  PROVE  LET e == stop_discard_timer(r, h) IN
         /\ e \in Tx /\ Fewer(r, e)
         /\ finite => (Timed(r) => Timed(e)) /\ (Headed(r) => Headed(e))
<1> DEFINE e == stop_discard_timer(r, h)
           D == {c \in DOMAIN r.window : c > h}
           p == Keep(r, D)
           x == Greatest({p.tx_trans, h + 1})
           s == [p EXCEPT !.discard_timer = Off, !.late = 0, !.tx_next_ack = h + 1, !.tx_trans = x]
           out == h < r.tx_next_ack \/ h >= r.tx_next \/ ~has_sn(r, r.tx_next_ack)
<1>1. /\ r.tx_next \in Nat /\ r.tx_next_ack \in Nat /\ r.tx_trans \in Nat
      /\ r.tx_next_ack <= r.tx_next
      /\ DOMAIN r.window \subseteq r.tx_next_ack .. r.tx_next - 1
  BY TxFacts, Zenon DEF Ordered
<1>2. CASE out
  <2>1. e = r
    BY <1>2, Zenon DEF stop_discard_timer
  <2>2. r.tx_next_ack <= r.tx_next_ack
    BY <1>1
  <2> HIDE DEF e
  <2> QED
    BY <1>1, <2>1, <2>2, Zenon DEF Fewer, e
<1>3. CASE ~out
  <2>1. e = IF ~finite \/ s.tx_next_ack = s.tx_next THEN s
            ELSE IF ~has_sn(s, s.tx_next_ack) THEN [s EXCEPT !.failed = "window"]
            ELSE RunDiscard(s, Discard - s.window[s.tx_next_ack].age)
    BY <1>3, Zenon DEF stop_discard_timer
  <2> HIDE DEF e
  <2>2. r.tx_next_ack <= h /\ h < r.tx_next /\ h + 1 \in Nat /\ x \in Nat /\ r.tx_next_ack <= h + 1
        /\ h + 1 <= r.tx_next
    <3>1. x \in Nat
      <4>1. p \in Tx
        BY KeepOK, Zenon
      <4> HIDE DEF p
      <4>2. p.tx_trans \in Nat /\ h + 1 \in Nat
        BY <4>1, TxFacts
      <4> QED
        BY <4>2, GreatestOfTwo, Zenon
    <3> QED
      BY <1>1, <1>3, <3>1
  <2>3. /\ p \in Tx /\ p = [r EXCEPT !.window = p.window]
        /\ DOMAIN p.window = DOMAIN r.window \cap D
        /\ \A c \in DOMAIN p.window : p.window[c] = r.window[c]
    BY KeepOK, Zenon
  <2> HIDE DEF p, x
  <2>4. /\ s \in Tx
        /\ s.tx_next = r.tx_next /\ s.tx_trans_crypto = r.tx_trans_crypto
        /\ s.tx_reord_crypto = r.tx_reord_crypto /\ s.tx_next_ack = h + 1
        /\ s.crypto_reordering_timer = r.crypto_reordering_timer
        /\ s.retransmit_id = r.retransmit_id /\ s.tasks = r.tasks
        /\ s.last = r.last /\ s.disorder = r.disorder /\ s.window = p.window
        /\ s.failed = r.failed /\ s.discard_timer = Off /\ s.late = 0
    <3>1. Off \in Nat \cup {Off} /\ 0 \in Nat
      OBVIOUS
    <3>2. /\ p.tx_next = r.tx_next /\ p.tx_trans_crypto = r.tx_trans_crypto
          /\ p.tx_reord_crypto = r.tx_reord_crypto
          /\ p.crypto_reordering_timer = r.crypto_reordering_timer
          /\ p.retransmit_id = r.retransmit_id /\ p.tasks = r.tasks
          /\ p.last = r.last /\ p.disorder = r.disorder
          /\ p.failed = r.failed
      BY <2>3, Zenon DEF Tx
    <3>3. /\ s \in Tx
          /\ s.tx_next = p.tx_next /\ s.tx_trans_crypto = p.tx_trans_crypto
          /\ s.tx_reord_crypto = p.tx_reord_crypto /\ s.tx_next_ack = h + 1
          /\ s.crypto_reordering_timer = p.crypto_reordering_timer
          /\ s.retransmit_id = p.retransmit_id /\ s.tasks = p.tasks
          /\ s.last = p.last /\ s.disorder = p.disorder /\ s.window = p.window
          /\ s.failed = p.failed /\ s.discard_timer = Off /\ s.late = 0
      BY <2>2, <2>3, <3>1, Zenon DEF Tx
    <3> HIDE DEF s
    <3> QED
      BY <3>2, <3>3, Zenon
  <2>5. DOMAIN s.window \subseteq h + 1 .. r.tx_next - 1
    BY <1>1, <2>2, <2>3, <2>4
  <2>6. DOMAIN s.window \subseteq DOMAIN r.window
        /\ \A c \in DOMAIN s.window : s.window[c] = r.window[c]
    BY <2>3, <2>4, ZenonT(30)
  <2> HIDE DEF s, D
  <2>7. Fewer(r, s)
    BY <2>2, <2>4, <2>5, <2>6, Zenon DEF Fewer
  <2>8. Timed(r) /\ r.failed = "no" => Aged(s)
    BY <2>6, Zenon DEF Timed, Aged
  <2>9. CASE ~finite \/ s.tx_next_ack = s.tx_next
    <3>1. e = s
      BY <2>1, <2>9, Zenon
    <3>2. finite => DOMAIN s.window = {}
      BY <1>1, <2>4, <2>5, <2>9
    <3>3. Off <= Discard + 1 + 0
      BY DiscardAssumption DEF Off
    <3>4. finite => Timed(s) /\ Headed(s)
      BY <2>4, <2>9, <3>2, <3>3, Zenon DEF Timed, Headed
    <3> QED
      BY <2>4, <2>7, <3>1, <3>4, Zenon DEF e
  <2>10. CASE ~(~finite \/ s.tx_next_ack = s.tx_next) /\ ~has_sn(s, s.tx_next_ack)
    <3>1. e = [s EXCEPT !.failed = "window"]
      BY <2>1, <2>10, Zenon
    <3>2. /\ e \in Tx
          /\ e.tx_next = s.tx_next /\ e.tx_trans_crypto = s.tx_trans_crypto
          /\ e.tx_reord_crypto = s.tx_reord_crypto /\ e.tx_next_ack = s.tx_next_ack
          /\ e.crypto_reordering_timer = s.crypto_reordering_timer
          /\ e.retransmit_id = s.retransmit_id /\ e.tasks = s.tasks
          /\ e.last = s.last /\ e.disorder = s.disorder /\ e.window = s.window
          /\ e.failed = "window"
      BY <2>4, <3>1, Zenon DEF Tx
    <3>3. e.failed # "no"
      BY <3>2, Zenon
    <3>4. Fewer(r, e)
      BY <2>7, <3>2, <3>3, ZenonT(30) DEF Fewer
    <3> QED
      BY <3>2, <3>3, <3>4, Zenon DEF Timed, Headed, e
  <2>11. CASE ~(~finite \/ s.tx_next_ack = s.tx_next) /\ has_sn(s, s.tx_next_ack)
    <3> DEFINE a == s.window[s.tx_next_ack].age
    <3>1. e = RunDiscard(s, Discard - a)
      BY <2>1, <2>11, Zenon
    <3>2. s.tx_next_ack \in DOMAIN s.window
      BY <2>11, Zenon DEF has_sn
    <3>3. a \in Nat
      BY <2>4, <3>2, TxFacts, WindowFacts, Zenon
    <3>4. DOMAIN s.window \subseteq s.tx_next_ack .. s.tx_next - 1
      BY <2>4, <2>5, Zenon
    <3> DEFINE d == Discard - a
    <3>5. d \in Int /\ (d = 0 => a <= Discard + 0) /\ (d # 0 => a + d <= Discard + 1 + 0)
      <4> HIDE DEF a
      <4> QED
        BY <3>3, DiscardAssumption
    <3>6. e = RunDiscard(s, d)
      BY <3>1, Zenon
    <3> HIDE DEF d
    <3>7. /\ e \in Tx
          /\ e.tx_next = s.tx_next /\ e.tx_trans_crypto = s.tx_trans_crypto
          /\ e.tx_reord_crypto = s.tx_reord_crypto /\ e.tx_next_ack = s.tx_next_ack
          /\ e.crypto_reordering_timer = s.crypto_reordering_timer
          /\ e.retransmit_id = s.retransmit_id /\ e.tasks = s.tasks
          /\ e.last = s.last /\ e.disorder = s.disorder /\ e.window = s.window
          /\ e.failed = "no" => s.failed = "no"
      BY <2>4, <3>5, <3>6, RunOK, ZenonT(30)
    <3>8. Fewer(r, e)
      BY <2>7, <3>7, Zenon DEF Fewer
    <3>9. Timed(r) => Timed(e)
      <4>1. CASE r.failed = "no"
        <5>1. Timed(r) => Aged(s)
          BY <2>8, <4>1, Zenon
        <5> QED
          BY <2>4, <3>2, <3>4, <3>5, <3>6, <5>1, TimerServes
      <4>2. CASE r.failed # "no"
        <5>1. e.failed # "no"
          BY <3>8, <4>2, Zenon DEF Fewer
        <5> QED
          BY <5>1, Zenon DEF Timed
      <4> QED
        BY <4>1, <4>2, Zenon
    <3>10. Headed(e)
      BY <3>2, <3>7, ZenonT(30) DEF Headed
    <3> QED
      BY <3>7, <3>8, <3>9, <3>10, Zenon DEF e
  <2> QED
    BY <2>9, <2>10, <2>11, Zenon
<1> QED
  BY <1>2, <1>3, Zenon


\* SDUs are discarded, and TX_NEXT_ACK moves to the oldest one left.
LEMMA DiscardOK ==
  ASSUME NEW r \in Tx, Ordered(r), NEW D
  PROVE  LET e == discard_pdus(r, D) IN
         /\ e \in Tx /\ Fewer(r, e) /\ e.discard_timer = r.discard_timer /\ e.late = r.late
         /\ e.failed = r.failed
         /\ DOMAIN e.window \cap D = {}
         /\ Headed(r) => Headed(e)
         /\ (DOMAIN r.window # {} => r.tx_next_ack \in DOMAIN r.window)
               => (DOMAIN e.window # {} => e.tx_next_ack \in DOMAIN e.window)
<1> DEFINE e == discard_pdus(r, D)
           gone == {c \in DOMAIN r.window \cap D : r.tx_next_ack <= c /\ c < r.tx_next}
           s == Keep(r, DOMAIN r.window \ gone)
           O == {c \in r.tx_next_ack .. r.tx_next : c = r.tx_next \/ has_sn(s, c)}
           oldest == Least(O)
           x == Greatest({s.tx_trans, oldest})
<1>1. /\ r.tx_next \in Nat /\ r.tx_next_ack \in Nat /\ r.tx_next_ack <= r.tx_next
      /\ DOMAIN r.window \subseteq r.tx_next_ack .. r.tx_next - 1
  BY TxFacts, Zenon DEF Ordered
<1>2. gone = DOMAIN r.window \cap D
  BY <1>1
<1>3. CASE gone = {}
  <2>1. e = r
    BY <1>3, Zenon DEF discard_pdus
  <2>2. r.tx_next_ack <= r.tx_next_ack
    BY <1>1
  <2>3. DOMAIN r.window \cap D = {}
    BY <1>2, <1>3, Zenon
  <2> HIDE DEF e, gone
  <2> QED
    BY <1>1, <2>1, <2>2, <2>3, Zenon DEF Fewer, e
<1>4. CASE gone # {}
  <2>1. e = [s EXCEPT !.tx_next_ack = oldest, !.tx_trans = x]
    BY <1>4, Zenon DEF discard_pdus
  <2>2. /\ s \in Tx /\ s = [r EXCEPT !.window = s.window]
        /\ DOMAIN s.window = DOMAIN r.window \cap (DOMAIN r.window \ gone)
        /\ \A c \in DOMAIN s.window : s.window[c] = r.window[c]
    BY KeepOK, Zenon
  <2> HIDE DEF s, e
  <2>3. DOMAIN s.window \subseteq DOMAIN r.window /\ DOMAIN s.window \cap D = {}
    <3> HIDE DEF gone
    <3> QED
      BY <1>2, <2>2, Zenon
  <2> HIDE DEF gone
  <2>4. O \in SUBSET Nat /\ r.tx_next \in O
    BY <1>1
  <2>5. DOMAIN s.window \subseteq O
    BY <1>1, <2>3 DEF has_sn
  <2>6. oldest \in O /\ \A c \in O : oldest <= c
    <3> HIDE DEF O
    <3> QED
      BY <2>4, LeastExists, Zenon
  <2>7. /\ oldest \in Nat /\ r.tx_next_ack <= oldest /\ oldest <= r.tx_next
        /\ oldest = r.tx_next \/ oldest \in DOMAIN s.window
    <3> HIDE DEF oldest
    <3> QED
      BY <1>1, <2>6 DEF has_sn
  <2> HIDE DEF oldest, O
  <2>8. x \in Nat
    BY <2>2, <2>7, TxFacts, GreatestOfTwo, Zenon
  <2> HIDE DEF x
  <2>9. /\ s.tx_next = r.tx_next /\ s.tx_trans_crypto = r.tx_trans_crypto
        /\ s.tx_reord_crypto = r.tx_reord_crypto
        /\ s.crypto_reordering_timer = r.crypto_reordering_timer
        /\ s.retransmit_id = r.retransmit_id /\ s.tasks = r.tasks
        /\ s.last = r.last /\ s.disorder = r.disorder
        /\ s.failed = r.failed /\ s.discard_timer = r.discard_timer /\ s.late = r.late
    BY <2>2, Zenon DEF Tx
  <2>10. /\ e \in Tx
         /\ e.tx_next = s.tx_next /\ e.tx_trans_crypto = s.tx_trans_crypto
         /\ e.tx_reord_crypto = s.tx_reord_crypto /\ e.tx_next_ack = oldest
         /\ e.crypto_reordering_timer = s.crypto_reordering_timer
         /\ e.retransmit_id = s.retransmit_id /\ e.tasks = s.tasks
         /\ e.last = s.last /\ e.disorder = s.disorder /\ e.window = s.window
         /\ e.failed = s.failed /\ e.discard_timer = s.discard_timer /\ e.late = s.late
    BY <2>1, <2>2, <2>7, <2>8, Zenon DEF Tx
  <2>11. DOMAIN s.window \subseteq oldest .. r.tx_next - 1
    BY <1>1, <2>3, <2>5, <2>6, <2>7
  <2>12. Fewer(r, e)
    BY <2>2, <2>3, <2>7, <2>9, <2>10, <2>11, Zenon DEF Fewer
  <2>13. Headed(e)
    BY <2>7, <2>9, <2>10, Zenon DEF Headed
  <2>14. DOMAIN e.window # {} => e.tx_next_ack \in DOMAIN e.window
    <3>1. CASE oldest = r.tx_next
      BY <1>1, <2>10, <2>11, <3>1
    <3>2. CASE oldest \in DOMAIN s.window
      BY <2>10, <3>2, Zenon
    <3> QED
      BY <2>7, <3>1, <3>2, Zenon
  <2> QED
    BY <2>3, <2>9, <2>10, <2>12, <2>13, <2>14, Zenon DEF e
<1> QED
  BY <1>3, <1>4, Zenon

\* A status report discards; the discard timer is left alone.
LEMMA DiscardTimed ==
  ASSUME NEW r \in Tx, Ordered(r), NEW D, Timed(r)
  PROVE  Timed(discard_pdus(r, D))
<1> DEFINE e == discard_pdus(r, D)
<1>1. /\ Fewer(r, e) /\ e.discard_timer = r.discard_timer /\ e.late = r.late /\ e.failed = r.failed
      /\ (DOMAIN r.window # {} => r.tx_next_ack \in DOMAIN r.window)
               => (DOMAIN e.window # {} => e.tx_next_ack \in DOMAIN e.window)
  BY DiscardOK, Zenon
<1> HIDE DEF e
<1>2. /\ DOMAIN e.window \subseteq DOMAIN r.window
      /\ \A c \in DOMAIN e.window : e.window[c] = r.window[c]
  BY <1>1, Zenon DEF Fewer
<1>3. Timed(e)
  BY <1>1, <1>2, ZenonT(40) DEF Timed
<1> QED
  BY <1>3, Zenon DEF e

\* The discard timer expires.
LEMMA CallbackOK ==
  ASSUME NEW q \in Tx, Ordered(q), q.discard_timer = 0
  PROVE  LET r == [q EXCEPT !.discard_timer = Off]
             oldest == r.window[r.tx_next_ack].age
             s == discard_pdus(r, {c \in DOMAIN r.window : r.window[c].age = oldest})
             e == IF ~has_sn(r, r.tx_next_ack) THEN r
                  ELSE IF ~has_sn(s, s.tx_next_ack) THEN s
                  ELSE RunDiscard(s, oldest - s.window[s.tx_next_ack].age)
         IN  /\ e \in Tx /\ Fewer(q, e)
             /\ Timed(q) => Timed(e)
             /\ Headed(q) => Headed(e)
<1> DEFINE r == [q EXCEPT !.discard_timer = Off]
           oldest == r.window[r.tx_next_ack].age
           D == {c \in DOMAIN r.window : r.window[c].age = oldest}
           s == discard_pdus(r, D)
           e == IF ~has_sn(r, r.tx_next_ack) THEN r
                ELSE IF ~has_sn(s, s.tx_next_ack) THEN s
                ELSE RunDiscard(s, oldest - s.window[s.tx_next_ack].age)
<1> SUFFICES e \in Tx /\ Fewer(q, e) /\ (Timed(q) => Timed(e)) /\ (Headed(q) => Headed(e))
  BY Zenon
<1>1. /\ r \in Tx
      /\ r.tx_next = q.tx_next /\ r.tx_trans_crypto = q.tx_trans_crypto
      /\ r.tx_reord_crypto = q.tx_reord_crypto /\ r.tx_next_ack = q.tx_next_ack
      /\ r.crypto_reordering_timer = q.crypto_reordering_timer
      /\ r.retransmit_id = q.retransmit_id /\ r.tasks = q.tasks
      /\ r.last = q.last /\ r.disorder = q.disorder /\ r.window = q.window
      /\ r.failed = q.failed /\ r.discard_timer = Off /\ r.late = q.late
  <2>1. Off \in Nat \cup {Off}
    OBVIOUS
  <2> QED
    BY <2>1, Zenon DEF Tx
<1> HIDE DEF r
<1>2. /\ q.tx_next \in Nat /\ q.tx_next_ack \in Nat /\ q.tx_next_ack <= q.tx_next
      /\ DOMAIN q.window \subseteq q.tx_next_ack .. q.tx_next - 1
      /\ \A c \in DOMAIN q.window : q.window[c].age \in Nat
  BY TxFacts, WindowFacts, Zenon DEF Ordered
<1>3. Ordered(r)
  BY <1>1, Zenon DEF Ordered, Watched, Waiting, has_sn
<1>4. Fewer(q, r)
  <2>1. q.tx_next_ack <= q.tx_next_ack
    BY <1>2, SMTT(30)
  <2> QED
    BY <1>1, <1>2, <2>1, Zenon DEF Fewer
<1>5. /\ s \in Tx /\ Fewer(r, s) /\ s.discard_timer = r.discard_timer /\ s.late = r.late
      /\ s.failed = r.failed
      /\ DOMAIN s.window \cap D = {}
      /\ Headed(r) => Headed(s)
      /\ (DOMAIN r.window # {} => r.tx_next_ack \in DOMAIN r.window)
            => (DOMAIN s.window # {} => s.tx_next_ack \in DOMAIN s.window)
  BY <1>1, <1>3, DiscardOK, Zenon
<1> HIDE DEF s, D
<1>6. Headed(q) => Headed(r)
  BY <1>1, Zenon DEF Headed
<1>7. /\ DOMAIN s.window \subseteq DOMAIN q.window
      /\ DOMAIN s.window \subseteq s.tx_next_ack .. s.tx_next - 1
      /\ \A c \in DOMAIN s.window : s.window[c] = q.window[c]
  BY <1>1, <1>5, Zenon DEF Fewer
<1>8. Fewer(q, s)
  <2>1. q.tx_next_ack <= s.tx_next_ack
    BY <1>1, <1>5, Zenon DEF Fewer
  <2> QED
    BY <1>1, <1>4, <1>5, <2>1, Zenon DEF Fewer
<1>9. \A l \in Nat : Off <= Discard + 1 + l
  BY DiscardAssumption DEF Off
<1>10. ASSUME NEW t, t.late \in Nat, t.discard_timer = Off, DOMAIN t.window = {}
       PROVE  Timed(t)
  BY <1>9, <1>10, Zenon DEF Timed
<1>11. CASE ~has_sn(r, r.tx_next_ack)
  <2>1. e = r
    BY <1>11, Zenon
  <2> HIDE DEF e
  <2>2. Timed(q) => Timed(r)
    <3>1. CASE r.failed = "no"
      <4>1. Timed(q) => DOMAIN r.window = {}
        BY <1>1, <1>11, <3>1, Zenon DEF Timed, has_sn
      <4> QED
        BY <1>1, <1>10, <4>1, TxFacts, Zenon
    <3>2. CASE r.failed # "no"
      BY <3>2, Zenon DEF Timed
    <3> QED
      BY <3>1, <3>2, Zenon
  <2> QED
    BY <1>1, <1>4, <1>6, <2>1, <2>2
<1>12. CASE has_sn(r, r.tx_next_ack) /\ ~has_sn(s, s.tx_next_ack)
  <2>1. e = s
    BY <1>12, Zenon
  <2> HIDE DEF e
  <2>2. DOMAIN s.window = {}
    BY <1>5, <1>12, Zenon DEF has_sn
  <2> QED
    BY <1>1, <1>5, <1>6, <1>8, <1>10, <2>1, <2>2, TxFacts, SMTT(30)
<1>13. CASE has_sn(r, r.tx_next_ack) /\ has_sn(s, s.tx_next_ack)
  <2> DEFINE a == s.window[s.tx_next_ack].age
             d == oldest - a
  <2>1. e = RunDiscard(s, d)
    BY <1>13, Zenon
  <2> HIDE DEF e
  <2>2. r.tx_next_ack \in DOMAIN r.window /\ s.tx_next_ack \in DOMAIN s.window
    BY <1>13, Zenon DEF has_sn
  <2>3. oldest \in Nat /\ oldest = q.window[q.tx_next_ack].age
    BY <1>1, <1>2, <2>2, Zenon
  <2>4. a \in Nat /\ a = q.window[s.tx_next_ack].age /\ a # oldest
    <3>1. s.tx_next_ack \in DOMAIN r.window /\ s.tx_next_ack \notin D
      BY <1>1, <1>5, <1>7, <2>2, Zenon
    <3>2. a = q.window[s.tx_next_ack].age /\ a \in Nat
      BY <1>1, <1>2, <1>7, <2>2, <3>1, Zenon
    <3> QED
      BY <1>1, <3>1, <3>2, Zenon DEF D
  <2>5. q.tx_next_ack <= s.tx_next_ack
    BY <1>8, Zenon DEF Fewer
  <2> HIDE DEF oldest, a
  <2>6. d \in Int /\ d # 0
    BY <2>3, <2>4
  <2>7. /\ e \in Tx
        /\ e.tx_next = s.tx_next /\ e.tx_trans_crypto = s.tx_trans_crypto
        /\ e.tx_reord_crypto = s.tx_reord_crypto /\ e.tx_next_ack = s.tx_next_ack
        /\ e.crypto_reordering_timer = s.crypto_reordering_timer
        /\ e.retransmit_id = s.retransmit_id /\ e.tasks = s.tasks
        /\ e.last = s.last /\ e.disorder = s.disorder /\ e.window = s.window
        /\ e.failed = "no" => s.failed = "no"
    <3> HIDE DEF d
    <3> QED
      BY <1>5, <2>1, <2>6, RunOK
  <2>8. Fewer(q, e)
    BY <1>8, <2>7, Zenon DEF Fewer
  <2>9. Headed(e)
    BY <2>2, <2>7, Zenon DEF Headed
  <2>10. ASSUME Timed(q) PROVE Timed(e)
    <3>1. CASE q.failed = "no"
      <4>1. q.tx_next_ack \in DOMAIN q.window /\ oldest + 0 <= Discard + 1 + q.late
        BY <1>1, <2>2, <2>3, <2>10, <3>1, ZenonT(30) DEF Timed
      <4>2. a + d <= Discard + 1 + q.late
        BY <2>3, <2>4, <4>1, TxFacts, DiscardAssumption
      <4>3. Aged(s)
        BY <1>7, <2>10, <3>1, Zenon DEF Timed, Aged
      <4>4. d # 0 => s.window[s.tx_next_ack].age + d <= Discard + 1 + s.late
        BY <1>1, <1>5, <4>2, Zenon DEF a
      <4> HIDE DEF d
      <4> QED
        BY <1>5, <1>7, <2>1, <2>2, <2>6, <4>3, <4>4, TimerServes, SMTT(30)
    <3>2. CASE q.failed # "no"
      BY <2>8, <3>2, Zenon DEF Fewer, Timed
    <3> QED
      BY <3>1, <3>2, Zenon
  <2> QED
    BY <2>7, <2>8, <2>9, <2>10, Zenon
<1> QED
  BY <1>11, <1>12, <1>13, Zenon


\* A tick: everything is one tick older, and the timer one tick nearer or late.
LEMMA TickOK ==
  ASSUME NEW r \in Tx, r.discard_timer # Off, NEW b \in {0, 1}, r.discard_timer >= b
  PROVE  LET e == [r EXCEPT !.discard_timer = @ - b, !.late = @ + 1 - b,
                            !.window = [c \in DOMAIN r.window |-> [r.window[c] EXCEPT !.age = @ + 1]]]
         IN  /\ e \in Tx /\ e.tasks = r.tasks /\ DOMAIN e.window = DOMAIN r.window
             /\ Ordered(r) => Ordered(e)
             /\ Timed(r) => Timed(e)
             /\ Headed(r) => Headed(e)
             /\ \A done : Pooled(r, done) => Pooled(e, done)
<1> DEFINE w == [c \in DOMAIN r.window |-> [r.window[c] EXCEPT !.age = @ + 1]]
           k == r.discard_timer - b
           l == r.late + 1 - b
           e == [r EXCEPT !.discard_timer = k, !.late = l, !.window = w]
<1>1. /\ r.discard_timer \in Nat /\ k \in Nat /\ k # Off /\ r.discard_timer = k + b
      /\ r.late \in Nat /\ l \in Nat /\ l = r.late + 1 - b
  <2>1. r.discard_timer \in Nat \cup {Off} /\ r.late \in Nat
    BY TxFacts, Zenon
  <2> QED
    BY <2>1 DEF Off
<1>2. /\ DOMAIN w = DOMAIN r.window
      /\ \A c \in DOMAIN r.window : /\ w[c] \in Element /\ w[c].sdu = r.window[c].sdu
                                    /\ w[c].pdu = r.window[c].pdu
                                    /\ w[c].age = r.window[c].age + 1
                                    /\ r.window[c].age \in Nat
  <2>1. \A c \in DOMAIN r.window : r.window[c] \in Element /\ r.window[c].age \in Nat
    BY TxFacts, WindowFacts, Zenon
  <2>2. ASSUME NEW x \in Element, x.age \in Nat
        PROVE  LET y == [x EXCEPT !.age = @ + 1] IN
               y \in Element /\ y.sdu = x.sdu /\ y.age = x.age + 1 /\ y.pdu = x.pdu
    <3>1. x.age + 1 \in Nat
      BY <2>2
    <3> QED
      BY <3>1, Zenon DEF Element
  <2> QED
    BY <2>1, <2>2, Zenon
<1>3. w \in Windows
  <2>1. DOMAIN r.window \in SUBSET Nat
    BY TxFacts, WindowFacts, Zenon
  <2>2. w \in [DOMAIN r.window -> Element]
    BY <1>2, Zenon
  <2> QED
    BY <2>1, <2>2, IsWindow, Zenon
<1> HIDE DEF w
<1>4. k \in Nat \cup {Off}
  BY <1>1, Zenon
<1> HIDE DEF k, l
<1>5. /\ e \in Tx
      /\ e.tx_next = r.tx_next /\ e.tx_trans_crypto = r.tx_trans_crypto
      /\ e.tx_reord_crypto = r.tx_reord_crypto /\ e.tx_next_ack = r.tx_next_ack
      /\ e.crypto_reordering_timer = r.crypto_reordering_timer
      /\ e.retransmit_id = r.retransmit_id /\ e.tasks = r.tasks
      /\ e.last = r.last /\ e.disorder = r.disorder /\ e.window = w
      /\ e.failed = r.failed /\ e.discard_timer = k /\ e.late = l
  BY <1>1, <1>3, <1>4, Zenon DEF Tx
<1>6. e = [r EXCEPT !.discard_timer = @ - b, !.late = @ + 1 - b,
                    !.window = [c \in DOMAIN r.window |-> [r.window[c] EXCEPT !.age = @ + 1]]]
  BY Zenon DEF w, k, l
<1> HIDE DEF e
<1>7. Ordered(r) => Ordered(e)
  BY <1>2, <1>5, Zenon DEF Ordered, Watched, Waiting, has_sn
<1>8. ASSUME Timed(r) PROVE Timed(e)
  <2>1. ASSUME e.failed = "no"
        PROVE  /\ k <= Discard + 1 + l
               /\ \A c \in DOMAIN w : w[c].age + k <= Discard + 1 + l
    <3>1. /\ r.discard_timer <= Discard + 1 + r.late
          /\ \A c \in DOMAIN w : r.window[c].age + r.discard_timer <= Discard + 1 + r.late
      BY <1>2, <1>5, <1>8, <2>1, Zenon DEF Timed
    <3>2. \A a \in Nat : a + r.discard_timer <= Discard + 1 + r.late => (a + 1) + k <= Discard + 1 + l
      BY <1>1, DiscardAssumption
    <3>3. k <= Discard + 1 + l
      BY <1>1, <3>1, DiscardAssumption
    <3> QED
      BY <1>2, <3>1, <3>2, <3>3, Zenon
  <2>2. ASSUME e.failed = "no", NEW c \in DOMAIN w, NEW d \in DOMAIN w, c <= d
        PROVE  w[d].age <= w[c].age
    <3>1. r.window[d].age <= r.window[c].age
      BY <1>2, <1>5, <1>8, <2>2, Zenon DEF Timed
    <3>2. \A x, y \in Nat : x <= y => x + 1 <= y + 1
      OBVIOUS
    <3> QED
      BY <1>2, <3>1, <3>2, Zenon
  <2>3. e.failed = "no" => (DOMAIN w # {} => e.tx_next_ack \in DOMAIN w)
    BY <1>2, <1>5, <1>8, Zenon DEF Timed
  <2> QED
    BY <1>1, <1>5, <2>1, <2>2, <2>3, Zenon DEF Timed
<1>9. Headed(r) => Headed(e)
  BY <1>2, <1>5, Zenon DEF Headed
<1>10. ASSUME NEW done, Pooled(r, done) PROVE Pooled(e, done)
  <2>1. {<<c, e.window[c].sdu>> : c \in DOMAIN e.window}
          = {<<c, r.window[c].sdu>> : c \in DOMAIN r.window}
    BY <1>2, <1>5, ZenonT(30)
  <2>2. Used(e, done) = Used(r, done)
    BY <1>5, <2>1, Zenon DEF Used
  <2> QED
    BY <1>5, <1>10, <2>2, Zenon DEF Pooled
<1> QED
  BY <1>2, <1>5, <1>6, <1>7, <1>8, <1>9, <1>10, Zenon

-----------------------------------------------------------------------------
\* Arrival.

\* COUNTs less than a window apart have slots of their own.
LEMMA SlotsDiffer ==
  ASSUME NEW a \in Nat, NEW b \in Nat, a < b, b - a < Window
  PROVE  Slot(a) # Slot(b)
<1> DEFINE p == a \div Window
           q == b \div Window
           m == a % Window
           n == b % Window
<1>1. Window \in Nat \ {0}
  BY WindowAssumption, Zenon
<1>2. \A k \in Nat \ {0}, c \in Nat : c = (c \div k) * k + (c % k) /\ (c % k) \in 0 .. k - 1 /\ c \div k \in Nat
  BY SMT
<1>3. /\ p \in Nat /\ m \in 0 .. Window - 1 /\ a = p * Window + m
      /\ q \in Nat /\ n \in 0 .. Window - 1 /\ b = q * Window + n
  BY <1>1, <1>2, Zenon
<1> HIDE DEF p, q, m, n
<1>4. SUFFICES ASSUME m = n PROVE FALSE
  BY Zenon DEF Slot, m, n
<1>5. p * Window \in Nat /\ q * Window \in Nat
  BY <1>1, <1>3, SMT
<1>6. CASE q <= p
  <2>1. p * Window = q * Window + (p - q) * Window /\ (p - q) * Window \in Nat
    <3>1. p - q \in Nat
      BY <1>3, <1>6
    <3>2. \A x \in Nat : x * Window \in Nat
      BY <1>1, SMT
    <3>3. p * Window = q * Window + (p - q) * Window
      BY <1>1, <1>3, SMT
    <3> QED
      BY <3>1, <3>2, <3>3, Zenon
  <2> QED
    BY <1>1, <1>3, <1>4, <1>5, <2>1
<1>7. CASE p < q
  <2>1. q * Window = p * Window + Window + (q - p - 1) * Window /\ (q - p - 1) * Window \in Nat
    <3>1. q - p - 1 \in Nat
      BY <1>3, <1>7
    <3>2. \A x \in Nat : x * Window \in Nat
      BY <1>1, SMT
    <3>3. q * Window = p * Window + Window + (q - p - 1) * Window
      BY <1>1, <1>3, SMT
    <3> QED
      BY <3>1, <3>2, <3>3, Zenon
  <2> QED
    BY <1>1, <1>3, <1>4, <1>5, <2>1
<1> QED
  BY <1>3, <1>6, <1>7

\* All COUNTs in use are below TX_NEXT.
LEMMA UsedBelow ==
  ASSUME NEW r \in Tx, Ordered(r), NEW done, Pooled(r, done), NEW p \in Used(r, done)
  PROVE  p[1] \in Nat /\ p[1] < r.tx_next
<1>1. r.tx_next \in Nat /\ r.tx_next_ack \in Nat /\ r.tasks \in SUBSET Task
  BY TxFacts, Zenon
<1>2. CASE p \in done
  <2>1. p \in (0 .. r.tx_next - 1) \X Nat
    BY <1>2, Zenon DEF Pooled
  <2> QED
    BY <1>1, <2>1
<1>3. CASE p \in {<<t.count, t.sdu>> : t \in r.tasks}
  <2>1. PICK t \in r.tasks : p = <<t.count, t.sdu>>
    BY <1>3, Zenon
  <2>2. t.count \in Nat /\ t.count < r.tx_next
    BY <1>1, Zenon DEF Pooled, Task
  <2> QED
    BY <2>1, <2>2, Zenon
<1>4. CASE p \in {<<c, r.window[c].sdu>> : c \in DOMAIN r.window}
  <2>1. PICK c \in DOMAIN r.window : p = <<c, r.window[c].sdu>>
    BY <1>4, Zenon
  <2>2. c \in r.tx_next_ack .. r.tx_next - 1
    BY Zenon DEF Ordered
  <2>3. p[1] = c
    BY <2>1, Zenon
  <2> QED
    BY <1>1, <2>2, <2>3
<1> QED
  BY <1>2, <1>3, <1>4, Zenon DEF Used


\* An SDU enters the window with the COUNT TX_NEXT; its task may be refused.
LEMMA AcceptOK ==
  ASSUME NEW r \in Tx, Ordered(r), Accepted(r), NEW sdu \in Nat, NEW refused
  PROVE  LET e == accept_sdu(r, sdu, refused) IN
         /\ e \in Tx /\ Ordered(e) /\ r.tasks \subseteq e.tasks
         /\ finite /\ Timed(r) /\ Headed(r) => Timed(e) /\ Headed(e)
         /\ \A done : Pooled(r, done) => Pooled(e, done)
<1> DEFINE n == r.tx_next
           z == [r EXCEPT !.late = 0]
           t == IF finite /\ r.discard_timer = Off THEN RunDiscard(z, Discard) ELSE r
           x == [sdu |-> sdu, age |-> 0, pdu |-> NoPdu]
           w == [c \in {n} \cup {d \in DOMAIN t.window : Slot(d) # Slot(n)} |->
                   IF c = n THEN x ELSE t.window[c]]
           a == [t EXCEPT !.window = w, !.tx_next = n + 1]
           j == [count |-> n, sdu |-> sdu, retx_id |-> a.retransmit_id, secured |-> FALSE]
           J == IF refused THEN {} ELSE {j}
           e == accept_sdu(r, sdu, refused)
<1>1. /\ n \in Nat /\ r.tx_next_ack \in Nat /\ r.tx_next_ack <= n /\ n - r.tx_next_ack < Window - 1
      /\ DOMAIN r.window \subseteq r.tx_next_ack .. n - 1
      /\ DOMAIN r.window \in SUBSET Nat
      /\ r.retransmit_id \in Nat /\ r.tasks \in SUBSET Task
      /\ \A c \in DOMAIN r.window : r.window[c] \in Element /\ r.window[c].age \in Nat
  BY TxFacts, WindowFacts, Zenon DEF Ordered, Accepted
<1>2. e = IF refused THEN a ELSE AddTask(a, n, sdu)
  BY Zenon DEF accept_sdu
<1>3. /\ t \in Tx
      /\ t.tx_next = n /\ t.tx_trans_crypto = r.tx_trans_crypto
      /\ t.tx_reord_crypto = r.tx_reord_crypto /\ t.tx_next_ack = r.tx_next_ack
      /\ t.crypto_reordering_timer = r.crypto_reordering_timer
      /\ t.retransmit_id = r.retransmit_id /\ t.tasks = r.tasks
      /\ t.last = r.last /\ t.disorder = r.disorder /\ t.window = r.window
      /\ t.failed = "no" => r.failed = "no"
      /\ finite /\ t.failed = "no" =>
           /\ t.discard_timer = IF r.discard_timer = Off THEN Discard ELSE r.discard_timer
           /\ r.discard_timer # Off => t.late = r.late
  <2>1. CASE finite /\ r.discard_timer = Off
    <3>1. t = RunDiscard(z, Discard)
      BY <2>1, Zenon
    <3> HIDE DEF t
    <3>2. Discard \in Int /\ Discard # 0 /\ 0 \in Nat
      BY DiscardAssumption
    <3>3. /\ z \in Tx
          /\ z.tx_next = n /\ z.tx_trans_crypto = r.tx_trans_crypto
          /\ z.tx_reord_crypto = r.tx_reord_crypto /\ z.tx_next_ack = r.tx_next_ack
          /\ z.crypto_reordering_timer = r.crypto_reordering_timer
          /\ z.retransmit_id = r.retransmit_id /\ z.tasks = r.tasks
          /\ z.last = r.last /\ z.disorder = r.disorder /\ z.window = r.window
          /\ z.failed = r.failed
      BY <3>2, Zenon DEF Tx
    <3> HIDE DEF z
    <3> QED
      BY <2>1, <3>1, <3>2, <3>3, RunOK
  <2>2. CASE ~(finite /\ r.discard_timer = Off)
    <3>1. t = r
      BY <2>2, Zenon
    <3> HIDE DEF t
    <3> QED
      BY <2>2, <3>1, Zenon
  <2> QED
    BY <2>1, <2>2, Zenon
<1> HIDE DEF t, e
<1>4. \A c \in DOMAIN r.window : Slot(c) # Slot(n) /\ c # n /\ c < n
  <2> TAKE c \in DOMAIN r.window
  <2>1. c \in Nat /\ c < n /\ n - c < Window
    BY <1>1, WindowAssumption
  <2> HIDE DEF n
  <2> QED
    BY <1>1, <2>1, SlotsDiffer, Zenon
<1>5. x \in Element /\ x.sdu = sdu /\ x.age = 0 /\ x.pdu = NoPdu
  <2>1. 0 \in Nat /\ NoPdu \in Int
    BY DEF NoPdu
  <2> QED
    BY <2>1, Zenon DEF Element
<1> HIDE DEF x
<1>6. /\ DOMAIN w = {n} \cup DOMAIN r.window /\ w[n] = x
      /\ \A c \in DOMAIN r.window : w[c] = r.window[c]
  <2> HIDE DEF n
  <2>1. {d \in DOMAIN t.window : Slot(d) # Slot(n)} = DOMAIN r.window
    BY <1>3, <1>4, Zenon
  <2> QED
    BY <1>3, <1>4, <2>1, Zenon
<1> HIDE DEF w
<1>7. w \in Windows
  <2>1. {n} \cup DOMAIN r.window \in SUBSET Nat
    BY <1>1, Zenon
  <2>2. w \in [{n} \cup DOMAIN r.window -> Element]
    <3>1. \A c \in DOMAIN w : w[c] \in Element
      BY <1>1, <1>5, <1>6, Zenon
    <3>2. w = [c \in DOMAIN w |-> w[c]]
      BY Zenon DEF w
    <3> QED
      BY <1>6, <3>1, <3>2, Zenon
  <2> QED
    BY <2>1, <2>2, IsWindow, Zenon
<1>8. n + 1 \in Nat /\ n <= n + 1 /\ n < n + 1
  BY <1>1
<1> HIDE DEF n
<1>9. /\ a \in Tx
      /\ a.tx_next = n + 1 /\ a.tx_trans_crypto = t.tx_trans_crypto
      /\ a.tx_reord_crypto = t.tx_reord_crypto /\ a.tx_next_ack = t.tx_next_ack
      /\ a.crypto_reordering_timer = t.crypto_reordering_timer
      /\ a.retransmit_id = t.retransmit_id /\ a.tasks = t.tasks
      /\ a.last = t.last /\ a.disorder = t.disorder /\ a.window = w
      /\ a.failed = t.failed /\ a.discard_timer = t.discard_timer /\ a.late = t.late
  BY <1>3, <1>7, <1>8, Zenon DEF Tx
<1> HIDE DEF a
<1>10. j \in Task /\ j.count = n /\ j.sdu = sdu /\ j.retx_id = r.retransmit_id
  <2>1. a.retransmit_id \in Nat /\ a.retransmit_id = r.retransmit_id
    BY <1>1, <1>3, <1>9, Zenon
  <2> QED
    BY <1>1, <2>1, ZenonT(30) DEF Task
<1> HIDE DEF j
<1>11. /\ e \in Tx /\ e.tasks = r.tasks \cup J
       /\ e.tx_next = n + 1 /\ e.tx_trans_crypto = r.tx_trans_crypto
       /\ e.tx_reord_crypto = r.tx_reord_crypto /\ e.tx_next_ack = r.tx_next_ack
       /\ e.crypto_reordering_timer = r.crypto_reordering_timer
       /\ e.retransmit_id = r.retransmit_id
       /\ e.last = r.last /\ e.disorder = r.disorder /\ e.window = w
       /\ e.failed = t.failed /\ e.discard_timer = t.discard_timer /\ e.late = t.late
  <2>1. CASE refused
    <3>1. e = a /\ J = {}
      BY <1>2, <2>1, Zenon
    <3> HIDE DEF J
    <3> QED
      BY <1>3, <1>9, <3>1, Zenon
  <2>2. CASE ~refused
    <3> DEFINE K == a.tasks \cup {j}
    <3>1. e = [a EXCEPT !.tasks = K]
      BY <1>2, <2>2, Zenon DEF AddTask, j
    <3>2. K \in SUBSET Task /\ K = r.tasks \cup J
      BY <1>1, <1>3, <1>9, <1>10, <2>2, Zenon
    <3> HIDE DEF K
    <3>3. /\ e \in Tx /\ e.tasks = K
          /\ e.tx_next = a.tx_next /\ e.tx_trans_crypto = a.tx_trans_crypto
          /\ e.tx_reord_crypto = a.tx_reord_crypto /\ e.tx_next_ack = a.tx_next_ack
          /\ e.crypto_reordering_timer = a.crypto_reordering_timer
          /\ e.retransmit_id = a.retransmit_id
          /\ e.last = a.last /\ e.disorder = a.disorder /\ e.window = a.window
          /\ e.failed = a.failed /\ e.discard_timer = a.discard_timer /\ e.late = a.late
      BY <1>9, <3>1, <3>2, ZenonT(30) DEF Tx
    <3> QED
      BY <1>3, <1>9, <3>2, <3>3, Zenon
  <2> QED
    BY <2>1, <2>2, Zenon
<1>12. J \subseteq {j}
  OBVIOUS
<1> HIDE DEF J
<1>13. Ordered(e)
  <2>1. /\ e.tx_next_ack <= e.tx_next /\ e.tx_trans_crypto <= e.tx_next
        /\ e.tx_reord_crypto <= e.tx_next /\ e.last < e.tx_trans_crypto /\ ~e.disorder
    BY <1>1, <1>11, TxFacts, SMTT(30) DEF Ordered, n
  <2>2. DOMAIN e.window \subseteq e.tx_next_ack .. e.tx_next - 1
    BY <1>1, <1>6, <1>11
  <2>3. \A c \in DOMAIN e.window : e.window[c].pdu <= e.retransmit_id
    <3>1. NoPdu <= r.retransmit_id
      BY <1>1 DEF NoPdu
    <3> QED
      BY <1>5, <1>6, <1>11, <3>1, ZenonT(30) DEF Ordered
  <2>4. ASSUME Watched(r) PROVE Watched(e)
    <3>1. ASSUME NEW c \in e.tx_trans_crypto .. e.tx_next - 1,
                 Waiting(e, c), e.window[c].pdu = e.retransmit_id
          PROVE  r.crypto_reordering_timer
      <4>1. c # n
        BY <1>5, <1>6, <1>11, <3>1, ZenonT(30) DEF Waiting
      <4>2. c \in r.tx_trans_crypto .. n - 1
        BY <1>1, <1>11, <3>1, <4>1, TxFacts
      <4>3. c \in DOMAIN r.window /\ w[c] = r.window[c]
        BY <1>6, <1>11, <3>1, <4>1, ZenonT(30) DEF Waiting, has_sn
      <4> QED
        BY <1>11, <2>4, <3>1, <4>2, <4>3, Zenon DEF Watched, Waiting, has_sn, n
    <3> QED
      BY <1>11, <3>1, Zenon DEF Watched
  <2>5. e.failed = "no" => Watched(e)
    BY <1>3, <1>11, <2>4, Zenon DEF Ordered
  <2> QED
    BY <2>1, <2>2, <2>3, <2>5, Zenon DEF Ordered
<1>14. ASSUME finite, Timed(r), Headed(r) PROVE Timed(e) /\ Headed(e)
  <2> SUFFICES ASSUME e.failed = "no" PROVE Timed(e) /\ Headed(e)
    BY Zenon DEF Timed, Headed
  <2>1. /\ r.failed = "no" /\ e.late \in Nat
        /\ e.discard_timer = IF r.discard_timer = Off THEN Discard ELSE r.discard_timer
        /\ r.discard_timer # Off => e.late = r.late
    BY <1>3, <1>11, <1>14, TxFacts, Zenon
  <2>2. e.tx_next_ack \in DOMAIN w
    BY <1>6, <1>11, <1>14, <2>1, Zenon DEF Headed, n
  <2> DEFINE k == e.discard_timer
             m == Discard + 1 + e.late
  <2>3. k \in Nat /\ k <= m /\ k # Off
    <3>1. r.discard_timer \in Nat \cup {Off} /\ r.discard_timer <= Discard + 1 + r.late
      BY <1>14, <2>1, TxFacts, Zenon DEF Timed
    <3> QED
      BY <2>1, <3>1, DiscardAssumption DEF Off
  <2> HIDE DEF k, m
  <2>4. \A c \in DOMAIN w : w[c].age + k <= m
    <3>1. ASSUME NEW c \in DOMAIN r.window PROVE r.window[c].age + k <= m
      <4>1. r.discard_timer # Off /\ r.window[c].age + r.discard_timer <= Discard + 1 + r.late
        BY <1>14, <2>1, Zenon DEF Timed
      <4>2. k = r.discard_timer /\ m = Discard + 1 + r.late
        BY <2>1, <4>1, Zenon DEF k, m
      <4> QED
        BY <4>1, <4>2, Zenon
    <3>2. x.age + k <= m
      BY <1>5, <2>3
    <3> QED
      BY <1>6, <3>1, <3>2, Zenon
  <2>5. \A c, d \in DOMAIN w : c <= d => w[d].age <= w[c].age
    <3>1. ASSUME NEW c \in DOMAIN w PROVE w[n].age <= w[c].age
      <4>1. w[c].age \in Nat
        BY <1>1, <1>5, <1>6
      <4> QED
        BY <1>5, <1>6, <4>1, SMTT(30)
    <3>2. ASSUME NEW d \in DOMAIN r.window PROVE ~(n <= d)
      BY <1>1, <1>4
    <3>3. \A c, d \in DOMAIN r.window : c <= d => r.window[d].age <= r.window[c].age
      BY <1>14, <2>1, Zenon DEF Timed
    <3> QED
      BY <1>6, <3>1, <3>2, <3>3, ZenonT(30)
  <2> QED
    BY <1>11, <2>2, <2>3, <2>4, <2>5, ZenonT(30) DEF Timed, Headed, k, m
<1>15. ASSUME NEW done, Pooled(r, done) PROVE Pooled(e, done)
  <2>1. Used(e, done) \subseteq Used(r, done) \cup {<<n, sdu>>}
    <3>1. ASSUME NEW p \in Used(e, done) PROVE p \in Used(r, done) \cup {<<n, sdu>>}
      <4>1. CASE p \in done
        BY <4>1, Zenon DEF Used
      <4>2. ASSUME NEW u \in e.tasks, p = <<u.count, u.sdu>>
            PROVE  p \in Used(r, done) \cup {<<n, sdu>>}
        BY <1>10, <1>11, <1>12, <4>2, Zenon DEF Used
      <4>3. ASSUME NEW c \in DOMAIN e.window, p = <<c, e.window[c].sdu>>
            PROVE  p \in Used(r, done) \cup {<<n, sdu>>}
        BY <1>5, <1>6, <1>11, <4>3, Zenon DEF Used
      <4> QED
        BY <4>1, <4>2, <4>3, Zenon DEF Used
    <3> QED
      BY <3>1, Zenon
  <2>2. \A p \in Used(r, done) : p[1] < n /\ p[1] \in Nat
    BY <1>15, UsedBelow, Zenon DEF n
  <2>3. \A p, q \in Used(e, done) : p[1] = q[1] => p[2] = q[2]
    <3>1. \A p \in Used(r, done) : p[1] # n
      BY <1>1, <2>2
    <3>2. \A p, q \in Used(r, done) : p[1] = q[1] => p[2] = q[2]
      BY <1>15, Zenon DEF Pooled
    <3>3. ASSUME NEW p \in Used(e, done), p \notin Used(r, done) PROVE p[1] = n /\ p[2] = sdu
      BY <2>1, <3>3
    <3> QED
      BY <3>1, <3>2, <3>3, ZenonT(30)
  <2>4. done \subseteq (0 .. e.tx_next - 1) \X Nat
    <3>1. 0 .. n - 1 \subseteq 0 .. e.tx_next - 1
      BY <1>1, <1>11
    <3> QED
      BY <1>15, <3>1, Zenon DEF Pooled, n
  <2>5. IsFiniteSet(e.tasks)
    <3>1. IsFiniteSet({j})
      BY FS_Singleton, Zenon
    <3>2. IsFiniteSet(J)
      BY <1>12, <3>1, FS_Subset, Zenon
    <3>3. IsFiniteSet(r.tasks)
      BY <1>15, Zenon DEF Pooled
    <3>4. IsFiniteSet(r.tasks \cup J)
      BY <3>2, <3>3, FS_Union, Zenon
    <3> QED
      BY <1>11, <3>4, Zenon
  <2>6. \A u \in e.tasks : u.count < e.tx_next /\ u.retx_id <= e.retransmit_id
    <3>1. ASSUME NEW u \in r.tasks PROVE u.count < n + 1 /\ u.retx_id <= r.retransmit_id
      <4>1. u.count < n /\ u.count \in Nat /\ u.retx_id <= r.retransmit_id
        BY <1>1, <1>15, Zenon DEF Pooled, n, Task
      <4> QED
        BY <1>1, <4>1
    <3>2. j.count < n + 1 /\ j.retx_id <= r.retransmit_id
      BY <1>1, <1>10
    <3> QED
      BY <1>11, <1>12, <3>1, <3>2, Zenon
  <2>7. \A u, v \in e.tasks : u.count = v.count /\ u.retx_id = v.retx_id => u = v
    <3>1. \A u \in r.tasks : u.count # j.count
      <4>1. \A u \in r.tasks : u.count < n /\ u.count \in Nat
        BY <1>1, <1>15, Zenon DEF Pooled, n, Task
      <4> QED
        BY <1>1, <1>10, <4>1
    <3>2. \A u, v \in r.tasks : u.count = v.count /\ u.retx_id = v.retx_id => u = v
      BY <1>15, Zenon DEF Pooled
    <3> QED
      BY <1>11, <1>12, <3>1, <3>2, Zenon
  <2> QED
    BY <2>3, <2>4, <2>5, <2>6, <2>7, Zenon DEF Pooled
<1> QED
  BY <1>11, <1>13, <1>14, <1>15, Zenon DEF e
===============================================================================
