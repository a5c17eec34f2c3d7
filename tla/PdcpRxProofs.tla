---------------------------- MODULE PdcpRxProofs ----------------------------
(***************************************************************************)
(* The COUNT that is recovered from a sequence number, and the safety of   *)
(* the receiving PDCP entity, for every window size, every set of PDUs sent*)
(* and every capacity of the crypto pool.                                  *)
(***************************************************************************)
EXTENDS PdcpRx, FiniteSetTheorems, WellFoundedInduction, TLAPS

\* The COUNT of a PDU.

\* A COUNT is composed of its HFN and its SN.
LEMMA CountSplit ==
  ASSUME NEW c \in Nat
  PROVE  /\ HFN(c) \in Nat
         /\ SN(c) \in 0 .. SnCard - 1
         /\ c = HFN(c) * SnCard + SN(c)
<1>1. SnCard \in Nat \ {0}
  BY WindowAssumption DEF SnCard
<1>2. \A m \in Nat \ {0} : c = (c \div m) * m + (c % m) /\ (c % m) \in 0 .. m - 1 /\ c \div m \in Nat
  BY SMT
<1> QED
  BY <1>1, <1>2, Zenon DEF HFN, SN

\* Multiples of a positive number are ordered as their factors.
LEMMA FactorOrder ==
  ASSUME NEW m \in Nat \ {0}, NEW a \in Int, NEW b \in Int, a * m < (b + 1) * m
  PROVE  a <= b
<1>1. ASSUME a >= b + 1 PROVE a * m >= (b + 1) * m
  <2>1. a - (b + 1) \in Nat
    BY <1>1
  <2>2. (a - (b + 1)) * m \in Nat
    BY <2>1, SMT
  <2>3. a * m = (b + 1) * m + (a - (b + 1)) * m
    BY SMT
  <2> QED
    BY <2>2, <2>3, SMT
<1> QED
  BY <1>1, SMT

\* A PDU whose COUNT lies less than a window below or above the lower edge is
\* given that COUNT, across every wrap of the sequence number: the receiver
\* deciphers a PDU, and the transmitter removes an SDU, with the right COUNT.
THEOREM CountRecovered ==
  ASSUME NEW lower \in Nat, NEW c \in 0 .. CountCard - 1,
         lower - Window <= c, c < lower + Window
  PROVE  count_estimation(SN(c), lower) = c
<1> DEFINE h == HFN(lower)  s == SN(lower)  g == HFN(c)  r == SN(c)
<1>1. SnCard \in Nat \ {0} /\ SnCard = 2 * Window /\ Window \in Nat \ {0}
  BY WindowAssumption DEF SnCard
<1>2. /\ h \in Nat /\ s \in 0 .. SnCard - 1 /\ lower = h * SnCard + s
      /\ g \in Nat /\ r \in 0 .. SnCard - 1 /\ c = g * SnCard + r
  BY CountSplit
<1>3. COUNT(g, r) = c
  BY <1>2, CountCardAssumption DEF COUNT
<1> HIDE DEF h, s, g, r
<1>p. /\ h * SnCard \in Int /\ g * SnCard \in Int
      /\ (h + 1) * SnCard = h * SnCard + SnCard
      /\ (h + 2) * SnCard = h * SnCard + 2 * SnCard
      /\ (g + 1) * SnCard = g * SnCard + SnCard
      /\ (g + 2) * SnCard = g * SnCard + 2 * SnCard
  BY <1>1, <1>2, SMT
<1>4. g <= h + 1
  <2>1. g * SnCard < ((h + 1) + 1) * SnCard
    BY <1>1, <1>2, <1>p, SMT
  <2> QED
    BY <2>1, <1>1, <1>2, FactorOrder
<1>5. h <= g + 1
  <2>1. h * SnCard < ((g + 1) + 1) * SnCard
    BY <1>1, <1>2, <1>p, SMT
  <2> QED
    BY <2>1, <1>1, <1>2, FactorOrder
<1>6. CASE g = h + 1
  <2>1. r < s - Window /\ ~(r >= s + Window)
    BY <1>1, <1>2, <1>p, <1>6, SMT
  <2> QED
    BY <2>1, <1>3, <1>6, Zenon DEF count_estimation, h, s, g, r
<1>7. CASE h = g + 1
  <2>1. r >= s + Window /\ ~(r < s - Window) /\ h - 1 = g
    BY <1>1, <1>2, <1>p, <1>7, SMT
  <2> QED
    BY <2>1, <1>3, <1>7, Zenon DEF count_estimation, h, s, g, r
<1>8. CASE g = h
  <2>1. ~(r < s - Window) /\ ~(r >= s + Window)
    BY <1>1, <1>2, <1>p, <1>8, SMT
  <2> QED
    BY <2>1, <1>3, <1>8, Zenon DEF count_estimation, h, s, g, r
<1> QED
  BY <1>2, <1>4, <1>5, <1>6, <1>7, <1>8, SMT

\* Whatever sequence number arrives, the COUNT it is given is below the upper edge
\* of the window, unless it wrapped below zero.
LEMMA EstimateBelowEdge ==
  ASSUME NEW lower \in Nat, NEW sn \in 0 .. SnCard - 1
  PROVE  LET e == count_estimation(sn, lower)
         IN  e \in Nat /\ (e < lower + Window \/ e >= CountCard - Window)
<1> DEFINE h == HFN(lower)  s == SN(lower)
           hfn == CASE sn < s - Window -> h + 1 [] sn >= s + Window -> h - 1 [] OTHER -> h
           raw == hfn * SnCard + sn
<1>1. SnCard \in Nat \ {0} /\ SnCard = 2 * Window /\ Window \in Nat \ {0}
  BY WindowAssumption DEF SnCard
<1>2. h \in Nat /\ s \in 0 .. SnCard - 1 /\ lower = h * SnCard + s
  BY CountSplit, Zenon
<1>3. count_estimation(sn, lower) = raw % CountCard
  BY Zenon DEF count_estimation, COUNT
<1> HIDE DEF h, s
<1>4. /\ h * SnCard \in Int
      /\ (h + 1) * SnCard = h * SnCard + SnCard
      /\ (h - 1) * SnCard = h * SnCard - SnCard
  BY <1>1, <1>2, SMT
<1>5. raw \in Int /\ raw < lower + Window /\ lower - Window <= raw
  <2>1. CASE sn < s - Window
    <3>1. hfn = h + 1
      BY <2>1, <1>1, <1>2
    <3> QED
      BY <3>1, <2>1, <1>1, <1>2, <1>4, SMT
  <2>2. CASE sn >= s + Window
    <3>1. hfn = h - 1
      BY <2>2, <1>1, <1>2
    <3> QED
      BY <3>1, <2>2, <1>1, <1>2, <1>4, SMT
  <2>3. CASE ~(sn < s - Window) /\ ~(sn >= s + Window)
    <3>1. hfn = h
      BY <2>3, Zenon
    <3> QED
      BY <3>1, <2>3, <1>1, <1>2, <1>4, SMT
  <2> QED
    BY <2>1, <2>2, <2>3, Zenon
<1> HIDE DEF raw
<1>6. CASE raw >= 0
  <2>1. raw % CountCard \in Nat /\ raw % CountCard <= raw
    BY <1>5, <1>6, CountCardAssumption, SMT
  <2> QED
    BY <2>1, <1>1, <1>3, <1>5, SMT
<1>7. CASE raw < 0
  <2>1. raw % CountCard \in Nat
    BY <1>5, CountCardAssumption, SMT
  <2>2. CASE raw + CountCard >= 0
    <3>1. raw % CountCard = raw + CountCard
      BY <1>5, <1>7, <2>2, CountCardAssumption, SMT
    <3> QED
      BY <2>1, <3>1, <1>1, <1>3, <1>5, <1>7, CountCardAssumption, SMT
  <2>3. CASE raw + CountCard < 0
    BY <2>1, <2>3, <1>1, <1>3, <1>5, <1>7, CountCardAssumption, SMT
  <2> QED
    BY <2>2, <2>3, <1>5, CountCardAssumption, SMT
<1> QED
  BY <1>5, <1>6, <1>7, SMT

-----------------------------------------------------------------------------
\* The operations on the window.

\* A set of natural numbers that is not empty has a least element.
LEMMA LeastExists ==
  ASSUME NEW T \in SUBSET Nat, T # {}
  PROVE  \E n \in T : \A m \in T : n <= m
<1>1. PICK x \in T : \A y \in T : ~ (<<y, x>> \in OpToRel(<, Nat))
  BY NatLessThanWellFounded, WFMin, Zenon
<1>2. \A y \in T : ~(y < x)
  BY <1>1, Zenon DEF OpToRel
<1> QED
  BY <1>2

\* deliver_all_consecutive_counts() stops at a COUNT that is not in the window.
LEMMA FirstMissingFound ==
  ASSUME NEW r, WindowOK(r)
  PROVE  /\ FirstMissing(r) \in r.rx_deliv .. r.rx_next
         /\ FirstMissing(r) \notin r.window
         /\ r.rx_deliv .. FirstMissing(r) - 1 \subseteq r.window
<1> DEFINE T == {n \in r.rx_deliv .. r.rx_next : n \notin r.window \/ n = r.rx_next}
           P(n) == /\ r.rx_deliv .. n - 1 \subseteq r.window
                   /\ n \notin r.window \/ n = r.rx_next
<1>1. /\ r.rx_deliv \in Nat /\ r.rx_next \in Nat /\ r.rx_deliv <= r.rx_next
      /\ r.rx_next \notin r.window
  BY DEF WindowOK, Rx
<1>2. T \in SUBSET Nat /\ r.rx_next \in T
  BY <1>1
<1>3. PICK k \in T : \A m \in T : k <= m
  BY <1>2, LeastExists, Zenon
<1>4. k \in r.rx_deliv .. r.rx_next /\ P(k)
  BY <1>1, <1>3
<1>5. FirstMissing(r) \in r.rx_deliv .. r.rx_next /\ P(FirstMissing(r))
  BY <1>4, Zenon DEF FirstMissing
<1> QED
  BY <1>1, <1>5, Zenon

\* Moving RX_DELIV up delivers what is held below and changes nothing else.
LEMMA AdvanceOK ==
  ASSUME NEW r, WindowOK(r), NEW n \in r.rx_deliv .. r.rx_next
  PROVE  /\ WindowOK(Advance(r, n))
         /\ Advance(r, n).rx_deliv = n
         /\ Advance(r, n).rx_next = r.rx_next
         /\ Advance(r, n).rx_reord = r.rx_reord
         /\ Advance(r, n).reordering_timer = r.reordering_timer
         /\ Advance(r, n).window = {c \in r.window : n <= c}
         /\ Kept(r, Advance(r, n))
<1> DEFINE a == Advance(r, n)
           below == r.rx_deliv .. n - 1
<1>1. /\ r \in Rx /\ r.rx_deliv \in Nat /\ r.rx_next \in Nat /\ n \in Nat
      /\ r.delivered \in [Sent -> Nat]
  BY DEF WindowOK, Rx
<1>2. /\ a.rx_deliv = n /\ a.rx_next = r.rx_next /\ a.rx_reord = r.rx_reord
      /\ a.reordering_timer = r.reordering_timer
      /\ a.window = r.window \ below /\ a.held = r.held \ below
      /\ a.delivered = [c \in Sent |-> r.delivered[c] + (IF c \in r.held \cap below THEN 1 ELSE 0)]
  BY <1>1, Zenon DEF Advance, Deliver, Rx
<1>3. a.delivered \in [Sent -> Nat]
  BY <1>1, <1>2
<1>4. a \in Rx
  BY <1>1, <1>2, <1>3, Zenon DEF Advance, Deliver, Rx
<1>5. a.window = {c \in r.window : n <= c} /\ a.window \subseteq Sent \cap n .. r.rx_next - 1
  BY <1>1, <1>2 DEF WindowOK
<1>6. \A c \in a.window : c < n + Window
  BY <1>1, <1>5, WindowAssumption DEF WindowOK
<1>7. a.held = IF out_of_order_delivery THEN {} ELSE a.window
  BY <1>2, Zenon DEF WindowOK
<1>8. ASSUME NEW c \in Sent
      PROVE  /\ a.delivered[c] <= 1
             /\ n <= c => a.delivered[c] = IF c \in a.window /\ out_of_order_delivery THEN 1 ELSE 0
  <2>1. /\ r.delivered[c] \in Nat /\ r.delivered[c] <= 1 /\ c \in Nat
        /\ r.rx_deliv <= c =>
             r.delivered[c] = IF c \in r.window /\ out_of_order_delivery THEN 1 ELSE 0
    BY <1>1, CountsAssumption, Zenon DEF WindowOK
  <2>2. a.delivered[c] = r.delivered[c] + (IF c \in r.held \cap below THEN 1 ELSE 0)
    BY <1>2, Zenon
  <2>3. CASE out_of_order_delivery
    BY <2>1, <2>2, <2>3, <1>1, <1>2, <1>5 DEF WindowOK
  <2>4. CASE ~out_of_order_delivery
    BY <2>1, <2>2, <2>4, <1>1, <1>2, <1>5 DEF WindowOK
  <2> QED
    BY <2>3, <2>4, Zenon
<1>9. Kept(r, a)
  <2>1. SUFFICES ASSUME NEW c \in Sent, c < r.rx_deliv PROVE a.delivered[c] = r.delivered[c]
    BY Zenon DEF Kept
  <2>2. c \notin below /\ r.delivered[c] \in Nat
    BY <2>1, <1>1, CountsAssumption
  <2>3. a.delivered[c] = r.delivered[c] + (IF c \in r.held \cap below THEN 1 ELSE 0)
    BY <1>2, Zenon
  <2> QED
    BY <2>2, <2>3
<1> QED
  BY <1>1, <1>2, <1>4, <1>5, <1>6, <1>7, <1>8, <1>9 DEF WindowOK

\* Deliveries stay final over several steps.
LEMMA KeptTransitive ==
  ASSUME NEW r, NEW s, NEW u, Kept(r, s), Kept(s, u),
         r.rx_deliv \in Nat, s.rx_deliv \in Nat, r.rx_deliv <= s.rx_deliv
  PROVE  Kept(r, u)
BY CountsAssumption DEF Kept

\* Delivery of consecutive COUNTs leaves RX_DELIV at a missing one.
LEMMA DeliverAllOK ==
  ASSUME NEW r, WindowOK(r)
  PROVE  LET d == deliver_all_consecutive_counts(r)
         IN  /\ WindowOK(d) /\ d.rx_deliv \notin d.window
             /\ r.rx_deliv <= d.rx_deliv
             /\ d.rx_next = r.rx_next /\ d.rx_reord = r.rx_reord
             /\ d.reordering_timer = r.reordering_timer
             /\ r.rx_deliv = r.rx_next => d.rx_deliv = r.rx_next
             /\ Kept(r, d)
<1>1. /\ r.rx_deliv \in Nat /\ r.rx_next \in Nat
  BY Zenon DEF WindowOK, Rx
<1> QED
  BY <1>1, FirstMissingFound, AdvanceOK DEF deliver_all_consecutive_counts

\* Starting, stopping or aiming the timer leaves the window alone.
LEMMA TimerKeepsWindow ==
  ASSUME NEW r, WindowOK(r), NEW running \in BOOLEAN, NEW reord \in Nat
  PROVE  /\ WindowOK([r EXCEPT !.reordering_timer = running])
         /\ WindowOK([r EXCEPT !.rx_reord = reord])
         /\ WindowOK([r EXCEPT !.rx_reord = reord, !.reordering_timer = running])
         /\ Kept(r, [r EXCEPT !.reordering_timer = running])
         /\ Kept(r, [r EXCEPT !.rx_reord = reord])
         /\ Kept(r, [r EXCEPT !.rx_reord = reord, !.reordering_timer = running])
BY Zenon DEF WindowOK, Rx, Kept

\* Two COUNTs of one window have different slots.
LEMMA SlotsDiffer ==
  ASSUME NEW c \in Nat, NEW d \in Nat, c < d, d < c + Window
  PROVE  Slot(c) # Slot(d)
<1>1. Window \in Nat \ {0}
  BY WindowAssumption, Zenon
<1>2. \A m \in Nat \ {0}, x \in Nat : x = (x \div m) * m + (x % m) /\ (x % m) \in 0 .. m - 1 /\ x \div m \in Nat
  BY SMT
<1>3. SUFFICES ASSUME Slot(c) = Slot(d) PROVE FALSE
  OBVIOUS
<1> DEFINE i == c \div Window  j == d \div Window  s == c % Window
<1>4. i \in Nat /\ j \in Nat /\ s \in Nat /\ c = i * Window + s /\ d = j * Window + s
  <2>1. c = i * Window + s /\ s \in 0 .. Window - 1 /\ i \in Nat
    BY <1>1, <1>2, Zenon
  <2>2. d = j * Window + (d % Window) /\ j \in Nat
    BY <1>1, <1>2, Zenon
  <2>3. s = d % Window
    BY <1>3, Zenon DEF Slot
  <2> QED
    BY <2>1, <2>2, <2>3, <1>1
<1> HIDE DEF i, j, s
<1>5. i * Window \in Int /\ j * Window \in Int /\ (i + 1) * Window = i * Window + Window
  BY <1>1, <1>4, SMT
<1>6. j <= i
  <2>1. j * Window < (i + 1) * Window
    BY <1>1, <1>4, <1>5, SMT
  <2> QED
    BY <2>1, <1>1, <1>4, FactorOrder
<1>7. i * Window >= j * Window
  <2>1. i - j \in Nat
    BY <1>4, <1>6
  <2>2. (i - j) * Window \in Nat /\ i * Window = j * Window + (i - j) * Window
    BY <2>1, <1>1, <1>4, SMT
  <2> QED
    BY <2>2, <1>5
<1> QED
  BY <1>4, <1>5, <1>7, SMT

\* A new COUNT enters the window and pushes nothing out of it: the branch that
\* removes an old PDU with another COUNT is never taken.
LEMMA StoreOK ==
  ASSUME NEW r, WindowOK(r), NEW count \in Sent,
         r.rx_deliv <= count, count < r.rx_deliv + Window, count \notin r.window
  PROVE  /\ WindowOK(Store(r, count))
         /\ Store(r, count).rx_deliv = r.rx_deliv
         /\ Store(r, count).rx_reord = r.rx_reord
         /\ Store(r, count).reordering_timer = r.reordering_timer
         /\ r.rx_next <= Store(r, count).rx_next /\ count < Store(r, count).rx_next
         /\ Store(r, count).window = r.window \cup {count}
         /\ Kept(r, Store(r, count))
<1> DEFINE s == Store(r, count)
<1>1. /\ r \in Rx /\ r.rx_deliv \in Nat /\ r.rx_next \in Nat /\ count \in Nat
      /\ r.delivered \in [Sent -> Nat] /\ Window \in Nat
      /\ r.window \subseteq Nat
      /\ out_of_order_delivery \in BOOLEAN
  BY CountsAssumption, WindowAssumption, Zenon DEF WindowOK, Rx, out_of_order_delivery, is_srb
<1>2. \A c \in r.window : Slot(c) # Slot(count)
  <2>1. SUFFICES ASSUME NEW c \in r.window PROVE Slot(c) # Slot(count)
    OBVIOUS
  <2>2. c \in Nat /\ r.rx_deliv <= c /\ c < r.rx_deliv + Window /\ c # count
    BY <1>1 DEF WindowOK
  <2>3. CASE c < count
    BY <2>2, <2>3, <1>1, SlotsDiffer
  <2>4. CASE count < c
    BY <2>2, <2>4, <1>1, SlotsDiffer
  <2> QED
    BY <2>2, <2>3, <2>4, <1>1
<1>3. r.held \subseteq r.window
  BY Zenon DEF WindowOK
<1>4. /\ s.rx_deliv = r.rx_deliv /\ s.rx_reord = r.rx_reord
      /\ s.reordering_timer = r.reordering_timer
      /\ s.rx_next = IF count >= r.rx_next THEN count + 1 ELSE r.rx_next
      /\ s.window = r.window \cup {count}
      /\ s.held = r.held \cup (IF out_of_order_delivery THEN {} ELSE {count})
      /\ s.delivered = IF out_of_order_delivery
                       THEN [c \in Sent |-> r.delivered[c] + (IF c \in {count} THEN 1 ELSE 0)]
                       ELSE r.delivered
  <2>1. /\ {c \in r.window : Slot(c) # Slot(count)} = r.window
        /\ {c \in r.held : Slot(c) # Slot(count)} = r.held
    BY <1>2, <1>3, Zenon
  <2> QED
    BY <2>1, <1>1, Zenon DEF Store, Deliver, Rx
<1>5. s \in Rx
  <2>1. s.delivered \in [Sent -> Nat]
    BY <1>1, <1>4
  <2>2. s = [rx_next |-> s.rx_next, rx_deliv |-> s.rx_deliv, rx_reord |-> s.rx_reord,
             window |-> s.window, held |-> s.held, reordering_timer |-> s.reordering_timer,
             delivered |-> s.delivered]
    BY <1>1, Zenon DEF Store, Deliver, Rx
  <2>3. s.held \subseteq Nat
    BY <1>1, <1>3, <1>4, Zenon
  <2> QED
    BY <1>1, <1>4, <2>1, <2>2, <2>3 DEF Rx
<1>6. /\ s.window \subseteq Sent \cap s.rx_deliv .. s.rx_next - 1
      /\ s.rx_deliv <= s.rx_next
      /\ \A c \in s.window : c < s.rx_deliv + Window
  BY <1>1, <1>4 DEF WindowOK
<1>7. s.held = IF out_of_order_delivery THEN {} ELSE s.window
  BY <1>4, Zenon DEF WindowOK
<1>8. ASSUME NEW c \in Sent
      PROVE  /\ s.delivered[c] <= 1
             /\ s.rx_deliv <= c => s.delivered[c] = IF c \in s.window /\ out_of_order_delivery THEN 1 ELSE 0
  <2>1. /\ r.delivered[c] \in Nat /\ r.delivered[c] <= 1 /\ c \in Nat
        /\ r.rx_deliv <= c =>
             r.delivered[c] = IF c \in r.window /\ out_of_order_delivery THEN 1 ELSE 0
    BY <1>1, CountsAssumption, Zenon DEF WindowOK
  <2>2. CASE out_of_order_delivery
    <3>1. s.delivered[c] = r.delivered[c] + (IF c = count THEN 1 ELSE 0)
      BY <2>2, <1>4, Zenon
    <3> QED
      BY <3>1, <2>1, <2>2, <1>1, <1>4
  <2>3. CASE ~out_of_order_delivery
    BY <2>1, <2>3, <1>1, <1>4, Zenon
  <2> QED
    BY <2>2, <2>3, Zenon
<1>9. Kept(r, s)
  <2>1. SUFFICES ASSUME NEW c \in Sent, c < r.rx_deliv PROVE s.delivered[c] = r.delivered[c]
    BY Zenon DEF Kept
  <2>2. c # count /\ r.delivered[c] \in Nat
    BY <2>1, <1>1, CountsAssumption
  <2> QED
    BY <2>2, <1>4
<1> QED
  BY <1>1, <1>4, <1>5, <1>6, <1>7, <1>8, <1>9 DEF WindowOK

\* t-Reordering expires.
LEMMA ExpireOK ==
  ASSUME NEW r, WindowOK(r), r.rx_deliv <= r.rx_reord, r.rx_reord <= r.rx_next,
         cfg.t_reordering = "ms0" => r.rx_reord = r.rx_next
  PROVE  LET e == handle_t_reordering_expire(r)
         IN  /\ Settled(e) /\ r.rx_deliv <= e.rx_deliv /\ Kept(r, e)
             /\ cfg.t_reordering # "ms0" /\ e.rx_deliv < e.rx_next => e.reordering_timer
<1> DEFINE a == Advance(r, r.rx_reord)
           d == deliver_all_consecutive_counts(a)
           f == [d EXCEPT !.reordering_timer = FALSE]
           e == handle_t_reordering_expire(r)
<1>1. r.rx_deliv \in Nat /\ r.rx_next \in Nat /\ r.rx_reord \in Nat
  BY Zenon DEF WindowOK, Rx
<1>2. /\ WindowOK(a) /\ a.rx_deliv = r.rx_reord /\ a.rx_next = r.rx_next /\ Kept(r, a)
  BY <1>1, AdvanceOK
<1>3. /\ WindowOK(d) /\ d.rx_deliv \notin d.window /\ r.rx_reord <= d.rx_deliv
      /\ d.rx_next = r.rx_next
      /\ r.rx_reord = r.rx_next => d.rx_deliv = r.rx_next
      /\ Kept(a, d)
  BY <1>2, DeliverAllOK, Zenon
<1> HIDE DEF a, d
<1>4. d \in Rx /\ d.rx_deliv \in Nat /\ d.rx_next \in Nat /\ d.rx_deliv <= d.rx_next
  BY <1>3, Zenon DEF WindowOK, Rx
<1>5. /\ WindowOK(f) /\ f.rx_deliv = d.rx_deliv /\ f.rx_next = d.rx_next
      /\ f.window = d.window /\ f.reordering_timer = FALSE
      /\ Kept(d, f)
  BY <1>3, <1>4, TimerKeepsWindow, Zenon DEF Rx
<1>k. Kept(r, f)
  <2>1. Kept(r, d)
    BY <1>1, <1>2, <1>3, KeptTransitive, Zenon
  <2>2. r.rx_deliv <= d.rx_deliv
    BY <1>1, <1>3, <1>4
  <2> QED
    BY <2>1, <2>2, <1>1, <1>4, <1>5, KeptTransitive, Zenon
<1>6. e = IF f.rx_deliv < f.rx_next /\ cfg.t_reordering # "ms0" THEN StartReordering(f) ELSE f
  BY Zenon DEF handle_t_reordering_expire, a, d
<1> HIDE DEF f, e
<1>7. CASE f.rx_deliv < f.rx_next /\ cfg.t_reordering # "ms0"
  <2>1. e = [f EXCEPT !.rx_reord = f.rx_next, !.reordering_timer = TRUE]
    BY <1>6, <1>7, Zenon DEF StartReordering
  <2>2. f \in Rx
    BY <1>5, Zenon DEF WindowOK
  <2>3. WindowOK(e) /\ Kept(f, e)
    BY <2>1, <1>4, <1>5, TimerKeepsWindow, Zenon
  <2>4. /\ e.rx_deliv = f.rx_deliv /\ e.rx_next = f.rx_next /\ e.rx_reord = f.rx_next
        /\ e.window = f.window /\ e.reordering_timer
    BY <2>1, <2>2, Zenon DEF Rx
  <2>5. Kept(r, e)
    BY <2>3, <1>k, <1>1, <1>3, <1>4, <1>5, KeptTransitive
  <2> QED
    BY <2>3, <2>4, <2>5, <1>1, <1>3, <1>4, <1>5, <1>7 DEF Settled, TimerOK, e
<1>8. CASE ~(f.rx_deliv < f.rx_next /\ cfg.t_reordering # "ms0")
  <2>1. e = f
    BY <1>6, <1>8, Zenon
  <2> QED
    BY <2>1, <1>k, <1>1, <1>3, <1>4, <1>5, <1>8 DEF Settled, TimerOK, e
<1> QED
  BY <1>7, <1>8, Zenon

\* A verified PDU is stored, delivered, and the timer brought up to date.
LEMMA ReorderedOK ==
  ASSUME NEW r, Settled(r), NEW count \in Sent, count < r.rx_deliv + Window,
         cfg \in Bearers
  PROVE  LET u == reordered(r, count)
         IN  /\ Settled(u) /\ r.rx_deliv <= u.rx_deliv /\ Kept(r, u)
             /\ u # r /\ cfg.t_reordering = "finite" /\ u.rx_deliv < u.rx_next => u.reordering_timer
<1> DEFINE s == Store(r, count)
           d == IF count = s.rx_deliv THEN deliver_all_consecutive_counts(s) ELSE s
           p == StopReordering(d)
           u == UpdateReordering(p)
<1>1. /\ WindowOK(r) /\ TimerOK(r) /\ r.rx_deliv \notin r.window
      /\ r.rx_deliv \in Nat /\ r.rx_next \in Nat /\ r.rx_reord \in Nat /\ count \in Nat
  BY CountsAssumption, Zenon DEF Settled, WindowOK, Rx
<1>2. CASE count < r.rx_deliv \/ count \in r.window
  BY <1>1, <1>2 DEF reordered, Kept
<1>3. CASE ~(count < r.rx_deliv \/ count \in r.window)
  <2>1. /\ WindowOK(s) /\ s.rx_deliv = r.rx_deliv /\ s.rx_reord = r.rx_reord
        /\ s.reordering_timer = r.reordering_timer
        /\ r.rx_next <= s.rx_next /\ count < s.rx_next
        /\ s.window = r.window \cup {count}
        /\ Kept(r, s)
    BY <1>1, <1>3, StoreOK
  <2> HIDE DEF s
  <2>2. /\ WindowOK(d) /\ d.rx_deliv \notin d.window /\ r.rx_deliv <= d.rx_deliv
        /\ d.rx_next = s.rx_next /\ d.rx_reord = r.rx_reord
        /\ d.reordering_timer = r.reordering_timer
        /\ Kept(s, d)
    <3>1. CASE count = s.rx_deliv
      BY <3>1, <2>1, DeliverAllOK, Zenon
    <3>2. CASE count # s.rx_deliv
      BY <3>2, <2>1, <1>1 DEF Kept
    <3> QED
      BY <3>1, <3>2, Zenon
  <2> HIDE DEF d
  <2>3. /\ d \in Rx /\ d.rx_deliv \in Nat /\ d.rx_next \in Nat /\ d.rx_reord \in Nat
        /\ d.rx_deliv <= d.rx_next /\ d.reordering_timer \in BOOLEAN
        /\ s.rx_next \in Nat
    BY <2>1, <2>2, Zenon DEF WindowOK, Rx
  <2>4. /\ WindowOK(p) /\ p.rx_deliv = d.rx_deliv /\ p.rx_next = d.rx_next
        /\ p.rx_reord = d.rx_reord /\ p.window = d.window
        /\ p.reordering_timer => d.reordering_timer /\ d.rx_deliv < d.rx_reord
        /\ Kept(r, p)
    <3> DEFINE b == d.reordering_timer /\ d.rx_deliv < d.rx_reord
    <3>1. b \in BOOLEAN /\ (b => d.reordering_timer /\ d.rx_deliv < d.rx_reord)
      OBVIOUS
    <3>2. p = [d EXCEPT !.reordering_timer = b]
      BY Zenon DEF StopReordering
    <3> HIDE DEF b, p
    <3>3. WindowOK(p) /\ Kept(d, p)
      BY <3>1, <3>2, <2>2, <2>3, TimerKeepsWindow, Zenon
    <3>4. Kept(r, d)
      BY <1>1, <2>1, <2>2, KeptTransitive
    <3>5. Kept(r, p)
      BY <3>3, <3>4, <1>1, <2>2, <2>3, KeptTransitive, Zenon
    <3> QED
      BY <3>1, <3>2, <3>3, <3>5, <2>3, Zenon DEF Rx
  <2> HIDE DEF p
  <2>5. TimerOK(p)
    <3>1. SUFFICES ASSUME p.reordering_timer
                   PROVE  p.rx_deliv < p.rx_reord /\ p.rx_reord <= p.rx_next
      BY Zenon DEF TimerOK
    <3>2. d.rx_deliv < d.rx_reord /\ r.reordering_timer
      BY <3>1, <2>2, <2>4, Zenon
    <3>3. r.rx_reord <= r.rx_next
      BY <3>2, <1>1, Zenon DEF TimerOK
    <3> QED
      BY <3>2, <3>3, <1>1, <2>1, <2>2, <2>3, <2>4
  <2>6. reordered(r, count) = u
    BY <1>3, Zenon DEF reordered, Reorder, s, d, p
  <2>7. cfg.t_reordering \in {"ms0", "finite", "infinity"}
    BY BearersAssumption, Zenon
  <2>8. CASE cfg.t_reordering = "infinity"
    <3>1. u = p
      BY <2>8, Zenon DEF UpdateReordering
    <3> QED
      BY <3>1, <2>2, <2>4, <2>5, <2>6, <2>8, Zenon DEF Settled
  <2>9. CASE cfg.t_reordering = "ms0"
    <3> DEFINE q == [p EXCEPT !.rx_reord = p.rx_next]
    <3>1. u = handle_t_reordering_expire(q)
      BY <2>9, Zenon DEF UpdateReordering
    <3>2. p \in Rx
      BY <2>4, Zenon DEF WindowOK
    <3>3. /\ WindowOK(q) /\ q.rx_reord = p.rx_next /\ q.rx_next = p.rx_next /\ q.rx_deliv = p.rx_deliv
          /\ Kept(p, q)
      BY <3>2, <2>3, <2>4, TimerKeepsWindow, Zenon DEF Rx
    <3> HIDE DEF q
    <3>4. Settled(u) /\ q.rx_deliv <= u.rx_deliv /\ Kept(q, u)
      BY <3>1, <3>3, <2>3, <2>4, ExpireOK
    <3>5. u.rx_deliv \in Nat
      BY <3>4, Zenon DEF Settled, WindowOK, Rx
    <3> HIDE DEF u
    <3>6. r.rx_deliv <= u.rx_deliv
      BY <3>3, <3>4, <3>5, <1>1, <2>2, <2>3, <2>4
    <3>7. Kept(r, q)
      BY <3>3, <1>1, <2>2, <2>3, <2>4, KeptTransitive, Zenon
    <3>8. Kept(r, u)
      BY <3>3, <3>4, <3>7, <1>1, <2>2, <2>3, <2>4, KeptTransitive
    <3> QED
      BY <3>4, <3>6, <3>8, <2>6, <2>9, Zenon
  <2>10. CASE cfg.t_reordering = "finite"
    <3>1. u = IF ~p.reordering_timer /\ p.rx_deliv < p.rx_next THEN StartReordering(p) ELSE p
      BY <2>10, Zenon DEF UpdateReordering
    <3>2. CASE ~p.reordering_timer /\ p.rx_deliv < p.rx_next
      <4>1. u = [p EXCEPT !.rx_reord = p.rx_next, !.reordering_timer = TRUE]
        BY <3>1, <3>2, Zenon DEF StartReordering
      <4>2. p \in Rx
        BY <2>4, Zenon DEF WindowOK
      <4>3. WindowOK(u) /\ Kept(p, u)
        <5>1. p.rx_next \in Nat /\ WindowOK(p)
          BY <2>3, <2>4, Zenon
        <5>2. LET x == [p EXCEPT !.rx_reord = p.rx_next, !.reordering_timer = TRUE]
              IN  WindowOK(x) /\ Kept(p, x)
          BY <5>1, TimerKeepsWindow, Zenon
        <5> QED
          BY <4>1, <5>2, Zenon
      <4>4. /\ u.rx_deliv = p.rx_deliv /\ u.rx_next = p.rx_next /\ u.rx_reord = p.rx_next
            /\ u.window = p.window /\ u.reordering_timer
        BY <4>1, <4>2, Zenon DEF Rx
      <4>5. Kept(r, u)
        BY <4>3, <1>1, <2>2, <2>3, <2>4, KeptTransitive, Zenon
      <4> QED
        BY <4>3, <4>4, <4>5, <3>2, <2>2, <2>3, <2>4, <2>6, <2>10 DEF Settled, TimerOK
    <3>3. CASE ~(~p.reordering_timer /\ p.rx_deliv < p.rx_next)
      <4>1. u = p
        BY <3>1, <3>3, Zenon
      <4> QED
        BY <4>1, <3>3, <2>2, <2>4, <2>5, <2>6, <2>10, Zenon DEF Settled
    <3> QED
      BY <3>2, <3>3, Zenon
  <2> QED
    BY <2>7, <2>8, <2>9, <2>10, Zenon
<1> QED
  BY <1>2, <1>3, Zenon

-----------------------------------------------------------------------------
\* A fresh state, of a new or a re-established entity.
LEMMA InitialOK ==
  ASSUME NEW count \in Nat
  PROVE  Settled(InitialRx(count))
<1> DEFINE r == InitialRx(count)
<1>1. /\ r.rx_next = count /\ r.rx_deliv = count /\ r.rx_reord = count
      /\ r.window = {} /\ r.held = {} /\ r.reordering_timer = FALSE
      /\ r.delivered = [c \in Sent |-> 0]
  BY Zenon DEF InitialRx
<1>2. r \in Rx
  BY Zenon DEF InitialRx, Rx
<1> HIDE DEF r
<1> QED
  BY <1>1, <1>2 DEF Settled, WindowOK, TimerOK, r

\* Only a UM entity starts over, and nothing of its window is left.
LEMMA ReestablishOK ==
  ASSUME Settled(rx)
  PROVE  Settled(reestablish(rx))
<1>1. CASE is_um
  <2> DEFINE r == InitialRx(0)
             stored == rx.rx_deliv .. rx.rx_next - 1
  <2>1. rx.window \ stored = {} /\ rx.held \ stored = {}
    BY Zenon DEF Settled, WindowOK
  <2>2. reestablish(rx) = [r EXCEPT !.window = rx.window \ stored, !.held = rx.held \ stored]
    BY <1>1, Zenon DEF reestablish
  <2>3. reestablish(rx) = [r EXCEPT !.window = {}, !.held = {}]
    BY <2>1, <2>2, Zenon
  <2>4. [r EXCEPT !.window = {}, !.held = {}] = r
    <3>1. r \in Rx /\ r.window = {} /\ r.held = {}
      BY InitialOK, Zenon DEF Settled, WindowOK, InitialRx
    <3> HIDE DEF r
    <3> QED
      BY <3>1, Zenon DEF Rx
  <2> QED
    BY <2>3, <2>4, InitialOK, Zenon
<1>2. CASE ~is_um
  BY <1>2, Zenon DEF reestablish
<1> QED
  BY <1>1, <1>2, Zenon

\* PDUs that arrive get tasks with new ids and COUNTs below the upper edge, and
\* as many tokens as tasks.
LEMMA HandleDataOK ==
  ASSUME NEW r, WindowOK(r), NEW pdus \in Seq(Pdu),
         NEW ids \in [DOMAIN pdus -> FreeIds \cup {Refused}], NEW mngr \in Manager,
         tasks \subseteq Task, IsFiniteSet(tasks),
         \A t, u \in tasks : t.id = u.id => t = u,
         handle_data_pdus(r, pdus, ids, mngr)
  PROVE  /\ tasks' \subseteq Task /\ IsFiniteSet(tasks')
         /\ \A t, u \in tasks' : t.id = u.id => t = u
         /\ token_mngr' \in Manager
         /\ token_mngr'.tokens = mngr.tokens + Cardinality(tasks') - Cardinality(tasks)
         /\ token_mngr'.pending_crypto = mngr.pending_crypto
         /\ max_count' \in [notified : BOOLEAN, overflow : BOOLEAN]
         /\ \A t \in tasks' \ tasks : t.rcvd_count < r.rx_deliv + Window /\ t.stage = "crypto"
<1> DEFINE queued == {i \in DOMAIN pdus : ids[i] # Refused /\ rcvd_count(r, pdus[i]) < MaxHard}
           f == [i \in queued |-> NewTask(r, pdus[i], ids[i])]
           new == {NewTask(r, pdus[i], ids[i]) : i \in queued}
<1>1. /\ \A i, j \in queued : ids[i] = ids[j] => i = j
      /\ tasks' = tasks \cup new
      /\ token_mngr' = increment_tokens(mngr, Cardinality(queued))
      /\ max_count' \in [notified : BOOLEAN, overflow : BOOLEAN]
  BY Zenon DEF handle_data_pdus
<1>2. IsFiniteSet(queued)
  <2>1. DOMAIN pdus = 1 .. Len(pdus) /\ Len(pdus) \in Nat
    OBVIOUS
  <2>2. IsFiniteSet(1 .. Len(pdus))
    BY <2>1, FS_Interval
  <2>3. queued \in SUBSET (1 .. Len(pdus))
    BY <2>1, ZenonT(30)
  <2> QED
    BY <2>2, <2>3, FS_Subset, Zenon
<1>3. ASSUME NEW i \in queued
      PROVE  /\ f[i] \in Task /\ f[i].id = ids[i] /\ ids[i] \in FreeIds
             /\ f[i].rcvd_count < r.rx_deliv + Window /\ f[i].stage = "crypto"
  <2>1. /\ pdus[i] \in Pdu /\ ids[i] \in FreeIds /\ rcvd_count(r, pdus[i]) < MaxHard
        /\ i \in DOMAIN pdus
    BY <1>3
  <2>2. pdus[i].count \in Sent /\ pdus[i].count \in Nat /\ pdus[i].key \in Key
    BY <2>1, CountsAssumption, Zenon DEF Pdu
  <2>3. r.rx_deliv \in Nat
    BY Zenon DEF WindowOK, Rx
  <2>4. SN(pdus[i].count) \in 0 .. SnCard - 1
    BY <2>2, CountSplit, Zenon
  <2>5. /\ rcvd_count(r, pdus[i]) \in Nat
        /\ rcvd_count(r, pdus[i]) < r.rx_deliv + Window \/ rcvd_count(r, pdus[i]) >= CountCard - Window
    BY <2>3, <2>4, EstimateBelowEdge, Zenon DEF rcvd_count
  <2>6. rcvd_count(r, pdus[i]) < r.rx_deliv + Window
    BY <2>1, <2>3, <2>5, HardAssumption, WindowAssumption, CountCardAssumption, SMTT(30)
  <2>7. ids[i] \in TaskIds
    BY <2>1, Zenon DEF FreeIds
  <2> QED
    BY <2>1, <2>2, <2>5, <2>6, <2>7, Zenon DEF NewTask, Task
<1>4. \A i \in queued : f[i] = NewTask(r, pdus[i], ids[i])
  OBVIOUS
<1>5. f \in [queued -> new] /\ \A t \in new : \E i \in queued : t = f[i]
  BY <1>4, Zenon
<1>6. DOMAIN f = queued
  OBVIOUS
<1> HIDE DEF queued, f, new
<1>7. \A i, j \in queued : f[i] = f[j] => i = j
  BY <1>1, <1>3
<1>8. f \in Bijection(queued, new)
  BY <1>5, <1>7, Zenon DEF Bijection, Injection, Surjection, IsInjective
<1>9. IsFiniteSet(new) /\ Cardinality(new) = Cardinality(queued)
  BY <1>2, <1>8, FS_Bijection, Zenon DEF ExistsBijection
<1>10. \A t \in new : /\ t \in Task /\ t.id \in FreeIds
                       /\ t.rcvd_count < r.rx_deliv + Window /\ t.stage = "crypto"
  BY <1>3, <1>5
<1>11. tasks \cap new = {}
  BY <1>10, Zenon DEF FreeIds
<1>12. /\ IsFiniteSet(tasks') /\ Cardinality(tasks') = Cardinality(tasks) + Cardinality(new)
  <2>1. Cardinality(tasks) \in Nat /\ Cardinality(new) \in Nat
    BY <1>9, FS_CardinalityType, Zenon
  <2>2. Cardinality(tasks \cap new) = 0
    BY <1>11, FS_EmptySet, ZenonT(30)
  <2>3. /\ IsFiniteSet(tasks \cup new)
        /\ Cardinality(tasks \cup new) = Cardinality(tasks) + Cardinality(new) - Cardinality(tasks \cap new)
    BY <1>9, FS_Union, Zenon
  <2> QED
    BY <1>1, <2>1, <2>2, <2>3
<1>13. \A t, u \in tasks' : t.id = u.id => t = u
  <2>1. SUFFICES ASSUME NEW t \in tasks', NEW u \in tasks', t.id = u.id PROVE t = u
    OBVIOUS
  <2>2. CASE t \in tasks /\ u \in tasks
    BY <2>1, <2>2, Zenon
  <2>3. CASE t \in new /\ u \in new
    BY <2>1, <2>3, <1>1, <1>3, <1>5
  <2>4. CASE (t \in tasks /\ u \in new) \/ (t \in new /\ u \in tasks)
    BY <2>1, <2>4, <1>10, Zenon DEF FreeIds
  <2> QED
    BY <2>2, <2>3, <2>4, <1>1, Zenon
<1>14. /\ token_mngr' \in Manager
       /\ token_mngr'.tokens = mngr.tokens + Cardinality(new)
       /\ token_mngr'.pending_crypto = mngr.pending_crypto
  <2>1. Cardinality(queued) \in Nat
    BY <1>2, FS_CardinalityType, Zenon
  <2> QED
    BY <2>1, <1>1, <1>9 DEF increment_tokens, Manager
<1>15. Cardinality(tasks) \in Nat /\ Cardinality(new) \in Nat /\ mngr.tokens \in Int
  BY <1>9, FS_CardinalityType, Zenon DEF Manager
<1>16. token_mngr'.tokens = mngr.tokens + Cardinality(tasks') - Cardinality(tasks)
  BY <1>12, <1>14, <1>15
<1> QED
  BY <1>1, <1>10, <1>12, <1>13, <1>14, <1>16, ZenonT(30)

-----------------------------------------------------------------------------
\* The steps of the entity.

\* The configuration is fixed, so a predicate on the new state may be proved with
\* the old configuration.
LEMMA SettledPrime ==
  ASSUME cfg' = cfg, Settled(rx')
  PROVE  Settled(rx)'
BY Zenon DEF Settled, WindowOK, TimerOK, out_of_order_delivery, is_srb, Rx

\* A token comes back; the last one sets the event.
LEMMA ReturnToken ==
  ASSUME NEW m \in Manager
  PROVE  /\ return_token(m) \in Manager /\ m.tokens \in Int
         /\ return_token(m).tokens = m.tokens - 1
         /\ return_token(m).pending_crypto <=> m.pending_crypto \/ m.tokens = 0
<1> DEFINE b == m.pending_crypto \/ m.tokens = 0
<1>1. m.tokens \in Int /\ b \in BOOLEAN
  BY Zenon DEF Manager
<1>2. return_token(m) = [tokens |-> m.tokens - 1, pending_crypto |-> b]
  BY Zenon DEF return_token
<1> HIDE DEF b
<1>3. /\ return_token(m) \in Manager /\ return_token(m).tokens = m.tokens - 1
      /\ return_token(m).pending_crypto = b
  BY <1>1, <1>2 DEF Manager
<1> QED
  BY <1>1, <1>3, Zenon DEF b

\* start() clears the event and takes the entity's own token again.
LEMMA StartToken ==
  ASSUME NEW m \in Manager
  PROVE  start(m) \in Manager /\ start(m).tokens = m.tokens + 1 /\ ~start(m).pending_crypto
<1> DEFINE n == [m EXCEPT !.pending_crypto = FALSE]
<1>1. n \in Manager /\ n.tokens = m.tokens /\ n.pending_crypto = FALSE /\ m.tokens \in Int
  BY Zenon DEF Manager
<1>2. start(m) = [n EXCEPT !.tokens = n.tokens + 1]
  BY Zenon DEF start, increment_tokens
<1> HIDE DEF n
<1> QED
  BY <1>1, <1>2 DEF Manager

\* A PDU leaves the pool and gives its token back.
LEMMA FinishOK ==
  ASSUME IndInv, NEW t \in tasks, Finish(t), rx' \in Rx, rx.rx_deliv <= rx'.rx_deliv
  PROVE  /\ TokensOK' /\ TasksOK' /\ AwaiterOK' /\ token_mngr' \in Manager /\ tasks' \subseteq Task
         /\ awaiter' \in {awaiter, "resumed"}
<1> USE DEF IndInv
<1>1. /\ tasks' = tasks \ {t} /\ pc' = pc
      /\ token_mngr' = return_token(token_mngr)
      /\ awaiter' = IF awaiter = "suspended" /\ token_mngr'.pending_crypto THEN "resumed" ELSE awaiter
      /\ token_mngr \in Manager /\ tasks \subseteq Task
      /\ rx.rx_deliv \in Nat /\ rx'.rx_deliv \in Nat
  BY Zenon DEF Finish, flush, TypeOK, Rx
<1>2. /\ IsFiniteSet(tasks') /\ Cardinality(tasks') = Cardinality(tasks) - 1
      /\ Cardinality(tasks) \in Nat /\ Cardinality(tasks') \in Nat
      /\ tasks' = {} <=> Cardinality(tasks') = 0
  <2>1. IsFiniteSet(tasks)
    BY Zenon DEF TokensOK
  <2>2. IsFiniteSet(tasks \ {t}) /\ Cardinality(tasks \ {t}) = Cardinality(tasks) - 1
    BY <2>1, FS_RemoveElement, Zenon
  <2>3. Cardinality(tasks) \in Nat /\ Cardinality(tasks \ {t}) \in Nat
    BY <2>1, <2>2, FS_CardinalityType, Zenon
  <2>4. tasks \ {t} = {} <=> Cardinality(tasks \ {t}) = 0
    BY <2>2, FS_EmptySet, Zenon
  <2> QED
    BY <1>1, <2>2, <2>3, <2>4, Zenon
<1>3. /\ token_mngr'.tokens = token_mngr.tokens - 1 /\ token_mngr' \in Manager
      /\ token_mngr'.pending_crypto <=> token_mngr.pending_crypto \/ token_mngr.tokens = 0
      /\ token_mngr.tokens \in Int
  BY <1>1, ReturnToken, Zenon
<1>4. /\ token_mngr.tokens = Cardinality(tasks) - IF pc = "idle" THEN 0 ELSE 1
      /\ ~token_mngr.pending_crypto /\ awaiter \notin {"lost", "resumed"}
  BY Zenon DEF TokensOK, AwaiterOK
<1>5. token_mngr'.pending_crypto <=> pc' # "idle" /\ tasks' = {}
  <2>1. CASE pc = "idle"
    BY <2>1, <1>1, <1>2, <1>3, <1>4
  <2>2. CASE pc # "idle"
    BY <2>2, <1>1, <1>2, <1>3, <1>4, Zenon
  <2> QED
    BY <2>1, <2>2, Zenon
<1>6. token_mngr'.tokens = Cardinality(tasks') - IF pc' = "idle" THEN 0 ELSE 1
  BY <1>1, <1>2, <1>3, <1>4
<1>7. \A u, v \in tasks' : u.id = v.id => u = v
  BY <1>1, Zenon DEF TokensOK
<1>8. awaiter' # "lost" /\ awaiter' \in {awaiter, "resumed"}
  BY <1>1, <1>4
<1>9. TokensOK'
  BY <1>2, <1>5, <1>6, <1>7, <1>8, Zenon DEF TokensOK
<1>10. AwaiterOK'
  BY <1>1, <1>4, <1>8 DEF AwaiterOK
<1>11. TasksOK'
  <2>1. SUFFICES ASSUME NEW u \in tasks'
                 PROVE  /\ u.rcvd_count < rx'.rx_deliv + Window
                        /\ u.stage = "apply_reordering" => u.count = u.rcvd_count
    BY Zenon DEF TasksOK
  <2>2. u \in tasks /\ u.rcvd_count \in Nat
    BY <1>1, Zenon DEF Task
  <2> QED
    BY <2>2, <1>1, WindowAssumption DEF TasksOK
<1> QED
  BY <1>1, <1>3, <1>8, <1>9, <1>10, <1>11, Zenon

\* stop() of the token manager: the entity gives its own token back.
LEMMA StopOK ==
  ASSUME IndInv, pc = "idle", pc' \in {"change", "release"}, tasks' = tasks,
         token_mngr' = stop(token_mngr), awaiter' = awaiter
  PROVE  TokensOK' /\ AwaiterOK' /\ token_mngr' \in Manager
<1>1. /\ token_mngr \in Manager /\ IsFiniteSet(tasks)
      /\ token_mngr.tokens = Cardinality(tasks) - 0 /\ ~token_mngr.pending_crypto
      /\ \A u, v \in tasks : u.id = v.id => u = v
      /\ awaiter = "none"
  BY DEF IndInv, TypeOK, TokensOK, AwaiterOK
<1>2. Cardinality(tasks) \in Nat /\ (Cardinality(tasks) = 0 <=> tasks = {})
  BY <1>1, FS_CardinalityType, FS_EmptySet, Zenon
<1>3. /\ token_mngr'.tokens = token_mngr.tokens - 1 /\ token_mngr' \in Manager
      /\ token_mngr'.pending_crypto <=> token_mngr.pending_crypto \/ token_mngr.tokens = 0
  BY <1>1, ReturnToken, Zenon DEF stop
<1>4. pc' # "idle"
  OBVIOUS
<1> QED
  BY <1>1, <1>2, <1>3, <1>4 DEF TokensOK, AwaiterOK

\* The timer expires on a settled state, which is of no concern to the tasks.
LEMMA CallbackOK ==
  ASSUME IndInv, reordering_callback
  PROVE  Settled(rx') /\ rx.rx_deliv <= rx'.rx_deliv /\ Watched' /\ Kept(rx, rx')
<1>1. /\ Settled(rx) /\ rx \in Rx /\ rx.rx_deliv \in Nat /\ rx.rx_next \in Nat /\ rx.rx_reord \in Nat
      /\ rx.reordering_timer /\ rx.rx_deliv < rx.rx_reord /\ rx.rx_reord <= rx.rx_next
      /\ cfg' = cfg /\ stopped' = stopped
  BY Zenon DEF IndInv, TypeOK, Settled, TimerOK, Rx, reordering_callback
<1>2. CASE stopped
  <2>1. rx' = [rx EXCEPT !.reordering_timer = FALSE]
    BY <1>2, Zenon DEF reordering_callback
  <2>2. /\ rx'.rx_deliv = rx.rx_deliv /\ rx'.rx_next = rx.rx_next /\ rx'.window = rx.window
        /\ ~rx'.reordering_timer
    BY <2>1, <1>1, Zenon DEF Rx
  <2>3. WindowOK(rx') /\ Kept(rx, rx')
    BY <2>1, <1>1, TimerKeepsWindow, Zenon DEF Settled
  <2> QED
    BY <2>2, <2>3, <1>1, <1>2 DEF Settled, TimerOK, Watched
<1>3. CASE ~stopped
  <2>1. rx' = handle_t_reordering_expire(rx)
    BY <1>3, Zenon DEF reordering_callback
  <2>2. cfg.t_reordering # "ms0"
    BY <1>1 DEF Settled
  <2>3. /\ Settled(rx') /\ rx.rx_deliv <= rx'.rx_deliv /\ Kept(rx, rx')
        /\ rx'.rx_deliv < rx'.rx_next => rx'.reordering_timer
    BY <2>1, <2>2, <1>1, ExpireOK DEF Settled
  <2> QED
    BY <2>3, Zenon DEF Watched
<1> QED
  BY <1>2, <1>3, Zenon

\* A verified PDU comes back from the pool.
LEMMA ApplyReorderingOK ==
  ASSUME IndInv, NEW t \in tasks, apply_reordering(t)
  PROVE  Settled(rx') /\ rx.rx_deliv <= rx'.rx_deliv /\ Watched' /\ Kept(rx, rx')
<1>1. /\ Settled(rx) /\ cfg \in Bearers /\ t \in Task /\ t.count = t.rcvd_count
      /\ t.rcvd_count < rx.rx_deliv + Window /\ rx' = reordered(rx, t.rcvd_count)
      /\ cfg' = cfg /\ stopped' = stopped
  BY Zenon DEF IndInv, TypeOK, TasksOK, apply_reordering, Finish
<1>2. t.rcvd_count \in Sent
  BY <1>1, Zenon DEF Task
<1>3. /\ Settled(rx') /\ rx.rx_deliv <= rx'.rx_deliv /\ Kept(rx, rx')
      /\ rx' # rx /\ cfg.t_reordering = "finite" /\ rx'.rx_deliv < rx'.rx_next
           => rx'.reordering_timer
  BY <1>1, <1>2, ReorderedOK, Zenon
<1>4. Watched'
  BY <1>1, <1>3, Zenon DEF IndInv, Watched
<1> QED
  BY <1>3, <1>4, Zenon

\* A worker finishes: the task goes to its next stage under the same id.
LEMMA ApplySecurityOK ==
  ASSUME IndInv, NEW t \in tasks, apply_security(t)
  PROVE  TokensOK' /\ TasksOK' /\ AwaiterOK' /\ tasks' \subseteq Task
<1> DEFINE n == [t EXCEPT !.stage = IF t.key = key /\ t.count = t.rcvd_count
                                    THEN "apply_reordering" ELSE "handle_failure"]
<1>1. /\ tasks \subseteq Task /\ IsFiniteSet(tasks) /\ tasks' = (tasks \ {t}) \cup {n}
      /\ \A u, v \in tasks : u.id = v.id => u = v
      /\ token_mngr' = token_mngr /\ pc' = pc /\ awaiter' = awaiter /\ rx' = rx
  BY Zenon DEF IndInv, TypeOK, TokensOK, apply_security
<1>2. /\ n \in Task /\ n.id = t.id /\ n.rcvd_count = t.rcvd_count
      /\ n.stage = "apply_reordering" => n.count = n.rcvd_count
  BY <1>1, Zenon DEF Task
<1> HIDE DEF n
<1>3. n \notin tasks \ {t}
  BY <1>1, <1>2, Zenon
<1>4. IsFiniteSet(tasks') /\ Cardinality(tasks') = Cardinality(tasks) /\ tasks # {} /\ tasks' # {}
  <2>1. IsFiniteSet(tasks \ {t}) /\ Cardinality(tasks \ {t}) = Cardinality(tasks) - 1
    BY <1>1, FS_RemoveElement, Zenon
  <2>2. IsFiniteSet((tasks \ {t}) \cup {n}) /\ Cardinality((tasks \ {t}) \cup {n}) = Cardinality(tasks \ {t}) + 1
    BY <2>1, <1>3, FS_AddElement, Zenon
  <2>3. Cardinality(tasks) \in Nat
    BY <1>1, FS_CardinalityType, Zenon
  <2> QED
    BY <2>1, <2>2, <2>3, <1>1
<1>5. \A u, v \in tasks' : u.id = v.id => u = v
  BY <1>1, <1>2
<1>6. TokensOK'
  BY <1>1, <1>4, <1>5, Zenon DEF IndInv, TokensOK
<1>7. TasksOK'
  BY <1>1, <1>2, Zenon DEF IndInv, TasksOK
<1>8. AwaiterOK'
  BY <1>1, <1>4, Zenon DEF IndInv, AwaiterOK
<1> QED
  BY <1>1, <1>2, <1>6, <1>7, <1>8, Zenon

\* A PDU arrives and enters the pool, unless it is refused.
LEMMA HandlePduOK ==
  ASSUME IndInv, NEW p \in Pdu, handle_pdu(p)
  PROVE  IndInv'
<1>1. PICK id \in FreeIds \cup {Refused} : handle_data_pdus(rx, <<p>>, <<id>>, token_mngr)
  BY Zenon DEF handle_pdu
<1>2. /\ ~stopped /\ ~buffering
      /\ cfg' = cfg /\ rx' = rx /\ key' = key /\ buffering' = buffering
      /\ pdu_buffer' = pdu_buffer /\ stopped' = stopped /\ pc' = pc /\ awaiter' = awaiter
  BY Zenon DEF handle_pdu
<1>3. pc = "idle" /\ awaiter = "none"
  BY <1>2 DEF IndInv, TypeOK, ProcedureOK, AwaiterOK
<1>4. <<p>> \in Seq(Pdu) /\ <<id>> \in [DOMAIN <<p>> -> FreeIds \cup {Refused}]
  OBVIOUS
<1>5. /\ WindowOK(rx) /\ token_mngr \in Manager /\ tasks \subseteq Task /\ IsFiniteSet(tasks)
      /\ \A t, u \in tasks : t.id = u.id => t = u
  BY Zenon DEF IndInv, TypeOK, Settled, TokensOK
<1>6. /\ tasks' \subseteq Task /\ IsFiniteSet(tasks')
      /\ \A t, u \in tasks' : t.id = u.id => t = u
      /\ token_mngr' \in Manager
      /\ token_mngr'.tokens = token_mngr.tokens + Cardinality(tasks') - Cardinality(tasks)
      /\ token_mngr'.pending_crypto = token_mngr.pending_crypto
      /\ max_count' \in [notified : BOOLEAN, overflow : BOOLEAN]
      /\ \A t \in tasks' \ tasks : t.rcvd_count < rx.rx_deliv + Window /\ t.stage = "crypto"
  BY <1>1, <1>4, <1>5, HandleDataOK, Zenon
<1>7. TypeOK'
  BY <1>2, <1>6, Zenon DEF IndInv, TypeOK
<1>8. TokensOK'
  <2>1. Cardinality(tasks) \in Nat /\ Cardinality(tasks') \in Nat
    BY <1>5, <1>6, FS_CardinalityType, Zenon
  <2>2. token_mngr.tokens = Cardinality(tasks) - 0 /\ ~token_mngr.pending_crypto
    BY <1>3, Zenon DEF IndInv, TokensOK
  <2>3. token_mngr'.tokens = Cardinality(tasks') - 0 /\ ~token_mngr'.pending_crypto
    BY <2>1, <2>2, <1>6
  <2> QED
    BY <2>3, <1>2, <1>3, <1>6, Zenon DEF TokensOK
<1>9. TasksOK'
  BY <1>2, <1>6, Zenon DEF IndInv, TasksOK
<1>10. Settled(rx)'
  BY <1>2, SettledPrime, Zenon DEF IndInv
<1>11. Watched' /\ ProcedureOK' /\ AwaiterOK'
  BY <1>2, <1>3 DEF IndInv, Watched, ProcedureOK, AwaiterOK
<1> QED
  BY <1>7, <1>8, <1>9, <1>10, <1>11, Zenon DEF IndInv

\* The pool is empty when the keys are replaced; the PDUs that waited enter it.
LEMMA EndKeyChangeOK ==
  ASSUME IndInv, EndKeyChange
  PROVE  IndInv'
<1>1. /\ pc = "change" /\ awaiter = "resumed" /\ pc' = "idle" /\ awaiter' = "none" /\ key' = key + 1
      /\ buffering' = FALSE /\ pdu_buffer' = <<>> /\ cfg' = cfg /\ stopped' = stopped
  BY Zenon DEF EndKeyChange
<1>2. PICK r \in {rx, reestablish(rx)}, ids \in [DOMAIN pdu_buffer -> FreeIds \cup {Refused}] :
        rx' = r /\ handle_data_pdus(r, pdu_buffer, ids, start(token_mngr))
  BY Zenon DEF EndKeyChange
<1>3. /\ tasks = {} /\ token_mngr.tokens = Cardinality(tasks) - 1 /\ token_mngr \in Manager
      /\ pdu_buffer \in Seq(Pdu) /\ tasks \subseteq Task
      /\ key \in 0 .. MaxKey /\ key < MaxKey /\ MaxKey \in Nat
  BY <1>1, BoundsAssumption, Zenon DEF IndInv, TypeOK, TokensOK, ProcedureOK, AwaiterOK, Key
<1>4. IsFiniteSet(tasks) /\ Cardinality(tasks) = 0
  BY <1>3, FS_EmptySet, Zenon
<1>5. /\ start(token_mngr) \in Manager
      /\ start(token_mngr).tokens = 0 /\ ~start(token_mngr).pending_crypto
  BY <1>3, <1>4, StartToken
<1>6. Settled(r)
  BY <1>2, ReestablishOK, Zenon DEF IndInv
<1>7. /\ tasks' \subseteq Task /\ IsFiniteSet(tasks')
      /\ \A t, u \in tasks' : t.id = u.id => t = u
      /\ token_mngr' \in Manager
      /\ token_mngr'.tokens = start(token_mngr).tokens + Cardinality(tasks') - Cardinality(tasks)
      /\ token_mngr'.pending_crypto = start(token_mngr).pending_crypto
      /\ max_count' \in [notified : BOOLEAN, overflow : BOOLEAN]
      /\ \A t \in tasks' \ tasks : t.rcvd_count < r.rx_deliv + Window /\ t.stage = "crypto"
  <2>1. WindowOK(r) /\ \A t, u \in tasks : t.id = u.id => t = u
    BY <1>3, <1>6, Zenon DEF Settled
  <2> QED
    BY <2>1, <1>2, <1>3, <1>4, <1>5, HandleDataOK, Zenon
<1>8. Settled(rx)'
  BY <1>1, <1>2, <1>6, SettledPrime, Zenon
<1>9. TokensOK'
  <2>1. Cardinality(tasks') \in Nat
    BY <1>7, FS_CardinalityType, Zenon
  <2>2. token_mngr'.tokens = Cardinality(tasks') - 0 /\ ~token_mngr'.pending_crypto
    BY <2>1, <1>4, <1>5, <1>7, SMTT(30)
  <2> QED
    BY <2>2, <1>1, <1>7, Zenon DEF TokensOK
<1>10. TasksOK'
  BY <1>2, <1>3, <1>7, Zenon DEF TasksOK
<1>11. TypeOK'
  <2>1. rx' \in Rx
    BY <1>2, <1>6, Zenon DEF Settled, WindowOK
  <2>2. key' \in 0 .. MaxKey
    BY <1>1, <1>3
  <2>3. pdu_buffer' \in Seq(Pdu)
    BY <1>1
  <2> QED
    BY <2>1, <2>2, <2>3, <1>1, <1>7, ZenonT(30) DEF IndInv, TypeOK, Key, Rx, Pdu, Task
<1>12. Watched'
  <2>1. SUFFICES ASSUME ~stopped, cfg.t_reordering = "finite", rx'.rx_deliv < rx'.rx_next
                 PROVE  rx'.reordering_timer
    BY <1>1, Zenon DEF Watched
  <2>2. CASE rx' = rx
    BY <2>1, <2>2, Zenon DEF IndInv, Watched
  <2>3. CASE rx' = reestablish(rx) /\ rx' # rx
    <3>1. rx'.rx_deliv = 0 /\ rx'.rx_next = 0
      BY <2>3, Zenon DEF reestablish, InitialRx
    <3> QED
      BY <3>1, <2>1
  <2> QED
    BY <2>2, <2>3, <1>2, Zenon
<1>13. ProcedureOK' /\ AwaiterOK'
  BY <1>1 DEF ProcedureOK, AwaiterOK
<1> QED
  BY <1>8, <1>9, <1>10, <1>11, <1>12, <1>13, Zenon DEF IndInv

\* A procedure begins.
LEMMA BeginOK ==
  ASSUME IndInv, BeginKeyChange \/ BeginRelease
  PROVE  IndInv'
<1>1. CASE BeginKeyChange
  <2>1. /\ pc = "idle" /\ key < MaxKey /\ pc' = "change" /\ buffering' = TRUE
        /\ token_mngr' = stop(token_mngr)
        /\ cfg' = cfg /\ rx' = rx /\ max_count' = max_count /\ tasks' = tasks /\ key' = key
        /\ pdu_buffer' = pdu_buffer /\ stopped' = stopped /\ awaiter' = awaiter
    BY <1>1, Zenon DEF BeginKeyChange
  <2>2. TokensOK' /\ AwaiterOK' /\ token_mngr' \in Manager
    BY <2>1, StopOK, Zenon
  <2>3. Settled(rx)'
    BY <2>1, SettledPrime, Zenon DEF IndInv
  <2> QED
    BY <2>1, <2>2, <2>3, Zenon DEF IndInv, TypeOK, Watched, TasksOK, ProcedureOK, Rx, Pdu, Key, Task
<1>2. CASE BeginRelease
  <2>1. /\ pc = "idle" /\ pc' = "release" /\ stopped' = TRUE
        /\ rx' = [rx EXCEPT !.reordering_timer = FALSE]
        /\ token_mngr' = stop(token_mngr)
        /\ cfg' = cfg /\ max_count' = max_count /\ tasks' = tasks /\ key' = key
        /\ pdu_buffer' = pdu_buffer /\ buffering' = buffering /\ awaiter' = awaiter
    BY <1>2, Zenon DEF BeginRelease
  <2>2. TokensOK' /\ AwaiterOK' /\ token_mngr' \in Manager
    BY <2>1, StopOK, Zenon
  <2>3. /\ rx'.rx_deliv = rx.rx_deliv /\ rx'.rx_next = rx.rx_next /\ rx'.window = rx.window
        /\ ~rx'.reordering_timer
    BY <2>1, Zenon DEF IndInv, TypeOK, Rx
  <2>4. WindowOK(rx')
    <3>1. WindowOK(rx) /\ rx.rx_reord \in Nat
      BY Zenon DEF IndInv, Settled, WindowOK, Rx
    <3> QED
      BY <3>1, <2>1, TimerKeepsWindow, ZenonT(30)
  <2>5. Settled(rx')
    BY <2>3, <2>4, Zenon DEF IndInv, Settled, TimerOK
  <2>6. Settled(rx)'
    BY <2>1, <2>5, SettledPrime, Zenon
  <2>7. TypeOK'
    <3>1. rx' \in Rx
      BY <2>4, Zenon DEF WindowOK
    <3> QED
      BY <3>1, <2>1, <2>2, Zenon DEF IndInv, TypeOK, Rx, Pdu, Key, Task
  <2> QED
    BY <2>1, <2>2, <2>3, <2>6, <2>7, Zenon DEF IndInv, Watched, TasksOK, ProcedureOK
<1> QED
  BY <1>1, <1>2, Zenon

\* The routine tests the event, or suspends; only a set event lets it go on.
LEMMA AwaitOK ==
  ASSUME IndInv, await_ready \/ await_suspend
  PROVE  IndInv'
<1>1. /\ cfg' = cfg /\ rx' = rx /\ max_count' = max_count /\ tasks' = tasks /\ key' = key
      /\ buffering' = buffering /\ pdu_buffer' = pdu_buffer /\ stopped' = stopped /\ pc' = pc
      /\ awaiter \in {"none", "tested"}
  BY DEF await_ready, await_suspend
<1>2. /\ token_mngr' \in Manager /\ token_mngr'.tokens = token_mngr.tokens
      /\ token_mngr'.pending_crypto <=> token_mngr.pending_crypto /\ awaiter' # "lost"
      /\ awaiter' \in {"tested", "suspended", "resumed", "lost"}
      /\ awaiter' = "resumed" => token_mngr'.pending_crypto
      /\ awaiter' = "lost" => token_mngr.pending_crypto
      /\ pc \in {"change", "release"}
  <2>1. token_mngr \in Manager
    BY Zenon DEF IndInv, TypeOK
  <2>2. CASE await_ready
    BY <2>1, <2>2 DEF await_ready
  <2>3. CASE await_suspend
    <3>1. pc \in {"change", "release"}
      BY <2>3 DEF await_suspend, IndInv, AwaiterOK
    <3> QED
      BY <2>1, <2>3, <3>1, Zenon DEF await_suspend, Manager
  <2> QED
    BY <2>2, <2>3
<1>3. Settled(rx)'
  BY <1>1, SettledPrime, Zenon DEF IndInv
<1>4. TokensOK' /\ AwaiterOK'
  BY <1>1, <1>2 DEF IndInv, TokensOK, AwaiterOK
<1>5. TypeOK'
  <2>1. awaiter' \in {"none", "tested", "suspended", "resumed", "lost"}
    BY <1>2
  <2> QED
    BY <1>1, <1>2, <2>1, Zenon DEF IndInv, TypeOK, Pdu, Key, Task, Rx
<1> QED
  BY <1>1, <1>3, <1>4, <1>5, Zenon DEF IndInv, Watched, TasksOK, ProcedureOK

-----------------------------------------------------------------------------
\* A bearer starts with an empty window, an empty pool and no procedure under way:
\* the constructor of pdcp_entity_rx establishes the invariant.
LEMMA InitIndInv == Init => IndInv
<1> SUFFICES ASSUME Init PROVE IndInv
  OBVIOUS
<1>1. PICK count \in StartCounts : rx = InitialRx(count)
  BY Zenon DEF Init
<1>2. Settled(rx)
  BY <1>1, InitialOK, CountsAssumption, Zenon
<1>3. rx.rx_deliv = rx.rx_next
  BY <1>1, Zenon DEF InitialRx
<1>4. IsFiniteSet(tasks) /\ Cardinality(tasks) = 0 /\ tasks = {}
  BY FS_EmptySet, Zenon DEF Init
<1>5. TypeOK
  <2>1. rx \in Rx
    BY <1>2, Zenon DEF Settled, WindowOK
  <2>2. pdu_buffer \in Seq(Pdu)
    BY DEF Init
  <2>3. token_mngr \in Manager
    BY DEF Init, ManagerInit, Manager
  <2>4. key \in Key
    BY BoundsAssumption DEF Init, Key
  <2> QED
    BY <2>1, <2>2, <2>3, <2>4, Zenon DEF Init, TypeOK, Rx, Pdu, Key, Task, Manager
<1>6. TokensOK
  BY <1>4 DEF Init, TokensOK, ManagerInit
<1>7. TasksOK /\ ProcedureOK /\ AwaiterOK
  BY <1>4 DEF Init, TasksOK, ProcedureOK, AwaiterOK
<1>8. Watched
  BY <1>2, <1>3 DEF Watched, Settled, WindowOK, Rx
<1> QED
  BY <1>2, <1>5, <1>6, <1>7, <1>8, Zenon DEF IndInv

\* Every handler, crypto worker, timer and procedure of the CU-UP preserves the
\* invariant: the lemmas above, one for each action.
LEMMA NextIndInv == IndInv /\ [Next]_vars => IndInv'
<1> SUFFICES ASSUME IndInv, [Next]_vars PROVE IndInv'
  OBVIOUS
<1>1. ASSUME NEW p \in Pdu, handle_pdu(p) PROVE IndInv'
  BY <1>1, HandlePduOK, Zenon
<1>2. ASSUME NEW p \in Pdu, handle_pdu_buffered(p) PROVE IndInv'
  <2>1. /\ pdu_buffer' = Append(pdu_buffer, p)
        /\ cfg' = cfg /\ rx' = rx /\ max_count' = max_count /\ token_mngr' = token_mngr
        /\ tasks' = tasks /\ key' = key /\ buffering' = buffering /\ stopped' = stopped /\ pc' = pc
        /\ awaiter' = awaiter
    BY <1>2, Zenon DEF handle_pdu_buffered
  <2>2. pdu_buffer' \in Seq(Pdu)
    BY <2>1 DEF IndInv, TypeOK
  <2>3. Settled(rx)'
    BY <2>1, SettledPrime, Zenon DEF IndInv
  <2>4. TypeOK'
    BY <2>1, <2>2, ZenonT(30) DEF IndInv, TypeOK, Pdu, Key, Task, Manager, Rx
  <2> QED
    BY <2>1, <2>3, <2>4, Zenon DEF IndInv, Watched, TasksOK, TokensOK, ProcedureOK, AwaiterOK
<1>3. ASSUME UNCHANGED vars PROVE IndInv'
  <2>1. Settled(rx)'
    BY <1>3, SettledPrime, Zenon DEF IndInv, vars
  <2>2. TypeOK'
    BY <1>3, Zenon DEF vars, IndInv, TypeOK
  <2> QED
    BY <1>3, <2>1, <2>2, ZenonT(30) DEF vars, IndInv, Watched, TasksOK, TokensOK, ProcedureOK, AwaiterOK
<1>4. ASSUME NEW t \in tasks, apply_security(t) PROVE IndInv'
  <2>1. /\ cfg' = cfg /\ rx' = rx /\ max_count' = max_count /\ token_mngr' = token_mngr
        /\ key' = key /\ buffering' = buffering /\ pdu_buffer' = pdu_buffer
        /\ stopped' = stopped /\ pc' = pc /\ awaiter' = awaiter
    BY <1>4, Zenon DEF apply_security
  <2>2. TokensOK' /\ TasksOK' /\ AwaiterOK' /\ tasks' \subseteq Task
    BY <1>4, ApplySecurityOK, Zenon
  <2>3. Settled(rx)'
    BY <2>1, SettledPrime, Zenon DEF IndInv
  <2>4. TypeOK'
    BY <2>1, <2>2, ZenonT(30) DEF IndInv, TypeOK
  <2>5. Watched' /\ ProcedureOK'
    BY <2>1, ZenonT(30) DEF IndInv, Watched, ProcedureOK
  <2> QED
    BY <2>2, <2>3, <2>4, <2>5, Zenon DEF IndInv
<1>5. ASSUME NEW t \in tasks, Finish(t), Settled(rx'), rx.rx_deliv <= rx'.rx_deliv, Watched'
      PROVE  IndInv'
  <2>1. /\ cfg' = cfg /\ max_count' = max_count /\ key' = key /\ buffering' = buffering
        /\ pdu_buffer' = pdu_buffer /\ stopped' = stopped /\ pc' = pc
    BY <1>5, Zenon DEF Finish
  <2>2. rx' \in Rx
    BY <1>5, Zenon DEF Settled, WindowOK
  <2>3. /\ TokensOK' /\ TasksOK' /\ AwaiterOK' /\ token_mngr' \in Manager /\ tasks' \subseteq Task
        /\ awaiter' \in {awaiter, "resumed"}
    BY <1>5, <2>2, FinishOK, Zenon
  <2>4. Settled(rx)'
    BY <1>5, <2>1, SettledPrime, Zenon
  <2>5. TypeOK'
    BY <2>1, <2>2, <2>3, Zenon DEF IndInv, TypeOK, Pdu, Key, Task, Manager, Rx
  <2>6. ProcedureOK'
    BY <2>1, Zenon DEF IndInv, ProcedureOK
  <2> QED
    BY <1>5, <2>3, <2>4, <2>5, <2>6, Zenon DEF IndInv
<1>6. ASSUME NEW t \in tasks, apply_security_refused(t) \/ handle_failure(t) PROVE IndInv'
  <2>1. Finish(t) /\ rx' = rx /\ cfg' = cfg /\ stopped' = stopped
    BY <1>6, Zenon DEF apply_security_refused, handle_failure, Finish
  <2>2. Settled(rx') /\ rx.rx_deliv <= rx'.rx_deliv /\ Watched'
    BY <2>1 DEF IndInv, TypeOK, Rx, Watched
  <2> QED
    BY <2>1, <2>2, <1>5, Zenon
<1>7. ASSUME NEW t \in tasks, apply_reordering(t) PROVE IndInv'
  <2>1. Finish(t)
    BY <1>7, Zenon DEF apply_reordering
  <2> QED
    BY <2>1, <1>5, <1>7, ApplyReorderingOK, Zenon
<1>8. ASSUME reordering_callback PROVE IndInv'
  <2>1. /\ cfg' = cfg /\ max_count' = max_count /\ token_mngr' = token_mngr /\ tasks' = tasks
        /\ key' = key /\ buffering' = buffering /\ pdu_buffer' = pdu_buffer
        /\ stopped' = stopped /\ pc' = pc /\ awaiter' = awaiter
    BY <1>8, Zenon DEF reordering_callback
  <2>2. Settled(rx') /\ rx.rx_deliv <= rx'.rx_deliv /\ Watched'
    BY <1>8, CallbackOK, ZenonT(30)
  <2>3. rx' \in Rx /\ rx \in Rx
    BY <2>2, Zenon DEF Settled, WindowOK, IndInv, TypeOK
  <2>4. TasksOK'
    <3>1. SUFFICES ASSUME NEW u \in tasks
                   PROVE  /\ u.rcvd_count < rx'.rx_deliv + Window
                          /\ u.stage = "apply_reordering" => u.count = u.rcvd_count
      BY <2>1, Zenon DEF TasksOK
    <3>2. u.rcvd_count \in Nat /\ rx.rx_deliv \in Nat /\ rx'.rx_deliv \in Nat
      BY <2>3, Zenon DEF IndInv, TypeOK, Task, Rx
    <3> QED
      BY <3>2, <2>2, WindowAssumption DEF IndInv, TasksOK
  <2>5. Settled(rx)'
    BY <2>1, <2>2, SettledPrime, Zenon
  <2>6. TypeOK'
    BY <2>1, <2>3, ZenonT(30) DEF IndInv, TypeOK, Pdu, Key, Task, Manager, Rx
  <2> QED
    BY <2>1, <2>2, <2>4, <2>5, <2>6, Zenon DEF IndInv, TokensOK, ProcedureOK, AwaiterOK
<1>9. ASSUME EndRelease PROVE IndInv'
  <2>1. /\ pc = "release" /\ pc' = "gone" /\ awaiter = "resumed" /\ awaiter' = "none"
        /\ cfg' = cfg /\ rx' = rx /\ max_count' = max_count /\ token_mngr' = token_mngr
        /\ tasks' = tasks /\ key' = key /\ buffering' = buffering /\ pdu_buffer' = pdu_buffer
        /\ stopped' = stopped
    BY <1>9, Zenon DEF EndRelease
  <2>2. Settled(rx)'
    BY <2>1, SettledPrime, Zenon DEF IndInv
  <2> QED
    BY <2>1, <2>2 DEF IndInv, TypeOK, Watched, TasksOK, TokensOK, ProcedureOK, AwaiterOK, Pdu, Key, Task, Manager, Rx
<1>10. ASSUME handle_pdu_dropped PROVE IndInv'
  BY <1>3, <1>10, Zenon DEF handle_pdu_dropped
<1> QED
  BY <1>1, <1>2, <1>3, <1>4, <1>6, <1>7, <1>8, <1>9, <1>10, EndKeyChangeOK, BeginOK, AwaitOK
     DEF Next, UeStep, WorkerStep, RoutineStep

\* The inductive invariant holds in every reachable state.
THEOREM IndInvHolds == Spec => []IndInv
BY InitIndInv, NextIndInv, PTL DEF Spec

\* No SDU goes to the upper layer twice, however PDUs are duplicated, delayed and
\* overtaken in the crypto pool (apply_reordering, deliver_sdu).
THEOREM DeliveredOnceHolds == Spec => []DeliveredOnce
<1>1. IndInv => DeliveredOnce
  BY Zenon DEF IndInv, Settled, WindowOK, DeliveredOnce
<1> QED
  BY <1>1, IndInvHolds, PTL

\* No gap is waited for without a timer (apply_reordering,
\* handle_t_reordering_expire).
THEOREM GapWatchedHolds == Spec => []GapWatched
<1>1. IndInv => GapWatched
  BY Zenon DEF IndInv, Settled, TimerOK, Watched, GapWatched
<1> QED
  BY <1>1, IndInvHolds, PTL

\* A status report says exactly what was received (compile_status_report).
THEOREM StatusExactHolds == Spec => []StatusExact
<1>1. ASSUME IndInv PROVE StatusExact
  <2> DEFINE report == compile_status_report(rx)
  <2>1. /\ rx \in Rx /\ rx.rx_deliv \in Nat /\ rx.rx_next \in Nat /\ rx.rx_deliv <= rx.rx_next
        /\ rx.delivered \in [Sent -> Nat] /\ rx.rx_deliv \notin rx.window
        /\ rx.window \subseteq Sent \cap rx.rx_deliv .. rx.rx_next - 1
    BY <1>1, Zenon DEF IndInv, Settled, WindowOK, Rx
  <2>2. ASSUME NEW c \in Nat, rx.rx_deliv <= c PROVE Received(c) <=> c \in rx.window
    <3>1. rx.held = IF out_of_order_delivery THEN {} ELSE rx.window
      BY <1>1, Zenon DEF IndInv, Settled, WindowOK
    <3>2. c \in Sent => rx.delivered[c] = IF c \in rx.window /\ out_of_order_delivery THEN 1 ELSE 0
      BY <1>1, <2>2, Zenon DEF IndInv, Settled, WindowOK
    <3>3. CASE out_of_order_delivery
      BY <3>1, <3>2, <3>3, <2>1 DEF Received
    <3>4. CASE ~out_of_order_delivery
      BY <3>1, <3>2, <3>4, <2>1 DEF Received
    <3> QED
      BY <3>3, <3>4, Zenon
  <2>3. ASSUME NEW c \in DOMAIN report.bits PROVE report.bits[c] <=> Received(c)
    <3>1. c \in Nat /\ rx.rx_deliv <= c /\ report.bits[c] = (c \in rx.window)
      BY <2>1, <2>3, BoundsAssumption DEF compile_status_report
    <3> QED
      BY <3>1, <2>2, ZenonT(30)
  <2>4. ASSUME NEW c \in Sent, c = report.fmc \/ c >= rx.rx_next PROVE ~Received(c)
    <3>1. report.fmc = rx.rx_deliv /\ c \in Nat
      BY CountsAssumption, Zenon DEF compile_status_report
    <3>2. rx.rx_deliv <= c /\ c \notin rx.window
      BY <3>1, <2>1, <2>4
    <3> QED
      BY <3>1, <3>2, <2>2, Zenon
  <2> QED
    BY <2>3, <2>4, Zenon DEF StatusExact
<1> QED
  BY <1>1, IndInvHolds, PTL

\* Keys are replaced and entities destroyed only when the pool is empty, and the
\* assertion of return_token() holds.
THEOREM DrainedWhenSetHolds == Spec => []DrainedWhenSet
<1>1. ASSUME IndInv PROVE DrainedWhenSet
  <2>1. Cardinality(tasks) \in Nat
    BY <1>1, FS_CardinalityType, Zenon DEF IndInv, TokensOK
  <2> QED
    BY <1>1, <2>1 DEF IndInv, TokensOK, AwaiterOK, DrainedWhenSet
<1> QED
  BY <1>1, IndInvHolds, PTL

\* No step of an SRB touches what was delivered below RX_DELIV.
LEMMA NextKept ==
  ASSUME IndInv, Next, is_srb
  PROVE  Kept(rx, rx')
<1>1. ASSUME rx' = rx PROVE Kept(rx, rx')
  BY <1>1, Zenon DEF Kept
<1>2. ASSUME NEW t \in tasks, apply_reordering(t) PROVE Kept(rx, rx')
  BY <1>2, ApplyReorderingOK, Zenon
<1>3. CASE reordering_callback
  BY <1>3, CallbackOK, Zenon
<1>4. CASE BeginRelease
  <2>1. rx' = [rx EXCEPT !.reordering_timer = FALSE] /\ WindowOK(rx) /\ rx.rx_reord \in Nat
    BY <1>4, Zenon DEF BeginRelease, IndInv, Settled, WindowOK, Rx
  <2> QED
    BY <2>1, TimerKeepsWindow, Zenon
<1>5. CASE EndKeyChange
  <2>1. rx' = rx
    BY <1>5, Zenon DEF EndKeyChange, reestablish, is_um, is_srb
  <2> QED
    BY <2>1, <1>1, Zenon
<1>6. CASE \/ \E p \in Pdu : handle_pdu(p) \/ handle_pdu_buffered(p)
           \/ handle_pdu_dropped \/ BeginKeyChange \/ EndRelease \/ await_ready \/ await_suspend
           \/ \E t \in tasks : apply_security(t) \/ apply_security_refused(t) \/ handle_failure(t)
  <2>1. rx' = rx
    BY <1>6, Zenon DEF handle_pdu, handle_pdu_buffered, handle_pdu_dropped, BeginKeyChange, EndRelease,
                await_ready, await_suspend, apply_security, apply_security_refused, handle_failure, vars
  <2> QED
    BY <2>1, <1>1, Zenon
<1> QED
  BY <1>2, <1>3, <1>4, <1>5, <1>6, Zenon DEF Next, UeStep, WorkerStep, RoutineStep

\* An SRB delivers in ascending order of COUNT (deliver_all_consecutive_counts).
THEOREM AscendingDeliveryHolds == Spec => AscendingDelivery
<1> DEFINE A == is_srb => \A c, d \in Sent :
                  (rx.delivered'[c] > rx.delivered[c] /\ rx.delivered[d] > 0) => c > d
<1>1. ASSUME IndInv, [Next]_vars PROVE [A]_vars
  <2>1. SUFFICES ASSUME Next, is_srb, NEW c \in Sent, NEW d \in Sent,
                        rx.delivered'[c] > rx.delivered[c], rx.delivered[d] > 0
                 PROVE  c > d
    BY <1>1, Zenon
  <2>2. /\ c \in Nat /\ d \in Nat /\ rx.rx_deliv \in Nat
        /\ rx.delivered[c] \in Nat /\ rx.delivered[d] \in Nat
    BY <1>1, CountsAssumption, Zenon DEF IndInv, TypeOK, Rx
  <2>3. c >= rx.rx_deliv
    <3>1. Kept(rx, rx')
      BY <1>1, <2>1, NextKept, Zenon
    <3>2. SUFFICES ASSUME c < rx.rx_deliv PROVE FALSE
      BY <2>2
    <3>3. rx'.delivered[c] = rx.delivered[c]
      BY <3>1, <3>2, Zenon DEF Kept
    <3> QED
      BY <3>3, <2>1, <2>2
  <2>4. d < rx.rx_deliv
    <3>1. ~out_of_order_delivery
      BY <2>1, Zenon DEF out_of_order_delivery
    <3>2. rx.rx_deliv <= d => rx.delivered[d] = 0
      BY <3>1, <1>1, Zenon DEF IndInv, Settled, WindowOK
    <3> QED
      BY <3>2, <2>1, <2>2
  <2> QED
    BY <2>2, <2>3, <2>4
<1> QED
  BY <1>1, IndInvHolds, PTL DEF Spec, AscendingDelivery
=============================================================================
