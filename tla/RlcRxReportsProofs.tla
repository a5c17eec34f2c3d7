------------------------- MODULE RlcRxReportsProofs -------------------------
(***************************************************************************)
(* A status report NACKs exactly the bytes that are missing, and trimming  *)
(* it acknowledges none of them, for every size of the window, of the SDUs *)
(* and of the NACK ranges.                                                 *)
(***************************************************************************)
EXTENDS RlcRxReports, NaturalsInduction, WellFoundedInduction, TLAPS

\* A set of natural numbers that is not empty has a least element.
LEMMA LeastExists ==
  ASSUME NEW T \in SUBSET Nat, T # {}
  PROVE  \E n \in T : \A m \in T : n <= m
<1>1. PICK x \in T : \A y \in T : ~ (<<y, x>> \in OpToRel(<, Nat))
  BY NatLessThanWellFounded, WFMin, Zenon
<1>2. \A y \in T : ~(y < x)
  BY <1>1, Zenon DEF OpToRel
<1> QED
  BY <1>2

\* What holds of 0, and of n + 1 when it holds of n, holds up to any bound.
LEMMA Induction ==
  ASSUME NEW n \in Nat, NEW T, 0 \in T, \A i \in 1 .. n : i - 1 \in T => i \in T
  PROVE  0 .. n \subseteq T
<1> DEFINE U == {i \in 0 .. n : i \notin T}
<1>1. SUFFICES ASSUME U # {} PROVE FALSE
  OBVIOUS
<1>2. U \in SUBSET Nat
  OBVIOUS
<1>3. PICK i \in U : \A j \in U : i <= j
  BY <1>1, <1>2, LeastExists, Zenon
<1>4. i \in 1 .. n /\ i - 1 \in 0 .. n
  BY <1>3
<1>5. i - 1 \notin U
  BY <1>3, <1>4
<1> QED
  BY <1>3, <1>4, <1>5, Zenon

\* f begins with a and goes on as g says, up to n.
Solves(f, n, a, g) == f[0] = a /\ \A i \in 1 .. n : f[i] = g[<<i, f[i - 1]>>]

\* A recursion over 0 .. n has a solution.
LEMMA RecursionExists ==
  ASSUME NEW n \in Nat, NEW S, NEW a \in S, NEW g \in [(1 .. n) \X S -> S]
  PROVE  \E f \in [0 .. n -> S] : Solves(f, n, a, g)
<1> DEFINE T == {k \in 0 .. n : \E f \in [0 .. k -> S] : Solves(f, k, a, g)}
<1>1. 0 \in T
  <2> DEFINE f0 == [i \in 0 .. 0 |-> a]
  <2>1. f0 \in [0 .. 0 -> S] /\ Solves(f0, 0, a, g)
    BY DEF Solves
  <2> HIDE DEF f0
  <2> QED
    BY <2>1
<1>2. ASSUME NEW k \in 1 .. n, k - 1 \in T PROVE k \in T
  <2>1. PICK f \in [0 .. k - 1 -> S] : Solves(f, k - 1, a, g)
    BY <1>2, Zenon
  <2> DEFINE h == [i \in 0 .. k |-> IF i = k THEN g[<<k, f[k - 1]>>] ELSE f[i]]
  <2>2. f[k - 1] \in S /\ g[<<k, f[k - 1]>>] \in S
    <3>1. k - 1 \in 0 .. k - 1
      OBVIOUS
    <3>2. f[k - 1] \in S
      BY <3>1, Zenon
    <3> QED
      BY <3>2, Zenon
  <2>3. h \in [0 .. k -> S]
    BY <2>2
  <2>4. h[k] = g[<<k, f[k - 1]>>] /\ \A i \in 0 .. k - 1 : h[i] = f[i]
    OBVIOUS
  <2> HIDE DEF h
  <2>5. h[0] = a
    BY <2>1, <2>4 DEF Solves
  <2>6. ASSUME NEW i \in 1 .. k PROVE h[i] = g[<<i, h[i - 1]>>]
    <3>1. h[i - 1] = f[i - 1]
      BY <2>4
    <3>2. CASE i = k
      BY <2>4, <3>1, <3>2, Zenon
    <3>3. CASE i # k
      <4>1. i \in 1 .. k - 1 /\ h[i] = f[i]
        BY <2>4, <3>3
      <4> QED
        BY <2>1, <3>1, <4>1, Zenon DEF Solves
    <3> QED
      BY <3>2, <3>3, Zenon
  <2>7. Solves(h, k, a, g)
    BY <2>5, <2>6, Zenon DEF Solves
  <2>8. k \in 0 .. n
    OBVIOUS
  <2> QED
    BY <2>3, <2>7, <2>8, Zenon
<1> HIDE DEF T
<1>3. 0 .. n \subseteq T
  BY <1>1, <1>2, Induction, Zenon
<1>4. n \in T
  BY <1>3
<1> QED
  BY <1>4, Zenon DEF T

-----------------------------------------------------------------------------
\* store_segment().

Span(p) == p.so .. LastByte(p)

\* A segment of an SDU: it has bytes, and its SI says whether it ends the SDU.
Piece == {p \in [so : Nat, len : Nat \ {0}, last : BOOLEAN] :
            LastByte(p) < SduLen /\ (p.last <=> LastByte(p) = SduLen - 1)}

Acc == [new : Piece, out : Seq(Piece), done : BOOLEAN, stored : BOOLEAN]

Sorted(s) == \A i, j \in DOMAIN s : i < j => LastByte(s[i]) < s[j].so

\* All segments of s end before byte x.
Below(s, x) == \A i \in DOMAIN s : LastByte(s[i]) < x

Holds(s, b) == \E i \in DOMAIN s : b \in Span(s[i])

\* The numbers of a segment.
LEMMA PieceFacts ==
  ASSUME NEW p \in Piece
  PROVE  /\ p.so \in Nat /\ p.len \in Nat \ {0} /\ p.last \in BOOLEAN
         /\ LastByte(p) \in Nat /\ LastByte(p) = p.so + p.len - 1 /\ p.so <= LastByte(p)
         /\ LastByte(p) < SduLen
         /\ p.last <=> LastByte(p) = SduLen - 1
  BY DEF Piece, LastByte

\* What advance() leaves of a segment is a segment that ends where it did.
LEMMA FromPiece ==
  ASSUME NEW p \in Piece, NEW b \in p.so .. LastByte(p)
  PROVE  From(p, b) \in Piece /\ From(p, b).so = b /\ LastByte(From(p, b)) = LastByte(p)
<1>1. p \in [so : Nat, len : Nat \ {0}, last : BOOLEAN]
  BY Zenon DEF Piece
<1> DEFINE n == LastByte(p) - b + 1
<1>2. n \in Nat \ {0} /\ b \in Nat
  BY PieceFacts
<1>3. From(p, b) = [p EXCEPT !.so = b, !.len = n]
  BY Zenon DEF From
<1> HIDE DEF n
<1>4. /\ From(p, b) \in [so : Nat, len : Nat \ {0}, last : BOOLEAN]
      /\ From(p, b).so = b /\ From(p, b).len = n /\ From(p, b).last = p.last
  BY <1>1, <1>2, <1>3, Zenon
<1>5. LastByte(From(p, b)) = LastByte(p)
  BY <1>4, PieceFacts DEF LastByte, n
<1> QED
  BY <1>4, <1>5, PieceFacts, Zenon DEF Piece

\* What ends before x ends before everything from x on.
LEMMA BelowMono ==
  ASSUME NEW s \in Seq(Piece), NEW x \in Int, NEW y \in Int, x <= y, Below(s, x)
  PROVE  Below(s, y)
<1>1. ASSUME NEW i \in DOMAIN s PROVE LastByte(s[i]) < y
  <2>1. s[i] \in Piece /\ LastByte(s[i]) < x
    BY DEF Below
  <2>2. LastByte(s[i]) \in Nat
    BY <2>1, PieceFacts, Zenon
  <2> QED
    BY <2>1, <2>2
<1> QED
  BY <1>1, Zenon DEF Below

\* Appending a segment that begins after all others.
LEMMA AppendPiece ==
  ASSUME NEW s \in Seq(Piece), NEW p \in Piece, Sorted(s), Below(s, p.so)
  PROVE  /\ Append(s, p) \in Seq(Piece) /\ Sorted(Append(s, p))
         /\ \A x \in Int : Below(s, x) /\ LastByte(p) < x => Below(Append(s, p), x)
         /\ \A b \in Nat : Holds(Append(s, p), b) <=> Holds(s, b) \/ b \in Span(p)
<1>1. /\ Append(s, p) \in Seq(Piece) /\ DOMAIN Append(s, p) = 1 .. Len(s) + 1
      /\ DOMAIN s = 1 .. Len(s) /\ Len(s) \in Nat
      /\ Append(s, p)[Len(s) + 1] = p
      /\ \A i \in 1 .. Len(s) : Append(s, p)[i] = s[i]
  OBVIOUS
<1>2. Sorted(Append(s, p))
  BY <1>1 DEF Sorted, Below
<1>3. \A x \in Int : Below(s, x) /\ LastByte(p) < x => Below(Append(s, p), x)
  BY <1>1 DEF Below
<1>4. \A b \in Nat : Holds(Append(s, p), b) <=> Holds(s, b) \/ b \in Span(p)
  BY <1>1 DEF Holds
<1> QED
  BY <1>1, <1>2, <1>3, <1>4, Zenon

\* The four ways in which the new segment meets a stored one.
StepOut(acc, cur) ==
  LET new == acc.new IN
  \/ /\ acc.done
     /\ StoreStep(acc, cur) = [acc EXCEPT !.out = Append(@, cur)]
  \/ /\ ~acc.done /\ new.so > LastByte(cur)
     /\ StoreStep(acc, cur) = [acc EXCEPT !.out = Append(@, cur)]
  \/ /\ ~acc.done /\ new.so \in Span(cur) /\ LastByte(new) <= LastByte(cur)
     /\ StoreStep(acc, cur) = [acc EXCEPT !.out = Append(@, cur), !.done = TRUE, !.stored = FALSE]
  \/ /\ ~acc.done /\ new.so \in Span(cur) /\ LastByte(new) > LastByte(cur)
     /\ StoreStep(acc, cur) = [acc EXCEPT !.out = Append(@, cur), !.new = From(new, LastByte(cur) + 1)]
  \/ /\ ~acc.done /\ LastByte(new) < cur.so
     /\ StoreStep(acc, cur) = [acc EXCEPT !.out = @ \o <<new, cur>>, !.done = TRUE]
  \/ /\ ~acc.done /\ new.so < cur.so /\ cur.so <= LastByte(new) /\ LastByte(new) < LastByte(cur)
     /\ StoreStep(acc, cur) = [acc EXCEPT !.out = @ \o <<new, From(cur, LastByte(new) + 1)>>, !.done = TRUE]
  \/ /\ ~acc.done /\ new.so < cur.so /\ LastByte(cur) <= LastByte(new)
     /\ StoreStep(acc, cur) = acc

\* The cases of the loop's body are exhaustive.
LEMMA StepCases ==
  ASSUME NEW acc \in Acc, NEW cur \in Piece
  PROVE  StepOut(acc, cur)
<1> DEFINE new == acc.new
<1>1. /\ new.so \in Nat /\ LastByte(new) \in Nat /\ new.so <= LastByte(new)
      /\ cur.so \in Nat /\ LastByte(cur) \in Nat /\ cur.so <= LastByte(cur)
  BY PieceFacts, Zenon DEF Acc
<1>2. acc.done \in BOOLEAN
  BY Zenon DEF Acc
<1>3. CASE acc.done
  BY <1>2, <1>3, Zenon DEF StepOut, StoreStep
<1>4. CASE ~acc.done /\ new.so > LastByte(cur)
  <2>1. ~acc.done /\ new.so > LastByte(cur) /\ new.so \notin cur.so .. LastByte(cur) /\ ~(new.so < cur.so)
    BY <1>1, <1>4
  <2> QED
    BY <1>2, <2>1, Zenon DEF StepOut, StoreStep
<1>5. CASE ~acc.done /\ new.so \in Span(cur)
  <2>1. ~acc.done /\ ~(new.so > LastByte(cur)) /\ new.so \in cur.so .. LastByte(cur) /\ ~(new.so < cur.so)
    BY <1>1, <1>5 DEF Span
  <2>2. CASE LastByte(new) <= LastByte(cur)
    <3>1. StoreStep(acc, cur) = [acc EXCEPT !.out = Append(@, cur), !.done = TRUE, !.stored = FALSE]
      BY <2>1, <2>2, Zenon DEF StoreStep
    <3> QED
      BY <1>5, <2>2, <3>1, Zenon DEF StepOut
  <2>3. CASE ~(LastByte(new) <= LastByte(cur))
    <3>1. LastByte(new) > LastByte(cur)
      BY <1>1, <2>3
    <3>2. StoreStep(acc, cur) = [acc EXCEPT !.out = Append(@, cur), !.new = From(new, LastByte(cur) + 1)]
      BY <2>1, <2>3, Zenon DEF StoreStep
    <3> QED
      BY <1>5, <3>1, <3>2, Zenon DEF StepOut
  <2> QED
    BY <2>2, <2>3, Zenon
<1>6. CASE ~acc.done /\ new.so < cur.so
  <2>1. ~acc.done /\ ~(new.so > LastByte(cur)) /\ new.so \notin cur.so .. LastByte(cur) /\ new.so < cur.so
    BY <1>1, <1>6
  <2>2. CASE LastByte(new) < cur.so
    BY <1>2, <2>1, <2>2, Zenon DEF StepOut, StoreStep
  <2>3. CASE ~(LastByte(new) < cur.so) /\ LastByte(new) < LastByte(cur)
    <3>1. cur.so <= LastByte(new)
      BY <1>1, <2>3
    <3> QED
      BY <1>2, <2>1, <2>3, <3>1, Zenon DEF StepOut, StoreStep
  <2>4. CASE ~(LastByte(new) < cur.so) /\ ~(LastByte(new) < LastByte(cur))
    <3>1. LastByte(cur) <= LastByte(new)
      BY <1>1, <2>4
    <3> QED
      BY <1>2, <2>1, <2>4, <3>1, Zenon DEF StepOut, StoreStep
  <2> QED
    BY <2>2, <2>3, <2>4, Zenon
<1> QED
  BY <1>1, <1>2, <1>3, <1>4, <1>5, <1>6 DEF Span

\* A byte of the new segment or of one of the first i stored ones.
Covered(s, new, i, b) == (\E k \in 1 .. i : b \in Span(s[k])) \/ b \in Span(new)

\* After i turns the bytes seen so far are in the result, or in what is left of the
\* new segment, which begins after the result.
LoopInv(s, new, i, acc) ==
  /\ acc \in Acc
  /\ Sorted(acc.out)
  /\ \A j \in i + 1 .. Len(s) : Below(acc.out, s[j].so)
  /\ ~acc.done => Below(acc.out, acc.new.so)
  /\ \A b \in Nat : Covered(s, new, i, b)
                      <=> Holds(acc.out, b) \/ (~acc.done /\ b \in Span(acc.new))

\* Every turn of the loop keeps LoopInv.
LEMMA StepKeeps ==
  ASSUME NEW s \in Seq(Piece), Sorted(s), NEW new \in Piece, NEW i \in 1 .. Len(s), NEW acc,
         LoopInv(s, new, i - 1, acc)
  PROVE  LoopInv(s, new, i, StoreStep(acc, s[i]))
<1> DEFINE cur == s[i]  n == acc.new  e == StoreStep(acc, cur)  out == acc.out
<1>1. acc \in Acc /\ cur \in Piece /\ n \in Piece /\ out \in Seq(Piece) /\ acc.done \in BOOLEAN
  BY DEF LoopInv, Acc
<1>2. /\ n.so \in Nat /\ LastByte(n) \in Nat /\ n.so <= LastByte(n)
      /\ cur.so \in Nat /\ LastByte(cur) \in Nat /\ cur.so <= LastByte(cur)
  BY <1>1, PieceFacts, Zenon
<1>3. \A j \in i + 1 .. Len(s) : LastByte(cur) < s[j].so /\ s[j].so \in Nat /\ Below(out, s[j].so)
  <2> TAKE j \in i + 1 .. Len(s)
  <2>1. j \in 1 .. Len(s) /\ i < j /\ s[j] \in Piece
    OBVIOUS
  <2>2. j \in (i - 1) + 1 .. Len(s) /\ i \in DOMAIN s /\ j \in DOMAIN s
    BY <2>1
  <2>3. Below(out, s[j].so)
    BY <2>2, Zenon DEF LoopInv
  <2>4. LastByte(cur) < s[j].so
    BY <2>1, <2>2, Zenon DEF Sorted
  <2>5. s[j].so \in Nat
    BY <2>1, PieceFacts, Zenon
  <2> QED
    BY <2>3, <2>4, <2>5, Zenon
<1>4. Below(out, cur.so) /\ Sorted(out)
  BY DEF LoopInv
<1>5. \A b \in Nat : Covered(s, new, i, b) <=> Covered(s, new, i - 1, b) \/ b \in Span(cur)
  BY DEF Covered
<1>6. \A b \in Nat : Covered(s, new, i, b)
                       <=> Holds(out, b) \/ (~acc.done /\ b \in Span(n)) \/ b \in Span(cur)
  BY <1>5, Zenon DEF LoopInv
<1>7. ~acc.done => Below(out, n.so)
  BY Zenon DEF LoopInv
<1>8. StepOut(acc, cur)
  BY <1>1, StepCases, Zenon
<1> DEFINE app == Append(out, cur)
<1>9. /\ app \in Seq(Piece) /\ Sorted(app)
      /\ \A x \in Int : Below(out, x) /\ LastByte(cur) < x => Below(app, x)
      /\ \A b \in Nat : Holds(app, b) <=> Holds(out, b) \/ b \in Span(cur)
  BY <1>1, <1>4, AppendPiece, Zenon
<1>10. \A j \in i + 1 .. Len(s) : Below(app, s[j].so)
  BY <1>3, <1>9
<1> HIDE DEF cur, n, e, out, app
<1>11. CASE acc.done /\ e = [acc EXCEPT !.out = app]
  <2>1. e \in Acc /\ e.out = app /\ e.done
    BY <1>1, <1>9, <1>11, Zenon DEF Acc
  <2> QED
    BY <1>6, <1>9, <1>10, <1>11, <2>1, Zenon DEF LoopInv, e, cur
<1>12. CASE ~acc.done /\ n.so > LastByte(cur) /\ e = [acc EXCEPT !.out = app]
  <2>1. e \in Acc /\ e.out = app /\ ~e.done /\ e.new = n
    BY <1>1, <1>9, <1>12, Zenon DEF Acc, n
  <2>2. Below(app, n.so)
    BY <1>2, <1>7, <1>9, <1>12
  <2> QED
    BY <1>6, <1>9, <1>10, <1>12, <2>1, <2>2, Zenon DEF LoopInv, e, cur
<1>13. CASE /\ ~acc.done /\ n.so \in Span(cur) /\ LastByte(n) <= LastByte(cur)
            /\ e = [acc EXCEPT !.out = app, !.done = TRUE, !.stored = FALSE]
  <2>1. e \in Acc /\ e.out = app /\ e.done
    BY <1>1, <1>9, <1>13, Zenon DEF Acc
  <2>2. \A b \in Nat : b \in Span(n) => b \in Span(cur)
    BY <1>2, <1>13 DEF Span
  <2> QED
    BY <1>6, <1>9, <1>10, <1>13, <2>1, <2>2, Zenon DEF LoopInv, e, cur
<1>14. CASE /\ ~acc.done /\ n.so \in Span(cur) /\ LastByte(n) > LastByte(cur)
            /\ e = [acc EXCEPT !.out = app, !.new = From(n, LastByte(cur) + 1)]
  <2> DEFINE m == From(n, LastByte(cur) + 1)
  <2>1. m \in Piece /\ m.so = LastByte(cur) + 1 /\ LastByte(m) = LastByte(n)
    <3>1. LastByte(cur) + 1 \in n.so .. LastByte(n)
      BY <1>2, <1>14 DEF Span
    <3> QED
      BY <1>1, <3>1, FromPiece, Zenon
  <2> HIDE DEF m
  <2>2. e \in Acc /\ e.out = app /\ ~e.done /\ e.new = m
    BY <1>1, <1>9, <1>14, <2>1, Zenon DEF Acc, m
  <2>3. Below(app, m.so)
    <3>1. Below(out, LastByte(cur) + 1)
      BY <1>1, <1>2, <1>4, BelowMono
    <3> QED
      BY <1>2, <1>9, <2>1, <3>1
  <2>4. \A b \in Nat : b \in Span(n) \/ b \in Span(cur) <=> b \in Span(m) \/ b \in Span(cur)
    BY <1>2, <1>14, <2>1 DEF Span
  <2> QED
    BY <1>6, <1>9, <1>10, <1>14, <2>2, <2>3, <2>4, Zenon DEF LoopInv, e, cur
<1>15. ASSUME NEW q \in Piece, ~acc.done, LastByte(n) < q.so, LastByte(q) = LastByte(cur),
              \A b \in Nat : b \in Span(n) \/ b \in Span(q) <=> b \in Span(n) \/ b \in Span(cur),
              e = [acc EXCEPT !.out = out \o <<n, q>>, !.done = TRUE]
       PROVE  LoopInv(s, new, i, e)
  <2> DEFINE one == Append(out, n)  two == Append(one, q)
  <2>1. out \o <<n, q>> = two
    BY <1>1, <1>15
  <2>2. /\ one \in Seq(Piece) /\ Sorted(one)
        /\ \A x \in Int : Below(out, x) /\ LastByte(n) < x => Below(one, x)
        /\ \A b \in Nat : Holds(one, b) <=> Holds(out, b) \/ b \in Span(n)
    BY <1>1, <1>4, <1>7, <1>15, AppendPiece, Zenon
  <2> HIDE DEF one
  <2>3. q.so \in Nat /\ LastByte(q) \in Nat /\ q.so <= LastByte(q)
    BY <1>15, PieceFacts, Zenon
  <2>4. Below(out, q.so)
    <3>1. n.so <= q.so
      BY <1>2, <1>15, <2>3
    <3> QED
      BY <1>1, <1>2, <1>7, <1>15, <2>3, <3>1, BelowMono
  <2>5. Below(one, q.so)
    BY <1>15, <2>2, <2>3, <2>4
  <2>6. /\ two \in Seq(Piece) /\ Sorted(two)
        /\ \A x \in Int : Below(one, x) /\ LastByte(q) < x => Below(two, x)
        /\ \A b \in Nat : Holds(two, b) <=> Holds(one, b) \/ b \in Span(q)
    BY <1>15, <2>2, <2>5, AppendPiece, Zenon
  <2> HIDE DEF two
  <2>7. ASSUME NEW j \in i + 1 .. Len(s) PROVE Below(two, s[j].so)
    <3>1. s[j].so \in Nat /\ LastByte(q) < s[j].so /\ Below(out, s[j].so)
      BY <1>3, <1>15, Zenon
    <3>2. LastByte(n) < s[j].so
      BY <1>2, <1>15, <2>3, <3>1
    <3> QED
      BY <2>2, <2>6, <3>1, <3>2
  <2>8. e \in Acc /\ e.out = two /\ e.done
    BY <1>1, <1>15, <2>1, <2>6, Zenon DEF Acc
  <2> QED
    BY <1>6, <1>15, <2>2, <2>6, <2>7, <2>8, Zenon DEF LoopInv
<1>16. CASE /\ ~acc.done /\ LastByte(n) < cur.so
            /\ e = [acc EXCEPT !.out = out \o <<n, cur>>, !.done = TRUE]
  BY <1>1, <1>15, <1>16, Zenon DEF e, cur
<1>18. CASE /\ ~acc.done /\ n.so < cur.so /\ cur.so <= LastByte(n) /\ LastByte(n) < LastByte(cur)
            /\ e = [acc EXCEPT !.out = out \o <<n, From(cur, LastByte(n) + 1)>>, !.done = TRUE]
  <2> DEFINE q == From(cur, LastByte(n) + 1)
  <2>1. LastByte(n) + 1 \in cur.so .. LastByte(cur)
    BY <1>2, <1>18
  <2>2. q \in Piece /\ q.so = LastByte(n) + 1 /\ LastByte(q) = LastByte(cur)
    BY <1>1, <2>1, FromPiece, Zenon
  <2>3. e = [acc EXCEPT !.out = out \o <<n, q>>, !.done = TRUE]
    BY <1>18, Zenon
  <2> HIDE DEF q
  <2>4. LastByte(n) < q.so
    BY <1>2, <2>2
  <2>5. \A b \in Nat : b \in Span(n) \/ b \in Span(q) <=> b \in Span(n) \/ b \in Span(cur)
    BY <1>2, <1>18, <2>2, SMTT(20) DEF Span
  <2>6. LoopInv(s, new, i, e)
    BY <1>15, <1>18, <2>2, <2>3, <2>4, <2>5, Zenon
  <2> QED
    BY <2>6, Zenon DEF e, cur
<1>17. CASE /\ ~acc.done /\ n.so < cur.so /\ LastByte(cur) <= LastByte(n)
            /\ e = acc
  <2>1. \A b \in Nat : b \in Span(cur) => b \in Span(n)
    BY <1>2, <1>17 DEF Span
  <2> QED
    BY <1>1, <1>3, <1>4, <1>6, <1>7, <1>17, <2>1, Zenon DEF LoopInv, e, cur, n, out
<1> QED
  BY <1>8, <1>11, <1>12, <1>13, <1>14, <1>16, <1>17, <1>18, Zenon DEF StepOut, e, app, n, out, cur

\* The loop of store_segment() ends with LoopInv.
LEMMA LoopKeeps ==
  ASSUME NEW s \in Seq(Piece), Sorted(s), NEW new \in Piece
  PROVE  LoopInv(s, new, Len(s), StoreLoop(s, new)[Len(s)])
<1> DEFINE n == Len(s)
           a == [new |-> new, out |-> <<>>, done |-> FALSE, stored |-> TRUE]
           g == [x \in (1 .. n) \X Acc |->
                   IF StoreStep(x[2], s[x[1]]) \in Acc THEN StoreStep(x[2], s[x[1]]) ELSE a]
           Def(f) == [i \in 0 .. n |-> IF i = 0 THEN a ELSE StoreStep(f[i - 1], s[i])]
<1>1. n \in Nat /\ \A i \in 1 .. n : s[i] \in Piece
  OBVIOUS
<1>2. a \in Acc /\ LoopInv(s, new, 0, a)
  <2>1. a \in Acc /\ a.out = <<>> /\ ~a.done /\ a.new = new
    BY DEF Acc
  <2> HIDE DEF a
  <2> QED
    BY <2>1 DEF LoopInv, Sorted, Below, Holds, Covered
<1>3. StoreLoop(s, new) = CHOOSE f : f = Def(f)
  BY Zenon DEF StoreLoop
<1> HIDE DEF a
<1>4. ASSUME NEW f, f[0] = a,
             \A i \in 1 .. n : LoopInv(s, new, i - 1, f[i - 1]) => f[i] = StoreStep(f[i - 1], s[i])
      PROVE  \A i \in 0 .. n : LoopInv(s, new, i, f[i])
  <2> DEFINE T == {i \in 0 .. n : LoopInv(s, new, i, f[i])}
  <2>1. 0 \in T
    BY <1>1, <1>2, <1>4
  <2>2. ASSUME NEW i \in 1 .. n, i - 1 \in T PROVE i \in T
    <3>1. LoopInv(s, new, i - 1, f[i - 1])
      BY <2>2, Zenon
    <3>2. f[i] = StoreStep(f[i - 1], s[i])
      BY <1>4, <3>1, Zenon
    <3> QED
      BY <3>1, <3>2, StepKeeps
  <2> HIDE DEF T
  <2>3. 0 .. n \subseteq T
    BY <1>1, <2>1, <2>2, Induction, Zenon
  <2> QED
    BY <2>3, Zenon DEF T
<1>5. g \in [(1 .. n) \X Acc -> Acc]
  BY <1>2, Zenon
<1> HIDE DEF g
<1>6. PICK f \in [0 .. n -> Acc] : Solves(f, n, a, g)
  <2> HIDE DEF n
  <2>1. n \in Nat /\ a \in Acc
    BY <1>1, <1>2, Zenon
  <2> QED
    BY <1>5, <2>1, RecursionExists, Zenon
<1>7. ASSUME NEW i \in 1 .. n, LoopInv(s, new, i - 1, f[i - 1])
      PROVE  f[i] = StoreStep(f[i - 1], s[i])
  <2>1. f[i - 1] \in Acc
    BY <1>7, Zenon DEF LoopInv
  <2>2. StoreStep(f[i - 1], s[i]) \in Acc
    <3>1. LoopInv(s, new, i, StoreStep(f[i - 1], s[i]))
      BY <1>7, StepKeeps, Zenon
    <3> QED
      BY <3>1, Zenon DEF LoopInv
  <2>3. g[<<i, f[i - 1]>>] = StoreStep(f[i - 1], s[i])
    BY <2>1, <2>2, Zenon DEF g
  <2> QED
    BY <1>6, <2>3, Zenon DEF Solves
<1>8. \A i \in 0 .. n : LoopInv(s, new, i, f[i])
  BY <1>4, <1>6, <1>7, Zenon DEF Solves
<1>9. f = Def(f)
  <2>1. \A i \in 0 .. n : f[i] = Def(f)[i]
    <3>1. ASSUME NEW i \in 1 .. n PROVE f[i] = StoreStep(f[i - 1], s[i])
      <4>1. i - 1 \in 0 .. n
        BY <1>1
      <4> QED
        BY <1>7, <1>8, <4>1, Zenon
    <3> QED
      BY <1>6, <3>1 DEF Solves
  <2> QED
    BY <1>6, <2>1, Zenon
<1> DEFINE L == StoreLoop(s, new)
<1>10. L = Def(L)
  BY <1>3, <1>9, Zenon
<1> HIDE DEF L
<1>11. L[0] = a /\ \A i \in 1 .. n : L[i] = StoreStep(L[i - 1], s[i])
  BY <1>1, <1>10
<1>12. \A i \in 0 .. n : LoopInv(s, new, i, L[i])
  BY <1>4, <1>11, Zenon
<1> QED
  BY <1>1, <1>12 DEF L

\* store_segment() returns segments in order that hold the bytes held before and
\* those of the new segment, and no others.
LEMMA StoreKeeps ==
  ASSUME NEW s \in Seq(Piece), Sorted(s), NEW new \in Piece
  PROVE  LET r == store_segment(s, new).segments
         IN  /\ r \in Seq(Piece) /\ Sorted(r)
             /\ \A b \in Nat : Holds(r, b) <=> Holds(s, b) \/ b \in Span(new)
<1> DEFINE acc == StoreLoop(s, new)[Len(s)]
           r == store_segment(s, new).segments
<1>1. r = IF acc.done THEN acc.out ELSE Append(acc.out, acc.new)
  BY Zenon DEF store_segment
<1>2. LoopInv(s, new, Len(s), acc)
  BY LoopKeeps, Zenon
<1> HIDE DEF acc, r
<1>3. acc.out \in Seq(Piece) /\ acc.new \in Piece /\ acc.done \in BOOLEAN /\ Sorted(acc.out)
  BY <1>2, Zenon DEF LoopInv, Acc
<1>4. \A b \in Nat : Holds(s, b) \/ b \in Span(new) <=> Covered(s, new, Len(s), b)
  BY DEF Holds, Covered
<1>5. CASE acc.done
  <2>1. r = acc.out
    BY <1>1, <1>5, Zenon
  <2>2. \A b \in Nat : Holds(r, b) <=> Holds(s, b) \/ b \in Span(new)
    BY <1>2, <1>4, <1>5, <2>1, Zenon DEF LoopInv
  <2> QED
    BY <1>3, <2>1, <2>2, Zenon DEF r
<1>6. CASE ~acc.done
  <2>1. r = Append(acc.out, acc.new)
    BY <1>1, <1>6, Zenon
  <2>2. Below(acc.out, acc.new.so)
    BY <1>2, <1>6, Zenon DEF LoopInv
  <2>3. /\ r \in Seq(Piece) /\ Sorted(r)
        /\ \A b \in Nat : Holds(r, b) <=> Holds(acc.out, b) \/ b \in Span(acc.new)
    BY <1>3, <2>1, <2>2, AppendPiece, Zenon
  <2>4. \A b \in Nat : Holds(r, b) <=> Holds(s, b) \/ b \in Span(new)
    BY <1>2, <1>4, <1>6, <2>3, Zenon DEF LoopInv
  <2> QED
    BY <2>3, <2>4, Zenon DEF r
<1> QED
  BY <1>3, <1>5, <1>6, Zenon

-----------------------------------------------------------------------------
\* update_segment_inventory().

End(s, i) == IF i = 0 THEN 0 ELSE LastByte(s[i]) + 1

\* A byte up to the end of a segment before which there is no gap is held.
LEMMA ContiguousHeld ==
  ASSUME NEW s \in Seq(Piece), NEW i \in Contiguous(s), NEW b \in 0 .. LastByte(s[i])
  PROVE  Holds(s, b)
<1> DEFINE T == {j \in 1 .. i : b <= LastByte(s[j])}
<1>1. i \in 1 .. Len(s) /\ \A j \in 1 .. i : s[j].so = End(s, j - 1)
  BY DEF Contiguous, End
<1>2. T \in SUBSET Nat /\ i \in T
  BY <1>1
<1>3. PICK j \in T : \A k \in T : j <= k
  BY <1>2, LeastExists, Zenon
<1>4. j \in 1 .. Len(s) /\ s[j] \in Piece /\ s[j].so = End(s, j - 1) /\ b <= LastByte(s[j])
  BY <1>1, <1>3
<1>5. s[j].so <= b
  <2>1. CASE j = 1
    BY <1>4, <2>1 DEF End
  <2>2. CASE j # 1
    <3>1. j - 1 \in 1 .. i /\ j - 1 \notin T /\ s[j - 1] \in Piece
      BY <1>1, <1>3, <1>4, <2>2
    <3>2. LastByte(s[j - 1]) < b /\ LastByte(s[j - 1]) \in Nat
      BY <3>1, PieceFacts
    <3> QED
      BY <1>4, <2>2, <3>2 DEF End
  <2> QED
    BY <2>1, <2>2, Zenon
<1>6. b \in Span(s[j])
  BY <1>4, <1>5, PieceFacts DEF Span
<1> QED
  BY <1>4, <1>6 DEF Holds

\* The byte before which segments i and its predecessor leave a gap is not held.
LEMMA GapMissing ==
  ASSUME NEW s \in Seq(Piece), Sorted(s), NEW i \in 1 .. Len(s), s[i].so # End(s, i - 1)
  PROVE  /\ End(s, i - 1) \in 0 .. s[i].so - 1
         /\ ~Holds(s, End(s, i - 1))
<1> DEFINE e == End(s, i - 1)
<1>1. \A j \in 1 .. Len(s) : s[j] \in Piece
  OBVIOUS
<1>2. \A j \in 1 .. Len(s) : s[j].so \in Nat /\ LastByte(s[j]) \in Nat /\ s[j].so <= LastByte(s[j])
  BY <1>1, PieceFacts, Zenon
<1>s. \A j, k \in 1 .. Len(s) : j < k => LastByte(s[j]) < s[k].so
  BY DEF Sorted
<1>3. e \in Nat /\ e < s[i].so /\ (i # 1 => e = LastByte(s[i - 1]) + 1)
  <2>1. CASE i = 1
    BY <1>2, <2>1 DEF End
  <2>2. CASE i # 1
    <3>1. i - 1 \in 1 .. Len(s) /\ i - 1 < i
      BY <2>2
    <3>2. LastByte(s[i - 1]) < s[i].so /\ LastByte(s[i - 1]) \in Nat /\ s[i].so \in Nat
      BY <1>s, <1>2, <3>1, Zenon
    <3> QED
      BY <2>2, <3>2 DEF End
  <2> QED
    BY <2>1, <2>2, Zenon
<1> HIDE DEF e
<1>4. ASSUME NEW j \in 1 .. Len(s), e \in Span(s[j]) PROVE FALSE
  <2>1. s[j].so <= e /\ e <= LastByte(s[j])
    BY <1>2, <1>3, <1>4 DEF Span
  <2>2. CASE j >= i
    BY <1>2, <1>3, <1>s, <2>1, <2>2
  <2>3. CASE j = i - 1
    BY <1>2, <1>3, <2>1, <2>3
  <2>4. CASE j < i - 1
    <3>1. i - 1 \in 1 .. Len(s)
      BY <2>4
    <3>2. LastByte(s[j]) < s[i - 1].so
      BY <1>s, <2>4, <3>1, Zenon
    <3>3. /\ LastByte(s[i - 1]) \in Nat /\ s[i - 1].so \in Nat /\ LastByte(s[j]) \in Nat
          /\ s[i - 1].so <= LastByte(s[i - 1])
      BY <1>2, <3>1, Zenon
    <3>4. e \in Nat /\ e = LastByte(s[i - 1]) + 1
      BY <1>3, <2>4
    <3> QED
      BY <2>1, <3>2, <3>3, <3>4
  <2> QED
    BY <2>2, <2>3, <2>4
<1>5. ~Holds(s, e) /\ e \in 0 .. s[i].so - 1
  BY <1>2, <1>3, <1>4 DEF Holds
<1> QED
  BY <1>5, Zenon DEF e

\* The inventory of segments in order: fully_received when no byte is missing,
\* has_gap when one is missing before the last one received.
LEMMA Inventory ==
  ASSUME NEW s \in Seq(Piece), Sorted(s), NEW G \in SUBSET (0 .. SduLen - 1),
         \A b \in Nat : Holds(s, b) <=> b \in G
  PROVE  /\ fully_received(s) <=> (0 .. SduLen - 1) \ G = {}
         /\ has_gap(s) <=> \E b \in (0 .. SduLen - 1) \ G : \E c \in G : b < c
<1>1. \A i \in 1 .. Len(s) : s[i] \in Piece
  OBVIOUS
<1>2. \A i \in 1 .. Len(s) : /\ s[i].so \in Nat /\ LastByte(s[i]) \in Nat /\ s[i].so <= LastByte(s[i])
                             /\ LastByte(s[i]) < SduLen
                             /\ s[i].last <=> LastByte(s[i]) = SduLen - 1
  BY <1>1, PieceFacts, Zenon
<1>3. DOMAIN s = 1 .. Len(s) /\ Len(s) \in Nat /\ SduLen \in Nat \ {0}
  BY SduLenAssumption
<1>4. Contiguous(s) = {i \in 1 .. Len(s) : \A j \in 1 .. i : s[j].so = End(s, j - 1)}
  BY <1>3 DEF Contiguous, End
<1>5. ASSUME fully_received(s) PROVE (0 .. SduLen - 1) \ G = {}
  <2>1. PICK i \in Contiguous(s) : s[i].last
    BY <1>5, Zenon DEF fully_received
  <2>2. i \in 1 .. Len(s) /\ LastByte(s[i]) = SduLen - 1
    BY <1>2, <1>4, <2>1, Zenon
  <2>3. \A b \in 0 .. SduLen - 1 : Holds(s, b)
    BY <2>2, ContiguousHeld, Zenon
  <2> QED
    BY <2>3
<1>6. ASSUME NEW i \in 1 .. Len(s), i \notin Contiguous(s)
      PROVE  \E b \in (0 .. SduLen - 1) \ G : b < s[i].so
  <2>1. PICK j \in 1 .. i : s[j].so # End(s, j - 1)
    BY <1>4, <1>6, Zenon
  <2>2. j \in 1 .. Len(s)
    BY <1>3
  <2>3. End(s, j - 1) \in 0 .. s[j].so - 1 /\ ~Holds(s, End(s, j - 1))
    BY <2>1, <2>2, GapMissing, Zenon
  <2>4. s[j].so <= s[i].so
    <3>1. CASE j = i
      BY <1>2, <3>1
    <3>2. CASE j < i
      <4>1. LastByte(s[j]) < s[i].so
        BY <1>3, <2>2, <3>2, Zenon DEF Sorted
      <4> QED
        BY <1>2, <2>2, <4>1
    <3> QED
      BY <3>1, <3>2
  <2>5. End(s, j - 1) \in 0 .. SduLen - 1 /\ End(s, j - 1) < s[i].so /\ End(s, j - 1) \notin G
    BY <1>2, <1>3, <2>2, <2>3, <2>4, SMTT(30)
  <2> QED
    BY <2>5, Zenon
<1>7. ASSUME (0 .. SduLen - 1) \ G = {} PROVE fully_received(s)
  <2>1. Holds(s, SduLen - 1)
    BY <1>3, <1>7
  <2>2. PICK i \in 1 .. Len(s) : SduLen - 1 \in Span(s[i])
    BY <1>3, <2>1, Zenon DEF Holds
  <2>3. s[i].last
    BY <1>2, <1>3, <2>2 DEF Span
  <2>4. i \in Contiguous(s)
    BY <1>6, <1>7, Zenon
  <2> QED
    BY <2>3, <2>4, Zenon DEF fully_received
<1>8. ASSUME has_gap(s) PROVE \E b \in (0 .. SduLen - 1) \ G : \E c \in G : b < c
  <2>1. PICK i \in 1 .. Len(s) : i \notin Contiguous(s)
    BY <1>3, <1>4, <1>8, Zenon DEF has_gap
  <2>2. PICK b \in (0 .. SduLen - 1) \ G : b < s[i].so
    BY <1>6, <2>1, Zenon
  <2>3. s[i].so \in Nat /\ Holds(s, s[i].so)
    <3>1. s[i].so \in Nat /\ s[i].so \in Span(s[i])
      BY <1>2 DEF Span
    <3> QED
      BY <1>3, <3>1, Zenon DEF Holds
  <2> QED
    BY <2>2, <2>3, Zenon
<1>9. ASSUME NEW b \in (0 .. SduLen - 1) \ G, NEW c \in G, b < c PROVE has_gap(s)
  <2>1. ~fully_received(s)
    BY <1>5, Zenon
  <2>2. c \in Nat /\ Holds(s, c)
    OBVIOUS
  <2>3. PICK i \in 1 .. Len(s) : c \in Span(s[i])
    BY <1>3, <2>2, Zenon DEF Holds
  <2>4. b \in 0 .. LastByte(s[i])
    BY <1>2, <1>9, <2>3 DEF Span
  <2>5. i \notin Contiguous(s)
    BY <2>4, ContiguousHeld
  <2> QED
    BY <1>3, <2>1, <2>5, Zenon DEF has_gap
<1> QED
  BY <1>5, <1>7, <1>8, <1>9, Zenon

-----------------------------------------------------------------------------
\* The inductive invariant: segments of each SN in order, which hold what arrived.
IndInv ==
  /\ window \in [Sns -> Seq(Piece)]
  /\ got \in [Sns -> SUBSET (0 .. SduLen - 1)]
  /\ \A sn \in Sns : /\ Sorted(window[sn])
                     /\ \A b \in Nat : Holds(window[sn], b) <=> b \in got[sn]

\* IndInv holds of an empty window and is kept by full SDUs and by segments.
LEMMA IndInvHolds == Spec => []IndInv
<1>1. ASSUME Init PROVE IndInv
  BY <1>1 DEF Init, IndInv, Sorted, Holds
<1>2. ASSUME IndInv, NEW sn \in Sns, NEW s \in Seq(Piece), NEW g \in SUBSET (0 .. SduLen - 1),
             Sorted(s), \A b \in Nat : Holds(s, b) <=> b \in g,
             window' = [window EXCEPT ![sn] = s], got' = [got EXCEPT ![sn] = g]
      PROVE  IndInv'
  BY <1>2, Zenon DEF IndInv
<1>3. ASSUME IndInv, NEW sn \in Sns, handle_full_data_sdu(sn) PROVE IndInv'
  <2> DEFINE p == [so |-> 0, len |-> SduLen, last |-> TRUE]
             s == <<p>>
  <2>1. p \in Piece /\ Span(p) = 0 .. SduLen - 1
    BY SduLenAssumption DEF Piece, LastByte, Span
  <2>2. window' = [window EXCEPT ![sn] = s] /\ got' = [got EXCEPT ![sn] = 0 .. SduLen - 1]
    BY <1>3, Zenon DEF handle_full_data_sdu
  <2> HIDE DEF p
  <2>3. s \in Seq(Piece) /\ Sorted(s) /\ \A b \in Nat : Holds(s, b) <=> b \in 0 .. SduLen - 1
    <3>1. s \in Seq(Piece) /\ DOMAIN s = 1 .. 1 /\ s[1] = p
      BY <2>1
    <3> HIDE DEF s
    <3>2. \A i \in DOMAIN s : i = 1
      BY <3>1
    <3>3. Sorted(s)
      BY <3>2 DEF Sorted
    <3>4. \A b \in Nat : Holds(s, b) <=> b \in Span(p)
      BY <3>1, <3>2 DEF Holds
    <3> QED
      BY <2>1, <3>1, <3>3, <3>4, Zenon
  <2> HIDE DEF s
  <2> QED
    BY <1>2, <1>3, <2>2, <2>3, Zenon
<1>4. ASSUME IndInv, NEW sn \in Sns, NEW so \in 0 .. SduLen - 1, NEW len \in 1 .. SduLen,
             handle_segment_data_sdu(sn, so, len)
      PROVE  IndInv'
  <2> DEFINE p == [so |-> so, len |-> len, last |-> so + len = SduLen]
             s == store_segment(window[sn], p).segments
             g == got[sn] \cup (so .. so + len - 1)
  <2>1. so + len <= SduLen
    BY <1>4, Zenon DEF handle_segment_data_sdu
  <2>2. p \in Piece /\ Span(p) = so .. so + len - 1
    <3>1. p \in [so : Nat, len : Nat \ {0}, last : BOOLEAN]
      OBVIOUS
    <3>2. p.so = so /\ p.len = len /\ (p.last <=> so + len = SduLen)
      BY Zenon
    <3> HIDE DEF p
    <3>3. LastByte(p) = so + len - 1
      BY <3>2, Zenon DEF LastByte
    <3> QED
      BY <2>1, <3>1, <3>2, <3>3, SduLenAssumption DEF Piece, Span
  <2>3. window' = [window EXCEPT ![sn] = s] /\ got' = [got EXCEPT ![sn] = g]
    BY <1>4, Zenon DEF handle_segment_data_sdu
  <2> HIDE DEF p
  <2>4. /\ window[sn] \in Seq(Piece) /\ Sorted(window[sn]) /\ got[sn] \in SUBSET (0 .. SduLen - 1)
        /\ \A b \in Nat : Holds(window[sn], b) <=> b \in got[sn]
    BY <1>4, Zenon DEF IndInv
  <2>5. /\ s \in Seq(Piece) /\ Sorted(s)
        /\ \A b \in Nat : Holds(s, b) <=> Holds(window[sn], b) \/ b \in Span(p)
    BY <2>2, <2>4, StoreKeeps, Zenon
  <2>6. g \in SUBSET (0 .. SduLen - 1)
    BY <2>1, <2>4, SduLenAssumption
  <2>7. \A b \in Nat : Holds(s, b) <=> b \in g
    BY <2>2, <2>4, <2>5, Zenon
  <2> HIDE DEF s, g
  <2> QED
    BY <1>2, <1>4, <2>3, <2>5, <2>6, <2>7, Zenon
<1>5. IndInv /\ [Next]_vars => IndInv'
  <2>1. ASSUME IndInv, UNCHANGED vars PROVE IndInv'
    BY <2>1, Zenon DEF IndInv, vars
  <2> QED
    BY <1>3, <1>4, <2>1, Zenon DEF Next
<1> QED
  BY <1>1, <1>5, PTL DEF Spec

\* Whatever segments of an SDU arrive, in any order and however they overlap,
\* store_segment() keeps each byte that arrived exactly once and in order.
THEOREM StoredExactlyHolds == Spec => []StoredExactly
<1>1. ASSUME IndInv, NEW sn \in Sns PROVE
        /\ Bytes(window[sn]) = got[sn]
        /\ \A i \in 1 .. Len(window[sn]) - 1 : LastByte(window[sn][i]) < window[sn][i + 1].so
  <2> DEFINE s == window[sn]
  <2>1. /\ s \in Seq(Piece) /\ Sorted(s) /\ got[sn] \in SUBSET (0 .. SduLen - 1)
        /\ \A b \in Nat : Holds(s, b) <=> b \in got[sn]
    BY <1>1, Zenon DEF IndInv
  <2> HIDE DEF s
  <2>2. \A b : b \in Bytes(s) <=> \E i \in DOMAIN s : b \in Span(s[i])
    BY Zenon DEF Bytes, Span
  <2>3. \A i \in DOMAIN s : Span(s[i]) \in SUBSET Nat
    BY <2>1, PieceFacts DEF Span
  <2>4. Bytes(s) = got[sn]
    <3>1. \A b : b \in Bytes(s) => b \in Nat
      BY <2>2, <2>3, Zenon
    <3>2. \A b : b \in got[sn] => b \in Nat
      BY <2>1
    <3>3. \A b \in Nat : b \in Bytes(s) <=> b \in got[sn]
      BY <2>1, <2>2, Zenon DEF Holds
    <3> QED
      BY <3>1, <3>2, <3>3, Zenon
  <2>5. \A i \in 1 .. Len(s) - 1 : LastByte(s[i]) < s[i + 1].so
    BY <2>1 DEF Sorted
  <2> QED
    BY <2>4, <2>5, Zenon DEF s
<1>2. IndInv => StoredExactly
  BY <1>1, Zenon DEF StoredExactly
<1> QED
  BY <1>2, IndInvHolds, PTL

\* fully_received and has_gap, as update_segment_inventory() computes them from the
\* stored segments, say exactly that every byte arrived and that a byte is missing
\* before the last one that arrived.
THEOREM InventoryExactHolds == Spec => []InventoryExact
<1>1. IndInv => InventoryExact
  BY Inventory, Zenon DEF IndInv, InventoryExact, Missing
<1> QED
  BY <1>1, IndInvHolds, PTL

-----------------------------------------------------------------------------
\* Sequence numbers and lengths.
LEMMA Numbers ==
  /\ Mod \in Nat \ {0} /\ First \in 0 .. Mod - 1 /\ N \in 1 .. Mod - 1
  /\ SduLen \in Nat \ {0} /\ SoEnd \in Nat /\ SduLen <= SoEnd
  BY PduAssumption, ReportsAssumption, SduLenAssumption, Zenon

\* Remainders of what is at most one cycle too large or too small.
LEMMA ModNear ==
  ASSUME NEW x \in Int
  PROVE  /\ x \in 0 .. Mod - 1 => x % Mod = x
         /\ x \in Mod .. 2 * Mod - 1 => x % Mod = x - Mod
         /\ x \in -Mod .. -1 => x % Mod = x + Mod
         /\ x % Mod \in 0 .. Mod - 1
  BY Numbers, SMT

\* The SN at offset m from RX_Next, and the offset of an SN.
At(m) == (First + m) % Mod
Offset(sn) == (sn - First) % Mod

\* SNs of the window and their offsets correspond.
LEMMA AtOffset ==
  ASSUME NEW m \in 0 .. Mod - 1
  PROVE  At(m) \in 0 .. Mod - 1 /\ Offset(At(m)) = m
<1> DEFINE x == First + m
<1>1. x \in Int /\ x \in 0 .. 2 * Mod - 1 /\ x - First = m
  BY Numbers
<1>2. CASE x < Mod
  <2>1. x % Mod = x
    <3>1. x \in 0 .. Mod - 1
      BY <1>1, <1>2, Numbers
    <3> QED
      BY <1>1, <3>1, ModNear, Zenon
  <2>2. m % Mod = m
    BY ModNear
  <2> QED
    BY <1>1, <1>2, <2>1, <2>2, Numbers DEF At, Offset
<1>3. CASE x >= Mod
  <2> DEFINE y == x - Mod
  <2>1. x % Mod = y
    <3>1. x \in Mod .. 2 * Mod - 1
      BY <1>1, <1>3, Numbers
    <3> QED
      BY <1>1, <3>1, ModNear, Zenon
  <2>2. y - First \in Int /\ y - First \in -Mod .. -1 /\ (y - First) + Mod = m
    BY <1>1, <1>3, Numbers
  <2>3. (y - First) % Mod = m
    BY <2>2, ModNear, Zenon
  <2>4. y \in 0 .. Mod - 1
    BY <1>1, <1>3, Numbers
  <2> QED
    BY <2>1, <2>3, <2>4, Zenon DEF At, Offset
<1> QED
  BY <1>1, <1>2, <1>3, Numbers

\* Every SN is the one at its offset.
LEMMA OffsetAt ==
  ASSUME NEW sn \in 0 .. Mod - 1
  PROVE  Offset(sn) \in 0 .. Mod - 1 /\ At(Offset(sn)) = sn
<1> DEFINE x == sn - First
<1>0. x \in Int
  BY Numbers
<1>1. CASE x >= 0
  <2>1. x \in 0 .. Mod - 1
    BY <1>1, Numbers
  <2>2. x % Mod = x
    BY <1>0, <2>1, ModNear, Zenon
  <2>3. First + x = sn /\ sn % Mod = sn
    BY <1>0, Numbers, ModNear
  <2> QED
    BY <2>1, <2>2, <2>3, Zenon DEF At, Offset
<1>2. CASE x < 0
  <2> DEFINE y == x + Mod
  <2>1. x \in -Mod .. -1
    BY <1>2, Numbers
  <2>2. x % Mod = y
    BY <1>0, <2>1, ModNear, Zenon
  <2>3. y \in 0 .. Mod - 1 /\ First + y \in Int /\ First + y \in Mod .. 2 * Mod - 1
        /\ (First + y) - Mod = sn
    BY <1>0, <2>1, Numbers
  <2>4. (First + y) % Mod = sn
    BY <2>3, ModNear, Zenon
  <2> QED
    BY <2>2, <2>3, <2>4, Zenon DEF At, Offset
<1> QED
  BY <1>0, <1>1, <1>2

\* The k-th SN after an SN, when it is less than a cycle from RX_Next.
LEMMA AtPlus ==
  ASSUME NEW sn \in 0 .. Mod - 1, NEW k \in Nat, Offset(sn) + k < Mod
  PROVE  (sn + k) % Mod = At(Offset(sn) + k)
<1> DEFINE o == Offset(sn)
           x == First + o
           z == First + (o + k)
<1>1. o \in 0 .. Mod - 1 /\ sn = x % Mod /\ o + k < Mod
  BY OffsetAt, Zenon DEF At
<1> HIDE DEF o
<1>2. x \in Int /\ x \in 0 .. 2 * Mod - 1 /\ z \in Int /\ z = x + k
  BY <1>1, Numbers
<1>3. CASE x < Mod
  <2>1. x \in 0 .. Mod - 1
    BY <1>2, <1>3, Numbers
  <2>2. sn = x
    BY <1>1, <1>2, <2>1, ModNear, Zenon
  <2> QED
    BY <1>2, <2>2, Zenon DEF At, o
<1>4. CASE x >= Mod
  <2>1. x \in Mod .. 2 * Mod - 1
    BY <1>2, <1>4, Numbers
  <2>2. sn = x - Mod
    BY <1>1, <1>2, <2>1, ModNear, Zenon
  <2>3. z \in Mod .. 2 * Mod - 1 /\ sn + k \in 0 .. Mod - 1 /\ z - Mod = sn + k
    BY <1>1, <1>2, <2>1, <2>2, Numbers
  <2>4. z % Mod = sn + k
    BY <1>2, <2>3, ModNear, Zenon
  <2>5. (sn + k) % Mod = sn + k
    BY <2>3, ModNear
  <2> QED
    BY <2>4, <2>5, Zenon DEF At, o
<1> QED
  BY <1>2, <1>3, <1>4, Numbers

-----------------------------------------------------------------------------
\* push_nack().

\* The NACKs the entities exchange: without segment offsets one is about whole SDUs.
Nack == {nack \in [sn : 0 .. Mod - 1, range : Nat \ {0}, has_so : BOOLEAN,
                   so_start : Int, so_end : Int] :
           ~nack.has_so => nack.so_start = 0 /\ nack.so_end = SoEnd}

Pdu == [ack_sn : 0 .. Mod - 1, nacks : Seq(Nack), packed_size : Int]

\* The offsets of the first and of the last SN of a NACK.
FirstOf(nack) == Offset(nack.sn)
LastOf(nack) == Offset(nack.sn) + nack.range - 1

\* nack says that byte b of the SN at offset m is missing.
Names(nack, m, b) ==
  /\ m \in FirstOf(nack) .. LastOf(nack)
  /\ b >= (IF m = FirstOf(nack) THEN nack.so_start ELSE 0)
  /\ b <= (IF m = LastOf(nack) /\ nack.so_end # SoEnd THEN nack.so_end ELSE SduLen - 1)

NackedBy(nacks, m, b) == \E i \in DOMAIN nacks : Names(nacks[i], m, b)

\* The NACKs are in order and about SNs at offsets below m.
UpTo(nacks, m) ==
  /\ \A i \in DOMAIN nacks : LastOf(nacks[i]) < m
  /\ \A i, j \in DOMAIN nacks : i < j => LastOf(nacks[i]) <= FirstOf(nacks[j])

\* The fields of a NACK.
LEMMA NackFacts ==
  ASSUME NEW nack \in Nack
  PROVE  /\ nack \in [sn : 0 .. Mod - 1, range : Nat \ {0}, has_so : BOOLEAN,
                      so_start : Int, so_end : Int]
         /\ nack.sn \in 0 .. Mod - 1 /\ nack.range \in Nat \ {0} /\ nack.has_so \in BOOLEAN
         /\ nack.so_start \in Int /\ nack.so_end \in Int
         /\ ~nack.has_so => nack.so_start = 0 /\ nack.so_end = SoEnd
         /\ FirstOf(nack) \in 0 .. Mod - 1
         /\ LastOf(nack) = FirstOf(nack) + nack.range - 1
<1>1. FirstOf(nack) \in 0 .. Mod - 1
  BY OffsetAt, Zenon DEF FirstOf, Nack
<1> QED
  BY <1>1, Zenon DEF Nack, LastOf, FirstOf

\* NACKs about SNs below an offset are about SNs below the next one.
LEMMA UpToNext ==
  ASSUME NEW pdu \in Pdu, NEW i \in Nat \ {0}, UpTo(pdu.nacks, i - 1)
  PROVE  UpTo(pdu.nacks, i)
<1>1. \A nack \in Nack : LastOf(nack) \in Int
  BY NackFacts
<1>2. pdu.nacks \in Seq(Nack)
  BY Zenon DEF Pdu
<1> QED
  BY <1>1, <1>2 DEF UpTo

\* A NACK of an SDU.
LEMMA SduNack ==
  ASSUME NEW m \in 0 .. N - 1
  PROVE  /\ NackSdu(At(m)) \in Nack
         /\ FirstOf(NackSdu(At(m))) = m /\ NackSdu(At(m)).range = 1
         /\ \A q, b \in Int : Names(NackSdu(At(m)), q, b) <=> q = m /\ b \in 0 .. SduLen - 1
<1>1. m \in 0 .. Mod - 1
  BY Numbers
<1>2. At(m) \in 0 .. Mod - 1 /\ Offset(At(m)) = m
  BY <1>1, AtOffset, Zenon
<1>3. /\ NackSdu(At(m)) \in Nack /\ FirstOf(NackSdu(At(m))) = m /\ NackSdu(At(m)).range = 1
      /\ LastOf(NackSdu(At(m))) = m /\ NackSdu(At(m)).so_start = 0
      /\ NackSdu(At(m)).so_end = SoEnd
  BY <1>1, <1>2, Numbers DEF NackSdu, Nack, FirstOf, LastOf
<1>4. \A q, b \in Int : Names(NackSdu(At(m)), q, b) <=> q = m /\ b \in 0 .. SduLen - 1
  BY <1>1, <1>3, Numbers DEF Names
<1> QED
  BY <1>3, <1>4, Zenon

\* A NACK of a segment.
LEMMA SegmentNack ==
  ASSUME NEW m \in 0 .. N - 1, NEW first \in Int, NEW last \in Int
  PROVE  LET seg == NackSegment(At(m), first, last) IN
         /\ seg \in Nack /\ FirstOf(seg) = m /\ seg.range = 1
         /\ \A q, b \in Int :
              Names(seg, q, b) <=>
                q = m /\ b \in first .. (IF last = SoEnd THEN SduLen - 1 ELSE last)
<1>1. m \in 0 .. Mod - 1
  BY Numbers
<1>2. At(m) \in 0 .. Mod - 1 /\ Offset(At(m)) = m
  BY <1>1, AtOffset, Zenon
<1> DEFINE seg == NackSegment(At(m), first, last)
<1>3. /\ seg \in Nack /\ FirstOf(seg) = m /\ seg.range = 1 /\ LastOf(seg) = m
      /\ seg.so_start = first /\ seg.so_end = last
  BY <1>1, <1>2, Numbers DEF NackSegment, Nack, FirstOf, LastOf
<1> HIDE DEF seg
<1>4. \A q, b \in Int :
        Names(seg, q, b) <=> q = m /\ b \in first .. (IF last = SoEnd THEN SduLen - 1 ELSE last)
  BY <1>1, <1>3, Numbers DEF Names
<1> QED
  BY <1>3, <1>4, Zenon DEF seg

\* The NACK that push_nack() makes of two.
LEMMA MergedFields ==
  ASSUME NEW prev \in Nack, NEW nack \in Nack
  PROVE  /\ Merged(prev, nack) \in Nack
         /\ Merged(prev, nack).sn = prev.sn
         /\ Merged(prev, nack).range = prev.range + nack.range
         /\ Merged(prev, nack).so_start = prev.so_start
         /\ prev.so_end = SoEnd => Merged(prev, nack).so_end = nack.so_end
<1> DEFINE r == Merged(prev, nack)
           x == prev.range + nack.range
           h == prev.has_so \/ nack.has_so
           a == IF nack.has_so /\ ~prev.has_so THEN 0 ELSE prev.so_start
           z == IF nack.has_so THEN nack.so_end ELSE IF prev.has_so THEN SoEnd ELSE prev.so_end
<1>1. x \in Nat \ {0} /\ h \in BOOLEAN /\ a \in Int /\ z \in Int
  BY NackFacts, Numbers
<1>2. r = [prev EXCEPT !.range = x, !.has_so = h, !.so_start = a, !.so_end = z]
  BY Zenon DEF Merged
<1>3. prev \in [sn : 0 .. Mod - 1, range : Nat \ {0}, has_so : BOOLEAN, so_start : Int, so_end : Int]
  BY NackFacts, Zenon
<1> HIDE DEF r, x, h, a, z
<1>4. /\ r \in [sn : 0 .. Mod - 1, range : Nat \ {0}, has_so : BOOLEAN, so_start : Int, so_end : Int]
      /\ r.sn = prev.sn /\ r.range = x /\ r.has_so = h /\ r.so_start = a /\ r.so_end = z
  BY <1>1, <1>2, <1>3, Zenon
<1>5. a = prev.so_start /\ (prev.so_end = SoEnd => z = nack.so_end)
  BY NackFacts, Zenon DEF a, z
<1>6. ~h => a = 0 /\ z = SoEnd
  BY NackFacts, Zenon DEF h, a, z
<1>7. r \in Nack
  BY <1>4, <1>6, Zenon DEF Nack
<1> QED
  BY <1>4, <1>5, <1>7, Zenon DEF r, x

\* Two NACKs that can be merged say what their merger says.
LEMMA MergedNames ==
  ASSUME NEW prev \in Nack, NEW nack \in Nack, can_be_merged(prev, nack),
         LastOf(prev) + 1 < Mod
  PROVE  /\ Merged(prev, nack) \in Nack
         /\ FirstOf(Merged(prev, nack)) = FirstOf(prev)
         /\ LastOf(Merged(prev, nack)) = LastOf(nack)
         /\ FirstOf(nack) = LastOf(prev) + 1
         /\ \A q, b \in Int : Names(Merged(prev, nack), q, b) <=> Names(prev, q, b) \/ Names(nack, q, b)
<1> DEFINE r == Merged(prev, nack)
<1>1. /\ r \in Nack /\ r.sn = prev.sn /\ r.range = prev.range + nack.range
      /\ r.so_start = prev.so_start
      /\ prev.so_end = SoEnd => r.so_end = nack.so_end
  BY MergedFields, Zenon
<1> HIDE DEF r
<1>2. /\ prev.so_end = SoEnd /\ nack.so_start = 0
      /\ nack.sn = (prev.sn + prev.range) % Mod
  BY NackFacts, Zenon DEF can_be_merged
<1>3. r.so_start = prev.so_start /\ r.so_end = nack.so_end
  BY <1>1, <1>2, Zenon
<1>4. FirstOf(nack) = LastOf(prev) + 1
  <2>1. prev.sn \in 0 .. Mod - 1 /\ prev.range \in Nat /\ Offset(prev.sn) + prev.range < Mod
    BY NackFacts DEF LastOf, FirstOf
  <2>2. nack.sn = At(Offset(prev.sn) + prev.range)
    BY <1>2, <2>1, AtPlus, Zenon
  <2>3. Offset(prev.sn) + prev.range \in 0 .. Mod - 1
    BY <2>1, OffsetAt, Numbers
  <2> QED
    BY <2>2, <2>3, AtOffset, NackFacts DEF FirstOf, LastOf
<1>5. FirstOf(r) = FirstOf(prev) /\ LastOf(r) = LastOf(nack)
  BY <1>1, <1>4, NackFacts DEF FirstOf, LastOf
<1>6. ASSUME NEW q \in Int, NEW b \in Int
      PROVE  Names(r, q, b) <=> Names(prev, q, b) \/ Names(nack, q, b)
  <2>1. /\ FirstOf(prev) \in Int /\ LastOf(prev) \in Int /\ FirstOf(prev) <= LastOf(prev)
        /\ LastOf(nack) \in Int /\ FirstOf(nack) <= LastOf(nack) /\ SduLen \in Nat
        /\ prev.so_start \in Int /\ nack.so_end \in Int
    BY NackFacts, Numbers
  <2> QED
    BY <1>2, <1>3, <1>4, <1>5, <2>1 DEF Names
<1> QED
  BY <1>1, <1>4, <1>5, <1>6, Zenon DEF r

\* push_nack() gives a status PDU.
LEMMA PushType ==
  ASSUME NEW pdu \in Pdu, NEW nack \in Nack
  PROVE  /\ push_nack(pdu, nack) \in Pdu
         /\ push_nack(pdu, nack).ack_sn = pdu.ack_sn
         /\ push_nack(pdu, nack).nacks =
              IF Len(pdu.nacks) = 0 \/ ~can_be_merged(pdu.nacks[Len(pdu.nacks)], nack)
              THEN Append(pdu.nacks, nack)
              ELSE [pdu.nacks EXCEPT ![Len(pdu.nacks)] = Merged(@, nack)]
<1> DEFINE n == Len(pdu.nacks)
           e == Merged(pdu.nacks[n], nack)
           s == pdu.nacks
<1>1. s \in Seq(Nack) /\ n \in Nat /\ pdu.packed_size \in Int /\ pdu.ack_sn \in 0 .. Mod - 1
  BY DEF Pdu
<1>2. \A x : nack_size(x) \in Int
  BY DEF nack_size, NackSnSize, NackSoSize, NackRangeSize
<1>3. CASE n = 0 \/ ~can_be_merged(s[n], nack)
  <2> DEFINE t == Append(s, nack)
             z == pdu.packed_size + nack_size(nack)
  <2>1. t \in Seq(Nack) /\ z \in Int
    BY <1>1, <1>2
  <2>2. push_nack(pdu, nack) = [pdu EXCEPT !.nacks = t, !.packed_size = z]
    BY <1>3, Zenon DEF push_nack
  <2> HIDE DEF t, z
  <2>3. push_nack(pdu, nack) \in Pdu /\ push_nack(pdu, nack).ack_sn = pdu.ack_sn
        /\ push_nack(pdu, nack).nacks = t
    BY <2>1, <2>2, Zenon DEF Pdu
  <2> QED
    BY <1>3, <2>3, Zenon DEF t
<1>4. CASE n # 0 /\ can_be_merged(s[n], nack)
  <2>1. n \in 1 .. Len(s) /\ s[n] \in Nack
    BY <1>1, <1>4
  <2>2. e \in Nack
    BY <2>1, MergedFields, Zenon
  <2> DEFINE t == [s EXCEPT ![n] = e]
             z == pdu.packed_size - nack_size(s[n]) + nack_size(e)
  <2> HIDE DEF e
  <2>3. t \in Seq(Nack) /\ z \in Int
    BY <1>1, <1>2, <2>1, <2>2
  <2>4. push_nack(pdu, nack) = [pdu EXCEPT !.nacks = t, !.packed_size = z]
    BY <1>4, Zenon DEF push_nack, e
  <2> HIDE DEF t, z
  <2>5. push_nack(pdu, nack) \in Pdu /\ push_nack(pdu, nack).ack_sn = pdu.ack_sn
        /\ push_nack(pdu, nack).nacks = t
    BY <2>3, <2>4, Zenon DEF Pdu
  <2> QED
    BY <1>4, <2>5, Zenon DEF t, e
<1> QED
  BY <1>3, <1>4, Zenon

\* A NACK of the SN at offset m, pushed after NACKs of SNs up to it, adds what it
\* says and keeps the order, whether it is merged or not.
LEMMA PushAdds ==
  ASSUME NEW pdu \in Pdu, NEW m \in 0 .. N - 1, UpTo(pdu.nacks, m + 1),
         NEW nack \in Nack, FirstOf(nack) = m, nack.range = 1
  PROVE  /\ UpTo(push_nack(pdu, nack).nacks, m + 1)
         /\ \A q, b \in Int : NackedBy(push_nack(pdu, nack).nacks, q, b)
                                <=> NackedBy(pdu.nacks, q, b) \/ Names(nack, q, b)
<1> DEFINE s == pdu.nacks
           n == Len(s)
           t == push_nack(pdu, nack).nacks
<1>1. s \in Seq(Nack) /\ n \in Nat /\ DOMAIN s = 1 .. n /\ \A i \in 1 .. n : s[i] \in Nack
  BY DEF Pdu
<1>2. LastOf(nack) = m
  BY NackFacts
<1>3. /\ \A i \in 1 .. n : LastOf(s[i]) < m + 1
      /\ \A i, j \in 1 .. n : i < j => LastOf(s[i]) <= FirstOf(s[j])
  BY <1>1, Zenon DEF UpTo
<1>f. \A i \in 1 .. n : LastOf(s[i]) \in Int /\ FirstOf(s[i]) \in Int /\ FirstOf(s[i]) <= LastOf(s[i])
  <2>1. \A x \in Nack : LastOf(x) \in Int /\ FirstOf(x) \in Int /\ FirstOf(x) <= LastOf(x)
    BY NackFacts
  <2> QED
    BY <1>1, <2>1, Zenon
<1>4. CASE n = 0 \/ ~can_be_merged(s[n], nack)
  <2>1. t = Append(s, nack)
    BY <1>4, PushType, Zenon
  <2>2. DOMAIN t = 1 .. n + 1 /\ t[n + 1] = nack /\ \A i \in 1 .. n : t[i] = s[i]
    BY <1>1, <2>1
  <2> HIDE DEF t
  <2>3. UpTo(t, m + 1)
    <3>1. \A i \in 1 .. n + 1 : LastOf(t[i]) < m + 1
      BY <1>2, <1>3, <2>2
    <3>2. ASSUME NEW i \in 1 .. n + 1, NEW j \in 1 .. n + 1, i < j
          PROVE  LastOf(t[i]) <= FirstOf(t[j])
      <4>1. i \in 1 .. n /\ t[i] = s[i]
        BY <1>1, <2>2, <3>2
      <4>2. CASE j = n + 1
        BY <1>3, <1>f, <2>2, <4>1, <4>2
      <4>3. CASE j # n + 1
        <5>1. j \in 1 .. n
          BY <1>1, <4>3
        <5> QED
          BY <1>3, <2>2, <3>2, <4>1, <5>1, Zenon
      <4> QED
        BY <4>2, <4>3, Zenon
    <3> QED
      BY <2>2, <3>1, <3>2, Zenon DEF UpTo
  <2>4. ASSUME NEW q \in Int, NEW b \in Int
        PROVE  NackedBy(t, q, b) <=> NackedBy(s, q, b) \/ Names(nack, q, b)
    <3>1. 1 .. n + 1 = (1 .. n) \cup {n + 1}
      BY <1>1
    <3> QED
      BY <1>1, <2>2, <3>1, Zenon DEF NackedBy
  <2> QED
    BY <2>3, <2>4, Zenon DEF t
<1>5. CASE n # 0 /\ can_be_merged(s[n], nack)
  <2> DEFINE e == Merged(s[n], nack)
  <2>1. n \in 1 .. n /\ s[n] \in Nack /\ LastOf(s[n]) + 1 < Mod
    BY <1>1, <1>3, <1>f, <1>5, Numbers
  <2>2. /\ FirstOf(e) = FirstOf(s[n]) /\ LastOf(e) = m
        /\ \A q, b \in Int : Names(e, q, b) <=> Names(s[n], q, b) \/ Names(nack, q, b)
    BY <1>2, <1>5, <2>1, MergedNames, Zenon
  <2>3. t = [s EXCEPT ![n] = e]
    BY <1>5, PushType, Zenon
  <2>4. DOMAIN t = 1 .. n /\ t[n] = e /\ \A i \in 1 .. n : i # n => t[i] = s[i]
    BY <1>1, <2>1, <2>3, Zenon
  <2> HIDE DEF t, e
  <2>5. UpTo(t, m + 1)
    <3>1. \A i \in 1 .. n : LastOf(t[i]) < m + 1
      BY <1>3, <2>2, <2>4
    <3>2. ASSUME NEW i \in 1 .. n, NEW j \in 1 .. n, i < j
          PROVE  LastOf(t[i]) <= FirstOf(t[j])
      <4>1. i # n
        BY <1>1, <3>2
      <4>2. t[i] = s[i] /\ FirstOf(t[j]) = FirstOf(s[j])
        BY <2>2, <2>4, <4>1, Zenon
      <4> QED
        BY <1>3, <3>2, <4>2, Zenon
    <3> QED
      BY <2>4, <3>1, <3>2, Zenon DEF UpTo
  <2>6. ASSUME NEW q \in Int, NEW b \in Int
        PROVE  NackedBy(t, q, b) <=> NackedBy(s, q, b) \/ Names(nack, q, b)
    <3>1. Names(e, q, b) <=> Names(s[n], q, b) \/ Names(nack, q, b)
      BY <2>2, Zenon
    <3> QED
      BY <1>1, <2>1, <2>4, <3>1, Zenon DEF NackedBy
  <2> QED
    BY <2>5, <2>6, Zenon DEF t
<1> QED
  BY <1>4, <1>5, Zenon

-----------------------------------------------------------------------------
\* refresh_status_report().

\* The bytes between a segment and its predecessor are not held.
LEMMA GapBytes ==
  ASSUME NEW s \in Seq(Piece), Sorted(s), NEW i \in 1 .. Len(s), NEW b \in Int
  PROVE  /\ LastSo(s, i - 1) \in 0 .. s[i].so /\ LastSo(s, i) = LastByte(s[i]) + 1
         /\ s[i].so <= LastByte(s[i]) /\ LastByte(s[i]) \in 0 .. SduLen - 1
         /\ b \in LastSo(s, i - 1) .. s[i].so - 1 => ~Holds(s, b)
         /\ b \in s[i].so .. LastByte(s[i]) => Holds(s, b)
<1> DEFINE e == LastSo(s, i - 1)
<1>1. \A j \in 1 .. Len(s) : s[j] \in Piece
  OBVIOUS
<1>2. \A j \in 1 .. Len(s) : s[j].so \in Nat /\ LastByte(s[j]) \in Nat /\ s[j].so <= LastByte(s[j])
                             /\ LastByte(s[j]) < SduLen
  BY <1>1, PieceFacts, Zenon
<1>3. \A j, k \in 1 .. Len(s) : j < k => LastByte(s[j]) < s[k].so
  BY DEF Sorted
<1>4. e \in Nat /\ e <= s[i].so /\ (i # 1 => e = LastByte(s[i - 1]) + 1)
  <2>1. CASE i = 1
    BY <1>2, <2>1 DEF LastSo
  <2>2. CASE i # 1
    <3>1. i - 1 \in 1 .. Len(s) /\ i - 1 < i
      BY <2>2
    <3>2. LastByte(s[i - 1]) < s[i].so /\ LastByte(s[i - 1]) \in Nat /\ s[i].so \in Nat
      BY <1>2, <1>3, <3>1, Zenon
    <3> QED
      BY <2>2, <3>2 DEF LastSo
  <2> QED
    BY <2>1, <2>2, Zenon
<1> HIDE DEF e
<1>5. ASSUME NEW j \in 1 .. Len(s), b \in e .. s[i].so - 1, b \in Span(s[j]) PROVE FALSE
  <2>1. s[j].so <= b /\ b <= LastByte(s[j]) /\ e <= b /\ b < s[i].so
    BY <1>2, <1>4, <1>5 DEF Span
  <2>2. CASE j >= i
    BY <1>2, <1>3, <2>1, <2>2
  <2>3. CASE j = i - 1
    BY <1>2, <1>4, <2>1, <2>3
  <2>4. CASE j < i - 1
    <3>1. i - 1 \in 1 .. Len(s)
      BY <2>4
    <3>2. LastByte(s[j]) < s[i - 1].so
      BY <1>3, <2>4, <3>1, Zenon
    <3> QED
      <4>1. LastByte(s[j]) \in Nat /\ LastByte(s[i - 1]) \in Nat /\ s[i - 1].so \in Nat
            /\ s[i - 1].so <= LastByte(s[i - 1]) /\ e = LastByte(s[i - 1]) + 1
        BY <1>2, <1>4, <2>4, <3>1, SMTT(60)
      <4> QED
        BY <2>1, <3>2, <4>1
  <2> QED
    BY <2>2, <2>3, <2>4
<1>6. b \in e .. s[i].so - 1 => ~Holds(s, b)
  BY <1>5 DEF Holds
<1>7. b \in s[i].so .. LastByte(s[i]) => Holds(s, b)
  BY DEF Holds, Span
<1>8. LastSo(s, i) = LastByte(s[i]) + 1 /\ e \in 0 .. s[i].so
      /\ s[i].so <= LastByte(s[i]) /\ LastByte(s[i]) \in 0 .. SduLen - 1
  BY <1>2, <1>4, SduLenAssumption DEF LastSo
<1> QED
  BY <1>6, <1>7, <1>8, Zenon DEF e

\* The loop over the segments of the SDU at offset m, unfolded.
LEMMA SegmentLoopUnfolds ==
  ASSUME NEW pdu \in Pdu, NEW m \in 0 .. N - 1, NEW s \in Seq(Piece)
  PROVE  LET L == SegmentLoop(pdu, At(m), s)
         IN  /\ L[0] = pdu
             /\ \A i \in 0 .. Len(s) : L[i] \in Pdu
             /\ \A i \in 1 .. Len(s) :
                  L[i] = IF s[i].so = LastSo(s, i - 1) THEN L[i - 1]
                         ELSE push_nack(L[i - 1], NackSegment(At(m), LastSo(s, i - 1), s[i].so - 1))
<1> DEFINE n == Len(s)
           Step(x, i) == IF s[i].so = LastSo(s, i - 1) THEN x
                         ELSE push_nack(x, NackSegment(At(m), LastSo(s, i - 1), s[i].so - 1))
           g == [x \in (1 .. n) \X Pdu |-> Step(x[2], x[1])]
           Def(f) == [i \in 0 .. n |-> IF i = 0 THEN pdu ELSE Step(f[i - 1], i)]
           L == SegmentLoop(pdu, At(m), s)
<1>1. n \in Nat
  OBVIOUS
<1>2. ASSUME NEW i \in 1 .. n, NEW x \in Pdu PROVE Step(x, i) \in Pdu
  <2>1. s[i] \in Piece /\ (i # 1 => i - 1 \in 1 .. n /\ s[i - 1] \in Piece)
    OBVIOUS
  <2>2. s[i].so - 1 \in Int /\ LastSo(s, i - 1) \in Int
    <3>1. \A p \in Piece : p.so \in Nat /\ LastByte(p) \in Nat
      BY PieceFacts, Zenon
    <3>2. s[i].so \in Nat /\ (i # 1 => LastByte(s[i - 1]) \in Nat)
      BY <2>1, <3>1, Zenon
    <3> QED
      BY <3>2 DEF LastSo
  <2>3. NackSegment(At(m), LastSo(s, i - 1), s[i].so - 1) \in Nack
    <3> DEFINE a == LastSo(s, i - 1)
               z == s[i].so - 1
    <3>1. a \in Int /\ z \in Int
      BY <2>2, Zenon
    <3> HIDE DEF a, z
    <3>2. NackSegment(At(m), a, z) \in Nack
      BY <3>1, SegmentNack, Zenon
    <3> QED
      BY <3>2, Zenon DEF a, z
  <2> QED
    BY <2>3, PushType, Zenon
<1>3. L = CHOOSE f : f = Def(f)
  BY Zenon DEF SegmentLoop
<1> HIDE DEF Step
<1>4. g \in [(1 .. n) \X Pdu -> Pdu] /\ \A i \in 1 .. n, x \in Pdu : g[<<i, x>>] = Step(x, i)
  BY <1>2, Zenon
<1> HIDE DEF g
<1>5. PICK f \in [0 .. n -> Pdu] : Solves(f, n, pdu, g)
  <2> HIDE DEF n
  <2>1. n \in Nat /\ pdu \in Pdu /\ g \in [(1 .. n) \X Pdu -> Pdu]
    BY <1>1, <1>4, Zenon
  <2> QED
    BY <2>1, RecursionExists, Zenon
<1>6. f = Def(f)
  <2>1. \A i \in 0 .. n : f[i] = Def(f)[i]
    <3>1. ASSUME NEW i \in 1 .. n PROVE f[i] = Step(f[i - 1], i)
      <4>1. f[i - 1] \in Pdu
        BY <1>1, <1>5
      <4> QED
        BY <1>4, <1>5, <4>1, Zenon DEF Solves
    <3> QED
      BY <1>5, <3>1 DEF Solves
  <2> QED
    BY <1>5, <2>1, Zenon
<1>7. L = Def(L)
  BY <1>3, <1>6, Zenon
<1> HIDE DEF L
<1>8. L[0] = pdu /\ \A i \in 1 .. n : L[i] = Step(L[i - 1], i)
  BY <1>1, <1>7
<1> DEFINE T == {i \in 0 .. n : L[i] \in Pdu}
<1>9. 0 .. n \subseteq T
  <2>1. 0 \in T
    BY <1>1, <1>8
  <2>2. ASSUME NEW i \in 1 .. n, i - 1 \in T PROVE i \in T
    BY <1>2, <1>8, <2>2
  <2> HIDE DEF T
  <2> QED
    BY <1>1, <2>1, <2>2, Induction, Zenon
<1>10. \A i \in 0 .. n : L[i] \in Pdu
  BY <1>9, Zenon
<1> QED
  BY <1>8, <1>10, Zenon DEF L, Step

\* The NACKs t say what s does, and that bytes B of the SN at offset m are missing.
Adds(t, s, m, B) ==
  \A q, b \in Int : NackedBy(t, q, b) <=> NackedBy(s, q, b) \/ (q = m /\ b \in B)

\* The bytes below e that no segment of s holds.
Gaps(s, e) == {b \in 0 .. e - 1 : ~Holds(s, b)}

\* Pushing a NACK of bytes first .. last of the SDU at offset m.
LEMMA PushSegment ==
  ASSUME NEW pdu \in Pdu, NEW m \in 0 .. N - 1, UpTo(pdu.nacks, m + 1),
         NEW first \in Int, NEW last \in Int
  PROVE  LET r == push_nack(pdu, NackSegment(At(m), first, last)) IN
         /\ r \in Pdu /\ r.ack_sn = pdu.ack_sn /\ UpTo(r.nacks, m + 1)
         /\ Adds(r.nacks, pdu.nacks, m, first .. (IF last = SoEnd THEN SduLen - 1 ELSE last))
<1> DEFINE seg == NackSegment(At(m), first, last)
           B == first .. (IF last = SoEnd THEN SduLen - 1 ELSE last)
<1>1. /\ seg \in Nack /\ FirstOf(seg) = m /\ seg.range = 1
      /\ \A q, b \in Int : Names(seg, q, b) <=> q = m /\ b \in B
  BY SegmentNack, Zenon
<1> HIDE DEF seg, B
<1>2. push_nack(pdu, seg) \in Pdu /\ push_nack(pdu, seg).ack_sn = pdu.ack_sn
  BY <1>1, PushType, Zenon
<1>3. /\ UpTo(push_nack(pdu, seg).nacks, m + 1)
      /\ \A q, b \in Int : NackedBy(push_nack(pdu, seg).nacks, q, b)
                             <=> NackedBy(pdu.nacks, q, b) \/ Names(seg, q, b)
  BY <1>1, PushAdds, Zenon
<1>4. Adds(push_nack(pdu, seg).nacks, pdu.nacks, m, B)
  BY <1>1, <1>3, ZenonT(30) DEF Adds
<1> QED
  BY <1>2, <1>3, <1>4, Zenon DEF seg, B

\* The loop over the segments NACKs the gaps before each of them.
LEMMA SegmentLoopAdds ==
  ASSUME NEW pdu \in Pdu, NEW m \in 0 .. N - 1, UpTo(pdu.nacks, m + 1),
         NEW s \in Seq(Piece), Sorted(s)
  PROVE  LET r == SegmentLoop(pdu, At(m), s)[Len(s)] IN
         /\ r \in Pdu /\ r.ack_sn = pdu.ack_sn /\ UpTo(r.nacks, m + 1)
         /\ Adds(r.nacks, pdu.nacks, m, Gaps(s, LastSo(s, Len(s))))
<1> DEFINE n == Len(s)
           L == SegmentLoop(pdu, At(m), s)
           T == {i \in 0 .. n : /\ L[i].ack_sn = pdu.ack_sn /\ UpTo(L[i].nacks, m + 1)
                                /\ Adds(L[i].nacks, pdu.nacks, m, Gaps(s, LastSo(s, i)))}
<1>1. /\ n \in Nat /\ L[0] = pdu /\ \A i \in 0 .. n : L[i] \in Pdu
      /\ \A i \in 1 .. n :
           L[i] = IF s[i].so = LastSo(s, i - 1) THEN L[i - 1]
                  ELSE push_nack(L[i - 1], NackSegment(At(m), LastSo(s, i - 1), s[i].so - 1))
  BY SegmentLoopUnfolds, SMTT(30)
<1> HIDE DEF L
<1>2. 0 \in T
  <2>1. Gaps(s, LastSo(s, 0)) = {}
    BY DEF Gaps, LastSo
  <2> QED
    BY <1>1, <2>1 DEF Adds
<1>3. ASSUME NEW i \in 1 .. n, i - 1 \in T PROVE i \in T
  <2> DEFINE e == LastSo(s, i - 1)
             x == s[i].so
             z == LastByte(s[i])
             p == L[i - 1]
  <2>1. /\ p \in Pdu /\ p.ack_sn = pdu.ack_sn /\ UpTo(p.nacks, m + 1)
        /\ Adds(p.nacks, pdu.nacks, m, Gaps(s, e))
    BY <1>1, <1>3, Zenon
  <2>2. /\ e \in 0 .. x /\ x <= z /\ z \in 0 .. SduLen - 1 /\ LastSo(s, i) = z + 1 /\ x \in Int
        /\ \A b \in e .. x - 1 : ~Holds(s, b)
        /\ \A b \in x .. z : Holds(s, b)
    <3>1. \A b \in Int : /\ e \in 0 .. x /\ LastSo(s, i) = z + 1 /\ x <= z /\ z \in 0 .. SduLen - 1
                         /\ b \in e .. x - 1 => ~Holds(s, b)
                         /\ b \in x .. z => Holds(s, b)
      BY GapBytes, Zenon
    <3>2. x \in Int
      BY PieceFacts
    <3> HIDE DEF e, x, z
    <3> QED
      BY <3>1, <3>2, Numbers
  <2> HIDE DEF e, x, z, p
  <2>3. Gaps(s, LastSo(s, i)) = Gaps(s, e) \cup (e .. x - 1)
    <3>1. LastSo(s, i) = z + 1
      BY <2>2, Zenon
    <3> QED
      BY <2>2, <3>1, Numbers DEF Gaps
  <2>4. CASE x = e
    <3>1. e .. x - 1 = {}
      BY <2>2, <2>4
    <3>2. L[i] = p
      BY <1>1, <2>4, Zenon DEF p, x, e
    <3> QED
      BY <1>1, <2>1, <2>3, <3>1, <3>2, Zenon
  <2>5. CASE x # e
    <3> DEFINE r == push_nack(p, NackSegment(At(m), e, x - 1))
    <3>1. L[i] = r
      BY <1>1, <2>5, Zenon DEF p, x, e
    <3>2. x - 1 \in Int /\ e \in Int /\ x - 1 # SoEnd
      BY <2>2, Numbers
    <3>3. /\ r \in Pdu /\ r.ack_sn = p.ack_sn /\ UpTo(r.nacks, m + 1)
          /\ Adds(r.nacks, p.nacks, m, e .. x - 1)
      <4> DEFINE y == x - 1
      <4>1. y \in Int /\ e \in Int /\ y # SoEnd
        BY <3>2, Zenon
      <4> HIDE DEF y
      <4>2. LET q == push_nack(p, NackSegment(At(m), e, y)) IN
            /\ q \in Pdu /\ q.ack_sn = p.ack_sn /\ UpTo(q.nacks, m + 1)
            /\ Adds(q.nacks, p.nacks, m, e .. (IF y = SoEnd THEN SduLen - 1 ELSE y))
        BY <2>1, <4>1, PushSegment, Zenon
      <4> QED
        BY <4>1, <4>2, Zenon DEF y
    <3> HIDE DEF r
    <3>4. Adds(r.nacks, pdu.nacks, m, Gaps(s, e) \cup (e .. x - 1))
      BY <2>1, <3>3, Zenon DEF Adds
    <3>5. i \in 0 .. n
      BY <1>1
    <3> QED
      BY <2>1, <2>3, <3>1, <3>3, <3>4, <3>5, Zenon
  <2> QED
    BY <2>4, <2>5, Zenon
<1>4. 0 .. n \subseteq T
  <2> HIDE DEF T
  <2> QED
    BY <1>1, <1>2, <1>3, Induction, Zenon
<1>5. n \in T
  BY <1>1, <1>4
<1> QED
  BY <1>1, <1>5, Zenon DEF L

\* The NACKs of one SDU are its missing bytes.
LEMMA PushSduAdds ==
  ASSUME NEW pdu \in Pdu, NEW m \in 0 .. N - 1, UpTo(pdu.nacks, m + 1),
         NEW s \in Seq(Piece), Sorted(s)
  PROVE  LET r == PushSdu(pdu, At(m), s) IN
         /\ r \in Pdu /\ r.ack_sn = pdu.ack_sn /\ UpTo(r.nacks, m + 1)
         /\ Adds(r.nacks, pdu.nacks, m, Gaps(s, SduLen))
<1> DEFINE n == Len(s)
           r == PushSdu(pdu, At(m), s)
           g == SegmentLoop(pdu, At(m), s)[n]
<1>1. /\ n \in Nat /\ DOMAIN s = 1 .. n /\ (s = <<>> <=> n = 0)
      /\ \A i \in 1 .. n : s[i] \in Piece
  OBVIOUS
<1>2. /\ g \in Pdu /\ g.ack_sn = pdu.ack_sn /\ UpTo(g.nacks, m + 1)
      /\ Adds(g.nacks, pdu.nacks, m, Gaps(s, LastSo(s, n)))
  BY SegmentLoopAdds, Zenon
<1>p. \A p \in Piece : /\ p.so \in Nat /\ LastByte(p) \in Nat /\ p.so <= LastByte(p)
                       /\ LastByte(p) < SduLen /\ (p.last <=> LastByte(p) = SduLen - 1)
  BY PieceFacts, Zenon
<1> HIDE DEF n
<1>3. CASE s = <<>>
  <2>1. r = push_nack(pdu, NackSdu(At(m)))
    BY <1>3, Zenon DEF PushSdu
  <2>2. /\ NackSdu(At(m)) \in Nack /\ FirstOf(NackSdu(At(m))) = m /\ NackSdu(At(m)).range = 1
        /\ \A q, b \in Int : Names(NackSdu(At(m)), q, b) <=> q = m /\ b \in 0 .. SduLen - 1
    BY SduNack, Zenon
  <2>3. r \in Pdu /\ r.ack_sn = pdu.ack_sn
    BY <2>1, <2>2, PushType, ZenonT(30)
  <2>4. /\ UpTo(r.nacks, m + 1)
        /\ \A q, b \in Int : NackedBy(r.nacks, q, b)
                               <=> NackedBy(pdu.nacks, q, b) \/ Names(NackSdu(At(m)), q, b)
    BY <2>1, <2>2, PushAdds, Zenon
  <2>5. Gaps(s, SduLen) = 0 .. SduLen - 1
    BY <1>1, <1>3 DEF Gaps, Holds
  <2>6. Adds(r.nacks, pdu.nacks, m, Gaps(s, SduLen))
    BY <2>2, <2>4, <2>5, Zenon DEF Adds
  <2> QED
    BY <2>3, <2>4, <2>6, Zenon
<1>4. CASE s # <<>> /\ fully_received(s)
  <2>1. r = pdu
    BY <1>4, Zenon DEF PushSdu
  <2> DEFINE G == {b \in 0 .. SduLen - 1 : Holds(s, b)}
  <2>2. \A b \in Nat : Holds(s, b) <=> b \in G
    <3>1. ASSUME NEW b \in Nat, Holds(s, b) PROVE b \in 0 .. SduLen - 1
      <4>1. PICK i \in 1 .. n : b \in Span(s[i])
        BY <1>1, <3>1, Zenon DEF Holds
      <4>2. LastByte(s[i]) < SduLen /\ LastByte(s[i]) \in Nat
        BY <1>1, <1>p, Zenon
      <4> QED
        BY <4>1, <4>2, Numbers DEF Span
    <3> QED
      BY <3>1, Zenon
  <2>3. G \in SUBSET (0 .. SduLen - 1)
    OBVIOUS
  <2> HIDE DEF G
  <2>4. (0 .. SduLen - 1) \ G = {}
    BY <1>4, <2>2, <2>3, Inventory, Zenon
  <2>5. Gaps(s, SduLen) = {}
    BY <2>4, Zenon DEF Gaps, G
  <2>6. Adds(r.nacks, pdu.nacks, m, Gaps(s, SduLen))
    BY <2>1, <2>5, Zenon DEF Adds
  <2> QED
    BY <2>1, <2>6, Zenon
<1>5. CASE s # <<>> /\ ~fully_received(s) /\ \E i \in DOMAIN s : s[i].last
  <2>1. r = g
    BY <1>5, Zenon DEF PushSdu, n
  <2>2. PICK i \in 1 .. n : s[i].last
    BY <1>1, <1>5, Zenon
  <2>3. LastByte(s[i]) = SduLen - 1
    BY <1>1, <1>p, <2>2, Zenon
  <2>4. n \in 1 .. n /\ LastByte(s[n]) < SduLen /\ s[n].so <= LastByte(s[n])
        /\ s[n].so \in Nat /\ LastByte(s[n]) \in Nat
    BY <1>1, <1>p, <2>2
  <2>5. i = n
    <3>1. i < n => LastByte(s[i]) < s[n].so
      BY <1>1, <2>4, Zenon DEF Sorted
    <3>2. ~(LastByte(s[i]) < s[n].so)
      <4> DEFINE u == s[n].so
                 v == LastByte(s[n])
      <4>1. u \in Nat /\ v \in Nat /\ u <= v /\ v < SduLen
        BY <2>4, Zenon
      <4> HIDE DEF u, v
      <4>2. ~(SduLen - 1 < u)
        BY <4>1, Numbers
      <4> QED
        BY <2>3, <4>2, Zenon DEF u
    <3>3. ~(i < n)
      BY <3>1, <3>2, Zenon
    <3> QED
      BY <1>1, <3>3
  <2>6. LastSo(s, n) = SduLen
    BY <2>3, <2>4, <2>5, Numbers DEF LastSo
  <2> HIDE DEF r, g
  <2> QED
    BY <1>2, <2>1, <2>6, Zenon DEF r
<1>6. CASE s # <<>> /\ ~fully_received(s) /\ ~\E i \in DOMAIN s : s[i].last
  <2> DEFINE e == LastSo(s, n)
  <2>1. r = push_nack(g, NackSegment(At(m), e, SoEnd))
    BY <1>6, Zenon DEF PushSdu, n
  <2>2. n \in 1 .. n /\ s[n] \in Piece
    BY <1>1, <1>6
  <2>3. /\ e = LastByte(s[n]) + 1 /\ e \in 1 .. SduLen
        /\ \A i \in 1 .. n : LastByte(s[i]) < e /\ LastByte(s[i]) \in Nat /\ s[i].so \in Nat
    <3>1. \A i \in 1 .. n : /\ s[i].so \in Nat /\ LastByte(s[i]) \in Nat
                            /\ s[i].so <= LastByte(s[i]) /\ LastByte(s[i]) < SduLen
      BY <1>1, <1>p, Zenon
    <3>2. \A i \in 1 .. n : i < n => LastByte(s[i]) < s[n].so
      BY <1>1, <2>2, Zenon DEF Sorted
    <3>3. e = LastByte(s[n]) + 1
      BY <2>2 DEF LastSo
    <3> DEFINE z == LastByte(s[n])
    <3>4. z \in Nat /\ z < SduLen /\ s[n].so \in Nat /\ s[n].so <= z
      BY <2>2, <3>1, Zenon
    <3>5. \A i \in 1 .. n : LastByte(s[i]) < z + 1
      BY <1>1, <3>1, <3>2, <3>4
    <3> HIDE DEF z
    <3> QED
      BY <3>1, <3>3, <3>4, <3>5, Numbers DEF z
  <2> HIDE DEF e, g
  <2>4. Gaps(s, SduLen) = Gaps(s, e) \cup (e .. SduLen - 1)
    <3>1. ASSUME NEW b \in e .. SduLen - 1 PROVE ~Holds(s, b)
      BY <1>1, <2>3 DEF Holds, Span
    <3> QED
      BY <2>3, <3>1, Numbers DEF Gaps
  <2>5. e \in Int /\ SoEnd \in Int
    BY <2>3, Numbers, SMTT(30)
  <2>6. /\ r \in Pdu /\ r.ack_sn = g.ack_sn /\ UpTo(r.nacks, m + 1)
        /\ Adds(r.nacks, g.nacks, m, e .. SduLen - 1)
    <3> HIDE DEF r
    <3>1. LET q == push_nack(g, NackSegment(At(m), e, SoEnd)) IN
          /\ q \in Pdu /\ q.ack_sn = g.ack_sn /\ UpTo(q.nacks, m + 1)
          /\ Adds(q.nacks, g.nacks, m, e .. (IF SoEnd = SoEnd THEN SduLen - 1 ELSE SoEnd))
      BY <1>2, <2>5, PushSegment, Zenon
    <3> QED
      BY <2>1, <3>1, Zenon DEF r
  <2>7. Adds(g.nacks, pdu.nacks, m, Gaps(s, e))
    BY <1>2, Zenon DEF e, g
  <2>8. Adds(r.nacks, pdu.nacks, m, Gaps(s, SduLen))
    BY <2>4, <2>6, <2>7, Zenon DEF Adds
  <2> QED
    BY <1>2, <2>6, <2>8, Zenon DEF g
<1> QED
  BY <1>3, <1>4, <1>5, <1>6, Zenon

\* The loop over the SNs, unfolded.
LEMMA ReportLoopUnfolds ==
  ASSUME NEW w \in [Sns -> Seq(Piece)], \A sn \in Sns : Sorted(w[sn])
  PROVE  LET L == ReportLoop(w, First, N)
         IN  /\ L[0] = EmptyPdu(At(N))
             /\ \A i \in 1 .. N : L[i] = PushSdu(L[i - 1], At(i - 1), w[At(i - 1)])
<1> DEFINE a == EmptyPdu(At(N))
           Ok(i, x) == x \in Pdu /\ UpTo(x.nacks, i)
           Step(x, i) == PushSdu(x, At(i - 1), w[At(i - 1)])
           g == [x \in (1 .. N) \X Pdu |-> IF Step(x[2], x[1]) \in Pdu THEN Step(x[2], x[1]) ELSE a]
           Def(f) == [i \in 0 .. N |-> IF i = 0 THEN a ELSE Step(f[i - 1], i)]
           L == ReportLoop(w, First, N)
<1>1. N \in Nat
  BY Numbers
<1>2. Ok(0, a)
  <2>1. At(N) \in 0 .. Mod - 1
    BY AtOffset, Numbers
  <2> QED
    BY <2>1 DEF EmptyPdu, Pdu, UpTo, HeaderSize
<1>3. ASSUME NEW i \in 1 .. N, NEW x, Ok(i - 1, x) PROVE Ok(i, Step(x, i))
  <2>1. i - 1 \in 0 .. N - 1 /\ (i - 1) + 1 = i
    BY <1>1
  <2>2. At(i - 1) \in Sns
    BY <2>1, ReportsAssumption, Zenon DEF At
  <2>3. w[At(i - 1)] \in Seq(Piece) /\ Sorted(w[At(i - 1)])
    BY <2>2, Zenon
  <2>4. UpTo(x.nacks, i)
    BY <1>1, <1>3, UpToNext
  <2> DEFINE m == i - 1
             s == w[At(m)]
  <2>5. m \in 0 .. N - 1 /\ x \in Pdu /\ UpTo(x.nacks, m + 1) /\ s \in Seq(Piece) /\ Sorted(s)
    BY <1>3, <2>1, <2>3, <2>4, Zenon
  <2> HIDE DEF m, s
  <2>6. PushSdu(x, At(m), s) \in Pdu /\ UpTo(PushSdu(x, At(m), s).nacks, m + 1)
    BY <2>5, PushSduAdds, Zenon
  <2> QED
    BY <2>1, <2>6, Zenon DEF m, s
<1>4. L = CHOOSE f : f = Def(f)
  <2>1. ASSUME NEW i \in 0 .. N PROVE First + i - 1 = First + (i - 1) /\ First + N = First + N
    BY Numbers, Zenon
  <2>2. ASSUME NEW f
        PROVE  Def(f) = [i \in 0 .. N |->
                           IF i = 0 THEN EmptyPdu((First + N) % Mod)
                           ELSE PushSdu(f[i - 1], (First + i - 1) % Mod, w[(First + i - 1) % Mod])]
    BY <2>1, Zenon DEF At
  <2> HIDE DEF Def
  <2> QED
    BY <2>2, Zenon DEF ReportLoop
<1> HIDE DEF Ok, Step, a
<1>5. g \in [(1 .. N) \X Pdu -> Pdu]
      /\ \A i \in 1 .. N, x \in Pdu : Ok(i - 1, x) => g[<<i, x>>] = Step(x, i)
  <2>1. a \in Pdu
    BY <1>2, Zenon DEF Ok
  <2>2. \A i \in 1 .. N, x \in Pdu : Ok(i - 1, x) => Step(x, i) \in Pdu
    BY <1>3, Zenon DEF Ok
  <2> QED
    BY <2>1, <2>2, Zenon
<1> HIDE DEF g
<1>6. PICK f \in [0 .. N -> Pdu] : Solves(f, N, a, g)
  <2>1. N \in Nat /\ a \in Pdu /\ g \in [(1 .. N) \X Pdu -> Pdu]
    BY <1>1, <1>2, <1>5, Zenon DEF Ok
  <2> QED
    BY <2>1, RecursionExists, Zenon
<1>7. \A i \in 1 .. N : Ok(i - 1, f[i - 1]) => f[i] = Step(f[i - 1], i)
  <2>1. ASSUME NEW i \in 1 .. N PROVE i - 1 \in 0 .. N /\ f[i - 1] \in Pdu
    BY <1>1, <1>6
  <2> QED
    BY <1>5, <1>6, <2>1, Zenon DEF Solves
<1> DEFINE T == {i \in 0 .. N : Ok(i, f[i])}
<1>8. 0 .. N \subseteq T
  <2>1. 0 \in T
    BY <1>1, <1>2, <1>6 DEF Solves
  <2>2. ASSUME NEW i \in 1 .. N, i - 1 \in T PROVE i \in T
    BY <1>3, <1>7, <2>2
  <2> HIDE DEF T
  <2> QED
    BY <1>1, <2>1, <2>2, Induction, Zenon
<1>9. f = Def(f)
  <2>1. \A i \in 0 .. N : f[i] = Def(f)[i]
    <3>1. ASSUME NEW i \in 1 .. N PROVE f[i] = Step(f[i - 1], i)
      <4>1. i - 1 \in 0 .. N
        BY <1>1
      <4> QED
        BY <1>7, <1>8, <4>1, Zenon
    <3> QED
      BY <1>6, <3>1 DEF Solves
  <2> QED
    BY <1>6, <2>1, Zenon
<1>10. L = Def(L)
  BY <1>4, <1>9, Zenon
<1> HIDE DEF L
<1>11. L[0] = a /\ \A i \in 1 .. N : L[i] = Step(L[i - 1], i)
  BY <1>1, <1>10
<1> QED
  BY <1>11, Zenon DEF L, Step, a

\* The bytes of the SN at offset m that w does not hold.
MissingAt(w, m) == Gaps(w[At(m)], SduLen)

\* A report NACKs, in order, the missing bytes of every SN and nothing else.
LEMMA ReportSays ==
  ASSUME NEW w \in [Sns -> Seq(Piece)], \A sn \in Sns : Sorted(w[sn])
  PROVE  LET r == status_report(w, First, N)
         IN  /\ r \in Pdu /\ r.ack_sn = At(N) /\ UpTo(r.nacks, N)
             /\ \A q, b \in Int :
                  NackedBy(r.nacks, q, b) <=> q \in 0 .. N - 1 /\ b \in MissingAt(w, q)
<1> DEFINE L == ReportLoop(w, First, N)
           Good(i) == /\ L[i] \in Pdu /\ L[i].ack_sn = At(N) /\ UpTo(L[i].nacks, i)
                      /\ \A q, b \in Int :
                           NackedBy(L[i].nacks, q, b) <=> q \in 0 .. i - 1 /\ b \in MissingAt(w, q)
           T == {i \in 0 .. N : Good(i)}
<1>1. /\ N \in Nat /\ L[0] = EmptyPdu(At(N))
      /\ \A i \in 1 .. N : L[i] = PushSdu(L[i - 1], At(i - 1), w[At(i - 1)])
  BY ReportLoopUnfolds, Numbers
<1> HIDE DEF L
<1>2. Good(0)
  <2>1. At(N) \in 0 .. Mod - 1
    BY AtOffset, Numbers
  <2>2. L[0].nacks = <<>> /\ L[0].ack_sn = At(N) /\ L[0] \in Pdu
    BY <1>1, <2>1 DEF EmptyPdu, Pdu, HeaderSize
  <2> QED
    BY <2>2 DEF UpTo, NackedBy
<1>3. ASSUME NEW i \in 1 .. N, Good(i - 1) PROVE Good(i)
  <2> DEFINE m == i - 1
             s == w[At(m)]
             x == L[m]
  <2>1. m \in 0 .. N - 1 /\ m + 1 = i /\ At(m) \in Sns
    <3>1. m \in 0 .. N - 1 /\ m + 1 = i
      BY <1>1
    <3> HIDE DEF m
    <3> QED
      BY <3>1, ReportsAssumption, Zenon DEF At
  <2>2. s \in Seq(Piece) /\ Sorted(s) /\ L[i] = PushSdu(x, At(m), s)
    BY <1>1, <2>1, Zenon
  <2>3. x \in Pdu /\ UpTo(x.nacks, i) /\ x.ack_sn = At(N)
    <3>1. x \in Pdu /\ UpTo(x.nacks, i - 1) /\ x.ack_sn = At(N) /\ i \in Nat \ {0}
      BY <1>1, <1>3
    <3> HIDE DEF x
    <3> QED
      BY <3>1, UpToNext, Zenon
  <2>4. \A q, b \in Int : NackedBy(x.nacks, q, b) <=> q \in 0 .. m - 1 /\ b \in MissingAt(w, q)
    BY <1>3, Zenon
  <2>5. MissingAt(w, m) = Gaps(s, SduLen)
    BY Zenon DEF MissingAt
  <2> HIDE DEF m, s, x
  <2>6. /\ L[i] \in Pdu /\ L[i].ack_sn = x.ack_sn /\ UpTo(L[i].nacks, m + 1)
        /\ Adds(L[i].nacks, x.nacks, m, Gaps(s, SduLen))
    <3>1. UpTo(x.nacks, m + 1)
      BY <2>1, <2>3, Zenon
    <3>2. LET r == PushSdu(x, At(m), s) IN
          /\ r \in Pdu /\ r.ack_sn = x.ack_sn /\ UpTo(r.nacks, m + 1)
          /\ Adds(r.nacks, x.nacks, m, Gaps(s, SduLen))
      BY <2>1, <2>2, <2>3, <3>1, PushSduAdds, Zenon
    <3> QED
      BY <2>2, <3>2, Zenon
  <2>7. ASSUME NEW q \in Int, NEW b \in Int
        PROVE  NackedBy(L[i].nacks, q, b) <=> q \in 0 .. i - 1 /\ b \in MissingAt(w, q)
    <3>1. NackedBy(L[i].nacks, q, b) <=> NackedBy(x.nacks, q, b) \/ (q = m /\ b \in MissingAt(w, m))
      BY <2>5, <2>6, Zenon DEF Adds
    <3>2. q \in 0 .. i - 1 <=> q \in 0 .. m - 1 \/ q = m
      BY <2>1
    <3> QED
      BY <2>4, <3>1, <3>2, Zenon
  <2> QED
    BY <2>1, <2>3, <2>6, <2>7, Zenon
<1> HIDE DEF Good
<1>4. 0 .. N \subseteq T
  <2>1. 0 \in T
    BY <1>1, <1>2
  <2>2. ASSUME NEW i \in 1 .. N, i - 1 \in T PROVE i \in T
    BY <1>3, <2>2
  <2> HIDE DEF T
  <2> QED
    BY <1>1, <2>1, <2>2, Induction, Zenon
<1>5. Good(N)
  BY <1>1, <1>4
<1> QED
  BY <1>5, Zenon DEF Good, L, status_report

-----------------------------------------------------------------------------
\* handle_status_pdu().

\* A NACK of a single SN, as handle_nack() reads it.
Reads(nack, sn, b) ==
  /\ nack.sn = sn
  /\ b \in (IF ~nack.has_so \/ nack.so_end = SoEnd THEN nack.so_start .. SduLen - 1
            ELSE nack.so_start .. nack.so_end)

ReadIn(singles, sn, b) == \E i \in DOMAIN singles : Reads(singles[i], sn, b)

\* The number of SNs that are looked at of a NACK whose SNs are below offset N, for
\* an ACK_SN at offset a: all of them below a.
LEMMA CountBelow ==
  ASSUME NEW nack \in Nack, LastOf(nack) < N, NEW a \in 0 .. N
  PROVE  /\ NackCount(nack, At(a)) \in 0 .. nack.range
         /\ \A q \in Nat : q < a /\ q \in FirstOf(nack) .. LastOf(nack)
                             => q - FirstOf(nack) < NackCount(nack, At(a))
<1> DEFINE o == FirstOf(nack)
           below == (At(a) - nack.sn) % Mod
<1>1. /\ o \in 0 .. Mod - 1 /\ nack.range \in Nat \ {0} /\ LastOf(nack) = o + nack.range - 1
      /\ nack.sn \in 0 .. Mod - 1
  BY NackFacts, Zenon
<1>2. /\ At(a) \in 0 .. Mod - 1
  BY AtOffset, Numbers
<1>3. below \in 0 .. Mod - 1
  <2>1. At(a) - nack.sn \in Int
    BY <1>1, <1>2, Numbers
  <2> HIDE DEF below
  <2> QED
    BY <2>1, ModNear, Zenon DEF below
<1>4. a >= o => below = a - o
  <2>1. SUFFICES ASSUME a >= o PROVE below = a - o
    OBVIOUS
  <2> DEFINE k == a - o
  <2>2. k \in Nat /\ o + k = a /\ Offset(nack.sn) + k < Mod
    BY <1>1, <2>1, Numbers DEF FirstOf
  <2>3. (nack.sn + k) % Mod = At(a)
    BY <1>1, <2>2, AtPlus, Zenon DEF FirstOf
  <2>4. k \in 0 .. Mod - 1 /\ nack.sn + k \in Int /\ nack.sn + k \in 0 .. 2 * Mod - 1
    BY <1>1, <2>2, Numbers
  <2> HIDE DEF k
  <2>5. CASE nack.sn + k < Mod
    <3>1. nack.sn + k \in 0 .. Mod - 1
      BY <2>4, <2>5, Numbers
    <3>2. At(a) = nack.sn + k
      BY <2>3, <2>4, <3>1, ModNear, Zenon
    <3>3. At(a) - nack.sn = k
      BY <1>1, <2>4, <3>2, Numbers
    <3>4. k % Mod = k
      BY <2>4, ModNear
    <3> QED
      BY <3>3, <3>4, Zenon DEF k
  <2>6. CASE nack.sn + k >= Mod
    <3>1. nack.sn + k \in Mod .. 2 * Mod - 1
      BY <2>4, <2>6, Numbers
    <3>2. At(a) = nack.sn + k - Mod
      <4> DEFINE y == nack.sn + k
      <4>1. y \in Int /\ y \in Mod .. 2 * Mod - 1 /\ y % Mod = At(a)
        BY <2>3, <2>4, <3>1, Zenon
      <4> HIDE DEF y
      <4>2. At(a) = y - Mod
        BY <4>1, ModNear, Zenon
      <4> QED
        BY <1>1, <2>4, <4>2, Numbers DEF y
    <3>3. At(a) - nack.sn = k - Mod /\ k - Mod \in Int /\ k - Mod \in -Mod .. -1 /\ (k - Mod) + Mod = k
      BY <1>1, <2>4, <3>2, Numbers
    <3>4. (k - Mod) % Mod = k
      BY <3>3, ModNear, Zenon
    <3> QED
      BY <3>3, <3>4, Zenon DEF k
  <2> QED
    BY <2>4, <2>5, <2>6, Numbers
<1>5. NackCount(nack, At(a)) = IF nack.range > 1 /\ below < nack.range THEN below ELSE nack.range
  BY Zenon DEF NackCount
<1> HIDE DEF below, o
<1>6. NackCount(nack, At(a)) \in 0 .. nack.range
  BY <1>1, <1>3, <1>5
<1>7. ASSUME NEW q \in Nat, q < a, q \in o .. LastOf(nack) PROVE q - o < NackCount(nack, At(a))
  <2>1. a >= o /\ q - o < nack.range
    BY <1>1, <1>7, Numbers
  <2>2. below = a - o
    BY <1>4, <2>1, Zenon
  <2> QED
    BY <1>1, <1>5, <1>7, <2>1, <2>2, Numbers
<1> QED
  BY <1>6, <1>7, Zenon DEF o

\* Taking a NACK apart gives NACKs of single SNs which, for the SNs below ACK_SN,
\* say what it does.
LEMMA ExpandReads ==
  ASSUME NEW nack \in Nack, LastOf(nack) < N, NEW a \in 0 .. N
  PROVE  /\ ExpandNack(nack, At(a)) \in Seq(Nack)
         /\ \A q \in 0 .. a - 1, b \in Int :
              ReadIn(ExpandNack(nack, At(a)), At(q), b) <=> Names(nack, q, b)
<1> DEFINE o == FirstOf(nack)
           s == ExpandNack(nack, At(a))
           c == NackCount(nack, At(a))
<1>1. /\ o \in 0 .. Mod - 1 /\ nack.range \in Nat \ {0} /\ LastOf(nack) = o + nack.range - 1
      /\ nack.sn \in 0 .. Mod - 1 /\ nack.so_start \in Int /\ nack.so_end \in Int
      /\ nack.has_so \in BOOLEAN
      /\ ~nack.has_so => nack.so_start = 0 /\ nack.so_end = SoEnd
  BY NackFacts, Zenon
<1>2. c \in 0 .. nack.range
      /\ \A q \in Nat : q < a /\ q \in o .. LastOf(nack) => q - o < c
  BY CountBelow, Zenon
<1>3. ASSUME NEW q \in 0 .. a - 1 PROVE q \in 0 .. Mod - 1 /\ At(q) \in 0 .. Mod - 1 /\ Offset(At(q)) = q
  BY AtOffset, Numbers
<1>4. nack.sn = At(o)
  BY <1>1, OffsetAt, Zenon DEF FirstOf
<1> HIDE DEF c
<1>5. CASE nack.range = 1
  <2>1. s = <<nack>>
    BY <1>5, Zenon DEF ExpandNack
  <2>2. ASSUME NEW q \in 0 .. a - 1, NEW b \in Int
        PROVE  ReadIn(s, At(q), b) <=> Names(nack, q, b)
    <3>1. ReadIn(s, At(q), b) <=> Reads(nack, At(q), b)
      BY <2>1 DEF ReadIn
    <3>2. nack.sn = At(q) <=> q = o
      BY <1>1, <1>3, <1>4, AtOffset, Zenon
    <3>3. LastOf(nack) = o /\ q \in Int
      BY <1>1, <1>5
    <3>4. b \in (IF ~nack.has_so \/ nack.so_end = SoEnd THEN nack.so_start .. SduLen - 1
                 ELSE nack.so_start .. nack.so_end)
          <=> b >= nack.so_start /\ b <= (IF nack.so_end # SoEnd THEN nack.so_end ELSE SduLen - 1)
      BY <1>1, Numbers
    <3> HIDE DEF o
    <3> QED
      BY <1>1, <3>1, <3>2, <3>3, <3>4 DEF Reads, Names, o
  <2> QED
    BY <2>1, <2>2
<1>6. CASE nack.range # 1
  <2> DEFINE first(i) == IF i = 1 /\ nack.has_so THEN nack.so_start ELSE 0
             last(i) == IF i = nack.range /\ nack.has_so THEN nack.so_end ELSE SoEnd
             single(i) == [sn |-> (nack.sn + i - 1) % Mod, range |-> 1,
                           has_so |-> nack.has_so /\ (first(i) # 0 \/ last(i) # SoEnd),
                           so_start |-> first(i), so_end |-> last(i)]
  <2>1. s = [i \in 1 .. c |-> single(i)]
    BY <1>6, Zenon DEF ExpandNack, c
  <2>2. ASSUME NEW i \in 1 .. c
        PROVE  /\ first(i) = IF i = 1 THEN nack.so_start ELSE 0
               /\ last(i) = IF i = nack.range THEN nack.so_end ELSE SoEnd
               /\ first(i) \in Int /\ last(i) \in Int
               /\ ~nack.has_so => first(i) = 0 /\ last(i) = SoEnd
    BY <1>1, Numbers
  <2>3. ASSUME NEW i \in 1 .. c PROVE (nack.sn + i - 1) % Mod = At(o + i - 1) /\ o + i - 1 \in 0 .. Mod - 1
    <3> DEFINE k == i - 1
    <3>1. k \in Nat /\ Offset(nack.sn) + k < Mod /\ nack.sn + i - 1 = nack.sn + k
          /\ o + i - 1 = Offset(nack.sn) + k /\ o + k \in 0 .. Mod - 1
      BY <1>1, <1>2, Numbers DEF FirstOf
    <3> HIDE DEF k
    <3> QED
      BY <1>1, <3>1, AtPlus, Zenon DEF FirstOf
  <2>4. ASSUME NEW i \in 1 .. c PROVE single(i) \in Nack
    <3>1. At(o + i - 1) \in 0 .. Mod - 1
      BY <2>3, AtOffset, Zenon
    <3> HIDE DEF first, last, o
    <3> QED
      BY <2>2, <2>3, <3>1 DEF Nack
  <2>5. s \in Seq(Nack) /\ DOMAIN s = 1 .. c /\ \A i \in 1 .. c : s[i] = single(i)
    BY <1>2, <2>1, <2>4
  <2>6. ASSUME NEW q \in 0 .. a - 1, NEW b \in Int
        PROVE  ReadIn(s, At(q), b) <=> Names(nack, q, b)
    <3>1. ASSUME NEW i \in 1 .. c
          PROVE  Reads(single(i), At(q), b) <=> q = o + i - 1 /\ Names(nack, q, b)
      <4>1. single(i).sn = At(q) <=> q = o + i - 1
        BY <1>3, <2>3, AtOffset, Zenon
      <4>2. /\ single(i).so_end # SoEnd => single(i).has_so
            /\ single(i).so_start = first(i) /\ single(i).so_end = last(i)
        BY <2>2, Zenon
      <4>3. b \in (IF ~single(i).has_so \/ single(i).so_end = SoEnd
                   THEN single(i).so_start .. SduLen - 1
                   ELSE single(i).so_start .. single(i).so_end)
            <=> b >= first(i) /\ b <= (IF last(i) # SoEnd THEN last(i) ELSE SduLen - 1)
        <5> HIDE DEF single, first, last
        <5> QED
          BY <2>2, <4>2, Numbers
      <4>4. q = o + i - 1 =>
              /\ q \in o .. LastOf(nack) /\ (q = o <=> i = 1) /\ (q = LastOf(nack) <=> i = nack.range)
        BY <1>1, <1>2
      <4> HIDE DEF single, first, last, o
      <4> QED
        BY <2>2, <4>1, <4>3, <4>4, Zenon DEF Reads, Names, o
    <3>2. Names(nack, q, b) => \E i \in 1 .. c : q = o + i - 1
      <4>1. SUFFICES ASSUME Names(nack, q, b) PROVE q - o + 1 \in 1 .. c /\ q = o + (q - o + 1) - 1
        OBVIOUS
      <4>2. q \in o .. LastOf(nack) /\ q \in Nat /\ q < a
        BY <4>1, Numbers DEF Names
      <4> QED
        BY <1>1, <1>2, <4>2
    <3> HIDE DEF single, o
    <3> QED
      BY <2>5, <3>1, <3>2, Zenon DEF ReadIn
  <2> QED
    BY <2>5, <2>6, Zenon
<1> QED
  BY <1>5, <1>6, Zenon

\* A status PDU whose NACKs are about SNs below offset N: for the SNs below its
\* ACK_SN, handle_nack() is called for what the NACKs say.
LEMMA ExpandNacksReads ==
  ASSUME NEW pdu, NEW a \in 0 .. N, pdu.ack_sn = At(a), pdu.nacks \in Seq(Nack),
         \A i \in DOMAIN pdu.nacks : LastOf(pdu.nacks[i]) < N
  PROVE  \A q \in 0 .. a - 1, b \in Int :
           ReadIn(ExpandNacks(pdu), At(q), b) <=> NackedBy(pdu.nacks, q, b)
<1> DEFINE s == pdu.nacks
           n == Len(s)
           e == <<>>
           Step(x, i) == x \o ExpandNack(s[i], At(a))
           g == [x \in (1 .. n) \X Seq(Nack) |-> Step(x[2], x[1])]
           Def(f) == [i \in 0 .. n |-> IF i = 0 THEN e ELSE Step(f[i - 1], i)]
           L == ExpandLoop(pdu)
<1>1. n \in Nat /\ DOMAIN s = 1 .. n /\ e \in Seq(Nack) /\ DOMAIN e = {}
  OBVIOUS
<1>2. ASSUME NEW i \in 1 .. n
      PROVE  /\ ExpandNack(s[i], At(a)) \in Seq(Nack)
             /\ \A q \in 0 .. a - 1, b \in Int :
                  ReadIn(ExpandNack(s[i], At(a)), At(q), b) <=> Names(s[i], q, b)
  <2>1. s[i] \in Nack /\ LastOf(s[i]) < N
    BY <1>1
  <2> QED
    BY <2>1, ExpandReads, Zenon
<1>3. \A i \in 1 .. n, x \in Seq(Nack) : Step(x, i) \in Seq(Nack)
  BY <1>2
<1>4. L = CHOOSE f : f = Def(f)
  BY Zenon DEF ExpandLoop
<1> HIDE DEF Step, e
<1>5. g \in [(1 .. n) \X Seq(Nack) -> Seq(Nack)]
      /\ \A i \in 1 .. n, x \in Seq(Nack) : g[<<i, x>>] = Step(x, i)
  BY <1>3, Zenon
<1> HIDE DEF g
<1>6. PICK f \in [0 .. n -> Seq(Nack)] : Solves(f, n, e, g)
  <2> DEFINE S == Seq(Nack)
  <2>1. n \in Nat /\ e \in S /\ g \in [(1 .. n) \X S -> S]
    BY <1>1, <1>5, Zenon
  <2> HIDE DEF n, S
  <2>2. \E f \in [0 .. n -> S] : Solves(f, n, e, g)
    BY <2>1, RecursionExists, Zenon
  <2> QED
    BY <2>2, Zenon DEF S
<1>7. f = Def(f)
  <2>1. \A i \in 0 .. n : f[i] = Def(f)[i]
    <3>1. ASSUME NEW i \in 1 .. n PROVE f[i] = Step(f[i - 1], i)
      <4>1. f[i - 1] \in Seq(Nack)
        BY <1>1, <1>6
      <4> QED
        BY <1>5, <1>6, <4>1, Zenon DEF Solves
    <3> QED
      BY <1>6, <3>1 DEF Solves
  <2> QED
    BY <1>6, <2>1, Zenon
<1>8. L = Def(L)
  BY <1>4, <1>7, Zenon
<1> HIDE DEF L
<1>9. L[0] = e /\ \A i \in 1 .. n : L[i] = Step(L[i - 1], i)
  <2>1. \A i \in 0 .. n : Def(L)[i] = IF i = 0 THEN e ELSE Step(L[i - 1], i)
    OBVIOUS
  <2> HIDE DEF Def
  <2>2. \A i \in 0 .. n : L[i] = IF i = 0 THEN e ELSE Step(L[i - 1], i)
    BY <1>8, <2>1, Zenon
  <2> QED
    BY <1>1, <2>2
<1> DEFINE Good(i) == /\ L[i] \in Seq(Nack)
                      /\ \A q \in 0 .. a - 1, b \in Int :
                           ReadIn(L[i], At(q), b) <=> \E j \in 1 .. i : Names(s[j], q, b)
           T == {i \in 0 .. n : Good(i)}
<1>10. Good(0)
  <2>1. DOMAIN L[0] = {} /\ 1 .. 0 = {} /\ L[0] \in Seq(Nack)
    BY <1>1, <1>9
  <2> QED
    BY <2>1, Zenon DEF ReadIn
<1>11. ASSUME NEW i \in 1 .. n, Good(i - 1) PROVE Good(i)
  <2> DEFINE x == L[i - 1]
             y == ExpandNack(s[i], At(a))
  <2>1. x \in Seq(Nack) /\ y \in Seq(Nack) /\ L[i] = x \o y
    BY <1>2, <1>9, <1>11, Zenon DEF Step
  <2> HIDE DEF x, y
  <2>2. ASSUME NEW q \in 0 .. a - 1, NEW b \in Int
        PROVE  ReadIn(L[i], At(q), b) <=> \E j \in 1 .. i : Names(s[j], q, b)
    <3>1. ReadIn(x, At(q), b) <=> \E j \in 1 .. i - 1 : Names(s[j], q, b)
      BY <1>11, Zenon DEF x
    <3>2. ReadIn(y, At(q), b) <=> Names(s[i], q, b)
      BY <1>2, Zenon DEF y
    <3>3. ReadIn(x \o y, At(q), b) <=> ReadIn(x, At(q), b) \/ ReadIn(y, At(q), b)
      <4>1. /\ DOMAIN x = 1 .. Len(x) /\ DOMAIN y = 1 .. Len(y)
            /\ DOMAIN (x \o y) = 1 .. Len(x) + Len(y) /\ Len(x) \in Nat /\ Len(y) \in Nat
            /\ \A k \in 1 .. Len(x) : (x \o y)[k] = x[k]
            /\ \A k \in 1 .. Len(y) : (x \o y)[Len(x) + k] = y[k]
        BY <2>1
      <4>2. ReadIn(x \o y, At(q), b) => ReadIn(x, At(q), b) \/ ReadIn(y, At(q), b)
        <5>1. ASSUME NEW k \in 1 .. Len(x) + Len(y)
              PROVE  k \in 1 .. Len(x) \/ \E h \in 1 .. Len(y) : k = Len(x) + h
          <6>1. CASE k > Len(x)
            <7>1. k - Len(x) \in 1 .. Len(y) /\ k = Len(x) + (k - Len(x))
              BY <4>1, <6>1
            <7> QED
              BY <7>1, Zenon
          <6> QED
            BY <4>1, <6>1
        <5>2. ASSUME NEW k \in 1 .. Len(x) + Len(y), Reads((x \o y)[k], At(q), b)
              PROVE  ReadIn(x, At(q), b) \/ ReadIn(y, At(q), b)
          <6>1. CASE k \in 1 .. Len(x)
            BY <4>1, <5>2, <6>1, Zenon DEF ReadIn
          <6>2. CASE \E h \in 1 .. Len(y) : k = Len(x) + h
            BY <4>1, <5>2, <6>2, Zenon DEF ReadIn
          <6> QED
            BY <5>1, <6>1, <6>2, Zenon
        <5> QED
          BY <4>1, <5>2, Zenon DEF ReadIn
      <4>3. \A k \in 1 .. Len(x) : k \in 1 .. Len(x) + Len(y)
        BY <4>1
      <4>4. \A k \in 1 .. Len(y) : Len(x) + k \in 1 .. Len(x) + Len(y)
        BY <4>1
      <4>5. ReadIn(x, At(q), b) => ReadIn(x \o y, At(q), b)
        BY <4>1, <4>3, Zenon DEF ReadIn
      <4>6. ReadIn(y, At(q), b) => ReadIn(x \o y, At(q), b)
        BY <4>1, <4>4, Zenon DEF ReadIn
      <4> QED
        BY <4>2, <4>5, <4>6, Zenon
    <3>4. 1 .. i = (1 .. i - 1) \cup {i}
      BY <1>1
    <3> QED
      BY <2>1, <3>1, <3>2, <3>3, <3>4, Zenon
  <2>3. L[i] \in Seq(Nack)
    BY <2>1
  <2> QED
    BY <2>2, <2>3, Zenon
<1> HIDE DEF Good
<1>12. 0 .. n \subseteq T
  <2>1. 0 \in T
    BY <1>1, <1>10
  <2>2. ASSUME NEW i \in 1 .. n, i - 1 \in T PROVE i \in T
    BY <1>11, <2>2
  <2> HIDE DEF T
  <2> QED
    BY <1>1, <2>1, <2>2, Induction, Zenon
<1>13. Good(n)
  BY <1>1, <1>12
<1> QED
  BY <1>1, <1>13, Zenon DEF Good, L, ExpandNacks, NackedBy

\* What the peer takes as missing of the SNs below ACK_SN is what the NACKs say.
LEMMA NackedBytes ==
  ASSUME NEW pdu, NEW a \in 0 .. N, pdu.ack_sn = At(a), pdu.nacks \in Seq(Nack),
         \A i \in DOMAIN pdu.nacks : LastOf(pdu.nacks[i]) < N, NEW q \in 0 .. a - 1
  PROVE  /\ Nacked(pdu, At(q)) \subseteq Int
         /\ \A b \in Int : b \in Nacked(pdu, At(q)) <=> NackedBy(pdu.nacks, q, b)
<1> DEFINE singles == ExpandNacks(pdu)
<1>1. \A b \in Int : ReadIn(singles, At(q), b) <=> NackedBy(pdu.nacks, q, b)
  BY ExpandNacksReads, Zenon
<1> HIDE DEF singles
<1>2. \A b : b \in Nacked(pdu, At(q)) <=> ReadIn(singles, At(q), b)
  BY Zenon DEF Nacked, ReadIn, Reads, singles
<1>3. \A b : ReadIn(singles, At(q), b) => b \in Int
  BY DEF ReadIn, Reads
<1> QED
  BY <1>1, <1>2, <1>3, Zenon

\* IndInv, of the window alone.
LEMMA WindowFacts ==
  ASSUME IndInv
  PROVE  /\ window \in [Sns -> Seq(Piece)] /\ \A sn \in Sns : Sorted(window[sn])
         /\ \A sn \in Sns : Missing(sn) = Gaps(window[sn], SduLen)
<1>1. ASSUME NEW sn \in Sns PROVE Missing(sn) = Gaps(window[sn], SduLen)
  <2>1. \A b \in 0 .. SduLen - 1 : Holds(window[sn], b) <=> b \in got[sn]
    BY Numbers DEF IndInv
  <2> QED
    BY <2>1, Zenon DEF Missing, Gaps
<1> QED
  BY <1>1, Zenon DEF IndInv

\* An untrimmed report is exact.
LEMMA ExactReport == IndInv => ReportExact
<1> SUFFICES ASSUME IndInv, NEW sn \in Sns PROVE Nacked(Report, sn) = Missing(sn)
  BY Zenon DEF ReportExact
<1>1. PICK q \in 0 .. N - 1 : sn = At(q)
  BY ReportsAssumption, Zenon DEF At
<1> DEFINE r == Report
<1>2. /\ r \in Pdu /\ r.ack_sn = At(N) /\ UpTo(r.nacks, N)
      /\ \A x, b \in Int : NackedBy(r.nacks, x, b) <=> x \in 0 .. N - 1 /\ b \in MissingAt(window, x)
  BY WindowFacts, ReportSays, Zenon DEF Report
<1>3. r.nacks \in Seq(Nack) /\ \A i \in DOMAIN r.nacks : LastOf(r.nacks[i]) < N
  BY <1>2, Zenon DEF Pdu, UpTo
<1>4. N \in 0 .. N
  BY Numbers
<1> HIDE DEF r
<1>5. /\ Nacked(r, At(q)) \subseteq Int
      /\ \A b \in Int : b \in Nacked(r, At(q)) <=> NackedBy(r.nacks, q, b)
  BY <1>2, <1>3, <1>4, NackedBytes, Zenon
<1>6. Missing(sn) = MissingAt(window, q) /\ Missing(sn) \subseteq Int
  BY <1>1, WindowFacts DEF MissingAt, Missing
<1>7. \A b \in Int : b \in Nacked(r, sn) <=> b \in Missing(sn)
  BY <1>1, <1>2, <1>5, <1>6
<1> QED
  BY <1>1, <1>5, <1>6, <1>7, Zenon DEF r

\* A trimmed report says of the SNs it acknowledges what the whole report says.
LEMMA SoundTrim == IndInv => TrimSound
<1> SUFFICES ASSUME IndInv, NEW space \in Spaces, NEW sn \in Acked(trim(Report, space))
             PROVE  Nacked(trim(Report, space), sn) = Missing(sn)
  BY Zenon DEF TrimSound
<1> DEFINE r == Report
           s == r.nacks
           p == trim(r, space)
<1>1. /\ r \in Pdu /\ r.ack_sn = At(N) /\ UpTo(s, N)
      /\ \A x, b \in Int : NackedBy(s, x, b) <=> x \in 0 .. N - 1 /\ b \in MissingAt(window, x)
  BY WindowFacts, ReportSays, Zenon DEF Report
<1> HIDE DEF r
<1>2. /\ s \in Seq(Nack) /\ DOMAIN s = 1 .. Len(s) /\ Len(s) \in Nat
      /\ \A i \in 1 .. Len(s) : s[i] \in Nack /\ LastOf(s[i]) < N
      /\ \A i, j \in 1 .. Len(s) : i < j => LastOf(s[i]) <= FirstOf(s[j])
  BY <1>1 DEF Pdu, UpTo
<1>3. \A x \in Nack : /\ x.sn \in 0 .. Mod - 1 /\ FirstOf(x) \in 0 .. Mod - 1
                      /\ LastOf(x) \in Int /\ FirstOf(x) <= LastOf(x) /\ At(FirstOf(x)) = x.sn
  BY NackFacts, OffsetAt, SMTT(30) DEF FirstOf
<1>4. \E a \in 0 .. N :
        /\ p.ack_sn = At(a) /\ p.nacks \in Seq(Nack)
        /\ \A i \in DOMAIN p.nacks : LastOf(p.nacks[i]) < N
        /\ \A x \in 0 .. a - 1, b \in Int : NackedBy(p.nacks, x, b) <=> NackedBy(s, x, b)
  <2>1. CASE space >= r.packed_size
    <3>1. p = r
      BY <2>1, Zenon DEF trim
    <3>2. N \in 0 .. N
      BY Numbers
    <3> QED
      BY <1>1, <1>2, <3>1, <3>2, Zenon
  <2>2. CASE ~(space >= r.packed_size)
    <3> DEFINE K == {j \in 0 .. Len(s) :
                       \/ j = 0
                       \/ /\ SizeAfter(r, j) <= space
                          /\ s[j].sn # AckAfter(r, j)}
               k == Largest(K)
    <3>1. p.ack_sn = AckAfter(r, k) /\ p.nacks = SubSeq(s, 1, k)
      BY <2>2, Zenon DEF trim
    <3>2. K \subseteq 0 .. Len(s) /\ 0 \in K
      BY <1>2
    <3> HIDE DEF K
    <3>3. \E n \in K : \A j \in K : j <= n
      <4> DEFINE D == {Len(s) - j : j \in K}
      <4>1. D \in SUBSET Nat /\ D # {}
        BY <1>2, <3>2
      <4> HIDE DEF D
      <4>2. PICK d \in D : \A e \in D : d <= e
        BY <4>1, LeastExists, Zenon
      <4>3. PICK n \in K : d = Len(s) - n
        BY <4>2, Zenon DEF D
      <4>4. \A j \in K : Len(s) - n <= Len(s) - j
        BY <4>2, <4>3, Zenon DEF D
      <4> QED
        BY <1>2, <3>2, <4>4
    <3>4. k \in 0 .. Len(s)
      BY <3>2, <3>3, Zenon DEF Largest
    <3> HIDE DEF k, p
    <3>5. /\ p.nacks \in Seq(Nack) /\ DOMAIN p.nacks = 1 .. k
          /\ \A i \in 1 .. k : p.nacks[i] = s[i] /\ i \in 1 .. Len(s)
      BY <1>2, <3>1, <3>4
    <3>6. \A i \in DOMAIN p.nacks : LastOf(p.nacks[i]) < N
      BY <1>2, <3>5, Zenon
    <3>7. CASE k = Len(s)
      <4>1. p.ack_sn = At(N) /\ N \in 0 .. N
        BY <1>1, <3>1, <3>7, Numbers DEF AckAfter
      <4>2. \A x, b : NackedBy(p.nacks, x, b) <=> NackedBy(s, x, b)
        BY <1>2, <3>5, <3>7, Zenon DEF NackedBy
      <4> QED
        BY <3>5, <3>6, <4>1, <4>2, Zenon
    <3>8. CASE k # Len(s)
      <4> DEFINE a == FirstOf(s[k + 1])
      <4>1. k + 1 \in 1 .. Len(s) /\ p.ack_sn = s[k + 1].sn
        BY <1>2, <3>1, <3>4, <3>8 DEF AckAfter
      <4>f. /\ s[k + 1] \in Nack /\ LastOf(s[k + 1]) < N /\ LastOf(s[k + 1]) \in Int
            /\ a \in 0 .. Mod - 1 /\ a <= LastOf(s[k + 1]) /\ At(a) = s[k + 1].sn
        BY <1>2, <1>3, <4>1, Zenon
      <4>2. a \in 0 .. N /\ p.ack_sn = At(a)
        BY <4>1, <4>f, Numbers
      <4>3. ASSUME NEW i \in 1 .. Len(s), i > k PROVE FirstOf(s[i]) >= a /\ FirstOf(s[i]) \in Int
        <5>1. FirstOf(s[i]) \in 0 .. Mod - 1
          BY <1>2, <1>3, Zenon
        <5>2. i # k + 1 => LastOf(s[k + 1]) <= FirstOf(s[i])
          BY <1>2, <3>4, <4>1, <4>3
        <5> HIDE DEF a
        <5> QED
          BY <4>f, <5>1, <5>2 DEF a
      <4> HIDE DEF a
      <4>4. ASSUME NEW x \in 0 .. a - 1, NEW b \in Int
            PROVE  NackedBy(p.nacks, x, b) <=> NackedBy(s, x, b)
        <5>1. \A i \in 1 .. Len(s) : i > k => ~Names(s[i], x, b)
          BY <4>2, <4>3 DEF Names
        <5>2. \A i \in 1 .. Len(s) : i > k \/ i \in 1 .. k
          BY <1>2, <3>4
        <5> QED
          BY <1>2, <3>5, <5>1, <5>2, Zenon DEF NackedBy
      <4> QED
        BY <3>5, <3>6, <4>2, <4>4, Zenon
    <3> QED
      BY <3>7, <3>8, Zenon
  <2> QED
    BY <2>1, <2>2, Zenon
<1> HIDE DEF p
<1>5. PICK a \in 0 .. N :
        /\ p.ack_sn = At(a) /\ p.nacks \in Seq(Nack)
        /\ \A i \in DOMAIN p.nacks : LastOf(p.nacks[i]) < N
        /\ \A x \in 0 .. a - 1, b \in Int : NackedBy(p.nacks, x, b) <=> NackedBy(s, x, b)
  BY <1>4, Zenon
<1>6. PICK q \in 0 .. a - 1 : sn = At(q)
  <2>1. a \in 0 .. Mod - 1
    BY Numbers
  <2>2. Offset(p.ack_sn) = a
    BY <1>5, <2>1, AtOffset, Zenon
  <2>3. sn \in Acked(p)
    BY Zenon DEF p, r
  <2> QED
    BY <2>2, <2>3, Zenon DEF Acked, Offset, At
<1>7. /\ Nacked(p, At(q)) \subseteq Int
      /\ \A b \in Int : b \in Nacked(p, At(q)) <=> NackedBy(p.nacks, q, b)
  BY <1>5, NackedBytes, Zenon
<1>8. q \in 0 .. N - 1 /\ q \in Int /\ sn \in Sns
  BY <1>6, ReportsAssumption, Numbers, SMTT(30) DEF At
<1>9. Missing(sn) = MissingAt(window, q) /\ Missing(sn) \subseteq Int
  BY <1>6, <1>8, WindowFacts, SMTT(30) DEF MissingAt, Missing
<1>10. \A b \in Int : b \in Nacked(p, sn) <=> b \in Missing(sn)
  BY <1>1, <1>5, <1>6, <1>7, <1>8, <1>9, Zenon
<1> QED
  BY <1>6, <1>7, <1>9, <1>10, Zenon DEF p, r

\* The bytes the peer retransmits for a status report are those that are missing,
\* whatever the window, the lengths and the limit of NACK ranges are.
THEOREM ReportExactHolds == Spec => []ReportExact
  BY IndInvHolds, ExactReport, PTL

\* No status report that trim() shortens acknowledges a byte that is missing.
THEOREM TrimSoundHolds == Spec => []TrimSound
  BY IndInvHolds, SoundTrim, PTL
=============================================================================
