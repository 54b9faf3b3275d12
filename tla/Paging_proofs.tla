---------------------------- MODULE Paging_proofs ----------------------------
(***************************************************************************)
(* Whatever is mapped, unmapped, protected, created, cloned, destroyed and  *)
(* loaded, and wherever frames run out: the tables below every space are a  *)
(* tree, no frame is lost beyond those the code is known to lose, and what  *)
(* the processor has cached is what the tables say.  For tables of all      *)
(* sizes, all machines and any number of frames.                            *)
(***************************************************************************)
EXTENDS Paging, FiniteSetTheorems, WellFoundedInduction, TLAPS

-----------------------------------------------------------------------------
(* Pages and the spans of entries *)

LEMMA Division ==
    ASSUME NEW v \in Nat, NEW a \in Nat \ {0}
    PROVE  /\ v \div a \in Nat /\ v % a \in 0 .. a - 1
           /\ v = a * (v \div a) + (v % a)
OBVIOUS

LEMMA DivisionUnique ==
    ASSUME NEW a \in Nat \ {0}, NEW q \in Nat, NEW r \in 0 .. a - 1
    PROVE  (a * q + r) \div a = q /\ (a * q + r) % a = r
<1> DEFINE v == a * q + r
           p == v \div a
           t == v % a
<1>1. v \in Nat
  OBVIOUS
<1>2. p \in Nat /\ t \in 0 .. a - 1 /\ v = a * p + t
  BY <1>1, Division
<1>3. p = q
  <2>1. ~(p < q)
    <3> SUFFICES ASSUME p < q
                 PROVE  FALSE
      OBVIOUS
    <3>1. p + 1 <= q
      BY <1>2
    <3> HIDE DEF p, t
    <3>2. a * (p + 1) <= a * q
      BY <1>2, <3>1
    <3>3. a * (p + 1) = a * p + a
      BY <1>2
    <3> QED
      BY <1>2, <3>2, <3>3
  <2>2. ~(q < p)
    <3> SUFFICES ASSUME q < p
                 PROVE  FALSE
      OBVIOUS
    <3>1. q + 1 <= p
      BY <1>2
    <3> HIDE DEF p, t
    <3>2. a * (q + 1) <= a * p
      BY <1>2, <3>1
    <3>3. a * (q + 1) = a * q + a
      BY <1>2
    <3> QED
      BY <1>2, <3>2, <3>3
  <2> QED
    BY <1>2, <2>1, <2>2
<1>4. t = r
  <2> HIDE DEF p, t
  <2> QED
    BY <1>2, <1>3
<1> QED
  BY <1>3, <1>4

LEMMA DivisionTwice ==
    ASSUME NEW v \in Nat, NEW a \in Nat \ {0}, NEW b \in Nat \ {0}
    PROVE  (v \div a) \div b = v \div (a * b)
<1> DEFINE q == v \div a
           r == v % a
           p == q \div b
           s == q % b
<1>1. q \in Nat /\ r \in 0 .. a - 1 /\ v = a * q + r
  BY Division
<1>2. p \in Nat /\ s \in 0 .. b - 1 /\ q = b * p + s
  BY <1>1, Division
<1> HIDE DEF q, r, p, s
<1>3. v = (a * b) * p + (a * s + r)
  <2>1. a * q = a * (b * p) + a * s
    BY <1>1, <1>2
  <2>2. a * (b * p) = (a * b) * p
    BY <1>1, <1>2
  <2> QED
    BY <1>1, <1>2, <2>1, <2>2
<1>4. a * s + r \in 0 .. a * b - 1
  <2>1. a * s \in Nat /\ a * b \in Nat
    BY <1>2
  <2>2. s + 1 <= b
    BY <1>2
  <2>3. a * (s + 1) <= a * b
    BY <1>2, <2>2
  <2>4. a * (s + 1) = a * s + a
    BY <1>2
  <2> QED
    BY <1>1, <2>1, <2>3, <2>4
<1>5. a * b \in Nat \ {0}
  OBVIOUS
<1>6. v \div (a * b) = p
  BY <1>2, <1>3, <1>4, <1>5, DivisionUnique
<1> QED
  BY <1>6 DEF p, q

LEMMA Spans ==
    /\ \A l \in 1 .. 5 : Span[l] \in Nat \ {0}
    /\ Span[1] = 1
    /\ \A l \in 1 .. 4 : Span[l + 1] = Span[l] * ENTRIES
<1>1. ENTRIES \in Nat \ {0}
  BY GeometryAssumption
<1> DEFINE a == ENTRIES * ENTRIES
           b == a * ENTRIES
           c == b * ENTRIES
<1>2. a \in Nat \ {0}
  BY <1>1
<1>3. b \in Nat \ {0}
  <2> HIDE DEF a
  <2> QED
    BY <1>1, <1>2
<1>4. c \in Nat \ {0}
  <2> HIDE DEF b
  <2> QED
    BY <1>1, <1>3
<1>5. Span = <<1, ENTRIES, a, b, c>>
  BY DEF Span
<1> HIDE DEF a, b, c
<1>6. \A l \in 1 .. 5 : Span[l] \in Nat \ {0}
  BY <1>1, <1>2, <1>3, <1>4, <1>5
<1>7. \A l \in 1 .. 4 : Span[l + 1] = Span[l] * ENTRIES
  BY <1>1, <1>5 DEF a, b, c
<1> QED
  BY <1>5, <1>6, <1>7

\* The pages under the same entry of level l.
Same(v, w, l) == v \div Span[l] = w \div Span[l]

LEMMA IndexStep ==
    ASSUME NEW v \in Nat, NEW l \in Level
    PROVE  /\ Index(v, l) \in 0 .. ENTRIES - 1
           /\ v \div Span[l] \in Nat /\ v \div Span[l + 1] \in Nat
           /\ v \div Span[l] = ENTRIES * (v \div Span[l + 1]) + Index(v, l)
<1>1. l \in 1 .. 5 /\ l + 1 \in 1 .. 5 /\ l \in 1 .. 4
  BY DEF Level
<1>2. Span[l] \in Nat \ {0} /\ Span[l + 1] \in Nat \ {0} /\ Span[l + 1] = Span[l] * ENTRIES
  BY <1>1, Spans
<1>3. ENTRIES \in Nat \ {0}
  BY GeometryAssumption
<1>4. v \div Span[l] \in Nat /\ v \div Span[l + 1] \in Nat
  BY <1>2, Division
<1>5. (v \div Span[l]) \div ENTRIES = v \div Span[l + 1]
  BY <1>2, <1>3, DivisionTwice
<1> DEFINE q == v \div Span[l]
<1>6. q \in Nat
  BY <1>4
<1> HIDE DEF q
<1>7. q % ENTRIES \in 0 .. ENTRIES - 1 /\ q = ENTRIES * (q \div ENTRIES) + (q % ENTRIES)
  BY <1>3, <1>6, Division
<1> QED
  BY <1>4, <1>5, <1>7 DEF q, Index

LEMMA SameStep ==
    ASSUME NEW v \in Nat, NEW w \in Nat, NEW l \in Level
    PROVE  Same(v, w, l) <=> Same(v, w, l + 1) /\ Index(v, l) = Index(w, l)
<1> DEFINE p == v \div Span[l + 1]
           q == w \div Span[l + 1]
           i == Index(v, l)
           j == Index(w, l)
<1>1. /\ i \in 0 .. ENTRIES - 1 /\ p \in Nat /\ v \div Span[l] = ENTRIES * p + i
      /\ j \in 0 .. ENTRIES - 1 /\ q \in Nat /\ w \div Span[l] = ENTRIES * q + j
  BY IndexStep
<1>2. ENTRIES \in Nat \ {0}
  BY GeometryAssumption
<1>3. Same(v, w, l + 1) <=> p = q
  BY DEF Same
<1> HIDE DEF p, q, i, j
<1>4. /\ (ENTRIES * p + i) \div ENTRIES = p /\ (ENTRIES * p + i) % ENTRIES = i
      /\ (ENTRIES * q + j) \div ENTRIES = q /\ (ENTRIES * q + j) % ENTRIES = j
  BY <1>1, <1>2, DivisionUnique
<1>5. Same(v, w, l) <=> ENTRIES * p + i = ENTRIES * q + j
  BY <1>1 DEF Same
<1>6. ENTRIES * p + i = ENTRIES * q + j <=> p = q /\ i = j
  BY <1>4
<1> QED
  BY <1>3, <1>5, <1>6 DEF i, j

LEMMA Pages ==
    ASSUME NEW v \in Page
    PROVE  v \in Nat /\ v < Span[5] /\ Span[5] \in Nat /\ v \div Span[5] = 0
<1>1. Span[5] \in Nat \ {0}
  BY Spans
<1>2. v \in Nat /\ v < Span[5]
  BY <1>1 DEF Page
<1>3. v = Span[5] * 0 + v /\ v \in 0 .. Span[5] - 1
  BY <1>1, <1>2
<1>4. v \div Span[5] = 0
  BY <1>1, <1>3, DivisionUnique
<1> QED
  BY <1>1, <1>2, <1>4

\* Pages of the same entry are pages of the same entries above.
LEMMA SameFacts ==
    ASSUME NEW v \in Page, NEW w \in Page
    PROVE  /\ Same(v, w, 5) /\ (Same(v, w, 1) <=> v = w)
           /\ \A l \in Level : Same(v, w, l) <=> Same(v, w, l + 1) /\ Index(v, l) = Index(w, l)
           /\ \A l \in Level, n \in 1 .. 5 : l <= n /\ Same(v, w, l) => Same(v, w, n)
<1>1. v \in Nat /\ w \in Nat
  BY Pages
<1>2. Same(v, w, 5)
  BY Pages DEF Same
<1>3. Same(v, w, 1) <=> v = w
  <2>1. v \div 1 = v /\ w \div 1 = w
    BY <1>1
  <2> QED
    BY <2>1, Spans DEF Same
<1>4. \A l \in Level : Same(v, w, l) <=> Same(v, w, l + 1) /\ Index(v, l) = Index(w, l)
  BY <1>1, SameStep
<1>5. \A l \in Level, n \in 1 .. 5 : l <= n /\ Same(v, w, l) => Same(v, w, n)
  <2>1. /\ Same(v, w, 1) => Same(v, w, 2)
        /\ Same(v, w, 2) => Same(v, w, 3)
        /\ Same(v, w, 3) => Same(v, w, 4)
        /\ Same(v, w, 4) => Same(v, w, 5)
    BY <1>4 DEF Level
  <2> QED
    BY <2>1 DEF Level
<1> QED
  BY <1>2, <1>3, <1>4, <1>5

\* The first page of an entry stands for all of them.
LEMMA Bases ==
    ASSUME NEW v \in Page, NEW l \in 1 .. 5
    PROVE  /\ Base(v, l) \in Page /\ Base(v, l) <= v /\ v < Base(v, l) + Span[l]
           /\ v % Span[l] = v - Base(v, l) /\ v % Span[l] \in Nat
           /\ Base(v, l) % Span[l] = 0 /\ Same(Base(v, l), v, l)
<1>1. Span[l] \in Nat \ {0} /\ Span[5] \in Nat \ {0}
  BY Spans
<1>2. v \in Nat /\ v < Span[5]
  BY Pages
<1> DEFINE s == Span[l]
           q == v \div s
           r == v % s
<1>3. q \in Nat /\ r \in 0 .. s - 1 /\ v = s * q + r
  BY <1>1, <1>2, Division
<1>4. Base(v, l) = q * s
  BY DEF Base
<1>5. s \in Nat \ {0}
  BY <1>1
<1>6. v % Span[l] = r
  OBVIOUS
<1>7. Same(Base(v, l), v, l) <=> Base(v, l) \div s = q
  BY DEF Same
<1> HIDE DEF s, q, r
<1>8. q * s = s * q /\ s * q \in Nat
  BY <1>3, <1>5
<1>9. Base(v, l) \in Nat /\ Base(v, l) <= v /\ v < Base(v, l) + s /\ r = v - Base(v, l)
  BY <1>3, <1>4, <1>5, <1>8
<1>10. (s * q + 0) \div s = q /\ (s * q + 0) % s = 0
  <2>1. 0 \in 0 .. s - 1
    BY <1>5
  <2> QED
    BY <1>3, <1>5, <2>1, DivisionUnique
<1>11. Base(v, l) \div s = q /\ Base(v, l) % s = 0
  BY <1>4, <1>8, <1>10
<1>12. Base(v, l) \in Page
  BY <1>1, <1>2, <1>9 DEF Page
<1> QED
  BY <1>3, <1>6, <1>7, <1>9, <1>11, <1>12 DEF s

\* The pages of an entry, from the first of them.
LEMMA SpanOf ==
    ASSUME NEW v \in Page, NEW l \in 1 .. 5, v % Span[l] = 0, NEW w \in Nat
    PROVE  w \in v .. v + Span[l] - 1 <=> w \in Page /\ Same(w, v, l)
<1>1. Span[l] \in Nat \ {0} /\ Span[5] \in Nat \ {0} /\ Span[l] <= Span[5]
  <2>1. Span[1] <= Span[2] /\ Span[2] <= Span[3] /\ Span[3] <= Span[4] /\ Span[4] <= Span[5]
    <3>1. \A a, b \in Nat \ {0} : a <= a * b
      OBVIOUS
    <3>2. ENTRIES \in Nat \ {0}
      BY GeometryAssumption
    <3>3. ASSUME NEW k \in 1 .. 4
          PROVE  Span[k] <= Span[k + 1]
      BY <3>1, <3>2, Spans
    <3>4. 2 = 1 + 1 /\ 3 = 2 + 1 /\ 4 = 3 + 1 /\ 5 = 4 + 1
      OBVIOUS
    <3> QED
      BY <3>3, <3>4
  <2>2. Span[1] \in Nat /\ Span[2] \in Nat /\ Span[3] \in Nat /\ Span[4] \in Nat /\ Span[5] \in Nat
    BY Spans
  <2>3. Span[l] \in Nat \ {0} /\ Span[5] \in Nat \ {0}
    BY Spans
  <2>4. l = 1 \/ l = 2 \/ l = 3 \/ l = 4 \/ l = 5
    OBVIOUS
  <2> QED
    BY <2>1, <2>2, <2>3, <2>4
<1>2. v \in Nat /\ v < Span[5]
  BY Pages
<1> DEFINE s == Span[l]
           q == v \div s
           p == w \div s
           r == w % s
           n == Span[5]
<1>3. q \in Nat /\ p \in Nat /\ r \in 0 .. s - 1 /\ v = s * q /\ w = s * p + r
  <2> DEFINE z == v % s
  <2>1. /\ q \in Nat /\ z = 0 /\ v = s * q + z
        /\ p \in Nat /\ r \in 0 .. s - 1 /\ w = s * p + r
    BY <1>1, <1>2, Division
  <2>2. s \in Nat
    BY <1>1
  <2> HIDE DEF s, q, p, r, z
  <2>3. s * q + z = s * q
    BY <2>1, <2>2
  <2> QED
    BY <2>1, <2>3
<1>4. Same(w, v, l) <=> p = q
  BY DEF Same
<1>5. s \in Nat \ {0} /\ n \in Nat \ {0} /\ s <= n /\ v < n
  BY <1>1, <1>2
<1>6. Page = 0 .. n - 1
  BY DEF Page
<1> HIDE DEF p, q, r
<1>7. \E m \in Nat : n = s * m
  <2>1. \A k \in 1 .. 4 : Span[k + 1] = Span[k] * ENTRIES /\ Span[k] \in Nat /\ ENTRIES \in Nat
    BY Spans, GeometryAssumption
  <2> DEFINE a == ENTRIES
  <2>2. Span[5] = Span[5] * 1 /\ Span[5] \in Nat
    BY Spans
  <2>3. Span[5] = Span[4] * a /\ Span[4] \in Nat /\ a \in Nat
    BY <2>1
  <2>4. Span[4] = Span[3] * a /\ Span[3] \in Nat
    BY <2>1
  <2>5. Span[3] = Span[2] * a /\ Span[2] \in Nat
    BY <2>1
  <2>6. Span[2] = Span[1] * a /\ Span[1] \in Nat
    BY <2>1
  <2> HIDE DEF a
  <2>7. a * a \in Nat /\ a * (a * a) \in Nat /\ a * (a * (a * a)) \in Nat
    BY <2>3
  <2>8. Span[5] = Span[3] * (a * a)
    BY <2>3, <2>4
  <2>9. Span[5] = Span[2] * (a * (a * a))
    BY <2>5, <2>8, <2>3, <2>7
  <2>10. Span[5] = Span[1] * (a * (a * (a * a)))
    BY <2>6, <2>9, <2>3, <2>7
  <2>11. l = 1 \/ l = 2 \/ l = 3 \/ l = 4 \/ l = 5
    OBVIOUS
  <2>12. \E m \in Nat : Span[5] = Span[l] * m
    <3>1. CASE l = 5
      BY <3>1, <2>2
    <3>2. CASE l = 4
      BY <3>2, <2>3
    <3>3. CASE l = 3
      BY <3>3, <2>7, <2>8
    <3>4. CASE l = 2
      BY <3>4, <2>7, <2>9
    <3>5. CASE l = 1
      BY <3>5, <2>7, <2>10
    <3> QED
      BY <2>11, <3>1, <3>2, <3>3, <3>4, <3>5
  <2> QED
    BY <2>12
<1>8. PICK m \in Nat : n = s * m
  BY <1>7
<1>9. v .. v + Span[l] - 1 = v .. v + s - 1
  OBVIOUS
<1> HIDE DEF s, n
<1>10. v + s <= n
  <2>1. q < m
    <3> SUFFICES ASSUME m <= q
                 PROVE  FALSE
      BY <1>3
    <3>1. s * m <= s * q
      BY <1>3, <1>5
    <3> QED
      BY <1>3, <1>5, <1>8, <3>1
  <2>2. s * (q + 1) <= s * m
    BY <2>1, <1>3, <1>5
  <2>3. s * (q + 1) = s * q + s
    BY <1>3, <1>5
  <2> QED
    BY <1>3, <1>5, <1>8, <2>2, <2>3
<1>11. ASSUME p = q
       PROVE  w \in v .. v + s - 1 /\ w \in 0 .. n - 1
  <2>1. w = s * q + r
    BY <1>3, <1>11
  <2>2. w = v + r
    BY <1>3, <2>1
  <2> QED
    BY <1>2, <1>3, <1>5, <1>10, <2>2
<1>12. ASSUME w \in v .. v + s - 1
       PROVE  p = q
  <2>1. w - v \in 0 .. s - 1 /\ w = v + (w - v)
    BY <1>2, <1>5, <1>12
  <2>2. (s * q + (w - v)) \div s = q
    BY <1>3, <1>5, <2>1, DivisionUnique
  <2>3. w \div s = q
    BY <1>3, <2>1, <2>2
  <2> QED
    BY <2>3 DEF p
<1> QED
  BY <1>4, <1>6, <1>9, <1>11, <1>12

LEMMA BaseSame ==
    ASSUME NEW v \in Page, NEW w \in Page, NEW l \in 1 .. 5
    PROVE  Same(v, w, l) <=> Base(v, l) = Base(w, l)
<1>1. Same(v, w, l) => Base(v, l) = Base(w, l)
  BY DEF Same, Base
<1>2. Same(Base(v, l), v, l) /\ Same(Base(w, l), w, l)
  BY Bases
<1> QED
  BY <1>1, <1>2 DEF Same

LEMMA BaseStep ==
    ASSUME NEW v \in Page, NEW l \in Level
    PROVE  Base(v, l) = Base(v, l + 1) + Index(v, l) * Span[l]
<1> DEFINE s == Span[l]
           q == v \div Span[l + 1]
           i == Index(v, l)
<1>1. s \in Nat /\ Span[l + 1] = s * ENTRIES /\ ENTRIES \in Nat
  BY Spans, GeometryAssumption DEF Level
<1>2. q \in Nat /\ i \in Nat /\ v \div s = ENTRIES * q + i
  BY Pages, IndexStep
<1>3. Base(v, l) = (v \div s) * s /\ Base(v, l + 1) = q * Span[l + 1]
  BY DEF Base
<1>4. Base(v, l + 1) = q * (s * ENTRIES)
  BY <1>1, <1>3
<1>5. Base(v, l) = (ENTRIES * q + i) * s
  BY <1>2, <1>3
<1> HIDE DEF s, q, i
<1>6. (ENTRIES * q + i) * s = (ENTRIES * q) * s + i * s
  BY <1>1, <1>2
<1>7. (ENTRIES * q) * s = q * (s * ENTRIES)
  BY <1>1, <1>2
<1>8. Base(v, l) = Base(v, l + 1) + i * s
  BY <1>4, <1>5, <1>6, <1>7
<1> QED
  BY <1>8 DEF i, s

\* The upper half is under the upper entries of a PML4.
LEMMA UpperEntries ==
    ASSUME NEW v \in Page
    PROVE  v \in Upper <=> Index(v, 4) >= ENTRIES \div 2
<1> DEFINE s == Span[4]
           h == ENTRIES \div 2
           q == v \div s
           r == v % s
<1>1. ENTRIES \in Nat \ {0} /\ ENTRIES % 2 = 0
  BY GeometryAssumption
<1>2. h \in Nat /\ ENTRIES = 2 * h
  BY <1>1
<1>3. s \in Nat \ {0} /\ Span[5] = s * ENTRIES /\ Span[5] \in Nat \ {0}
  <2>1. Span[4 + 1] = Span[4] * ENTRIES
    BY Spans
  <2> QED
    BY <2>1, Spans
<1>4. v \in Nat /\ v < Span[5] /\ v \div Span[5] = 0
  BY Pages
<1>5. q = Index(v, 4)
  <2>1. v \div Span[4] = ENTRIES * (v \div Span[4 + 1]) + Index(v, 4) /\ Index(v, 4) \in 0 .. ENTRIES - 1
    BY <1>4, IndexStep DEF Level
  <2>2. v \div Span[4 + 1] = 0
    BY <1>4
  <2>3. ENTRIES * 0 = 0
    BY <1>1
  <2>4. v \div Span[4] = 0 + Index(v, 4)
    BY <2>1, <2>2, <2>3
  <2> QED
    BY <2>1, <2>4, <1>1
<1>6. q \in Nat /\ r \in 0 .. s - 1 /\ v = s * q + r
  BY <1>3, <1>4, Division
<1> HIDE DEF s, h, q, r
<1>7. Span[5] \div 2 = s * h
  <2>1. Span[5] = 2 * (s * h) + 0
    BY <1>2, <1>3
  <2>2. s * h \in Nat
    BY <1>2, <1>3
  <2> HIDE DEF s, h
  <2> QED
    BY <2>1, <2>2, DivisionUnique
<1>8. v >= s * h <=> q >= h
  <2>1. ASSUME q >= h PROVE v >= s * h
    <3>1. s * q >= s * h
      BY <1>2, <1>3, <1>6, <2>1
    <3> QED
      BY <1>2, <1>3, <1>6, <3>1
  <2>2. ASSUME q < h PROVE v < s * h
    <3>1. s * (q + 1) <= s * h
      BY <1>2, <1>3, <1>6, <2>2
    <3>2. s * (q + 1) = s * q + s
      BY <1>3, <1>6
    <3> QED
      BY <1>2, <1>3, <1>6, <3>1, <3>2
  <2>3. s * h \in Nat /\ v \in Nat
    BY <1>2, <1>3, <1>4
  <2> QED
    BY <1>2, <1>6, <2>1, <2>2, <2>3
<1>9. v \in Upper <=> v >= s * h
  <2>1. Upper = s * h .. Span[5] - 1
    BY <1>7 DEF Upper
  <2>2. s * h \in Nat
    BY <1>2, <1>3
  <2> QED
    BY <1>3, <1>4, <2>1, <2>2
<1> QED
  BY <1>5, <1>8, <1>9 DEF h

LEMMA UpperSame ==
    ASSUME NEW v \in Page, NEW w \in Page, Same(v, w, 4)
    PROVE  v \in Upper <=> w \in Upper
<1>1. Index(v, 4) = Index(w, 4)
  BY SameFacts DEF Level
<1> QED
  BY <1>1, UpperEntries

-----------------------------------------------------------------------------
(* The way to a page *)

EntryAt(tab, r, v, l) == tab[Table(tab, r, v, l)][Index(v, l)]

Entry == [kind : {"none", "table", "page"}, to : Nat, sub : Row, flags : SUBSET Rights]

\* What every table of entries is.
Tables(tab) ==
    /\ tab \in [Row -> [0 .. ENTRIES - 1 -> Entry]]
    /\ tab[NULL] = Blank
    /\ \A f \in Row, k \in 0 .. ENTRIES - 1 : tab[f][k].kind = "table" <=> tab[f][k].sub # NULL

LEMMA Indices ==
    ASSUME NEW v \in Page, NEW l \in Level
    PROVE  Index(v, l) \in 0 .. ENTRIES - 1
BY IndexStep, Pages

LEMMA TableStep ==
    ASSUME NEW tab, NEW r, NEW v
    PROVE  /\ Table(tab, r, v, 4) = r
           /\ \A l \in 2 .. 4 : Table(tab, r, v, l - 1) = EntryAt(tab, r, v, l).sub
<1>1. /\ Table(tab, r, v, 4) = r
      /\ Table(tab, r, v, 3) = Entry4(tab, r, v).sub
      /\ Table(tab, r, v, 2) = Entry3(tab, r, v).sub
      /\ Table(tab, r, v, 1) = Entry2(tab, r, v).sub
  BY DEF Table
<1>2. /\ EntryAt(tab, r, v, 4) = Entry4(tab, r, v)
      /\ EntryAt(tab, r, v, 3) = Entry3(tab, r, v)
      /\ EntryAt(tab, r, v, 2) = Entry2(tab, r, v)
  BY <1>1 DEF EntryAt, Entry4, Entry3, Entry2
<1>3. \A l \in 2 .. 4 : l = 2 \/ l = 3 \/ l = 4
  OBVIOUS
<1>4. 2 - 1 = 1 /\ 3 - 1 = 2 /\ 4 - 1 = 3
  OBVIOUS
<1> QED
  BY <1>1, <1>2, <1>3, <1>4

LEMMA TableBelow ==
    ASSUME NEW tab, NEW r, NEW v
    PROVE  /\ Table(tab, r, v, 3) = EntryAt(tab, r, v, 4).sub
           /\ Table(tab, r, v, 2) = EntryAt(tab, r, v, 3).sub
           /\ Table(tab, r, v, 1) = EntryAt(tab, r, v, 2).sub
<1>1. 2 \in 2 .. 4 /\ 3 \in 2 .. 4 /\ 4 \in 2 .. 4 /\ 2 - 1 = 1 /\ 3 - 1 = 2 /\ 4 - 1 = 3
  OBVIOUS
<1> QED
  BY <1>1, TableStep

LEMMA TableTypes ==
    ASSUME NEW tab, Tables(tab), NEW r \in Row, NEW v \in Page, NEW l \in Level
    PROVE  /\ Table(tab, r, v, l) \in Row /\ EntryAt(tab, r, v, l) \in Entry
           /\ EntryAt(tab, r, v, l).kind = "table" <=> EntryAt(tab, r, v, l).sub # NULL
           /\ Table(tab, r, v, l) = NULL => EntryAt(tab, r, v, l) = Empty
<1>1. \A n \in Level : Index(v, n) \in 0 .. ENTRIES - 1
  BY Indices
<1>2. ASSUME NEW n \in Level, Table(tab, r, v, n) \in Row
      PROVE  /\ EntryAt(tab, r, v, n) \in Entry /\ EntryAt(tab, r, v, n).sub \in Row
             /\ EntryAt(tab, r, v, n).kind = "table" <=> EntryAt(tab, r, v, n).sub # NULL
             /\ Table(tab, r, v, n) = NULL => EntryAt(tab, r, v, n) = Empty
  <2> DEFINE f == Table(tab, r, v, n)
             k == Index(v, n)
  <2>1. f \in Row /\ k \in 0 .. ENTRIES - 1 /\ EntryAt(tab, r, v, n) = tab[f][k]
    BY <1>1, <1>2 DEF EntryAt
  <2> HIDE DEF f, k
  <2>2. tab[f][k] \in Entry /\ (tab[f][k].kind = "table" <=> tab[f][k].sub # NULL)
    BY <2>1 DEF Tables
  <2>3. f = NULL => tab[f][k] = Empty
    BY <2>1 DEF Tables, Blank
  <2> QED
    BY <2>1, <2>2, <2>3 DEF f, Entry
<1>3. Table(tab, r, v, 4) \in Row
  BY TableStep
<1>4. Table(tab, r, v, 3) \in Row
  BY <1>2, <1>3, TableStep DEF Level
<1>5. Table(tab, r, v, 2) \in Row
  BY <1>2, <1>4, TableStep DEF Level
<1>6. Table(tab, r, v, 1) \in Row
  BY <1>2, <1>5, TableStep DEF Level
<1>7. Table(tab, r, v, l) \in Row
  BY <1>3, <1>4, <1>5, <1>6 DEF Level
<1> QED
  BY <1>2, <1>7

\* The way to two pages is the same as far as they are under the same entries.
LEMMA TableSame ==
    ASSUME NEW tab, NEW r, NEW v \in Page, NEW w \in Page, NEW l \in Level
    PROVE  /\ Same(v, w, l + 1) => Table(tab, r, v, l) = Table(tab, r, w, l)
           /\ Same(v, w, l) => EntryAt(tab, r, v, l) = EntryAt(tab, r, w, l)
<1>1. ASSUME NEW n \in Level, Same(v, w, n), Table(tab, r, v, n) = Table(tab, r, w, n)
      PROVE  EntryAt(tab, r, v, n) = EntryAt(tab, r, w, n)
  BY <1>1, SameFacts DEF EntryAt
<1>2. \A n \in 1 .. 4 : Same(v, w, n) => Same(v, w, n + 1)
  BY SameFacts DEF Level
<1>4. Table(tab, r, v, 4) = Table(tab, r, w, 4)
  BY TableStep
<1>5. Same(v, w, 4) => Table(tab, r, v, 3) = Table(tab, r, w, 3)
  BY <1>1, <1>4, TableStep DEF Level
<1>6. Same(v, w, 3) => Table(tab, r, v, 2) = Table(tab, r, w, 2)
  BY <1>1, <1>2, <1>5, TableStep DEF Level
<1>7. Same(v, w, 2) => Table(tab, r, v, 1) = Table(tab, r, w, 1)
  BY <1>1, <1>2, <1>6, TableStep DEF Level
<1>8. Same(v, w, l + 1) => Table(tab, r, v, l) = Table(tab, r, w, l)
  BY <1>4, <1>5, <1>6, <1>7 DEF Level
<1>9. Same(v, w, l) => EntryAt(tab, r, v, l) = EntryAt(tab, r, w, l)
  BY <1>1, <1>2, <1>8 DEF Level
<1> QED
  BY <1>8, <1>9

LEMMA EntrySame ==
    ASSUME NEW tab, NEW r, NEW v \in Page, NEW w \in Page, NEW l \in Level, Same(v, w, l)
    PROVE  EntryAt(tab, r, v, l) = EntryAt(tab, r, w, l)
<1>1. Same(v, w, l + 1) /\ Index(v, l) = Index(w, l)
  BY SameFacts
<1>2. Table(tab, r, v, l) = Table(tab, r, w, l)
  BY <1>1, TableSame
<1> QED
  BY <1>1, <1>2 DEF EntryAt

\* So are the ways of two spaces from a table on that both go through.
LEMMA TableJoin ==
    ASSUME NEW tab, NEW r, NEW s, NEW v, NEW l \in Level, NEW n \in Level, n <= l,
           Table(tab, r, v, l) = Table(tab, s, v, l)
    PROVE  /\ Table(tab, r, v, n) = Table(tab, s, v, n)
           /\ EntryAt(tab, r, v, n) = EntryAt(tab, s, v, n)
<1>1. ASSUME NEW m \in Level, Table(tab, r, v, m) = Table(tab, s, v, m)
      PROVE  /\ EntryAt(tab, r, v, m) = EntryAt(tab, s, v, m)
             /\ m > 1 => Table(tab, r, v, m - 1) = Table(tab, s, v, m - 1)
  BY <1>1, TableStep DEF EntryAt, Level
<1>2. l = 4 => Table(tab, r, v, 3) = Table(tab, s, v, 3)
  BY <1>1 DEF Level
<1>3. l \in {3, 4} => Table(tab, r, v, 2) = Table(tab, s, v, 2)
  BY <1>1, <1>2 DEF Level
<1>4. l \in {2, 3, 4} => Table(tab, r, v, 1) = Table(tab, s, v, 1)
  BY <1>1, <1>3 DEF Level
<1>5. Table(tab, r, v, n) = Table(tab, s, v, n)
  BY <1>2, <1>3, <1>4 DEF Level
<1> QED
  BY <1>1, <1>5

\* Nothing is below where the way ends.
LEMMA TableEnd ==
    ASSUME NEW tab, Tables(tab), NEW r \in Row, NEW v \in Page, NEW l \in Level, NEW n \in Level,
           n <= l, Table(tab, r, v, l) = NULL
    PROVE  Table(tab, r, v, n) = NULL /\ EntryAt(tab, r, v, n) = Empty
<1>1. ASSUME NEW m \in Level, m > 1, Table(tab, r, v, m) = NULL
      PROVE  Table(tab, r, v, m - 1) = NULL
  BY <1>1, TableStep, TableTypes DEF Level, Empty
<1>2. l = 4 => Table(tab, r, v, 3) = NULL
  BY <1>1 DEF Level
<1>3. l \in {3, 4} => Table(tab, r, v, 2) = NULL
  BY <1>1, <1>2 DEF Level
<1>4. l \in {2, 3, 4} => Table(tab, r, v, 1) = NULL
  BY <1>1, <1>3 DEF Level
<1>5. Table(tab, r, v, n) = NULL
  BY <1>2, <1>3, <1>4 DEF Level
<1> QED
  BY <1>5, TableTypes

-----------------------------------------------------------------------------
(* The processor's walk *)

RightsAbove(tab, r, v, l) ==
    CASE l = 3 -> EntryAt(tab, r, v, 4).flags
      [] l = 2 -> EntryAt(tab, r, v, 3).flags \cap EntryAt(tab, r, v, 4).flags
      [] l = 1 -> EntryAt(tab, r, v, 2).flags \cap EntryAt(tab, r, v, 3).flags
                     \cap EntryAt(tab, r, v, 4).flags

PageAt(tab, r, v, l) == l \in 1 .. 3 /\ EntryAt(tab, r, v, l).kind = "page"

LEMMA WalkByLevel ==
    ASSUME NEW tab, NEW r, NEW v
    PROVE  Walk(tab, r, v) =
              IF EntryAt(tab, r, v, 3).kind = "page"
                THEN Leaf(EntryAt(tab, r, v, 3), v, 3, RightsAbove(tab, r, v, 3))
              ELSE IF EntryAt(tab, r, v, 2).kind = "page"
                THEN Leaf(EntryAt(tab, r, v, 2), v, 2, RightsAbove(tab, r, v, 2))
              ELSE IF EntryAt(tab, r, v, 1).kind = "page"
                THEN Leaf(EntryAt(tab, r, v, 1), v, 1, RightsAbove(tab, r, v, 1))
              ELSE Unmapped
<1> DEFINE e4 == tab[r][Index(v, 4)]
           e3 == tab[e4.sub][Index(v, 3)]
           e2 == tab[e3.sub][Index(v, 2)]
           e1 == tab[e2.sub][Index(v, 1)]
<1>1. EntryAt(tab, r, v, 4) = e4
  BY TableStep DEF EntryAt
<1>2. EntryAt(tab, r, v, 3) = e3
  <2>1. Table(tab, r, v, 3) = e4.sub
    BY <1>1, TableBelow
  <2> QED
    BY <2>1 DEF EntryAt
<1>3. EntryAt(tab, r, v, 2) = e2
  <2>1. Table(tab, r, v, 2) = e3.sub
    BY <1>2, TableBelow
  <2> QED
    BY <2>1 DEF EntryAt
<1>4. EntryAt(tab, r, v, 1) = e1
  <2>1. Table(tab, r, v, 1) = e2.sub
    BY <1>3, TableBelow
  <2> QED
    BY <2>1 DEF EntryAt
<1>5. /\ RightsAbove(tab, r, v, 3) = e4.flags
      /\ RightsAbove(tab, r, v, 2) = e3.flags \cap e4.flags
      /\ RightsAbove(tab, r, v, 1) = e2.flags \cap e3.flags \cap e4.flags
  <2>1. /\ RightsAbove(tab, r, v, 3) = EntryAt(tab, r, v, 4).flags
        /\ RightsAbove(tab, r, v, 2) = EntryAt(tab, r, v, 3).flags \cap EntryAt(tab, r, v, 4).flags
        /\ RightsAbove(tab, r, v, 1) = EntryAt(tab, r, v, 2).flags
                                         \cap EntryAt(tab, r, v, 3).flags
                                         \cap EntryAt(tab, r, v, 4).flags
    BY DEF RightsAbove
  <2> HIDE DEF e4, e3, e2, e1
  <2> QED
    BY <2>1, <1>1, <1>2, <1>3
<1>6. Walk(tab, r, v) =
         IF e3.kind = "page" THEN Leaf(e3, v, 3, e4.flags)
         ELSE IF e2.kind = "page" THEN Leaf(e2, v, 2, e3.flags \cap e4.flags)
         ELSE IF e1.kind = "page" THEN Leaf(e1, v, 1, e2.flags \cap e3.flags \cap e4.flags)
         ELSE Unmapped
  BY DEF Walk
<1> HIDE DEF e4, e3, e2, e1
<1> QED
  BY <1>2, <1>3, <1>4, <1>5, <1>6

LEMMA LeafFields ==
    ASSUME NEW e, NEW v, NEW l, NEW fl
    PROVE  /\ Leaf(e, v, l, fl).flags = e.flags \cap fl
           /\ Leaf(e, v, l, fl).to = e.to + (v % Span[l])
           /\ Leaf(e, v, l, fl).level = l
BY DEF Leaf

LEMMA LeafMapped ==
    ASSUME NEW e, NEW v, NEW l \in 1 .. 3, NEW fl
    PROVE  Leaf(e, v, l, fl) # Unmapped
BY DEF Leaf, Unmapped

\* It finds the page that is on the way, on whatever level, or nothing.
LEMMA WalkFacts ==
    ASSUME NEW tab, Tables(tab), NEW r \in Row, NEW v \in Page
    PROVE  /\ \A l \in 1 .. 3 : PageAt(tab, r, v, l) =>
                  /\ Walk(tab, r, v) = Leaf(EntryAt(tab, r, v, l), v, l, RightsAbove(tab, r, v, l))
                  /\ Walk(tab, r, v) # Unmapped /\ Walk(tab, r, v).level = l
           /\ (\A l \in 1 .. 3 : ~PageAt(tab, r, v, l)) => Walk(tab, r, v) = Unmapped
           /\ Walk(tab, r, v) # Unmapped =>
                  Walk(tab, r, v).level \in 1 .. 3 /\ PageAt(tab, r, v, Walk(tab, r, v).level)
<1>1. ASSUME NEW l \in 2 .. 3, EntryAt(tab, r, v, l).kind = "page", NEW n \in 1 .. 3, n < l
      PROVE  EntryAt(tab, r, v, n).kind # "page"
  <2>1. EntryAt(tab, r, v, l).sub = NULL
    <3>1. l \in Level
      BY <1>1 DEF Level
    <3>2. EntryAt(tab, r, v, l).kind # "table"
      BY <1>1
    <3> QED
      BY <3>1, <3>2, TableTypes
  <2>2. Table(tab, r, v, l - 1) = NULL
    BY <2>1, TableStep
  <2>3. EntryAt(tab, r, v, n) = Empty
    BY <1>1, <2>2, TableEnd DEF Level
  <2> QED
    BY <2>3 DEF Empty
<1>2. /\ EntryAt(tab, r, v, 3).kind = "page" => EntryAt(tab, r, v, 2).kind # "page" /\ EntryAt(tab, r, v, 1).kind # "page"
      /\ EntryAt(tab, r, v, 2).kind = "page" => EntryAt(tab, r, v, 1).kind # "page"
  BY <1>1
<1>3. \A l \in 1 .. 3 : PageAt(tab, r, v, l) =>
         Walk(tab, r, v) = Leaf(EntryAt(tab, r, v, l), v, l, RightsAbove(tab, r, v, l))
  <2>1. \A l \in 1 .. 3 : l = 1 \/ l = 2 \/ l = 3
    OBVIOUS
  <2> QED
    BY <1>2, <2>1, WalkByLevel DEF PageAt
<1>4. (\A l \in 1 .. 3 : ~PageAt(tab, r, v, l)) => Walk(tab, r, v) = Unmapped
  BY WalkByLevel DEF PageAt
<1>5. \A l \in 1 .. 3 : PageAt(tab, r, v, l) => Walk(tab, r, v) # Unmapped /\ Walk(tab, r, v).level = l
  <2>1. ASSUME NEW l \in 1 .. 3, PageAt(tab, r, v, l)
        PROVE  Walk(tab, r, v) # Unmapped /\ Walk(tab, r, v).level = l
    <3>1. Walk(tab, r, v) = Leaf(EntryAt(tab, r, v, l), v, l, RightsAbove(tab, r, v, l))
      BY <1>3, <2>1
    <3>2. Walk(tab, r, v) # Unmapped
      BY <3>1, LeafMapped
    <3>3. Walk(tab, r, v).level = l
      BY <3>1, LeafFields
    <3> QED
      BY <3>2, <3>3
  <2> QED
    BY <2>1
<1> QED
  BY <1>3, <1>4, <1>5

\* Two ways with the same entries are walked alike.
LEMMA WalkAlike ==
    ASSUME NEW tab, NEW tab1, NEW r, NEW s, NEW v,
           \A l \in Level : EntryAt(tab1, s, v, l) = EntryAt(tab, r, v, l)
    PROVE  Walk(tab1, s, v) = Walk(tab, r, v)
<1>1. /\ EntryAt(tab1, s, v, 1) = EntryAt(tab, r, v, 1)
      /\ EntryAt(tab1, s, v, 2) = EntryAt(tab, r, v, 2)
      /\ EntryAt(tab1, s, v, 3) = EntryAt(tab, r, v, 3)
      /\ EntryAt(tab1, s, v, 4) = EntryAt(tab, r, v, 4)
  BY DEF Level
<1>2. /\ RightsAbove(tab1, s, v, 1) = RightsAbove(tab, r, v, 1)
      /\ RightsAbove(tab1, s, v, 2) = RightsAbove(tab, r, v, 2)
      /\ RightsAbove(tab1, s, v, 3) = RightsAbove(tab, r, v, 3)
  BY <1>1 DEF RightsAbove
<1> QED
  BY <1>1, <1>2, WalkByLevel

\* Spaces that have the same entry in their PML4s share all that is below it.
LEMMA WalkShared ==
    ASSUME NEW tab, NEW r, NEW s, NEW v, EntryAt(tab, r, v, 4) = EntryAt(tab, s, v, 4)
    PROVE  /\ \A l \in 1 .. 3 : Table(tab, r, v, l) = Table(tab, s, v, l)
           /\ \A l \in Level : EntryAt(tab, r, v, l) = EntryAt(tab, s, v, l)
           /\ Walk(tab, r, v) = Walk(tab, s, v)
<1>1. Table(tab, r, v, 3) = Table(tab, s, v, 3)
  BY TableStep
<1>2. \A l \in 1 .. 3 : /\ Table(tab, r, v, l) = Table(tab, s, v, l)
                        /\ EntryAt(tab, r, v, l) = EntryAt(tab, s, v, l)
  BY <1>1, TableJoin DEF Level
<1>3. \A l \in Level : EntryAt(tab, r, v, l) = EntryAt(tab, s, v, l)
  BY <1>2 DEF Level
<1> QED
  BY <1>2, <1>3, WalkAlike

-----------------------------------------------------------------------------
(* Tables form trees *)

\* What the spaces of roots use.
Reached(tab, roots) == {Table(tab, r, v, l) : r \in roots, v \in Page, l \in Level} \ {NULL}

\* A table is on one level, at one place; spaces that share it share what their
\* PML4s have there, in the upper half.
Trees(tab, roots) ==
    \A r, s \in roots : \A v, w \in Page : \A l, m \in Level :
        Table(tab, r, v, l) = Table(tab, s, w, m) /\ Table(tab, r, v, l) # NULL =>
            /\ l = m /\ Same(v, w, l + 1)
            /\ \/ r = s
               \/ v \in Upper /\ l < 4 /\ EntryAt(tab, r, v, 4) = EntryAt(tab, s, v, 4)

\* Entry k of table t becomes e, which may lead to a table f that leads nowhere.
Edit(tab, tab1, t, k, e, f) ==
    /\ Tables(tab) /\ Tables(tab1)
    /\ t \in Row \ {NULL} /\ f \in Row \ {t} /\ k \in 0 .. ENTRIES - 1
    /\ tab1[t][k] = e /\ \A j \in 0 .. ENTRIES - 1 : j # k => tab1[t][j] = tab[t][j]
    /\ \A g \in Row : g # t /\ g # f => tab1[g] = tab[g]
    /\ e.sub \in {NULL, f}
    /\ \A j \in 0 .. ENTRIES - 1 : tab1[f][j].sub = NULL

\* Where: t is the table of level n on the way to u from root, and k its entry.
Place(tab, roots, root, u, n, t, k, f) ==
    /\ roots \subseteq Frames /\ Trees(tab, roots) /\ f \notin Reached(tab, roots)
    /\ root \in roots /\ u \in Page /\ n \in Level
    /\ t = Table(tab, root, u, n) /\ k = Index(u, n)

\* The way to v goes through that entry.
Through(tab, r, v, t, u, n) == Table(tab, r, v, n) = t /\ Same(v, u, n)

TableAfter(tab, r, v, l, t, u, n, e) ==
    IF l < n /\ Through(tab, r, v, t, u, n)
      THEN IF l = n - 1 THEN e.sub ELSE NULL
      ELSE Table(tab, r, v, l)

EntryAfter(tab, tab1, r, v, l, t, u, n, e) ==
    IF l <= n /\ Through(tab, r, v, t, u, n)
      THEN IF l = n THEN e ELSE IF l = n - 1 THEN tab1[e.sub][Index(v, l)] ELSE Empty
      ELSE EntryAt(tab, r, v, l)

LEMMA EditEntry ==
    ASSUME NEW tab, NEW tab1, NEW t, NEW k, NEW e, NEW f, Edit(tab, tab1, t, k, e, f),
           NEW roots, NEW root, NEW u, NEW n, Place(tab, roots, root, u, n, t, k, f),
           NEW r \in roots, NEW v \in Page, NEW l \in Level,
           Table(tab1, r, v, l) = TableAfter(tab, r, v, l, t, u, n, e)
    PROVE  EntryAt(tab1, r, v, l) = EntryAfter(tab, tab1, r, v, l, t, u, n, e)
<1>1. EntryAt(tab1, r, v, l) = tab1[Table(tab1, r, v, l)][Index(v, l)]
  BY DEF EntryAt
<1>2. Index(v, l) \in 0 .. ENTRIES - 1 /\ r \in Row /\ n \in Level /\ u \in Page
  BY Indices DEF Place, Row
<1>3. \A j \in 0 .. ENTRIES - 1 : tab[NULL][j] = Empty /\ tab1[NULL][j] = Empty
  BY DEF Edit, Tables, Blank
<1>4. CASE l < n /\ Through(tab, r, v, t, u, n)
  <2>1. Table(tab1, r, v, l) = IF l = n - 1 THEN e.sub ELSE NULL
    BY <1>4 DEF TableAfter
  <2>2. EntryAfter(tab, tab1, r, v, l, t, u, n, e) =
           IF l = n - 1 THEN tab1[e.sub][Index(v, l)] ELSE Empty
    BY <1>4, <1>2 DEF EntryAfter, Level
  <2> QED
    BY <1>1, <1>2, <1>3, <2>1, <2>2
<1>5. CASE ~(l < n /\ Through(tab, r, v, t, u, n))
  <2> DEFINE g == Table(tab, r, v, l)
  <2>1. Table(tab1, r, v, l) = g /\ EntryAt(tab, r, v, l) = tab[g][Index(v, l)]
    BY <1>5 DEF TableAfter, EntryAt
  <2>2. g \in Row
    BY <1>2, TableTypes DEF Edit
  <2>3. CASE g # t /\ g # f
    <3>1. tab1[g] = tab[g]
      BY <2>2, <2>3 DEF Edit
    <3>2. ~Through(tab, r, v, t, u, n) \/ l # n
      BY <2>3 DEF Through
    <3>3. EntryAfter(tab, tab1, r, v, l, t, u, n, e) = EntryAt(tab, r, v, l)
      BY <1>5, <3>2, <1>2 DEF EntryAfter, Level
    <3> QED
      BY <1>1, <2>1, <3>1, <3>3
  <2>4. CASE g = f
    <3>1. g = NULL
      BY <2>4 DEF Place, Reached
    <3>2. ~Through(tab, r, v, t, u, n) \/ l # n
      BY <3>1 DEF Through, Edit
    <3>3. EntryAfter(tab, tab1, r, v, l, t, u, n, e) = EntryAt(tab, r, v, l)
      BY <1>5, <3>2, <1>2 DEF EntryAfter, Level
    <3> QED
      BY <1>1, <1>2, <1>3, <2>1, <3>1, <3>3
  <2>5. CASE g = t
    <3>1. l = n /\ Same(v, u, l + 1)
      BY <2>5 DEF Place, Edit, Trees
    <3>2. Same(v, u, n) <=> Index(v, l) = k
      BY <1>2, <3>1, SameFacts DEF Place
    <3>3. EntryAfter(tab, tab1, r, v, l, t, u, n, e) =
             IF Index(v, l) = k THEN e ELSE EntryAt(tab, r, v, l)
      BY <2>5, <3>1, <3>2, <1>2 DEF EntryAfter, Through, Level
    <3>4. tab1[t][Index(v, l)] = IF Index(v, l) = k THEN e ELSE tab[t][Index(v, l)]
      BY <1>2 DEF Edit
    <3> QED
      BY <1>1, <2>1, <2>5, <3>3, <3>4
  <2> QED
    BY <2>3, <2>4, <2>5
<1> QED
  BY <1>4, <1>5

\* After the change the ways are as TableAfter and EntryAfter say.
LEMMA Edited ==
    ASSUME NEW tab, NEW tab1, NEW t, NEW k, NEW e, NEW f, Edit(tab, tab1, t, k, e, f),
           NEW roots, NEW root, NEW u, NEW n, Place(tab, roots, root, u, n, t, k, f),
           NEW r \in roots, NEW v \in Page
    PROVE  \A l \in Level :
              /\ Table(tab1, r, v, l) = TableAfter(tab, r, v, l, t, u, n, e)
              /\ EntryAt(tab1, r, v, l) = EntryAfter(tab, tab1, r, v, l, t, u, n, e)
<1>0. n \in Level /\ r \in Row
  BY DEF Place, Row
<1>1. ASSUME NEW l \in 2 .. 4, Table(tab1, r, v, l) = TableAfter(tab, r, v, l, t, u, n, e)
      PROVE  Table(tab1, r, v, l - 1) = TableAfter(tab, r, v, l - 1, t, u, n, e)
  <2>0. l \in Level /\ l - 1 \in Level
    BY DEF Level
  <2>1. EntryAt(tab1, r, v, l) = EntryAfter(tab, tab1, r, v, l, t, u, n, e)
    BY <1>1, <2>0, EditEntry
  <2>2. Table(tab1, r, v, l - 1) = EntryAt(tab1, r, v, l).sub
    BY TableStep
  <2>3. Table(tab, r, v, l - 1) = EntryAt(tab, r, v, l).sub
    BY TableStep
  <2>4. CASE ~Through(tab, r, v, t, u, n) \/ l > n
    <3>1. EntryAt(tab1, r, v, l) = EntryAt(tab, r, v, l)
      BY <1>0, <2>0, <2>1, <2>4 DEF EntryAfter, Level
    <3>2. TableAfter(tab, r, v, l - 1, t, u, n, e) = Table(tab, r, v, l - 1)
      BY <1>0, <2>0, <2>4 DEF TableAfter, Level
    <3> QED
      BY <2>2, <2>3, <3>1, <3>2
  <2>5. CASE Through(tab, r, v, t, u, n) /\ l = n
    <3>1. EntryAt(tab1, r, v, l) = e
      BY <1>0, <2>1, <2>5 DEF EntryAfter, Level
    <3>2. TableAfter(tab, r, v, l - 1, t, u, n, e) = e.sub
      BY <1>0, <2>5 DEF TableAfter, Level
    <3> QED
      BY <2>2, <3>1, <3>2
  <2>6. CASE Through(tab, r, v, t, u, n) /\ l < n
    <3>1. EntryAt(tab1, r, v, l).sub = NULL
      <4>1. Index(v, l) \in 0 .. ENTRIES - 1
        BY <2>0, Indices
      <4>2. tab1[e.sub][Index(v, l)].sub = NULL
        <5>1. tab1[NULL][Index(v, l)] = Empty
          BY <4>1 DEF Edit, Tables, Blank
        <5>2. tab1[f][Index(v, l)].sub = NULL /\ e.sub \in {NULL, f}
          BY <4>1 DEF Edit
        <5> QED
          BY <5>1, <5>2 DEF Empty
      <4>3. EntryAt(tab1, r, v, l) = IF l = n - 1 THEN tab1[e.sub][Index(v, l)] ELSE Empty
        BY <1>0, <2>0, <2>1, <2>6 DEF EntryAfter, Level
      <4> QED
        BY <4>2, <4>3 DEF Empty
    <3>2. TableAfter(tab, r, v, l - 1, t, u, n, e) = NULL
      BY <1>0, <2>0, <2>6 DEF TableAfter, Level
    <3> QED
      BY <2>2, <3>1, <3>2
  <2> QED
    BY <1>0, <2>0, <2>4, <2>5, <2>6 DEF Level
<1>2. Table(tab1, r, v, 4) = TableAfter(tab, r, v, 4, t, u, n, e)
  BY <1>0, TableStep DEF TableAfter, Level
<1>3. Table(tab1, r, v, 3) = TableAfter(tab, r, v, 3, t, u, n, e)
  BY <1>1, <1>2
<1>4. Table(tab1, r, v, 2) = TableAfter(tab, r, v, 2, t, u, n, e)
  BY <1>1, <1>3
<1>5. Table(tab1, r, v, 1) = TableAfter(tab, r, v, 1, t, u, n, e)
  BY <1>1, <1>4
<1>6. \A l \in Level : Table(tab1, r, v, l) = TableAfter(tab, r, v, l, t, u, n, e)
  BY <1>2, <1>3, <1>4, <1>5 DEF Level
<1>7. ASSUME NEW l \in Level
      PROVE  EntryAt(tab1, r, v, l) = EntryAfter(tab, tab1, r, v, l, t, u, n, e)
  BY <1>6, EditEntry
<1> QED
  BY <1>6, <1>7

\* Entries above a table lead to it.
LEMMA AboveTables ==
    ASSUME NEW tab, Tables(tab), NEW r \in Row, NEW v \in Page, NEW n \in Level,
           Table(tab, r, v, n) # NULL
    PROVE  \A l \in Level : l > n => EntryAt(tab, r, v, l).kind = "table"
<1> SUFFICES ASSUME NEW l \in Level, l > n, EntryAt(tab, r, v, l).kind # "table"
             PROVE  FALSE
  OBVIOUS
<1>1. EntryAt(tab, r, v, l).sub = NULL
  BY TableTypes
<1>2. Table(tab, r, v, l - 1) = NULL
  BY <1>1, TableStep DEF Level
<1>3. Table(tab, r, v, n) = NULL
  BY <1>2, TableEnd DEF Level
<1> QED
  BY <1>3

LEMMA EditTrees ==
    ASSUME NEW tab, NEW tab1, NEW t, NEW k, NEW e, NEW f, Edit(tab, tab1, t, k, e, f),
           NEW roots, NEW root, NEW u, NEW n, Place(tab, roots, root, u, n, t, k, f)
    PROVE  Trees(tab1, roots)
<1>0. /\ roots \subseteq Frames /\ n \in Level /\ root \in roots /\ u \in Page
      /\ t = Table(tab, root, u, n) /\ t # NULL /\ e.sub \in {NULL, f}
  BY DEF Place, Edit
<1>1. \A r \in roots, v \in Page, l \in Level : Table(tab, r, v, l) # f \/ f = NULL
  BY DEF Place, Reached
<1>2. \A r, s \in roots : \A v, w \in Page : \A l, m \in Level :
         Table(tab, r, v, l) = Table(tab, s, w, m) /\ Table(tab, r, v, l) # NULL =>
            /\ l = m /\ Same(v, w, l + 1)
            /\ \/ r = s
               \/ v \in Upper /\ l < 4 /\ EntryAt(tab, r, v, 4) = EntryAt(tab, s, v, 4)
  BY DEF Place, Trees
<1>3. \A r \in roots, v \in Page, l \in Level :
         /\ Table(tab1, r, v, l) = TableAfter(tab, r, v, l, t, u, n, e)
         /\ EntryAt(tab1, r, v, l) = EntryAfter(tab, tab1, r, v, l, t, u, n, e)
  BY Edited
<1> SUFFICES ASSUME NEW r \in roots, NEW s \in roots, NEW v \in Page, NEW w \in Page,
                    NEW l \in Level, NEW m \in Level,
                    Table(tab1, r, v, l) = Table(tab1, s, w, m), Table(tab1, r, v, l) # NULL
             PROVE  /\ l = m /\ Same(v, w, l + 1)
                    /\ \/ r = s
                       \/ v \in Upper /\ l < 4 /\ EntryAt(tab1, r, v, 4) = EntryAt(tab1, s, v, 4)
  BY DEF Trees
<1> DEFINE R == l < n /\ Through(tab, r, v, t, u, n)
           S == m < n /\ Through(tab, s, w, t, u, n)
<1>4. /\ R => Table(tab1, r, v, l) = f /\ l = n - 1
      /\ ~R => Table(tab1, r, v, l) = Table(tab, r, v, l)
      /\ S => Table(tab1, s, w, m) = f /\ m = n - 1
      /\ ~S => Table(tab1, s, w, m) = Table(tab, s, w, m)
  <2>1. R => Table(tab1, r, v, l) = f /\ l = n - 1
    BY <1>0, <1>3 DEF TableAfter
  <2>2. S => Table(tab1, s, w, m) = f /\ m = n - 1
    BY <1>0, <1>3 DEF TableAfter
  <2>3. ~R => Table(tab1, r, v, l) = Table(tab, r, v, l)
    BY <1>3 DEF TableAfter
  <2>4. ~S => Table(tab1, s, w, m) = Table(tab, s, w, m)
    BY <1>3 DEF TableAfter
  <2> QED
    BY <2>1, <2>2, <2>3, <2>4
<1>5. R <=> S
  BY <1>1, <1>4
<1>6. \A q \in roots, x \in Page : ~(n = 4 /\ Through(tab, q, x, t, u, n)) =>
          EntryAt(tab1, q, x, 4) = EntryAt(tab, q, x, 4)
  BY <1>0, <1>3 DEF EntryAfter, Level
<1>7. CASE R
  <2>1. l = n - 1 /\ m = n - 1 /\ Same(v, u, n) /\ Same(w, u, n)
    BY <1>4, <1>5, <1>7 DEF Through
  <2>2. Table(tab, r, v, n) = t /\ Table(tab, s, w, n) = t
    BY <1>5, <1>7 DEF Through
  <2>3. /\ r = s \/ (v \in Upper /\ n < 4 /\ EntryAt(tab, r, v, 4) = EntryAt(tab, s, v, 4))
    BY <1>0, <1>2, <2>2
  <2>4. Same(v, w, n)
    BY <2>1 DEF Same
  <2>5. n < 4 => EntryAt(tab1, r, v, 4) = EntryAt(tab, r, v, 4) /\ EntryAt(tab1, s, v, 4) = EntryAt(tab, s, v, 4)
    BY <1>6
  <2>6. l + 1 = n /\ l < 4
    BY <1>0, <2>1 DEF Level
  <2>7. r = s \/ (v \in Upper /\ l < 4 /\ EntryAt(tab1, r, v, 4) = EntryAt(tab1, s, v, 4))
    BY <2>3, <2>5, <2>6
  <2> HIDE DEF R, S
  <2> QED
    BY <2>1, <2>4, <2>6, <2>7
<1>8. CASE ~R
  <2>1. Table(tab, r, v, l) = Table(tab, s, w, m) /\ Table(tab, r, v, l) # NULL
    BY <1>4, <1>5, <1>8
  <2>2. /\ l = m /\ Same(v, w, l + 1)
        /\ \/ r = s
           \/ v \in Upper /\ l < 4 /\ EntryAt(tab, r, v, 4) = EntryAt(tab, s, v, 4)
    BY <1>2, <2>1
  <2>3. ASSUME r # s
        PROVE  EntryAt(tab1, r, v, 4) = EntryAt(tab1, s, v, 4)
    <3>1. l < 4 /\ EntryAt(tab, r, v, 4) = EntryAt(tab, s, v, 4)
      BY <2>2, <2>3
    <3>2. ~(n = 4 /\ Through(tab, r, v, t, u, n))
      BY <1>8, <3>1
    <3>3. ~(n = 4 /\ Through(tab, s, v, t, u, n))
      <4> SUFFICES ASSUME n = 4, Through(tab, s, v, t, u, n)
                   PROVE  FALSE
        OBVIOUS
      <4>1. Same(v, w, 4)
        BY <2>2, <3>1, SameFacts DEF Level
      <4>2. Same(w, u, 4) /\ Table(tab, s, w, 4) = t
        BY <4>1, TableStep DEF Through, Same
      <4> QED
        BY <1>5, <1>8, <2>2, <3>1, <4>2 DEF Through
    <3> QED
      BY <1>6, <3>1, <3>2, <3>3
  <2> HIDE DEF R, S
  <2> QED
    BY <2>2, <2>3
<1> QED
  BY <1>7, <1>8

\* What is in use after the change: what was, but for what was below the entry.
LEMMA EditReached ==
    ASSUME NEW tab, NEW tab1, NEW t, NEW k, NEW e, NEW f, Edit(tab, tab1, t, k, e, f),
           NEW roots, NEW root, NEW u, NEW n, Place(tab, roots, root, u, n, t, k, f)
    PROVE  /\ Reached(tab1, roots) \subseteq Reached(tab, roots) \cup {f}
           /\ \A x \in Reached(tab, roots) :
                 \/ x \in Reached(tab1, roots)
                 \/ \E v \in Page, l \in Level :
                       Same(v, u, n) /\ l < n /\ x = Table(tab, root, v, l)
           /\ e.sub = f /\ f # NULL /\ n > 1 => f \in Reached(tab1, roots)
<1>0. /\ roots \subseteq Frames /\ n \in Level /\ root \in roots /\ u \in Page
      /\ t = Table(tab, root, u, n) /\ t # NULL /\ e.sub \in {NULL, f}
  BY DEF Place, Edit
<1>1. \A r \in roots, v \in Page, l \in Level :
         Table(tab1, r, v, l) = TableAfter(tab, r, v, l, t, u, n, e)
  BY Edited
<1>2. ASSUME NEW x \in Reached(tab1, roots)
      PROVE  x \in Reached(tab, roots) \cup {f}
  BY <1>0, <1>1 DEF Reached, TableAfter
<1>3. ASSUME NEW x \in Reached(tab, roots), x \notin Reached(tab1, roots)
      PROVE  \E v \in Page, l \in Level : Same(v, u, n) /\ l < n /\ x = Table(tab, root, v, l)
  <2>1. PICK r \in roots, v \in Page, l \in Level : x = Table(tab, r, v, l) /\ x # NULL
    BY DEF Reached
  <2>2. Table(tab1, r, v, l) # x
    BY <1>3, <2>1 DEF Reached
  <2>3. l < n /\ Table(tab, r, v, n) = t /\ Same(v, u, n)
    BY <1>1, <2>1, <2>2 DEF TableAfter, Through
  <2>4. Same(v, u, n + 1)
    BY <1>0, <2>3, SameFacts
  <2>5. Table(tab, root, v, n) = t
    BY <1>0, <2>4, TableSame
  <2>6. Table(tab, r, v, l) = Table(tab, root, v, l)
    BY <1>0, <2>3, <2>5, TableJoin DEF Level
  <2> QED
    BY <2>1, <2>3, <2>6
<1>4. ASSUME e.sub = f, f # NULL, n > 1
      PROVE  f \in Reached(tab1, roots)
  <2>1. n - 1 \in Level /\ n - 1 < n
    BY <1>0, <1>4 DEF Level
  <2>2. Through(tab, root, u, t, u, n)
    BY <1>0 DEF Through, Same
  <2>3. Table(tab1, root, u, n - 1) = f
    BY <1>0, <1>1, <1>4, <2>1, <2>2 DEF TableAfter
  <2> QED
    BY <1>0, <1>4, <2>1, <2>3 DEF Reached
<1> QED
  BY <1>2, <1>3, <1>4

\* Pages that are not under the entry are walked to as before.
LEMMA EditElsewhere ==
    ASSUME NEW tab, NEW tab1, NEW t, NEW k, NEW e, NEW f, Edit(tab, tab1, t, k, e, f),
           NEW roots, NEW root, NEW u, NEW n, Place(tab, roots, root, u, n, t, k, f),
           NEW r \in roots, NEW v \in Page
    PROVE  /\ ~Through(tab, r, v, t, u, n) => Walk(tab1, r, v) = Walk(tab, r, v)
           /\ \A l \in Level : l > n => EntryAt(tab1, r, v, l) = EntryAt(tab, r, v, l)
           /\ n < 4 => RightsAbove(tab1, r, v, n) = RightsAbove(tab, r, v, n)
<1>0. n \in Level
  BY DEF Place
<1>1. \A l \in Level : EntryAt(tab1, r, v, l) = EntryAfter(tab, tab1, r, v, l, t, u, n, e)
  BY Edited
<1>2. \A l \in Level : l > n \/ ~Through(tab, r, v, t, u, n) => EntryAt(tab1, r, v, l) = EntryAt(tab, r, v, l)
  BY <1>0, <1>1 DEF EntryAfter, Level
<1>3. ~Through(tab, r, v, t, u, n) => Walk(tab1, r, v) = Walk(tab, r, v)
  BY <1>2, WalkAlike
<1>4. n = 1 \/ n = 2 \/ n = 3 \/ n = 4
  BY <1>0 DEF Level
<1>5. n < 4 => RightsAbove(tab1, r, v, n) = RightsAbove(tab, r, v, n)
  <2>1. CASE n = 1
    <3>1. /\ EntryAt(tab1, r, v, 2) = EntryAt(tab, r, v, 2)
          /\ EntryAt(tab1, r, v, 3) = EntryAt(tab, r, v, 3)
          /\ EntryAt(tab1, r, v, 4) = EntryAt(tab, r, v, 4)
      BY <1>2, <2>1 DEF Level
    <3> QED
      BY <2>1, <3>1 DEF RightsAbove
  <2>2. CASE n = 2
    <3>1. /\ EntryAt(tab1, r, v, 3) = EntryAt(tab, r, v, 3)
          /\ EntryAt(tab1, r, v, 4) = EntryAt(tab, r, v, 4)
      BY <1>2, <2>2 DEF Level
    <3> QED
      BY <2>2, <3>1 DEF RightsAbove
  <2>3. CASE n = 3
    <3>1. EntryAt(tab1, r, v, 4) = EntryAt(tab, r, v, 4)
      BY <1>2, <2>3 DEF Level
    <3> QED
      BY <2>3, <3>1 DEF RightsAbove
  <2> QED
    BY <1>4, <2>1, <2>2, <2>3
<1> QED
  BY <1>2, <1>3, <1>5

\* Pages under the entry: it is a page itself, or there is none below it.
LEMMA EditHere ==
    ASSUME NEW tab, NEW tab1, NEW t, NEW k, NEW e, NEW f, Edit(tab, tab1, t, k, e, f),
           NEW roots, NEW root, NEW u, NEW n, Place(tab, roots, root, u, n, t, k, f),
           NEW r \in roots, NEW v \in Page, Through(tab, r, v, t, u, n)
    PROVE  /\ n < 4 /\ e.kind = "page" =>
                  Walk(tab1, r, v) = Leaf(e, v, n, RightsAbove(tab, r, v, n))
           /\ e.kind # "page" /\ (e.sub = NULL \/ tab1[e.sub] = Blank) =>
                  Walk(tab1, r, v) = Unmapped
           /\ EntryAt(tab, r, v, n) = tab[t][k]
<1>0. n \in Level /\ r \in Row /\ t # NULL /\ Table(tab, r, v, n) = t /\ e.sub \in {NULL, f}
  BY DEF Place, Row, Edit, Through
<1>1. \A l \in Level : EntryAt(tab1, r, v, l) = EntryAfter(tab, tab1, r, v, l, t, u, n, e)
  BY Edited
<1>2. EntryAt(tab1, r, v, n) = e
  BY <1>0, <1>1 DEF EntryAfter, Level
<1>3. Tables(tab) /\ Tables(tab1)
  BY DEF Edit
<1>4. ASSUME n < 4, e.kind = "page"
      PROVE  Walk(tab1, r, v) = Leaf(e, v, n, RightsAbove(tab, r, v, n))
  <2>1. n \in 1 .. 3 /\ PageAt(tab1, r, v, n)
    BY <1>0, <1>2, <1>4 DEF Level, PageAt
  <2>2. Walk(tab1, r, v) = Leaf(EntryAt(tab1, r, v, n), v, n, RightsAbove(tab1, r, v, n))
    BY <1>0, <1>3, <2>1, WalkFacts
  <2>3. RightsAbove(tab1, r, v, n) = RightsAbove(tab, r, v, n)
    BY <1>4, EditElsewhere
  <2> QED
    BY <1>2, <2>2, <2>3
<1>5. ASSUME e.kind # "page", e.sub = NULL \/ tab1[e.sub] = Blank
      PROVE  Walk(tab1, r, v) = Unmapped
  <2>1. tab1[e.sub] = Blank
    BY <1>3, <1>5 DEF Tables
  <2>2. ASSUME NEW l \in 1 .. 3
        PROVE  ~PageAt(tab1, r, v, l)
    <3>0. l \in Level /\ Index(v, l) \in 0 .. ENTRIES - 1
      BY Indices DEF Level
    <3>1. CASE l > n
      <4>1. EntryAt(tab, r, v, l).kind = "table"
        BY <1>0, <1>3, <3>0, <3>1, AboveTables
      <4>2. EntryAt(tab1, r, v, l) = EntryAt(tab, r, v, l)
        BY <3>0, <3>1, EditElsewhere
      <4> QED
        BY <4>1, <4>2 DEF PageAt
    <3>2. CASE l = n
      BY <1>2, <1>5, <3>2 DEF PageAt
    <3>3. CASE l < n
      <4>1. EntryAt(tab1, r, v, l) = IF l = n - 1 THEN tab1[e.sub][Index(v, l)] ELSE Empty
        BY <1>0, <1>1, <3>0, <3>3 DEF EntryAfter, Level
      <4>2. tab1[e.sub][Index(v, l)] = Empty
        BY <2>1, <3>0 DEF Blank
      <4> QED
        BY <4>1, <4>2 DEF PageAt, Empty
    <3> QED
      BY <1>0, <3>0, <3>1, <3>2, <3>3 DEF Level
  <2> QED
    BY <1>0, <1>3, <2>2, WalkFacts
<1>6. EntryAt(tab, r, v, n) = tab[t][k]
  <2>1. Same(v, u, n) /\ k = Index(u, n) /\ u \in Page
    BY DEF Through, Place
  <2>2. Index(v, n) = Index(u, n)
    BY <1>0, <2>1, SameFacts
  <2> QED
    BY <1>0, <2>1, <2>2 DEF EntryAt
<1> QED
  BY <1>4, <1>5, <1>6

-----------------------------------------------------------------------------
(* The way down, made where there is none *)

\* A page stays what it is, but may become executable, or part of less.
Finer(m, n) ==
    \/ n = m
    \/ /\ m # Unmapped /\ n # Unmapped
       /\ n.to = m.to
       /\ m.level \in 1 .. 3 /\ n.level \in 1 .. 3 /\ n.level <= m.level
       /\ n.flags \in {m.flags, m.flags \cup {"exec"}}

\* The spaces q and r share what is above v.
Shares(tab, q, r, v) ==
    EntryAt(tab, q, v, 4) = EntryAt(tab, r, v, 4) /\ Table(tab, q, v, 3) # NULL

\* Other spaces see a change in what they share only.
Followed(tab, tab1, root, roots) ==
    \A q \in roots : \A v \in Page :
        /\ \/ Walk(tab1, q, v) = Walk(tab, q, v)
           \/ q = root
           \/ v \in Upper /\ Shares(tab1, q, root, v)
        /\ Shares(tab, q, root, v) => Shares(tab1, q, root, v)

Grown(tab, tab1, root, roots) ==
    /\ Followed(tab, tab1, root, roots)
    /\ \A q \in roots : \A v \in Page : Finer(Walk(tab, q, v), Walk(tab1, q, v))

\* A change of the tables that no walk shows.
Unseen(tab, tab1, roots) ==
    \A q \in roots : \A v \in Page : Walk(tab1, q, v) = Walk(tab, q, v)

\* A state of tables and frames in which no table is free.
Sound(s, roots) ==
    /\ Tables(s.table) /\ roots \subseteq Frames /\ s.free \subseteq Frames /\ s.at \in Row
    /\ Trees(s.table, roots)
    /\ Reached(s.table, roots) \cap s.free = {}

LEMMA FollowedTwice ==
    ASSUME NEW tab, NEW tab1, NEW tab2, NEW root, NEW roots,
           Followed(tab, tab1, root, roots), Followed(tab1, tab2, root, roots)
    PROVE  Followed(tab, tab2, root, roots)
BY DEF Followed

LEMMA FinerTwice ==
    ASSUME NEW a, NEW b, NEW c, Finer(a, b), Finer(b, c)
    PROVE  Finer(a, c)
<1>1. CASE b = a \/ c = b
  BY <1>1
<1>2. CASE b # a /\ c # b
  <2>1. /\ a # Unmapped /\ b # Unmapped /\ c # Unmapped
        /\ b.to = a.to /\ c.to = b.to
        /\ a.level \in 1 .. 3 /\ b.level \in 1 .. 3 /\ c.level \in 1 .. 3
        /\ b.level <= a.level /\ c.level <= b.level
        /\ b.flags \in {a.flags, a.flags \cup {"exec"}}
        /\ c.flags \in {b.flags, b.flags \cup {"exec"}}
    BY <1>2 DEF Finer
  <2>2. c.level <= a.level
    BY <2>1
  <2>3. c.flags \in {a.flags, a.flags \cup {"exec"}}
    BY <2>1
  <2> QED
    BY <2>1, <2>2, <2>3 DEF Finer
<1> QED
  BY <1>1, <1>2

LEMMA GrownTwice ==
    ASSUME NEW tab, NEW tab1, NEW tab2, NEW root, NEW roots,
           Grown(tab, tab1, root, roots), Grown(tab1, tab2, root, roots)
    PROVE  Grown(tab, tab2, root, roots)
<1>1. Followed(tab, tab2, root, roots)
  BY FollowedTwice DEF Grown
<1>2. ASSUME NEW q \in roots, NEW v \in Page
      PROVE  Finer(Walk(tab, q, v), Walk(tab2, q, v))
  BY FinerTwice DEF Grown
<1> QED
  BY <1>1, <1>2 DEF Grown

\* An edit below the PML4, or of an entry that leads nowhere, is followed.
LEMMA EditFollowed ==
    ASSUME NEW tab, NEW tab1, NEW t, NEW k, NEW e, NEW f, Edit(tab, tab1, t, k, e, f),
           NEW roots, NEW root, NEW u, NEW n, Place(tab, roots, root, u, n, t, k, f),
           n < 4 \/ tab[t][k].sub = NULL
    PROVE  Followed(tab, tab1, root, roots)
<1>0. /\ roots \subseteq Frames /\ n \in Level /\ root \in roots /\ u \in Page
      /\ t = Table(tab, root, u, n) /\ t # NULL /\ e.sub \in {NULL, f} /\ Tables(tab)
      /\ k = Index(u, n)
  BY DEF Place, Edit
<1>1. \A r \in roots, v \in Page, l \in Level :
         /\ Table(tab1, r, v, l) = TableAfter(tab, r, v, l, t, u, n, e)
         /\ EntryAt(tab1, r, v, l) = EntryAfter(tab, tab1, r, v, l, t, u, n, e)
  BY Edited
<1>2. \A r, s \in roots : \A v, w \in Page : \A l, m \in Level :
         Table(tab, r, v, l) = Table(tab, s, w, m) /\ Table(tab, r, v, l) # NULL =>
            /\ l = m /\ Same(v, w, l + 1)
            /\ \/ r = s
               \/ v \in Upper /\ l < 4 /\ EntryAt(tab, r, v, 4) = EntryAt(tab, s, v, 4)
  BY DEF Place, Trees
<1>3. ASSUME NEW q \in roots, NEW v \in Page, Shares(tab, q, root, v)
      PROVE  Shares(tab1, q, root, v)
  <2>1. /\ EntryAt(tab, q, v, 4) = EntryAt(tab, root, v, 4) /\ Table(tab, q, v, 3) # NULL
        /\ EntryAt(tab, q, v, 4).sub # NULL
    BY <1>3, TableStep DEF Shares
  <2>2. \A x \in {q, root} : n = 4 => ~Through(tab, x, v, t, u, n)
    <3> SUFFICES ASSUME NEW x \in {q, root}, n = 4, Through(tab, x, v, t, u, n)
                 PROVE  FALSE
      OBVIOUS
    <3>1. EntryAt(tab, x, v, 4) = tab[t][k]
      BY <1>0, EditHere
    <3> QED
      BY <2>1, <3>1
  <2>3. \A x \in {q, root} : EntryAt(tab1, x, v, 4) = EntryAt(tab, x, v, 4)
    <3> SUFFICES ASSUME NEW x \in {q, root}
                 PROVE  EntryAt(tab1, x, v, 4) = EntryAt(tab, x, v, 4)
      OBVIOUS
    <3> QED
      BY <1>0, <1>1, <2>2 DEF EntryAfter, Level
  <2>4. Table(tab1, q, v, 3) = Table(tab, q, v, 3)
    BY <2>3, TableStep
  <2> QED
    BY <2>1, <2>3, <2>4 DEF Shares
<1>4. ASSUME NEW q \in roots, NEW v \in Page, Walk(tab1, q, v) # Walk(tab, q, v), q # root
      PROVE  v \in Upper /\ Shares(tab, q, root, v)
  <2>1. Table(tab, q, v, n) = t /\ Same(v, u, n)
    BY <1>4, EditElsewhere DEF Through
  <2>2. Same(v, u, n + 1)
    BY <1>0, <2>1, SameFacts
  <2>3. Table(tab, root, v, n) = t
    BY <1>0, <2>2, TableSame
  <2>4. v \in Upper /\ n < 4 /\ EntryAt(tab, q, v, 4) = EntryAt(tab, root, v, 4)
    BY <1>0, <1>2, <1>4, <2>1, <2>3
  <2>5. Table(tab, q, v, 3) # NULL
    <3>1. q \in Row
      BY <1>0 DEF Row
    <3> QED
      BY <1>0, <2>1, <2>4, <3>1, TableEnd DEF Level
  <2> QED
    BY <2>4, <2>5 DEF Shares
<1> QED
  BY <1>3, <1>4 DEF Followed

\* A fresh table put in the place of an entry that leads nowhere.
Linking(s, roots, root, u, n, k, fl, c, d) ==
    /\ Sound(s, roots) /\ s.free # {}
    /\ root \in roots /\ u \in Page /\ n \in 2 .. 4
    /\ s.at # NULL /\ s.at = Table(s.table, root, u, n)
    /\ k = Index(u, n) /\ s.table[s.at][k].sub = NULL
    /\ fl \in SUBSET Rights /\ c \in [0 .. ENTRIES - 1 -> Entry]
    /\ \A j \in 0 .. ENTRIES - 1 : c[j].sub = NULL /\ c[j].kind # "table"
    /\ d = Link(s, k, fl, c)

LEMMA Linked ==
    ASSUME NEW s, NEW roots, NEW root, NEW u, NEW n, NEW k, NEW fl, NEW c, NEW d,
           Linking(s, roots, root, u, n, k, fl, c, d)
    PROVE  \E f \in s.free :
              /\ Edit(s.table, d.table, s.at, k, TableEntry(f, fl), f)
              /\ Place(s.table, roots, root, u, n, s.at, k, f)
              /\ d.table[f] = c /\ d.at = f /\ d.free = s.free \ {f}
              /\ Sound(d, roots) /\ d.at = Table(d.table, root, u, n - 1)
              /\ Reached(s.table, roots) \cup s.free \subseteq Reached(d.table, roots) \cup d.free
<1> USE DEF Linking
<1> DEFINE f == CHOOSE x \in s.free : TRUE
           tab == s.table
           e == TableEntry(f, fl)
           tab1 == [tab EXCEPT ![s.at][k] = e, ![f] = c]
<1>1. f \in s.free
  OBVIOUS
<1>2. d = At(tab1, s.free \ {f}, f)
  BY DEF Link
<1>3. d.table = tab1 /\ d.free = s.free \ {f} /\ d.at = f
  BY <1>2 DEF At
<1> HIDE DEF f
<1>4. /\ Tables(tab) /\ roots \subseteq Frames /\ s.free \subseteq Frames /\ s.at \in Row
      /\ Trees(tab, roots) /\ Reached(tab, roots) \cap s.free = {}
  BY DEF Sound
<1>5. n \in Level /\ n - 1 \in Level /\ root \in Row /\ k \in 0 .. ENTRIES - 1 /\ f \in Frames
      /\ f \in Row
  BY <1>1, <1>4, Indices DEF Level, Row
<1>6. s.at \in Reached(tab, roots) /\ f # s.at /\ f # NULL
  <2>1. s.at \in Reached(tab, roots)
    BY <1>5 DEF Reached
  <2> QED
    BY <1>1, <1>4, <1>5, <2>1, GeometryAssumption DEF NULL
<1>7. e.kind = "table" /\ e.sub = f /\ e \in Entry
  BY <1>5 DEF TableEntry, Entry, Rights, NULL
<1>8. tab \in [Row -> [0 .. ENTRIES - 1 -> Entry]]
  BY <1>4 DEF Tables
<1> HIDE DEF e
<1>9. /\ tab1 \in [Row -> [0 .. ENTRIES - 1 -> Entry]]
      /\ tab1[f] = c /\ tab1[s.at] = [tab[s.at] EXCEPT ![k] = e]
      /\ \A g \in Row : g # s.at /\ g # f => tab1[g] = tab[g]
  BY <1>4, <1>5, <1>6, <1>7, <1>8
<1>10. tab1[s.at][k] = e /\ \A j \in 0 .. ENTRIES - 1 : j # k => tab1[s.at][j] = tab[s.at][j]
  <2>1. tab[s.at] \in [0 .. ENTRIES - 1 -> Entry]
    BY <1>4, <1>8
  <2>2. tab1[s.at] = [tab[s.at] EXCEPT ![k] = e]
    BY <1>9
  <2> HIDE DEF tab1
  <2> QED
    BY <1>5, <2>1, <2>2
<1> HIDE DEF tab1
<1>11. Tables(tab1)
  <2>1. tab1[NULL] = Blank
    BY <1>4, <1>6, <1>9 DEF Tables, Row
  <2>2. ASSUME NEW g \in Row, NEW j \in 0 .. ENTRIES - 1
        PROVE  tab1[g][j].kind = "table" <=> tab1[g][j].sub # NULL
    <3>1. CASE g = f
      BY <1>9, <3>1
    <3>2. CASE g = s.at /\ j = k
      BY <1>6, <1>7, <1>10, <3>2
    <3>3. CASE g = s.at /\ j # k
      BY <1>4, <1>10, <3>3 DEF Tables
    <3>4. CASE g # s.at /\ g # f
      BY <1>4, <1>9, <3>4 DEF Tables
    <3> QED
      BY <3>1, <3>2, <3>3, <3>4
  <2> QED
    BY <1>9, <2>1, <2>2 DEF Tables
<1>12. Edit(tab, tab1, s.at, k, e, f)
  BY <1>4, <1>5, <1>6, <1>7, <1>9, <1>10, <1>11 DEF Edit
<1>13. Place(tab, roots, root, u, n, s.at, k, f)
  BY <1>1, <1>4, <1>5 DEF Place
<1>14. Trees(tab1, roots)
  BY <1>12, <1>13, EditTrees
<1>15. /\ Reached(tab1, roots) \subseteq Reached(tab, roots) \cup {f}
       /\ f \in Reached(tab1, roots)
       /\ \A x \in Reached(tab, roots) :
             \/ x \in Reached(tab1, roots)
             \/ \E v \in Page, l \in Level :
                   Same(v, u, n) /\ l < n /\ x = Table(tab, root, v, l)
  BY <1>6, <1>7, <1>12, <1>13, EditReached
<1>16. Reached(tab, roots) \subseteq Reached(tab1, roots)
  <2> SUFFICES ASSUME NEW x \in Reached(tab, roots), x \notin Reached(tab1, roots)
               PROVE  FALSE
    OBVIOUS
  <2>1. PICK v \in Page, l \in Level : Same(v, u, n) /\ l < n /\ x = Table(tab, root, v, l)
    BY <1>15
  <2>2. EntryAt(tab, root, v, n) = tab[s.at][k]
    <3>1. EntryAt(tab, root, v, n) = EntryAt(tab, root, u, n)
      BY <1>5, <2>1, EntrySame
    <3> QED
      BY <3>1 DEF EntryAt
  <2>3. Table(tab, root, v, n - 1) = NULL
    BY <2>2, TableStep
  <2>4. Table(tab, root, v, l) = NULL
    BY <1>4, <1>5, <2>1, <2>3, TableEnd DEF Level
  <2> QED
    BY <2>1, <2>4 DEF Reached
<1>17. Reached(tab1, roots) \cap (s.free \ {f}) = {}
  BY <1>4, <1>15
<1>18. Sound(d, roots)
  BY <1>3, <1>4, <1>5, <1>11, <1>14, <1>17 DEF Sound
<1>19. Table(tab1, root, u, n - 1) = f
  <2>1. Table(tab1, root, u, n - 1) = TableAfter(tab, root, u, n - 1, s.at, u, n, e)
    BY <1>5, <1>12, <1>13, Edited
  <2>2. Through(tab, root, u, s.at, u, n)
    BY DEF Through, Same
  <2> QED
    BY <1>5, <1>7, <2>1, <2>2 DEF TableAfter, Level
<1>20. Reached(tab, roots) \cup s.free \subseteq Reached(tab1, roots) \cup (s.free \ {f})
  BY <1>15, <1>16
<1> QED
  BY <1>1, <1>3, <1>9, <1>12, <1>13, <1>18, <1>19, <1>20 DEF e

LEMMA GrownSelf ==
    ASSUME NEW tab, NEW root, NEW roots
    PROVE  Grown(tab, tab, root, roots)
BY DEF Grown, Followed, Finer

\* A fresh empty table changes no walk.
LEMMA LinkedBlank ==
    ASSUME NEW tab, NEW tab1, NEW t, NEW k, NEW e, NEW f, Edit(tab, tab1, t, k, e, f),
           NEW roots, NEW root, NEW u, NEW n, Place(tab, roots, root, u, n, t, k, f),
           e.kind # "page", e.sub = NULL \/ tab1[e.sub] = Blank,
           tab[t][k].kind = "none", tab[t][k].sub = NULL
    PROVE  Grown(tab, tab1, root, roots) /\ Unseen(tab, tab1, roots)
<1>1. Followed(tab, tab1, root, roots)
  BY EditFollowed
<1>2. ASSUME NEW q \in roots, NEW v \in Page
      PROVE  Walk(tab1, q, v) = Walk(tab, q, v)
  <2>1. CASE ~Through(tab, q, v, t, u, n)
    BY <2>1, EditElsewhere
  <2>2. CASE Through(tab, q, v, t, u, n)
    <3>1. Walk(tab1, q, v) = Unmapped /\ EntryAt(tab, q, v, n) = tab[t][k]
      BY <2>2, EditHere
    <3>2. Tables(tab) /\ q \in Row /\ n \in Level /\ t # NULL /\ Table(tab, q, v, n) = t
      BY <2>2 DEF Edit, Place, Row, Through
    <3>3. Table(tab, q, v, n - 1) = NULL \/ n = 1
      BY <3>1, <3>2, TableStep DEF Level
    <3>4. ASSUME NEW l \in 1 .. 3
          PROVE  ~PageAt(tab, q, v, l)
      <4>0. l \in Level
        BY DEF Level
      <4>1. CASE l > n
        <5>1. EntryAt(tab, q, v, l).kind = "table"
          BY <3>2, <4>0, <4>1, AboveTables
        <5> QED
          BY <5>1 DEF PageAt
      <4>2. CASE l = n
        BY <3>1, <4>2 DEF PageAt
      <4>3. CASE l < n
        <5>1. EntryAt(tab, q, v, l) = Empty
          <6>1. n - 1 \in Level /\ l <= n - 1 /\ Table(tab, q, v, n - 1) = NULL
            BY <3>2, <3>3, <4>0, <4>3 DEF Level
          <6> QED
            BY <3>2, <4>0, <6>1, TableEnd
        <5> QED
          BY <5>1 DEF PageAt, Empty
      <4> QED
        BY <3>2, <4>1, <4>2, <4>3 DEF Level
    <3>5. Walk(tab, q, v) = Unmapped
      BY <3>2, <3>4, WalkFacts
    <3> QED
      BY <3>1, <3>5
  <2> QED
    BY <2>1, <2>2
<1> QED
  BY <1>1, <1>2 DEF Grown, Finer, Unseen

\* A large page that is split stays where it was.
Splitting(tab, tab1, roots, root, u, t, k, e, f) ==
    /\ Edit(tab, tab1, t, k, e, f) /\ Place(tab, roots, root, u, 2, t, k, f)
    /\ tab[t][k].kind = "page" /\ e = TableEntry(f, tab[t][k].flags) /\ f # NULL
    /\ \A j \in 0 .. ENTRIES - 1 :
           tab1[f][j] = PageEntry(tab[t][k].to + j, tab[t][k].flags \cup {"exec"})

LEMMA LinkedSplit ==
    ASSUME NEW tab, NEW tab1, NEW t, NEW k, NEW e, NEW f, NEW roots, NEW root, NEW u,
           Splitting(tab, tab1, roots, root, u, t, k, e, f)
    PROVE  Grown(tab, tab1, root, roots)
<1> USE DEF Splitting
<1> DEFINE old == tab[t][k]
<1>0. /\ Tables(tab) /\ Tables(tab1) /\ t \in Row /\ k \in 0 .. ENTRIES - 1 /\ roots \subseteq Frames
      /\ t # NULL
  BY DEF Edit, Place
<1>1. old \in Entry /\ old.flags \subseteq Rights /\ old.to \in Nat /\ old.sub = NULL
  <2>1. old \in Entry
    BY <1>0 DEF Tables
  <2>2. old.sub = NULL
    BY <1>0 DEF Tables
  <2> QED
    BY <2>1, <2>2 DEF Entry
<1>2. Followed(tab, tab1, root, roots)
  BY <1>1, EditFollowed
<1>3. e.kind = "table" /\ e.sub = f
      /\ e.flags = {"write", "exec", "cache"} \cup (old.flags \cap {"user"})
  BY DEF TableEntry
<1>4. ASSUME NEW q \in roots, NEW v \in Page, Through(tab, q, v, t, u, 2)
      PROVE  Finer(Walk(tab, q, v), Walk(tab1, q, v))
  <2> DEFINE i == Index(v, 1)
             above == EntryAt(tab, q, v, 3).flags \cap EntryAt(tab, q, v, 4).flags
             new == PageEntry(old.to + i, old.flags \cup {"exec"})
  <2>0. q \in Row /\ i \in 0 .. ENTRIES - 1 /\ v % Span[2] = i /\ v % Span[1] = 0
    <3>1. q \in Row /\ i \in 0 .. ENTRIES - 1
      BY <1>0, Indices DEF Row, Level
    <3>2. v \in Nat /\ Span[1] = 1 /\ Span[2] = ENTRIES /\ ENTRIES \in Nat
      <4>1. Span[1 + 1] = Span[1] * ENTRIES /\ Span[1] = 1 /\ ENTRIES \in Nat
        BY Spans, GeometryAssumption
      <4>2. Span[2] = Span[1] * ENTRIES
        BY <4>1
      <4> QED
        BY <4>1, <4>2, Pages
    <3>3. i = (v \div 1) % ENTRIES
      BY <3>2 DEF Index
    <3>4. v \div 1 = v /\ v % 1 = 0
      BY <3>2
    <3> QED
      BY <3>1, <3>2, <3>3, <3>4
  <2>1. \A l \in Level : EntryAt(tab1, q, v, l) = EntryAfter(tab, tab1, q, v, l, t, u, 2, e)
    BY Edited
  <2>2. /\ EntryAt(tab1, q, v, 4) = EntryAt(tab, q, v, 4)
        /\ EntryAt(tab1, q, v, 3) = EntryAt(tab, q, v, 3)
        /\ EntryAt(tab1, q, v, 2) = e
    <3>1. /\ EntryAfter(tab, tab1, q, v, 4, t, u, 2, e) = EntryAt(tab, q, v, 4)
          /\ EntryAfter(tab, tab1, q, v, 3, t, u, 2, e) = EntryAt(tab, q, v, 3)
          /\ EntryAfter(tab, tab1, q, v, 2, t, u, 2, e) = e
      BY <1>4 DEF EntryAfter
    <3> QED
      BY <2>1, <3>1 DEF Level
  <2>3. EntryAt(tab1, q, v, 1) = tab1[f][i]
    <3>1. EntryAfter(tab, tab1, q, v, 1, t, u, 2, e) = tab1[e.sub][Index(v, 1)]
      BY <1>4 DEF EntryAfter
    <3> QED
      BY <1>3, <2>1, <3>1 DEF Level
  <2>4. tab1[f][i] = new
    BY <2>0
  <2>5. EntryAt(tab, q, v, 2) = old
    BY <1>4, EditHere
  <2>6. Walk(tab, q, v) = Leaf(old, v, 2, above)
    <3>1. PageAt(tab, q, v, 2) /\ RightsAbove(tab, q, v, 2) = above
      BY <2>5 DEF PageAt, RightsAbove
    <3> HIDE DEF old, above
    <3>2. Walk(tab, q, v) = Leaf(EntryAt(tab, q, v, 2), v, 2, RightsAbove(tab, q, v, 2))
      BY <1>0, <2>0, <3>1, WalkFacts
    <3> QED
      BY <2>5, <3>1, <3>2
  <2>7. Walk(tab1, q, v) = Leaf(new, v, 1, e.flags \cap above)
    <3>1. new.kind = "page"
      BY DEF PageEntry
    <3>2. PageAt(tab1, q, v, 1)
      BY <2>3, <2>4, <3>1 DEF PageAt
    <3>3. RightsAbove(tab1, q, v, 1) = e.flags \cap above
      BY <2>2 DEF RightsAbove
    <3>4. EntryAt(tab1, q, v, 1) = new
      BY <2>3, <2>4
    <3> HIDE DEF new, above
    <3>5. Walk(tab1, q, v) = Leaf(EntryAt(tab1, q, v, 1), v, 1, RightsAbove(tab1, q, v, 1))
      BY <1>0, <2>0, <3>2, WalkFacts
    <3> QED
      BY <3>3, <3>4, <3>5
  <2>8. new.to = old.to + i /\ new.flags = old.flags \cup {"exec"}
    BY DEF PageEntry
  <2> HIDE DEF new, above, old, i
  <2>9. /\ Walk(tab, q, v) # Unmapped /\ Walk(tab, q, v).level = 2
       /\ Walk(tab, q, v).to = old.to + (v % Span[2])
       /\ Walk(tab, q, v).flags = old.flags \cap above
    <3>1. Walk(tab, q, v) # Unmapped
      <4>1. 2 \in 1 .. 3
        OBVIOUS
      <4> QED
        BY <2>6, <4>1, LeafMapped
    <3>2. /\ Walk(tab, q, v).level = 2
          /\ Walk(tab, q, v).to = old.to + (v % Span[2])
          /\ Walk(tab, q, v).flags = old.flags \cap above
      BY <2>6, LeafFields
    <3> QED
      BY <3>1, <3>2
  <2>10. /\ Walk(tab1, q, v) # Unmapped /\ Walk(tab1, q, v).level = 1
        /\ Walk(tab1, q, v).to = new.to + (v % Span[1])
        /\ Walk(tab1, q, v).flags = new.flags \cap (e.flags \cap above)
    <3>1. Walk(tab1, q, v) # Unmapped
      <4>1. 1 \in 1 .. 3
        OBVIOUS
      <4> QED
        BY <2>7, <4>1, LeafMapped
    <3>2. /\ Walk(tab1, q, v).level = 1
          /\ Walk(tab1, q, v).to = new.to + (v % Span[1])
          /\ Walk(tab1, q, v).flags = new.flags \cap (e.flags \cap above)
      BY <2>7, LeafFields
    <3> QED
      BY <3>1, <3>2
  <2>11. Walk(tab1, q, v).to = Walk(tab, q, v).to
    <3>1. i \in Nat /\ old.to \in Nat
      BY <1>1, <2>0
    <3> QED
      BY <2>0, <2>8, <2>9, <2>10, <3>1
  <2>12. Walk(tab1, q, v).flags \in {Walk(tab, q, v).flags, Walk(tab, q, v).flags \cup {"exec"}}
    <3>1. new.flags \cap (e.flags \cap above) = (old.flags \cup {"exec"}) \cap above
      BY <1>1, <1>3, <2>8 DEF Rights
    <3>2. (old.flags \cup {"exec"}) \cap above
              \in {old.flags \cap above, (old.flags \cap above) \cup {"exec"}}
      <4>1. CASE "exec" \in above
        <5>1. (old.flags \cup {"exec"}) \cap above = (old.flags \cap above) \cup {"exec"}
          BY <4>1
        <5> QED
          BY <5>1
      <4>2. CASE "exec" \notin above
        <5>1. (old.flags \cup {"exec"}) \cap above = old.flags \cap above
          BY <4>2
        <5> QED
          BY <5>1
      <4> QED
        BY <4>1, <4>2
    <3> QED
      BY <2>9, <2>10, <3>1, <3>2
  <2> QED
    BY <2>9, <2>10, <2>11, <2>12 DEF Finer
<1>5. ASSUME NEW q \in roots, NEW v \in Page, ~Through(tab, q, v, t, u, 2)
      PROVE  Finer(Walk(tab, q, v), Walk(tab1, q, v))
  <2>1. Walk(tab1, q, v) = Walk(tab, q, v)
    BY <1>5, EditElsewhere
  <2> QED
    BY <2>1 DEF Finer
<1> QED
  BY <1>2, <1>4, <1>5 DEF Grown

\* One level down.
LEMMA DescendStep ==
    ASSUME NEW s, NEW roots, Sound(s, roots), NEW root \in roots, NEW u \in Page,
           NEW n \in 2 .. 4, s.at \in {NULL, Table(s.table, root, u, n)},
           NEW fl \in SUBSET Rights, NEW d, d = Descend(s, u, n, fl)
    PROVE  /\ Sound(d, roots) /\ d.at \in {NULL, Table(d.table, root, u, n - 1)}
           /\ Grown(s.table, d.table, root, roots)
           /\ Reached(s.table, roots) \cup s.free \subseteq Reached(d.table, roots) \cup d.free
           /\ d.free \subseteq s.free
           /\ n > 2 \/ d.at = NULL => Unseen(s.table, d.table, roots)
<1> DEFINE k == Index(u, n)
           e == s.table[s.at][k]
<1>0. /\ Tables(s.table) /\ roots \subseteq Frames /\ s.free \subseteq Frames /\ s.at \in Row
      /\ n \in Level /\ k \in 0 .. ENTRIES - 1 /\ root \in Row
  BY Indices DEF Sound, Level, Row
<1>1. e \in Entry /\ (e.kind = "table" <=> e.sub # NULL) /\ e.kind \in {"none", "table", "page"}
      /\ e.sub \in Row
  <2>1. e \in Entry /\ (e.kind = "table" <=> e.sub # NULL)
    BY <1>0 DEF Tables
  <2> QED
    BY <2>1 DEF Entry
<1>2. CASE s.at = NULL
  <2>1. d = s
    BY <1>2 DEF Descend
  <2> QED
    BY <1>2, <2>1, GrownSelf DEF Unseen
<1>3. CASE s.at # NULL /\ e.kind = "table"
  <2>1. d = At(s.table, s.free, e.sub)
    BY <1>3 DEF Descend
  <2>2. d.table = s.table /\ d.free = s.free /\ d.at = e.sub
    BY <2>1 DEF At
  <2>3. EntryAt(s.table, root, u, n) = e
    BY <1>3 DEF EntryAt
  <2>4. Table(s.table, root, u, n - 1) = e.sub
    BY <2>3, TableStep
  <2>5. Sound(d, roots)
    BY <1>1, <2>2 DEF Sound
  <2> QED
    BY <2>2, <2>4, <2>5, GrownSelf DEF Unseen
<1>4. CASE s.at # NULL /\ e.kind # "table" /\ (s.free = {} \/ (e.kind = "page" /\ n > 2))
  <2>1. d = At(s.table, s.free, NULL)
    BY <1>4 DEF Descend
  <2>2. d.table = s.table /\ d.free = s.free /\ d.at = NULL
    BY <2>1 DEF At
  <2>3. Sound(d, roots)
    BY <2>2 DEF Sound, Row
  <2> QED
    BY <2>2, <2>3, GrownSelf DEF Unseen
<1>5. CASE s.at # NULL /\ e.kind = "page" /\ s.free # {} /\ n = 2
  <2> DEFINE c == [j \in 0 .. ENTRIES - 1 |-> PageEntry(e.to + j, e.flags \cup {"exec"})]
  <2>1. d = Link(s, k, e.flags, c)
    BY <1>5 DEF Descend, Split
  <2>2. e.flags \in SUBSET Rights /\ e.to \in Nat /\ e.sub = NULL
    BY <1>1, <1>5 DEF Entry
  <2>3. /\ c \in [0 .. ENTRIES - 1 -> Entry]
        /\ \A j \in 0 .. ENTRIES - 1 : c[j].sub = NULL /\ c[j].kind # "table"
    <3> HIDE DEF e
    <3>1. ASSUME NEW j \in 0 .. ENTRIES - 1
          PROVE  /\ PageEntry(e.to + j, e.flags \cup {"exec"}) \in Entry
                 /\ PageEntry(e.to + j, e.flags \cup {"exec"}).sub = NULL
                 /\ PageEntry(e.to + j, e.flags \cup {"exec"}).kind # "table"
      <4>1. e.to + j \in Nat
        BY <2>2
      <4>2. e.flags \cup {"exec"} \in SUBSET Rights
        BY <2>2 DEF Rights
      <4> QED
        BY <4>1, <4>2 DEF PageEntry, Entry, Row
    <3> QED
      BY <3>1
  <2> HIDE DEF c
  <2>4. s.table[s.at][k].sub = NULL
    BY <2>2
  <2>5. PICK f \in s.free :
           /\ Edit(s.table, d.table, s.at, k, TableEntry(f, e.flags), f)
           /\ Place(s.table, roots, root, u, n, s.at, k, f)
           /\ d.table[f] = c /\ d.at = f /\ d.free = s.free \ {f}
           /\ Sound(d, roots) /\ d.at = Table(d.table, root, u, n - 1)
           /\ Reached(s.table, roots) \cup s.free \subseteq Reached(d.table, roots) \cup d.free
    <3>1. Linking(s, roots, root, u, n, k, e.flags, c, d)
      BY <1>5, <2>1, <2>2, <2>3, <2>4 DEF Linking
    <3> QED
      BY <3>1, Linked
  <2>6. Place(s.table, roots, root, u, 2, s.at, k, f) /\ f # NULL
    <3>1. f \in Frames /\ n = 2
      BY <1>0, <1>5
    <3> QED
      BY <2>5, <3>1, GeometryAssumption DEF NULL
  <2>7. \A j \in 0 .. ENTRIES - 1 :
           d.table[f][j] = PageEntry(s.table[s.at][k].to + j, s.table[s.at][k].flags \cup {"exec"})
    BY <2>5 DEF c
  <2>8. Edit(s.table, d.table, s.at, k, TableEntry(f, s.table[s.at][k].flags), f)
    BY <2>5
  <2>9. s.table[s.at][k].kind = "page"
    BY <1>5
  <2>10. Grown(s.table, d.table, root, roots)
    <3>1. Splitting(s.table, d.table, roots, root, u, s.at, k, TableEntry(f, s.table[s.at][k].flags), f)
      BY <2>6, <2>7, <2>8, <2>9 DEF Splitting
    <3> QED
      BY <3>1, LinkedSplit
  <2> QED
    BY <1>5, <2>5, <2>6, <2>10
<1>6. CASE s.at # NULL /\ e.kind = "none" /\ s.free # {}
  <2>1. d = Link(s, k, fl, Blank)
    BY <1>6 DEF Descend
  <2>2. e.sub = NULL
    BY <1>1, <1>6
  <2>3. /\ Blank \in [0 .. ENTRIES - 1 -> Entry]
        /\ \A j \in 0 .. ENTRIES - 1 : Blank[j].sub = NULL /\ Blank[j].kind # "table"
    BY DEF Blank, Empty, Entry, Row, NULL
  <2>4. s.table[s.at][k].sub = NULL
    BY <2>2
  <2>5. PICK f \in s.free :
           /\ Edit(s.table, d.table, s.at, k, TableEntry(f, fl), f)
           /\ Place(s.table, roots, root, u, n, s.at, k, f)
           /\ d.table[f] = Blank /\ d.at = f /\ d.free = s.free \ {f}
           /\ Sound(d, roots) /\ d.at = Table(d.table, root, u, n - 1)
           /\ Reached(s.table, roots) \cup s.free \subseteq Reached(d.table, roots) \cup d.free
    <3>1. Linking(s, roots, root, u, n, k, fl, Blank, d)
      BY <1>6, <2>1, <2>3, <2>4 DEF Linking
    <3> QED
      BY <3>1, Linked
  <2>6. TableEntry(f, fl).kind # "page" /\ TableEntry(f, fl).sub = f
    BY DEF TableEntry
  <2>7. Grown(s.table, d.table, root, roots) /\ Unseen(s.table, d.table, roots)
    BY <1>6, <2>2, <2>5, <2>6, LinkedBlank
  <2> QED
    BY <2>5, <2>7
<1> QED
  BY <1>1, <1>2, <1>3, <1>4, <1>5, <1>6

\* All the way down.
LEMMA ReachSteps ==
    ASSUME NEW roots, NEW root \in roots, NEW v \in Page, NEW l \in 1 .. 3, NEW fl \in SUBSET Rights,
           Sound(At(table, free, root), roots), NEW d, d = Reach(root, v, l, fl)
    PROVE  /\ Sound(d, roots) /\ d.at \in {NULL, Table(d.table, root, v, l)}
           /\ Grown(table, d.table, root, roots)
           /\ Reached(table, roots) \cup free \subseteq Reached(d.table, roots) \cup d.free
           /\ d.free \subseteq free
           /\ d.at = NULL => Unseen(table, d.table, roots)
<1> DEFINE s == At(table, free, root)
           to3 == Descend(s, v, 4, fl)
           to2 == Descend(to3, v, 3, fl)
           to1 == Descend(to2, v, 2, fl)
<1>1. s.table = table /\ s.free = free /\ s.at = root
  BY DEF At
<1>2. Sound(s, roots) /\ s.at \in {NULL, Table(s.table, root, v, 4)}
  BY <1>1, TableStep
<1>3. d = IF l = 3 THEN to3 ELSE IF l = 2 THEN to2 ELSE to1
  <2>1. l = 1 \/ l = 2 \/ l = 3
    OBVIOUS
  <2>2. CASE l = 3
    BY <2>2 DEF Reach
  <2>3. CASE l = 2
    BY <2>3 DEF Reach
  <2>4. CASE l = 1
    BY <2>4 DEF Reach
  <2> QED
    BY <2>1, <2>2, <2>3, <2>4
<1> HIDE DEF s
<1>4. /\ Sound(to3, roots) /\ to3.at \in {NULL, Table(to3.table, root, v, 3)}
      /\ Grown(s.table, to3.table, root, roots)
      /\ Reached(s.table, roots) \cup s.free \subseteq Reached(to3.table, roots) \cup to3.free
      /\ to3.free \subseteq s.free
      /\ Unseen(s.table, to3.table, roots)
  <2>1. 4 \in 2 .. 4 /\ 4 - 1 = 3
    OBVIOUS
  <2>2. \A x : x = to3 =>
      /\ Sound(x, roots) /\ x.at \in {NULL, Table(x.table, root, v, 4 - 1)}
      /\ Grown(s.table, x.table, root, roots)
      /\ Reached(s.table, roots) \cup s.free \subseteq Reached(x.table, roots) \cup x.free
      /\ x.free \subseteq s.free
      /\ 4 > 2 \/ x.at = NULL => Unseen(s.table, x.table, roots)
    BY <1>2, <2>1, DescendStep
  <2> QED
    BY <2>1, <2>2
<1> HIDE DEF to3
<1>5. /\ Sound(to2, roots) /\ to2.at \in {NULL, Table(to2.table, root, v, 2)}
      /\ Grown(to3.table, to2.table, root, roots)
      /\ Reached(to3.table, roots) \cup to3.free \subseteq Reached(to2.table, roots) \cup to2.free
      /\ to2.free \subseteq to3.free
      /\ Unseen(to3.table, to2.table, roots)
  <2>1. 3 \in 2 .. 4 /\ 3 - 1 = 2
    OBVIOUS
  <2>2. \A x : x = to2 =>
      /\ Sound(x, roots) /\ x.at \in {NULL, Table(x.table, root, v, 3 - 1)}
      /\ Grown(to3.table, x.table, root, roots)
      /\ Reached(to3.table, roots) \cup to3.free \subseteq Reached(x.table, roots) \cup x.free
      /\ x.free \subseteq to3.free
      /\ 3 > 2 \/ x.at = NULL => Unseen(to3.table, x.table, roots)
    BY <1>4, <2>1, DescendStep
  <2> QED
    BY <2>1, <2>2
<1> HIDE DEF to2
<1>6. /\ Sound(to1, roots) /\ to1.at \in {NULL, Table(to1.table, root, v, 1)}
      /\ Grown(to2.table, to1.table, root, roots)
      /\ Reached(to2.table, roots) \cup to2.free \subseteq Reached(to1.table, roots) \cup to1.free
      /\ to1.free \subseteq to2.free
      /\ to1.at = NULL => Unseen(to2.table, to1.table, roots)
  <2>1. 2 \in 2 .. 4 /\ 2 - 1 = 1
    OBVIOUS
  <2>2. \A x : x = to1 =>
      /\ Sound(x, roots) /\ x.at \in {NULL, Table(x.table, root, v, 2 - 1)}
      /\ Grown(to2.table, x.table, root, roots)
      /\ Reached(to2.table, roots) \cup to2.free \subseteq Reached(x.table, roots) \cup x.free
      /\ x.free \subseteq to2.free
      /\ 2 > 2 \/ x.at = NULL => Unseen(to2.table, x.table, roots)
    BY <1>5, <2>1, DescendStep
  <2> QED
    BY <2>1, <2>2
<1> HIDE DEF to1
<1>7. Grown(s.table, to2.table, root, roots) /\ Grown(s.table, to1.table, root, roots)
  BY <1>4, <1>5, <1>6, GrownTwice
<1>11. Unseen(s.table, to2.table, roots) /\ (to1.at = NULL => Unseen(s.table, to1.table, roots))
  BY <1>4, <1>5, <1>6 DEF Unseen
<1>8. CASE l = 3
  BY <1>1, <1>3, <1>4, <1>8
<1>9. CASE l = 2
  <2>1. Reached(s.table, roots) \cup s.free \subseteq Reached(to2.table, roots) \cup to2.free
    BY <1>4, <1>5
  <2>2. to2.free \subseteq s.free
    BY <1>4, <1>5
  <2> QED
    BY <1>1, <1>3, <1>5, <1>7, <1>9, <1>11, <2>1, <2>2
<1>10. CASE l = 1
  <2>1. Reached(s.table, roots) \cup s.free \subseteq Reached(to1.table, roots) \cup to1.free
    BY <1>4, <1>5, <1>6
  <2>2. to1.free \subseteq s.free
    BY <1>4, <1>5, <1>6
  <2> QED
    BY <1>1, <1>3, <1>6, <1>7, <1>10, <1>11, <2>1, <2>2
<1> QED
  BY <1>8, <1>9, <1>10

\* An entry that leads nowhere is written into a table that was reached.
Writing(s, roots, root, v, l, e, tab) ==
    /\ Sound(s, roots) /\ root \in roots /\ v \in Page /\ l \in 1 .. 3
    /\ s.at = Table(s.table, root, v, l) /\ s.at # NULL
    /\ e \in Entry /\ e.kind # "table" /\ e.sub = NULL
    /\ tab = [s.table EXCEPT ![s.at][Index(v, l)] = e]

LEMMA Written ==
    ASSUME NEW s, NEW roots, NEW root, NEW v, NEW l, NEW e, NEW tab,
           Writing(s, roots, root, v, l, e, tab)
    PROVE  /\ Edit(s.table, tab, s.at, Index(v, l), e, NULL)
           /\ Place(s.table, roots, root, v, l, s.at, Index(v, l), NULL)
           /\ Sound(At(tab, s.free, NULL), roots)
           /\ Followed(s.table, tab, root, roots)
           /\ \A x \in Reached(s.table, roots) :
                 \/ x \in Reached(tab, roots)
                 \/ \E w \in Page, m \in Level :
                       Same(w, v, l) /\ m < l /\ x = Table(s.table, root, w, m)
<1> USE DEF Writing
<1> DEFINE k == Index(v, l)
<1>1. /\ Tables(s.table) /\ roots \subseteq Frames /\ s.free \subseteq Frames /\ s.at \in Row
      /\ Trees(s.table, roots) /\ Reached(s.table, roots) \cap s.free = {}
      /\ l \in Level /\ l < 4 /\ k \in 0 .. ENTRIES - 1 /\ NULL \in Row
  BY Indices DEF Sound, Level, Row
<1> HIDE DEF k
<1>2. tab = [s.table EXCEPT ![s.at][k] = e] /\ s.table \in [Row -> [0 .. ENTRIES - 1 -> Entry]]
  BY <1>1 DEF k, Tables
<1>3. /\ tab \in [Row -> [0 .. ENTRIES - 1 -> Entry]]
      /\ \A g \in Row : g # s.at => tab[g] = s.table[g]
      /\ tab[s.at][k] = e /\ \A j \in 0 .. ENTRIES - 1 : j # k => tab[s.at][j] = s.table[s.at][j]
  <2> DEFINE old == s.table
             t == s.at
  <2>1. /\ tab = [old EXCEPT ![t][k] = e] /\ old \in [Row -> [0 .. ENTRIES - 1 -> Entry]]
        /\ t \in Row /\ k \in 0 .. ENTRIES - 1 /\ e \in Entry
    BY <1>1, <1>2
  <2> HIDE DEF old, t, Writing
  <2>2. /\ tab \in [Row -> [0 .. ENTRIES - 1 -> Entry]]
        /\ tab[t] = [old[t] EXCEPT ![k] = e]
        /\ \A g \in Row : g # t => tab[g] = old[g]
    BY <2>1
  <2>3. tab[t][k] = e /\ \A j \in 0 .. ENTRIES - 1 : j # k => tab[t][j] = old[t][j]
    BY <2>1, <2>2
  <2> QED
    BY <2>2, <2>3 DEF old, t
<1>4. tab[s.at][k] = e /\ \A j \in 0 .. ENTRIES - 1 : j # k => tab[s.at][j] = s.table[s.at][j]
  BY <1>3
<1>5. Tables(tab)
  <2>1. tab[NULL] = Blank
    BY <1>1, <1>3 DEF Tables
  <2>2. ASSUME NEW g \in Row, NEW j \in 0 .. ENTRIES - 1
        PROVE  tab[g][j].kind = "table" <=> tab[g][j].sub # NULL
    <3>1. CASE g = s.at /\ j = k
      BY <1>4, <3>1
    <3>2. CASE g = s.at /\ j # k
      BY <1>1, <1>4, <3>2 DEF Tables
    <3>3. CASE g # s.at
      BY <1>1, <1>3, <3>3 DEF Tables
    <3> QED
      BY <3>1, <3>2, <3>3
  <2> QED
    BY <1>3, <2>1, <2>2 DEF Tables
<1>6. \A j \in 0 .. ENTRIES - 1 : tab[NULL][j].sub = NULL
  <2> HIDE DEF Writing
  <2>1. tab[NULL] = Blank
    BY <1>5 DEF Tables
  <2>2. ASSUME NEW j \in 0 .. ENTRIES - 1
        PROVE  tab[NULL][j] = Empty
    BY <2>1 DEF Blank
  <2> QED
    BY <2>2 DEF Empty
<1>7. Edit(s.table, tab, s.at, k, e, NULL)
  BY <1>1, <1>3, <1>4, <1>5, <1>6 DEF Edit
<1>8. Place(s.table, roots, root, v, l, s.at, k, NULL)
  BY <1>1 DEF Place, Reached, k
<1>9. Trees(tab, roots)
  BY <1>7, <1>8, EditTrees
<1>10. /\ Reached(tab, roots) \subseteq Reached(s.table, roots) \cup {NULL}
       /\ \A x \in Reached(s.table, roots) :
             \/ x \in Reached(tab, roots)
             \/ \E w \in Page, m \in Level :
                   Same(w, v, l) /\ m < l /\ x = Table(s.table, root, w, m)
  BY <1>7, <1>8, EditReached
<1>11. Reached(tab, roots) \cap s.free = {}
  <2>1. NULL \notin s.free
    BY <1>1, GeometryAssumption DEF NULL
  <2> QED
    BY <1>1, <1>10, <2>1
<1>12. Followed(s.table, tab, root, roots)
  BY <1>1, <1>7, <1>8, EditFollowed
<1>13. Sound(At(tab, s.free, NULL), roots)
  BY <1>1, <1>5, <1>9, <1>11 DEF Sound, At
<1> QED
  BY <1>7, <1>8, <1>10, <1>12, <1>13 DEF k

-----------------------------------------------------------------------------
(* Mapping *)

Aligned(v, l) == v % Span[l] = 0

\* What a call that maps may do to the spaces of roots.
MapEffect(root, v, p, l, fl) ==
    /\ Sound(At(table', free', NULL), Roots) /\ Followed(table, table', root, Roots)
    /\ Reached(table, Roots) \cup free \subseteq Reached(table', Roots) \cup free' \cup orphaned'
    /\ orphaned \subseteq orphaned' /\ orphaned' \subseteq Frames
    /\ tlb' = tlb
    /\ \/ done' = Failed /\ remapped' = remapped /\ Unseen(table, table', Roots)
       \/ /\ done' = Call("map", root, v, l, p, fl) /\ Aligned(v, l)
          /\ remapped' = remapped \cup Overlaid(v .. v + Span[l] - 1, table')
          /\ \A q \in Roots : \A w \in Page :
                ~Same(w, v, l) => Finer(Walk(table, q, w), Walk(table', q, w))
          /\ \A w \in Page : Same(w, v, l) =>
                /\ Walk(table', root, w) # Unmapped
                /\ Walk(table', root, w).to = p + (w - v)
                /\ Walk(table', root, w).flags \subseteq fl

LEMMA PageEntries ==
    ASSUME NEW p \in Nat, NEW fl \in SUBSET Rights
    PROVE  /\ PageEntry(p, fl) \in Entry /\ PageEntry(p, fl).kind = "page"
           /\ PageEntry(p, fl).sub = NULL /\ PageEntry(p, fl).to = p
           /\ PageEntry(p, fl).flags = fl
BY DEF PageEntry, Entry, Row

LEMMA FinerSelf ==
    ASSUME NEW m
    PROVE  Finer(m, m)
BY DEF Finer

LEMMA RefusedEffect ==
    ASSUME NEW root, NEW v, NEW p, NEW l, NEW fl,
           Sound(At(table, free, NULL), Roots), orphaned \subseteq Frames, Refused
    PROVE  MapEffect(root, v, p, l, fl)
<1>1. table' = table /\ free' = free /\ tlb' = tlb /\ remapped' = remapped /\ orphaned' = orphaned
      /\ done' = Failed
  BY DEF Refused
<1>2. Followed(table, table, root, Roots)
  BY DEF Followed
<1>3. Unseen(table, table, Roots)
  BY DEF Unseen
<1> QED
  BY <1>1, <1>2, <1>3 DEF MapEffect

LEMMA SoundAt ==
    ASSUME NEW tab, NEW fr, NEW a \in Row, NEW b \in Row, NEW roots, Sound(At(tab, fr, a), roots)
    PROVE  Sound(At(tab, fr, b), roots)
BY DEF Sound, At

LEMMA SoundOf ==
    ASSUME NEW s, NEW roots, NEW a \in Row, Sound(s, roots)
    PROVE  Sound(At(s.table, s.free, a), roots)
BY DEF Sound, At

LEMMA MapEffects ==
    ASSUME NEW root \in Roots, NEW v \in Page, NEW p \in Nat, NEW l \in 1 .. 3,
           NEW fl \in SUBSET Rights,
           Sound(At(table, free, NULL), Roots), orphaned \subseteq Frames,
           Map(root, v, p, l, fl)
    PROVE  MapEffect(root, v, p, l, fl)
<1> DEFINE s == Reach(root, v, l, fl)
           span == v .. v + Span[l] - 1
           e == PageEntry(p, fl)
<1>0. root \in Row /\ NULL \in Row /\ l \in Level /\ l \in 1 .. 5 /\ Roots \subseteq Frames
  <2>1. Roots \subseteq Frames
    BY DEF Sound, At
  <2> QED
    BY <2>1 DEF Row, Level
<1>1. CASE ~Aligned(v, l) \/ p % Span[l] # 0
  <2>1. Refused
    BY <1>1 DEF Map, Aligned
  <2> QED
    BY <2>1, RefusedEffect
<1>2. /\ Sound(s, Roots) /\ s.at \in {NULL, Table(s.table, root, v, l)}
      /\ Grown(table, s.table, root, Roots)
      /\ Reached(table, Roots) \cup free \subseteq Reached(s.table, Roots) \cup s.free
      /\ s.free \subseteq free
      /\ s.at = NULL => Unseen(table, s.table, Roots)
  <2>1. Sound(At(table, free, root), Roots)
    BY <1>0, SoundAt
  <2> DEFINE d == Reach(root, v, l, fl)
  <2>2. d = Reach(root, v, l, fl)
    OBVIOUS
  <2> HIDE DEF d
  <2>3. /\ Sound(d, Roots) /\ d.at \in {NULL, Table(d.table, root, v, l)}
        /\ Grown(table, d.table, root, Roots)
        /\ Reached(table, Roots) \cup free \subseteq Reached(d.table, Roots) \cup d.free
        /\ d.free \subseteq free
        /\ d.at = NULL => Unseen(table, d.table, Roots)
    BY <2>1, <2>2, ReachSteps
  <2> QED
    BY <2>2, <2>3
<1>3. CASE Aligned(v, l) /\ p % Span[l] = 0 /\ s.at = NULL
  <2>1. /\ table' = s.table /\ free' = s.free /\ done' = Failed
        /\ tlb' = tlb /\ remapped' = remapped /\ orphaned' = orphaned
    BY <1>3 DEF Map, Aligned
  <2> HIDE DEF s
  <2>2. Sound(At(s.table, s.free, NULL), Roots)
    BY <1>0, <1>2, SoundOf
  <2> QED
    BY <1>2, <1>3, <2>1, <2>2 DEF MapEffect, Grown
<1>4. CASE Aligned(v, l) /\ p % Span[l] = 0 /\ s.at # NULL
  <2>1. /\ table' = [s.table EXCEPT ![s.at][Index(v, l)] = e]
        /\ free' = s.free
        /\ done' = Call("map", root, v, l, p, fl)
        /\ remapped' = remapped \cup Overlaid(span, table')
        /\ orphaned' = orphaned \cup
               ({Table(s.table, root, w, m) : w \in span, m \in 1 .. l - 1} \ {NULL})
        /\ tlb' = tlb
    BY <1>4 DEF Map, Aligned
  <2> HIDE DEF s
  <2>2. e \in Entry /\ e.kind = "page" /\ e.sub = NULL /\ e.to = p /\ e.flags = fl
    BY PageEntries
  <2> HIDE DEF e
  <2>3. Writing(s, Roots, root, v, l, e, table')
    BY <1>2, <1>4, <2>1, <2>2 DEF Writing
  <2>4. /\ Edit(s.table, table', s.at, Index(v, l), e, NULL)
        /\ Place(s.table, Roots, root, v, l, s.at, Index(v, l), NULL)
        /\ Sound(At(table', s.free, NULL), Roots)
        /\ Followed(s.table, table', root, Roots)
        /\ \A x \in Reached(s.table, Roots) :
              \/ x \in Reached(table', Roots)
              \/ \E w \in Page, m \in Level :
                    Same(w, v, l) /\ m < l /\ x = Table(s.table, root, w, m)
    BY <2>3, Written
  <2>5. Followed(table, table', root, Roots)
    BY <1>2, <2>4, FollowedTwice DEF Grown
  <2>6. Sound(At(table', free', NULL), Roots)
    BY <2>1, <2>4
  <2>7. \A w \in Nat : w \in span <=> w \in Page /\ Same(w, v, l)
    BY <1>0, <1>4, SpanOf DEF Aligned
  <2>8. span \subseteq Page
    <3>1. ASSUME NEW w \in span
          PROVE  w \in Nat
      <4>1. v \in Nat /\ Span[l] \in Nat
        BY <1>0, Pages, Spans
      <4> QED
        BY <4>1
    <3> QED
      BY <2>7, <3>1
  <2>9. \A w \in Page : w \in Nat
    BY Pages
  <2> HIDE DEF span
  <2>10. ASSUME NEW x \in Reached(s.table, Roots), x \notin Reached(table', Roots)
         PROVE  x \in orphaned'
    <3>1. PICK w \in Page, m \in Level : Same(w, v, l) /\ m < l /\ x = Table(s.table, root, w, m)
      BY <2>4, <2>10
    <3>2. w \in span /\ m \in 1 .. l - 1 /\ x # NULL
      BY <2>7, <2>9, <3>1 DEF Level, Reached
    <3> QED
      BY <2>1, <3>1, <3>2
  <2>11. Reached(table, Roots) \cup free \subseteq Reached(table', Roots) \cup free' \cup orphaned'
    BY <1>2, <2>1, <2>10
  <2>12. orphaned \subseteq orphaned' /\ orphaned' \subseteq Frames
    <3>1. ASSUME NEW w \in span, NEW m \in 1 .. l - 1
          PROVE  Table(s.table, root, w, m) \in Row
      <4>1. Tables(s.table) /\ w \in Page /\ m \in Level
        BY <1>2, <2>8 DEF Sound, Level
      <4> QED
        BY <1>0, <4>1, TableTypes
    <3> QED
      BY <2>1, <3>1 DEF Row
  <2>13. ASSUME NEW q \in Roots, NEW w \in Page, ~Same(w, v, l)
         PROVE  Finer(Walk(table, q, w), Walk(table', q, w))
    <3>1. Walk(table', q, w) = Walk(s.table, q, w)
      BY <2>4, <2>13, EditElsewhere DEF Through
    <3> QED
      BY <1>2, <3>1 DEF Grown
  <2>14. ASSUME NEW w \in Page, Same(w, v, l)
         PROVE  /\ Walk(table', root, w) # Unmapped
                /\ Walk(table', root, w).to = p + (w - v)
                /\ Walk(table', root, w).flags \subseteq fl
    <3>1. Table(s.table, root, w, l) = s.at
      <4>1. Same(w, v, l + 1) /\ s.at = Table(s.table, root, v, l)
        BY <1>0, <1>2, <1>4, <2>14, SameFacts
      <4> QED
        BY <1>0, <4>1, TableSame
    <3>2. Through(s.table, root, w, s.at, v, l)
      BY <2>14, <3>1 DEF Through
    <3>3. Walk(table', root, w) = Leaf(e, w, l, RightsAbove(s.table, root, w, l))
      BY <2>2, <2>4, <3>2, EditHere
    <3>4. w % Span[l] = w - v
      <4>1. Base(w, l) = Base(v, l)
        BY <1>0, <2>14, BaseSame
      <4>2. v % Span[l] = v - Base(v, l) /\ w % Span[l] = w - Base(w, l) /\ v % Span[l] = 0
            /\ Base(v, l) \in Page
        BY <1>0, <1>4, Bases DEF Aligned
      <4>3. v \in Nat /\ w \in Nat /\ Base(v, l) \in Nat
        BY <4>2, Pages
      <4>4. Base(v, l) = v
        BY <4>2, <4>3
      <4> QED
        BY <4>1, <4>2, <4>4
    <3>5. Walk(table', root, w) # Unmapped
      BY <3>3, LeafMapped
    <3>6. /\ Walk(table', root, w).to = e.to + (w % Span[l])
          /\ Walk(table', root, w).flags = e.flags \cap RightsAbove(s.table, root, w, l)
      BY <3>3, LeafFields
    <3> QED
      BY <2>2, <3>4, <3>5, <3>6
  <2>15. /\ done' = Call("map", root, v, l, p, fl) /\ Aligned(v, l)
         /\ remapped' = remapped \cup Overlaid(v .. v + Span[l] - 1, table')
    BY <1>4, <2>1 DEF span
  <2> QED
    BY <2>1, <2>5, <2>6, <2>11, <2>12, <2>13, <2>14, <2>15 DEF MapEffect
<1> QED
  BY <1>1, <1>3, <1>4

-----------------------------------------------------------------------------
(* Unmapping and new rights *)

\* The entry of level l for v in the space of root, a page, becomes e.
RewriteEffect(root, v, l, e) ==
    /\ Sound(At(table', free', NULL), Roots) /\ Followed(table, table', root, Roots)
    /\ Reached(table, Roots) \subseteq Reached(table', Roots)
    /\ free' = free /\ orphaned' = orphaned
    /\ tlb' = {x \in tlb : v \notin x.base .. x.base + Span[x.level] - 1}
    /\ remapped' = remapped \ {v}
    /\ \A q \in Roots : \A w \in Page :
          \/ Walk(table', q, w) = Walk(table, q, w)
          \/ Same(w, v, l) /\ Walk(table, q, w) # Unmapped /\ Walk(table, q, w).level = l
    /\ \A w \in Page : ~Same(w, v, l) => Walk(table', root, w) = Walk(table, root, w)
    /\ \A w \in Page : Same(w, v, l) =>
          /\ Walk(table, root, w) # Unmapped
          /\ e = Empty => Walk(table', root, w) = Unmapped
          /\ e # Empty => /\ Walk(table', root, w) # Unmapped
                          /\ Walk(table', root, w).to = Walk(table, root, w).to
                          /\ Walk(table', root, w).flags \subseteq e.flags

LEMMA RewriteEffects ==
    ASSUME NEW root \in Roots, NEW v \in Page, NEW l \in 1 .. 3,
           Sound(At(table, free, NULL), Roots),
           PageAt(table, root, v, l),
           NEW e \in Entry,
           e = Empty \/ (e.kind = "page" /\ e.sub = NULL /\ e.to = EntryAt(table, root, v, l).to),
           Rewrite(Table(table, root, v, l), v, l, e)
    PROVE  RewriteEffect(root, v, l, e)
<1> DEFINE t == Table(table, root, v, l)
           s == At(table, free, t)
           old == EntryAt(table, root, v, l)
<1>0. /\ Roots \subseteq Frames /\ Tables(table) /\ root \in Row /\ l \in Level /\ l < 4
      /\ l \in 1 .. 5
  <2>1. Roots \subseteq Frames /\ Tables(table)
    BY DEF Sound, At
  <2> QED
    BY <2>1 DEF Row, Level
<1>1. /\ table' = [table EXCEPT ![t][Index(v, l)] = e]
      /\ tlb' = {x \in tlb : v \notin x.base .. x.base + Span[x.level] - 1}
      /\ remapped' = remapped \ {v}
      /\ free' = free /\ orphaned' = orphaned
  BY DEF Rewrite, invlpg
<1>2. old.kind = "page" /\ old.sub = NULL /\ t # NULL /\ t \in Row
  <2>1. old.kind = "page"
    BY DEF PageAt
  <2>2. old.sub = NULL
    BY <1>0, <2>1, TableTypes
  <2>3. t # NULL
    BY <1>0, <2>1, TableTypes DEF Empty
  <2> QED
    BY <1>0, <2>1, <2>2, <2>3, TableTypes
<1>3. s.table = table /\ s.free = free /\ s.at = t
  BY DEF At
<1>4. Sound(s, Roots)
  <2>1. NULL \in Row
    BY DEF Row
  <2> QED
    BY <1>2, <2>1, SoundAt
<1>5. e.kind # "table" /\ e.sub = NULL
  BY DEF Empty
<1>6. Writing(s, Roots, root, v, l, e, table')
  BY <1>1, <1>2, <1>3, <1>4, <1>5 DEF Writing
<1> HIDE DEF s
<1>7. /\ Edit(table, table', t, Index(v, l), e, NULL)
      /\ Place(table, Roots, root, v, l, t, Index(v, l), NULL)
      /\ Sound(At(table', free, NULL), Roots)
      /\ Followed(table, table', root, Roots)
      /\ \A x \in Reached(table, Roots) :
            \/ x \in Reached(table', Roots)
            \/ \E w \in Page, m \in Level :
                  Same(w, v, l) /\ m < l /\ x = Table(table, root, w, m)
  BY <1>3, <1>6, Written
<1> HIDE DEF t
<1>8. \A w \in Page : Same(w, v, l) => EntryAt(table, root, w, l) = old
  BY <1>0, EntrySame
<1> HIDE DEF old
<1>9. ASSUME NEW x \in Reached(table, Roots), x \notin Reached(table', Roots)
      PROVE  FALSE
  <2>1. PICK w \in Page, m \in Level : Same(w, v, l) /\ m < l /\ x = Table(table, root, w, m)
    BY <1>7, <1>9
  <2>2. l \in 2 .. 4 /\ l - 1 \in Level /\ m <= l - 1
    BY <1>0, <2>1 DEF Level
  <2>3. EntryAt(table, root, w, l).sub = NULL
    BY <1>2, <1>8, <2>1
  <2>4. Table(table, root, w, l - 1) = NULL
    BY <2>2, <2>3, TableStep
  <2>5. Table(table, root, w, m) = NULL
    BY <1>0, <2>2, <2>4, TableEnd
  <2> QED
    BY <2>1, <2>5 DEF Reached
<1>10. \A q \in Roots, w \in Page :
          Through(table, q, w, t, v, l) =>
             /\ PageAt(table, q, w, l) /\ EntryAt(table, q, w, l) = old
             /\ Walk(table, q, w) # Unmapped /\ Walk(table, q, w).level = l
  <2> SUFFICES ASSUME NEW q \in Roots, NEW w \in Page, Through(table, q, w, t, v, l)
               PROVE  /\ PageAt(table, q, w, l) /\ EntryAt(table, q, w, l) = old
                      /\ Walk(table, q, w) # Unmapped /\ Walk(table, q, w).level = l
    OBVIOUS
  <2>1. EntryAt(table, q, w, l) = table[t][Index(v, l)]
    BY <1>7, EditHere
  <2>2. old = table[t][Index(v, l)]
    BY DEF old, t, EntryAt
  <2>3. PageAt(table, q, w, l)
    BY <1>2, <2>1, <2>2 DEF PageAt
  <2>4. q \in Row
    BY <1>0 DEF Row
  <2> QED
    BY <1>0, <2>1, <2>2, <2>3, <2>4, WalkFacts
<1>11. ASSUME NEW q \in Roots, NEW w \in Page
       PROVE  \/ Walk(table', q, w) = Walk(table, q, w)
              \/ Same(w, v, l) /\ Walk(table, q, w) # Unmapped /\ Walk(table, q, w).level = l
  <2>1. CASE Through(table, q, w, t, v, l)
    BY <1>10, <2>1 DEF Through
  <2>2. CASE ~Through(table, q, w, t, v, l)
    BY <1>7, <2>2, EditElsewhere
  <2> QED
    BY <2>1, <2>2
<1>12. ASSUME NEW w \in Page, ~Same(w, v, l)
       PROVE  Walk(table', root, w) = Walk(table, root, w)
  BY <1>7, <1>12, EditElsewhere DEF Through
<1>13. ASSUME NEW w \in Page, Same(w, v, l)
       PROVE  /\ Walk(table, root, w) # Unmapped
              /\ e = Empty => Walk(table', root, w) = Unmapped
              /\ e # Empty => /\ Walk(table', root, w) # Unmapped
                              /\ Walk(table', root, w).to = Walk(table, root, w).to
                              /\ Walk(table', root, w).flags \subseteq e.flags
  <2>1. Through(table, root, w, t, v, l)
    <3>1. Same(w, v, l + 1)
      BY <1>0, <1>13, SameFacts
    <3>2. Table(table, root, w, l) = Table(table, root, v, l)
      BY <1>0, <3>1, TableSame
    <3> QED
      BY <1>13, <3>2 DEF Through, t
  <2>2. PageAt(table, root, w, l) /\ EntryAt(table, root, w, l) = old /\ Walk(table, root, w) # Unmapped
    BY <1>10, <2>1
  <2>3. e = Empty => Walk(table', root, w) = Unmapped
    <3>1. e = Empty => e.kind # "page"
      BY DEF Empty
    <3> QED
      BY <1>5, <1>7, <2>1, <3>1, EditHere
  <2>4. ASSUME e # Empty
        PROVE  /\ Walk(table', root, w) # Unmapped
               /\ Walk(table', root, w).to = Walk(table, root, w).to
               /\ Walk(table', root, w).flags \subseteq e.flags
    <3>1. e.kind = "page" /\ e.to = old.to
      BY <2>4 DEF old
    <3>2. Walk(table', root, w) = Leaf(e, w, l, RightsAbove(table, root, w, l))
      BY <1>0, <1>7, <2>1, <3>1, EditHere
    <3>3. Walk(table, root, w) = Leaf(old, w, l, RightsAbove(table, root, w, l))
      BY <1>0, <2>2, WalkFacts
    <3>4. Walk(table', root, w) # Unmapped
      BY <3>2, LeafMapped
    <3>5. /\ Walk(table', root, w).to = e.to + (w % Span[l])
          /\ Walk(table', root, w).flags = e.flags \cap RightsAbove(table, root, w, l)
      BY <3>2, LeafFields
    <3>6. Walk(table, root, w).to = old.to + (w % Span[l])
      BY <3>3, LeafFields
    <3> QED
      BY <3>1, <3>4, <3>5, <3>6
  <2> QED
    BY <2>2, <2>3, <2>4
<1>14. Reached(table, Roots) \subseteq Reached(table', Roots)
  BY <1>9
<1> QED
  BY <1>1, <1>7, <1>11, <1>12, <1>13, <1>14 DEF RewriteEffect

-----------------------------------------------------------------------------
(* The invariant *)

\* Where paging_init is, and what it has.
PlaceInv ==
    /\ machine \in Machines
    /\ pc \in {"init", "map", "ready"} /\ next \in Nat \X Nat \X Nat /\ ops \in 0 .. MaxOps
    /\ pc = "init" => table = [f \in Row |-> Blank] /\ kernel_pml4 = NULL /\ spaces = {}
    /\ pc = "map" => kernel_pml4 # NULL

RootsInv ==
    /\ spaces \subseteq Frames /\ kernel_pml4 \in Row /\ kernel_pml4 \notin spaces
    /\ cr3 \in Roots \cup {NULL}
    /\ remapped \subseteq Page /\ orphaned \subseteq Frames

SoundInv == Sound(At(table, free, NULL), Roots)

LeakInv == machine.frames \subseteq free \cup orphaned \cup Reached(table, Roots)

\* What is cached is what a walk finds, or a part of it.
CachedInv ==
    /\ cr3 = NULL => tlb = {}
    /\ \A e \in tlb : e.level \in 1 .. 3 /\ e.base \in Page /\ Aligned(e.base, e.level)
    /\ \A e \in tlb : \A w \in Page :
          Same(w, e.base, e.level) /\ w \notin remapped =>
             /\ Walk(table, cr3, w) # Unmapped
             /\ Walk(table, cr3, w).level <= e.level
             /\ Walk(table, cr3, w).to = e.to + (w - e.base)
             /\ e.flags \subseteq Walk(table, cr3, w).flags

MemInv == RootsInv /\ SoundInv /\ LeakInv /\ CachedInv

PInv == PlaceInv /\ MemInv

LEMMA CachedKept ==
    ASSUME CachedInv, cr3' = cr3, tlb' \subseteq tlb,
           \A x \in tlb' : \A w \in Page :
              Same(w, x.base, x.level) /\ w \notin remapped' =>
                 w \notin remapped /\ Finer(Walk(table, cr3, w), Walk(table', cr3, w))
    PROVE  CachedInv'
<1>1. cr3' = NULL => tlb' = {}
  BY DEF CachedInv
<1>2. ASSUME NEW e \in tlb'
      PROVE  e.level \in 1 .. 3 /\ e.base \in Page /\ Aligned(e.base, e.level)
  BY <1>2 DEF CachedInv
<1>3. ASSUME NEW e \in tlb', NEW w \in Page, Same(w, e.base, e.level), w \notin remapped'
      PROVE  /\ Walk(table', cr3', w) # Unmapped
             /\ Walk(table', cr3', w).level <= e.level
             /\ Walk(table', cr3', w).to = e.to + (w - e.base)
             /\ e.flags \subseteq Walk(table', cr3', w).flags
  <2> DEFINE m == Walk(table, cr3, w)
             n == Walk(table', cr3, w)
  <2>1. Finer(m, n) /\ w \notin remapped /\ e \in tlb
    BY <1>3
  <2>2. /\ m # Unmapped /\ m.level <= e.level /\ m.to = e.to + (w - e.base) /\ e.flags \subseteq m.flags
        /\ e.level \in 1 .. 3
    BY <1>3, <2>1 DEF CachedInv
  <2>3. n = Walk(table', cr3', w)
    OBVIOUS
  <2> HIDE DEF m, n
  <2>4. n # Unmapped /\ n.level <= e.level /\ n.to = m.to /\ e.flags \subseteq n.flags
    <3>1. CASE n = m
      BY <2>2, <3>1
    <3>2. CASE n # m
      <4>1. /\ n # Unmapped /\ n.to = m.to
            /\ m.level \in 1 .. 3 /\ n.level \in 1 .. 3 /\ n.level <= m.level
            /\ n.flags \in {m.flags, m.flags \cup {"exec"}}
        BY <2>1, <3>2 DEF Finer
      <4>2. n.level <= e.level
        BY <2>2, <4>1
      <4>3. e.flags \subseteq n.flags
        BY <2>2, <4>1
      <4> QED
        BY <4>1, <4>2, <4>3
    <3> QED
      BY <3>1, <3>2
  <2> QED
    BY <2>2, <2>3, <2>4
<1> QED
  BY <1>1, <1>2, <1>3 DEF CachedInv

\* Mapping keeps the invariant: what it maps over is not to be found cached.
LEMMA MapKeeps ==
    ASSUME MemInv, NEW root \in Roots, NEW v \in Page, NEW p \in Nat, NEW l \in 1 .. 3,
           NEW fl \in SUBSET Rights, Map(root, v, p, l, fl),
           UNCHANGED <<machine, kernel_pml4, spaces, cr3>>
    PROVE  MemInv'
<1>1. MapEffect(root, v, p, l, fl)
  BY MapEffects DEF MemInv, RootsInv, SoundInv
<1>2. Roots' = Roots
  BY DEF Roots
<1>3. SoundInv'
  BY <1>1, <1>2 DEF MapEffect, SoundInv
<1>4. LeakInv'
  BY <1>1, <1>2 DEF MapEffect, MemInv, LeakInv
<1> DEFINE span == v .. v + Span[l] - 1
<1>5. remapped \subseteq remapped' /\ remapped' \subseteq Page
  <2>1. Aligned(v, l) => span \subseteq Page
    <3> SUFFICES ASSUME Aligned(v, l), NEW w \in span
                 PROVE  w \in Page
      OBVIOUS
    <3>1. v \in Nat /\ Span[l] \in Nat /\ l \in 1 .. 5
      BY Pages, Spans
    <3>2. w \in Nat
      BY <3>1
    <3> QED
      BY <3>1, <3>2, SpanOf DEF Aligned
  <2>2. Overlaid(span, table') \subseteq span
    BY DEF Overlaid
  <2> QED
    BY <1>1, <2>1, <2>2 DEF MapEffect, MemInv, RootsInv
<1>6. RootsInv'
  BY <1>1, <1>2, <1>5 DEF MapEffect, MemInv, RootsInv
<1>7. CachedInv'
  <2>1. CachedInv /\ tlb' = tlb /\ cr3' = cr3
    BY <1>1 DEF MemInv, MapEffect
  <2>2. ASSUME NEW x \in tlb', NEW w \in Page, Same(w, x.base, x.level), w \notin remapped'
        PROVE  w \notin remapped /\ Finer(Walk(table, cr3, w), Walk(table', cr3, w))
    <3>1. w \notin remapped
      BY <1>5, <2>2
    <3>2. cr3 # NULL /\ cr3 \in Roots
      BY <2>1 DEF CachedInv, MemInv, RootsInv
    <3>3. Walk(table, cr3, w) # Unmapped
      BY <2>1, <2>2, <3>1 DEF CachedInv
    <3>4. CASE done' = Failed /\ remapped' = remapped /\ Unseen(table, table', Roots)
      BY <3>1, <3>2, <3>4, FinerSelf DEF Unseen
    <3>5. CASE /\ Aligned(v, l) /\ remapped' = remapped \cup Overlaid(v .. v + Span[l] - 1, table')
               /\ \A q \in Roots : \A y \in Page :
                     ~Same(y, v, l) => Finer(Walk(table, q, y), Walk(table', q, y))
      <4>1. CASE ~Same(w, v, l)
        BY <3>1, <3>2, <3>5, <4>1
      <4>2. CASE Same(w, v, l)
        <5>1. w \in span
          <6>1. l \in 1 .. 5 /\ w \in Nat
            BY Pages
          <6> QED
            BY <3>5, <4>2, <6>1, SpanOf DEF Aligned
        <5>2. w \notin Overlaid(span, table')
          BY <2>2, <3>5
        <5>3. Walk(table', cr3, w) = Walk(table, cr3, w)
          <6> HIDE DEF span
          <6> QED
            BY <3>2, <3>3, <5>1, <5>2 DEF Overlaid
        <5> QED
          BY <3>1, <5>3, FinerSelf
      <4> QED
        BY <4>1, <4>2
    <3> QED
      BY <1>1, <3>1, <3>4, <3>5 DEF MapEffect
  <2> QED
    BY <2>1, <2>2, CachedKept
<1> QED
  BY <1>3, <1>4, <1>6, <1>7 DEF MemInv

\* So does replacing an entry for a page: what was cached of it is dropped.
LEMMA RewriteKeeps ==
    ASSUME MemInv, NEW root \in Roots, NEW v \in Page, NEW l \in 1 .. 3, NEW e,
           RewriteEffect(root, v, l, e), UNCHANGED <<machine, kernel_pml4, spaces, cr3>>
    PROVE  MemInv'
<1>2. Roots' = Roots
  BY DEF Roots
<1>3. SoundInv'
  BY <1>2 DEF RewriteEffect, SoundInv
<1>4. LeakInv'
  BY <1>2 DEF RewriteEffect, MemInv, LeakInv
<1>5. RootsInv'
  BY <1>2 DEF RewriteEffect, MemInv, RootsInv
<1>6. CachedInv'
  <2>1. CachedInv /\ cr3' = cr3
        /\ tlb' = {x \in tlb : v \notin x.base .. x.base + Span[x.level] - 1}
        /\ remapped' = remapped \ {v}
    BY DEF MemInv, RewriteEffect
  <2>2. ASSUME NEW x \in tlb', NEW w \in Page, Same(w, x.base, x.level), w \notin remapped'
        PROVE  w \notin remapped /\ Finer(Walk(table, cr3, w), Walk(table', cr3, w))
    <3>1. /\ x \in tlb /\ x.level \in 1 .. 3 /\ x.base \in Page /\ Aligned(x.base, x.level)
          /\ v \notin x.base .. x.base + Span[x.level] - 1
      BY <2>1 DEF CachedInv
    <3>2. ~Same(v, x.base, x.level)
      <4>1. v \in Nat /\ x.level \in 1 .. 5
        BY <3>1, Pages
      <4> QED
        BY <3>1, <4>1, SpanOf DEF Aligned
    <3>3. w \notin remapped
      BY <2>1, <2>2, <3>2
    <3>4. cr3 # NULL /\ cr3 \in Roots
      BY <2>1, <3>1 DEF CachedInv, MemInv, RootsInv
    <3>5. Walk(table, cr3, w).level <= x.level
      BY <2>1, <2>2, <3>1, <3>3 DEF CachedInv
    <3>6. ~(Same(w, v, l) /\ Walk(table, cr3, w) # Unmapped /\ Walk(table, cr3, w).level = l)
      <4> SUFFICES ASSUME Same(w, v, l), Walk(table, cr3, w).level = l
                   PROVE  FALSE
        OBVIOUS
      <4>1. l <= x.level /\ l \in Level /\ x.level \in 1 .. 5
        BY <3>1, <3>5 DEF Level
      <4>2. Same(w, v, x.level)
        BY <4>1, SameFacts
      <4> QED
        BY <2>2, <3>2, <4>2 DEF Same
    <3>7. Walk(table', cr3, w) = Walk(table, cr3, w)
      BY <3>4, <3>6 DEF RewriteEffect
    <3> QED
      BY <3>3, <3>7, FinerSelf
  <2> QED
    BY <2>1, <2>2, CachedKept
<1> QED
  BY <1>3, <1>4, <1>5, <1>6 DEF MemInv

LEMMA RefusedKeeps ==
    ASSUME MemInv, Refused, UNCHANGED <<machine, kernel_pml4, spaces, cr3>>
    PROVE  MemInv'
BY DEF MemInv, RootsInv, SoundInv, LeakInv, CachedInv, Refused, Roots

LEMMA UnmapKeeps ==
    ASSUME MemInv, NEW root \in Roots, NEW v \in Page, NEW l \in 1 .. 2, Unmap(root, v, l),
           UNCHANGED <<machine, kernel_pml4, spaces, cr3>>
    PROVE  MemInv'
<1> DEFINE t == Table(table, root, v, l)
<1>1. CASE t # NULL /\ table[t][Index(v, l)].kind = "page"
  <2>1. Rewrite(t, v, l, Empty)
    BY <1>1 DEF Unmap
  <2>2. PageAt(table, root, v, l) /\ l \in 1 .. 3
    BY <1>1 DEF PageAt, EntryAt
  <2>3. Empty \in Entry
    BY DEF Empty, Entry, Row, NULL
  <2>4. RewriteEffect(root, v, l, Empty)
    BY <2>1, <2>2, <2>3, RewriteEffects DEF MemInv, SoundInv
  <2> QED
    BY <2>2, <2>4, RewriteKeeps
<1>2. CASE ~(t # NULL /\ table[t][Index(v, l)].kind = "page")
  <2>1. Refused
    BY <1>2 DEF Unmap
  <2> QED
    BY <2>1, RefusedKeeps
<1> QED
  BY <1>1, <1>2

LEMMA SetFlagsKeeps ==
    ASSUME MemInv, NEW root \in Roots, NEW v \in Page, NEW fl \in SUBSET Rights,
           SetFlags(root, v, fl), UNCHANGED <<machine, kernel_pml4, spaces, cr3>>
    PROVE  MemInv'
<1> DEFINE l == Walk(table, root, v).level
           t == Table(table, root, v, l)
           e == PageEntry(table[t][Index(v, l)].to, fl)
<1>1. CASE Walk(table, root, v) # Unmapped
  <2>1. Rewrite(t, v, l, e)
    BY <1>1 DEF SetFlags
  <2>2. Tables(table) /\ root \in Row
    BY DEF MemInv, SoundInv, Sound, At, Row
  <2>3. l \in 1 .. 3 /\ PageAt(table, root, v, l)
    BY <1>1, <2>2, WalkFacts
  <2>4. e = PageEntry(EntryAt(table, root, v, l).to, fl)
    BY DEF EntryAt
  <2>5. EntryAt(table, root, v, l).to \in Nat
    <3> HIDE DEF l
    <3>1. l \in Level
      BY <2>3 DEF Level
    <3>2. EntryAt(table, root, v, l) \in Entry
      BY <2>2, <3>1, TableTypes
    <3> QED
      BY <3>2 DEF Entry
  <2> HIDE DEF e, t, l
  <2>6. e \in Entry /\ e.kind = "page" /\ e.sub = NULL /\ e.to = EntryAt(table, root, v, l).to
    BY <2>4, <2>5, PageEntries
  <2>7. Rewrite(Table(table, root, v, l), v, l, e)
    BY <2>1 DEF t
  <2>8. RewriteEffect(root, v, l, e)
    BY <2>3, <2>6, <2>7, RewriteEffects DEF MemInv, SoundInv
  <2> QED
    BY <2>3, <2>8, RewriteKeeps
<1>2. CASE Walk(table, root, v) = Unmapped
  <2>1. Refused
    BY <1>2 DEF SetFlags
  <2> QED
    BY <2>1, RefusedKeeps
<1> QED
  BY <1>1, <1>2

-----------------------------------------------------------------------------
(* The processor *)

\* What a walk finds, it finds for all pages of the same entry.
LEMMA FillKeeps ==
    ASSUME MemInv, NEW v \in Page, Fill(v)
    PROVE  MemInv'
<1> DEFINE m == Walk(table, cr3, v)
           l == m.level
           e == [base |-> Base(v, l), level |-> l, to |-> m.to - (v % Span[l]), flags |-> m.flags]
<1>1. /\ cr3 # NULL /\ m # Unmapped /\ tlb' = {e}
      /\ UNCHANGED <<machine, table, free, kernel_pml4, spaces, cr3, remapped, orphaned>>
  BY DEF Fill
<1>2. Roots' = Roots
  BY <1>1 DEF Roots
<1>3. RootsInv' /\ SoundInv' /\ LeakInv'
  BY <1>1, <1>2 DEF MemInv, RootsInv, SoundInv, LeakInv
<1>4. cr3 \in Row /\ Tables(table)
  BY <1>1 DEF MemInv, RootsInv, SoundInv, Sound, At, Row
<1>5. l \in 1 .. 3 /\ PageAt(table, cr3, v, l)
  BY <1>1, <1>4, WalkFacts
<1> DEFINE x == EntryAt(table, cr3, v, l)
           above == RightsAbove(table, cr3, v, l)
<1>6. m = Leaf(x, v, l, above)
  <2> HIDE DEF l
  <2> QED
    BY <1>4, <1>5, WalkFacts
<1>7. m.to = x.to + (v % Span[l]) /\ m.flags = x.flags \cap above /\ m.level = l
  <2> HIDE DEF l, x, above
  <2> QED
    BY <1>6, LeafFields
<1>8. e.base = Base(v, l) /\ e.level = l /\ e.to = m.to - (v % Span[l]) /\ e.flags = m.flags
  OBVIOUS
<1> HIDE DEF e, l, m
<1>9. l \in Level /\ l \in 1 .. 5
  BY <1>5 DEF Level
<1>10. x.to \in Nat
  <2>1. x \in Entry
    BY <1>4, <1>9, TableTypes
  <2> HIDE DEF x
  <2> QED
    BY <2>1 DEF Entry
<1>11. /\ Base(v, l) \in Page /\ v % Span[l] \in Nat /\ Base(v, l) % Span[l] = 0
       /\ Same(Base(v, l), v, l)
  BY <1>9, Bases
<1>12. e.to = x.to
  BY <1>7, <1>8, <1>10, <1>11
<1>13. ASSUME NEW w \in Page, Same(w, Base(v, l), l)
       PROVE  /\ Walk(table, cr3, w) # Unmapped
              /\ Walk(table, cr3, w).level <= l
              /\ Walk(table, cr3, w).to = e.to + (w - Base(v, l))
              /\ m.flags = Walk(table, cr3, w).flags
  <2>1. Same(w, v, l)
    BY <1>11, <1>13 DEF Same
  <2>2. EntryAt(table, cr3, w, l) = x
    BY <1>9, <2>1, EntrySame
  <2>3. RightsAbove(table, cr3, w, l) = above
    <3>1. \A n \in 2 .. 4 : l < n => EntryAt(table, cr3, w, n) = EntryAt(table, cr3, v, n)
      <4> SUFFICES ASSUME NEW n \in 2 .. 4, l < n
                   PROVE  EntryAt(table, cr3, w, n) = EntryAt(table, cr3, v, n)
        OBVIOUS
      <4>1. n \in Level /\ n \in 1 .. 5 /\ l <= n
        BY <1>9 DEF Level
      <4>2. Same(w, v, n)
        BY <1>9, <2>1, <4>1, SameFacts
      <4> QED
        BY <4>1, <4>2, EntrySame
    <3>2. l = 1 \/ l = 2 \/ l = 3
      BY <1>5
    <3>3. CASE l = 3
      <4>1. EntryAt(table, cr3, w, 4) = EntryAt(table, cr3, v, 4)
        BY <3>1, <3>3
      <4> QED
        BY <3>3, <4>1 DEF RightsAbove
    <3>4. CASE l = 2
      <4>1. /\ EntryAt(table, cr3, w, 4) = EntryAt(table, cr3, v, 4)
            /\ EntryAt(table, cr3, w, 3) = EntryAt(table, cr3, v, 3)
        BY <3>1, <3>4
      <4> QED
        BY <3>4, <4>1 DEF RightsAbove
    <3>5. CASE l = 1
      <4>1. /\ EntryAt(table, cr3, w, 4) = EntryAt(table, cr3, v, 4)
            /\ EntryAt(table, cr3, w, 3) = EntryAt(table, cr3, v, 3)
            /\ EntryAt(table, cr3, w, 2) = EntryAt(table, cr3, v, 2)
        BY <3>1, <3>5
      <4> QED
        BY <3>5, <4>1 DEF RightsAbove
    <3> QED
      BY <3>2, <3>3, <3>4, <3>5
  <2>4. PageAt(table, cr3, w, l)
    BY <1>5, <2>2 DEF PageAt
  <2>5. Walk(table, cr3, w) = Leaf(x, w, l, above) /\ Walk(table, cr3, w) # Unmapped
    <3>1. /\ Walk(table, cr3, w) # Unmapped
          /\ Walk(table, cr3, w) = Leaf(EntryAt(table, cr3, w, l), w, l, RightsAbove(table, cr3, w, l))
      BY <1>4, <1>5, <2>4, WalkFacts
    <3> QED
      BY <2>2, <2>3, <3>1
  <2> HIDE DEF x, above
  <2>6. /\ Walk(table, cr3, w).to = x.to + (w % Span[l])
        /\ Walk(table, cr3, w).flags = x.flags \cap above
        /\ Walk(table, cr3, w).level = l
    BY <2>5, LeafFields
  <2>7. w % Span[l] = w - Base(v, l)
    <3>1. Base(w, l) = Base(v, l)
      BY <1>9, <2>1, BaseSame
    <3> QED
      BY <1>9, <3>1, Bases
  <2> QED
    BY <1>5, <1>7, <1>12, <2>5, <2>6, <2>7
<1>14. CachedInv'
  <2>1. cr3' = cr3 /\ table' = table /\ tlb' = {e}
    BY <1>1
  <2>2. \A z \in tlb' : z.level \in 1 .. 3 /\ z.base \in Page /\ Aligned(z.base, z.level)
    BY <1>5, <1>8, <1>11, <2>1 DEF Aligned
  <2>3. \A z \in tlb' : \A w \in Page :
           Same(w, z.base, z.level) /\ w \notin remapped' =>
              /\ Walk(table', cr3', w) # Unmapped
              /\ Walk(table', cr3', w).level <= z.level
              /\ Walk(table', cr3', w).to = z.to + (w - z.base)
              /\ z.flags \subseteq Walk(table', cr3', w).flags
    <3> SUFFICES ASSUME NEW w \in Page, Same(w, e.base, e.level)
                 PROVE  /\ Walk(table, cr3, w) # Unmapped
                        /\ Walk(table, cr3, w).level <= e.level
                        /\ Walk(table, cr3, w).to = e.to + (w - e.base)
                        /\ e.flags \subseteq Walk(table, cr3, w).flags
      BY <2>1
    <3> QED
      BY <1>8, <1>13
  <2>4. cr3' # NULL
    BY <1>1
  <2> QED
    BY <2>2, <2>3, <2>4 DEF CachedInv
<1> QED
  BY <1>3, <1>14 DEF MemInv

LEMMA LoadKeeps ==
    ASSUME MemInv, NEW root \in Roots, load_cr3(root),
           UNCHANGED <<machine, table, free, kernel_pml4, spaces, orphaned>>
    PROVE  MemInv'
<1>1. cr3' = root /\ tlb' = {} /\ remapped' = {} /\ Roots' = Roots
  BY DEF load_cr3, Roots
<1>2. CachedInv'
  BY <1>1 DEF CachedInv
<1>3. RootsInv' /\ SoundInv' /\ LeakInv'
  BY <1>1 DEF MemInv, RootsInv, SoundInv, LeakInv
<1> QED
  BY <1>2, <1>3 DEF MemInv

\* Spaces come and go without the one that is loaded.
LEMMA CachedAside ==
    ASSUME CachedInv, tlb' = tlb, remapped' = remapped, cr3' = cr3,
           cr3 # NULL => \A w \in Page : Walk(table', cr3, w) = Walk(table, cr3, w)
    PROVE  CachedInv'
<1>1. ASSUME NEW x \in tlb', NEW w \in Page, Same(w, x.base, x.level), w \notin remapped'
      PROVE  w \notin remapped /\ Finer(Walk(table, cr3, w), Walk(table', cr3, w))
  <2>1. cr3 # NULL
    BY DEF CachedInv
  <2>2. Walk(table', cr3, w) = Walk(table, cr3, w)
    BY <2>1
  <2> QED
    BY <1>1, <2>2, FinerSelf
<1> QED
  BY <1>1, CachedKept

\* Ways through rows that keep their contents are the same.
WayKept(tab, tab1, r, v) ==
    /\ \A l \in Level : /\ Table(tab1, r, v, l) = Table(tab, r, v, l)
                        /\ EntryAt(tab1, r, v, l) = EntryAt(tab, r, v, l)
    /\ Walk(tab1, r, v) = Walk(tab, r, v)

LEMMA WaysKept ==
    ASSUME NEW tab, NEW tab1, NEW r, NEW v,
           \A l \in Level : tab1[Table(tab, r, v, l)] = tab[Table(tab, r, v, l)]
    PROVE  WayKept(tab, tab1, r, v)
<1>1. ASSUME NEW l \in Level, Table(tab1, r, v, l) = Table(tab, r, v, l)
      PROVE  EntryAt(tab1, r, v, l) = EntryAt(tab, r, v, l)
  BY <1>1 DEF EntryAt
<1>2. Table(tab1, r, v, 4) = Table(tab, r, v, 4)
  BY TableStep
<1>3. Table(tab1, r, v, 3) = Table(tab, r, v, 3)
  BY <1>1, <1>2, TableStep DEF Level
<1>4. Table(tab1, r, v, 2) = Table(tab, r, v, 2)
  BY <1>1, <1>3, TableStep DEF Level
<1>5. Table(tab1, r, v, 1) = Table(tab, r, v, 1)
  BY <1>1, <1>4, TableStep DEF Level
<1>6. \A l \in Level : Table(tab1, r, v, l) = Table(tab, r, v, l)
  BY <1>2, <1>3, <1>4, <1>5 DEF Level
<1>7. \A l \in Level : EntryAt(tab1, r, v, l) = EntryAt(tab, r, v, l)
  BY <1>1, <1>6
<1>8. Walk(tab1, r, v) = Walk(tab, r, v)
  BY <1>7, WalkAlike
<1> QED
  BY <1>6, <1>7, <1>8 DEF WayKept

-----------------------------------------------------------------------------
(* A space more *)

\* From the new root f the way leads through fresh tables, each at one place,
\* or into the upper half of a space there is.
OwnWay(tab1, f, fr, fr1, v, l) == Table(tab1, f, v, l) \in fr \ fr1

SharedWay(tab, tab1, f, roots, v, l) ==
    /\ l < 4 /\ v \in Upper
    /\ \E k \in roots : EntryAt(tab1, f, v, 4) = EntryAt(tab, k, v, 4)

Joining(tab, tab1, fr, fr1, roots, f) ==
    /\ Sound(At(tab, fr, NULL), roots)
    /\ Tables(tab1) /\ fr1 \subseteq fr /\ f \in fr \ fr1
    /\ \A g \in Row : g \notin fr => tab1[g] = tab[g]
    /\ \A v \in Page : \A l \in Level :
          \/ Table(tab1, f, v, l) = NULL
          \/ OwnWay(tab1, f, fr, fr1, v, l)
          \/ SharedWay(tab, tab1, f, roots, v, l)
    /\ \A v, w \in Page : \A l, m \in Level :
          OwnWay(tab1, f, fr, fr1, v, l) /\ Table(tab1, f, v, l) = Table(tab1, f, w, m) =>
             l = m /\ Same(v, w, l + 1)
    /\ \A g \in fr \ fr1 : \E v \in Page, l \in Level : g = Table(tab1, f, v, l)

\* The other spaces keep their ways, and all is sound.
JoinEffect(tab, tab1, fr, fr1, roots, f) ==
    /\ \A r \in roots : \A v \in Page :
          /\ \A l \in Level : /\ Table(tab1, r, v, l) = Table(tab, r, v, l)
                              /\ EntryAt(tab1, r, v, l) = EntryAt(tab, r, v, l)
          /\ Walk(tab1, r, v) = Walk(tab, r, v)
    /\ Sound(At(tab1, fr1, NULL), roots \cup {f})
    /\ f \notin roots
    /\ Reached(tab, roots) \cup fr \subseteq Reached(tab1, roots \cup {f}) \cup fr1

LEMMA Joined ==
    ASSUME NEW tab, NEW tab1, NEW fr, NEW fr1, NEW roots, NEW f,
           Joining(tab, tab1, fr, fr1, roots, f)
    PROVE  JoinEffect(tab, tab1, fr, fr1, roots, f)
<1>1. /\ Tables(tab) /\ Tables(tab1) /\ roots \subseteq Frames /\ fr \subseteq Frames
      /\ Trees(tab, roots) /\ Reached(tab, roots) \cap fr = {}
      /\ fr1 \subseteq fr /\ f \in fr \ fr1 /\ f \in Frames /\ f # NULL /\ NULL \notin fr
  BY GeometryAssumption DEF Joining, Sound, At, NULL
<1>2. ASSUME NEW r \in roots, NEW v \in Page
      PROVE  /\ \A l \in Level : /\ Table(tab1, r, v, l) = Table(tab, r, v, l)
                                 /\ EntryAt(tab1, r, v, l) = EntryAt(tab, r, v, l)
                                 /\ Table(tab, r, v, l) \notin fr
             /\ Walk(tab1, r, v) = Walk(tab, r, v)
  <2>1. \A l \in Level : Table(tab, r, v, l) \in Row /\ Table(tab, r, v, l) \notin fr
    <3> SUFFICES ASSUME NEW l \in Level
                 PROVE  Table(tab, r, v, l) \in Row /\ Table(tab, r, v, l) \notin fr
      OBVIOUS
    <3>1. Table(tab, r, v, l) \in Row
      BY <1>1, TableTypes DEF Row
    <3>2. Table(tab, r, v, l) = NULL \/ Table(tab, r, v, l) \in Reached(tab, roots)
      BY DEF Reached
    <3> QED
      BY <1>1, <3>1, <3>2
  <2>2. \A l \in Level : tab1[Table(tab, r, v, l)] = tab[Table(tab, r, v, l)]
    BY <2>1 DEF Joining
  <2>3. WayKept(tab, tab1, r, v)
    BY <2>2, WaysKept
  <2> QED
    BY <2>1, <2>3 DEF WayKept
<1>3. f \notin roots
  <2> SUFFICES ASSUME f \in roots
               PROVE  FALSE
    OBVIOUS
  <2>1. \E v \in Page, l \in Level : f = Table(tab1, f, v, l)
    BY <1>1 DEF Joining
  <2>2. PICK v \in Page : TRUE
    BY <2>1
  <2>3. Table(tab, f, v, 4) = f /\ 4 \in Level
    BY TableStep DEF Level
  <2> QED
    BY <1>1, <1>2, <2>2, <2>3
<1>4. ASSUME NEW v \in Page, NEW l \in Level, SharedWay(tab, tab1, f, roots, v, l)
      PROVE  \E k \in roots : /\ EntryAt(tab1, f, v, 4) = EntryAt(tab, k, v, 4)
                              /\ Table(tab1, f, v, l) = Table(tab, k, v, l)
  <2>1. PICK k \in roots : EntryAt(tab1, f, v, 4) = EntryAt(tab, k, v, 4)
    BY <1>4 DEF SharedWay
  <2>2. EntryAt(tab1, f, v, 4) = EntryAt(tab1, k, v, 4)
    BY <1>2, <2>1 DEF Level
  <2>3. Table(tab1, f, v, l) = Table(tab1, k, v, l)
    <3>1. l \in 1 .. 3
      BY <1>4 DEF SharedWay, Level
    <3> QED
      BY <2>2, <3>1, WalkShared
  <2> QED
    BY <1>2, <2>1, <2>3
<1>5. \A r, s \in roots : \A v, w \in Page : \A l, m \in Level :
         Table(tab, r, v, l) = Table(tab, s, w, m) /\ Table(tab, r, v, l) # NULL =>
            /\ l = m /\ Same(v, w, l + 1)
            /\ \/ r = s
               \/ v \in Upper /\ l < 4 /\ EntryAt(tab, r, v, 4) = EntryAt(tab, s, v, 4)
  BY <1>1 DEF Trees
<1>6. \A v \in Page, l \in Level : Table(tab1, f, v, l) # NULL =>
         OwnWay(tab1, f, fr, fr1, v, l) \/ SharedWay(tab, tab1, f, roots, v, l)
  BY DEF Joining
\* The new space and another.
<1>7. ASSUME NEW s \in roots, NEW v \in Page, NEW w \in Page, NEW l \in Level, NEW m \in Level,
             Table(tab1, f, v, l) = Table(tab1, s, w, m), Table(tab1, f, v, l) # NULL
      PROVE  /\ l = m /\ Same(v, w, l + 1) /\ v \in Upper /\ w \in Upper /\ l < 4
             /\ EntryAt(tab1, f, v, 4) = EntryAt(tab1, s, v, 4)
             /\ EntryAt(tab1, f, w, 4) = EntryAt(tab1, s, w, 4)
  <2>1. Table(tab1, s, w, m) \notin fr /\ Table(tab1, s, w, m) = Table(tab, s, w, m)
    BY <1>2
  <2>2. SharedWay(tab, tab1, f, roots, v, l)
    BY <1>6, <1>7, <2>1 DEF OwnWay
  <2>3. PICK k \in roots : /\ EntryAt(tab1, f, v, 4) = EntryAt(tab, k, v, 4)
                           /\ Table(tab1, f, v, l) = Table(tab, k, v, l)
    BY <1>4, <2>2
  <2>10. Table(tab, k, v, l) = Table(tab, s, w, m) /\ Table(tab, k, v, l) # NULL
    BY <1>7, <2>1, <2>3
  <2>4. /\ l = m /\ Same(v, w, l + 1)
        /\ k = s \/ EntryAt(tab, k, v, 4) = EntryAt(tab, s, v, 4)
    BY <1>5, <2>10
  <2>5. l < 4 /\ v \in Upper
    BY <2>2 DEF SharedWay
  <2>6. 4 \in Level /\ Same(v, w, 4)
    BY <2>4, <2>5, SameFacts DEF Level
  <2>7. w \in Upper
    BY <2>5, <2>6, UpperSame
  <2>8. EntryAt(tab1, f, v, 4) = EntryAt(tab1, s, v, 4)
    BY <1>2, <2>3, <2>4, <2>6
  <2>9. EntryAt(tab1, f, w, 4) = EntryAt(tab1, s, w, 4)
    <3>1. EntryAt(tab1, f, v, 4) = EntryAt(tab1, f, w, 4)
      BY <2>6, EntrySame
    <3>2. EntryAt(tab1, s, v, 4) = EntryAt(tab1, s, w, 4)
      BY <2>6, EntrySame
    <3> QED
      BY <2>8, <3>1, <3>2
  <2> QED
    BY <2>4, <2>5, <2>7, <2>8, <2>9
\* The new space and itself.
<1>8. ASSUME NEW v \in Page, NEW w \in Page, NEW l \in Level, NEW m \in Level,
             Table(tab1, f, v, l) = Table(tab1, f, w, m), Table(tab1, f, v, l) # NULL
      PROVE  l = m /\ Same(v, w, l + 1)
  <2>1. CASE OwnWay(tab1, f, fr, fr1, v, l)
    BY <1>8, <2>1 DEF Joining
  <2>2. CASE SharedWay(tab, tab1, f, roots, v, l)
    <3>1. PICK k \in roots : Table(tab1, f, v, l) = Table(tab, k, v, l)
      BY <1>4, <2>2
    <3>2. Table(tab, k, v, l) \notin fr
      BY <1>2
    <3>3. SharedWay(tab, tab1, f, roots, w, m)
      BY <1>6, <1>8, <3>1, <3>2 DEF OwnWay
    <3>4. PICK j \in roots : Table(tab1, f, w, m) = Table(tab, j, w, m)
      BY <1>4, <3>3
    <3>5. Table(tab, k, v, l) = Table(tab, j, w, m) /\ Table(tab, k, v, l) # NULL
      BY <1>8, <3>1, <3>4
    <3> QED
      BY <1>5, <3>5
  <2> QED
    BY <1>6, <1>8, <2>1, <2>2
<1>9. Trees(tab1, roots \cup {f})
  <2> SUFFICES ASSUME NEW r \in roots \cup {f}, NEW s \in roots \cup {f}, NEW v \in Page,
                      NEW w \in Page, NEW l \in Level, NEW m \in Level,
                      Table(tab1, r, v, l) = Table(tab1, s, w, m), Table(tab1, r, v, l) # NULL
               PROVE  /\ l = m /\ Same(v, w, l + 1)
                      /\ \/ r = s
                         \/ v \in Upper /\ l < 4 /\ EntryAt(tab1, r, v, 4) = EntryAt(tab1, s, v, 4)
    BY DEF Trees
  <2>1. CASE r \in roots /\ s \in roots
    <3>1. Table(tab, r, v, l) = Table(tab, s, w, m) /\ Table(tab, r, v, l) # NULL
      BY <1>2, <2>1
    <3>2. /\ l = m /\ Same(v, w, l + 1)
          /\ \/ r = s
             \/ v \in Upper /\ l < 4 /\ EntryAt(tab, r, v, 4) = EntryAt(tab, s, v, 4)
      BY <1>5, <2>1, <3>1
    <3>3. /\ EntryAt(tab1, r, v, 4) = EntryAt(tab, r, v, 4)
          /\ EntryAt(tab1, s, v, 4) = EntryAt(tab, s, v, 4)
      BY <1>2, <2>1 DEF Level
    <3> QED
      BY <3>2, <3>3
  <2>2. CASE r = f /\ s \in roots
    BY <1>7, <2>2
  <2>3. CASE r \in roots /\ s = f
    <3>1. Table(tab1, f, w, m) = Table(tab1, r, v, l) /\ Table(tab1, f, w, m) # NULL
      BY <2>3
    <3>2. /\ m = l /\ Same(w, v, m + 1) /\ v \in Upper /\ m < 4
          /\ EntryAt(tab1, f, v, 4) = EntryAt(tab1, r, v, 4)
      BY <1>7, <2>3, <3>1
    <3> QED
      BY <2>3, <3>2 DEF Same
  <2>4. CASE r = f /\ s = f
    BY <1>8, <2>4
  <2> QED
    BY <2>1, <2>2, <2>3, <2>4
<1>10. Reached(tab1, roots \cup {f}) \cap fr1 = {}
  <2> SUFFICES ASSUME NEW x \in Reached(tab1, roots \cup {f}), x \in fr1
               PROVE  FALSE
    OBVIOUS
  <2>1. PICK r \in roots \cup {f}, v \in Page, l \in Level : x = Table(tab1, r, v, l) /\ x # NULL
    BY DEF Reached
  <2>2. CASE r \in roots
    BY <1>1, <1>2, <2>1, <2>2
  <2>3. CASE r = f
    <3>1. ~OwnWay(tab1, f, fr, fr1, v, l)
      BY <2>1, <2>3 DEF OwnWay
    <3>2. SharedWay(tab, tab1, f, roots, v, l)
      BY <1>6, <2>1, <2>3, <3>1
    <3>3. PICK k \in roots : Table(tab1, f, v, l) = Table(tab, k, v, l)
      BY <1>4, <3>2
    <3> QED
      BY <1>1, <1>2, <2>1, <2>3, <3>3
  <2> QED
    BY <2>2, <2>3
<1>11. Sound(At(tab1, fr1, NULL), roots \cup {f})
  BY <1>1, <1>9, <1>10 DEF Sound, At, Row
<1>12. ASSUME NEW x \in Reached(tab, roots) \cup fr
       PROVE  x \in Reached(tab1, roots \cup {f}) \cup fr1
  <2>1. CASE x \in Reached(tab, roots)
    <3>1. PICK r \in roots, v \in Page, l \in Level : x = Table(tab, r, v, l) /\ x # NULL
      BY <2>1 DEF Reached
    <3>2. x = Table(tab1, r, v, l)
      BY <1>2, <3>1
    <3> QED
      BY <3>1, <3>2 DEF Reached
  <2>2. CASE x \in fr \ fr1
    <3>1. PICK v \in Page, l \in Level : x = Table(tab1, f, v, l)
      BY <2>2 DEF Joining
    <3> QED
      BY <1>1, <2>2, <3>1 DEF Reached
  <2> QED
    BY <1>12, <2>1, <2>2
<1> QED
  BY <1>2, <1>3, <1>11, <1>12 DEF JoinEffect

\* With a space more the invariant stands.
LEMMA JoinKeeps ==
    ASSUME MemInv, NEW f, Joining(table, table', free, free', Roots, f),
           Roots' = Roots \cup {f}, spaces' \subseteq Frames, kernel_pml4' \in Row,
           kernel_pml4' \notin spaces',
           UNCHANGED <<machine, cr3, tlb, remapped, orphaned>>
    PROVE  MemInv'
<1>1. /\ \A r \in Roots : \A v \in Page : Walk(table', r, v) = Walk(table, r, v)
      /\ Sound(At(table', free', NULL), Roots \cup {f})
      /\ Reached(table, Roots) \cup free \subseteq Reached(table', Roots \cup {f}) \cup free'
  <2>1. JoinEffect(table, table', free, free', Roots, f)
    BY Joined
  <2> QED
    BY <2>1 DEF JoinEffect
<1>2. SoundInv'
  BY <1>1 DEF SoundInv
<1>3. RootsInv'
  BY DEF MemInv, RootsInv
<1>4. LeakInv'
  BY <1>1 DEF MemInv, LeakInv
<1>5. CachedInv'
  <2>1. cr3 # NULL => \A w \in Page : Walk(table', cr3, w) = Walk(table, cr3, w)
    BY <1>1 DEF MemInv, RootsInv
  <2> QED
    BY <2>1, CachedAside DEF MemInv
<1> QED
  BY <1>2, <1>3, <1>4, <1>5 DEF MemInv

\* A single table joins: what its entries lead to is another's upper half.
LEMMA OneJoins ==
    ASSUME NEW tab, NEW tab1, NEW fr, NEW roots, NEW f \in fr,
           Sound(At(tab, fr, NULL), roots), Tables(tab1),
           \A g \in Row : g # f => tab1[g] = tab[g],
           \A v \in Page : \/ EntryAt(tab1, f, v, 4).sub = NULL
                           \/ /\ v \in Upper
                              /\ \E k \in roots : EntryAt(tab1, f, v, 4) = EntryAt(tab, k, v, 4)
    PROVE  Joining(tab, tab1, fr, fr \ {f}, roots, f)
<1>1. /\ Tables(tab) /\ roots \subseteq Frames /\ fr \subseteq Frames
      /\ Reached(tab, roots) \cap fr = {} /\ f \in Row /\ NULL \notin fr
  BY GeometryAssumption DEF Sound, At, Row, NULL
<1>2. ASSUME NEW k \in roots, NEW v \in Page
      PROVE  WayKept(tab, tab1, k, v) /\ \A l \in Level : Table(tab, k, v, l) \notin fr
  <2>1. \A l \in Level : Table(tab, k, v, l) \in Row /\ Table(tab, k, v, l) \notin fr
    <3> SUFFICES ASSUME NEW l \in Level
                 PROVE  Table(tab, k, v, l) \in Row /\ Table(tab, k, v, l) \notin fr
      OBVIOUS
    <3>1. Table(tab, k, v, l) \in Row
      BY <1>1, TableTypes DEF Row
    <3>2. Table(tab, k, v, l) = NULL \/ Table(tab, k, v, l) \in Reached(tab, roots)
      BY DEF Reached
    <3> QED
      BY <1>1, <3>1, <3>2
  <2>2. \A l \in Level : tab1[Table(tab, k, v, l)] = tab[Table(tab, k, v, l)]
    BY <2>1
  <2> QED
    BY <2>1, <2>2, WaysKept
<1>3. ASSUME NEW v \in Page, NEW l \in Level
      PROVE  \/ Table(tab1, f, v, l) = NULL
             \/ l = 4 /\ Table(tab1, f, v, l) = f
             \/ SharedWay(tab, tab1, f, roots, v, l) /\ Table(tab1, f, v, l) \notin fr
  <2>1. CASE l = 4
    BY <2>1, TableStep
  <2>2. CASE l < 4 /\ EntryAt(tab1, f, v, 4).sub = NULL
    <3>1. Table(tab1, f, v, 3) = NULL
      BY <2>2, TableStep
    <3>2. l <= 3 /\ 3 \in Level
      BY <2>2 DEF Level
    <3> QED
      BY <1>1, <3>1, <3>2, TableEnd
  <2>3. ASSUME l < 4, v \in Upper, NEW k \in roots, EntryAt(tab1, f, v, 4) = EntryAt(tab, k, v, 4)
        PROVE  SharedWay(tab, tab1, f, roots, v, l) /\ Table(tab1, f, v, l) \notin fr
    <3>1. SharedWay(tab, tab1, f, roots, v, l)
      BY <2>3 DEF SharedWay
    <3>2. WayKept(tab, tab1, k, v) /\ Table(tab, k, v, l) \notin fr
      BY <1>2
    <3>3. EntryAt(tab1, f, v, 4) = EntryAt(tab1, k, v, 4)
      BY <2>3, <3>2 DEF WayKept, Level
    <3>4. Table(tab1, f, v, l) = Table(tab1, k, v, l)
      <4>1. l \in 1 .. 3
        BY <2>3 DEF Level
      <4> QED
        BY <3>3, <4>1, WalkShared
    <3> QED
      BY <3>1, <3>2, <3>4 DEF WayKept
  <2>4. l = 4 \/ l < 4
    BY DEF Level
  <2> QED
    BY <2>1, <2>2, <2>3, <2>4
<1>4. fr \ (fr \ {f}) = {f}
  OBVIOUS
<1>5. \A v \in Page : \A l \in Level :
          \/ Table(tab1, f, v, l) = NULL
          \/ OwnWay(tab1, f, fr, fr \ {f}, v, l)
          \/ SharedWay(tab, tab1, f, roots, v, l)
  BY <1>3, <1>4 DEF OwnWay
<1>6. \A v \in Page : \A l \in Level : Table(tab1, f, v, l) = f => l = 4
  BY <1>1, <1>3
<1>7. ASSUME NEW v \in Page, NEW w \in Page, NEW l \in Level, NEW m \in Level,
             OwnWay(tab1, f, fr, fr \ {f}, v, l), Table(tab1, f, v, l) = Table(tab1, f, w, m)
      PROVE  l = m /\ Same(v, w, l + 1)
  <2>1. l = 4 /\ m = 4
    BY <1>4, <1>6, <1>7 DEF OwnWay
  <2>2. Same(v, w, 5)
    BY SameFacts
  <2> QED
    BY <2>1, <2>2
<1>8. \A g \in fr \ (fr \ {f}) : \E v \in Page, l \in Level : g = Table(tab1, f, v, l)
  <2>1. 0 \in Page
    BY Spans DEF Page
  <2>2. Table(tab1, f, 0, 4) = f /\ 4 \in Level
    BY TableStep DEF Level
  <2> QED
    BY <1>4, <2>1, <2>2
<1>9. \A g \in Row : g \notin fr => tab1[g] = tab[g]
  OBVIOUS
<1> QED
  BY <1>4, <1>5, <1>7, <1>8, <1>9 DEF Joining

\* A new space has the kernel's entries of the upper half, and nothing else.
LEMMA CreateJoins ==
    ASSUME MemInv, Create, UNCHANGED <<machine, kernel_pml4, cr3>>, free # {}
    PROVE  LET f == CHOOSE x \in free : TRUE IN
           /\ Joining(table, table', free, free', Roots, f)
           /\ \A v \in Page : EntryAt(table', f, v, 4) =
                 IF kernel_pml4 # NULL /\ v \in Upper THEN EntryAt(table, kernel_pml4, v, 4)
                                                     ELSE Empty
           /\ Roots' = Roots \cup {f}
           /\ spaces' \subseteq Frames /\ kernel_pml4' \in Row /\ kernel_pml4' \notin spaces'
           /\ UNCHANGED <<tlb, remapped, orphaned>>
<1> DEFINE f == CHOOSE x \in free : TRUE
           row == [k \in 0 .. ENTRIES - 1 |->
                     IF kernel_pml4 # NULL /\ k >= ENTRIES \div 2 THEN table[kernel_pml4][k] ELSE Empty]
<1>1. f \in free
  OBVIOUS
<1>2. /\ table' = [table EXCEPT ![f] = row] /\ free' = free \ {f}
      /\ spaces' = spaces \cup {f} /\ UNCHANGED <<tlb, remapped, orphaned>>
  BY DEF Create
<1> HIDE DEF f
<1>3. /\ Sound(At(table, free, NULL), Roots) /\ Tables(table) /\ f \in Frames /\ f \in Row
      /\ free \subseteq Frames /\ Roots \subseteq Frames /\ kernel_pml4 \in Row
      /\ Reached(table, Roots) \cap free = {}
  BY <1>1 DEF MemInv, SoundInv, RootsInv, Sound, At, Row
<1>4. f # NULL
  BY <1>3, GeometryAssumption DEF NULL
<1>5. f \notin Roots
  <2> SUFFICES ASSUME f \in Roots
               PROVE  FALSE
    OBVIOUS
  <2>1. Table(table, f, 0, 4) = f /\ 4 \in Level /\ 0 \in Page
    BY TableStep, Spans DEF Level, Page
  <2>2. f \in Reached(table, Roots)
    BY <1>4, <2>1 DEF Reached
  <2> QED
    BY <1>1, <1>3, <2>2
<1>6. /\ table'[f] = row /\ \A g \in Row : g # f => table'[g] = table[g]
  BY <1>2, <1>3 DEF Tables
<1>7. /\ \A k \in 0 .. ENTRIES - 1 : row[k] \in Entry /\ (row[k].kind = "table" <=> row[k].sub # NULL)
      /\ row \in [0 .. ENTRIES - 1 -> Entry]
  <2>1. Empty \in Entry /\ Empty.kind # "table" /\ Empty.sub = NULL
    BY DEF Empty, Entry, Row, NULL
  <2>2. ASSUME NEW k \in 0 .. ENTRIES - 1
        PROVE  row[k] \in Entry /\ (row[k].kind = "table" <=> row[k].sub # NULL)
    <3>1. /\ table[kernel_pml4][k] \in Entry
          /\ table[kernel_pml4][k].kind = "table" <=> table[kernel_pml4][k].sub # NULL
      BY <1>3 DEF Tables
    <3>2. row[k] = table[kernel_pml4][k] \/ row[k] = Empty
      OBVIOUS
    <3> HIDE DEF row
    <3> QED
      BY <2>1, <3>1, <3>2
  <2> QED
    BY <2>2
<1>8. \A k \in 0 .. ENTRIES - 1 :
         row[k] = IF kernel_pml4 # NULL /\ k >= ENTRIES \div 2 THEN table[kernel_pml4][k] ELSE Empty
  OBVIOUS
<1> HIDE DEF row
<1>9. Tables(table')
  <2>1. table' \in [Row -> [0 .. ENTRIES - 1 -> Entry]]
    BY <1>2, <1>3, <1>7 DEF Tables
  <2>2. table'[NULL] = Blank
    BY <1>3, <1>4, <1>6 DEF Tables, Row
  <2>3. ASSUME NEW g \in Row, NEW k \in 0 .. ENTRIES - 1
        PROVE  table'[g][k].kind = "table" <=> table'[g][k].sub # NULL
    <3>1. CASE g = f
      BY <1>6, <1>7, <3>1
    <3>2. CASE g # f
      BY <1>3, <1>6, <3>2 DEF Tables
    <3> QED
      BY <3>1, <3>2
  <2> QED
    BY <2>1, <2>2, <2>3 DEF Tables
<1>10. ASSUME NEW v \in Page
       PROVE  EntryAt(table', f, v, 4) =
                 IF kernel_pml4 # NULL /\ v \in Upper THEN EntryAt(table, kernel_pml4, v, 4)
                                                     ELSE Empty
  <2>1. Index(v, 4) \in 0 .. ENTRIES - 1
    BY Indices DEF Level
  <2>2. EntryAt(table', f, v, 4) = row[Index(v, 4)]
    BY <1>6, TableStep DEF EntryAt
  <2>3. EntryAt(table, kernel_pml4, v, 4) = table[kernel_pml4][Index(v, 4)]
    BY TableStep DEF EntryAt
  <2>4. v \in Upper <=> Index(v, 4) >= ENTRIES \div 2
    BY UpperEntries
  <2> QED
    BY <1>8, <2>1, <2>2, <2>3, <2>4
<1>11. ASSUME NEW v \in Page
       PROVE  \/ EntryAt(table', f, v, 4).sub = NULL
              \/ /\ v \in Upper
                 /\ \E k \in Roots : EntryAt(table', f, v, 4) = EntryAt(table, k, v, 4)
  <2>1. kernel_pml4 # NULL => kernel_pml4 \in Roots
    BY DEF Roots
  <2>2. Empty.sub = NULL
    BY DEF Empty
  <2> QED
    BY <1>10, <2>1, <2>2
<1>12. Joining(table, table', free, free \ {f}, Roots, f)
  BY <1>1, <1>3, <1>6, <1>9, <1>11, OneJoins
<1>13. Roots' = Roots \cup {f}
  BY <1>2 DEF Roots
<1>14. spaces' \subseteq Frames /\ kernel_pml4' \in Row /\ kernel_pml4' \notin spaces'
  BY <1>2, <1>3, <1>4, <1>5 DEF MemInv, RootsInv, Roots
<1> QED
  BY <1>2, <1>10, <1>12, <1>13, <1>14 DEF f

LEMMA CreateKeeps ==
    ASSUME MemInv, Create, UNCHANGED <<machine, kernel_pml4, cr3>>
    PROVE  MemInv'
<1>1. CASE free = {}
  BY <1>1, RefusedKeeps DEF Create
<1>2. CASE free # {}
  BY <1>2, CreateJoins, JoinKeeps
<1> QED
  BY <1>1, <1>2

\* Nor does the first space find one to share with.
LEMMA StartJoins ==
    ASSUME MemInv, PlaceInv, InitPml4, free # {}
    PROVE  LET f == CHOOSE x \in free : TRUE IN
           /\ Joining(table, table', free, free', Roots, f)
           /\ \A v \in Page : EntryAt(table', f, v, 4) = Empty
           /\ Roots' = Roots \cup {f}
           /\ spaces' \subseteq Frames /\ kernel_pml4' \in Row /\ kernel_pml4' \notin spaces'
           /\ UNCHANGED <<machine, cr3, tlb, remapped, orphaned>>
<1> DEFINE f == CHOOSE x \in free : TRUE
<1>1. f \in free
  OBVIOUS
<1>2. /\ UNCHANGED <<machine, table, spaces, cr3, tlb, remapped, orphaned>>
      /\ table = [g \in Row |-> Blank] /\ kernel_pml4 = NULL /\ spaces = {}
      /\ free' = free \ {f} /\ kernel_pml4' = f
  BY DEF InitPml4, PlaceInv
<1> HIDE DEF f
<1>3. Sound(At(table, free, NULL), Roots) /\ Tables(table) /\ f \in Row
  BY <1>1 DEF MemInv, SoundInv, Sound, At, Row
<1>4. f # NULL
  BY <1>1, GeometryAssumption DEF MemInv, SoundInv, Sound, At, NULL
<1>5. ASSUME NEW v \in Page
      PROVE  EntryAt(table, f, v, 4) = Empty
  <2>1. Index(v, 4) \in 0 .. ENTRIES - 1
    BY Indices DEF Level
  <2>2. EntryAt(table, f, v, 4) = table[f][Index(v, 4)]
    BY TableStep DEF EntryAt
  <2>3. table[f] = Blank
    BY <1>2, <1>3
  <2> QED
    BY <2>1, <2>2, <2>3 DEF Blank
<1>6. \A v \in Page : EntryAt(table, f, v, 4).sub = NULL
  BY <1>5 DEF Empty
<1>7. Joining(table, table, free, free \ {f}, Roots, f)
  BY <1>1, <1>3, <1>6, OneJoins
<1>8. Joining(table, table', free, free', Roots, f)
  BY <1>2, <1>7
<1>9. Roots' = Roots \cup {f}
  BY <1>2, <1>4 DEF Roots
<1>10. spaces' \subseteq Frames /\ kernel_pml4' \in Row /\ kernel_pml4' \notin spaces'
  BY <1>2, <1>3
<1> QED
  BY <1>2, <1>5, <1>8, <1>9, <1>10 DEF f

LEMMA StartKeeps ==
    ASSUME MemInv, PlaceInv, InitPml4
    PROVE  MemInv'
<1>1. CASE free = {}
  <2>1. UNCHANGED <<machine, table, free, kernel_pml4, spaces, cr3, tlb, remapped, orphaned>>
    BY <1>1 DEF InitPml4
  <2> QED
    BY <2>1 DEF MemInv, RootsInv, SoundInv, LeakInv, CachedInv, Roots
<1>2. CASE free # {}
  BY <1>2, StartJoins, JoinKeeps
<1> QED
  BY <1>1, <1>2

-----------------------------------------------------------------------------
(* A space less *)

LEMMA UpperPages == Upper \subseteq Page
<1>1. Span[5] \in Nat \ {0}
  BY Spans
<1>2. Span[5] \div 2 \in Nat
  BY <1>1
<1> HIDE DEF Span
<1> QED
  BY <1>1, <1>2 DEF Upper, Page

LEMMA Levels ==
    /\ \A l \in Level : l = 4 \/ l \in 1 .. 3
    /\ \A l \in 1 .. 3 : l \in Level /\ l # 4
BY DEF Level

\* What is freed is on no other way: of the upper half nothing is freed, and in
\* the lower half nothing is shared.
LEMMA DestroyWays ==
    ASSUME MemInv, NEW root \in spaces, Destroy(root),
           UNCHANGED <<machine, kernel_pml4, cr3>>
    PROVE  /\ Roots' = Roots \ {root}
           /\ {root} \cup Below(root, Page \ Upper) \subseteq Frames
           /\ \A r \in Roots \ {root} : \A v \in Page :
                 /\ WayKept(table, table', r, v)
                 /\ \A l \in Level : Table(table, r, v, l) \notin {root} \cup Below(root, Page \ Upper)
                 /\ Walk(table', r, v) = Walk(table, r, v)
<1> DEFINE gone == {root} \cup Below(root, Page \ Upper)
           rest == Roots \ {root}
<1>1. /\ root # cr3 /\ free' = free \cup gone
      /\ table' = [f \in Row |-> IF f \in gone THEN Blank ELSE table[f]]
      /\ spaces' = spaces \ {root}
      /\ orphaned' = orphaned \cup (Below(root, Upper) \ UNION {Below(r, Upper) : r \in rest})
      /\ UNCHANGED <<tlb, remapped>>
  BY DEF Destroy
<1>2. /\ Tables(table) /\ Roots \subseteq Frames /\ free \subseteq Frames
      /\ Trees(table, Roots) /\ Reached(table, Roots) \cap free = {}
      /\ root \in Roots /\ root \in Frames /\ root \in Row /\ NULL \notin Frames
  BY GeometryAssumption DEF MemInv, SoundInv, Sound, At, Roots, Row, NULL
<1>3. Roots' = rest
  BY <1>1 DEF MemInv, RootsInv, Roots
<1>4. \A x \in gone : \E v \in Page, l \in Level :
         x = Table(table, root, v, l) /\ x # NULL /\ (l = 4 \/ v \notin Upper)
  <2>1. ASSUME NEW x \in Below(root, Page \ Upper)
        PROVE  \E v \in Page, l \in Level :
                  x = Table(table, root, v, l) /\ x # NULL /\ (l = 4 \/ v \notin Upper)
    BY <2>1, Levels DEF Below
  <2>2. 0 \in Page /\ 4 \in Level
    BY Spans DEF Page, Level
  <2>3. root = Table(table, root, 0, 4) /\ root # NULL
    BY <1>2, TableStep
  <2> QED
    BY <2>1, <2>2, <2>3
<1>5. gone \subseteq Frames
  <2> SUFFICES ASSUME NEW x \in gone
               PROVE  x \in Frames
    OBVIOUS
  <2>1. PICK v \in Page, l \in Level : x = Table(table, root, v, l) /\ x # NULL
    BY <1>4
  <2>2. Table(table, root, v, l) \in Row
    BY <1>2, TableTypes
  <2> QED
    BY <2>1, <2>2 DEF Row
<1>6. ASSUME NEW r \in rest, NEW v \in Page, NEW l \in Level
      PROVE  Table(table, r, v, l) \notin gone
  <2> SUFFICES ASSUME Table(table, r, v, l) \in gone
               PROVE  FALSE
    OBVIOUS
  <2>1. PICK w \in Page, m \in Level : /\ Table(table, r, v, l) = Table(table, root, w, m)
                                       /\ Table(table, r, v, l) # NULL
                                       /\ m = 4 \/ w \notin Upper
    BY <1>4
  <2>2. r \in Roots /\ r # root
    OBVIOUS
  <2>3. l = m /\ Same(v, w, l + 1) /\ v \in Upper /\ l < 4
    BY <1>2, <2>1, <2>2 DEF Trees
  <2>4. Same(v, w, 4)
    <3>1. l + 1 \in Level /\ 4 \in Level /\ l + 1 <= 4 /\ 4 \in 1 .. 5
      BY <2>3 DEF Level
    <3> QED
      BY <2>3, <3>1, SameFacts
  <2>5. w \in Upper
    BY <2>3, <2>4, UpperSame
  <2> QED
    BY <2>1, <2>3, <2>5
<1> HIDE DEF gone, rest
<1>7. ASSUME NEW r \in rest, NEW v \in Page
      PROVE  WayKept(table, table', r, v)
  <2>1. r \in Row
    BY <1>2 DEF rest, Row
  <2>2. \A l \in Level : Table(table, r, v, l) \in Row /\ Table(table, r, v, l) \notin gone
    BY <1>2, <1>6, <2>1, TableTypes
  <2>3. \A l \in Level : table'[Table(table, r, v, l)] = table[Table(table, r, v, l)]
    BY <1>1, <2>2
  <2> QED
    BY <2>3, WaysKept
<1> QED
  BY <1>3, <1>5, <1>6, <1>7 DEF WayKept, gone, rest

LEMMA DestroyKeeps ==
    ASSUME MemInv, NEW root \in spaces, Destroy(root),
           UNCHANGED <<machine, kernel_pml4, cr3>>
    PROVE  MemInv'
<1> DEFINE gone == {root} \cup Below(root, Page \ Upper)
           rest == Roots \ {root}
<1>1. /\ root # cr3 /\ free' = free \cup gone
      /\ table' = [f \in Row |-> IF f \in gone THEN Blank ELSE table[f]]
      /\ spaces' = spaces \ {root}
      /\ orphaned' = orphaned \cup (Below(root, Upper) \ UNION {Below(r, Upper) : r \in rest})
      /\ UNCHANGED <<tlb, remapped>>
  BY DEF Destroy
<1>2. /\ Tables(table) /\ Roots \subseteq Frames /\ free \subseteq Frames
      /\ Trees(table, Roots) /\ Reached(table, Roots) \cap free = {}
      /\ root \in Roots /\ root \in Frames /\ root \in Row /\ NULL \notin Frames
  BY GeometryAssumption DEF MemInv, SoundInv, Sound, At, Roots, Row, NULL
<1>3. Roots' = rest
  BY <1>1 DEF MemInv, RootsInv, Roots
<1>5. gone \subseteq Frames
  BY DestroyWays
<1>6. ASSUME NEW r \in rest, NEW v \in Page, NEW l \in Level
      PROVE  Table(table, r, v, l) \notin gone
  BY DestroyWays
<1>7. ASSUME NEW r \in rest, NEW v \in Page
      PROVE  WayKept(table, table', r, v)
  BY DestroyWays
<1> HIDE DEF gone, rest
<1>8. Tables(table')
  <2>1. \A k \in 0 .. ENTRIES - 1 : Blank[k] \in Entry /\ Blank[k].kind # "table" /\ Blank[k].sub = NULL
    BY DEF Blank, Empty, Entry, Row, NULL
  <2>2. Blank \in [0 .. ENTRIES - 1 -> Entry]
    BY <2>1 DEF Blank
  <2>3. table' \in [Row -> [0 .. ENTRIES - 1 -> Entry]]
    BY <1>1, <1>2, <2>2 DEF Tables
  <2>4. table'[NULL] = Blank
    BY <1>1, <1>2, <1>5 DEF Tables, Row
  <2>5. ASSUME NEW g \in Row, NEW k \in 0 .. ENTRIES - 1
        PROVE  table'[g][k].kind = "table" <=> table'[g][k].sub # NULL
    <3>1. CASE g \in gone
      <4>1. table'[g] = Blank
        BY <1>1, <3>1
      <4> QED
        BY <2>1, <4>1
    <3>2. CASE g \notin gone
      <4>1. table'[g] = table[g]
        BY <1>1, <3>2
      <4> QED
        BY <1>2, <4>1 DEF Tables
    <3> QED
      BY <3>1, <3>2
  <2> QED
    BY <2>3, <2>4, <2>5 DEF Tables
<1>9. Trees(table', rest)
  <2> SUFFICES ASSUME NEW r \in rest, NEW s \in rest, NEW v \in Page, NEW w \in Page,
                      NEW l \in Level, NEW m \in Level,
                      Table(table', r, v, l) = Table(table', s, w, m), Table(table', r, v, l) # NULL
               PROVE  /\ l = m /\ Same(v, w, l + 1)
                      /\ \/ r = s
                         \/ /\ v \in Upper /\ l < 4
                            /\ EntryAt(table', r, v, 4) = EntryAt(table', s, v, 4)
    BY DEF Trees
  <2>1. /\ Table(table', r, v, l) = Table(table, r, v, l)
        /\ Table(table', s, w, m) = Table(table, s, w, m)
    BY <1>7 DEF WayKept
  <2>2. /\ EntryAt(table', r, v, 4) = EntryAt(table, r, v, 4)
        /\ EntryAt(table', s, v, 4) = EntryAt(table, s, v, 4)
    BY <1>7 DEF WayKept, Level
  <2>3. r \in Roots /\ s \in Roots
    BY DEF rest
  <2>4. Table(table, r, v, l) = Table(table, s, w, m) /\ Table(table, r, v, l) # NULL
    BY <2>1
  <2>5. /\ l = m /\ Same(v, w, l + 1)
        /\ r = s \/ (v \in Upper /\ l < 4 /\ EntryAt(table, r, v, 4) = EntryAt(table, s, v, 4))
    BY <1>2, <2>3, <2>4 DEF Trees
  <2> QED
    BY <2>2, <2>5
<1>10. Reached(table', rest) \cap free' = {}
  <2> SUFFICES ASSUME NEW x \in Reached(table', rest), x \in free'
               PROVE  FALSE
    OBVIOUS
  <2>1. PICK r \in rest, v \in Page, l \in Level : x = Table(table', r, v, l) /\ x # NULL
    BY DEF Reached
  <2>2. x = Table(table, r, v, l)
    BY <1>7, <2>1 DEF WayKept
  <2>3. x \in Reached(table, Roots)
    BY <2>1, <2>2 DEF Reached, rest
  <2> QED
    BY <1>1, <1>2, <1>6, <2>2, <2>3
<1>11. SoundInv'
  <2>1. rest \subseteq Frames /\ free' \subseteq Frames
    BY <1>1, <1>2, <1>5 DEF rest
  <2> QED
    BY <1>3, <1>8, <1>9, <1>10, <2>1 DEF SoundInv, Sound, At, Row
<1>12. Below(root, Upper) \subseteq Frames
  <2> SUFFICES ASSUME NEW x \in Below(root, Upper)
               PROVE  x \in Frames
    OBVIOUS
  <2>1. PICK v \in Upper, l \in 1 .. 3 : x = Table(table, root, v, l) /\ x # NULL
    BY DEF Below
  <2>2. v \in Page /\ l \in Level
    BY Levels, UpperPages
  <2>3. Table(table, root, v, l) \in Row
    BY <1>2, <2>2, TableTypes
  <2> QED
    BY <2>1, <2>3 DEF Row
<1>13. RootsInv'
  <2>1. cr3 \in rest \cup {NULL}
    BY <1>1 DEF MemInv, RootsInv, rest
  <2>2. orphaned' \subseteq Frames
    BY <1>1, <1>12 DEF MemInv, RootsInv
  <2> QED
    BY <1>1, <1>3, <2>1, <2>2 DEF MemInv, RootsInv
<1>14. ASSUME NEW x \in Reached(table, Roots)
       PROVE  x \in free' \cup orphaned' \cup Reached(table', rest)
  <2>1. PICK r \in Roots, v \in Page, l \in Level : x = Table(table, r, v, l) /\ x # NULL
    BY DEF Reached
  <2>2. ASSUME NEW q \in rest, NEW w \in Page, NEW m \in Level, x = Table(table, q, w, m)
        PROVE  x \in Reached(table', rest)
    <3>1. x = Table(table', q, w, m)
      BY <1>7, <2>2 DEF WayKept
    <3> QED
      BY <2>1, <3>1 DEF Reached
  <2>3. CASE r # root
    BY <2>1, <2>2, <2>3 DEF rest
  <2>4. CASE r = root /\ (l = 4 \/ v \notin Upper)
    <3>1. x \in gone
      BY <2>1, <2>4, TableStep, Levels DEF gone, Below
    <3> QED
      BY <1>1, <3>1
  <2>5. CASE r = root /\ l \in 1 .. 3 /\ v \in Upper
    <3>1. x \in Below(root, Upper)
      BY <2>1, <2>5 DEF Below
    <3>2. CASE x \in UNION {Below(q, Upper) : q \in rest}
      <4>1. PICK q \in rest : x \in Below(q, Upper)
        BY <3>2
      <4>2. PICK w \in Upper, m \in 1 .. 3 : x = Table(table, q, w, m)
        BY <4>1 DEF Below
      <4> QED
        BY <2>2, <4>2, Levels, UpperPages
    <3> QED
      BY <1>1, <3>1, <3>2
  <2> QED
    BY <2>3, <2>4, <2>5, Levels
<1>15. LeakInv'
  <2>1. machine.frames \subseteq free \cup orphaned \cup Reached(table, Roots)
    BY DEF MemInv, LeakInv
  <2>2. free \subseteq free' /\ orphaned \subseteq orphaned'
    BY <1>1
  <2>3. machine'.frames = machine.frames
    OBVIOUS
  <2>4. machine.frames \subseteq free' \cup orphaned' \cup Reached(table', rest)
    BY <1>14, <2>1, <2>2
  <2> QED
    BY <1>3, <2>3, <2>4 DEF LeakInv
<1>16. CachedInv'
  <2>1. cr3 # NULL => cr3 \in rest
    BY <1>1 DEF MemInv, RootsInv, rest
  <2>2. cr3 # NULL => \A w \in Page : Walk(table', cr3, w) = Walk(table, cr3, w)
    BY <1>7, <2>1 DEF WayKept
  <2>3. CachedInv /\ tlb' = tlb /\ remapped' = remapped /\ cr3' = cr3
    BY <1>1 DEF MemInv
  <2> QED
    BY <2>2, <2>3, CachedAside
<1> QED
  BY <1>11, <1>13, <1>15, <1>16 DEF MemInv

-----------------------------------------------------------------------------
(* The frames in their order, and the tables in theirs *)

LEMMA NatLeast ==
    ASSUME NEW S \in SUBSET Nat, S # {}
    PROVE  \E x \in S : \A y \in S : x <= y
<1> DEFINE R == OpToRel(<, Nat)
<1>1. IsWellFoundedOn(R, Nat)
  BY NatLessThanWellFounded
<1>2. \A x, y \in Nat : y < x => <<y, x>> \in R
  BY DEF OpToRel
<1> HIDE DEF R
<1>3. PICK x \in S : \A y \in S : ~(<<y, x>> \in R)
  BY <1>1, WFMin
<1>4. ASSUME NEW y \in S
      PROVE  x <= y
  <2>1. x \in Nat /\ y \in Nat
    OBVIOUS
  <2>2. ~(y < x)
    BY <1>2, <1>3, <2>1
  <2> QED
    BY <2>1, <2>2
<1> QED
  BY <1>4

Smaller(S, x) == {g \in S : g < x}

\* Elements with fewer than k smaller ones are no more than k.
LEMMA FewSmall ==
    ASSUME NEW S \in SUBSET Nat, IsFiniteSet(S), NEW k \in Nat, NEW G \in SUBSET S,
           \A g \in G : Cardinality(Smaller(S, g)) < k
    PROVE  Cardinality(G) <= k
<1>1. ASSUME NEW x \in S
      PROVE  IsFiniteSet(Smaller(S, x)) /\ Cardinality(Smaller(S, x)) \in Nat
  <2>1. Smaller(S, x) \in SUBSET S
    BY DEF Smaller
  <2>2. IsFiniteSet(Smaller(S, x))
    BY <2>1, FS_Subset
  <2> QED
    BY <2>2, FS_CardinalityType
<1>2. ASSUME NEW x \in S, NEW y \in S, x < y
      PROVE  Cardinality(Smaller(S, x)) # Cardinality(Smaller(S, y))
  <2>1. x \in Nat /\ y \in Nat
    OBVIOUS
  <2>2. \A g \in S : g \in Nat
    OBVIOUS
  <2>3. Smaller(S, x) \subseteq Smaller(S, y)
    <3> SUFFICES ASSUME NEW g \in Smaller(S, x)
                 PROVE  g \in Smaller(S, y)
      OBVIOUS
    <3>1. g \in S /\ g < x /\ g \in Nat
      BY <2>2 DEF Smaller
    <3>2. g < y
      BY <1>2, <2>1, <3>1
    <3> QED
      BY <3>1, <3>2 DEF Smaller
  <2>4. x \in Smaller(S, y) /\ x \notin Smaller(S, x)
    BY <1>2, <2>1 DEF Smaller
  <2> QED
    BY <1>1, <2>3, <2>4, FS_Subset
<1>3. IsFiniteSet(G)
  BY FS_Subset
<1>4. IsFiniteSet(0 .. k - 1) /\ Cardinality(0 .. k - 1) = k
  BY FS_Interval
<1> DEFINE F == [g \in G |-> Cardinality(Smaller(S, g))]
<1>5. F \in [G -> 0 .. k - 1]
  BY <1>1
<1>6. \A x, y \in G : x # y => F[x] # F[y]
  <2> SUFFICES ASSUME NEW x \in G, NEW y \in G, x # y
               PROVE  F[x] # F[y]
    OBVIOUS
  <2>1. x \in S /\ y \in S /\ x \in Nat /\ y \in Nat
    OBVIOUS
  <2>2. x < y \/ y < x
    BY <2>1
  <2>3. F[x] = Cardinality(Smaller(S, x)) /\ F[y] = Cardinality(Smaller(S, y))
    OBVIOUS
  <2> HIDE DEF F
  <2> QED
    BY <1>2, <2>1, <2>2, <2>3
<1> HIDE DEF F
<1>7. ~(k < Cardinality(G))
  BY <1>3, <1>4, <1>5, <1>6, FS_PigeonHole
<1>8. Cardinality(G) \in Nat
  BY <1>3, FS_CardinalityType
<1> QED
  BY <1>7, <1>8

\* Of n elements, some one has k smaller ones, if k is less than n.
LEMMA InOrder ==
    ASSUME NEW S \in SUBSET Nat, IsFiniteSet(S), NEW k \in Nat, k < Cardinality(S)
    PROVE  \E x \in S : Cardinality(Smaller(S, x)) = k
<1> DEFINE T == {x \in S : Cardinality(Smaller(S, x)) >= k}
<1>1. ASSUME NEW x \in S
      PROVE  Cardinality(Smaller(S, x)) \in Nat
  <2>1. Smaller(S, x) \in SUBSET S
    BY DEF Smaller
  <2>2. IsFiniteSet(Smaller(S, x))
    BY <2>1, FS_Subset
  <2> QED
    BY <2>2, FS_CardinalityType
<1>2. T # {}
  <2> SUFFICES ASSUME T = {}
               PROVE  FALSE
    OBVIOUS
  <2>1. \A x \in S : Cardinality(Smaller(S, x)) < k
    BY <1>1
  <2>2. Cardinality(S) <= k
    BY <2>1, FewSmall
  <2>3. Cardinality(S) \in Nat
    BY FS_CardinalityType
  <2> QED
    BY <2>2, <2>3
<1>3. PICK x \in T : \A y \in T : x <= y
  <2>1. T \in SUBSET Nat
    OBVIOUS
  <2> HIDE DEF T
  <2> QED
    BY <1>2, <2>1, NatLeast
<1>4. x \in S /\ x \in Nat /\ Cardinality(Smaller(S, x)) >= k
  OBVIOUS
<1>5. \A g \in Smaller(S, x) : Cardinality(Smaller(S, g)) < k
  <2> SUFFICES ASSUME NEW g \in Smaller(S, x)
               PROVE  Cardinality(Smaller(S, g)) < k
    OBVIOUS
  <2>1. g \in S /\ g < x /\ g \in Nat
    BY DEF Smaller
  <2>2. g \notin T
    BY <1>3, <1>4, <2>1
  <2> QED
    BY <1>1, <2>1, <2>2
<1>6. Smaller(S, x) \in SUBSET S
  BY DEF Smaller
<1>7. Cardinality(Smaller(S, x)) <= k
  BY <1>5, <1>6, FewSmall
<1> QED
  BY <1>1, <1>4, <1>7

\* What Clone defines for its own use.
Rank(root, n) == Cardinality({m \in Nodes(root) : Before(m, n)})
Copied(root) == {n \in Nodes(root) : Rank(root, n) < Cardinality(free)}
CopyOf(root, n) == CHOOSE f \in free : Cardinality({g \in free : g < f}) = Rank(root, n)
EntryCopy(root, n, k) ==
    LET e == table[Table(table, root, n[2], n[1])][k]
        sub == <<n[1] - 1, n[2] + k * Span[n[1]]>>
    IN IF e.kind # "table" THEN e
       ELSE IF sub \in Copied(root) THEN [e EXCEPT !.sub = CopyOf(root, sub)] ELSE Empty

\* The table on the way to v on level l.
NodeOf(v, l) == <<l, Base(v, l + 1)>>

LEMMA NodeTypes ==
    ASSUME NEW root, NEW n \in Nodes(root)
    PROVE  /\ n = <<n[1], n[2]>> /\ n[1] \in Level /\ n[2] \in Page
           /\ n[2] % Span[n[1] + 1] = 0 /\ Table(table, root, n[2], n[1]) # NULL
BY DEF Nodes

LEMMA NodesFinite ==
    ASSUME NEW root
    PROVE  IsFiniteSet(Nodes(root))
<1>1. Span[5] \in Nat \ {0}
  BY Spans
<1>2. IsFiniteSet(1 .. 4)
  <2>1. 1 \in Int /\ 4 \in Int
    OBVIOUS
  <2>2. \A a, b \in Int : IsFiniteSet(a .. b)
    BY FS_Interval
  <2> QED
    BY <2>1, <2>2
<1>3. IsFiniteSet(0 .. Span[5] - 1)
  <2> HIDE DEF Span
  <2>1. 0 \in Int /\ Span[5] - 1 \in Int
    BY <1>1
  <2> QED
    BY <2>1, FS_Interval
<1>4. IsFiniteSet(Level \X Page)
  BY <1>2, <1>3, FS_Product DEF Level, Page
<1>5. Nodes(root) \in SUBSET (Level \X Page)
  BY DEF Nodes
<1> QED
  BY <1>4, <1>5, FS_Subset

LEMMA Order ==
    ASSUME NEW root, NEW m \in Nodes(root), NEW n \in Nodes(root)
    PROVE  /\ ~Before(n, n) /\ (m # n => Before(m, n) \/ Before(n, m))
           /\ \A k \in Nodes(root) : Before(k, m) /\ Before(m, n) => Before(k, n)
<1>1. \A k \in Nodes(root) : k = <<k[1], k[2]>> /\ k[1] \in Nat /\ k[2] \in Nat
  <2> SUFFICES ASSUME NEW k \in Nodes(root)
               PROVE  k = <<k[1], k[2]>> /\ k[1] \in Nat /\ k[2] \in Nat
    OBVIOUS
  <2>1. k = <<k[1], k[2]>> /\ k[1] \in Level /\ k[2] \in Page
    BY NodeTypes
  <2>2. k[2] \in Nat
    BY <2>1, Pages
  <2>3. k[1] \in Nat
    BY <2>1 DEF Level
  <2> QED
    BY <2>1, <2>2, <2>3
<1>2. ~Before(n, n)
  BY <1>1 DEF Before
<1>3. m # n => Before(m, n) \/ Before(n, m)
  <2> SUFFICES ASSUME ~Before(m, n), ~Before(n, m)
               PROVE  m = n
    OBVIOUS
  <2>1. m[2] = n[2] /\ m[1] = n[1]
    BY <1>1 DEF Before
  <2> QED
    BY <1>1, <2>1
<1>4. \A k \in Nodes(root) : Before(k, m) /\ Before(m, n) => Before(k, n)
  BY <1>1 DEF Before
<1> QED
  BY <1>2, <1>3, <1>4

LEMMA Ranks ==
    ASSUME NEW root, NEW m \in Nodes(root), NEW n \in Nodes(root)
    PROVE  /\ Rank(root, m) \in Nat /\ Rank(root, n) \in Nat
           /\ Before(m, n) => Rank(root, m) < Rank(root, n)
<1> DEFINE A == {k \in Nodes(root) : Before(k, m)}
           B == {k \in Nodes(root) : Before(k, n)}
<1>1. A \in SUBSET Nodes(root) /\ B \in SUBSET Nodes(root)
  OBVIOUS
<1>2. IsFiniteSet(A) /\ IsFiniteSet(B)
  <2> HIDE DEF A, B
  <2> QED
    BY <1>1, NodesFinite, FS_Subset
<1>3. Cardinality(A) \in Nat /\ Cardinality(B) \in Nat
  BY <1>2, FS_CardinalityType
<1>4. ASSUME Before(m, n)
      PROVE  Cardinality(A) < Cardinality(B)
  <2>1. A \in SUBSET B
    BY <1>4, Order
  <2>2. m \in B /\ m \notin A
    BY <1>4, Order
  <2> HIDE DEF A, B
  <2>3. A # B
    BY <2>2
  <2>4. Cardinality(A) <= Cardinality(B) /\ Cardinality(B) # Cardinality(A)
    BY <1>2, <2>1, <2>3, FS_Subset
  <2> QED
    BY <1>3, <2>4
<1>5. Rank(root, m) = Cardinality(A) /\ Rank(root, n) = Cardinality(B)
  BY DEF Rank
<1> QED
  BY <1>3, <1>4, <1>5

\* Each of the tables that are copied gets a frame of its own; those above it
\* have got theirs before.
Copying(root) ==
    /\ \A n \in Copied(root) : CopyOf(root, n) \in free
    /\ \A m, n \in Copied(root) : CopyOf(root, m) = CopyOf(root, n) => m = n
    /\ \A n \in Copied(root), m \in Nodes(root) : Before(m, n) => m \in Copied(root)
    /\ <<4, 0>> \in Copied(root)

LEMMA CopiesMade ==
    ASSUME NEW root, root # NULL, free \subseteq Frames, free # {}
    PROVE  Copying(root)
<1>1. free \in SUBSET Nat /\ IsFiniteSet(free) /\ Cardinality(free) \in Nat \ {0}
  <2>1. free \in SUBSET Nat /\ IsFiniteSet(free)
    BY GeometryAssumption, FS_Subset
  <2>2. Cardinality(free) \in Nat
    BY <2>1, FS_CardinalityType
  <2>3. Cardinality(free) # 0
    BY <2>1, FS_EmptySet
  <2> QED
    BY <2>1, <2>2, <2>3
<1>2. ASSUME NEW n \in Copied(root)
      PROVE  /\ CopyOf(root, n) \in free /\ n \in Nodes(root)
             /\ Cardinality(Smaller(free, CopyOf(root, n))) = Rank(root, n)
  <2>1. n \in Nodes(root) /\ Rank(root, n) < Cardinality(free)
    BY DEF Copied
  <2>2. Rank(root, n) \in Nat
    BY <2>1, Ranks
  <2>3. \E f \in free : Cardinality(Smaller(free, f)) = Rank(root, n)
    BY <1>1, <2>1, <2>2, InOrder
  <2>4. \E f \in free : Cardinality({g \in free : g < f}) = Rank(root, n)
    BY <2>3 DEF Smaller
  <2> QED
    BY <2>1, <2>4 DEF CopyOf, Smaller
<1>3. ASSUME NEW m \in Copied(root), NEW n \in Copied(root), CopyOf(root, m) = CopyOf(root, n)
      PROVE  m = n
  <2>1. Rank(root, m) = Rank(root, n) /\ m \in Nodes(root) /\ n \in Nodes(root)
    BY <1>2, <1>3
  <2>2. Rank(root, m) \in Nat /\ Rank(root, n) \in Nat
    BY <2>1, Ranks
  <2>3. ~Before(m, n) /\ ~Before(n, m)
    BY <2>1, <2>2, Ranks
  <2> QED
    BY <2>1, <2>3, Order
<1>4. ASSUME NEW n \in Copied(root), NEW m \in Nodes(root), Before(m, n)
      PROVE  m \in Copied(root)
  <2>1. n \in Nodes(root) /\ Rank(root, n) < Cardinality(free)
    BY DEF Copied
  <2>2. Rank(root, m) \in Nat /\ Rank(root, n) \in Nat /\ Rank(root, m) < Rank(root, n)
    BY <1>4, <2>1, Ranks
  <2>3. Rank(root, m) < Cardinality(free)
    BY <1>1, <2>1, <2>2
  <2> QED
    BY <2>3 DEF Copied
<1>5. <<4, 0>> \in Copied(root)
  <2>1. 0 \in Page /\ 4 \in Level /\ 0 % Span[5] = 0
    <3>1. Span[5] \in Nat \ {0}
      BY Spans
    <3>2. 0 = Span[5] * 0 + 0 /\ 0 \in 0 .. Span[5] - 1
      BY <3>1
    <3>3. 0 % Span[5] = 0
      BY <3>1, <3>2, DivisionUnique
    <3> QED
      BY <3>1, <3>3 DEF Page, Level
  <2>2. <<4, 0>> \in Nodes(root)
    <3> DEFINE n == <<4, 0>>
    <3>1. n \in Level \X Page /\ n[1] = 4 /\ n[2] = 0 /\ n[1] + 1 = 5
      BY <2>1
    <3>2. Table(table, root, n[2], n[1]) # NULL
      BY <3>1, TableStep
    <3> HIDE DEF n
    <3>3. n \in Nodes(root)
      BY <2>1, <3>1, <3>2 DEF Nodes
    <3> QED
      BY <3>3 DEF n
  <2>3. {m \in Nodes(root) : Before(m, <<4, 0>>)} = {}
    <3> SUFFICES ASSUME NEW m \in Nodes(root), Before(m, <<4, 0>>)
                 PROVE  FALSE
      OBVIOUS
    <3>1. m[1] \in Level /\ m[2] \in Page
      BY NodeTypes
    <3>2. m[2] \in Nat /\ m[1] <= 4 /\ m[1] \in Nat
      BY <3>1, Pages DEF Level
    <3> QED
      BY <3>2 DEF Before
  <2>4. Rank(root, <<4, 0>>) = 0
    BY <2>3, FS_EmptySet DEF Rank
  <2> QED
    BY <1>1, <2>2, <2>4 DEF Copied
<1> QED
  BY <1>2, <1>3, <1>4, <1>5 DEF Copying

\* The tables on the ways of a space are its nodes, from the PML4 down.
LEMMA NodesOnWays ==
    ASSUME Tables(table), NEW root \in Row, NEW v \in Page, NEW l \in Level
    PROVE  /\ NodeOf(v, l) \in Nodes(root) <=> Table(table, root, v, l) # NULL
           /\ NodeOf(v, l)[1] = l /\ NodeOf(v, l)[2] = Base(v, l + 1)
           /\ Table(table, root, Base(v, l + 1), l) = Table(table, root, v, l)
           /\ NodeOf(v, 4) = <<4, 0>>
           /\ l > 1 => Before(NodeOf(v, l), NodeOf(v, l - 1))
<1>1. l + 1 \in 1 .. 5 /\ l \in 1 .. 5
  BY DEF Level
<1>2. Base(v, l + 1) \in Page /\ Base(v, l + 1) % Span[l + 1] = 0 /\ Same(Base(v, l + 1), v, l + 1)
  BY <1>1, Bases
<1>3. Table(table, root, Base(v, l + 1), l) = Table(table, root, v, l)
  BY <1>2, TableSame
<1>4. NodeOf(v, l)[1] = l /\ NodeOf(v, l)[2] = Base(v, l + 1)
  BY DEF NodeOf
<1>5. NodeOf(v, l) \in Level \X Page
  BY <1>2 DEF NodeOf
<1>6. NodeOf(v, l) \in Nodes(root) <=> Table(table, root, v, l) # NULL
  <2> DEFINE n == NodeOf(v, l)
  <2>1. n[1] = l /\ n[2] = Base(v, l + 1) /\ n \in Level \X Page
    BY <1>4, <1>5
  <2> HIDE DEF n
  <2>2. n \in Nodes(root) <=> Table(table, root, v, l) # NULL
    BY <1>2, <1>3, <2>1 DEF Nodes
  <2> QED
    BY <2>2 DEF n
<1>7. NodeOf(v, 4) = <<4, 0>>
  <2>1. v \div Span[5] = 0 /\ Span[5] \in Nat
    BY Pages
  <2>2. Base(v, 5) = (v \div Span[5]) * Span[5]
    BY DEF Base
  <2>3. Base(v, 5) = 0
    BY <2>1, <2>2
  <2>4. 4 + 1 = 5
    OBVIOUS
  <2> QED
    BY <2>3, <2>4 DEF NodeOf
<1>8. l > 1 => Before(NodeOf(v, l), NodeOf(v, l - 1))
  <2> SUFFICES ASSUME l > 1
               PROVE  Before(NodeOf(v, l), NodeOf(v, l - 1))
    OBVIOUS
  <2>1. l - 1 + 1 = l /\ l - 1 < l
    BY DEF Level
  <2>2. NodeOf(v, l - 1)[1] = l - 1 /\ NodeOf(v, l - 1)[2] = Base(v, l)
    BY <2>1 DEF NodeOf
  <2>3. Base(v, l) = Base(v, l + 1) + Index(v, l) * Span[l]
    BY BaseStep
  <2>4. Index(v, l) * Span[l] \in Nat
    <3>1. Span[l] \in Nat
      BY <1>1, Spans
    <3>2. Index(v, l) \in Nat
      <4>1. v \in Nat
        BY Pages
      <4>2. Index(v, l) \in 0 .. ENTRIES - 1
        BY <4>1, IndexStep
      <4> QED
        BY <4>2
    <3> QED
      BY <3>1, <3>2
  <2>5. Base(v, l + 1) \in Nat
    BY <1>2, Pages
  <2>6. Base(v, l + 1) <= Base(v, l) /\ Base(v, l) \in Nat
    BY <2>3, <2>4, <2>5
  <2>7. l \in Nat
    BY DEF Level
  <2> QED
    BY <1>4, <2>1, <2>2, <2>5, <2>6, <2>7 DEF Before
<1> QED
  BY <1>3, <1>4, <1>6, <1>7, <1>8

\* What clone_table makes of the tables.
Cloned(root, tab1) ==
    /\ Tables(table) /\ root \in Frames /\ free \subseteq Frames /\ Copying(root)
    /\ \A n \in Copied(root) : \A k \in 0 .. ENTRIES - 1 :
          tab1[CopyOf(root, n)][k] = EntryCopy(root, n, k)
    /\ tab1[NULL] = Blank

\* An entry of a copy leads to the copy of what the entry leads to.
LEMMA CopiedEntries ==
    ASSUME NEW root, NEW tab1, Cloned(root, tab1), NEW v \in Page, NEW l \in Level,
           NodeOf(v, l) \in Copied(root)
    PROVE  /\ EntryCopy(root, NodeOf(v, l), Index(v, l)) =
                 IF EntryAt(table, root, v, l).kind # "table" THEN EntryAt(table, root, v, l)
                 ELSE IF NodeOf(v, l - 1) \in Copied(root)
                   THEN [EntryAt(table, root, v, l) EXCEPT !.sub = CopyOf(root, NodeOf(v, l - 1))]
                   ELSE Empty
<1>1. Tables(table) /\ root \in Row
  BY DEF Cloned, Row
<1>2. /\ NodeOf(v, l)[1] = l /\ NodeOf(v, l)[2] = Base(v, l + 1)
      /\ Table(table, root, Base(v, l + 1), l) = Table(table, root, v, l)
  BY <1>1, NodesOnWays
<1>3. table[Table(table, root, NodeOf(v, l)[2], NodeOf(v, l)[1])][Index(v, l)] = EntryAt(table, root, v, l)
  BY <1>2 DEF EntryAt
<1>4. <<NodeOf(v, l)[1] - 1, NodeOf(v, l)[2] + Index(v, l) * Span[NodeOf(v, l)[1]]>> = NodeOf(v, l - 1)
  <2>1. Base(v, l) = Base(v, l + 1) + Index(v, l) * Span[l]
    BY BaseStep
  <2>2. l - 1 + 1 = l
    BY DEF Level
  <2> QED
    BY <1>2, <2>1, <2>2 DEF NodeOf
<1> QED
  BY <1>3, <1>4 DEF EntryCopy

\* The ways of the copy, as far as there are tables for them.
LEMMA CloneWays ==
    ASSUME NEW root, NEW tab1, Cloned(root, tab1), NEW v \in Page
    PROVE  \A l \in Level :
              Table(tab1, CopyOf(root, <<4, 0>>), v, l) =
                 IF NodeOf(v, l) \in Copied(root) THEN CopyOf(root, NodeOf(v, l)) ELSE NULL
<1> DEFINE new == CopyOf(root, <<4, 0>>)
           Way(l) == IF NodeOf(v, l) \in Copied(root) THEN CopyOf(root, NodeOf(v, l)) ELSE NULL
<1>0. Tables(table) /\ root \in Row /\ Copying(root) /\ \A n \in Copied(root) : n \in Nodes(root)
  BY DEF Cloned, Row, Copied
<1>1. Table(tab1, new, v, 4) = Way(4)
  <2>1. NodeOf(v, 4) = <<4, 0>> /\ <<4, 0>> \in Copied(root)
    BY <1>0, NodesOnWays DEF Copying, Level
  <2>2. Table(tab1, new, v, 4) = new
    BY TableStep
  <2> QED
    BY <2>1, <2>2
<1>2. ASSUME NEW l \in 2 .. 4, Table(tab1, new, v, l) = Way(l)
      PROVE  Table(tab1, new, v, l - 1) = Way(l - 1)
  <2>1. l \in Level /\ l - 1 \in Level /\ l > 1
    BY DEF Level
  <2>2. Table(tab1, new, v, l - 1) = tab1[Way(l)][Index(v, l)].sub
    BY <1>2, TableStep DEF EntryAt
  <2>3. Index(v, l) \in 0 .. ENTRIES - 1
    BY <2>1, Indices
  <2>4. /\ NodeOf(v, l) \in Nodes(root) <=> Table(table, root, v, l) # NULL
        /\ NodeOf(v, l - 1) \in Nodes(root) <=> Table(table, root, v, l - 1) # NULL
        /\ Before(NodeOf(v, l), NodeOf(v, l - 1))
    BY <1>0, <2>1, NodesOnWays
  <2>5. Table(table, root, v, l - 1) = EntryAt(table, root, v, l).sub
    BY TableStep
  <2>6. EntryAt(table, root, v, l).kind = "table" <=> EntryAt(table, root, v, l).sub # NULL
    BY <1>0, <2>1, TableTypes
  <2>7. CASE NodeOf(v, l) \in Copied(root)
    <3>1. tab1[Way(l)][Index(v, l)] = EntryCopy(root, NodeOf(v, l), Index(v, l))
      BY <2>3, <2>7 DEF Cloned
    <3>2. CASE EntryAt(table, root, v, l).kind # "table"
      <4>1. tab1[Way(l)][Index(v, l)].sub = NULL
        BY <2>1, <2>6, <2>7, <3>1, <3>2, CopiedEntries
      <4>2. NodeOf(v, l - 1) \notin Copied(root)
        BY <1>0, <2>4, <2>5, <2>6, <3>2
      <4> QED
        BY <2>2, <4>1, <4>2
    <3>3. CASE EntryAt(table, root, v, l).kind = "table" /\ NodeOf(v, l - 1) \in Copied(root)
      <4>1. tab1[Way(l)][Index(v, l)] =
               [EntryAt(table, root, v, l) EXCEPT !.sub = CopyOf(root, NodeOf(v, l - 1))]
        BY <2>1, <2>7, <3>1, <3>3, CopiedEntries
      <4>2. EntryAt(table, root, v, l) \in Entry
        BY <1>0, <2>1, TableTypes
      <4>3. tab1[Way(l)][Index(v, l)].sub = CopyOf(root, NodeOf(v, l - 1))
        BY <4>1, <4>2 DEF Entry
      <4> QED
        BY <2>2, <3>3, <4>3
    <3>4. CASE EntryAt(table, root, v, l).kind = "table" /\ NodeOf(v, l - 1) \notin Copied(root)
      <4>1. tab1[Way(l)][Index(v, l)] = Empty
        BY <2>1, <2>7, <3>1, <3>4, CopiedEntries
      <4> QED
        BY <2>2, <3>4, <4>1 DEF Empty
    <3> QED
      BY <3>2, <3>3, <3>4
  <2>8. CASE NodeOf(v, l) \notin Copied(root)
    <3>1. tab1[Way(l)][Index(v, l)].sub = NULL
      <4>1. Way(l) = NULL /\ tab1[NULL] = Blank
        BY <2>8 DEF Cloned
      <4>2. Blank[Index(v, l)].sub = NULL
        BY <2>3 DEF Blank, Empty
      <4> QED
        BY <4>1, <4>2
    <3>2. NodeOf(v, l - 1) \notin Copied(root)
      <4> SUFFICES ASSUME NodeOf(v, l - 1) \in Copied(root)
                   PROVE  FALSE
        OBVIOUS
      <4>1. Table(table, root, v, l - 1) # NULL
        BY <1>0, <2>4
      <4>2. Table(table, root, v, l) # NULL
        <5>1. l - 1 <= l
          BY <2>1 DEF Level
        <5> QED
          BY <1>0, <2>1, <4>1, <5>1, TableEnd
      <4> QED
        BY <1>0, <2>4, <2>8, <4>2 DEF Copying
    <3> QED
      BY <2>2, <3>1, <3>2
  <2> QED
    BY <2>7, <2>8
<1> HIDE DEF Way, new
<1>3. Table(tab1, new, v, 3) = Way(3)
  <2>1. 4 \in 2 .. 4 /\ 4 - 1 = 3
    OBVIOUS
  <2> QED
    BY <1>1, <1>2, <2>1
<1>4. Table(tab1, new, v, 2) = Way(2)
  <2>1. 3 \in 2 .. 4 /\ 3 - 1 = 2
    OBVIOUS
  <2> QED
    BY <1>2, <1>3, <2>1
<1>5. Table(tab1, new, v, 1) = Way(1)
  <2>1. 2 \in 2 .. 4 /\ 2 - 1 = 1
    OBVIOUS
  <2> QED
    BY <1>2, <1>4, <2>1
<1>6. \A l \in Level : Table(tab1, new, v, l) = Way(l)
  <2>1. \A l \in Level : l = 1 \/ l = 2 \/ l = 3 \/ l = 4
    BY DEF Level
  <2> QED
    BY <1>1, <1>3, <1>4, <1>5, <2>1
<1> QED
  BY <1>6 DEF Way, new

\* The tables of the clone are the copies, and no others.
LEMMA CloneJoins ==
    ASSUME MemInv, NEW root \in Roots, Clone(root), UNCHANGED <<machine, kernel_pml4, cr3>>,
           free # {}
    PROVE  LET new == CopyOf(root, <<4, 0>>) IN
           /\ Joining(table, table', free, free', Roots, new) /\ Cloned(root, table')
           /\ Roots' = Roots \cup {new}
           /\ spaces' \subseteq Frames /\ kernel_pml4' \in Row /\ kernel_pml4' \notin spaces'
           /\ UNCHANGED <<tlb, remapped, orphaned>>
<1> DEFINE new == CopyOf(root, <<4, 0>>)
           taken == {CopyOf(root, n) : n \in Copied(root)}
           Row1(f) == LET n == CHOOSE m \in Copied(root) : CopyOf(root, m) = f IN
                      [k \in 0 .. ENTRIES - 1 |-> EntryCopy(root, n, k)]
<1>1. /\ Sound(At(table, free, NULL), Roots) /\ Tables(table) /\ Roots \subseteq Frames
      /\ free \subseteq Frames /\ root \in Frames /\ root \in Row
      /\ Reached(table, Roots) \cap free = {}
      /\ NULL \notin Frames
  BY GeometryAssumption DEF MemInv, SoundInv, Sound, At, Row, NULL
<1>2. Copying(root)
  BY <1>1, CopiesMade
<1>3. /\ table' = [f \in Row |->
            IF \E n \in Copied(root) : CopyOf(root, n) = f THEN Row1(f) ELSE table[f]]
      /\ free' = free \ taken
      /\ spaces' = spaces \cup {new}
      /\ UNCHANGED <<tlb, remapped, orphaned>>
  BY DEF Clone, Copied, CopyOf, Rank, EntryCopy
<1>4. taken \subseteq free /\ new \in taken /\ new \in Frames /\ taken \subseteq Frames
  BY <1>1, <1>2 DEF Copying
<1>5. ASSUME NEW n \in Copied(root)
      PROVE  /\ CopyOf(root, n) \in Row
             /\ table'[CopyOf(root, n)] = [k \in 0 .. ENTRIES - 1 |-> EntryCopy(root, n, k)]
  <2> DEFINE f == CopyOf(root, n)
             m == CHOOSE i \in Copied(root) : CopyOf(root, i) = f
  <2>1. f \in Row
    BY <1>4 DEF Row
  <2>2. m \in Copied(root) /\ CopyOf(root, m) = f
    OBVIOUS
  <2>3. m = n
    BY <1>2, <2>2 DEF Copying
  <2>4. table'[f] = Row1(f)
    BY <1>3, <2>1
  <2> QED
    BY <2>1, <2>3, <2>4
<1>6. \A g \in Row : g \notin taken => table'[g] = table[g]
  BY <1>3
<1> HIDE DEF Row1, taken
<1>7. Cloned(root, table')
  <2>1. table'[NULL] = Blank
    BY <1>1, <1>4, <1>6 DEF Tables, Row
  <2> QED
    BY <1>1, <1>2, <1>5, <2>1 DEF Cloned
<1>8. ASSUME NEW n \in Copied(root), NEW k \in 0 .. ENTRIES - 1
      PROVE  /\ EntryCopy(root, n, k) \in Entry
             /\ EntryCopy(root, n, k).kind = "table" <=> EntryCopy(root, n, k).sub # NULL
  <2> DEFINE e == table[Table(table, root, n[2], n[1])][k]
             sub == <<n[1] - 1, n[2] + k * Span[n[1]]>>
  <2>1. n \in Nodes(root)
    BY DEF Copied
  <2>2. n[1] \in Level /\ n[2] \in Page
    BY <2>1, NodeTypes
  <2>3. Table(table, root, n[2], n[1]) \in Row
    BY <1>1, <2>2, TableTypes
  <2>4. e \in Entry /\ (e.kind = "table" <=> e.sub # NULL)
    BY <1>1, <2>3 DEF Tables
  <2>5. EntryCopy(root, n, k) =
           IF e.kind # "table" THEN e
           ELSE IF sub \in Copied(root) THEN [e EXCEPT !.sub = CopyOf(root, sub)] ELSE Empty
    BY DEF EntryCopy
  <2>6. sub \in Copied(root) => CopyOf(root, sub) \in Row /\ CopyOf(root, sub) # NULL
    BY <1>1, <1>2 DEF Copying, Row
  <2>7. Empty \in Entry /\ Empty.kind # "table" /\ Empty.sub = NULL
    BY DEF Empty, Entry, Row, NULL
  <2> HIDE DEF e, sub
  <2>8. CASE e.kind # "table"
    BY <2>4, <2>5, <2>8
  <2>9. CASE e.kind = "table" /\ sub \in Copied(root)
    <3>1. EntryCopy(root, n, k) = [e EXCEPT !.sub = CopyOf(root, sub)]
      BY <2>5, <2>9
    <3> HIDE DEF Entry
    <3>2. /\ [e EXCEPT !.sub = CopyOf(root, sub)] \in Entry
          /\ [e EXCEPT !.sub = CopyOf(root, sub)].kind = "table"
          /\ [e EXCEPT !.sub = CopyOf(root, sub)].sub = CopyOf(root, sub)
      BY <2>4, <2>6, <2>9 DEF Entry
    <3> QED
      BY <2>6, <2>9, <3>1, <3>2
  <2>10. CASE e.kind = "table" /\ sub \notin Copied(root)
    BY <2>5, <2>7, <2>10
  <2> QED
    BY <2>8, <2>9, <2>10
<1>9. ASSUME NEW g \in Row
      PROVE  /\ table'[g] \in [0 .. ENTRIES - 1 -> Entry]
             /\ \A k \in 0 .. ENTRIES - 1 : table'[g][k].kind = "table" <=> table'[g][k].sub # NULL
  <2>1. CASE g \in taken
    <3>1. PICK n \in Copied(root) : g = CopyOf(root, n)
      BY <2>1 DEF taken
    <3>2. table'[g] = [k \in 0 .. ENTRIES - 1 |-> EntryCopy(root, n, k)]
      BY <1>5, <3>1
    <3> QED
      BY <1>8, <3>2
  <2>2. CASE g \notin taken
    BY <1>1, <1>6, <2>2 DEF Tables
  <2> QED
    BY <2>1, <2>2
<1>10. Tables(table')
  <2>1. table' \in [Row -> [0 .. ENTRIES - 1 -> Entry]]
    <3>1. \E F : table' = [f \in Row |-> F[f]]
      <4>1. table' = [f \in Row |-> table'[f]]
        BY <1>3
      <4> QED
        BY <4>1
    <3> QED
      BY <1>9, <3>1
  <2>2. table'[NULL] = Blank
    BY <1>7 DEF Cloned
  <2> QED
    BY <1>9, <2>1, <2>2 DEF Tables
<1>11. ASSUME NEW v \in Page, NEW l \in Level
       PROVE  Table(table', new, v, l) =
                 IF NodeOf(v, l) \in Copied(root) THEN CopyOf(root, NodeOf(v, l)) ELSE NULL
  BY <1>7, CloneWays
<1> HIDE DEF new
<1>12. free \ free' = taken
  BY <1>3, <1>4
<1>13. ASSUME NEW v \in Page, NEW l \in Level
       PROVE  \/ Table(table', new, v, l) = NULL
              \/ OwnWay(table', new, free, free', v, l)
  BY <1>11, <1>12 DEF OwnWay, taken
<1>14. ASSUME NEW v \in Page, NEW w \in Page, NEW l \in Level, NEW m \in Level,
              OwnWay(table', new, free, free', v, l),
              Table(table', new, v, l) = Table(table', new, w, m)
       PROVE  l = m /\ Same(v, w, l + 1)
  <2>1. Table(table', new, v, l) # NULL
    BY <1>1, <1>14 DEF OwnWay
  <2>2. /\ NodeOf(v, l) \in Copied(root) /\ NodeOf(w, m) \in Copied(root)
        /\ CopyOf(root, NodeOf(v, l)) = CopyOf(root, NodeOf(w, m))
    BY <1>11, <1>14, <2>1
  <2>3. NodeOf(v, l) = NodeOf(w, m)
    BY <1>2, <2>2 DEF Copying
  <2>4. l = m /\ Base(v, l + 1) = Base(w, l + 1)
    BY <2>3 DEF NodeOf
  <2>5. l + 1 \in 1 .. 5
    BY DEF Level
  <2> QED
    BY <2>4, <2>5, BaseSame
<1>15. ASSUME NEW g \in free \ free'
       PROVE  \E v \in Page, l \in Level : g = Table(table', new, v, l)
  <2>1. PICK n \in Copied(root) : g = CopyOf(root, n)
    BY <1>12 DEF taken
  <2>2. /\ n = <<n[1], n[2]>> /\ n[1] \in Level /\ n[2] \in Page
        /\ n[2] % Span[n[1] + 1] = 0
    BY NodeTypes DEF Copied
  <2>3. n[1] + 1 \in 1 .. 5
    BY <2>2 DEF Level
  <2>4. n[2] % Span[n[1] + 1] = n[2] - Base(n[2], n[1] + 1) /\ Base(n[2], n[1] + 1) \in Page
    BY <2>2, <2>3, Bases
  <2>5. Base(n[2], n[1] + 1) = n[2]
    <3>1. n[2] \in Nat /\ Base(n[2], n[1] + 1) \in Nat
      BY <2>2, <2>4, Pages
    <3> QED
      BY <2>2, <2>4, <3>1
  <2>6. NodeOf(n[2], n[1]) = n
    BY <2>2, <2>5 DEF NodeOf
  <2> QED
    BY <1>11, <2>1, <2>2, <2>6
<1>16. Joining(table, table', free, free', Roots, new)
  <2>1. free' \subseteq free /\ new \in free \ free'
    BY <1>3, <1>4
  <2>2. \A g \in Row : g \notin free => table'[g] = table[g]
    BY <1>4, <1>6
  <2> QED
    BY <1>1, <1>10, <1>13, <1>14, <1>15, <2>1, <2>2 DEF Joining
<1>17. new \notin Roots
  <2>1. JoinEffect(table, table', free, free', Roots, new)
    BY <1>16, Joined
  <2> QED
    BY <2>1 DEF JoinEffect
<1>18. Roots' = Roots \cup {new}
  BY <1>3 DEF Roots
<1>19. spaces' \subseteq Frames /\ kernel_pml4' \in Row /\ kernel_pml4' \notin spaces'
  <2>1. kernel_pml4 # new
    BY <1>1, <1>4, <1>17 DEF Roots
  <2> QED
    BY <1>3, <1>4, <2>1 DEF MemInv, RootsInv
<1> QED
  BY <1>3, <1>7, <1>16, <1>18, <1>19 DEF new

LEMMA CloneKeeps ==
    ASSUME MemInv, NEW root \in Roots, Clone(root), UNCHANGED <<machine, kernel_pml4, cr3>>
    PROVE  MemInv'
<1>1. CASE free = {}
  BY <1>1, RefusedKeeps DEF Clone
<1>2. CASE free # {}
  BY <1>2, CloneJoins, JoinKeeps
<1> QED
  BY <1>1, <1>2

-----------------------------------------------------------------------------
(* paging_init *)

MapCalls == [place : Nat \X Nat \X Nat, level : 1 .. 3, virt : Page, phys : Nat,
             flags : SUBSET Rights]

LEMMA CallTypes ==
    ASSUME NEW i \in Nat, NEW j \in Nat, NEW k \in Nat, NEW l \in 1 .. 3, NEW v \in Nat,
           NEW p \in Nat, NEW fl \in SUBSET Rights
    PROVE  MapCall(<<i, j, k>>, l, v, p, fl) \in MapCalls
<1>1. Span[5] \in Nat \ {0}
  BY Spans
<1>2. v % Span[5] \in Page
  <2> DEFINE s == Span[5]
  <2>1. s \in Nat \ {0}
    BY <1>1
  <2>2. v % s \in 0 .. s - 1
    <3> HIDE DEF s
    <3> QED
      BY <2>1, Division
  <2> QED
    BY <2>2 DEF Page
<1>3. <<i, j, k>> \in Nat \X Nat \X Nat
  OBVIOUS
<1> QED
  BY <1>2, <1>3 DEF MapCall, MapCalls

LEMMA IdentityTypes ==
    ASSUME NEW step \in Nat, NEW a \in Nat, NEW b, NEW uncached
    PROVE  Identities(step, LargePages(a, b), uncached) \subseteq MapCalls
<1> DEFINE s == Span[2]
           q == Base(a, 2)
           pages == LargePages(a, b)
           last == (b + Span[2] - 1 - Base(a, 2)) \div Span[2]
<1>1. s \in Nat \ {0}
  BY Spans
<1>2. q \in Nat
  <2>1. a \div s \in Nat
    <3> HIDE DEF s
    <3> QED
      BY <1>1, Division
  <2>2. q = (a \div s) * s
    BY DEF Base
  <2> HIDE DEF q, s
  <2> QED
    BY <1>1, <2>1, <2>2
<1>3. DOMAIN pages = 1 .. last /\ \A k \in 1 .. last : pages[k] = q + (k - 1) * s
  BY DEF LargePages
<1> HIDE DEF pages, last, q, s
<1>4. ASSUME NEW k \in DOMAIN pages
      PROVE  k \in Nat /\ pages[k] \in Nat
  <2>1. k \in 1 .. last
    BY <1>3
  <2>2. k \in Nat /\ k - 1 \in Nat
    BY <2>1
  <2>3. (k - 1) * s \in Nat
    BY <1>1, <2>2
  <2>4. pages[k] = q + (k - 1) * s
    BY <1>3, <2>1
  <2> QED
    BY <1>2, <2>2, <2>3, <2>4
<1> SUFFICES ASSUME NEW c \in Identities(step, pages, uncached)
             PROVE  c \in MapCalls
  BY DEF pages
<1>5. PICK k \in DOMAIN pages :
         c = MapCall(<<step, 0, k>>, 2, pages[k], pages[k],
                     {"write", "exec"} \cup IF pages[k] \in uncached THEN {} ELSE {"cache"})
  BY DEF Identities
<1>6. {"write", "exec"} \cup (IF pages[k] \in uncached THEN {} ELSE {"cache"}) \in SUBSET Rights
  BY DEF Rights
<1> QED
  BY <1>4, <1>5, <1>6, CallTypes

LEMMA Elements ==
    ASSUME NEW S, NEW s \in Seq(S), NEW i \in DOMAIN s
    PROVE  i \in Nat /\ s[i] \in S
OBVIOUS

LEMMA BootCallTypes ==
    ASSUME machine \in Machines
    PROVE  BootCalls \subseteq MapCalls
<1>1. /\ machine.fb \in Nat /\ machine.fbPages \in Nat
      /\ machine.regions \in Seq([type : {"code", "data", "other"}, base : Nat, pages : Nat])
  BY CallersAssumption DEF MachineAssumption
<1>2. LOW \in Nat /\ KERNEL_VMA \in Nat
  <2> DEFINE s == Span[5]
  <2>1. s \in Nat
    BY Spans
  <2>2. LOW \in 1 .. (s \div 2)
    BY GeometryAssumption
  <2>3. KERNEL_VMA = s - (LOW \div 2)
    BY DEF KERNEL_VMA
  <2> HIDE DEF s
  <2> QED
    BY <2>1, <2>2, <2>3
<1>3. Step1 \subseteq MapCalls
  BY IdentityTypes DEF Step1
<1>4. Step2 \subseteq MapCalls
  BY <1>1, IdentityTypes DEF Step2
<1>5. Step4 \subseteq MapCalls
  BY <1>2, IdentityTypes DEF Step4
<1>6. Step3 \subseteq MapCalls
  <2> SUFFICES ASSUME NEW c \in Step3
               PROVE  c \in MapCalls
    OBVIOUS
  <2>1. PICK n \in DOMAIN machine.regions : c \in HigherHalf(n, machine.regions[n])
    BY DEF Step3
  <2> DEFINE region == machine.regions[n]
  <2>2. n \in Nat /\ region.base \in Nat
    <3>1. n \in Nat /\ region \in [type : {"code", "data", "other"}, base : Nat, pages : Nat]
      BY <1>1, Elements
    <3> HIDE DEF region
    <3> QED
      BY <3>1
  <2> HIDE DEF region
  <2>3. PICK k \in 1 .. region.pages :
           c = MapCall(<<3, n, k>>, 1, KERNEL_VMA + region.base + k - 1, region.base + k - 1,
                  IF region.type = "code" THEN {"exec", "cache"}
                                          ELSE {"write", "exec", "cache"})
    <3>1. c \in HigherHalf(n, region)
      BY <2>1 DEF region
    <3> QED
      BY <3>1 DEF HigherHalf
  <2>4. k \in Nat /\ KERNEL_VMA + region.base + k - 1 \in Nat /\ region.base + k - 1 \in Nat
    <3>1. k \in Nat /\ k >= 1
      OBVIOUS
    <3> QED
      BY <1>2, <2>2, <3>1
  <2>5. (IF region.type = "code" THEN {"exec", "cache"} ELSE {"write", "exec", "cache"})
           \in SUBSET Rights
    BY DEF Rights
  <2> QED
    BY <2>2, <2>3, <2>4, <2>5, CallTypes
<1> QED
  BY <1>3, <1>4, <1>5, <1>6 DEF BootCalls

-----------------------------------------------------------------------------
(* Every step keeps the invariant *)

LEMMA Start ==
    ASSUME Init
    PROVE  PInv
<1>1. /\ machine \in Machines /\ table = [f \in Row |-> Blank] /\ free = machine.frames
      /\ kernel_pml4 = NULL /\ spaces = {} /\ cr3 = NULL /\ tlb = {} /\ pc = "init"
      /\ next = <<0, 0, 0>> /\ ops = 0 /\ remapped = {} /\ orphaned = {}
  BY DEF Init
<1>2. PlaceInv
  <2>1. next \in Nat \X Nat \X Nat
    BY <1>1
  <2>2. ops \in 0 .. MaxOps
    BY <1>1, GeometryAssumption
  <2> QED
    BY <1>1, <2>1, <2>2 DEF PlaceInv
<1>3. Roots = {}
  BY <1>1 DEF Roots
<1>4. RootsInv
  BY <1>1 DEF RootsInv, Row
<1>5. Tables(table)
  <2>1. \A k \in 0 .. ENTRIES - 1 : Blank[k] \in Entry /\ Blank[k].kind # "table" /\ Blank[k].sub = NULL
    BY DEF Blank, Empty, Entry, Row, NULL
  <2>2. Blank \in [0 .. ENTRIES - 1 -> Entry]
    BY <2>1 DEF Blank
  <2>3. \A f \in Row : table[f] = Blank
    BY <1>1
  <2>4. table \in [Row -> [0 .. ENTRIES - 1 -> Entry]] /\ NULL \in Row
    BY <1>1, <2>2 DEF Row
  <2> QED
    BY <2>1, <2>3, <2>4 DEF Tables
<1>6. SoundInv
  <2>1. free \subseteq Frames
    BY <1>1, CallersAssumption DEF MachineAssumption
  <2>2. Reached(table, Roots) = {} /\ Trees(table, Roots)
    BY <1>3 DEF Reached, Trees
  <2> QED
    BY <1>3, <1>5, <2>1, <2>2 DEF SoundInv, Sound, At, Row
<1>7. LeakInv
  BY <1>1 DEF LeakInv
<1>8. CachedInv
  BY <1>1 DEF CachedInv
<1> QED
  BY <1>2, <1>4, <1>6, <1>7, <1>8 DEF PInv, MemInv

LEMMA BootMapKeeps ==
    ASSUME PInv, BootMap
    PROVE  PInv'
<1>1. MemInv /\ PlaceInv
  BY DEF PInv
<1>2. PICK c \in BootCalls :
         /\ Map(kernel_pml4, c.virt, c.phys, c.level, c.flags)
         /\ next' = c.place
  BY DEF BootMap
<1>3. pc = "map" /\ UNCHANGED <<machine, kernel_pml4, spaces, cr3, pc, ops>>
  BY DEF BootMap
<1>4. /\ c.virt \in Page /\ c.phys \in Nat /\ c.level \in 1 .. 3 /\ c.flags \in SUBSET Rights
      /\ c.place \in Nat \X Nat \X Nat
  <2>1. c \in MapCalls
    BY <1>1, BootCallTypes DEF PlaceInv
  <2> QED
    BY <2>1 DEF MapCalls
<1>5. kernel_pml4 \in Roots
  BY <1>1, <1>3 DEF PlaceInv, Roots
<1>6. MemInv'
  BY <1>1, <1>2, <1>3, <1>4, <1>5, MapKeeps
<1>7. PlaceInv'
  BY <1>1, <1>2, <1>3, <1>4 DEF PlaceInv
<1> QED
  BY <1>6, <1>7 DEF PInv

LEMMA ActivateKeeps ==
    ASSUME PInv, Activate
    PROVE  PInv'
<1>1. MemInv /\ PlaceInv /\ pc = "map"
  BY DEF PInv, Activate
<1>2. UNCHANGED <<machine, table, free, kernel_pml4, spaces, next, ops, orphaned>>
  BY DEF Activate
<1>3. kernel_pml4 \in Roots
  BY <1>1 DEF PlaceInv, Roots
<1>4. MemInv'
  <2>1. CASE load_cr3(kernel_pml4)
    BY <1>1, <1>2, <1>3, <2>1, LoadKeeps
  <2>2. CASE UNCHANGED <<cr3, tlb, remapped>>
    BY <1>1, <1>2, <2>2 DEF MemInv, RootsInv, SoundInv, LeakInv, CachedInv, Roots
  <2> QED
    BY <2>1, <2>2 DEF Activate
<1>5. PlaceInv'
  <2>1. pc' = "ready"
    BY DEF Activate
  <2> QED
    BY <1>1, <1>2, <2>1 DEF PlaceInv
<1> QED
  BY <1>4, <1>5 DEF PInv

LEMMA CallsPlace ==
    ASSUME PlaceInv, Calls
    PROVE  PlaceInv'
<1>1. /\ pc = "ready" /\ ops < MaxOps /\ ops' = ops + 1 /\ ops \in 0 .. MaxOps
      /\ UNCHANGED <<machine, kernel_pml4, pc, next>>
  BY DEF Calls, PlaceInv
<1>2. ops' \in 0 .. MaxOps
  BY <1>1, GeometryAssumption
<1> QED
  BY <1>1, <1>2 DEF PlaceInv

LEMMA NextKeeps ==
    ASSUME PInv, [Next]_vars
    PROVE  PInv'
<1>0. MemInv /\ PlaceInv
  BY DEF PInv
<1>1. CASE InitPml4
  <2>1. MemInv'
    BY <1>0, <1>1, StartKeeps
  <2>2. PlaceInv'
    <3>1. CASE free = {}
      BY <1>0, <1>1, <3>1 DEF InitPml4, PlaceInv
    <3>2. CASE free # {}
      <4>1. (CHOOSE x \in free : TRUE) \in free
        BY <3>2
      <4>2. NULL \notin free
        BY <1>0, GeometryAssumption DEF MemInv, SoundInv, Sound, At, NULL
      <4>3. kernel_pml4' # NULL /\ pc' = "map" /\ UNCHANGED <<machine, next, ops>>
        BY <1>1, <3>2, <4>1, <4>2 DEF InitPml4
      <4> QED
        BY <1>0, <4>3 DEF PlaceInv
    <3> QED
      BY <3>1, <3>2
  <2> QED
    BY <2>1, <2>2 DEF PInv
<1>2. CASE BootMap
  BY <1>2, BootMapKeeps
<1>3. CASE Activate
  BY <1>3, ActivateKeeps
<1>4. ASSUME Calls, MemInv'
      PROVE  PInv'
  BY <1>0, <1>4, CallsPlace DEF PInv
<1>5. ASSUME NEW r \in Roots, NEW v \in Virts, NEW p \in Targets, NEW l \in 1 .. 3,
             NEW fl \in FlagSets, Calls, Map(r, v, p, l, fl), UNCHANGED <<spaces, cr3>>
      PROVE  PInv'
  <2>1. v \in Page /\ p \in Nat /\ fl \in SUBSET Rights
    BY CallersAssumption
  <2>2. UNCHANGED <<machine, kernel_pml4, spaces, cr3>>
    BY <1>5 DEF Calls
  <2>3. MemInv'
    BY <1>0, <1>5, <2>1, <2>2, MapKeeps
  <2> QED
    BY <1>4, <1>5, <2>3
<1>6. CASE MapPage
  <2>1. PICK r \in Roots, v \in Virts, p \in Targets, fl \in FlagSets :
           Calls /\ Map(r, v, p, 1, fl) /\ UNCHANGED <<spaces, cr3>>
    BY <1>6 DEF MapPage
  <2>2. 1 \in 1 .. 3
    OBVIOUS
  <2> QED
    BY <1>5, <2>1, <2>2
<1>7. CASE MapLarge
  <2>1. PICK r \in Roots, v \in Virts, p \in Targets, l \in {2, 3}, fl \in FlagSets :
           Calls /\ Map(r, v, p, l, fl) /\ UNCHANGED <<spaces, cr3>>
    BY <1>7 DEF MapLarge
  <2>2. l \in 1 .. 3
    OBVIOUS
  <2> QED
    BY <1>5, <2>1, <2>2
<1>8. ASSUME NEW r \in Roots, NEW v \in Virts, NEW l \in 1 .. 2, Calls, Unmap(r, v, l),
             UNCHANGED <<spaces, cr3>>
      PROVE  PInv'
  <2>1. v \in Page
    BY CallersAssumption
  <2>2. UNCHANGED <<machine, kernel_pml4, spaces, cr3>>
    BY <1>8 DEF Calls
  <2>3. MemInv'
    BY <1>0, <1>8, <2>1, <2>2, UnmapKeeps
  <2> QED
    BY <1>4, <1>8, <2>3
<1>9. CASE UnmapPage
  <2>1. PICK r \in Roots, v \in Virts : Calls /\ Unmap(r, v, 1) /\ UNCHANGED <<spaces, cr3>>
    BY <1>9 DEF UnmapPage
  <2>2. 1 \in 1 .. 2
    OBVIOUS
  <2> QED
    BY <1>8, <2>1, <2>2
<1>10. CASE UnmapLarge
  <2>1. PICK r \in Roots, v \in Virts : Calls /\ Unmap(r, v, 2) /\ UNCHANGED <<spaces, cr3>>
    BY <1>10 DEF UnmapLarge
  <2>2. 2 \in 1 .. 2
    OBVIOUS
  <2> QED
    BY <1>8, <2>1, <2>2
<1>11. CASE Protect
  <2>1. PICK r \in Roots, v \in Virts, fl \in FlagSets :
           Calls /\ SetFlags(r, v, fl) /\ UNCHANGED <<spaces, cr3>>
    BY <1>11 DEF Protect
  <2>2. v \in Page /\ fl \in SUBSET Rights
    BY CallersAssumption
  <2>3. UNCHANGED <<machine, kernel_pml4, spaces, cr3>>
    BY <2>1 DEF Calls
  <2>4. MemInv'
    BY <1>0, <2>1, <2>2, <2>3, SetFlagsKeeps
  <2> QED
    BY <1>4, <2>1, <2>4
<1>12. CASE CreateSpace
  <2>1. Calls /\ Create /\ UNCHANGED <<machine, kernel_pml4, cr3>>
    BY <1>12 DEF CreateSpace, Calls
  <2> QED
    BY <1>0, <1>4, <2>1, CreateKeeps
<1>13. CASE CloneSpace
  <2>1. PICK r \in Roots : Calls /\ Clone(r) /\ UNCHANGED cr3
    BY <1>13 DEF CloneSpace
  <2>2. UNCHANGED <<machine, kernel_pml4, cr3>>
    BY <2>1 DEF Calls
  <2>3. MemInv'
    BY <1>0, <2>1, <2>2, CloneKeeps
  <2> QED
    BY <1>4, <2>1, <2>3
<1>14. CASE DestroySpace
  <2>1. PICK r \in spaces : Calls /\ Destroy(r) /\ UNCHANGED cr3
    BY <1>14 DEF DestroySpace
  <2>2. UNCHANGED <<machine, kernel_pml4, cr3>>
    BY <2>1 DEF Calls
  <2>3. MemInv'
    BY <1>0, <2>1, <2>2, DestroyKeeps
  <2> QED
    BY <1>4, <2>1, <2>3
<1>15. CASE Switch
  <2>1. PICK r \in Roots :
           Calls /\ load_cr3(r) /\ UNCHANGED <<table, free, spaces, done, orphaned>>
    BY <1>15 DEF Switch
  <2>2. UNCHANGED <<machine, table, free, kernel_pml4, spaces, orphaned>>
    BY <2>1 DEF Calls
  <2>3. MemInv'
    BY <1>0, <2>1, <2>2, LoadKeeps
  <2> QED
    BY <1>4, <2>1, <2>3
<1>16. ASSUME NEW v \in Virts, Fill(v)
       PROVE  PInv'
  <2>1. v \in Page
    BY CallersAssumption
  <2>2. MemInv'
    BY <1>0, <1>16, <2>1, FillKeeps
  <2>3. PlaceInv'
    BY <1>0, <1>16 DEF Fill, PlaceInv
  <2> QED
    BY <2>2, <2>3 DEF PInv
<1>17. CASE UNCHANGED vars
  <2>1. PlaceInv'
    BY <1>0, <1>17 DEF vars, PlaceInv
  <2>2. MemInv'
    BY <1>0, <1>17 DEF vars, MemInv, RootsInv, SoundInv, LeakInv, CachedInv, Roots
  <2> QED
    BY <2>1, <2>2 DEF PInv
<1> QED
  BY <1>1, <1>2, <1>3, <1>6, <1>7, <1>9, <1>10, <1>11, <1>12, <1>13, <1>14, <1>15, <1>16, <1>17
     DEF Next

\* The tables form trees, nothing free is reached, every frame is accounted for,
\* and what is cached is in the tables, whatever the machine, the addresses and
\* the number of calls: the inductive invariant of all of paging.c.
THEOREM Invariance == Spec => []PInv
<1>1. Init => PInv
  BY Start
<1>2. PInv /\ [Next]_vars => PInv'
  BY NextKeeps
<1> QED
  BY <1>1, <1>2, PTL DEF Spec

-----------------------------------------------------------------------------
(* What it says of the runs' properties *)

\* Every variable has a value of its kind, and NULL is never written as a table
\* (the pointers that get_or_create_table and its callers pass on).
THEOREM Types == Spec => []TypeOK
<1>1. PInv => TypeOK
  <2> SUFFICES ASSUME PInv
               PROVE  TypeOK
    OBVIOUS
  <2>1. PlaceInv /\ RootsInv /\ Tables(table) /\ Roots \subseteq Frames /\ free \subseteq Frames
    BY DEF PInv, MemInv, SoundInv, Sound, At
  <2>2. table \in [Row -> [0 .. ENTRIES - 1 -> [kind : {"none", "table", "page"}, to : Nat,
                                                sub : Row, flags : SUBSET Rights]]]
    BY <2>1 DEF Tables, Entry
  <2>3. table[NULL] = Blank
    BY <2>1 DEF Tables
  <2>4. {kernel_pml4, cr3} \subseteq Row
    BY <2>1 DEF RootsInv, Row
  <2> QED
    BY <2>1, <2>2, <2>3, <2>4 DEF TypeOK, PlaceInv, RootsInv
<1> QED
  BY <1>1, Invariance, PTL

\* No table in use is on the free list, and none is on two ways, but for those
\* that paging_create_address_space copies into the upper half.
THEOREM TablesAreTrees == Spec => []TablesSound
<1>1. PInv => TablesSound
  <2> SUFFICES ASSUME PInv
               PROVE  TablesSound
    OBVIOUS
  <2> DEFINE places == UNION {{<<r, n, Table(table, r, n[2], n[1])>> : n \in Nodes(r)} : r \in Roots}
  <2>1. Trees(table, Roots) /\ Reached(table, Roots) \cap free = {}
    BY DEF PInv, MemInv, SoundInv, Sound, At
  <2>2. ASSUME NEW a \in places
        PROVE  /\ a[1] \in Roots /\ a[2] = <<a[2][1], a[2][2]>>
               /\ a[2][1] \in Level /\ a[2][2] \in Page /\ a[2][2] % Span[a[2][1] + 1] = 0
               /\ a[3] = Table(table, a[1], a[2][2], a[2][1]) /\ a[3] # NULL
    <3>0. PICK r \in Roots : a \in {<<r, n, Table(table, r, n[2], n[1])>> : n \in Nodes(r)}
      OBVIOUS
    <3>1. PICK n \in Nodes(r) : a = <<r, n, Table(table, r, n[2], n[1])>>
      BY <3>0
    <3>2. a[1] = r /\ a[2] = n /\ a[3] = Table(table, r, n[2], n[1])
      BY <3>1
    <3>3. /\ n = <<n[1], n[2]>> /\ n[1] \in Level /\ n[2] \in Page
          /\ n[2] % Span[n[1] + 1] = 0 /\ Table(table, r, n[2], n[1]) # NULL
      BY NodeTypes
    <3> QED
      BY <3>2, <3>3
  <2> HIDE DEF places
  <2>3. ASSUME NEW a \in places
        PROVE  a[3] \notin free
    BY <2>1, <2>2 DEF Reached
  <2>4. ASSUME NEW a \in places, NEW b \in places, a[3] = b[3]
        PROVE  a[2] = b[2] /\ (a[1] = b[1] \/ (a[2][2] \in Upper /\ a[2][1] < 4))
    <3> DEFINE v == a[2][2]
               w == b[2][2]
               l == a[2][1]
               m == b[2][1]
    <3>1. /\ a[1] \in Roots /\ b[1] \in Roots /\ v \in Page /\ w \in Page
          /\ l \in Level /\ m \in Level /\ a[2] = <<l, v>> /\ b[2] = <<m, w>>
          /\ v % Span[l + 1] = 0 /\ w % Span[m + 1] = 0
      BY <2>2
    <3>2. Table(table, a[1], v, l) = Table(table, b[1], w, m) /\ Table(table, a[1], v, l) # NULL
      BY <2>2, <2>4
    <3> HIDE DEF v, w, l, m
    <3>3. /\ l = m /\ Same(v, w, l + 1)
          /\ a[1] = b[1] \/ (v \in Upper /\ l < 4)
      BY <2>1, <3>1, <3>2 DEF Trees
    <3>4. l + 1 \in 1 .. 5
      BY <3>1 DEF Level
    <3>5. Base(v, l + 1) = Base(w, l + 1)
      BY <3>1, <3>3, <3>4, BaseSame
    <3>6. v = w
      <4>1. /\ v % Span[l + 1] = v - Base(v, l + 1) /\ w % Span[l + 1] = w - Base(w, l + 1)
            /\ Base(v, l + 1) \in Page
        BY <3>1, <3>4, Bases
      <4>2. v \in Nat /\ w \in Nat /\ Base(v, l + 1) \in Nat
        BY <3>1, <4>1, Pages
      <4> QED
        BY <3>1, <3>3, <3>5, <4>1, <4>2
    <3> QED
      BY <3>1, <3>3, <3>6 DEF v, l
  <2> QED
    BY <2>3, <2>4 DEF TablesSound, places
<1> QED
  BY <1>1, Invariance, PTL

\* No frame is lost but those the code is known to lose, however calls fail
\* (the early returns of get_or_create_table, split_2mb_page and clone_table).
THEOREM NothingElseLeaks == Spec => []NoLeak
<1>1. PInv => NoLeak
  <2> SUFFICES ASSUME PInv
               PROVE  NoLeak
    OBVIOUS
  <2>1. machine.frames \subseteq free \cup orphaned \cup Reached(table, Roots)
    BY DEF PInv, MemInv, LeakInv
  <2>2. ASSUME NEW x \in Reached(table, Roots)
        PROVE  x \in Roots \cup UNION {Below(r, Page) : r \in Roots}
    <3>1. PICK r \in Roots, v \in Page, l \in Level : x = Table(table, r, v, l) /\ x # NULL
      BY DEF Reached
    <3>2. CASE l = 4
      BY <3>1, <3>2, TableStep
    <3>3. CASE l \in 1 .. 3
      BY <3>1, <3>3 DEF Below
    <3> QED
      BY <3>2, <3>3, Levels
  <2> QED
    BY <2>1, <2>2 DEF NoLeak
<1> QED
  BY <1>1, Invariance, PTL

\* What the processor has cached is what it would find, but for pages that were
\* mapped over a mapping (invlpg after a change, the loads of CR3).
THEOREM NothingStale == Spec => []TlbCoherent
<1>1. PInv => TlbCoherent
  <2> SUFFICES ASSUME PInv, NEW e \in tlb,
                      NEW v \in (e.base .. e.base + Span[e.level] - 1) \ remapped
               PROVE  /\ Walk(table, cr3, v) # Unmapped
                      /\ Walk(table, cr3, v).to = e.to + (v - e.base)
                      /\ e.flags \subseteq Walk(table, cr3, v).flags
    BY DEF TlbCoherent
  <2>1. CachedInv
    BY DEF PInv, MemInv
  <2>2. e.level \in 1 .. 3 /\ e.base \in Page /\ e.base % Span[e.level] = 0
    BY <2>1 DEF CachedInv, Aligned
  <2>3. e.level \in 1 .. 5 /\ v \in Nat
    <3>1. e.base \in Nat
      BY <2>2, Pages
    <3> QED
      BY <2>2, <3>1
  <2>4. v \in Page /\ Same(v, e.base, e.level) /\ v \notin remapped
    BY <2>2, <2>3, SpanOf
  <2> QED
    BY <2>1, <2>4 DEF CachedInv
<1> QED
  BY <1>1, Invariance, PTL

-----------------------------------------------------------------------------
(* The page tables implement the address spaces of AddressSpaces: what the   *)
(* walks of all spaces find is changed by every call as it promises, and by  *)
(* nothing else.                                                             *)

\* What AddressSpaces calls space.
Space == [r \in Roots |-> [v \in Page |-> Walk(table, r, v)]]

LEMMA SpaceFacts ==
    /\ DOMAIN Space = Roots
    /\ \A r \in Roots : \A v \in Page : Space[r][v] = Walk(table, r, v)
BY DEF Space

LEMMA SpaceAfter ==
    /\ DOMAIN Space' = Roots'
    /\ \A r \in Roots' : \A v \in Page : Space'[r][v] = Walk(table', r, v)
BY DEF Space

\* A space in which no walk changed is the same.
LEMMA SpaceKept ==
    ASSUME NEW q \in Roots, q \in Roots', \A v \in Page : Walk(table', q, v) = Walk(table, q, v)
    PROVE  Space'[q] = Space[q]
<1>1. Space[q] = [v \in Page |-> Walk(table, q, v)]
  BY DEF Space
<1>2. Space'[q] = [v \in Page |-> Walk(table', q, v)]
  BY DEF Space
<1> QED
  BY <1>1, <1>2

LEMMA AllKept ==
    ASSUME Roots' = Roots, Unseen(table, table', Roots)
    PROVE  Space' = Space
<1>1. Space = [r \in Roots |-> [v \in Page |-> Walk(table, r, v)]]
  BY DEF Space
<1>2. Space' = [r \in Roots |-> [v \in Page |-> Walk(table', r, v)]]
  BY DEF Space
<1>3. \A r \in Roots : [v \in Page |-> Walk(table', r, v)] = [v \in Page |-> Walk(table, r, v)]
  BY DEF Unseen
<1> QED
  BY <1>1, <1>2, <1>3

-----------------------------------------------------------------------------
(* A call that changes the pages of one entry *)

\* The pages that a call names.
LEMMA SpanNamed ==
    ASSUME NEW v \in Page, NEW l \in 1 .. 3
    PROVE  \A w \in Int : w \in Base(v, l) .. Base(v, l) + Span[l] - 1 <=> w \in Page /\ Same(w, v, l)
<1> SUFFICES ASSUME NEW w \in Int
             PROVE  w \in Base(v, l) .. Base(v, l) + Span[l] - 1 <=> w \in Page /\ Same(w, v, l)
  OBVIOUS
<1>0. l \in 1 .. 5
  OBVIOUS
<1>1. Base(v, l) \in Page /\ Base(v, l) % Span[l] = 0 /\ Same(Base(v, l), v, l)
  BY <1>0, Bases
<1>2. Base(v, l) \in Nat
  BY <1>1, Pages
<1>3. w \in Page => w \in Nat
  BY Pages
<1>4. w \in Base(v, l) .. Base(v, l) + Span[l] - 1 => w \in Nat
  BY <1>2
<1>5. w \in Nat => (w \in Base(v, l) .. Base(v, l) + Span[l] - 1 <=> w \in Page /\ Same(w, Base(v, l), l))
  BY <1>0, <1>1, SpanOf
<1>6. Same(w, Base(v, l), l) <=> Same(w, v, l)
  BY <1>1 DEF Same
<1> QED
  BY <1>3, <1>4, <1>5, <1>6

\* A change that is followed leaves the other spaces theirs.
LEMMA OthersIsolated ==
    ASSUME NEW root \in Roots, Roots' = Roots, Followed(table, table', root, Roots),
           NEW q \in Roots \ {root}
    PROVE  Promise!Isolated(Space[q], Space'[q], Space'[root])
<1> SUFFICES ASSUME NEW v \in Page
             PROVE  \/ Space'[q][v] = Space[q][v]
                    \/ v \in Upper /\ Space'[q][v] = Space'[root][v]
  BY DEF Promise!Isolated
<1>1. \/ Walk(table', q, v) = Walk(table, q, v)
      \/ v \in Upper /\ Shares(table', q, root, v)
  BY DEF Followed
<1>2. Shares(table', q, root, v) => Walk(table', q, v) = Walk(table', root, v)
  BY WalkShared DEF Shares
<1>3. /\ Space[q][v] = Walk(table, q, v) /\ Space'[q][v] = Walk(table', q, v)
      /\ Space'[root][v] = Walk(table', root, v)
  BY SpaceFacts, SpaceAfter
<1> QED
  BY <1>1, <1>2, <1>3

LEMMA FinerKept ==
    ASSUME NEW m, NEW n, Finer(m, n)
    PROVE  Promise!Kept(m, n)
BY DEF Finer, Promise!Kept

\* Mapping does to the named pages what was asked, or fails and changes nothing.
LEMMA MapRefines ==
    ASSUME MemInv, NEW root \in Roots, NEW v \in Page, NEW p \in Nat, NEW l \in 1 .. 3,
           NEW fl \in SUBSET Rights, Map(root, v, p, l, fl), UNCHANGED <<kernel_pml4, spaces>>
    PROVE  Promise!Map \/ Promise!Fail
<1>1. MapEffect(root, v, p, l, fl)
  BY MapEffects DEF MemInv, RootsInv, SoundInv
<1>2. Roots' = Roots
  BY DEF Roots
<1>3. CASE done' = Failed /\ Unseen(table, table', Roots)
  <2>1. Space' = Space
    BY <1>2, <1>3, AllKept
  <2>2. ~done'.ok
    BY <1>3 DEF Failed
  <2> QED
    BY <2>1, <2>2 DEF Promise!Fail, Space
<1>4. CASE /\ done' = Call("map", root, v, l, p, fl) /\ Aligned(v, l)
           /\ \A q \in Roots : \A w \in Page :
                 ~Same(w, v, l) => Finer(Walk(table, q, w), Walk(table', q, w))
           /\ \A w \in Page : Same(w, v, l) =>
                 /\ Walk(table', root, w) # Unmapped
                 /\ Walk(table', root, w).to = p + (w - v)
                 /\ Walk(table', root, w).flags \subseteq fl
  <2> DEFINE d == done'
             span == Base(v, l) .. Base(v, l) + Span[l] - 1
  <2>1. /\ d.op = "map" /\ d.ok = TRUE /\ d.root = root /\ d.virt = Base(v, l)
        /\ d.pages = Span[l] /\ d.phys = p /\ d.flags = fl
    <3>1. d = Call("map", root, v, l, p, fl)
      BY <1>4
    <3> HIDE DEF d
    <3> QED
      BY <3>1 DEF Call
  <2>2. Base(v, l) = v
    <3>1. l \in 1 .. 5
      OBVIOUS
    <3>2. v % Span[l] = v - Base(v, l) /\ Base(v, l) \in Page
      BY <3>1, Bases
    <3>3. v \in Nat /\ Base(v, l) \in Nat
      BY <3>2, Pages
    <3> QED
      BY <1>4, <3>2, <3>3 DEF Aligned
  <2>3. ASSUME NEW w \in span
        PROVE  /\ Space'[root][w] # Unmapped /\ Space'[root][w].to = p + (w - Base(v, l))
               /\ Space'[root][w].flags \subseteq fl
    <3>1. w \in Page /\ Same(w, v, l)
      BY SpanNamed
    <3>2. Space'[root][w] = Walk(table', root, w)
      BY <1>2, <3>1, SpaceAfter
    <3> QED
      BY <1>4, <2>2, <3>1, <3>2
  <2>4. ASSUME NEW w \in Page \ span
        PROVE  Promise!Kept(Space[root][w], Space'[root][w])
    <3>1. ~Same(w, v, l)
      BY SpanNamed, Pages
    <3>2. Space[root][w] = Walk(table, root, w) /\ Space'[root][w] = Walk(table', root, w)
      BY <1>2, SpaceFacts, SpaceAfter
    <3> QED
      BY <1>4, <3>1, <3>2, FinerKept
  <2>5. ASSUME NEW q \in Roots \ {root}
        PROVE  Promise!Isolated(Space[q], Space'[q], Space'[root])
    BY <1>1, <1>2, OthersIsolated DEF MapEffect
  <2>6. DOMAIN Space' = DOMAIN Space /\ DOMAIN Space = Roots
    BY <1>2, SpaceFacts, SpaceAfter
  <2> QED
    BY <2>1, <2>3, <2>4, <2>5, <2>6
       DEF Promise!Map, Promise!Change, Promise!Span, Promise!AsAsked, Space
<1> QED
  BY <1>1, <1>3, <1>4 DEF MapEffect

\* So does replacing the entry for a page: unmapping, or new rights.
LEMMA RewriteRefines ==
    ASSUME MemInv, NEW root \in Roots, NEW v \in Page, NEW l \in 1 .. 3, NEW e, NEW op,
           NEW fl, RewriteEffect(root, v, l, e), UNCHANGED <<kernel_pml4, spaces>>,
           done' = Call(op, root, v, l, NULL, fl),
           \/ op = "unmap" /\ e = Empty
           \/ op = "protect" /\ e # Empty /\ e.flags = fl
    PROVE  Promise!Unmap \/ Promise!Protect
<1> DEFINE d == done'
           span == Base(v, l) .. Base(v, l) + Span[l] - 1
<1>1. /\ d.op = op /\ d.ok = TRUE /\ d.root = root /\ d.virt = Base(v, l)
      /\ d.pages = Span[l] /\ d.flags = fl
  <2>1. d = Call(op, root, v, l, NULL, fl)
    OBVIOUS
  <2> HIDE DEF d
  <2> QED
    BY <2>1 DEF Call
<1>2. Roots' = Roots
  BY DEF Roots
<1>3. ASSUME NEW w \in span
      PROVE  /\ Space[root][w] # Unmapped
             /\ e = Empty => Space'[root][w] = Unmapped
             /\ e # Empty => /\ Space'[root][w] # Unmapped
                             /\ Space'[root][w].to = Space[root][w].to
                             /\ Space'[root][w].flags \subseteq e.flags
  <2>1. w \in Page /\ Same(w, v, l)
    BY SpanNamed
  <2>2. Space[root][w] = Walk(table, root, w) /\ Space'[root][w] = Walk(table', root, w)
    BY <1>2, <2>1, SpaceFacts, SpaceAfter
  <2> QED
    BY <2>1, <2>2 DEF RewriteEffect
<1>4. ASSUME NEW w \in Page \ span
      PROVE  Promise!Kept(Space[root][w], Space'[root][w])
  <2>1. ~Same(w, v, l)
    BY SpanNamed, Pages
  <2>2. Space[root][w] = Walk(table, root, w) /\ Space'[root][w] = Walk(table', root, w)
    BY <1>2, SpaceFacts, SpaceAfter
  <2>3. Walk(table', root, w) = Walk(table, root, w)
    BY <2>1 DEF RewriteEffect
  <2> QED
    BY <2>2, <2>3 DEF Promise!Kept
<1>5. ASSUME NEW q \in Roots \ {root}
      PROVE  Promise!Isolated(Space[q], Space'[q], Space'[root])
  BY <1>2, OthersIsolated DEF RewriteEffect
<1>6. DOMAIN Space' = DOMAIN Space /\ DOMAIN Space = Roots
  BY <1>2, SpaceFacts, SpaceAfter
<1>7. CASE op = "unmap" /\ e = Empty
  <2>1. Promise!Span(done') = span
    BY <1>1 DEF Promise!Span
  <2> HIDE DEF span
  <2>2. \A w \in Promise!Span(done') : Space'[root][w] = Unmapped
    BY <1>3, <1>7, <2>1
  <2>3. \A w \in Page \ Promise!Span(done') : Promise!Kept(Space[root][w], Space'[root][w])
    BY <1>4, <2>1
  <2>4. Promise!Unmap
    BY <1>1, <1>5, <1>6, <1>7, <2>2, <2>3 DEF Promise!Unmap, Promise!Change, Space
  <2> QED
    BY <2>4
<1>8. CASE op = "protect" /\ e # Empty /\ e.flags = fl
  <2>1. Promise!Protect
    BY <1>1, <1>3, <1>4, <1>5, <1>6, <1>8 DEF Promise!Protect, Promise!Change, Promise!Span, Space
  <2> QED
    BY <2>1
<1> QED
  BY <1>7, <1>8

LEMMA RefusedRefines ==
    ASSUME Refused, UNCHANGED <<kernel_pml4, spaces>>
    PROVE  Promise!Fail
<1>1. table' = table /\ done' = Failed /\ Roots' = Roots
  BY DEF Refused, Roots
<1>2. Unseen(table, table', Roots)
  BY <1>1 DEF Unseen
<1>3. Space' = Space
  BY <1>1, <1>2, AllKept
<1>4. ~done'.ok
  BY <1>1 DEF Failed
<1> QED
  BY <1>3, <1>4 DEF Promise!Fail, Space

LEMMA UnmapRefines ==
    ASSUME MemInv, NEW root \in Roots, NEW v \in Page, NEW l \in 1 .. 2, Unmap(root, v, l),
           UNCHANGED <<kernel_pml4, spaces>>
    PROVE  Promise!Unmap \/ Promise!Protect \/ Promise!Fail
<1> DEFINE t == Table(table, root, v, l)
<1>1. CASE t # NULL /\ table[t][Index(v, l)].kind = "page"
  <2>1. Rewrite(t, v, l, Empty) /\ done' = Call("unmap", root, v, l, NULL, {})
    BY <1>1 DEF Unmap
  <2>2. PageAt(table, root, v, l) /\ l \in 1 .. 3
    BY <1>1 DEF PageAt, EntryAt
  <2>3. Empty \in Entry
    BY DEF Empty, Entry, Row, NULL
  <2>4. RewriteEffect(root, v, l, Empty)
    BY <2>1, <2>2, <2>3, RewriteEffects DEF MemInv, SoundInv
  <2> QED
    BY <2>1, <2>2, <2>4, RewriteRefines
<1>2. CASE ~(t # NULL /\ table[t][Index(v, l)].kind = "page")
  <2>1. Refused
    BY <1>2 DEF Unmap
  <2> QED
    BY <2>1, RefusedRefines
<1> QED
  BY <1>1, <1>2

LEMMA SetFlagsRefines ==
    ASSUME MemInv, NEW root \in Roots, NEW v \in Page, NEW fl \in SUBSET Rights,
           SetFlags(root, v, fl), UNCHANGED <<kernel_pml4, spaces>>
    PROVE  Promise!Unmap \/ Promise!Protect \/ Promise!Fail
<1> DEFINE l == Walk(table, root, v).level
           t == Table(table, root, v, l)
           e == PageEntry(table[t][Index(v, l)].to, fl)
<1>1. CASE Walk(table, root, v) # Unmapped
  <2>1. Rewrite(t, v, l, e) /\ done' = Call("protect", root, v, l, NULL, fl)
    BY <1>1 DEF SetFlags
  <2>2. Tables(table) /\ root \in Row
    BY DEF MemInv, SoundInv, Sound, At, Row
  <2>3. l \in 1 .. 3 /\ PageAt(table, root, v, l)
    BY <1>1, <2>2, WalkFacts
  <2>4. e = PageEntry(EntryAt(table, root, v, l).to, fl)
    BY DEF EntryAt
  <2>5. EntryAt(table, root, v, l).to \in Nat
    <3> HIDE DEF l
    <3>1. l \in Level
      BY <2>3 DEF Level
    <3>2. EntryAt(table, root, v, l) \in Entry
      BY <2>2, <3>1, TableTypes
    <3> QED
      BY <3>2 DEF Entry
  <2> HIDE DEF e, t, l
  <2>6. /\ e \in Entry /\ e.kind = "page" /\ e.sub = NULL /\ e.to = EntryAt(table, root, v, l).to
        /\ e.flags = fl
    BY <2>4, <2>5, PageEntries
  <2>7. e # Empty
    BY <2>6 DEF Empty
  <2>8. Rewrite(Table(table, root, v, l), v, l, e)
    BY <2>1 DEF t
  <2>9. RewriteEffect(root, v, l, e)
    BY <2>3, <2>6, <2>8, RewriteEffects DEF MemInv, SoundInv
  <2> QED
    BY <2>1, <2>3, <2>6, <2>7, <2>9, RewriteRefines
<1>2. CASE Walk(table, root, v) = Unmapped
  <2>1. Refused
    BY <1>2 DEF SetFlags
  <2> QED
    BY <2>1, RefusedRefines
<1> QED
  BY <1>1, <1>2

-----------------------------------------------------------------------------
(* Spaces that come and go *)

\* Nothing is mapped under an empty entry of the PML4.
LEMMA TopEmpty ==
    ASSUME NEW tab, Tables(tab), NEW r \in Row, NEW v \in Page, EntryAt(tab, r, v, 4) = Empty
    PROVE  Walk(tab, r, v) = Unmapped
<1>1. Table(tab, r, v, 3) = NULL
  BY TableStep DEF Empty
<1>2. \A l \in 1 .. 3 : EntryAt(tab, r, v, l) = Empty
  <2> SUFFICES ASSUME NEW l \in 1 .. 3
               PROVE  EntryAt(tab, r, v, l) = Empty
    OBVIOUS
  <2>1. l \in Level /\ 3 \in Level /\ l <= 3
    BY DEF Level
  <2> QED
    BY <1>1, <2>1, TableEnd
<1>3. \A l \in 1 .. 3 : ~PageAt(tab, r, v, l)
  BY <1>2 DEF PageAt, Empty
<1> QED
  BY <1>3, WalkFacts

\* A space that joins leaves the others as they are.
LEMMA Appearing ==
    ASSUME NEW f, Joining(table, table', free, free', Roots, f), Roots' = Roots \cup {f}
    PROVE  /\ Promise!Appears(f) /\ Promise!Others(f)
           /\ \A r \in Roots : \A v \in Page :
                 /\ EntryAt(table', r, v, 4) = EntryAt(table, r, v, 4)
                 /\ Walk(table', r, v) = Walk(table, r, v)
           /\ Tables(table') /\ f \in Row
<1>1. JoinEffect(table, table', free, free', Roots, f)
  BY Joined
<1>2. ASSUME NEW r \in Roots, NEW v \in Page
      PROVE  /\ EntryAt(table', r, v, 4) = EntryAt(table, r, v, 4)
             /\ Walk(table', r, v) = Walk(table, r, v)
  BY <1>1 DEF JoinEffect, Level
<1>3. f \notin Roots /\ Tables(table') /\ f \in Row
  BY <1>1 DEF JoinEffect, Sound, At, Row
<1>4. DOMAIN Space = Roots /\ DOMAIN Space' = Roots \cup {f}
  BY SpaceFacts, SpaceAfter
<1>5. ASSUME NEW q \in Roots
      PROVE  Space'[q] = Space[q]
  <2>1. q \in Roots'
    OBVIOUS
  <2>2. \A v \in Page : Walk(table', q, v) = Walk(table, q, v)
    BY <1>2
  <2> QED
    BY <2>1, <2>2, SpaceKept
<1>6. Promise!Appears(f)
  BY <1>3, <1>4 DEF Promise!Appears, Space
<1>7. Promise!Others(f)
  BY <1>4, <1>5 DEF Promise!Others, Space
<1> QED
  BY <1>2, <1>3, <1>6, <1>7

LEMMA StartRefines ==
    ASSUME MemInv, PlaceInv, InitPml4
    PROVE  Promise!Start \/ (Space' = Space /\ done' = done)
<1> DEFINE f == CHOOSE x \in free : TRUE
<1>1. CASE free = {}
  <2>1. done' = done /\ table' = table /\ Roots' = Roots
    BY <1>1 DEF InitPml4, Roots
  <2>2. Unseen(table, table', Roots)
    BY <2>1 DEF Unseen
  <2> QED
    BY <2>1, <2>2, AllKept
<1>2. CASE free # {}
  <2>1. /\ Joining(table, table', free, free', Roots, f) /\ Roots' = Roots \cup {f}
        /\ \A v \in Page : EntryAt(table', f, v, 4) = Empty
    BY <1>2, StartJoins
  <2>2. done'.op = "start" /\ done'.new = f
    BY <1>2 DEF InitPml4
  <2> HIDE DEF f
  <2>3. Promise!Appears(f) /\ Promise!Others(f) /\ Tables(table') /\ f \in Row
    BY <2>1, Appearing
  <2>4. ASSUME NEW v \in Page
        PROVE  Space'[f][v] = Unmapped
    <3>1. Space'[f][v] = Walk(table', f, v)
      BY <2>1, SpaceAfter
    <3> QED
      BY <2>1, <2>3, <3>1, TopEmpty
  <2>5. Promise!Start
    BY <2>2, <2>3, <2>4 DEF Promise!Start, Space
  <2> QED
    BY <2>5
<1> QED
  BY <1>1, <1>2

LEMMA CreateRefines ==
    ASSUME MemInv, Create, UNCHANGED <<machine, kernel_pml4, cr3>>
    PROVE  Promise!Create \/ Promise!Fail
<1> DEFINE f == CHOOSE x \in free : TRUE
<1>1. CASE free = {}
  BY <1>1, RefusedRefines DEF Create
<1>2. CASE free # {}
  <2>1. /\ Joining(table, table', free, free', Roots, f) /\ Roots' = Roots \cup {f}
        /\ \A v \in Page : EntryAt(table', f, v, 4) =
              IF kernel_pml4 # NULL /\ v \in Upper THEN EntryAt(table, kernel_pml4, v, 4)
                                                  ELSE Empty
    BY <1>2, CreateJoins
  <2>2. /\ done'.op = "create" /\ done'.ok = TRUE /\ done'.new = f
        /\ done'.root = kernel_pml4
    BY <1>2 DEF Create
  <2> HIDE DEF f
  <2>3. /\ Promise!Appears(f) /\ Promise!Others(f) /\ Tables(table') /\ f \in Row
        /\ \A r \in Roots : \A v \in Page :
              /\ EntryAt(table', r, v, 4) = EntryAt(table, r, v, 4)
              /\ Walk(table', r, v) = Walk(table, r, v)
    BY <2>1, Appearing
  <2>4. ASSUME NEW v \in Page
        PROVE  Space'[f][v] = IF v \in Upper /\ kernel_pml4 # NULL
                                THEN Space[kernel_pml4][v] ELSE Unmapped
    <3>1. Space'[f][v] = Walk(table', f, v)
      BY <2>1, SpaceAfter
    <3>2. CASE v \in Upper /\ kernel_pml4 # NULL
      <4>1. kernel_pml4 \in Roots
        BY <3>2 DEF Roots
      <4>2. EntryAt(table', f, v, 4) = EntryAt(table', kernel_pml4, v, 4)
        BY <2>1, <2>3, <3>2, <4>1
      <4>3. Walk(table', f, v) = Walk(table', kernel_pml4, v)
        BY <4>2, WalkShared
      <4>4. Space[kernel_pml4][v] = Walk(table, kernel_pml4, v)
        BY <4>1, SpaceFacts
      <4> QED
        BY <2>3, <3>1, <3>2, <4>1, <4>3, <4>4
    <3>3. CASE ~(v \in Upper /\ kernel_pml4 # NULL)
      <4>1. EntryAt(table', f, v, 4) = Empty
        BY <2>1, <3>3
      <4> QED
        BY <2>3, <3>1, <3>3, <4>1, TopEmpty
    <3> QED
      BY <3>2, <3>3
  <2>5. \A v \in Page : Space'[done'.new][v] =
           IF v \in Upper /\ done'.root # NULL THEN Space[done'.root][v] ELSE Unmapped
    BY <2>2, <2>4
  <2>6. Promise!Appears(done'.new) /\ Promise!Others(done'.new) /\ done'.op = "create" /\ done'.ok
    BY <2>2, <2>3
  <2>7. Promise!Create
    BY <2>5, <2>6 DEF Promise!Create, Space
  <2> QED
    BY <2>7
<1> QED
  BY <1>1, <1>2

LEMMA DestroyRefines ==
    ASSUME MemInv, NEW root \in spaces, Destroy(root), UNCHANGED <<machine, kernel_pml4, cr3>>
    PROVE  Promise!Destroy
<1>1. /\ Roots' = Roots \ {root}
      /\ \A r \in Roots \ {root} : \A v \in Page : Walk(table', r, v) = Walk(table, r, v)
  BY DestroyWays
<1>2. done'.op = "destroy" /\ done'.ok = TRUE /\ done'.root = root
  BY DEF Destroy
<1>3. DOMAIN Space = Roots /\ DOMAIN Space' = Roots \ {root}
  BY <1>1, SpaceFacts, SpaceAfter
<1>4. ASSUME NEW q \in Roots \ {root}
      PROVE  Space'[q] = Space[q]
  BY <1>1, SpaceKept
<1> QED
  BY <1>2, <1>3, <1>4 DEF Promise!Destroy, Promise!Others, Space

-----------------------------------------------------------------------------
(* The walks of a clone *)

LEMMA CloneEntries ==
    ASSUME NEW root, NEW tab1, Cloned(root, tab1), NEW v \in Page, NEW l \in Level
    PROVE  EntryAt(tab1, CopyOf(root, <<4, 0>>), v, l) =
              IF NodeOf(v, l) \notin Copied(root) THEN Empty
              ELSE IF EntryAt(table, root, v, l).kind # "table" THEN EntryAt(table, root, v, l)
              ELSE IF NodeOf(v, l - 1) \in Copied(root)
                THEN [EntryAt(table, root, v, l) EXCEPT !.sub = CopyOf(root, NodeOf(v, l - 1))]
                ELSE Empty
<1> DEFINE new == CopyOf(root, <<4, 0>>)
<1>1. Index(v, l) \in 0 .. ENTRIES - 1
  BY Indices
<1>2. EntryAt(tab1, new, v, l) = tab1[Table(tab1, new, v, l)][Index(v, l)]
  BY DEF EntryAt
<1>3. Table(tab1, new, v, l) =
         IF NodeOf(v, l) \in Copied(root) THEN CopyOf(root, NodeOf(v, l)) ELSE NULL
  BY CloneWays
<1> HIDE DEF new
<1>4. CASE NodeOf(v, l) \notin Copied(root)
  <2>1. tab1[NULL] = Blank
    BY DEF Cloned
  <2>2. Blank[Index(v, l)] = Empty
    BY <1>1 DEF Blank
  <2> QED
    BY <1>2, <1>3, <1>4, <2>1, <2>2 DEF new
<1>5. CASE NodeOf(v, l) \in Copied(root)
  <2>1. EntryAt(tab1, new, v, l) = EntryCopy(root, NodeOf(v, l), Index(v, l))
    BY <1>1, <1>2, <1>3, <1>5 DEF Cloned
  <2> QED
    BY <1>5, <2>1, CopiedEntries DEF new
<1> QED
  BY <1>4, <1>5

\* Above a table that was copied all tables were, with their rights.
LEMMA ClonedAbove ==
    ASSUME NEW root, NEW tab1, Cloned(root, tab1), NEW v \in Page, NEW l \in 1 .. 3,
           NodeOf(v, l) \in Copied(root)
    PROVE  /\ NodeOf(v, l + 1) \in Copied(root)
           /\ EntryAt(tab1, CopyOf(root, <<4, 0>>), v, l + 1).flags = EntryAt(table, root, v, l + 1).flags
<1>1. Tables(table) /\ root \in Row /\ Copying(root) /\ \A n \in Copied(root) : n \in Nodes(root)
  BY DEF Cloned, Row, Copied
<1>2. l \in Level /\ l + 1 \in Level /\ l + 1 > 1 /\ l + 1 - 1 = l /\ l + 1 > l /\ l <= l + 1
  BY DEF Level
<1>3. Table(table, root, v, l) # NULL
  BY <1>1, <1>2, NodesOnWays
<1>4. Table(table, root, v, l + 1) # NULL
  BY <1>1, <1>2, <1>3, TableEnd
<1>5. NodeOf(v, l + 1) \in Nodes(root)
  BY <1>1, <1>2, <1>4, NodesOnWays
<1>6. Before(NodeOf(v, l + 1), NodeOf(v, l + 1 - 1))
  BY <1>1, <1>2, NodesOnWays
<1>7. NodeOf(v, l + 1) \in Copied(root)
  BY <1>1, <1>2, <1>5, <1>6 DEF Copying
<1> DEFINE e == EntryAt(table, root, v, l + 1)
           e1 == EntryAt(tab1, CopyOf(root, <<4, 0>>), v, l + 1)
<1>8. e.kind = "table" /\ e \in Entry
  BY <1>1, <1>2, <1>3, AboveTables, TableTypes
<1>9. e1 = [e EXCEPT !.sub = CopyOf(root, NodeOf(v, l))]
  <2>1. NodeOf(v, l + 1 - 1) \in Copied(root) /\ NodeOf(v, l + 1 - 1) = NodeOf(v, l)
    BY <1>2
  <2> QED
    BY <1>2, <1>7, <1>8, <2>1, CloneEntries
<1> HIDE DEF e, e1
<1>10. e1.flags = e.flags
  BY <1>8, <1>9 DEF Entry
<1> QED
  BY <1>7, <1>10 DEF e, e1

LEMMA CloneWalks ==
    ASSUME NEW root, NEW tab1, Cloned(root, tab1), Tables(tab1), NEW v \in Page
    PROVE  LET new == CopyOf(root, <<4, 0>>) IN
           /\ Walk(tab1, new, v) \in {Walk(table, root, v), Unmapped}
           /\ Copied(root) = Nodes(root) => Walk(tab1, new, v) = Walk(table, root, v)
<1> DEFINE new == CopyOf(root, <<4, 0>>)
<1>1. Tables(table) /\ root \in Row /\ new \in Row
  BY DEF Cloned, Row, Copying
<1>2. \A l \in Level : EntryAt(tab1, new, v, l) =
         IF NodeOf(v, l) \notin Copied(root) THEN Empty
         ELSE IF EntryAt(table, root, v, l).kind # "table" THEN EntryAt(table, root, v, l)
         ELSE IF NodeOf(v, l - 1) \in Copied(root)
           THEN [EntryAt(table, root, v, l) EXCEPT !.sub = CopyOf(root, NodeOf(v, l - 1))]
           ELSE Empty
  BY CloneEntries
<1>3. \A l \in 1 .. 3 : NodeOf(v, l) \in Copied(root) =>
         /\ NodeOf(v, l + 1) \in Copied(root)
         /\ EntryAt(tab1, new, v, l + 1).flags = EntryAt(table, root, v, l + 1).flags
  BY ClonedAbove
<1> HIDE DEF new
<1>4. ASSUME NEW l \in 1 .. 3
      PROVE  PageAt(tab1, new, v, l) =>
                /\ NodeOf(v, l) \in Copied(root) /\ PageAt(table, root, v, l)
                /\ EntryAt(tab1, new, v, l) = EntryAt(table, root, v, l)
  <2> DEFINE e == EntryAt(table, root, v, l)
             e1 == EntryAt(tab1, new, v, l)
  <2>1. l \in Level /\ e \in Entry
    <3>1. l \in Level
      BY DEF Level
    <3> QED
      BY <1>1, <3>1, TableTypes
  <2>2. \/ e1 = Empty
        \/ NodeOf(v, l) \in Copied(root) /\ e1 = e
        \/ e.kind = "table" /\ e1 = [e EXCEPT !.sub = CopyOf(root, NodeOf(v, l - 1))]
    BY <1>2, <2>1
  <2>3. e1.kind = "page" <=> PageAt(tab1, new, v, l)
    BY DEF PageAt
  <2>4. e.kind = "page" <=> PageAt(table, root, v, l)
    BY DEF PageAt
  <2> HIDE DEF e, e1
  <2>5. e1.kind = "page" => NodeOf(v, l) \in Copied(root) /\ e1 = e
    <3>1. Empty.kind # "page"
      BY DEF Empty
    <3>2. e.kind = "table" => [e EXCEPT !.sub = CopyOf(root, NodeOf(v, l - 1))].kind = "table"
      BY <2>1 DEF Entry
    <3> QED
      BY <2>2, <3>1, <3>2
  <2> QED
    BY <2>3, <2>4, <2>5 DEF e, e1
<1>5. ASSUME NEW l \in 1 .. 3, PageAt(tab1, new, v, l)
      PROVE  Walk(tab1, new, v) = Walk(table, root, v)
  <2>1. /\ NodeOf(v, l) \in Copied(root) /\ PageAt(table, root, v, l)
        /\ EntryAt(tab1, new, v, l) = EntryAt(table, root, v, l)
    BY <1>4, <1>5
  <2>2. RightsAbove(tab1, new, v, l) = RightsAbove(table, root, v, l)
    <3> DEFINE Alike(n) == EntryAt(tab1, new, v, n).flags = EntryAt(table, root, v, n).flags
               Is(n) == NodeOf(v, n) \in Copied(root)
    <3>1. /\ Is(1) => Is(2) /\ Alike(2)
          /\ Is(2) => Is(3) /\ Alike(3)
          /\ Is(3) => Alike(4)
      <4>1. 1 \in 1 .. 3 /\ 2 \in 1 .. 3 /\ 3 \in 1 .. 3 /\ 1 + 1 = 2 /\ 2 + 1 = 3 /\ 3 + 1 = 4
        OBVIOUS
      <4>2. Is(1) => Is(1 + 1) /\ Alike(1 + 1)
        BY <1>3, <4>1
      <4>3. Is(2) => Is(2 + 1) /\ Alike(2 + 1)
        BY <1>3, <4>1
      <4>4. Is(3) => Is(3 + 1) /\ Alike(3 + 1)
        BY <1>3, <4>1
      <4> HIDE DEF Is, Alike
      <4> QED
        BY <4>1, <4>2, <4>3, <4>4
    <3>2. Is(l)
      BY <2>1
    <3>3. l = 1 \/ l = 2 \/ l = 3
      OBVIOUS
    <3>4. CASE l = 1
      <4>1. Alike(2) /\ Alike(3) /\ Alike(4)
        BY <3>1, <3>2, <3>4
      <4> QED
        BY <3>4, <4>1 DEF RightsAbove
    <3>5. CASE l = 2
      <4>1. Alike(3) /\ Alike(4)
        BY <3>1, <3>2, <3>5
      <4> QED
        BY <3>5, <4>1 DEF RightsAbove
    <3>6. CASE l = 3
      <4>1. Alike(4)
        BY <3>1, <3>2, <3>6
      <4> QED
        BY <3>6, <4>1 DEF RightsAbove
    <3> QED
      BY <3>3, <3>4, <3>5, <3>6
  <2>3. Walk(tab1, new, v) = Leaf(EntryAt(tab1, new, v, l), v, l, RightsAbove(tab1, new, v, l))
    BY <1>1, <1>5, WalkFacts
  <2>4. Walk(table, root, v) = Leaf(EntryAt(table, root, v, l), v, l, RightsAbove(table, root, v, l))
    BY <1>1, <2>1, WalkFacts
  <2> QED
    BY <2>1, <2>2, <2>3, <2>4
<1>6. CASE \E l \in 1 .. 3 : PageAt(tab1, new, v, l)
  BY <1>5, <1>6 DEF new
<1>7. CASE \A l \in 1 .. 3 : ~PageAt(tab1, new, v, l)
  <2>1. Walk(tab1, new, v) = Unmapped
    BY <1>1, <1>7, WalkFacts
  <2>2. ASSUME Copied(root) = Nodes(root), Walk(table, root, v) # Unmapped
        PROVE  FALSE
    <3> DEFINE l == Walk(table, root, v).level
               e == EntryAt(table, root, v, l)
    <3>1. l \in 1 .. 3 /\ PageAt(table, root, v, l)
      BY <1>1, <2>2, WalkFacts
    <3> HIDE DEF l
    <3>2. l \in Level /\ e.kind = "page"
      BY <3>1 DEF Level, PageAt
    <3>3. e # Empty
      <4> HIDE DEF e
      <4> QED
        BY <3>2 DEF Empty
    <3>4. Table(table, root, v, l) # NULL
      BY <1>1, <3>2, <3>3, TableTypes
    <3>5. NodeOf(v, l) \in Copied(root)
      BY <1>1, <2>2, <3>2, <3>4, NodesOnWays
    <3>6. EntryAt(tab1, new, v, l) = e
      BY <1>2, <3>2, <3>5
    <3>7. PageAt(tab1, new, v, l)
      BY <3>1, <3>2, <3>6 DEF PageAt
    <3> QED
      BY <1>7, <3>1, <3>7
  <2> QED
    BY <2>1, <2>2 DEF new
<1> QED
  BY <1>6, <1>7

LEMMA CloneRefines ==
    ASSUME MemInv, NEW root \in Roots, Clone(root), UNCHANGED <<machine, kernel_pml4, cr3>>
    PROVE  Promise!Clone \/ Promise!Fail
<1> DEFINE new == CopyOf(root, <<4, 0>>)
<1>1. CASE free = {}
  BY <1>1, RefusedRefines DEF Clone
<1>2. CASE free # {}
  <2>1. /\ Joining(table, table', free, free', Roots, new) /\ Roots' = Roots \cup {new}
        /\ Cloned(root, table')
    BY <1>2, CloneJoins
  <2>2. /\ done'.op = "clone" /\ done'.ok = TRUE /\ done'.new = new /\ done'.root = root
        /\ done'.complete => Copied(root) = Nodes(root)
    <3> DEFINE all == Copied(root) = Nodes(root)
    <3>1. done' = [op |-> "clone", ok |-> TRUE, root |-> root, new |-> new, complete |-> all]
      BY <1>2 DEF Clone, Copied, CopyOf, Rank
    <3> HIDE DEF all, new
    <3>2. done'.complete => all
      BY <3>1
    <3>3. /\ done'.op = "clone" /\ done'.ok = TRUE /\ done'.new = new /\ done'.root = root
      BY <3>1
    <3> QED
      BY <3>2, <3>3 DEF all
  <2>3. Promise!Appears(new) /\ Promise!Others(new) /\ Tables(table')
    BY <2>1, Appearing
  <2>4. ASSUME NEW v \in Page
        PROVE  /\ Space'[new][v] \in {Space[root][v], Unmapped}
               /\ Copied(root) = Nodes(root) => Space'[new][v] = Space[root][v]
    <3>1. Space'[new][v] = Walk(table', new, v) /\ Space[root][v] = Walk(table, root, v)
      BY <2>1, SpaceFacts, SpaceAfter
    <3> QED
      BY <2>1, <2>3, <3>1, CloneWalks
  <2> HIDE DEF new
  <2>5. Copied(root) = Nodes(root) => Space'[new] = Space[root]
    <3>1. Space[root] = [v \in Page |-> Space[root][v]]
      BY DEF Space
    <3>2. Space'[new] = [v \in Page |-> Space'[new][v]]
      BY <2>1 DEF Space
    <3> QED
      BY <2>4, <3>1, <3>2
  <2>6. Promise!Appears(done'.new) /\ Promise!Others(done'.new) /\ done'.op = "clone" /\ done'.ok
    BY <2>2, <2>3
  <2>7. \A v \in Page : Space'[done'.new][v] \in {Space[done'.root][v], Unmapped}
    BY <2>2, <2>4
  <2>8. done'.complete => Space'[done'.new] = Space[done'.root]
    BY <2>2, <2>5
  <2>9. Promise!Clone
    BY <2>6, <2>7, <2>8 DEF Promise!Clone, Space
  <2> QED
    BY <2>9
<1> QED
  BY <1>1, <1>2

-----------------------------------------------------------------------------
(* Every step is one of AddressSpaces, or none *)

Still == Space' = Space /\ done' = done

LEMMA StillSteps ==
    ASSUME UNCHANGED <<table, kernel_pml4, spaces, done>>
    PROVE  Still
<1>1. Roots' = Roots
  BY DEF Roots
<1>2. Unseen(table, table', Roots)
  BY DEF Unseen
<1> QED
  BY <1>1, <1>2, AllKept DEF Still

LEMMA StepsRefine ==
    ASSUME PInv, [Next]_vars
    PROVE  Promise!Next \/ Still
<1>0. MemInv /\ PlaceInv
  BY DEF PInv
<1>1. CASE InitPml4
  BY <1>0, <1>1, StartRefines DEF Promise!Next, Still
<1>2. CASE BootMap
  <2>1. PICK c \in BootCalls : Map(kernel_pml4, c.virt, c.phys, c.level, c.flags)
    BY <1>2 DEF BootMap
  <2>2. pc = "map" /\ UNCHANGED <<kernel_pml4, spaces>>
    BY <1>2 DEF BootMap
  <2>3. c.virt \in Page /\ c.phys \in Nat /\ c.level \in 1 .. 3 /\ c.flags \in SUBSET Rights
    <3>1. c \in MapCalls
      BY <1>0, BootCallTypes DEF PlaceInv
    <3> QED
      BY <3>1 DEF MapCalls
  <2>4. kernel_pml4 \in Roots
    BY <1>0, <2>2 DEF PlaceInv, Roots
  <2>5. Promise!Map \/ Promise!Fail
    BY <1>0, <2>1, <2>2, <2>3, <2>4, MapRefines
  <2> QED
    BY <2>5 DEF Promise!Next
<1>3. CASE Activate
  BY <1>3, StillSteps DEF Activate
<1>4. ASSUME NEW r \in Roots, NEW v \in Virts, NEW p \in Targets, NEW l \in 1 .. 3,
             NEW fl \in FlagSets, Calls, Map(r, v, p, l, fl), UNCHANGED spaces
      PROVE  Promise!Next
  <2>1. v \in Page /\ p \in Nat /\ fl \in SUBSET Rights /\ UNCHANGED <<kernel_pml4, spaces>>
    BY <1>4, CallersAssumption DEF Calls
  <2>2. Promise!Map \/ Promise!Fail
    BY <1>0, <1>4, <2>1, MapRefines
  <2> QED
    BY <2>2 DEF Promise!Next
<1>5. CASE MapPage
  <2>1. PICK r \in Roots, v \in Virts, p \in Targets, fl \in FlagSets :
           Calls /\ Map(r, v, p, 1, fl) /\ UNCHANGED <<spaces, cr3>>
    BY <1>5 DEF MapPage
  <2>2. 1 \in 1 .. 3
    OBVIOUS
  <2> QED
    BY <1>4, <2>1, <2>2
<1>6. CASE MapLarge
  <2>1. PICK r \in Roots, v \in Virts, p \in Targets, l \in {2, 3}, fl \in FlagSets :
           Calls /\ Map(r, v, p, l, fl) /\ UNCHANGED <<spaces, cr3>>
    BY <1>6 DEF MapLarge
  <2>2. l \in 1 .. 3
    OBVIOUS
  <2> QED
    BY <1>4, <2>1, <2>2
<1>7. ASSUME NEW r \in Roots, NEW v \in Virts, NEW l \in 1 .. 2, Calls, Unmap(r, v, l),
             UNCHANGED spaces
      PROVE  Promise!Next
  <2>1. v \in Page /\ UNCHANGED <<kernel_pml4, spaces>>
    BY <1>7, CallersAssumption DEF Calls
  <2>2. Promise!Unmap \/ Promise!Protect \/ Promise!Fail
    BY <1>0, <1>7, <2>1, UnmapRefines
  <2> QED
    BY <2>2 DEF Promise!Next
<1>8. CASE UnmapPage
  <2>1. PICK r \in Roots, v \in Virts : Calls /\ Unmap(r, v, 1) /\ UNCHANGED <<spaces, cr3>>
    BY <1>8 DEF UnmapPage
  <2>2. 1 \in 1 .. 2
    OBVIOUS
  <2> QED
    BY <1>7, <2>1, <2>2
<1>9. CASE UnmapLarge
  <2>1. PICK r \in Roots, v \in Virts : Calls /\ Unmap(r, v, 2) /\ UNCHANGED <<spaces, cr3>>
    BY <1>9 DEF UnmapLarge
  <2>2. 2 \in 1 .. 2
    OBVIOUS
  <2> QED
    BY <1>7, <2>1, <2>2
<1>10. CASE Protect
  <2>1. PICK r \in Roots, v \in Virts, fl \in FlagSets :
           Calls /\ SetFlags(r, v, fl) /\ UNCHANGED <<spaces, cr3>>
    BY <1>10 DEF Protect
  <2>2. v \in Page /\ fl \in SUBSET Rights /\ UNCHANGED <<kernel_pml4, spaces>>
    BY <2>1, CallersAssumption DEF Calls
  <2>3. Promise!Unmap \/ Promise!Protect \/ Promise!Fail
    BY <1>0, <2>1, <2>2, SetFlagsRefines
  <2> QED
    BY <2>3 DEF Promise!Next
<1>11. CASE CreateSpace
  <2>1. Create /\ UNCHANGED <<machine, kernel_pml4, cr3>>
    BY <1>11 DEF CreateSpace, Calls
  <2>2. Promise!Create \/ Promise!Fail
    BY <1>0, <2>1, CreateRefines
  <2> QED
    BY <2>2 DEF Promise!Next
<1>12. CASE CloneSpace
  <2>1. PICK r \in Roots : Calls /\ Clone(r) /\ UNCHANGED cr3
    BY <1>12 DEF CloneSpace
  <2>2. UNCHANGED <<machine, kernel_pml4, cr3>>
    BY <2>1 DEF Calls
  <2>3. Promise!Clone \/ Promise!Fail
    BY <1>0, <2>1, <2>2, CloneRefines
  <2> QED
    BY <2>3 DEF Promise!Next
<1>13. CASE DestroySpace
  <2>1. PICK r \in spaces : Calls /\ Destroy(r) /\ UNCHANGED cr3
    BY <1>13 DEF DestroySpace
  <2>2. UNCHANGED <<machine, kernel_pml4, cr3>>
    BY <2>1 DEF Calls
  <2>3. Promise!Destroy
    BY <1>0, <2>1, <2>2, DestroyRefines
  <2> QED
    BY <2>3 DEF Promise!Next
<1>14. CASE Switch
  BY <1>14, StillSteps DEF Switch, Calls
<1>15. CASE \E v \in Virts : Fill(v)
  BY <1>15, StillSteps DEF Fill
<1>16. CASE UNCHANGED vars
  BY <1>16, StillSteps DEF vars
<1> QED
  BY <1>1, <1>2, <1>3, <1>5, <1>6, <1>8, <1>9, <1>10, <1>11, <1>12, <1>13, <1>14, <1>15, <1>16
     DEF Next

\* A call of paging.c changes the pages it names, in the space it names, as it
\* was asked, or changes nothing; a change of the upper half shows in the spaces
\* that share it as the same change, and the lower half of a space is its own;
\* a clone maps what its source maps.
THEOREM ImplementsPromise == Spec => ImplementsAddressSpaces
<1>1. Init => Promise!Init
  <2> SUFFICES ASSUME Init
               PROVE  Promise!Init
    OBVIOUS
  <2>1. done = Failed /\ Roots = {}
    BY DEF Init, Roots
  <2>2. DOMAIN Space = {} /\ ~done.ok
    BY <2>1, SpaceFacts DEF Failed
  <2> QED
    BY <2>2 DEF Promise!Init, Space
<1>2. PInv /\ [Next]_vars => [Promise!Next]_<<Space, done>>
  BY StepsRefine DEF Still
<1>3. Spec => []PInv
  BY Invariance
<1>4. Promise!Init /\ [][Promise!Next]_<<Space, done>> => ImplementsAddressSpaces
  BY DEF ImplementsAddressSpaces, Promise!Spec, Space
<1> QED
  BY <1>1, <1>2, <1>3, <1>4, PTL DEF Spec

=============================================================================
