----------------------------- MODULE VMM_proofs -----------------------------
(***************************************************************************)
(* Whatever is created, allocated, freed, protected and destroyed, and     *)
(* wherever memory runs out: a frame has one use.  For tables of all       *)
(* sizes, any memory and any calls.                                        *)
(***************************************************************************)
EXTENDS VMM, FiniteSetTheorems, WellFoundedInduction, TLAPS

-----------------------------------------------------------------------------
(* Numbers, least elements and loops *)

LEMMA NatMin ==
    ASSUME NEW S \in SUBSET Nat, S # {}
    PROVE  Min(S) \in S /\ \A y \in S : Min(S) <= y
<1> DEFINE R == OpToRel(<, Nat)
<1>1. IsWellFoundedOn(R, Nat)
  BY NatLessThanWellFounded
<1>2. \A x, y \in Nat : y < x => <<y, x>> \in R
  BY DEF OpToRel
<1> HIDE DEF R
<1>3. \E x \in S : \A y \in S : ~(<<y, x>> \in R)
  BY <1>1, WFMin
<1>4. \E x \in S : \A y \in S : x <= y
  <2>1. PICK x \in S : \A y \in S : ~(<<y, x>> \in R)
    BY <1>3
  <2>2. ASSUME NEW y \in S
        PROVE  x <= y
    <3>1. x \in Nat /\ y \in Nat
      OBVIOUS
    <3>2. ~(y < x)
      BY <1>2, <2>1, <3>1
    <3> QED
      BY <3>1, <3>2
  <2> QED
    BY <2>2
<1> QED
  BY <1>4 DEF Min

LEMMA Division ==
    ASSUME NEW v \in Nat, NEW a \in Nat \ {0}
    PROVE  /\ v \div a \in Nat /\ v % a \in 0 .. a - 1
           /\ v = a * (v \div a) + (v % a)
OBVIOUS

LEMMA DivisionUnique ==
    ASSUME NEW a \in Nat \ {0}, NEW q \in Nat, NEW r \in 0 .. a - 1
    PROVE  (a * q + r) \div a = q /\ (a * q + r) % a = r
<1> DEFINE v == a * q + r
           p == v \div a
           t == v % a
<1>1. v \in Nat
  OBVIOUS
<1>2. p \in Nat /\ t \in 0 .. a - 1 /\ v = a * p + t
  BY <1>1, Division
<1>3. p = q
  <2>1. ~(p < q)
    <3> SUFFICES ASSUME p < q
                 PROVE  FALSE
      OBVIOUS
    <3>1. p + 1 <= q
      BY <1>2
    <3> HIDE DEF p, t
    <3>2. a * (p + 1) <= a * q
      BY <1>2, <3>1
    <3>3. a * (p + 1) = a * p + a
      BY <1>2
    <3> QED
      BY <1>2, <3>2, <3>3
  <2>2. ~(q < p)
    <3> SUFFICES ASSUME q < p
                 PROVE  FALSE
      OBVIOUS
    <3>1. q + 1 <= p
      BY <1>2
    <3> HIDE DEF p, t
    <3>2. a * (q + 1) <= a * p
      BY <1>2, <3>1
    <3>3. a * (q + 1) = a * q + a
      BY <1>2
    <3> QED
      BY <1>2, <3>2, <3>3
  <2> QED
    BY <1>2, <2>1, <2>2
<1>4. t = r
  <2> HIDE DEF p, t
  <2> QED
    BY <1>2, <1>3
<1> QED
  BY <1>3, <1>4

LEMMA DivisionTwice ==
    ASSUME NEW v \in Nat, NEW a \in Nat \ {0}, NEW b \in Nat \ {0}
    PROVE  (v \div a) \div b = v \div (a * b)
<1> DEFINE q == v \div a
           r == v % a
           p == q \div b
           s == q % b
<1>1. q \in Nat /\ r \in 0 .. a - 1 /\ v = a * q + r
  BY Division
<1>2. p \in Nat /\ s \in 0 .. b - 1 /\ q = b * p + s
  BY <1>1, Division
<1> HIDE DEF q, r, p, s
<1>3. v = (a * b) * p + (a * s + r)
  <2>1. a * q = a * (b * p) + a * s
    BY <1>1, <1>2
  <2>2. a * (b * p) = (a * b) * p
    BY <1>1, <1>2
  <2> QED
    BY <1>1, <1>2, <2>1, <2>2
<1>4. a * s + r \in 0 .. a * b - 1
  <2>1. a * s \in Nat /\ a * b \in Nat
    BY <1>2
  <2>2. s + 1 <= b
    BY <1>2
  <2>3. a * (s + 1) <= a * b
    BY <1>2, <2>2
  <2>4. a * (s + 1) = a * s + a
    BY <1>2
  <2> QED
    BY <1>1, <2>1, <2>3, <2>4
<1>5. a * b \in Nat \ {0}
  OBVIOUS
<1>6. v \div (a * b) = p
  BY <1>2, <1>3, <1>4, <1>5, DivisionUnique
<1> QED
  BY <1>6 DEF p, q

LEMMA SeqFacts ==
    ASSUME NEW S, NEW s \in Seq(S)
    PROVE  /\ Len(s) \in Nat /\ DOMAIN s = 1 .. Len(s)
           /\ \A k \in DOMAIN s : k \in Nat \ {0} /\ s[k] \in S
OBVIOUS

\* What holds before a loop, and after each turn that starts with it, holds at
\* the end.
LEMMA Along ==
    ASSUME NEW n \in Nat, NEW g, NEW G,
           g[0] \in G[0],
           \A k \in 1 .. n : g[k - 1] \in G[k - 1] => g[k] \in G[k]
    PROVE  \A k \in 0 .. n : g[k] \in G[k]
<1> DEFINE Bad == {k \in 0 .. n : g[k] \notin G[k]}
<1> SUFFICES ASSUME Bad # {}
             PROVE  FALSE
  OBVIOUS
<1>1. Bad \in SUBSET Nat
  OBVIOUS
<1>2. PICK k \in Bad : \A i \in Bad : k <= i
  <2> HIDE DEF Bad
  <2> QED
    BY <1>1, NatMin
<1>3. k \in 0 .. n /\ g[k] \notin G[k]
  OBVIOUS
<1>4. k # 0
  BY <1>3
<1>5. k \in 1 .. n /\ k - 1 \in 0 .. n
  BY <1>3, <1>4
<1>6. k - 1 \notin Bad
  BY <1>2, <1>3, <1>5
<1>7. g[k - 1] \in G[k - 1]
  BY <1>5, <1>6
<1> QED
  BY <1>3, <1>5, <1>7

IsRun(g, s, n, F) == g[0] = s /\ \A k \in 1 .. n : g[k] = F[<<g[k - 1], k - 1>>]
Closed(w, n, F) == \A x \in w, k \in 0 .. n - 1 : F[<<x, k>>] \in w

\* A loop whose turns stay in a set of states has a run.
LEMMA Iteration ==
    ASSUME NEW w, NEW n \in Nat, NEW s \in w, NEW F, Closed(w, n, F)
    PROVE  \E g \in [0 .. n -> w] : IsRun(g, s, n, F)
<1> DEFINE Is(g, m) == g[0] = s /\ \A k \in 1 .. m : g[k] = F[<<g[k - 1], k - 1>>]
           Bad == {m \in 0 .. n : ~\E g \in [0 .. m -> w] : Is(g, m)}
<1> SUFFICES ASSUME Bad # {}
             PROVE  FALSE
  <2>1. n \in 0 .. n /\ n \notin Bad
    OBVIOUS
  <2>2. \E g \in [0 .. n -> w] : Is(g, n)
    <3> HIDE DEF Is
    <3> QED
      BY <2>1
  <2> QED
    BY <2>2 DEF IsRun
<1>1. Bad \in SUBSET Nat
  OBVIOUS
<1>2. PICK m \in Bad : \A i \in Bad : m <= i
  <2> HIDE DEF Bad
  <2> QED
    BY <1>1, NatMin
<1>3. m \in 0 .. n /\ ~\E g \in [0 .. m -> w] : Is(g, m)
  OBVIOUS
<1>4. m # 0
  <2> DEFINE g == [k \in 0 .. 0 |-> s]
  <2>1. g \in [0 .. 0 -> w] /\ Is(g, 0)
    OBVIOUS
  <2> QED
    BY <1>3, <2>1
<1>5. m \in 1 .. n /\ m - 1 \in 0 .. n
  BY <1>3, <1>4
<1>6. m - 1 \notin Bad
  <2> HIDE DEF Bad
  <2> QED
    BY <1>2, <1>5
<1>7. PICK g \in [0 .. m - 1 -> w] : Is(g, m - 1)
  BY <1>5, <1>6
<1> DEFINE h == [k \in 0 .. m |-> IF k = m THEN F[<<g[m - 1], m - 1>>] ELSE g[k]]
<1>8. h \in [0 .. m -> w]
  <2>1. g[m - 1] \in w
    BY <1>5
  <2>2. m - 1 \in 0 .. n - 1
    BY <1>5
  <2>3. F[<<g[m - 1], m - 1>>] \in w
    BY <2>1, <2>2 DEF Closed
  <2> QED
    BY <2>3, <1>5
<1>9. Is(h, m)
  <2>1. h[0] = s
    BY <1>5, <1>7
  <2>2. ASSUME NEW k \in 1 .. m
        PROVE  h[k] = F[<<h[k - 1], k - 1>>]
    <3>1. h[k - 1] = g[k - 1]
      BY <1>5
    <3>2. CASE k = m
      <4>1. h[m] = F[<<g[m - 1], m - 1>>]
        BY <1>5
      <4> QED
        BY <3>1, <3>2, <4>1
    <3>3. CASE k # m
      <4>1. k \in 1 .. m - 1
        BY <1>5, <3>3
      <4>2. h[k] = g[k]
        BY <4>1, <1>5
      <4> QED
        BY <4>1, <4>2, <3>1, <1>7
    <3> QED
      BY <3>2, <3>3
  <2> QED
    BY <2>1, <2>2
<1> QED
  BY <1>3, <1>8, <1>9 DEF IsRun


-----------------------------------------------------------------------------
(* Types: the state of a call at work, and what each helper makes of it *)

Entry == 0 .. ENTRIES - 1
Rights == {"w", "u", "nx"}
Mem == [Memory -> [Entry -> Entries]]
Fates == {"runs", "halted", "breach"}
Works == [mem : Mem, avail : SUBSET Frames, regions : Seq(Regions), fate : Fates,
          ran : BOOLEAN, count : Nat]

LEMMA Geometry ==
    /\ ENTRIES \in Nat \ {0} /\ HALF \in Nat \ {0} /\ ENTRIES = 2 * HALF
    /\ \A l \in 1 .. 3 : Span[l] \in Nat \ {0}
    /\ Span[1] = 1 /\ Span[2] = ENTRIES /\ Span[3] = ENTRIES * ENTRIES
    /\ PAGE \in Nat \ {0} /\ WORD \in Nat \ {0} /\ WORD % PAGE = 0
    /\ 0 \in Entry
<1>1. ENTRIES \in Nat \ {0} /\ ENTRIES % 2 = 0 /\ PAGE \in Nat \ {0} /\ WORD \in Nat
      /\ WORD % PAGE = 0
  BY GeometryAssumption
<1>2. HALF \in Nat \ {0} /\ ENTRIES = 2 * HALF
  BY <1>1 DEF HALF
<1>3. Span[1] = 1 /\ Span[2] = ENTRIES /\ Span[3] = ENTRIES * ENTRIES
  BY DEF Span
<1>4. ENTRIES * ENTRIES \in Nat \ {0}
  BY <1>1
<1>5. \A l \in 1 .. 3 : Span[l] \in Nat \ {0}
  BY <1>1, <1>3, <1>4
<1>6. WORD # 0
  <2>1. ENTRIES * (ENTRIES * ENTRIES) \in Nat \ {0}
    <3> DEFINE q == ENTRIES * ENTRIES
    <3> HIDE DEF q
    <3> QED
      BY <1>1, <1>4 DEF q
  <2>2. SpacePages \in Nat \ {0}
    BY <2>1 DEF SpacePages
  <2>3. PAGE * SpacePages \in Nat
    BY <1>1, <2>2
  <2> QED
    BY <1>1, <2>3, GeometryAssumption
<1> QED
  BY <1>1, <1>2, <1>3, <1>5, <1>6 DEF Entry

LEMMA IndexType ==
    ASSUME NEW a \in Nat, NEW l \in 1 .. 3
    PROVE  Index(a, l) \in Entry
<1> DEFINE q == a \div PAGE
           p == q \div Span[l]
<1>1. q \in Nat
  BY Geometry
<1>2. Span[l] \in Nat \ {0}
  BY Geometry
<1> HIDE DEF q
<1>3. p \in Nat
  BY <1>1, <1>2
<1> HIDE DEF p
<1>4. p % ENTRIES \in 0 .. ENTRIES - 1
  BY <1>3, Geometry
<1>5. Index(a, l) = p % ENTRIES
  BY DEF Index, q, p
<1> QED
  BY <1>4, <1>5 DEF Entry

LEMMA Words ==
    /\ \A a \in Nat : a % WORD \in Address
    /\ Address \subseteq Nat /\ 0 \in Address
    /\ \A a \in Address, k \in Nat : PageOf(a, k) \in Address
    /\ \A a \in Address : align_down(a) \in Address /\ align_up(a) \in Address
<1>0. PAGE \in Nat \ {0} /\ WORD \in Nat \ {0}
  BY Geometry
<1>1. \A a \in Nat : a % WORD \in Address
  BY <1>0 DEF Address
<1>2. Address \subseteq Nat /\ 0 \in Address
  BY <1>0 DEF Address
<1>3. ASSUME NEW a \in Address, NEW k \in Nat
      PROVE  PageOf(a, k) \in Address
  <2>1. k * PAGE \in Nat
    BY <1>0
  <2>2. a + k * PAGE \in Nat
    BY <1>2, <2>1
  <2> QED
    BY <1>1, <2>2 DEF PageOf
<1>4. \A a \in Address : align_down(a) \in Address
  <2> TAKE a \in Address
  <2>1. a \in Nat /\ a < WORD
    BY <1>0 DEF Address
  <2>2. a % PAGE \in Nat /\ a % PAGE <= a
    BY <1>0, <2>1
  <2> QED
    BY <1>0, <2>1, <2>2 DEF align_down, Address
<1>5. \A a \in Address : align_up(a) \in Address
  <2> TAKE a \in Address
  <2>1. a + PAGE - 1 \in Nat
    BY <1>0, <1>2
  <2> QED
    BY <2>1, <1>1, <1>4 DEF align_up
<1> QED
  BY <1>1, <1>2, <1>3, <1>4, <1>5

\* Whole pages: what a count of bytes comes to.
LEMMA Aligned ==
    ASSUME NEW k \in Nat, k * PAGE < WORD
    PROVE  k * PAGE \in Address /\ align_up(k * PAGE) = k * PAGE /\ align_down(k * PAGE) = k * PAGE
<1> DEFINE w == WORD \div PAGE
           v == PAGE * k
<1>0. PAGE \in Nat \ {0} /\ WORD \in Nat \ {0} /\ WORD % PAGE = 0 /\ v \in Nat /\ k * PAGE = v
  BY Geometry
<1>1. w \in Nat /\ WORD = PAGE * w
  BY <1>0, Division
<1> HIDE DEF w
<1>2. k < w
  <2> SUFFICES ASSUME w <= k
               PROVE  FALSE
    BY <1>1
  <2>1. PAGE * w <= PAGE * k
    BY <1>0, <1>1
  <2> QED
    BY <1>0, <1>1, <2>1
<1>3. v + PAGE <= WORD
  <2>1. PAGE * (k + 1) <= PAGE * w
    BY <1>0, <1>1, <1>2
  <2>2. PAGE * (k + 1) = v + PAGE
    BY <1>0
  <2> QED
    BY <1>0, <1>1, <2>1, <2>2
<1>4. v % PAGE = 0 /\ (v + (PAGE - 1)) % PAGE = PAGE - 1
  <2>1. (PAGE * k + 0) % PAGE = 0 /\ 0 \in 0 .. PAGE - 1
    BY <1>0, DivisionUnique
  <2>2. PAGE - 1 \in 0 .. PAGE - 1
    BY <1>0
  <2>3. (PAGE * k + (PAGE - 1)) % PAGE = PAGE - 1
    BY <1>0, <2>2, DivisionUnique
  <2> HIDE DEF v
  <2>4. v + 0 = v
    BY <1>0
  <2> QED
    BY <2>1, <2>3, <2>4 DEF v
<1> HIDE DEF v
<1>5. (v + PAGE - 1) % WORD = v + (PAGE - 1)
  BY <1>0, <1>3
<1>6. align_up(v) = v
  <2>1. align_up(v) = align_down(v + (PAGE - 1))
    BY <1>5 DEF align_up
  <2> QED
    BY <1>0, <1>4, <2>1 DEF align_down
<1>7. align_down(v) = v
  BY <1>0, <1>4 DEF align_down
<1> QED
  BY <1>0, <1>3, <1>6, <1>7 DEF Address

LEMMA PageCounts ==
    ASSUME NEW c \in 1 .. WORD - PAGE
    PROVE  /\ PagesIn(c) \in Nat \ {0}
           /\ PagesIn(c) * PAGE \in Address /\ align_up(PagesIn(c) * PAGE) = PagesIn(c) * PAGE
<1> DEFINE v == c + PAGE - 1
           n == v \div PAGE
<1>0. PAGE \in Nat \ {0} /\ WORD \in Nat
  BY Geometry
<1>1. v \in Nat /\ v < WORD /\ PAGE <= v /\ PagesIn(c) = n
  BY <1>0 DEF PagesIn
<1> HIDE DEF v
<1>2. n \in Nat /\ v = PAGE * n + (v % PAGE) /\ v % PAGE \in 0 .. PAGE - 1
  BY <1>0, <1>1, Division
<1> HIDE DEF n
<1>3. PAGE * n \in Nat /\ n * PAGE = PAGE * n
  BY <1>0, <1>2
<1>4. n * PAGE < WORD
  BY <1>0, <1>1, <1>2, <1>3
<1>5. n # 0
  <2> SUFFICES ASSUME n = 0
               PROVE  FALSE
    OBVIOUS
  <2>1. PAGE * n = 0
    BY <1>0
  <2> QED
    BY <1>0, <1>1, <1>2, <2>1
<1> QED
  BY <1>1, <1>2, <1>4, <1>5, Aligned

LowDirs == Range(KernelDirs)      \* the directories of large pages

LEMMA HeldPages ==
    /\ Range(Named) = {Device, KernelPml4, HighDir, HighTable, Kernel, Code}
    /\ {Device, KernelPml4, HighDir, HighTable, Kernel, Code} \cap LowDirs = {}
    /\ KernelPml4 \notin {HighDir, HighTable, Code}
    /\ HighDir \notin {HighTable, Code} /\ HighTable # Code
<1>1. DOMAIN Named = 1 .. 6
  BY DEF Named
<1>2. /\ Named[1] = Device /\ Named[2] = Kernel /\ Named[3] = Code
      /\ Named[4] = KernelPml4 /\ Named[5] = HighDir /\ Named[6] = HighTable
  BY DEF Named
<1>3. Range(Named) = {Named[i] : i \in 1 .. 6}
  BY <1>1 DEF Range
<1> HIDE DEF Named
<1>4. \A i \in 1 .. 6 : i \in {1, 2, 3, 4, 5, 6}
  OBVIOUS
<1>5. Range(Named) = {Device, KernelPml4, HighDir, HighTable, Kernel, Code}
  BY <1>2, <1>3, <1>4
<1>6. \A i \in 1 .. 6, j \in 1 .. 6 : Named[i] = Named[j] => i = j
  BY <1>1, FramesAssumption DEF IsInjective
<1>7. /\ KernelPml4 \notin {HighDir, HighTable, Code}
      /\ HighDir \notin {HighTable, Code} /\ HighTable # Code
  BY <1>2, <1>6
<1> QED
  BY <1>5, <1>7, FramesAssumption DEF LowDirs

LEMMA Places ==
    /\ TOP \in Nat /\ Frames \subseteq Memory /\ Memory \subseteq Nat \ {0}
    /\ Memory = 1 .. TOP - 1 /\ NULL = 0 /\ NULL \notin Memory
    /\ {Device, KernelPml4, HighDir, HighTable, Kernel, Code} \subseteq Memory \ Frames
    /\ LowDirs \subseteq Memory \ Frames
    /\ Frames \subseteq Nat
    /\ Zero \in Entries /\ Blank \in [Entry -> Entries]
    /\ \A e \in Entries : Present(e) => e.to \in Memory
    /\ \A f \in Memory : f \in 0 .. TOP - 1
<1>1. TOP \in Nat /\ Frames \subseteq Memory
  BY FramesAssumption
<1>7. {Device, KernelPml4, HighDir, HighTable, Kernel, Code} \subseteq Memory \ Frames
      /\ LowDirs \subseteq Memory \ Frames
  BY FramesAssumption, HeldPages DEF LowDirs
<1>2. Memory = 1 .. TOP - 1 /\ NULL = 0
  BY DEF Memory, NULL
<1>3. TOP \in Nat \ {0}
  BY <1>1, <1>2, <1>7
<1>4. Zero \in Entries
  BY <1>3, <1>2 DEF Zero, Entries
<1>5. Blank \in [Entry -> Entries]
  BY <1>4 DEF Blank, Entry
<1>6. \A e \in Entries : Present(e) => e.to \in Memory
  BY <1>2, <1>3 DEF Entries, Present
<1> QED
  BY <1>1, <1>2, <1>3, <1>4, <1>5, <1>6, <1>7

LEMMA FreshIn ==
    ASSUME NEW s \in Works, s.avail # {}
    PROVE  Fresh(s) \in s.avail /\ Fresh(s) \in Frames /\ Fresh(s) \in Memory
<1>1. s.avail \in SUBSET Nat /\ s.avail \subseteq Frames
  BY Places DEF Works
<1> QED
  BY <1>1, NatMin, Places DEF Fresh

LEMMA TakeType ==
    ASSUME NEW s \in Works, s.avail # {}
    PROVE  /\ Take(s) \in Works
           /\ Take(s).mem = [s.mem EXCEPT ![Fresh(s)] = Blank]
           /\ Take(s).avail = s.avail \ {Fresh(s)}
           /\ Take(s).regions = s.regions /\ Take(s).fate = s.fate
           /\ Take(s).ran = s.ran /\ Take(s).count = s.count
BY FreshIn, Places DEF Works, Take, Mem

LEMMA RanOutType ==
    ASSUME NEW s \in Works
    PROVE  /\ RanOut(s) \in Works
           /\ RanOut(s).mem = s.mem /\ RanOut(s).avail = s.avail
           /\ RanOut(s).regions = s.regions /\ RanOut(s).fate = s.fate
           /\ RanOut(s).ran /\ RanOut(s).count = s.count
BY DEF Works, RanOut

LEMMA FreePageType ==
    ASSUME NEW s \in Works, NEW p \in Entries
    PROVE  LET t == FreePage(s, p) IN
           /\ t \in Works /\ t.mem = s.mem /\ t.regions = s.regions
           /\ t.ran = s.ran /\ t.count = s.count
           /\ t.fate = "runs" =>
                  /\ s.fate = "runs" /\ "nx" \notin p.flags
                  /\ p.to \in Frames \ s.avail /\ t.avail = s.avail \cup {p.to}
<1>1. CASE s.fate # "runs"
  BY <1>1 DEF FreePage
<1>2. CASE s.fate = "runs" /\ "nx" \in p.flags
  <2>1. FreePage(s, p) = [s EXCEPT !.fate = "halted"]
    BY <1>2 DEF FreePage
  <2> QED
    BY <2>1 DEF Works, Fates
<1>3. CASE s.fate = "runs" /\ "nx" \notin p.flags /\ p.to \notin Frames \ s.avail
  <2>1. FreePage(s, p) = [s EXCEPT !.fate = "breach"]
    BY <1>3 DEF FreePage
  <2> QED
    BY <2>1 DEF Works, Fates
<1>4. CASE s.fate = "runs" /\ "nx" \notin p.flags /\ p.to \in Frames \ s.avail
  <2>1. FreePage(s, p) = [s EXCEPT !.avail = @ \cup {p.to}]
    BY <1>4 DEF FreePage
  <2>2. FreePage(s, p) \in Works
    BY <1>4, <2>1 DEF Works
  <2> QED
    BY <1>4, <2>1, <2>2 DEF Works
<1> QED
  BY <1>1, <1>2, <1>3, <1>4

LEMMA FrameEntry == \A f \in Memory : [to |-> f, flags |-> {}] \in Entries
BY Places DEF Entries

LEMMA FreeFrameType ==
    ASSUME NEW s \in Works, NEW f \in Memory
    PROVE  LET t == FreeFrame(s, f) IN
           /\ t \in Works /\ t.mem = s.mem /\ t.regions = s.regions
           /\ t.ran = s.ran /\ t.count = s.count
           /\ t.fate = "runs" => /\ s.fate = "runs" /\ f \in Frames \ s.avail
                                 /\ t.avail = s.avail \cup {f}
<1> DEFINE p == [to |-> f, flags |-> {}]
<1>1. p \in Entries /\ p.to = f
  BY FrameEntry
<1>2. FreeFrame(s, f) = FreePage(s, p)
  BY DEF FreeFrame
<1> HIDE DEF p
<1> QED
  BY <1>1, <1>2, FreePageType

LEMMA TableType ==
    ASSUME NEW m \in Mem, NEW p \in Memory, NEW a \in Nat, NEW l \in 1 .. 3
    PROVE  TableAt(m, p, a, l) \in Memory \cup {NULL}
<1> DEFINE t2 == Sub(m[p][Index(a, 3)])
           t1 == IF t2 = NULL THEN NULL ELSE Sub(m[t2][Index(a, 2)])
<1>0. \A e \in Entries : Sub(e) \in Memory \cup {NULL}
  BY Places DEF Sub, Entries
<1>1. t2 \in Memory \cup {NULL}
  BY <1>0, IndexType DEF Mem
<1> HIDE DEF t2
<1>2. t1 \in Memory \cup {NULL}
  BY <1>0, <1>1, IndexType DEF Mem
<1>3. TableAt(m, p, a, l) = (CASE l = 3 -> p [] l = 2 -> t2 [] l = 1 -> t1)
  BY DEF TableAt, t2
<1> HIDE DEF t1
<1> QED
  BY <1>1, <1>2, <1>3

LEMMA TableSteps ==
    ASSUME NEW m, NEW p, NEW a
    PROVE  /\ TableAt(m, p, a, 3) = p
           /\ TableAt(m, p, a, 2) = Sub(m[p][Index(a, 3)])
           /\ TableAt(m, p, a, 1) =
                  IF TableAt(m, p, a, 2) = NULL THEN NULL
                  ELSE Sub(m[TableAt(m, p, a, 2)][Index(a, 2)])
BY DEF TableAt

LEMMA PieceType ==
    ASSUME NEW e \in Entries, NEW i \in Entry
    PROVE  Piece(e, i) \in Entries
<1>0. e.to \in 0 .. TOP - 1 /\ TOP \in Nat /\ ENTRIES \in Nat \ {0} /\ TOP % ENTRIES = 0
  BY Geometry, FramesAssumption DEF Entries
<1> DEFINE q == e.to \div ENTRIES
           r == e.to % ENTRIES
           n == TOP \div ENTRIES
<1>1. q \in Nat /\ r \in 0 .. ENTRIES - 1 /\ e.to = ENTRIES * q + r
  BY <1>0
<1>2. n \in Nat /\ TOP = ENTRIES * n
  BY <1>0
<1> HIDE DEF q, r, n
<1>3. q < n
  <2> SUFFICES ASSUME n <= q
               PROVE  FALSE
    BY <1>1, <1>2
  <2>1. ENTRIES * n <= ENTRIES * q
    BY <1>0, <1>1, <1>2
  <2> QED
    BY <2>1, <1>0, <1>1, <1>2
<1>4. ENTRIES * (q + 1) <= ENTRIES * n
  BY <1>0, <1>1, <1>2, <1>3
<1>5. ENTRIES * (q + 1) = ENTRIES * q + ENTRIES
  BY <1>0, <1>1
<1>6. e.to - r + i \in 0 .. TOP - 1
  <2> DEFINE z == ENTRIES * q
  <2>1. z \in Nat
    BY <1>0, <1>1
  <2>2. i \in Nat /\ i < ENTRIES
    BY <1>0 DEF Entry
  <2> HIDE DEF z
  <2>3. e.to = z + r /\ z + ENTRIES <= TOP
    BY <1>1, <1>2, <1>4, <1>5 DEF z
  <2> QED
    BY <1>0, <1>1, <2>1, <2>2, <2>3
<1> QED
  BY <1>6 DEF Entries, Piece, r

LEMMA virtType ==
    ASSUME NEW m \in Mem, NEW p \in Memory, NEW a \in Nat
    PROVE  virt_to_phys(m, p, a) \in Entries
<1> DEFINE t2 == TableAt(m, p, a, 2)
           t1 == TableAt(m, p, a, 1)
<1>1. t2 \in Memory \cup {NULL} /\ t1 \in Memory \cup {NULL}
  BY TableType
<1>2. Index(a, 1) \in Entry /\ Index(a, 2) \in Entry
  BY IndexType
<1> DEFINE big == Piece(m[t2][Index(a, 2)], Index(a, 1))
<1>4. t2 # NULL => big \in Entries
  BY <1>1, <1>2, PieceType DEF Mem
<1>5. t1 # NULL => m[t1][Index(a, 1)] \in Entries
  BY <1>1, <1>2 DEF Mem
<1>6. virt_to_phys(m, p, a) =
          IF t2 = NULL THEN Zero
          ELSE IF "huge" \in m[t2][Index(a, 2)].flags THEN big
          ELSE IF t1 = NULL THEN Zero ELSE m[t1][Index(a, 1)]
  BY DEF virt_to_phys
<1> HIDE DEF big, t1, t2
<1> QED
  BY <1>4, <1>5, <1>6, Places

LEMMA SplitType ==
    ASSUME NEW s \in Works, NEW t \in Memory, NEW k \in Entry
    PROVE  LET d == split_2mb_page(s, t, k) IN
           /\ d \in Works /\ d.regions = s.regions /\ d.fate = s.fate /\ d.count = s.count
           /\ d.avail \subseteq s.avail
<1> DEFINE e == s.mem[t][k]
           f == Fresh(s)
           g == [e EXCEPT !.flags = @ \ {"nx"}]
           pieces == [j \in 0 .. ENTRIES - 1 |-> Piece(g, j)]
           c == [to |-> f, flags |-> {"w"} \cup (e.flags \cap {"u"})]
           n == [[s.mem EXCEPT ![f] = pieces] EXCEPT ![t][k] = c]
           d == split_2mb_page(s, t, k)
<1>1. CASE s.avail = {}
  BY <1>1, RanOutType DEF split_2mb_page
<1>2. CASE s.avail # {}
  <2>1. f \in Memory /\ e \in Entries /\ s.mem \in Mem
    BY <1>2, FreshIn DEF Works, Mem
  <2>2. g \in Entries
    BY <2>1 DEF Entries
  <2>3. c \in Entries
    BY <2>1, Places DEF Entries
  <2>4. d = [s EXCEPT !.avail = @ \ {f}, !.mem[f] = pieces, !.mem[t][k] = c]
    BY <1>2 DEF split_2mb_page
  <2> HIDE DEF e, f, g, c
  <2>5. pieces \in [Entry -> Entries]
    BY <2>2, PieceType DEF Entry
  <2> HIDE DEF pieces
  <2>6. n \in Mem
    BY <2>1, <2>3, <2>5 DEF Mem
  <2>7. d = [s EXCEPT !.avail = @ \ {f}, !.mem = n]
    BY <2>1, <2>4 DEF Works
  <2> HIDE DEF n, d
  <2>8. /\ d \in Works /\ d.regions = s.regions /\ d.fate = s.fate /\ d.count = s.count
        /\ d.avail \subseteq s.avail
    BY <2>6, <2>7 DEF Works
  <2> QED
    BY <2>8 DEF d
<1> QED
  BY <1>1, <1>2

LEMMA DescendType ==
    ASSUME NEW s \in Works, NEW p \in Memory, NEW a \in Nat, NEW l \in 2 .. 3,
           NEW fl \in SUBSET Rights
    PROVE  LET d == Descend(s, p, a, l, fl) IN
           /\ d \in Works /\ d.regions = s.regions /\ d.fate = s.fate /\ d.count = s.count
           /\ d.avail \subseteq s.avail
<1> DEFINE t == TableAt(s.mem, p, a, l)
           k == Index(a, l)
           f == Fresh(s)
           e == [to |-> f, flags |-> {"w"} \cup (fl \cap {"u"})]
<1>1. t \in Memory \cup {NULL} /\ k \in Entry
  BY TableType, IndexType DEF Works
<1> DEFINE large == l = 2 /\ "huge" \in s.mem[t][k].flags
<1>2. Descend(s, p, a, l, fl) =
          IF t = NULL THEN s
          ELSE IF large THEN split_2mb_page(s, t, k)
          ELSE IF Present(s.mem[t][k]) THEN s
          ELSE IF s.avail = {} THEN RanOut(s)
          ELSE [Take(s) EXCEPT !.mem[t][k] = e]
  BY DEF Descend
<1> HIDE DEF t, k, large
<1>3. ASSUME s.avail # {}, t # NULL
      PROVE  [Take(s) EXCEPT !.mem[t][k] = e] \in Works
  <2>1. e \in Entries
    BY <1>3, FreshIn, Places DEF Entries
  <2> HIDE DEF e
  <2> DEFINE y == Take(s)
             n == [y.mem EXCEPT ![t][k] = e]
  <2>2. y \in Works /\ y.mem \in Mem
    BY <1>3, TakeType DEF Works
  <2> HIDE DEF y
  <2>3. n \in Mem
    BY <1>1, <1>3, <2>1, <2>2 DEF Mem
  <2>4. [y EXCEPT !.mem[t][k] = e] = [y EXCEPT !.mem = n]
    OBVIOUS
  <2> HIDE DEF n
  <2>5. [y EXCEPT !.mem = n] \in Works
    BY <2>2, <2>3 DEF Works
  <2> QED
    BY <2>4, <2>5 DEF y
<1> HIDE DEF e
<1>4. CASE t = NULL \/ (~large /\ Present(s.mem[t][k]))
  BY <1>2, <1>4
<1>7. CASE t # NULL /\ large
  BY <1>1, <1>2, <1>7, SplitType
<1>5. CASE t # NULL /\ ~large /\ ~Present(s.mem[t][k]) /\ s.avail = {}
  BY <1>2, <1>5, RanOutType
<1>6. CASE t # NULL /\ ~large /\ ~Present(s.mem[t][k]) /\ s.avail # {}
  <2> DEFINE u == Take(s)
             d == [u EXCEPT !.mem[t][k] = e]
  <2>1. u \in Works /\ u.regions = s.regions /\ u.fate = s.fate /\ u.count = s.count
        /\ u.avail \subseteq s.avail
    BY <1>6, TakeType
  <2>2. d \in Works /\ Descend(s, p, a, l, fl) = d
    BY <1>2, <1>3, <1>6
  <2> HIDE DEF u
  <2>3. d.regions = u.regions /\ d.fate = u.fate /\ d.count = u.count /\ d.avail = u.avail
    BY <2>1 DEF Works
  <2> HIDE DEF d
  <2> QED
    BY <2>1, <2>2, <2>3
<1> QED
  BY <1>4, <1>5, <1>6, <1>7

LEMMA MapType ==
    ASSUME NEW s \in Works, NEW p \in Memory, NEW a \in Nat, NEW to \in 0 .. TOP - 1,
           NEW fl \in SUBSET Rights
    PROVE  LET d == Map(s, p, a, to, fl) IN
           /\ d \in Works /\ d.regions = s.regions /\ d.fate = s.fate /\ d.count = s.count
           /\ d.avail \subseteq s.avail
<1> DEFINE d3 == Descend(s, p, a, 3, fl)
           d == Descend(d3, p, a, 2, fl)
           t == TableAt(d.mem, p, a, 1)
           e == [to |-> to, flags |-> fl]
<1>1. d3 \in Works /\ d3.regions = s.regions /\ d3.fate = s.fate /\ d3.count = s.count
      /\ d3.avail \subseteq s.avail
  BY DescendType
<1> HIDE DEF d3
<1>2. d \in Works /\ d.regions = s.regions /\ d.fate = s.fate /\ d.count = s.count
      /\ d.avail \subseteq s.avail
  BY <1>1, DescendType
<1>3. Map(s, p, a, to, fl) = IF t = NULL THEN d ELSE [d EXCEPT !.mem[t][Index(a, 1)] = e]
  BY DEF Map, d3
<1> HIDE DEF d
<1>4. t \in Memory \cup {NULL} /\ Index(a, 1) \in Entry
  BY <1>2, TableType, IndexType DEF Works
<1>5. e \in Entries
  BY DEF Entries, Rights
<1> HIDE DEF e, t
<1>6. CASE t = NULL
  BY <1>2, <1>3, <1>6
<1>7. CASE t # NULL
  <2>1. [d.mem EXCEPT ![t][Index(a, 1)] = e] \in Mem
    BY <1>2, <1>4, <1>5, <1>7 DEF Works, Mem
  <2>2. [d EXCEPT !.mem[t][Index(a, 1)] = e] = [d EXCEPT !.mem = [d.mem EXCEPT ![t][Index(a, 1)] = e]]
    BY <1>2 DEF Works
  <2> QED
    BY <1>2, <1>3, <1>7, <2>1, <2>2 DEF Works
<1> QED
  BY <1>6, <1>7

LEMMA UnmapType ==
    ASSUME NEW s \in Works, NEW p \in Memory, NEW a \in Nat
    PROVE  LET d == Unmap(s, p, a) IN
           /\ d \in Works /\ d.regions = s.regions /\ d.fate = s.fate /\ d.count = s.count
           /\ d.avail = s.avail /\ d.ran = s.ran
<1> DEFINE t == TableAt(s.mem, p, a, 1)
<1>1. Unmap(s, p, a) = IF t = NULL THEN s ELSE [s EXCEPT !.mem[t][Index(a, 1)] = Zero]
  BY DEF Unmap
<1>2. t \in Memory \cup {NULL} /\ Index(a, 1) \in Entry
  BY TableType, IndexType DEF Works
<1> HIDE DEF t
<1>3. CASE t = NULL
  BY <1>1, <1>3
<1>4. CASE t # NULL
  <2>1. [s.mem EXCEPT ![t][Index(a, 1)] = Zero] \in Mem
    BY <1>2, <1>4, Places DEF Works, Mem
  <2>2. [s EXCEPT !.mem[t][Index(a, 1)] = Zero] = [s EXCEPT !.mem = [s.mem EXCEPT ![t][Index(a, 1)] = Zero]]
    BY DEF Works
  <2> QED
    BY <1>1, <1>4, <2>1, <2>2 DEF Works
<1> QED
  BY <1>3, <1>4

LEMMA DropType ==
    ASSUME NEW s \in Works, NEW p \in Memory, NEW a \in Nat
    PROVE  LET d == Drop(s, p, a) IN
           /\ d \in Works /\ d.regions = s.regions /\ d.ran = s.ran /\ d.count = s.count
           /\ d.fate = "runs" => s.fate = "runs"
<1> DEFINE e == virt_to_phys(s.mem, p, a)
           u == Unmap(s, p, a)
<1>1. e \in Entries
  BY virtType DEF Works
<1>2. u \in Works /\ u.regions = s.regions /\ u.fate = s.fate /\ u.count = s.count
      /\ u.avail = s.avail /\ u.ran = s.ran
  BY UnmapType
<1>3. Drop(s, p, a) = IF Present(e) THEN FreePage(u, e) ELSE s
  BY DEF Drop
<1> HIDE DEF e, u
<1>4. LET t == FreePage(u, e) IN
           /\ t \in Works /\ t.mem = u.mem /\ t.regions = u.regions
           /\ t.ran = u.ran /\ t.count = u.count
           /\ t.fate = "runs" => u.fate = "runs"
  BY <1>1, <1>2, FreePageType
<1> QED
  BY <1>2, <1>3, <1>4

LEMMA BackPageType ==
    ASSUME NEW s \in Works, NEW p \in Memory, NEW a \in Nat, NEW fl \in SUBSET Rights
    PROVE  LET d == BackPage(s, p, a, fl) IN
           /\ d \in Works /\ d.regions = s.regions /\ d.fate = s.fate
           /\ d.avail \subseteq s.avail
           /\ d.count \in {s.count, s.count + 1}
<1>1. CASE s.avail = {}
  BY <1>1, RanOutType DEF BackPage
<1>2. CASE s.avail # {}
  <2> DEFINE t == Take(s)
             d == Map(t, p, a, Fresh(s), fl)
  <2>1. t \in Works /\ t.regions = s.regions /\ t.fate = s.fate /\ t.count = s.count
        /\ t.avail \subseteq s.avail
    BY <1>2, TakeType
  <2>2. Fresh(s) \in 0 .. TOP - 1
    BY <1>2, FreshIn, Places
  <2> HIDE DEF t
  <2>3. d \in Works /\ d.regions = t.regions /\ d.fate = t.fate /\ d.count = t.count
        /\ d.avail \subseteq t.avail
    BY <2>1, <2>2, MapType
  <2>4. BackPage(s, p, a, fl) = [d EXCEPT !.count = @ + 1]
    BY <1>2 DEF BackPage, t
  <2> HIDE DEF d
  <2> QED
    BY <2>1, <2>3, <2>4 DEF Works
<1> QED
  BY <1>1, <1>2

LEMMA ReprotectType ==
    ASSUME NEW s \in Works, NEW p \in Memory, NEW a \in Nat, NEW fl \in SUBSET Rights
    PROVE  LET d == Reprotect(s, p, a, fl) IN
           d \in Works /\ d.regions = s.regions /\ d.fate = s.fate
<1> DEFINE e == virt_to_phys(s.mem, p, a)
           u == Unmap(s, p, a)
<1>1. e \in Entries /\ e.to \in 0 .. TOP - 1
  BY virtType DEF Works, Entries
<1>2. u \in Works /\ u.regions = s.regions /\ u.fate = s.fate
  BY UnmapType
<1>3. Reprotect(s, p, a, fl) = IF Present(e) THEN Map(u, p, a, e.to, fl) ELSE s
  BY DEF Reprotect
<1> HIDE DEF e, u
<1> QED
  BY <1>1, <1>2, <1>3, MapType

LEMMA PageFlagsType == \A fl : PageFlags(fl) \in SUBSET Rights
BY DEF PageFlags, Rights

-----------------------------------------------------------------------------
(* The loops: what each turn keeps, or passes on to the next, holds at the *)
(* end.  A loop is a recursive function: a run of it shows that it is defined. *)

LEMMA DropLoop ==
    ASSUME NEW s \in Works, NEW p \in Memory, NEW a \in Address,
           NEW n \in Nat
    PROVE  /\ \A G : (/\ s \in G[0]
                      /\ \A x \in Works, k \in 0 .. n - 1 :
                             x \in G[k] => Drop(x, p, PageOf(a, k)) \in G[k + 1])
               => DropPages(s, p, a, n) \in Works /\ DropPages(s, p, a, n) \in G[n]
           /\ \A W : (/\ s \in W
                      /\ \A x \in Works, k \in 0 .. n - 1 :
                             x \in W => Drop(x, p, PageOf(a, k)) \in W)
               => DropPages(s, p, a, n) \in Works /\ DropPages(s, p, a, n) \in W
<1> DEFINE F == [x \in Works \X (0 .. n - 1) |-> Drop(x[1], p, PageOf(a, x[2]))]
           Is(g) == g = [k \in 0 .. n |-> IF k = 0 THEN s ELSE Drop(g[k - 1], p, PageOf(a, k - 1))]
           run == CHOOSE g : Is(g)
<1>0. n \in Nat
  OBVIOUS
<1>1. \A x \in Works, k \in 0 .. n - 1 : F[<<x, k>>] = Drop(x, p, PageOf(a, k))
  OBVIOUS
<1>2. \A x \in Works, k \in 0 .. n - 1 : F[<<x, k>>] \in Works
  <2> SUFFICES ASSUME NEW x \in Works, NEW k \in 0 .. n - 1
               PROVE  Drop(x, p, PageOf(a, k)) \in Works
    OBVIOUS
  <2>1. k \in Nat
    OBVIOUS
  <2>2. PageOf(a, k) \in Nat
    BY <2>1, Words
  <2> QED
    BY <1>1, <2>2, DropType
<1> HIDE DEF F
<1>3. PICK g \in [0 .. n -> Works] : IsRun(g, s, n, F)
  <2>1. Closed(Works, n, F)
    BY <1>2 DEF Closed
  <2> QED
    BY <1>0, <2>1, Iteration
<1>4. \A k \in 1 .. n : F[<<g[k - 1], k - 1>>] = Drop(g[k - 1], p, PageOf(a, k - 1))
  <2> TAKE k \in 1 .. n
  <2>1. k - 1 \in 0 .. n - 1 /\ k - 1 \in 0 .. n
    BY <1>0
  <2> QED
    BY <1>1, <1>3, <2>1 DEF IsRun
<1>5. Is(g)
  <2> DEFINE h == [k \in 0 .. n |-> IF k = 0 THEN s ELSE Drop(g[k - 1], p, PageOf(a, k - 1))]
  <2>1. \A k \in 0 .. n : h[k] = g[k]
    <3> TAKE k \in 0 .. n
    <3>1. CASE k = 0
      BY <3>1, <1>3 DEF IsRun
    <3>2. CASE k # 0
      <4>1. k \in 1 .. n
        BY <3>2, <1>0
      <4>2. g[k] = Drop(g[k - 1], p, PageOf(a, k - 1))
        BY <4>1, <1>3, <1>4 DEF IsRun
      <4> QED
        BY <3>2, <4>2
    <3> QED
      BY <3>1, <3>2
  <2>2. h = [k \in 0 .. n |-> h[k]] /\ g = [k \in 0 .. n |-> g[k]]
    OBVIOUS
  <2> HIDE DEF h
  <2>3. h = g
    BY <2>1, <2>2
  <2> QED
    BY <2>3 DEF h
<1>6. Is(run)
  BY <1>5
<1>7. DropPages(s, p, a, n) = run[n]
  BY DEF DropPages, Each, Loop
<1> HIDE DEF run
<1>8. run = [k \in 0 .. n |-> IF k = 0 THEN s ELSE Drop(run[k - 1], p, PageOf(a, k - 1))]
  BY <1>6
<1> HIDE DEF Is
<1>9. /\ run[0] = s
      /\ \A k \in 1 .. n : run[k] = Drop(run[k - 1], p, PageOf(a, k - 1))
  BY <1>0, <1>8
<1>10. DOMAIN run = 0 .. n /\ run = [k \in 0 .. n |-> run[k]]
  BY <1>8
<1> DEFINE K == [k \in 0 .. n |-> Works]
<1>11. \A k \in 0 .. n : run[k] \in K[k]
  <2>1. run[0] \in K[0]
    BY <1>0, <1>9
  <2>2. ASSUME NEW k \in 1 .. n, run[k - 1] \in K[k - 1]
        PROVE  run[k] \in K[k]
    <3>1. k - 1 \in 0 .. n - 1 /\ k - 1 \in 0 .. n /\ k \in 0 .. n
      BY <1>0
    <3>2. run[k - 1] \in Works
      BY <2>2, <3>1
    <3>3. F[<<run[k - 1], k - 1>>] \in Works
      BY <1>2, <3>1, <3>2
    <3>4. F[<<run[k - 1], k - 1>>] = Drop(run[k - 1], p, PageOf(a, k - 1))
      BY <1>1, <3>1, <3>2
    <3> QED
      BY <1>9, <3>1, <3>3, <3>4
  <2> HIDE DEF K
  <2> QED
    BY <1>0, <2>1, <2>2, Along
<1>12. run \in [0 .. n -> Works]
  BY <1>10, <1>11
<1>13. ASSUME NEW G, s \in G[0],
              \A x \in Works, k \in 0 .. n - 1 : x \in G[k] => Drop(x, p, PageOf(a, k)) \in G[k + 1]
       PROVE  run[n] \in Works /\ run[n] \in G[n]
  <2>1. run[0] \in G[0]
    BY <1>9, <1>13
  <2>2. ASSUME NEW k \in 1 .. n, run[k - 1] \in G[k - 1]
        PROVE  run[k] \in G[k]
    <3>1. k - 1 \in 0 .. n - 1 /\ k - 1 \in 0 .. n /\ (k - 1) + 1 = k
      BY <1>0
    <3>2. run[k - 1] \in Works
      BY <1>12, <3>1
    <3> QED
      BY <1>9, <1>13, <2>2, <3>1, <3>2
  <2>3. \A k \in 0 .. n : run[k] \in G[k]
    BY <1>0, <2>1, <2>2, Along
  <2> QED
    BY <1>0, <1>12, <2>3
<1>14. ASSUME NEW W, s \in W,
              \A x \in Works, k \in 0 .. n - 1 : x \in W => Drop(x, p, PageOf(a, k)) \in W
       PROVE  run[n] \in Works /\ run[n] \in W
  <2> DEFINE H == [k \in 0 .. n |-> W]
  <2>1. s \in H[0] /\ H[n] = W
    BY <1>0, <1>14
  <2>2. ASSUME NEW x \in Works, NEW k \in 0 .. n - 1, x \in H[k]
        PROVE  Drop(x, p, PageOf(a, k)) \in H[k + 1]
    <3>1. k \in 0 .. n /\ k + 1 \in 0 .. n
      BY <1>0
    <3> QED
      BY <1>14, <2>2, <3>1
  <2> HIDE DEF H
  <2> QED
    BY <1>13, <2>1, <2>2
<1> HIDE DEF run
<1> QED
  BY <1>7, <1>13, <1>14

LEMMA BackLoop ==
    ASSUME NEW s \in Works, NEW p \in Memory, NEW a \in Address,
           NEW fl \in SUBSET Rights, NEW n \in Nat
    PROVE  /\ \A G : (/\ s \in G[0]
                      /\ \A x \in Works, k \in 0 .. n - 1 :
                             x \in G[k] => BackPage(x, p, PageOf(a, k), fl) \in G[k + 1])
               => Back(s, p, a, n, fl) \in Works /\ Back(s, p, a, n, fl) \in G[n]
           /\ \A W : (/\ s \in W
                      /\ \A x \in Works, k \in 0 .. n - 1 :
                             x \in W => BackPage(x, p, PageOf(a, k), fl) \in W)
               => Back(s, p, a, n, fl) \in Works /\ Back(s, p, a, n, fl) \in W
<1> DEFINE F == [x \in Works \X (0 .. n - 1) |-> BackPage(x[1], p, PageOf(a, x[2]), fl)]
           Is(g) == g = [k \in 0 .. n |-> IF k = 0 THEN s ELSE BackPage(g[k - 1], p, PageOf(a, k - 1), fl)]
           run == CHOOSE g : Is(g)
<1>0. n \in Nat
  OBVIOUS
<1>1. \A x \in Works, k \in 0 .. n - 1 : F[<<x, k>>] = BackPage(x, p, PageOf(a, k), fl)
  OBVIOUS
<1>2. \A x \in Works, k \in 0 .. n - 1 : F[<<x, k>>] \in Works
  <2> SUFFICES ASSUME NEW x \in Works, NEW k \in 0 .. n - 1
               PROVE  BackPage(x, p, PageOf(a, k), fl) \in Works
    OBVIOUS
  <2>1. k \in Nat
    OBVIOUS
  <2>2. PageOf(a, k) \in Nat
    BY <2>1, Words
  <2> QED
    BY <1>1, <2>2, BackPageType
<1> HIDE DEF F
<1>3. PICK g \in [0 .. n -> Works] : IsRun(g, s, n, F)
  <2>1. Closed(Works, n, F)
    BY <1>2 DEF Closed
  <2> QED
    BY <1>0, <2>1, Iteration
<1>4. \A k \in 1 .. n : F[<<g[k - 1], k - 1>>] = BackPage(g[k - 1], p, PageOf(a, k - 1), fl)
  <2> TAKE k \in 1 .. n
  <2>1. k - 1 \in 0 .. n - 1 /\ k - 1 \in 0 .. n
    BY <1>0
  <2> QED
    BY <1>1, <1>3, <2>1 DEF IsRun
<1>5. Is(g)
  <2> DEFINE h == [k \in 0 .. n |-> IF k = 0 THEN s ELSE BackPage(g[k - 1], p, PageOf(a, k - 1), fl)]
  <2>1. \A k \in 0 .. n : h[k] = g[k]
    <3> TAKE k \in 0 .. n
    <3>1. CASE k = 0
      BY <3>1, <1>3 DEF IsRun
    <3>2. CASE k # 0
      <4>1. k \in 1 .. n
        BY <3>2, <1>0
      <4>2. g[k] = BackPage(g[k - 1], p, PageOf(a, k - 1), fl)
        BY <4>1, <1>3, <1>4 DEF IsRun
      <4> QED
        BY <3>2, <4>2
    <3> QED
      BY <3>1, <3>2
  <2>2. h = [k \in 0 .. n |-> h[k]] /\ g = [k \in 0 .. n |-> g[k]]
    OBVIOUS
  <2> HIDE DEF h
  <2>3. h = g
    BY <2>1, <2>2
  <2> QED
    BY <2>3 DEF h
<1>6. Is(run)
  BY <1>5
<1>7. Back(s, p, a, n, fl) = run[n]
  BY DEF Back, Each, Loop
<1> HIDE DEF run
<1>8. run = [k \in 0 .. n |-> IF k = 0 THEN s ELSE BackPage(run[k - 1], p, PageOf(a, k - 1), fl)]
  BY <1>6
<1> HIDE DEF Is
<1>9. /\ run[0] = s
      /\ \A k \in 1 .. n : run[k] = BackPage(run[k - 1], p, PageOf(a, k - 1), fl)
  BY <1>0, <1>8
<1>10. DOMAIN run = 0 .. n /\ run = [k \in 0 .. n |-> run[k]]
  BY <1>8
<1> DEFINE K == [k \in 0 .. n |-> Works]
<1>11. \A k \in 0 .. n : run[k] \in K[k]
  <2>1. run[0] \in K[0]
    BY <1>0, <1>9
  <2>2. ASSUME NEW k \in 1 .. n, run[k - 1] \in K[k - 1]
        PROVE  run[k] \in K[k]
    <3>1. k - 1 \in 0 .. n - 1 /\ k - 1 \in 0 .. n /\ k \in 0 .. n
      BY <1>0
    <3>2. run[k - 1] \in Works
      BY <2>2, <3>1
    <3>3. F[<<run[k - 1], k - 1>>] \in Works
      BY <1>2, <3>1, <3>2
    <3>4. F[<<run[k - 1], k - 1>>] = BackPage(run[k - 1], p, PageOf(a, k - 1), fl)
      BY <1>1, <3>1, <3>2
    <3> QED
      BY <1>9, <3>1, <3>3, <3>4
  <2> HIDE DEF K
  <2> QED
    BY <1>0, <2>1, <2>2, Along
<1>12. run \in [0 .. n -> Works]
  BY <1>10, <1>11
<1>13. ASSUME NEW G, s \in G[0],
              \A x \in Works, k \in 0 .. n - 1 : x \in G[k] => BackPage(x, p, PageOf(a, k), fl) \in G[k + 1]
       PROVE  run[n] \in Works /\ run[n] \in G[n]
  <2>1. run[0] \in G[0]
    BY <1>9, <1>13
  <2>2. ASSUME NEW k \in 1 .. n, run[k - 1] \in G[k - 1]
        PROVE  run[k] \in G[k]
    <3>1. k - 1 \in 0 .. n - 1 /\ k - 1 \in 0 .. n /\ (k - 1) + 1 = k
      BY <1>0
    <3>2. run[k - 1] \in Works
      BY <1>12, <3>1
    <3> QED
      BY <1>9, <1>13, <2>2, <3>1, <3>2
  <2>3. \A k \in 0 .. n : run[k] \in G[k]
    BY <1>0, <2>1, <2>2, Along
  <2> QED
    BY <1>0, <1>12, <2>3
<1>14. ASSUME NEW W, s \in W,
              \A x \in Works, k \in 0 .. n - 1 : x \in W => BackPage(x, p, PageOf(a, k), fl) \in W
       PROVE  run[n] \in Works /\ run[n] \in W
  <2> DEFINE H == [k \in 0 .. n |-> W]
  <2>1. s \in H[0] /\ H[n] = W
    BY <1>0, <1>14
  <2>2. ASSUME NEW x \in Works, NEW k \in 0 .. n - 1, x \in H[k]
        PROVE  BackPage(x, p, PageOf(a, k), fl) \in H[k + 1]
    <3>1. k \in 0 .. n /\ k + 1 \in 0 .. n
      BY <1>0
    <3> QED
      BY <1>14, <2>2, <3>1
  <2> HIDE DEF H
  <2> QED
    BY <1>13, <2>1, <2>2
<1> HIDE DEF run
<1> QED
  BY <1>7, <1>13, <1>14

LEMMA UnmapLoop ==
    ASSUME NEW s \in Works, NEW p \in Memory, NEW a \in Address,
           NEW n \in Nat
    PROVE  /\ \A G : (/\ s \in G[0]
                      /\ \A x \in Works, k \in 0 .. n - 1 :
                             x \in G[k] => Unmap(x, p, PageOf(a, k)) \in G[k + 1])
               => UnmapEach(s, p, a, n) \in Works /\ UnmapEach(s, p, a, n) \in G[n]
           /\ \A W : (/\ s \in W
                      /\ \A x \in Works, k \in 0 .. n - 1 :
                             x \in W => Unmap(x, p, PageOf(a, k)) \in W)
               => UnmapEach(s, p, a, n) \in Works /\ UnmapEach(s, p, a, n) \in W
<1> DEFINE F == [x \in Works \X (0 .. n - 1) |-> Unmap(x[1], p, PageOf(a, x[2]))]
           Is(g) == g = [k \in 0 .. n |-> IF k = 0 THEN s ELSE Unmap(g[k - 1], p, PageOf(a, k - 1))]
           run == CHOOSE g : Is(g)
<1>0. n \in Nat
  OBVIOUS
<1>1. \A x \in Works, k \in 0 .. n - 1 : F[<<x, k>>] = Unmap(x, p, PageOf(a, k))
  OBVIOUS
<1>2. \A x \in Works, k \in 0 .. n - 1 : F[<<x, k>>] \in Works
  <2> SUFFICES ASSUME NEW x \in Works, NEW k \in 0 .. n - 1
               PROVE  Unmap(x, p, PageOf(a, k)) \in Works
    OBVIOUS
  <2>1. k \in Nat
    OBVIOUS
  <2>2. PageOf(a, k) \in Nat
    BY <2>1, Words
  <2> QED
    BY <1>1, <2>2, UnmapType
<1> HIDE DEF F
<1>3. PICK g \in [0 .. n -> Works] : IsRun(g, s, n, F)
  <2>1. Closed(Works, n, F)
    BY <1>2 DEF Closed
  <2> QED
    BY <1>0, <2>1, Iteration
<1>4. \A k \in 1 .. n : F[<<g[k - 1], k - 1>>] = Unmap(g[k - 1], p, PageOf(a, k - 1))
  <2> TAKE k \in 1 .. n
  <2>1. k - 1 \in 0 .. n - 1 /\ k - 1 \in 0 .. n
    BY <1>0
  <2> QED
    BY <1>1, <1>3, <2>1 DEF IsRun
<1>5. Is(g)
  <2> DEFINE h == [k \in 0 .. n |-> IF k = 0 THEN s ELSE Unmap(g[k - 1], p, PageOf(a, k - 1))]
  <2>1. \A k \in 0 .. n : h[k] = g[k]
    <3> TAKE k \in 0 .. n
    <3>1. CASE k = 0
      BY <3>1, <1>3 DEF IsRun
    <3>2. CASE k # 0
      <4>1. k \in 1 .. n
        BY <3>2, <1>0
      <4>2. g[k] = Unmap(g[k - 1], p, PageOf(a, k - 1))
        BY <4>1, <1>3, <1>4 DEF IsRun
      <4> QED
        BY <3>2, <4>2
    <3> QED
      BY <3>1, <3>2
  <2>2. h = [k \in 0 .. n |-> h[k]] /\ g = [k \in 0 .. n |-> g[k]]
    OBVIOUS
  <2> HIDE DEF h
  <2>3. h = g
    BY <2>1, <2>2
  <2> QED
    BY <2>3 DEF h
<1>6. Is(run)
  BY <1>5
<1>7. UnmapEach(s, p, a, n) = run[n]
  BY DEF UnmapEach, Each, Loop
<1> HIDE DEF run
<1>8. run = [k \in 0 .. n |-> IF k = 0 THEN s ELSE Unmap(run[k - 1], p, PageOf(a, k - 1))]
  BY <1>6
<1> HIDE DEF Is
<1>9. /\ run[0] = s
      /\ \A k \in 1 .. n : run[k] = Unmap(run[k - 1], p, PageOf(a, k - 1))
  BY <1>0, <1>8
<1>10. DOMAIN run = 0 .. n /\ run = [k \in 0 .. n |-> run[k]]
  BY <1>8
<1> DEFINE K == [k \in 0 .. n |-> Works]
<1>11. \A k \in 0 .. n : run[k] \in K[k]
  <2>1. run[0] \in K[0]
    BY <1>0, <1>9
  <2>2. ASSUME NEW k \in 1 .. n, run[k - 1] \in K[k - 1]
        PROVE  run[k] \in K[k]
    <3>1. k - 1 \in 0 .. n - 1 /\ k - 1 \in 0 .. n /\ k \in 0 .. n
      BY <1>0
    <3>2. run[k - 1] \in Works
      BY <2>2, <3>1
    <3>3. F[<<run[k - 1], k - 1>>] \in Works
      BY <1>2, <3>1, <3>2
    <3>4. F[<<run[k - 1], k - 1>>] = Unmap(run[k - 1], p, PageOf(a, k - 1))
      BY <1>1, <3>1, <3>2
    <3> QED
      BY <1>9, <3>1, <3>3, <3>4
  <2> HIDE DEF K
  <2> QED
    BY <1>0, <2>1, <2>2, Along
<1>12. run \in [0 .. n -> Works]
  BY <1>10, <1>11
<1>13. ASSUME NEW G, s \in G[0],
              \A x \in Works, k \in 0 .. n - 1 : x \in G[k] => Unmap(x, p, PageOf(a, k)) \in G[k + 1]
       PROVE  run[n] \in Works /\ run[n] \in G[n]
  <2>1. run[0] \in G[0]
    BY <1>9, <1>13
  <2>2. ASSUME NEW k \in 1 .. n, run[k - 1] \in G[k - 1]
        PROVE  run[k] \in G[k]
    <3>1. k - 1 \in 0 .. n - 1 /\ k - 1 \in 0 .. n /\ (k - 1) + 1 = k
      BY <1>0
    <3>2. run[k - 1] \in Works
      BY <1>12, <3>1
    <3> QED
      BY <1>9, <1>13, <2>2, <3>1, <3>2
  <2>3. \A k \in 0 .. n : run[k] \in G[k]
    BY <1>0, <2>1, <2>2, Along
  <2> QED
    BY <1>0, <1>12, <2>3
<1>14. ASSUME NEW W, s \in W,
              \A x \in Works, k \in 0 .. n - 1 : x \in W => Unmap(x, p, PageOf(a, k)) \in W
       PROVE  run[n] \in Works /\ run[n] \in W
  <2> DEFINE H == [k \in 0 .. n |-> W]
  <2>1. s \in H[0] /\ H[n] = W
    BY <1>0, <1>14
  <2>2. ASSUME NEW x \in Works, NEW k \in 0 .. n - 1, x \in H[k]
        PROVE  Unmap(x, p, PageOf(a, k)) \in H[k + 1]
    <3>1. k \in 0 .. n /\ k + 1 \in 0 .. n
      BY <1>0
    <3> QED
      BY <1>14, <2>2, <3>1
  <2> HIDE DEF H
  <2> QED
    BY <1>13, <2>1, <2>2
<1> HIDE DEF run
<1> QED
  BY <1>7, <1>13, <1>14

LEMMA ReprotectLoop ==
    ASSUME NEW s \in Works, NEW p \in Memory, NEW a \in Address,
           NEW fl \in SUBSET Rights, NEW n \in Nat
    PROVE  /\ \A G : (/\ s \in G[0]
                      /\ \A x \in Works, k \in 0 .. n - 1 :
                             x \in G[k] => Reprotect(x, p, PageOf(a, k), fl) \in G[k + 1])
               => ReprotectEach(s, p, a, n, fl) \in Works /\ ReprotectEach(s, p, a, n, fl) \in G[n]
           /\ \A W : (/\ s \in W
                      /\ \A x \in Works, k \in 0 .. n - 1 :
                             x \in W => Reprotect(x, p, PageOf(a, k), fl) \in W)
               => ReprotectEach(s, p, a, n, fl) \in Works /\ ReprotectEach(s, p, a, n, fl) \in W
<1> DEFINE F == [x \in Works \X (0 .. n - 1) |-> Reprotect(x[1], p, PageOf(a, x[2]), fl)]
           Is(g) == g = [k \in 0 .. n |-> IF k = 0 THEN s ELSE Reprotect(g[k - 1], p, PageOf(a, k - 1), fl)]
           run == CHOOSE g : Is(g)
<1>0. n \in Nat
  OBVIOUS
<1>1. \A x \in Works, k \in 0 .. n - 1 : F[<<x, k>>] = Reprotect(x, p, PageOf(a, k), fl)
  OBVIOUS
<1>2. \A x \in Works, k \in 0 .. n - 1 : F[<<x, k>>] \in Works
  <2> SUFFICES ASSUME NEW x \in Works, NEW k \in 0 .. n - 1
               PROVE  Reprotect(x, p, PageOf(a, k), fl) \in Works
    OBVIOUS
  <2>1. k \in Nat
    OBVIOUS
  <2>2. PageOf(a, k) \in Nat
    BY <2>1, Words
  <2> QED
    BY <1>1, <2>2, ReprotectType
<1> HIDE DEF F
<1>3. PICK g \in [0 .. n -> Works] : IsRun(g, s, n, F)
  <2>1. Closed(Works, n, F)
    BY <1>2 DEF Closed
  <2> QED
    BY <1>0, <2>1, Iteration
<1>4. \A k \in 1 .. n : F[<<g[k - 1], k - 1>>] = Reprotect(g[k - 1], p, PageOf(a, k - 1), fl)
  <2> TAKE k \in 1 .. n
  <2>1. k - 1 \in 0 .. n - 1 /\ k - 1 \in 0 .. n
    BY <1>0
  <2> QED
    BY <1>1, <1>3, <2>1 DEF IsRun
<1>5. Is(g)
  <2> DEFINE h == [k \in 0 .. n |-> IF k = 0 THEN s ELSE Reprotect(g[k - 1], p, PageOf(a, k - 1), fl)]
  <2>1. \A k \in 0 .. n : h[k] = g[k]
    <3> TAKE k \in 0 .. n
    <3>1. CASE k = 0
      BY <3>1, <1>3 DEF IsRun
    <3>2. CASE k # 0
      <4>1. k \in 1 .. n
        BY <3>2, <1>0
      <4>2. g[k] = Reprotect(g[k - 1], p, PageOf(a, k - 1), fl)
        BY <4>1, <1>3, <1>4 DEF IsRun
      <4> QED
        BY <3>2, <4>2
    <3> QED
      BY <3>1, <3>2
  <2>2. h = [k \in 0 .. n |-> h[k]] /\ g = [k \in 0 .. n |-> g[k]]
    OBVIOUS
  <2> HIDE DEF h
  <2>3. h = g
    BY <2>1, <2>2
  <2> QED
    BY <2>3 DEF h
<1>6. Is(run)
  BY <1>5
<1>7. ReprotectEach(s, p, a, n, fl) = run[n]
  BY DEF ReprotectEach, Each, Loop
<1> HIDE DEF run
<1>8. run = [k \in 0 .. n |-> IF k = 0 THEN s ELSE Reprotect(run[k - 1], p, PageOf(a, k - 1), fl)]
  BY <1>6
<1> HIDE DEF Is
<1>9. /\ run[0] = s
      /\ \A k \in 1 .. n : run[k] = Reprotect(run[k - 1], p, PageOf(a, k - 1), fl)
  BY <1>0, <1>8
<1>10. DOMAIN run = 0 .. n /\ run = [k \in 0 .. n |-> run[k]]
  BY <1>8
<1> DEFINE K == [k \in 0 .. n |-> Works]
<1>11. \A k \in 0 .. n : run[k] \in K[k]
  <2>1. run[0] \in K[0]
    BY <1>0, <1>9
  <2>2. ASSUME NEW k \in 1 .. n, run[k - 1] \in K[k - 1]
        PROVE  run[k] \in K[k]
    <3>1. k - 1 \in 0 .. n - 1 /\ k - 1 \in 0 .. n /\ k \in 0 .. n
      BY <1>0
    <3>2. run[k - 1] \in Works
      BY <2>2, <3>1
    <3>3. F[<<run[k - 1], k - 1>>] \in Works
      BY <1>2, <3>1, <3>2
    <3>4. F[<<run[k - 1], k - 1>>] = Reprotect(run[k - 1], p, PageOf(a, k - 1), fl)
      BY <1>1, <3>1, <3>2
    <3> QED
      BY <1>9, <3>1, <3>3, <3>4
  <2> HIDE DEF K
  <2> QED
    BY <1>0, <2>1, <2>2, Along
<1>12. run \in [0 .. n -> Works]
  BY <1>10, <1>11
<1>13. ASSUME NEW G, s \in G[0],
              \A x \in Works, k \in 0 .. n - 1 : x \in G[k] => Reprotect(x, p, PageOf(a, k), fl) \in G[k + 1]
       PROVE  run[n] \in Works /\ run[n] \in G[n]
  <2>1. run[0] \in G[0]
    BY <1>9, <1>13
  <2>2. ASSUME NEW k \in 1 .. n, run[k - 1] \in G[k - 1]
        PROVE  run[k] \in G[k]
    <3>1. k - 1 \in 0 .. n - 1 /\ k - 1 \in 0 .. n /\ (k - 1) + 1 = k
      BY <1>0
    <3>2. run[k - 1] \in Works
      BY <1>12, <3>1
    <3> QED
      BY <1>9, <1>13, <2>2, <3>1, <3>2
  <2>3. \A k \in 0 .. n : run[k] \in G[k]
    BY <1>0, <2>1, <2>2, Along
  <2> QED
    BY <1>0, <1>12, <2>3
<1>14. ASSUME NEW W, s \in W,
              \A x \in Works, k \in 0 .. n - 1 : x \in W => Reprotect(x, p, PageOf(a, k), fl) \in W
       PROVE  run[n] \in Works /\ run[n] \in W
  <2> DEFINE H == [k \in 0 .. n |-> W]
  <2>1. s \in H[0] /\ H[n] = W
    BY <1>0, <1>14
  <2>2. ASSUME NEW x \in Works, NEW k \in 0 .. n - 1, x \in H[k]
        PROVE  Reprotect(x, p, PageOf(a, k), fl) \in H[k + 1]
    <3>1. k \in 0 .. n /\ k + 1 \in 0 .. n
      BY <1>0
    <3> QED
      BY <1>14, <2>2, <3>1
  <2> HIDE DEF H
  <2> QED
    BY <1>13, <2>1, <2>2
<1> HIDE DEF run
<1> QED
  BY <1>7, <1>13, <1>14

-----------------------------------------------------------------------------
(* What is freed with a table, level by level, and the copies of a clone *)

\* An entry is given up: d is the state once what it leads to is freed.
Turn(s, t, k, d) ==
    IF ~Present(s.mem[t][k]) THEN s
    ELSE [(IF "huge" \in s.mem[t][k].flags THEN FreePage(s, s.mem[t][k]) ELSE d)
          EXCEPT !.mem[t][k] = Zero]

Gone(s, d) == /\ d \in Works /\ d.regions = s.regions /\ d.ran = s.ran
              /\ d.fate = "runs" => s.fate = "runs"

LEMMA TurnType ==
    ASSUME NEW s \in Works, NEW t \in Memory, NEW k \in Entry, NEW d,
           Present(s.mem[t][k]) => Gone(s, d)
    PROVE  Gone(s, Turn(s, t, k, d))
<1> DEFINE e == s.mem[t][k]
           c == IF "huge" \in e.flags THEN FreePage(s, e) ELSE d
<1>1. e \in Entries
  BY DEF Works, Mem
<1>2. CASE ~Present(e)
  BY <1>2 DEF Turn, Gone
<1>3. CASE Present(e)
  <2>1. Gone(s, FreePage(s, e))
    BY <1>1, FreePageType DEF Gone
  <2>2. Gone(s, c)
    BY <1>3, <2>1
  <2>3. Turn(s, t, k, d) = [c EXCEPT !.mem[t][k] = Zero]
    BY <1>3 DEF Turn
  <2> HIDE DEF c
  <2>4. [c EXCEPT !.mem[t][k] = Zero] = [c EXCEPT !.mem = [c.mem EXCEPT ![t][k] = Zero]]
    BY <2>2 DEF Gone, Works
  <2>5. [c.mem EXCEPT ![t][k] = Zero] \in Mem
    BY <2>2, Places DEF Gone, Works, Mem
  <2> QED
    BY <2>2, <2>3, <2>4, <2>5 DEF Gone, Works
<1> QED
  BY <1>2, <1>3

LEMMA GoneTrans ==
    ASSUME NEW s, NEW d, NEW c, Gone(s, d), Gone(d, c)
    PROVE  Gone(s, c)
BY DEF Gone

Entry0(s, t, k) == OneEntry(s, t, k, FreePage)
Entries0(s, t, n) == EachEntry(s, t, n, FreePage)

LEMMA Entry0Type ==
    ASSUME NEW s \in Works, NEW t \in Memory, NEW k \in Entry
    PROVE  /\ Entry0(s, t, k) = Turn(s, t, k, FreePage(s, s.mem[t][k]))
           /\ Gone(s, Entry0(s, t, k))
<1>1. Entry0(s, t, k) = Turn(s, t, k, FreePage(s, s.mem[t][k]))
  BY DEF Entry0, OneEntry, Turn
<1>2. s.mem[t][k] \in Entries
  BY DEF Works, Mem
<1>3. Present(s.mem[t][k]) => Gone(s, FreePage(s, s.mem[t][k]))
  BY <1>2, FreePageType, Places DEF Gone
<1> QED
  BY <1>1, <1>3, TurnType

LEMMA Entries0Loop ==
    ASSUME NEW s \in Works, NEW t \in Memory,
           NEW n \in 0 .. ENTRIES
    PROVE  /\ \A G : (/\ s \in G[0]
                      /\ \A x \in Works, k \in 0 .. n - 1 :
                             x \in G[k] => Entry0(x, t, k) \in G[k + 1])
               => Entries0(s, t, n) \in Works /\ Entries0(s, t, n) \in G[n]
           /\ \A W : (/\ s \in W
                      /\ \A x \in Works, k \in 0 .. n - 1 :
                             x \in W => Entry0(x, t, k) \in W)
               => Entries0(s, t, n) \in Works /\ Entries0(s, t, n) \in W
<1> DEFINE F == [x \in Works \X (0 .. n - 1) |-> Entry0(x[1], t, x[2])]
           Is(g) == g = [k \in 0 .. n |-> IF k = 0 THEN s ELSE Entry0(g[k - 1], t, k - 1)]
           run == CHOOSE g : Is(g)
<1>0. n \in Nat
  BY SeqFacts, Geometry
<1>1. \A x \in Works, k \in 0 .. n - 1 : F[<<x, k>>] = Entry0(x, t, k)
  OBVIOUS
<1>2. \A x \in Works, k \in 0 .. n - 1 : F[<<x, k>>] \in Works
  <2> SUFFICES ASSUME NEW x \in Works, NEW k \in 0 .. n - 1
               PROVE  Entry0(x, t, k) \in Works
    BY <1>1
  <2>1. k \in Entry
    BY <1>0, Geometry DEF Entry
  <2> QED
    BY <2>1, Entry0Type DEF Gone
<1> HIDE DEF F
<1>3. PICK g \in [0 .. n -> Works] : IsRun(g, s, n, F)
  <2>1. Closed(Works, n, F)
    BY <1>2 DEF Closed
  <2> QED
    BY <1>0, <2>1, Iteration
<1>4. \A k \in 1 .. n : F[<<g[k - 1], k - 1>>] = Entry0(g[k - 1], t, k - 1)
  <2> TAKE k \in 1 .. n
  <2>1. k - 1 \in 0 .. n - 1 /\ k - 1 \in 0 .. n
    BY <1>0
  <2> QED
    BY <1>1, <1>3, <2>1 DEF IsRun
<1>5. Is(g)
  <2> DEFINE h == [k \in 0 .. n |-> IF k = 0 THEN s ELSE Entry0(g[k - 1], t, k - 1)]
  <2>1. \A k \in 0 .. n : h[k] = g[k]
    <3> TAKE k \in 0 .. n
    <3>1. CASE k = 0
      BY <3>1, <1>3 DEF IsRun
    <3>2. CASE k # 0
      <4>1. k \in 1 .. n
        BY <3>2, <1>0
      <4>2. g[k] = Entry0(g[k - 1], t, k - 1)
        BY <4>1, <1>3, <1>4 DEF IsRun
      <4> QED
        BY <3>2, <4>2
    <3> QED
      BY <3>1, <3>2
  <2>2. h = [k \in 0 .. n |-> h[k]] /\ g = [k \in 0 .. n |-> g[k]]
    OBVIOUS
  <2> HIDE DEF h
  <2>3. h = g
    BY <2>1, <2>2
  <2> QED
    BY <2>3 DEF h
<1>6. Is(run)
  BY <1>5
<1>7. Entries0(s, t, n) = run[n]
  BY DEF Entries0, Entry0, EachEntry, Loop
<1> HIDE DEF run
<1>8. run = [k \in 0 .. n |-> IF k = 0 THEN s ELSE Entry0(run[k - 1], t, k - 1)]
  BY <1>6
<1> HIDE DEF Is
<1>9. /\ run[0] = s
      /\ \A k \in 1 .. n : run[k] = Entry0(run[k - 1], t, k - 1)
  BY <1>0, <1>8
<1>10. DOMAIN run = 0 .. n /\ run = [k \in 0 .. n |-> run[k]]
  BY <1>8
<1> DEFINE K == [k \in 0 .. n |-> Works]
<1>11. \A k \in 0 .. n : run[k] \in K[k]
  <2>1. run[0] \in K[0]
    BY <1>0, <1>9
  <2>2. ASSUME NEW k \in 1 .. n, run[k - 1] \in K[k - 1]
        PROVE  run[k] \in K[k]
    <3>1. k - 1 \in 0 .. n - 1 /\ k - 1 \in 0 .. n /\ k \in 0 .. n
      BY <1>0
    <3>2. run[k - 1] \in Works
      BY <2>2, <3>1
    <3>3. F[<<run[k - 1], k - 1>>] \in Works
      BY <1>2, <3>1, <3>2
    <3>4. F[<<run[k - 1], k - 1>>] = Entry0(run[k - 1], t, k - 1)
      BY <1>1, <3>1, <3>2
    <3> QED
      BY <1>9, <3>1, <3>3, <3>4
  <2> HIDE DEF K
  <2> QED
    BY <1>0, <2>1, <2>2, Along
<1>12. run \in [0 .. n -> Works]
  BY <1>10, <1>11
<1>13. ASSUME NEW G, s \in G[0],
              \A x \in Works, k \in 0 .. n - 1 : x \in G[k] => Entry0(x, t, k) \in G[k + 1]
       PROVE  run[n] \in Works /\ run[n] \in G[n]
  <2>1. run[0] \in G[0]
    BY <1>9, <1>13
  <2>2. ASSUME NEW k \in 1 .. n, run[k - 1] \in G[k - 1]
        PROVE  run[k] \in G[k]
    <3>1. k - 1 \in 0 .. n - 1 /\ k - 1 \in 0 .. n /\ (k - 1) + 1 = k
      BY <1>0
    <3>2. run[k - 1] \in Works
      BY <1>12, <3>1
    <3> QED
      BY <1>9, <1>13, <2>2, <3>1, <3>2
  <2>3. \A k \in 0 .. n : run[k] \in G[k]
    BY <1>0, <2>1, <2>2, Along
  <2> QED
    BY <1>0, <1>12, <2>3
<1>14. ASSUME NEW W, s \in W,
              \A x \in Works, k \in 0 .. n - 1 : x \in W => Entry0(x, t, k) \in W
       PROVE  run[n] \in Works /\ run[n] \in W
  <2> DEFINE H == [k \in 0 .. n |-> W]
  <2>1. s \in H[0] /\ H[n] = W
    BY <1>0, <1>14
  <2>2. ASSUME NEW x \in Works, NEW k \in 0 .. n - 1, x \in H[k]
        PROVE  Entry0(x, t, k) \in H[k + 1]
    <3>1. k \in 0 .. n /\ k + 1 \in 0 .. n
      BY <1>0
    <3> QED
      BY <1>14, <2>2, <3>1
  <2> HIDE DEF H
  <2> QED
    BY <1>13, <2>1, <2>2
<1> HIDE DEF run
<1> QED
  BY <1>7, <1>13, <1>14

LEMMA Entries0Type ==
    ASSUME NEW s \in Works, NEW t \in Memory, NEW n \in 0 .. ENTRIES
    PROVE  Gone(s, Entries0(s, t, n))
<1> DEFINE W == {x \in Works : Gone(s, x)}
<1>1. s \in W
  BY DEF Gone
<1>2. ASSUME NEW x \in Works, NEW k \in 0 .. n - 1, x \in W
      PROVE  Entry0(x, t, k) \in W
  <2>1. k \in Entry
    BY Geometry DEF Entry
  <2>2. Gone(x, Entry0(x, t, k))
    BY <2>1, Entry0Type
  <2> QED
    BY <1>2, <2>2, GoneTrans DEF Gone
<1> HIDE DEF W
<1>3. Entries0(s, t, n) \in W
  BY <1>1, <1>2, Entries0Loop
<1> QED
  BY <1>3 DEF W

LEMMA FreeLeafType ==
    ASSUME NEW s \in Works, NEW e \in Entries, Present(e)
    PROVE  /\ FreeLeaf(s, e) = IF "nx" \in e.flags THEN FreePage(s, e) ELSE FreePage(Entries0(s, e.to, ENTRIES), e)
           /\ Gone(s, FreeLeaf(s, e))
<1> DEFINE c == Entries0(s, e.to, ENTRIES)
<1>1. FreeLeaf(s, e) = IF "nx" \in e.flags THEN FreePage(s, e) ELSE FreePage(Entries0(s, e.to, ENTRIES), e)
  BY DEF FreeLeaf, Entries0
<1>2. e.to \in Memory /\ ENTRIES \in 0 .. ENTRIES
  BY Places, Geometry
<1>3. Gone(s, c)
  BY <1>2, Entries0Type
<1> HIDE DEF c
<1>4. c \in Works
  BY <1>3 DEF Gone
<1>5. Gone(s, FreePage(s, e)) /\ Gone(c, FreePage(c, e))
  BY <1>4, FreePageType DEF Gone
<1>6. Gone(s, FreePage(c, e))
  BY <1>3, <1>5, GoneTrans
<1> QED
  BY <1>1, <1>5, <1>6 DEF c

Entry1(s, t, k) == OneEntry(s, t, k, FreeLeaf)
Entries1(s, t, n) == EachEntry(s, t, n, FreeLeaf)

LEMMA Entry1Type ==
    ASSUME NEW s \in Works, NEW t \in Memory, NEW k \in Entry
    PROVE  /\ Entry1(s, t, k) = Turn(s, t, k, FreeLeaf(s, s.mem[t][k]))
           /\ Gone(s, Entry1(s, t, k))
<1>1. Entry1(s, t, k) = Turn(s, t, k, FreeLeaf(s, s.mem[t][k]))
  BY DEF Entry1, OneEntry, Turn
<1>2. s.mem[t][k] \in Entries
  BY DEF Works, Mem
<1>3. Present(s.mem[t][k]) => Gone(s, FreeLeaf(s, s.mem[t][k]))
  BY <1>2, FreeLeafType, Places DEF Gone
<1> QED
  BY <1>1, <1>3, TurnType

LEMMA Entries1Loop ==
    ASSUME NEW s \in Works, NEW t \in Memory,
           NEW n \in 0 .. ENTRIES
    PROVE  /\ \A G : (/\ s \in G[0]
                      /\ \A x \in Works, k \in 0 .. n - 1 :
                             x \in G[k] => Entry1(x, t, k) \in G[k + 1])
               => Entries1(s, t, n) \in Works /\ Entries1(s, t, n) \in G[n]
           /\ \A W : (/\ s \in W
                      /\ \A x \in Works, k \in 0 .. n - 1 :
                             x \in W => Entry1(x, t, k) \in W)
               => Entries1(s, t, n) \in Works /\ Entries1(s, t, n) \in W
<1> DEFINE F == [x \in Works \X (0 .. n - 1) |-> Entry1(x[1], t, x[2])]
           Is(g) == g = [k \in 0 .. n |-> IF k = 0 THEN s ELSE Entry1(g[k - 1], t, k - 1)]
           run == CHOOSE g : Is(g)
<1>0. n \in Nat
  BY SeqFacts, Geometry
<1>1. \A x \in Works, k \in 0 .. n - 1 : F[<<x, k>>] = Entry1(x, t, k)
  OBVIOUS
<1>2. \A x \in Works, k \in 0 .. n - 1 : F[<<x, k>>] \in Works
  <2> SUFFICES ASSUME NEW x \in Works, NEW k \in 0 .. n - 1
               PROVE  Entry1(x, t, k) \in Works
    BY <1>1
  <2>1. k \in Entry
    BY <1>0, Geometry DEF Entry
  <2> QED
    BY <2>1, Entry1Type DEF Gone
<1> HIDE DEF F
<1>3. PICK g \in [0 .. n -> Works] : IsRun(g, s, n, F)
  <2>1. Closed(Works, n, F)
    BY <1>2 DEF Closed
  <2> QED
    BY <1>0, <2>1, Iteration
<1>4. \A k \in 1 .. n : F[<<g[k - 1], k - 1>>] = Entry1(g[k - 1], t, k - 1)
  <2> TAKE k \in 1 .. n
  <2>1. k - 1 \in 0 .. n - 1 /\ k - 1 \in 0 .. n
    BY <1>0
  <2> QED
    BY <1>1, <1>3, <2>1 DEF IsRun
<1>5. Is(g)
  <2> DEFINE h == [k \in 0 .. n |-> IF k = 0 THEN s ELSE Entry1(g[k - 1], t, k - 1)]
  <2>1. \A k \in 0 .. n : h[k] = g[k]
    <3> TAKE k \in 0 .. n
    <3>1. CASE k = 0
      BY <3>1, <1>3 DEF IsRun
    <3>2. CASE k # 0
      <4>1. k \in 1 .. n
        BY <3>2, <1>0
      <4>2. g[k] = Entry1(g[k - 1], t, k - 1)
        BY <4>1, <1>3, <1>4 DEF IsRun
      <4> QED
        BY <3>2, <4>2
    <3> QED
      BY <3>1, <3>2
  <2>2. h = [k \in 0 .. n |-> h[k]] /\ g = [k \in 0 .. n |-> g[k]]
    OBVIOUS
  <2> HIDE DEF h
  <2>3. h = g
    BY <2>1, <2>2
  <2> QED
    BY <2>3 DEF h
<1>6. Is(run)
  BY <1>5
<1>7. Entries1(s, t, n) = run[n]
  BY DEF Entries1, Entry1, EachEntry, Loop
<1> HIDE DEF run
<1>8. run = [k \in 0 .. n |-> IF k = 0 THEN s ELSE Entry1(run[k - 1], t, k - 1)]
  BY <1>6
<1> HIDE DEF Is
<1>9. /\ run[0] = s
      /\ \A k \in 1 .. n : run[k] = Entry1(run[k - 1], t, k - 1)
  BY <1>0, <1>8
<1>10. DOMAIN run = 0 .. n /\ run = [k \in 0 .. n |-> run[k]]
  BY <1>8
<1> DEFINE K == [k \in 0 .. n |-> Works]
<1>11. \A k \in 0 .. n : run[k] \in K[k]
  <2>1. run[0] \in K[0]
    BY <1>0, <1>9
  <2>2. ASSUME NEW k \in 1 .. n, run[k - 1] \in K[k - 1]
        PROVE  run[k] \in K[k]
    <3>1. k - 1 \in 0 .. n - 1 /\ k - 1 \in 0 .. n /\ k \in 0 .. n
      BY <1>0
    <3>2. run[k - 1] \in Works
      BY <2>2, <3>1
    <3>3. F[<<run[k - 1], k - 1>>] \in Works
      BY <1>2, <3>1, <3>2
    <3>4. F[<<run[k - 1], k - 1>>] = Entry1(run[k - 1], t, k - 1)
      BY <1>1, <3>1, <3>2
    <3> QED
      BY <1>9, <3>1, <3>3, <3>4
  <2> HIDE DEF K
  <2> QED
    BY <1>0, <2>1, <2>2, Along
<1>12. run \in [0 .. n -> Works]
  BY <1>10, <1>11
<1>13. ASSUME NEW G, s \in G[0],
              \A x \in Works, k \in 0 .. n - 1 : x \in G[k] => Entry1(x, t, k) \in G[k + 1]
       PROVE  run[n] \in Works /\ run[n] \in G[n]
  <2>1. run[0] \in G[0]
    BY <1>9, <1>13
  <2>2. ASSUME NEW k \in 1 .. n, run[k - 1] \in G[k - 1]
        PROVE  run[k] \in G[k]
    <3>1. k - 1 \in 0 .. n - 1 /\ k - 1 \in 0 .. n /\ (k - 1) + 1 = k
      BY <1>0
    <3>2. run[k - 1] \in Works
      BY <1>12, <3>1
    <3> QED
      BY <1>9, <1>13, <2>2, <3>1, <3>2
  <2>3. \A k \in 0 .. n : run[k] \in G[k]
    BY <1>0, <2>1, <2>2, Along
  <2> QED
    BY <1>0, <1>12, <2>3
<1>14. ASSUME NEW W, s \in W,
              \A x \in Works, k \in 0 .. n - 1 : x \in W => Entry1(x, t, k) \in W
       PROVE  run[n] \in Works /\ run[n] \in W
  <2> DEFINE H == [k \in 0 .. n |-> W]
  <2>1. s \in H[0] /\ H[n] = W
    BY <1>0, <1>14
  <2>2. ASSUME NEW x \in Works, NEW k \in 0 .. n - 1, x \in H[k]
        PROVE  Entry1(x, t, k) \in H[k + 1]
    <3>1. k \in 0 .. n /\ k + 1 \in 0 .. n
      BY <1>0
    <3> QED
      BY <1>14, <2>2, <3>1
  <2> HIDE DEF H
  <2> QED
    BY <1>13, <2>1, <2>2
<1> HIDE DEF run
<1> QED
  BY <1>7, <1>13, <1>14

LEMMA Entries1Type ==
    ASSUME NEW s \in Works, NEW t \in Memory, NEW n \in 0 .. ENTRIES
    PROVE  Gone(s, Entries1(s, t, n))
<1> DEFINE W == {x \in Works : Gone(s, x)}
<1>1. s \in W
  BY DEF Gone
<1>2. ASSUME NEW x \in Works, NEW k \in 0 .. n - 1, x \in W
      PROVE  Entry1(x, t, k) \in W
  <2>1. k \in Entry
    BY Geometry DEF Entry
  <2>2. Gone(x, Entry1(x, t, k))
    BY <2>1, Entry1Type
  <2> QED
    BY <1>2, <2>2, GoneTrans DEF Gone
<1> HIDE DEF W
<1>3. Entries1(s, t, n) \in W
  BY <1>1, <1>2, Entries1Loop
<1> QED
  BY <1>3 DEF W

LEMMA FreeTable1Type ==
    ASSUME NEW s \in Works, NEW e \in Entries, Present(e)
    PROVE  /\ FreeTable1(s, e) = FreeFrame(Entries1(s, e.to, ENTRIES), e.to)
           /\ Gone(s, FreeTable1(s, e))
<1> DEFINE c == Entries1(s, e.to, ENTRIES)
<1>1. FreeTable1(s, e) = FreeFrame(Entries1(s, e.to, ENTRIES), e.to)
  BY DEF FreeTable1, Entries1
<1>2. e.to \in Memory /\ ENTRIES \in 0 .. ENTRIES
  BY Places, Geometry
<1>3. Gone(s, c)
  BY <1>2, Entries1Type
<1> HIDE DEF c
<1>4. c \in Works
  BY <1>3 DEF Gone
<1>5. Gone(c, FreeFrame(c, e.to))
  BY <1>2, <1>4, FreeFrameType DEF Gone
<1>6. Gone(s, FreeFrame(c, e.to))
  BY <1>3, <1>5, GoneTrans
<1> QED
  BY <1>1, <1>5, <1>6 DEF c

Entry2(s, t, k) == OneEntry(s, t, k, FreeTable1)
Entries2(s, t, n) == EachEntry(s, t, n, FreeTable1)

LEMMA Entry2Type ==
    ASSUME NEW s \in Works, NEW t \in Memory, NEW k \in Entry
    PROVE  /\ Entry2(s, t, k) = Turn(s, t, k, FreeTable1(s, s.mem[t][k]))
           /\ Gone(s, Entry2(s, t, k))
<1>1. Entry2(s, t, k) = Turn(s, t, k, FreeTable1(s, s.mem[t][k]))
  BY DEF Entry2, OneEntry, Turn
<1>2. s.mem[t][k] \in Entries
  BY DEF Works, Mem
<1>3. Present(s.mem[t][k]) => Gone(s, FreeTable1(s, s.mem[t][k]))
  BY <1>2, FreeTable1Type, Places DEF Gone
<1> QED
  BY <1>1, <1>3, TurnType

LEMMA Entries2Loop ==
    ASSUME NEW s \in Works, NEW t \in Memory,
           NEW n \in 0 .. ENTRIES
    PROVE  /\ \A G : (/\ s \in G[0]
                      /\ \A x \in Works, k \in 0 .. n - 1 :
                             x \in G[k] => Entry2(x, t, k) \in G[k + 1])
               => Entries2(s, t, n) \in Works /\ Entries2(s, t, n) \in G[n]
           /\ \A W : (/\ s \in W
                      /\ \A x \in Works, k \in 0 .. n - 1 :
                             x \in W => Entry2(x, t, k) \in W)
               => Entries2(s, t, n) \in Works /\ Entries2(s, t, n) \in W
<1> DEFINE F == [x \in Works \X (0 .. n - 1) |-> Entry2(x[1], t, x[2])]
           Is(g) == g = [k \in 0 .. n |-> IF k = 0 THEN s ELSE Entry2(g[k - 1], t, k - 1)]
           run == CHOOSE g : Is(g)
<1>0. n \in Nat
  BY SeqFacts, Geometry
<1>1. \A x \in Works, k \in 0 .. n - 1 : F[<<x, k>>] = Entry2(x, t, k)
  OBVIOUS
<1>2. \A x \in Works, k \in 0 .. n - 1 : F[<<x, k>>] \in Works
  <2> SUFFICES ASSUME NEW x \in Works, NEW k \in 0 .. n - 1
               PROVE  Entry2(x, t, k) \in Works
    BY <1>1
  <2>1. k \in Entry
    BY <1>0, Geometry DEF Entry
  <2> QED
    BY <2>1, Entry2Type DEF Gone
<1> HIDE DEF F
<1>3. PICK g \in [0 .. n -> Works] : IsRun(g, s, n, F)
  <2>1. Closed(Works, n, F)
    BY <1>2 DEF Closed
  <2> QED
    BY <1>0, <2>1, Iteration
<1>4. \A k \in 1 .. n : F[<<g[k - 1], k - 1>>] = Entry2(g[k - 1], t, k - 1)
  <2> TAKE k \in 1 .. n
  <2>1. k - 1 \in 0 .. n - 1 /\ k - 1 \in 0 .. n
    BY <1>0
  <2> QED
    BY <1>1, <1>3, <2>1 DEF IsRun
<1>5. Is(g)
  <2> DEFINE h == [k \in 0 .. n |-> IF k = 0 THEN s ELSE Entry2(g[k - 1], t, k - 1)]
  <2>1. \A k \in 0 .. n : h[k] = g[k]
    <3> TAKE k \in 0 .. n
    <3>1. CASE k = 0
      BY <3>1, <1>3 DEF IsRun
    <3>2. CASE k # 0
      <4>1. k \in 1 .. n
        BY <3>2, <1>0
      <4>2. g[k] = Entry2(g[k - 1], t, k - 1)
        BY <4>1, <1>3, <1>4 DEF IsRun
      <4> QED
        BY <3>2, <4>2
    <3> QED
      BY <3>1, <3>2
  <2>2. h = [k \in 0 .. n |-> h[k]] /\ g = [k \in 0 .. n |-> g[k]]
    OBVIOUS
  <2> HIDE DEF h
  <2>3. h = g
    BY <2>1, <2>2
  <2> QED
    BY <2>3 DEF h
<1>6. Is(run)
  BY <1>5
<1>7. Entries2(s, t, n) = run[n]
  BY DEF Entries2, Entry2, EachEntry, Loop
<1> HIDE DEF run
<1>8. run = [k \in 0 .. n |-> IF k = 0 THEN s ELSE Entry2(run[k - 1], t, k - 1)]
  BY <1>6
<1> HIDE DEF Is
<1>9. /\ run[0] = s
      /\ \A k \in 1 .. n : run[k] = Entry2(run[k - 1], t, k - 1)
  BY <1>0, <1>8
<1>10. DOMAIN run = 0 .. n /\ run = [k \in 0 .. n |-> run[k]]
  BY <1>8
<1> DEFINE K == [k \in 0 .. n |-> Works]
<1>11. \A k \in 0 .. n : run[k] \in K[k]
  <2>1. run[0] \in K[0]
    BY <1>0, <1>9
  <2>2. ASSUME NEW k \in 1 .. n, run[k - 1] \in K[k - 1]
        PROVE  run[k] \in K[k]
    <3>1. k - 1 \in 0 .. n - 1 /\ k - 1 \in 0 .. n /\ k \in 0 .. n
      BY <1>0
    <3>2. run[k - 1] \in Works
      BY <2>2, <3>1
    <3>3. F[<<run[k - 1], k - 1>>] \in Works
      BY <1>2, <3>1, <3>2
    <3>4. F[<<run[k - 1], k - 1>>] = Entry2(run[k - 1], t, k - 1)
      BY <1>1, <3>1, <3>2
    <3> QED
      BY <1>9, <3>1, <3>3, <3>4
  <2> HIDE DEF K
  <2> QED
    BY <1>0, <2>1, <2>2, Along
<1>12. run \in [0 .. n -> Works]
  BY <1>10, <1>11
<1>13. ASSUME NEW G, s \in G[0],
              \A x \in Works, k \in 0 .. n - 1 : x \in G[k] => Entry2(x, t, k) \in G[k + 1]
       PROVE  run[n] \in Works /\ run[n] \in G[n]
  <2>1. run[0] \in G[0]
    BY <1>9, <1>13
  <2>2. ASSUME NEW k \in 1 .. n, run[k - 1] \in G[k - 1]
        PROVE  run[k] \in G[k]
    <3>1. k - 1 \in 0 .. n - 1 /\ k - 1 \in 0 .. n /\ (k - 1) + 1 = k
      BY <1>0
    <3>2. run[k - 1] \in Works
      BY <1>12, <3>1
    <3> QED
      BY <1>9, <1>13, <2>2, <3>1, <3>2
  <2>3. \A k \in 0 .. n : run[k] \in G[k]
    BY <1>0, <2>1, <2>2, Along
  <2> QED
    BY <1>0, <1>12, <2>3
<1>14. ASSUME NEW W, s \in W,
              \A x \in Works, k \in 0 .. n - 1 : x \in W => Entry2(x, t, k) \in W
       PROVE  run[n] \in Works /\ run[n] \in W
  <2> DEFINE H == [k \in 0 .. n |-> W]
  <2>1. s \in H[0] /\ H[n] = W
    BY <1>0, <1>14
  <2>2. ASSUME NEW x \in Works, NEW k \in 0 .. n - 1, x \in H[k]
        PROVE  Entry2(x, t, k) \in H[k + 1]
    <3>1. k \in 0 .. n /\ k + 1 \in 0 .. n
      BY <1>0
    <3> QED
      BY <1>14, <2>2, <3>1
  <2> HIDE DEF H
  <2> QED
    BY <1>13, <2>1, <2>2
<1> HIDE DEF run
<1> QED
  BY <1>7, <1>13, <1>14

LEMMA Entries2Type ==
    ASSUME NEW s \in Works, NEW t \in Memory, NEW n \in 0 .. ENTRIES
    PROVE  Gone(s, Entries2(s, t, n))
<1> DEFINE W == {x \in Works : Gone(s, x)}
<1>1. s \in W
  BY DEF Gone
<1>2. ASSUME NEW x \in Works, NEW k \in 0 .. n - 1, x \in W
      PROVE  Entry2(x, t, k) \in W
  <2>1. k \in Entry
    BY Geometry DEF Entry
  <2>2. Gone(x, Entry2(x, t, k))
    BY <2>1, Entry2Type
  <2> QED
    BY <1>2, <2>2, GoneTrans DEF Gone
<1> HIDE DEF W
<1>3. Entries2(s, t, n) \in W
  BY <1>1, <1>2, Entries2Loop
<1> QED
  BY <1>3 DEF W

LEMMA FreeTable2Type ==
    ASSUME NEW s \in Works, NEW e \in Entries, Present(e)
    PROVE  /\ FreeTable2(s, e) = FreeFrame(Entries2(s, e.to, ENTRIES), e.to)
           /\ Gone(s, FreeTable2(s, e))
<1> DEFINE c == Entries2(s, e.to, ENTRIES)
<1>1. FreeTable2(s, e) = FreeFrame(Entries2(s, e.to, ENTRIES), e.to)
  BY DEF FreeTable2, Entries2
<1>2. e.to \in Memory /\ ENTRIES \in 0 .. ENTRIES
  BY Places, Geometry
<1>3. Gone(s, c)
  BY <1>2, Entries2Type
<1> HIDE DEF c
<1>4. c \in Works
  BY <1>3 DEF Gone
<1>5. Gone(c, FreeFrame(c, e.to))
  BY <1>2, <1>4, FreeFrameType DEF Gone
<1>6. Gone(s, FreeFrame(c, e.to))
  BY <1>3, <1>5, GoneTrans
<1> QED
  BY <1>1, <1>5, <1>6 DEF c

Entry3(s, t, k) == OneEntry(s, t, k, FreeTable2)
Entries3(s, t, n) == EachEntry(s, t, n, FreeTable2)

LEMMA Entry3Type ==
    ASSUME NEW s \in Works, NEW t \in Memory, NEW k \in Entry
    PROVE  /\ Entry3(s, t, k) = Turn(s, t, k, FreeTable2(s, s.mem[t][k]))
           /\ Gone(s, Entry3(s, t, k))
<1>1. Entry3(s, t, k) = Turn(s, t, k, FreeTable2(s, s.mem[t][k]))
  BY DEF Entry3, OneEntry, Turn
<1>2. s.mem[t][k] \in Entries
  BY DEF Works, Mem
<1>3. Present(s.mem[t][k]) => Gone(s, FreeTable2(s, s.mem[t][k]))
  BY <1>2, FreeTable2Type, Places DEF Gone
<1> QED
  BY <1>1, <1>3, TurnType

LEMMA Entries3Loop ==
    ASSUME NEW s \in Works, NEW t \in Memory,
           NEW n \in 0 .. ENTRIES
    PROVE  /\ \A G : (/\ s \in G[0]
                      /\ \A x \in Works, k \in 0 .. n - 1 :
                             x \in G[k] => Entry3(x, t, k) \in G[k + 1])
               => Entries3(s, t, n) \in Works /\ Entries3(s, t, n) \in G[n]
           /\ \A W : (/\ s \in W
                      /\ \A x \in Works, k \in 0 .. n - 1 :
                             x \in W => Entry3(x, t, k) \in W)
               => Entries3(s, t, n) \in Works /\ Entries3(s, t, n) \in W
<1> DEFINE F == [x \in Works \X (0 .. n - 1) |-> Entry3(x[1], t, x[2])]
           Is(g) == g = [k \in 0 .. n |-> IF k = 0 THEN s ELSE Entry3(g[k - 1], t, k - 1)]
           run == CHOOSE g : Is(g)
<1>0. n \in Nat
  BY SeqFacts, Geometry
<1>1. \A x \in Works, k \in 0 .. n - 1 : F[<<x, k>>] = Entry3(x, t, k)
  OBVIOUS
<1>2. \A x \in Works, k \in 0 .. n - 1 : F[<<x, k>>] \in Works
  <2> SUFFICES ASSUME NEW x \in Works, NEW k \in 0 .. n - 1
               PROVE  Entry3(x, t, k) \in Works
    BY <1>1
  <2>1. k \in Entry
    BY <1>0, Geometry DEF Entry
  <2> QED
    BY <2>1, Entry3Type DEF Gone
<1> HIDE DEF F
<1>3. PICK g \in [0 .. n -> Works] : IsRun(g, s, n, F)
  <2>1. Closed(Works, n, F)
    BY <1>2 DEF Closed
  <2> QED
    BY <1>0, <2>1, Iteration
<1>4. \A k \in 1 .. n : F[<<g[k - 1], k - 1>>] = Entry3(g[k - 1], t, k - 1)
  <2> TAKE k \in 1 .. n
  <2>1. k - 1 \in 0 .. n - 1 /\ k - 1 \in 0 .. n
    BY <1>0
  <2> QED
    BY <1>1, <1>3, <2>1 DEF IsRun
<1>5. Is(g)
  <2> DEFINE h == [k \in 0 .. n |-> IF k = 0 THEN s ELSE Entry3(g[k - 1], t, k - 1)]
  <2>1. \A k \in 0 .. n : h[k] = g[k]
    <3> TAKE k \in 0 .. n
    <3>1. CASE k = 0
      BY <3>1, <1>3 DEF IsRun
    <3>2. CASE k # 0
      <4>1. k \in 1 .. n
        BY <3>2, <1>0
      <4>2. g[k] = Entry3(g[k - 1], t, k - 1)
        BY <4>1, <1>3, <1>4 DEF IsRun
      <4> QED
        BY <3>2, <4>2
    <3> QED
      BY <3>1, <3>2
  <2>2. h = [k \in 0 .. n |-> h[k]] /\ g = [k \in 0 .. n |-> g[k]]
    OBVIOUS
  <2> HIDE DEF h
  <2>3. h = g
    BY <2>1, <2>2
  <2> QED
    BY <2>3 DEF h
<1>6. Is(run)
  BY <1>5
<1>7. Entries3(s, t, n) = run[n]
  BY DEF Entries3, Entry3, EachEntry, Loop
<1> HIDE DEF run
<1>8. run = [k \in 0 .. n |-> IF k = 0 THEN s ELSE Entry3(run[k - 1], t, k - 1)]
  BY <1>6
<1> HIDE DEF Is
<1>9. /\ run[0] = s
      /\ \A k \in 1 .. n : run[k] = Entry3(run[k - 1], t, k - 1)
  BY <1>0, <1>8
<1>10. DOMAIN run = 0 .. n /\ run = [k \in 0 .. n |-> run[k]]
  BY <1>8
<1> DEFINE K == [k \in 0 .. n |-> Works]
<1>11. \A k \in 0 .. n : run[k] \in K[k]
  <2>1. run[0] \in K[0]
    BY <1>0, <1>9
  <2>2. ASSUME NEW k \in 1 .. n, run[k - 1] \in K[k - 1]
        PROVE  run[k] \in K[k]
    <3>1. k - 1 \in 0 .. n - 1 /\ k - 1 \in 0 .. n /\ k \in 0 .. n
      BY <1>0
    <3>2. run[k - 1] \in Works
      BY <2>2, <3>1
    <3>3. F[<<run[k - 1], k - 1>>] \in Works
      BY <1>2, <3>1, <3>2
    <3>4. F[<<run[k - 1], k - 1>>] = Entry3(run[k - 1], t, k - 1)
      BY <1>1, <3>1, <3>2
    <3> QED
      BY <1>9, <3>1, <3>3, <3>4
  <2> HIDE DEF K
  <2> QED
    BY <1>0, <2>1, <2>2, Along
<1>12. run \in [0 .. n -> Works]
  BY <1>10, <1>11
<1>13. ASSUME NEW G, s \in G[0],
              \A x \in Works, k \in 0 .. n - 1 : x \in G[k] => Entry3(x, t, k) \in G[k + 1]
       PROVE  run[n] \in Works /\ run[n] \in G[n]
  <2>1. run[0] \in G[0]
    BY <1>9, <1>13
  <2>2. ASSUME NEW k \in 1 .. n, run[k - 1] \in G[k - 1]
        PROVE  run[k] \in G[k]
    <3>1. k - 1 \in 0 .. n - 1 /\ k - 1 \in 0 .. n /\ (k - 1) + 1 = k
      BY <1>0
    <3>2. run[k - 1] \in Works
      BY <1>12, <3>1
    <3> QED
      BY <1>9, <1>13, <2>2, <3>1, <3>2
  <2>3. \A k \in 0 .. n : run[k] \in G[k]
    BY <1>0, <2>1, <2>2, Along
  <2> QED
    BY <1>0, <1>12, <2>3
<1>14. ASSUME NEW W, s \in W,
              \A x \in Works, k \in 0 .. n - 1 : x \in W => Entry3(x, t, k) \in W
       PROVE  run[n] \in Works /\ run[n] \in W
  <2> DEFINE H == [k \in 0 .. n |-> W]
  <2>1. s \in H[0] /\ H[n] = W
    BY <1>0, <1>14
  <2>2. ASSUME NEW x \in Works, NEW k \in 0 .. n - 1, x \in H[k]
        PROVE  Entry3(x, t, k) \in H[k + 1]
    <3>1. k \in 0 .. n /\ k + 1 \in 0 .. n
      BY <1>0
    <3> QED
      BY <1>14, <2>2, <3>1
  <2> HIDE DEF H
  <2> QED
    BY <1>13, <2>1, <2>2
<1> HIDE DEF run
<1> QED
  BY <1>7, <1>13, <1>14

LEMMA Entries3Type ==
    ASSUME NEW s \in Works, NEW t \in Memory, NEW n \in 0 .. ENTRIES
    PROVE  Gone(s, Entries3(s, t, n))
<1> DEFINE W == {x \in Works : Gone(s, x)}
<1>1. s \in W
  BY DEF Gone
<1>2. ASSUME NEW x \in Works, NEW k \in 0 .. n - 1, x \in W
      PROVE  Entry3(x, t, k) \in W
  <2>1. k \in Entry
    BY Geometry DEF Entry
  <2>2. Gone(x, Entry3(x, t, k))
    BY <2>1, Entry3Type
  <2> QED
    BY <1>2, <2>2, GoneTrans DEF Gone
<1> HIDE DEF W
<1>3. Entries3(s, t, n) \in W
  BY <1>1, <1>2, Entries3Loop
<1> QED
  BY <1>3 DEF W

LEMMA RecordsLoop ==
    ASSUME NEW s \in Works, NEW rs \in Seq(Regions)
    PROVE  /\ \A G : (/\ s \in G[0]
                      /\ \A x \in Works, k \in 0 .. Len(rs) - 1 :
                             x \in G[k] => FreeFrame(x, rs[k + 1].at) \in G[k + 1])
               => FreeRecords(s, rs) \in Works /\ FreeRecords(s, rs) \in G[Len(rs)]
           /\ \A W : (/\ s \in W
                      /\ \A x \in Works, k \in 0 .. Len(rs) - 1 :
                             x \in W => FreeFrame(x, rs[k + 1].at) \in W)
               => FreeRecords(s, rs) \in Works /\ FreeRecords(s, rs) \in W
<1> DEFINE F == [x \in Works \X (0 .. Len(rs) - 1) |-> FreeFrame(x[1], rs[x[2] + 1].at)]
           Is(g) == g = [k \in 0 .. Len(rs) |-> IF k = 0 THEN s ELSE FreeFrame(g[k - 1], rs[k - 1 + 1].at)]
           run == CHOOSE g : Is(g)
<1>0. Len(rs) \in Nat
  BY SeqFacts, Geometry
<1>1. \A x \in Works, k \in 0 .. Len(rs) - 1 : F[<<x, k>>] = FreeFrame(x, rs[k + 1].at)
  OBVIOUS
<1>2. \A x \in Works, k \in 0 .. Len(rs) - 1 : F[<<x, k>>] \in Works
  <2> SUFFICES ASSUME NEW x \in Works, NEW k \in 0 .. Len(rs) - 1
               PROVE  FreeFrame(x, rs[k + 1].at) \in Works
    BY <1>1
  <2>1. k + 1 \in DOMAIN rs
    BY <1>0, SeqFacts
  <2>2. rs[k + 1] \in Regions
    BY <2>1, SeqFacts
  <2>3. rs[k + 1].at \in Memory
    BY <2>2, Places DEF Regions
  <2> QED
    BY <2>3, FreeFrameType
<1> HIDE DEF F
<1>3. PICK g \in [0 .. Len(rs) -> Works] : IsRun(g, s, Len(rs), F)
  <2>1. Closed(Works, Len(rs), F)
    BY <1>2 DEF Closed
  <2> QED
    BY <1>0, <2>1, Iteration
<1>4. \A k \in 1 .. Len(rs) : F[<<g[k - 1], k - 1>>] = FreeFrame(g[k - 1], rs[k - 1 + 1].at)
  <2> TAKE k \in 1 .. Len(rs)
  <2>1. k - 1 \in 0 .. Len(rs) - 1 /\ k - 1 \in 0 .. Len(rs)
    BY <1>0
  <2> QED
    BY <1>1, <1>3, <2>1 DEF IsRun
<1>5. Is(g)
  <2> DEFINE h == [k \in 0 .. Len(rs) |-> IF k = 0 THEN s ELSE FreeFrame(g[k - 1], rs[k - 1 + 1].at)]
  <2>1. \A k \in 0 .. Len(rs) : h[k] = g[k]
    <3> TAKE k \in 0 .. Len(rs)
    <3>1. CASE k = 0
      BY <3>1, <1>3 DEF IsRun
    <3>2. CASE k # 0
      <4>1. k \in 1 .. Len(rs)
        BY <3>2, <1>0
      <4>2. g[k] = FreeFrame(g[k - 1], rs[k - 1 + 1].at)
        BY <4>1, <1>3, <1>4 DEF IsRun
      <4> QED
        BY <3>2, <4>2
    <3> QED
      BY <3>1, <3>2
  <2>2. h = [k \in 0 .. Len(rs) |-> h[k]] /\ g = [k \in 0 .. Len(rs) |-> g[k]]
    OBVIOUS
  <2> HIDE DEF h
  <2>3. h = g
    BY <2>1, <2>2
  <2> QED
    BY <2>3 DEF h
<1>6. Is(run)
  BY <1>5
<1>7. FreeRecords(s, rs) = run[Len(rs)]
  BY DEF FreeRecords, Loop
<1> HIDE DEF run
<1>8. run = [k \in 0 .. Len(rs) |-> IF k = 0 THEN s ELSE FreeFrame(run[k - 1], rs[k - 1 + 1].at)]
  BY <1>6
<1> HIDE DEF Is
<1>9. /\ run[0] = s
      /\ \A k \in 1 .. Len(rs) : run[k] = FreeFrame(run[k - 1], rs[k - 1 + 1].at)
  BY <1>0, <1>8
<1>10. DOMAIN run = 0 .. Len(rs) /\ run = [k \in 0 .. Len(rs) |-> run[k]]
  BY <1>8
<1> DEFINE K == [k \in 0 .. Len(rs) |-> Works]
<1>11. \A k \in 0 .. Len(rs) : run[k] \in K[k]
  <2>1. run[0] \in K[0]
    BY <1>0, <1>9
  <2>2. ASSUME NEW k \in 1 .. Len(rs), run[k - 1] \in K[k - 1]
        PROVE  run[k] \in K[k]
    <3>1. k - 1 \in 0 .. Len(rs) - 1 /\ k - 1 \in 0 .. Len(rs) /\ k \in 0 .. Len(rs)
      BY <1>0
    <3>2. run[k - 1] \in Works
      BY <2>2, <3>1
    <3>3. F[<<run[k - 1], k - 1>>] \in Works
      BY <1>2, <3>1, <3>2
    <3>4. F[<<run[k - 1], k - 1>>] = FreeFrame(run[k - 1], rs[k - 1 + 1].at)
      BY <1>1, <3>1, <3>2
    <3> QED
      BY <1>9, <3>1, <3>3, <3>4
  <2> HIDE DEF K
  <2> QED
    BY <1>0, <2>1, <2>2, Along
<1>12. run \in [0 .. Len(rs) -> Works]
  BY <1>10, <1>11
<1>13. ASSUME NEW G, s \in G[0],
              \A x \in Works, k \in 0 .. Len(rs) - 1 : x \in G[k] => FreeFrame(x, rs[k + 1].at) \in G[k + 1]
       PROVE  run[Len(rs)] \in Works /\ run[Len(rs)] \in G[Len(rs)]
  <2>1. run[0] \in G[0]
    BY <1>9, <1>13
  <2>2. ASSUME NEW k \in 1 .. Len(rs), run[k - 1] \in G[k - 1]
        PROVE  run[k] \in G[k]
    <3>1. k - 1 \in 0 .. Len(rs) - 1 /\ k - 1 \in 0 .. Len(rs) /\ (k - 1) + 1 = k
      BY <1>0
    <3>2. run[k - 1] \in Works
      BY <1>12, <3>1
    <3> QED
      BY <1>9, <1>13, <2>2, <3>1, <3>2
  <2>3. \A k \in 0 .. Len(rs) : run[k] \in G[k]
    BY <1>0, <2>1, <2>2, Along
  <2> QED
    BY <1>0, <1>12, <2>3
<1>14. ASSUME NEW W, s \in W,
              \A x \in Works, k \in 0 .. Len(rs) - 1 : x \in W => FreeFrame(x, rs[k + 1].at) \in W
       PROVE  run[Len(rs)] \in Works /\ run[Len(rs)] \in W
  <2> DEFINE H == [k \in 0 .. Len(rs) |-> W]
  <2>1. s \in H[0] /\ H[Len(rs)] = W
    BY <1>0, <1>14
  <2>2. ASSUME NEW x \in Works, NEW k \in 0 .. Len(rs) - 1, x \in H[k]
        PROVE  FreeFrame(x, rs[k + 1].at) \in H[k + 1]
    <3>1. k \in 0 .. Len(rs) /\ k + 1 \in 0 .. Len(rs)
      BY <1>0
    <3> QED
      BY <1>14, <2>2, <3>1
  <2> HIDE DEF H
  <2> QED
    BY <1>13, <2>1, <2>2
<1> HIDE DEF run
<1> QED
  BY <1>7, <1>13, <1>14

LEMMA CopyTableType ==
    ASSUME NEW s \in Works, NEW from \in Memory, NEW to \in Memory, NEW k \in Entry
    PROVE  LET d == CopyTable(s, from, to, k) IN
           d \in Works /\ d.regions = s.regions /\ d.fate = s.fate /\ d.avail \subseteq s.avail
<1> DEFINE e == s.mem[from][k]
           f == Fresh(s)
           e1 == [e EXCEPT !.to = f]
           m1 == [s.mem EXCEPT ![f] = s.mem[e.to]]
           m2 == [m1 EXCEPT ![to][k] = e1]
           d == [s EXCEPT !.avail = @ \ {f}, !.mem = m2]
<1>1. e \in Entries
  BY DEF Works, Mem
<1>2. ASSUME ~s.ran, Present(e), s.avail # {}
      PROVE  CopyTable(s, from, to, k) = d /\ d \in Works
  <2>1. f \in Memory /\ f \in 0 .. TOP - 1
    BY <1>2, FreshIn, Places
  <2>2. e1 \in Entries
    BY <1>1, <2>1 DEF Entries
  <2>3. e.to \in Memory
    BY <1>1, <1>2, Places
  <2>4. CopyTable(s, from, to, k) =
            [s EXCEPT !.avail = @ \ {f}, !.mem[f] = s.mem[e.to], !.mem[to][k] = e1]
    BY <1>2 DEF CopyTable
  <2> HIDE DEF e, e1, f
  <2>5. m1 \in Mem
    BY <2>1, <2>3 DEF Works, Mem
  <2>6. [s EXCEPT !.avail = @ \ {f}, !.mem[f] = s.mem[e.to], !.mem[to][k] = e1] = d
    BY DEF Works
  <2> HIDE DEF m1
  <2>7. m2 \in Mem
    BY <2>2, <2>5 DEF Mem
  <2> HIDE DEF m2
  <2>8. d \in Works
    BY <2>7 DEF Works
  <2> QED
    BY <2>4, <2>6, <2>8
<1> HIDE DEF m2
<1>3. CASE s.ran \/ ~Present(e)
  BY <1>3 DEF CopyTable
<1>4. CASE ~s.ran /\ Present(e) /\ s.avail = {}
  BY <1>4, RanOutType DEF CopyTable
<1>5. CASE ~s.ran /\ Present(e) /\ s.avail # {}
  <2>1. d.regions = s.regions /\ d.fate = s.fate /\ d.avail \subseteq s.avail
    BY DEF Works
  <2> HIDE DEF d
  <2> QED
    BY <1>2, <1>5, <2>1
<1> QED
  BY <1>3, <1>4, <1>5

LEMMA CopyLoop ==
    ASSUME NEW s \in Works, NEW from \in Memory, NEW to \in Memory
    PROVE  /\ \A G : (/\ s \in G[0]
                      /\ \A x \in Works, k \in 0 .. HALF - 1 :
                             x \in G[k] => CopyTable(x, from, to, k) \in G[k + 1])
               => CopyTables(s, from, to) \in Works /\ CopyTables(s, from, to) \in G[HALF]
           /\ \A W : (/\ s \in W
                      /\ \A x \in Works, k \in 0 .. HALF - 1 :
                             x \in W => CopyTable(x, from, to, k) \in W)
               => CopyTables(s, from, to) \in Works /\ CopyTables(s, from, to) \in W
<1> DEFINE F == [x \in Works \X (0 .. HALF - 1) |-> CopyTable(x[1], from, to, x[2])]
           Is(g) == g = [k \in 0 .. HALF |-> IF k = 0 THEN s ELSE CopyTable(g[k - 1], from, to, k - 1)]
           run == CHOOSE g : Is(g)
<1>0. HALF \in Nat
  BY SeqFacts, Geometry
<1>1. \A x \in Works, k \in 0 .. HALF - 1 : F[<<x, k>>] = CopyTable(x, from, to, k)
  OBVIOUS
<1>2. \A x \in Works, k \in 0 .. HALF - 1 : F[<<x, k>>] \in Works
  <2> SUFFICES ASSUME NEW x \in Works, NEW k \in 0 .. HALF - 1
               PROVE  CopyTable(x, from, to, k) \in Works
    BY <1>1
  <2>1. k \in Entry
    BY Geometry DEF Entry
  <2> QED
    BY <2>1, CopyTableType
<1> HIDE DEF F
<1>3. PICK g \in [0 .. HALF -> Works] : IsRun(g, s, HALF, F)
  <2>1. Closed(Works, HALF, F)
    BY <1>2 DEF Closed
  <2> QED
    BY <1>0, <2>1, Iteration
<1>4. \A k \in 1 .. HALF : F[<<g[k - 1], k - 1>>] = CopyTable(g[k - 1], from, to, k - 1)
  <2> TAKE k \in 1 .. HALF
  <2>1. k - 1 \in 0 .. HALF - 1 /\ k - 1 \in 0 .. HALF
    BY <1>0
  <2> QED
    BY <1>1, <1>3, <2>1 DEF IsRun
<1>5. Is(g)
  <2> DEFINE h == [k \in 0 .. HALF |-> IF k = 0 THEN s ELSE CopyTable(g[k - 1], from, to, k - 1)]
  <2>1. \A k \in 0 .. HALF : h[k] = g[k]
    <3> TAKE k \in 0 .. HALF
    <3>1. CASE k = 0
      BY <3>1, <1>3 DEF IsRun
    <3>2. CASE k # 0
      <4>1. k \in 1 .. HALF
        BY <3>2, <1>0
      <4>2. g[k] = CopyTable(g[k - 1], from, to, k - 1)
        BY <4>1, <1>3, <1>4 DEF IsRun
      <4> QED
        BY <3>2, <4>2
    <3> QED
      BY <3>1, <3>2
  <2>2. h = [k \in 0 .. HALF |-> h[k]] /\ g = [k \in 0 .. HALF |-> g[k]]
    OBVIOUS
  <2> HIDE DEF h
  <2>3. h = g
    BY <2>1, <2>2
  <2> QED
    BY <2>3 DEF h
<1>6. Is(run)
  BY <1>5
<1>7. CopyTables(s, from, to) = run[HALF]
  BY DEF CopyTables, Loop
<1> HIDE DEF run
<1>8. run = [k \in 0 .. HALF |-> IF k = 0 THEN s ELSE CopyTable(run[k - 1], from, to, k - 1)]
  BY <1>6
<1> HIDE DEF Is
<1>9. /\ run[0] = s
      /\ \A k \in 1 .. HALF : run[k] = CopyTable(run[k - 1], from, to, k - 1)
  BY <1>0, <1>8
<1>10. DOMAIN run = 0 .. HALF /\ run = [k \in 0 .. HALF |-> run[k]]
  BY <1>8
<1> DEFINE K == [k \in 0 .. HALF |-> Works]
<1>11. \A k \in 0 .. HALF : run[k] \in K[k]
  <2>1. run[0] \in K[0]
    BY <1>0, <1>9
  <2>2. ASSUME NEW k \in 1 .. HALF, run[k - 1] \in K[k - 1]
        PROVE  run[k] \in K[k]
    <3>1. k - 1 \in 0 .. HALF - 1 /\ k - 1 \in 0 .. HALF /\ k \in 0 .. HALF
      BY <1>0
    <3>2. run[k - 1] \in Works
      BY <2>2, <3>1
    <3>3. F[<<run[k - 1], k - 1>>] \in Works
      BY <1>2, <3>1, <3>2
    <3>4. F[<<run[k - 1], k - 1>>] = CopyTable(run[k - 1], from, to, k - 1)
      BY <1>1, <3>1, <3>2
    <3> QED
      BY <1>9, <3>1, <3>3, <3>4
  <2> HIDE DEF K
  <2> QED
    BY <1>0, <2>1, <2>2, Along
<1>12. run \in [0 .. HALF -> Works]
  BY <1>10, <1>11
<1>13. ASSUME NEW G, s \in G[0],
              \A x \in Works, k \in 0 .. HALF - 1 : x \in G[k] => CopyTable(x, from, to, k) \in G[k + 1]
       PROVE  run[HALF] \in Works /\ run[HALF] \in G[HALF]
  <2>1. run[0] \in G[0]
    BY <1>9, <1>13
  <2>2. ASSUME NEW k \in 1 .. HALF, run[k - 1] \in G[k - 1]
        PROVE  run[k] \in G[k]
    <3>1. k - 1 \in 0 .. HALF - 1 /\ k - 1 \in 0 .. HALF /\ (k - 1) + 1 = k
      BY <1>0
    <3>2. run[k - 1] \in Works
      BY <1>12, <3>1
    <3> QED
      BY <1>9, <1>13, <2>2, <3>1, <3>2
  <2>3. \A k \in 0 .. HALF : run[k] \in G[k]
    BY <1>0, <2>1, <2>2, Along
  <2> QED
    BY <1>0, <1>12, <2>3
<1>14. ASSUME NEW W, s \in W,
              \A x \in Works, k \in 0 .. HALF - 1 : x \in W => CopyTable(x, from, to, k) \in W
       PROVE  run[HALF] \in Works /\ run[HALF] \in W
  <2> DEFINE H == [k \in 0 .. HALF |-> W]
  <2>1. s \in H[0] /\ H[HALF] = W
    BY <1>0, <1>14
  <2>2. ASSUME NEW x \in Works, NEW k \in 0 .. HALF - 1, x \in H[k]
        PROVE  CopyTable(x, from, to, k) \in H[k + 1]
    <3>1. k \in 0 .. HALF /\ k + 1 \in 0 .. HALF
      BY <1>0
    <3> QED
      BY <1>14, <2>2, <3>1
  <2> HIDE DEF H
  <2> QED
    BY <1>13, <2>1, <2>2
<1> HIDE DEF run
<1> QED
  BY <1>7, <1>13, <1>14

-----------------------------------------------------------------------------
(* Region lists *)

LEMMA InsertFacts ==
    ASSUME NEW S, NEW q \in Seq(S), NEW i \in 1 .. Len(q) + 1, NEW e \in S
    PROVE  /\ InsertAt(q, i, e) \in Seq(S)
           /\ Len(InsertAt(q, i, e)) = Len(q) + 1
           /\ \A j \in 1 .. Len(q) + 1 :
                  InsertAt(q, i, e)[j] = IF j < i THEN q[j] ELSE IF j = i THEN e ELSE q[j - 1]
<1> DEFINE l == SubSeq(q, 1, i - 1)
           r == SubSeq(q, i, Len(q))
<1>1. Len(q) \in Nat /\ i \in Nat
  OBVIOUS
<1>2. l \in Seq(S) /\ Len(l) = i - 1 /\ \A j \in 1 .. i - 1 : l[j] = q[j]
  BY <1>1
<1>3. r \in Seq(S) /\ Len(r) = Len(q) - i + 1 /\ \A j \in 1 .. Len(q) - i + 1 : r[j] = q[i + j - 1]
  BY <1>1
<1>4. InsertAt(q, i, e) = (l \o <<e>>) \o r
  BY DEF InsertAt
<1> HIDE DEF l, r
<1> DEFINE m == l \o <<e>>
<1>5. m \in Seq(S) /\ Len(m) = i /\ m[i] = e /\ \A j \in 1 .. i - 1 : m[j] = q[j]
  BY <1>1, <1>2
<1> HIDE DEF m
<1>6. m \o r \in Seq(S) /\ Len(m \o r) = Len(q) + 1
  BY <1>1, <1>3, <1>5
<1> DEFINE z == m \o r
<1>7. ASSUME NEW j \in 1 .. Len(q) + 1
      PROVE  z[j] = IF j < i THEN q[j] ELSE IF j = i THEN e ELSE q[j - 1]
  <2>1. CASE j <= i
    <3>1. z[j] = m[j]
      BY <1>1, <1>3, <1>5, <2>1
    <3> QED
      BY <1>1, <1>5, <2>1, <3>1
  <2>2. CASE j > i
    <3>1. z[j] = r[j - i]
      BY <1>1, <1>3, <1>5, <2>2
    <3>2. j - i \in 1 .. Len(q) - i + 1 /\ i + (j - i) - 1 = j - 1
      BY <1>1, <2>2
    <3> QED
      BY <1>3, <2>2, <3>1, <3>2
  <2>3. j \in Int
    OBVIOUS
  <2> HIDE DEF z
  <2> QED
    BY <1>1, <2>1, <2>2, <2>3
<1> QED
  BY <1>4, <1>6, <1>7 DEF m

LEMMA RemoveFacts ==
    ASSUME NEW S, NEW q \in Seq(S), NEW i \in 1 .. Len(q)
    PROVE  /\ RemoveAt(q, i) \in Seq(S)
           /\ Len(RemoveAt(q, i)) = Len(q) - 1
           /\ \A j \in 1 .. Len(q) - 1 : RemoveAt(q, i)[j] = IF j < i THEN q[j] ELSE q[j + 1]
<1> DEFINE l == SubSeq(q, 1, i - 1)
           r == SubSeq(q, i + 1, Len(q))
<1>1. Len(q) \in Nat /\ i \in Nat
  OBVIOUS
<1>2. l \in Seq(S) /\ Len(l) = i - 1 /\ \A j \in 1 .. i - 1 : l[j] = q[j]
  BY <1>1
<1>3. r \in Seq(S) /\ Len(r) = Len(q) - i /\ \A j \in 1 .. Len(q) - i : r[j] = q[i + j]
  BY <1>1
<1>4. RemoveAt(q, i) = l \o r
  BY DEF RemoveAt
<1> HIDE DEF l, r
<1>5. l \o r \in Seq(S) /\ Len(l \o r) = Len(q) - 1
  BY <1>1, <1>2, <1>3
<1> DEFINE z == l \o r
<1>6. ASSUME NEW j \in 1 .. Len(q) - 1
      PROVE  z[j] = IF j < i THEN q[j] ELSE q[j + 1]
  <2>1. CASE j < i
    <3>1. z[j] = l[j]
      BY <1>1, <1>2, <1>3, <2>1
    <3> QED
      BY <1>1, <1>2, <2>1, <3>1
  <2>2. CASE j >= i
    <3>1. z[j] = r[j - i + 1]
      BY <1>1, <1>2, <1>3, <2>2
    <3>2. j - i + 1 \in 1 .. Len(q) - i /\ i + (j - i + 1) = j + 1
      BY <1>1, <2>2
    <3> QED
      BY <1>1, <1>3, <2>2, <3>1, <3>2
  <2>3. j \in Int
    OBVIOUS
  <2> HIDE DEF z
  <2> QED
    BY <1>1, <2>1, <2>2, <2>3
<1> QED
  BY <1>4, <1>5, <1>6

\* The first of the positions in I, or 0: what SelectInSeq finds.
First(I) == IF I # {} THEN Min(I) ELSE 0

LEMMA FirstFacts ==
    ASSUME NEW n \in Nat, NEW I \in SUBSET (1 .. n)
    PROVE  /\ First(I) \in 0 .. n
           /\ First(I) = 0 <=> I = {}
           /\ First(I) # 0 => First(I) \in I /\ \A j \in I : First(I) <= j
<1>1. I \in SUBSET Nat
  OBVIOUS
<1>2. I # {} => Min(I) \in I /\ \A j \in I : Min(I) <= j
  BY <1>1, NatMin
<1>3. CASE I = {}
  BY <1>3 DEF First
<1>4. CASE I # {}
  <2>1. First(I) = Min(I)
    BY <1>4 DEF First
  <2>2. Min(I) \in 1 .. n
    BY <1>2, <1>4
  <2> QED
    BY <1>2, <1>4, <2>1, <2>2
<1> QED
  BY <1>3, <1>4

LEMMA FreeFound ==
    ASSUME NEW rs \in Seq(Regions), NEW size \in Address
    PROVE  LET v == vmm_find_free_region(rs, size) IN
           /\ v \in Address
           /\ v # 0 => \E i \in DOMAIN rs :
                  /\ rs[i].flags = FREE /\ v = align_up(rs[i].start)
                  /\ v + align_up(size) <= rs[i].end
<1> DEFINE Fits(r) == r.flags = FREE /\ align_up(r.start) + align_up(size) <= r.end
           I == {j \in 1 .. Len(rs) : Fits(rs[j])}
           i == First(I)
<1>1. vmm_find_free_region(rs, size) = IF i = 0 THEN NULL ELSE align_up(rs[i].start)
  BY DEF vmm_find_free_region, SelectInSeq, First
<1>2. Len(rs) \in Nat /\ I \in SUBSET (1 .. Len(rs))
  BY SeqFacts
<1> HIDE DEF I, i
<1>3. i \in 0 .. Len(rs) /\ (i # 0 => i \in I)
  BY <1>2, FirstFacts DEF i
<1>4. i # 0 => i \in DOMAIN rs /\ rs[i] \in Regions /\ Fits(rs[i])
  BY <1>3, SeqFacts DEF I
<1> HIDE DEF Fits
<1>5. i # 0 => align_up(rs[i].start) \in Address
  BY <1>4, Words DEF Regions
<1> QED
  BY <1>1, <1>4, <1>5, Words DEF Fits, NULL

LEMMA RegionFound ==
    ASSUME NEW rs \in Seq(Regions), NEW a
    PROVE  LET i == vmm_find_region(rs, a)
               At(j) == rs[j].start <= a /\ a < rs[j].end
           IN /\ i \in 0 .. Len(rs)
              /\ i = 0 => \A j \in DOMAIN rs : ~At(j)
              /\ i # 0 => i \in DOMAIN rs /\ At(i) /\ \A j \in DOMAIN rs : At(j) => i <= j
<1> DEFINE At(j) == rs[j].start <= a /\ a < rs[j].end
           I == {j \in 1 .. Len(rs) : At(j)}
<1>1. vmm_find_region(rs, a) = First(I)
  BY DEF vmm_find_region, SelectInSeq, First
<1>2. Len(rs) \in Nat /\ I \in SUBSET (1 .. Len(rs)) /\ DOMAIN rs = 1 .. Len(rs)
  BY SeqFacts
<1>3. \A j \in DOMAIN rs : j \in I <=> At(j)
  BY <1>2
<1> HIDE DEF I, At
<1>4. /\ First(I) \in 0 .. Len(rs)
      /\ First(I) = 0 <=> I = {}
      /\ First(I) # 0 => First(I) \in I /\ \A j \in I : First(I) <= j
  BY <1>2, FirstFacts
<1>5. First(I) # 0 => First(I) \in DOMAIN rs
  BY <1>2, <1>4
<1> QED
  BY <1>1, <1>2, <1>3, <1>4, <1>5 DEF At

\* Where vmm_create_region puts a record, and what it leaves of the rest.
LEMMA CreateFacts ==
    ASSUME NEW s \in Works, NEW a \in Address, NEW b \in Address,
           NEW fl \in SUBSET RegionFlags
    PROVE  LET d == vmm_create_region(s, a, b, fl)
               rs == s.regions
           IN \/ d = s /\ a >= b
              \/ d = RanOut(s) /\ s.avail = {} /\ a < b
              \/ /\ a < b /\ s.avail # {}
                 /\ \E at \in 1 .. Len(rs) + 1 :
                        /\ d = [Take(s) EXCEPT !.regions =
                                    InsertAt(rs, at, Region(a, b, fl, Fresh(s)))]
                        /\ at # Len(rs) + 1 => rs[at].start >= a
                        /\ \A j \in 1 .. at - 1 : rs[j].start < a
<1> DEFINE rs == s.regions
           I == {j \in 1 .. Len(rs) : rs[j].start >= a}
           i == First(I)
           at == IF i = 0 THEN Len(rs) + 1 ELSE i
<1>0. rs \in Seq(Regions)
  BY DEF Works
<1> HIDE DEF rs
<1>1. /\ Len(rs) \in Nat /\ I \in SUBSET (1 .. Len(rs)) /\ DOMAIN rs = 1 .. Len(rs)
      /\ \A j \in DOMAIN rs : rs[j].start \in Address
  <2>1. \A j \in DOMAIN rs : rs[j] \in Regions
    BY <1>0, SeqFacts
  <2> QED
    BY <1>0, <2>1, SeqFacts DEF Regions
<1>2. i \in 0 .. Len(rs) /\ (i = 0 <=> I = {}) /\ (i # 0 => i \in I /\ \A j \in I : i <= j)
  <2> DEFINE N == Len(rs)
  <2>1. N \in Nat /\ I \in SUBSET (1 .. N)
    BY <1>1
  <2> HIDE DEF I, N
  <2>2. First(I) \in 0 .. N /\ (First(I) = 0 <=> I = {})
        /\ (First(I) # 0 => First(I) \in I /\ \A j \in I : First(I) <= j)
    BY <2>1, FirstFacts
  <2> QED
    BY <2>2 DEF N
<1>3. SelectInSeq(rs, LAMBDA r : r.start >= a) = i
  BY DEF SelectInSeq, First
<1>4. vmm_create_region(s, a, b, fl) =
         IF a >= b THEN s
         ELSE IF s.avail = {} THEN RanOut(s)
         ELSE [Take(s) EXCEPT !.regions = InsertAt(@, at, Region(a, b, fl, Fresh(s)))]
  BY <1>3 DEF vmm_create_region, rs
<1> HIDE DEF i
<1>5. at \in 1 .. Len(rs) + 1
  BY <1>1, <1>2
<1>6. \A j \in 1 .. at - 1 : rs[j].start < a
  <2> TAKE j \in 1 .. at - 1
  <2>1. j \in 1 .. Len(rs) /\ j \notin I
    BY <1>1, <1>2, <1>5
  <2>2. ~(rs[j].start >= a)
    BY <2>1
  <2> HIDE DEF I, at
  <2>3. rs[j].start \in Nat /\ a \in Nat
    BY <1>1, <2>1, Words
  <2> QED
    BY <2>2, <2>3
<1>7. at # Len(rs) + 1 => rs[at].start >= a
  BY <1>1, <1>2
<1> HIDE DEF I, at
<1>8. a \in Nat /\ b \in Nat
  BY Words
<1>9. ASSUME a < b, s.avail # {}
      PROVE  vmm_create_region(s, a, b, fl) =
                 [Take(s) EXCEPT !.regions = InsertAt(rs, at, Region(a, b, fl, Fresh(s)))]
  <2>1. Take(s).regions = rs /\ Take(s) \in Works
    BY <1>9, TakeType DEF rs
  <2>2. ~(a >= b)
    BY <1>8, <1>9
  <2> QED
    BY <1>4, <1>9, <2>1, <2>2 DEF Works
<1>10. CASE a >= b
  BY <1>4, <1>10
<1>11. CASE a < b /\ s.avail = {}
  BY <1>4, <1>8, <1>11
<1>12. CASE a < b /\ s.avail # {}
  BY <1>5, <1>6, <1>7, <1>9, <1>12 DEF rs
<1> QED
  BY <1>8, <1>10, <1>11, <1>12

\* A call at work that changed the list of regions, and nothing that is mapped.
Listed(s, d) == /\ d \in Works /\ d.fate = s.fate /\ d.avail \subseteq s.avail
                /\ d.count = s.count

LEMMA CreateType ==
    ASSUME NEW s \in Works, NEW a \in Address, NEW b \in Address,
           NEW fl \in SUBSET RegionFlags
    PROVE  Listed(s, vmm_create_region(s, a, b, fl))
<1> DEFINE rs == s.regions
           d == vmm_create_region(s, a, b, fl)
<1>1. CASE d = s \/ d = RanOut(s)
  BY <1>1, RanOutType DEF Listed
<1>2. ASSUME s.avail # {}, NEW at \in 1 .. Len(rs) + 1,
             d = [Take(s) EXCEPT !.regions = InsertAt(rs, at, Region(a, b, fl, Fresh(s)))]
      PROVE  Listed(s, d)
  <2>1. Region(a, b, fl, Fresh(s)) \in Regions
    BY <1>2, FreshIn DEF Region, Regions
  <2>2. rs \in Seq(Regions)
    BY DEF Works
  <2> HIDE DEF rs
  <2>3. InsertAt(rs, at, Region(a, b, fl, Fresh(s))) \in Seq(Regions)
    BY <2>1, <2>2, InsertFacts
  <2> DEFINE q == InsertAt(rs, at, Region(a, b, fl, Fresh(s)))
             t == Take(s)
  <2>4. t \in Works /\ t.fate = s.fate /\ t.count = s.count /\ t.avail \subseteq s.avail
    BY <1>2, TakeType
  <2>5. d = [t EXCEPT !.regions = q]
    BY <1>2
  <2> HIDE DEF q, t, d
  <2> QED
    BY <2>3, <2>4, <2>5 DEF Listed, Works, q
<1> QED
  BY <1>1, <1>2, CreateFacts

LEMMA EditType ==
    ASSUME NEW q \in Seq(Regions), NEW j, NEW v \in Address, NEW fl \in SUBSET RegionFlags
    PROVE  /\ [q EXCEPT ![j].start = v] \in Seq(Regions)
           /\ [q EXCEPT ![j].end = v] \in Seq(Regions)
           /\ [q EXCEPT ![j].flags = fl] \in Seq(Regions)
<1>1. Len(q) \in Nat /\ q \in [1 .. Len(q) -> Regions]
  BY SeqFacts
<1>2. \A r \in Regions : /\ [r EXCEPT !.start = v] \in Regions
                         /\ [r EXCEPT !.end = v] \in Regions
                         /\ [r EXCEPT !.flags = fl] \in Regions
  BY DEF Regions
<1>3. /\ [q EXCEPT ![j].start = v] \in [1 .. Len(q) -> Regions]
      /\ [q EXCEPT ![j].end = v] \in [1 .. Len(q) -> Regions]
      /\ [q EXCEPT ![j].flags = fl] \in [1 .. Len(q) -> Regions]
  BY <1>1, <1>2
<1>4. \A x \in [1 .. Len(q) -> Regions] : x \in Seq(Regions)
  BY <1>1
<1> QED
  BY <1>3, <1>4

\* The region that Occupy cuts.
Holder(rs, a) ==
    First({j \in 1 .. Len(rs) : rs[j].flags = FREE /\ rs[j].start <= a /\ a < rs[j].end})

LEMMA HolderFacts ==
    ASSUME NEW rs \in Seq(Regions), NEW a
    PROVE  LET At(j) == rs[j].flags = FREE /\ rs[j].start <= a /\ a < rs[j].end
           IN /\ Holder(rs, a) = 0 => \A j \in DOMAIN rs : ~At(j)
              /\ Holder(rs, a) # 0 => /\ Holder(rs, a) \in DOMAIN rs /\ At(Holder(rs, a))
                                      /\ \A j \in DOMAIN rs : At(j) => Holder(rs, a) <= j
<1> DEFINE At(j) == rs[j].flags = FREE /\ rs[j].start <= a /\ a < rs[j].end
           I == {j \in 1 .. Len(rs) : At(j)}
<1>1. Holder(rs, a) = First(I)
  BY DEF Holder
<1>2. Len(rs) \in Nat /\ I \in SUBSET (1 .. Len(rs)) /\ DOMAIN rs = 1 .. Len(rs)
  BY SeqFacts
<1>3. \A j \in DOMAIN rs : j \in I <=> At(j)
  BY <1>2
<1> HIDE DEF I, At
<1>4. /\ First(I) \in 0 .. Len(rs)
      /\ First(I) = 0 <=> I = {}
      /\ First(I) # 0 => First(I) \in I /\ \A j \in I : First(I) <= j
  BY <1>2, FirstFacts
<1>5. First(I) # 0 => First(I) \in DOMAIN rs
  BY <1>2, <1>4
<1> QED
  BY <1>1, <1>2, <1>3, <1>4, <1>5 DEF At

LEMMA OccupyCases ==
    ASSUME NEW s, NEW a, NEW b, NEW fl
    PROVE  LET i == Holder(s.regions, a)
               r == s.regions[i]
               cut == [s EXCEPT !.regions[i].end = a]
               front == vmm_create_region(s, a, b, fl)
           IN Occupy(s, a, b, fl) =
                CASE i = 0 -> s
                  [] i # 0 /\ r.start = a /\ r.end = b -> [s EXCEPT !.regions[i].flags = fl]
                  [] i # 0 /\ r.start = a /\ r.end # b ->
                        IF front.regions = s.regions THEN front
                        ELSE [front EXCEPT !.regions[i + 1].start = b]
                  [] i # 0 /\ r.start # a /\ r.end = b -> vmm_create_region(cut, a, b, fl)
                  [] OTHER -> vmm_create_region(vmm_create_region(cut, a, b, fl), b, r.end, FREE)
<1>1. SelectInSeq(s.regions, LAMBDA r : r.flags = FREE /\ r.start <= a /\ a < r.end)
        = Holder(s.regions, a)
  BY DEF SelectInSeq, Holder, First
<1> QED
  BY <1>1 DEF Occupy

LEMMA SetRegions ==
    ASSUME NEW s \in Works, NEW q \in Seq(Regions)
    PROVE  Listed(s, [s EXCEPT !.regions = q])
BY DEF Works, Listed

LEMMA ListedTrans ==
    ASSUME NEW s, NEW d, NEW c, Listed(s, d), Listed(d, c)
    PROVE  Listed(s, c)
BY DEF Listed

LEMMA OccupyType ==
    ASSUME NEW s \in Works, NEW a \in Address, NEW b \in Address,
           NEW fl \in SUBSET RegionFlags
    PROVE  Listed(s, Occupy(s, a, b, fl))
<1> DEFINE rs == s.regions
           i == Holder(rs, a)
           r == rs[i]
           cut == [s EXCEPT !.regions[i].end = a]
           whole == [s EXCEPT !.regions[i].flags = fl]
           front == vmm_create_region(s, a, b, fl)
           start == [front EXCEPT !.regions[i + 1].start = b]
           back == vmm_create_region(cut, a, b, fl)
           rest == vmm_create_region(back, b, r.end, FREE)
<1>0. rs \in Seq(Regions) /\ Listed(s, s)
  BY DEF Works, Listed
<1>1. Listed(s, cut) /\ Listed(s, whole)
  <2>1. [rs EXCEPT ![i].end = a] \in Seq(Regions) /\ [rs EXCEPT ![i].flags = fl] \in Seq(Regions)
    BY <1>0, EditType
  <2>2. /\ cut = [s EXCEPT !.regions = [rs EXCEPT ![i].end = a]]
        /\ whole = [s EXCEPT !.regions = [rs EXCEPT ![i].flags = fl]]
    BY DEF Works
  <2> HIDE DEF i
  <2> QED
    BY <2>1, <2>2, SetRegions
<1>2. Listed(s, front)
  BY CreateType
<1>3. Listed(s, start)
  <2> HIDE DEF front
  <2>1. front \in Works /\ front.regions \in Seq(Regions)
    BY <1>2 DEF Listed, Works
  <2>2. [front.regions EXCEPT ![i + 1].start = b] \in Seq(Regions)
    BY <2>1, EditType
  <2>3. start = [front EXCEPT !.regions = [front.regions EXCEPT ![i + 1].start = b]]
    BY <2>1 DEF Works
  <2>4. Listed(front, start)
    BY <2>1, <2>2, <2>3, SetRegions
  <2> QED
    BY <1>2, <2>4, ListedTrans
<1>4. Listed(s, back)
  <2>1. cut \in Works
    BY <1>1 DEF Listed
  <2> HIDE DEF cut
  <2>2. Listed(cut, back)
    BY <2>1, CreateType
  <2> QED
    BY <1>1, <2>2, ListedTrans
<1>5. i # 0 => Listed(s, rest)
  <2>1. i # 0 => r.end \in Address
    <3>1. i # 0 => i \in DOMAIN rs
      BY <1>0, HolderFacts
    <3> HIDE DEF rs, i
    <3>2. i # 0 => r \in Regions
      BY <1>0, <3>1, SeqFacts
    <3> QED
      BY <3>2 DEF Regions
  <2>2. back \in Works /\ FREE \in SUBSET RegionFlags
    BY <1>4 DEF Listed, FREE
  <2> HIDE DEF back
  <2>3. i # 0 => Listed(back, rest)
    BY <2>1, <2>2, CreateType
  <2> QED
    BY <1>4, <2>3, ListedTrans
<1>6. Occupy(s, a, b, fl) =
        CASE i = 0 -> s
          [] i # 0 /\ r.start = a /\ r.end = b -> whole
          [] i # 0 /\ r.start = a /\ r.end # b -> IF front.regions = s.regions THEN front ELSE start
          [] i # 0 /\ r.start # a /\ r.end = b -> back
          [] OTHER -> rest
  BY OccupyCases
<1> HIDE DEF i, r, cut, whole, front, start, back, rest
<1> QED
  BY <1>0, <1>1, <1>2, <1>3, <1>4, <1>5, <1>6

\* Without a region that holds the address there is nothing to occupy.
LEMMA OccupyNothing ==
    ASSUME NEW s \in Works, NEW a, NEW b, NEW fl,
           vmm_find_region(s.regions, a) = 0
    PROVE  Occupy(s, a, b, fl) = s
<1> DEFINE rs == s.regions
<1>1. rs \in Seq(Regions)
  BY DEF Works
<1> HIDE DEF rs
<1>2. \A j \in DOMAIN rs : ~(rs[j].start <= a /\ a < rs[j].end)
  BY <1>1, RegionFound DEF rs
<1>3. Holder(rs, a) = 0
  BY <1>1, <1>2, HolderFacts
<1> QED
  BY <1>3, OccupyCases DEF rs

LEMMA SameLength ==
    ASSUME NEW S, NEW q \in Seq(S), NEW e \in Seq(S), DOMAIN e = DOMAIN q
    PROVE  Len(e) = Len(q)
<1> DEFINE m == Len(q)
           n == Len(e)
<1>1. m \in Nat /\ n \in Nat /\ DOMAIN q = 1 .. m /\ DOMAIN e = 1 .. n
  BY SeqFacts
<1> HIDE DEF m, n
<1>2. \A k : k \in 1 .. m <=> k \in 1 .. n
  BY <1>1
<1>3. m <= n
  <2>1. m # 0 => m \in 1 .. m
    BY <1>1
  <2> QED
    BY <1>1, <1>2, <2>1
<1>4. n <= m
  <2>1. n # 0 => n \in 1 .. n
    BY <1>1
  <2> QED
    BY <1>1, <1>2, <2>1
<1> QED
  BY <1>1, <1>3, <1>4 DEF m, n

LEMMA AbsorbType ==
    ASSUME NEW s \in Works, NEW i \in Nat, i \in DOMAIN s.regions, i + 1 \in DOMAIN s.regions
    PROVE  LET d == Absorb(s, i)
               q == RemoveAt([s.regions EXCEPT ![i].end = s.regions[i + 1].end], i + 1)
           IN /\ d.ran = s.ran /\ (d.fate = "runs" => s.fate = "runs")
              /\ d = [FreeFrame(s, s.regions[i + 1].at) EXCEPT !.regions = q]
              /\ q \in Seq(Regions) /\ d.regions = q /\ d \in Works /\ Len(q) = Len(s.regions) - 1
<1> DEFINE rs == s.regions
           e == [rs EXCEPT ![i].end = rs[i + 1].end]
           q == RemoveAt(e, i + 1)
           f == FreeFrame(s, rs[i + 1].at)
           d == Absorb(s, i)
<1>1. rs \in Seq(Regions)
  BY DEF Works
<1>2. rs[i + 1] \in Regions /\ Len(rs) \in Nat /\ i + 1 \in 1 .. Len(rs)
  BY <1>1, SeqFacts
<1>3. e \in Seq(Regions) /\ Len(e) = Len(rs)
  <2>1. rs[i + 1].end \in Address
    BY <1>2 DEF Regions
  <2>2. DOMAIN e = DOMAIN rs
    OBVIOUS
  <2>3. {} \in SUBSET RegionFlags
    OBVIOUS
  <2>4. e \in Seq(Regions)
    BY <1>1, <2>1, <2>3, EditType
  <2> HIDE DEF e
  <2> QED
    BY <1>1, <2>2, <2>4, SameLength
<1>4. q \in Seq(Regions) /\ Len(q) = Len(rs) - 1
  <2> HIDE DEF e
  <2> QED
    BY <1>2, <1>3, RemoveFacts
<1>5. f \in Works /\ f.regions = rs /\ f.ran = s.ran /\ (f.fate = "runs" => s.fate = "runs")
  <2>1. rs[i + 1].at \in Memory
    BY <1>2, Places DEF Regions
  <2> QED
    BY <2>1, FreeFrameType
<1>6. d = [f EXCEPT !.regions = q]
  <2>1. d = [f EXCEPT !.regions = RemoveAt([@ EXCEPT ![i].end = rs[i + 1].end], i + 1)]
    BY DEF Absorb
  <2> HIDE DEF f
  <2> QED
    BY <1>5, <2>1 DEF Works
<1> HIDE DEF f, q, d
<1>7. d \in Works /\ d.regions = q /\ d.ran = s.ran /\ (d.fate = "runs" => s.fate = "runs")
  BY <1>4, <1>5, <1>6 DEF Works
<1> QED
  BY <1>4, <1>6, <1>7 DEF f, q, d

LEMMA DropsType ==
    ASSUME NEW s \in Works, NEW p \in Memory, NEW a \in Address,
           NEW n \in Nat
    PROVE  LET x == DropPages(s, p, a, n) IN
           x \in Works /\ x.regions = s.regions /\ (x.fate = "runs" => s.fate = "runs")
<1> DEFINE W == {x \in Works : x.regions = s.regions /\ (x.fate = "runs" => s.fate = "runs")}
<1>1. s \in W
  OBVIOUS
<1>2. ASSUME NEW x \in Works, NEW k \in 0 .. n - 1, x \in W
      PROVE  Drop(x, p, PageOf(a, k)) \in W
  <2>1. k \in Nat
    OBVIOUS
  <2>2. PageOf(a, k) \in Nat
    BY <2>1, Words
  <2> QED
    BY <1>2, <2>2, DropType
<1> HIDE DEF W
<1>3. DropPages(s, p, a, n) \in W
  BY <1>1, <1>2, DropLoop
<1> QED
  BY <1>3 DEF W

LEMMA BackType ==
    ASSUME NEW s \in Works, NEW p \in Memory, NEW a \in Address,
           NEW fl \in SUBSET Rights, NEW n \in Nat
    PROVE  LET x == Back(s, p, a, n, fl) IN
           x \in Works /\ x.regions = s.regions /\ x.fate = s.fate /\ x.avail \subseteq s.avail
<1> DEFINE W == {x \in Works : x.regions = s.regions /\ x.fate = s.fate /\ x.avail \subseteq s.avail}
<1>1. s \in W
  OBVIOUS
<1>2. ASSUME NEW x \in Works, NEW k \in 0 .. n - 1, x \in W
      PROVE  BackPage(x, p, PageOf(a, k), fl) \in W
  <2>1. k \in Nat
    OBVIOUS
  <2>2. PageOf(a, k) \in Nat
    BY <2>1, Words
  <2> QED
    BY <1>2, <2>2, BackPageType
<1> HIDE DEF W
<1>3. Back(s, p, a, n, fl) \in W
  BY <1>1, <1>2, BackLoop
<1> QED
  BY <1>3 DEF W

LEMMA UnmapsType ==
    ASSUME NEW s \in Works, NEW p \in Memory, NEW a \in Address,
           NEW n \in Nat
    PROVE  LET x == UnmapEach(s, p, a, n) IN
           x \in Works /\ x.regions = s.regions /\ x.fate = s.fate
<1> DEFINE W == {x \in Works : x.regions = s.regions /\ x.fate = s.fate}
<1>1. s \in W
  OBVIOUS
<1>2. ASSUME NEW x \in Works, NEW k \in 0 .. n - 1, x \in W
      PROVE  Unmap(x, p, PageOf(a, k)) \in W
  <2>1. k \in Nat
    OBVIOUS
  <2>2. PageOf(a, k) \in Nat
    BY <2>1, Words
  <2> QED
    BY <1>2, <2>2, UnmapType
<1> HIDE DEF W
<1>3. UnmapEach(s, p, a, n) \in W
  BY <1>1, <1>2, UnmapLoop
<1> QED
  BY <1>3 DEF W

LEMMA ReprotectsType ==
    ASSUME NEW s \in Works, NEW p \in Memory, NEW a \in Address,
           NEW fl \in SUBSET Rights, NEW n \in Nat
    PROVE  LET x == ReprotectEach(s, p, a, n, fl) IN
           x \in Works /\ x.regions = s.regions /\ x.fate = s.fate
<1> DEFINE W == {x \in Works : x.regions = s.regions /\ x.fate = s.fate}
<1>1. s \in W
  OBVIOUS
<1>2. ASSUME NEW x \in Works, NEW k \in 0 .. n - 1, x \in W
      PROVE  Reprotect(x, p, PageOf(a, k), fl) \in W
  <2>1. k \in Nat
    OBVIOUS
  <2>2. PageOf(a, k) \in Nat
    BY <2>1, Words
  <2> QED
    BY <1>2, <2>2, ReprotectType
<1> HIDE DEF W
<1>3. ReprotectEach(s, p, a, n, fl) \in W
  BY <1>1, <1>2, ReprotectLoop
<1> QED
  BY <1>3 DEF W

LEMMA RecordsType ==
    ASSUME NEW s \in Works, NEW rs \in Seq(Regions)
    PROVE  LET x == FreeRecords(s, rs) IN
           x \in Works /\ x.regions = s.regions /\ (x.fate = "runs" => s.fate = "runs")
<1> DEFINE W == {x \in Works : x.regions = s.regions /\ (x.fate = "runs" => s.fate = "runs")}
<1>1. s \in W
  OBVIOUS
<1>2. ASSUME NEW x \in Works, NEW k \in 0 .. Len(rs) - 1, x \in W
      PROVE  FreeFrame(x, rs[k + 1].at) \in W
  <2>1. k + 1 \in DOMAIN rs
    BY SeqFacts
  <2>2. rs[k + 1] \in Regions
    BY <2>1, SeqFacts
  <2>3. rs[k + 1].at \in Memory
    BY <2>2, Places DEF Regions
  <2> QED
    BY <1>2, <2>3, FreeFrameType
<1> HIDE DEF W
<1>3. FreeRecords(s, rs) \in W
  BY <1>1, <1>2, RecordsLoop
<1> QED
  BY <1>3 DEF W

LEMMA CopyType ==
    ASSUME NEW s \in Works, NEW from \in Memory, NEW to \in Memory
    PROVE  LET x == CopyTables(s, from, to) IN
           x \in Works /\ x.regions = s.regions /\ x.fate = s.fate
<1> DEFINE W == {x \in Works : x.regions = s.regions /\ x.fate = s.fate}
<1>1. s \in W
  OBVIOUS
<1>2. ASSUME NEW x \in Works, NEW k \in 0 .. HALF - 1, x \in W
      PROVE  CopyTable(x, from, to, k) \in W
  <2>1. k \in Entry
    BY Geometry DEF Entry
  <2> QED
    BY <1>2, <2>1, CopyTableType
<1> HIDE DEF W
<1>3. CopyTables(s, from, to) \in W
  BY <1>1, <1>2, CopyLoop
<1> QED
  BY <1>3 DEF W

LEMMA DestroyedType ==
    ASSUME NEW s \in Works, NEW as \in Memory, NEW space, space.pml4 \in Memory,
           space.regions \in Seq(Regions)
    PROVE  /\ Destroyed(s, as, space) \in Works
           /\ Destroyed(s, as, space).fate = "runs" => s.fate = "runs"
<1> DEFINE c == Entries3(s, space.pml4, HALF)
           d == FreeFrame(c, space.pml4)
           e == FreeRecords(d, space.regions)
<1>1. Destroyed(s, as, space) = FreeFrame(e, as)
  BY DEF Destroyed, Entries3
<1>2. HALF \in 0 .. ENTRIES
  BY Geometry
<1>3. c \in Works /\ (c.fate = "runs" => s.fate = "runs")
  BY <1>2, Entries3Type DEF Gone
<1> HIDE DEF c
<1>4. d \in Works /\ (d.fate = "runs" => s.fate = "runs")
  BY <1>3, FreeFrameType
<1> HIDE DEF d
<1>5. e \in Works /\ (e.fate = "runs" => s.fate = "runs")
  BY <1>4, RecordsType
<1> HIDE DEF e
<1>6. FreeFrame(e, as) \in Works /\ (FreeFrame(e, as).fate = "runs" => e.fate = "runs")
  BY <1>5, FreeFrameType
<1> QED
  BY <1>1, <1>5, <1>6

LEMMA SetFlags ==
    ASSUME NEW s \in Works, NEW i, NEW fl \in SUBSET RegionFlags
    PROVE  LET d == [s EXCEPT !.regions[i].flags = fl] IN
           /\ d \in Works /\ d.mem = s.mem /\ d.avail = s.avail /\ d.fate = s.fate
           /\ d.ran = s.ran /\ d.count = s.count
           /\ d.regions = [s.regions EXCEPT ![i].flags = fl]
<1> DEFINE q == [s.regions EXCEPT ![i].flags = fl]
<1>1. q \in Seq(Regions)
  <2>1. s.regions \in Seq(Regions) /\ 0 \in Address
    BY Words DEF Works
  <2> QED
    BY <2>1, EditType
<1>2. [s EXCEPT !.regions[i].flags = fl] = [s EXCEPT !.regions = q]
  BY DEF Works
<1> HIDE DEF q
<1>3. [s EXCEPT !.regions = q].regions = q
  BY DEF Works
<1> QED
  BY <1>1, <1>2, <1>3 DEF Works, q

LEMMA ReleaseType ==
    ASSUME NEW s \in Works, NEW i \in Nat, i \in DOMAIN s.regions
    PROVE  /\ Release(s, i) \in Works
           /\ Release(s, i).fate = "runs" => s.fate = "runs"
<1> DEFINE f == [s EXCEPT !.regions[i].flags = FREE]
           left == i > 1 /\ f.regions[i - 1].flags = FREE
           g == Absorb(f, i - 1)
           m == IF left THEN g ELSE f
           j == IF left THEN i - 1 ELSE i
           right == j < Len(m.regions) /\ m.regions[j + 1].flags = FREE
<1>1. Release(s, i) = IF right THEN Absorb(m, j) ELSE m
  BY DEF Release
<1>2. f \in Works /\ f.fate = s.fate /\ DOMAIN f.regions = DOMAIN s.regions
  <2>1. FREE \in SUBSET RegionFlags
    BY DEF FREE
  <2> HIDE DEF f
  <2>2. f \in Works /\ f.fate = s.fate /\ f.regions = [s.regions EXCEPT ![i].flags = FREE]
    BY <2>1, SetFlags DEF f
  <2> QED
    BY <2>2
<1> HIDE DEF f
<1>3. f.regions \in Seq(Regions) /\ DOMAIN f.regions = 1 .. Len(f.regions) /\ Len(f.regions) \in Nat
      /\ i \in 1 .. Len(f.regions)
  <2>1. f.regions \in Seq(Regions)
    BY <1>2 DEF Works
  <2> QED
    BY <1>2, <2>1, SeqFacts
<1>4. left => /\ g \in Works /\ (g.fate = "runs" => s.fate = "runs")
              /\ g.regions \in Seq(Regions) /\ Len(g.regions) = Len(f.regions) - 1
  <2>1. left => i - 1 \in Nat /\ i - 1 \in DOMAIN f.regions /\ (i - 1) + 1 \in DOMAIN f.regions
    BY <1>3
  <2> HIDE DEF left
  <2> QED
    BY <1>2, <2>1, AbsorbType
<1>5. m \in Works /\ (m.fate = "runs" => s.fate = "runs") /\ m.regions \in Seq(Regions)
      /\ j \in 1 .. Len(m.regions)
  <2>1. CASE left
    <3>1. m = g /\ j = i - 1 /\ i > 1
      BY <2>1
    <3> HIDE DEF m, j, left, g
    <3> QED
      BY <2>1, <1>3, <1>4, <3>1
  <2>2. CASE ~left
    <3>1. m = f /\ j = i
      BY <2>2
    <3> HIDE DEF m, j, left, g
    <3> QED
      BY <2>2, <1>2, <1>3, <3>1
  <2> QED
    BY <2>1, <2>2
<1> HIDE DEF m, j, left, g
<1>6. right => Absorb(m, j) \in Works /\ (Absorb(m, j).fate = "runs" => s.fate = "runs")
  <2>1. right => j \in Nat /\ j \in DOMAIN m.regions /\ j + 1 \in DOMAIN m.regions
    BY <1>5, SeqFacts
  <2> HIDE DEF right
  <2> QED
    BY <1>5, <2>1, AbsorbType
<1> QED
  BY <1>1, <1>5, <1>6

-----------------------------------------------------------------------------
(* Every variable has a value of its kind *)

Typed(as, space) ==
    /\ space \in Spaces /\ space.heap_start <= space.heap_end
    /\ space.pml4 = KernelPml4 <=> as = Kernel
AllTyped(sp) ==
    /\ Kernel \in DOMAIN sp /\ DOMAIN sp \subseteq Frames \cup {Kernel}
    /\ sp = [q \in DOMAIN sp |-> sp[q]]
    /\ \A as \in DOMAIN sp : Typed(as, sp[as])

LEMMA TypeParts ==
    TypeOK <=> /\ mem \in Mem /\ avail \subseteq Frames /\ AllTyped(spaces)
               /\ fate \in Fates /\ ops \in 0 .. mix.max /\ mix \in Mixes
BY DEF TypeOK, Mem, Entry, Fates, AllTyped, Typed

LEMMA TypePartsNext ==
    TypeOK' <=> /\ mem' \in Mem /\ avail' \subseteq Frames /\ AllTyped(spaces')
                /\ fate' \in Fates /\ ops' \in 0 .. mix'.max /\ mix' \in Mixes
BY DEF TypeOK, Mem, Entry, Fates, AllTyped, Typed

LEMMA IdleType ==
    ASSUME TypeOK
    PROVE  /\ Idle \in Works /\ Idle.mem = mem /\ Idle.avail = avail /\ Idle.regions = <<>>
           /\ Idle.fate = "runs" /\ Idle.ran = FALSE /\ Idle.count = 0
BY TypeParts DEF Idle, Works, Fates

LEMMA TypedFacts ==
    ASSUME TypeOK, NEW as \in DOMAIN spaces
    PROVE  LET sp == spaces[as] IN
           /\ as \in Memory /\ Typed(as, sp) /\ sp.pml4 \in Memory
           /\ sp.regions \in Seq(Regions)
           /\ sp.heap_start \in Address /\ sp.heap_end \in Address
           /\ sp.stack_start \in Address /\ sp.stack_end \in Address
<1>1. Typed(as, spaces[as]) /\ as \in Frames \cup {Kernel}
  BY TypeParts DEF AllTyped
<1> QED
  BY <1>1, Places DEF Typed, Spaces

LEMMA StartType ==
    ASSUME TypeOK, NEW as \in DOMAIN spaces
    PROVE  /\ Start(as) \in Works /\ Start(as).mem = mem /\ Start(as).avail = avail
           /\ Start(as).regions = spaces[as].regions
           /\ Start(as).fate = "runs" /\ Start(as).ran = FALSE /\ Start(as).count = 0
<1>1. spaces[as].regions \in Seq(Regions)
  BY TypedFacts
<1> QED
  BY <1>1, IdleType DEF Start, Works

LEMMA WithType ==
    ASSUME AllTyped(spaces), NEW as \in Frames \cup {Kernel}, NEW space, Typed(as, space)
    PROVE  AllTyped(With(as, space))
<1>1. DOMAIN With(as, space) = DOMAIN spaces \cup {as}
  BY DEF With
<1>2. \A q \in DOMAIN With(as, space) : With(as, space)[q] = IF q = as THEN space ELSE spaces[q]
  BY DEF With
<1>3. With(as, space) = [q \in DOMAIN With(as, space) |-> With(as, space)[q]]
  BY DEF With
<1> QED
  BY <1>1, <1>2, <1>3 DEF AllTyped

LEMMA CommitType ==
    ASSUME TypeOK, NEW s \in Works, NEW sp, AllTyped(sp), NEW op, NEW as, NEW ok, NEW a, NEW n,
           Commit(s, sp, op, as, ok, a, n)
    PROVE  TypeOK'
<1>1. mem \in Mem /\ avail \subseteq Frames /\ AllTyped(spaces)
      /\ ops \in 0 .. mix.max /\ mix \in Mixes
  BY TypeParts
<1>2. s.mem \in Mem /\ s.avail \subseteq Frames /\ s.fate \in Fates
  BY DEF Works
<1>3. mem' \in Mem /\ avail' \subseteq Frames /\ AllTyped(spaces') /\ fate' \in Fates
  <2>1. /\ fate' = s.fate
        /\ \/ mem' = s.mem /\ avail' = s.avail /\ spaces' = sp
           \/ mem' = mem /\ avail' = avail /\ spaces' = spaces
    BY DEF Commit
  <2> QED
    BY <1>1, <1>2, <2>1
<1>4. ops' \in 0 .. mix'.max /\ mix' \in Mixes
  <2>1. ops < mix.max /\ ops' = ops + 1 /\ mix' = mix
    BY DEF Commit
  <2>2. mix.max \in Nat
    BY <1>1, CallsAssumption
  <2> QED
    BY <1>1, <2>1, <2>2
<1> QED
  BY <1>3, <1>4, TypePartsNext

\* What the end of a call makes of the space that it was for.
Ended(s, space, ok) ==
    [space EXCEPT !.regions = s.regions, !.short = @ \/ (ok /\ s.ran)]

LEMMA EndedType ==
    ASSUME NEW s \in Works, NEW as, NEW space, NEW ok \in BOOLEAN, Typed(as, space)
    PROVE  /\ Typed(as, Ended(s, space, ok))
           /\ Ended(s, space, ok).regions = s.regions
           /\ Ended(s, space, ok).pml4 = space.pml4
           /\ Ended(s, space, ok).plain = space.plain
           /\ Ended(s, space, ok).short = (space.short \/ (ok /\ s.ran))
<1>1. space.short \/ (ok /\ s.ran) \in BOOLEAN
  OBVIOUS
<1> QED
  BY <1>1 DEF Typed, Spaces, Ended, Works

LEMMA WithinType ==
    ASSUME TypeOK, NEW as \in DOMAIN spaces, NEW s \in Works, NEW space, Typed(as, space),
           NEW op, NEW ok \in BOOLEAN, NEW a, NEW n, Within(op, as, s, space, ok, a, n)
    PROVE  TypeOK'
<1>1. AllTyped(spaces) /\ as \in Frames \cup {Kernel}
  BY TypeParts DEF AllTyped
<1>2. Commit(s, With(as, Ended(s, space, ok)), op, as, ok, a, n)
  BY DEF Within, Ended
<1>3. AllTyped(With(as, Ended(s, space, ok)))
  BY <1>1, EndedType, WithType
<1> QED
  BY <1>2, <1>3, CommitType

LEMMA RefusedType ==
    ASSUME TypeOK, NEW as \in DOMAIN spaces, NEW op, Refused(op, as)
    PROVE  TypeOK'
BY StartType, TypedFacts, WithinType DEF Refused

\* The ghost that says for what a space is used.
LEMMA PlainType ==
    ASSUME TypeOK, NEW as \in DOMAIN spaces
    PROVE  /\ Typed(as, Mixed(as)) /\ Mixed(as).regions = spaces[as].regions
           /\ Mixed(as).pml4 = spaces[as].pml4 /\ ~Mixed(as).plain
           /\ Mixed(as).short = spaces[as].short
           /\ \A a, n : /\ Typed(as, OfWhole(as, a, n))
                        /\ OfWhole(as, a, n).pml4 = spaces[as].pml4
                        /\ OfWhole(as, a, n).short = spaces[as].short
                        /\ OfWhole(as, a, n).plain <=> spaces[as].plain /\ Whole(as, a, n)
<1> DEFINE Set(b) == [spaces[as] EXCEPT !.plain = b]
<1>1. Typed(as, spaces[as])
  BY TypedFacts
<1>2. ASSUME NEW b \in BOOLEAN
      PROVE  /\ Typed(as, Set(b)) /\ Set(b).regions = spaces[as].regions
             /\ Set(b).pml4 = spaces[as].pml4
             /\ (Set(b).plain <=> b) /\ Set(b).short = spaces[as].short
  BY <1>1 DEF Typed, Spaces
<1>3. Mixed(as) = Set(FALSE)
  BY DEF Mixed
<1>4. \A a, n : OfWhole(as, a, n) = Set(spaces[as].plain /\ Whole(as, a, n))
  BY DEF OfWhole
<1> HIDE DEF Set
<1>5. \A a, n :
          /\ Typed(as, OfWhole(as, a, n))
          /\ OfWhole(as, a, n).pml4 = spaces[as].pml4
          /\ OfWhole(as, a, n).short = spaces[as].short
          /\ OfWhole(as, a, n).plain <=> spaces[as].plain /\ Whole(as, a, n)
  <2> TAKE a, n
  <2> DEFINE b == spaces[as].plain /\ Whole(as, a, n)
  <2>1. b \in BOOLEAN /\ OfWhole(as, a, n) = Set(b)
    BY <1>4
  <2>2. b <=> spaces[as].plain /\ Whole(as, a, n)
    OBVIOUS
  <2> HIDE DEF b
  <2> QED
    BY <1>2, <2>1, <2>2
<1>6. FALSE \in BOOLEAN
  OBVIOUS
<1>7. Typed(as, Set(FALSE)) /\ Set(FALSE).regions = spaces[as].regions
      /\ Set(FALSE).pml4 = spaces[as].pml4
      /\ ~Set(FALSE).plain /\ Set(FALSE).short = spaces[as].short
  BY <1>2, <1>6
<1>8. Typed(as, Mixed(as)) /\ Mixed(as).regions = spaces[as].regions
      /\ Mixed(as).pml4 = spaces[as].pml4
      /\ ~Mixed(as).plain /\ Mixed(as).short = spaces[as].short
  BY <1>3, <1>7
<1> QED
  BY <1>5, <1>8

LEMMA UserAddress ==
    /\ USER_SPACE_START \in Address /\ USER_SPACE_END \in Address
    /\ KERNEL_HEAP_START \in Address
    /\ 1 <= USER_SPACE_START /\ USER_SPACE_START < USER_SPACE_END
    /\ USER_SPACE_START % PAGE = 0
<1> DEFINE pages == ENTRIES * (ENTRIES * ENTRIES)
           bytes == PAGE * SpacePages
<1>1. ENTRIES \in Nat /\ PAGE \in Nat /\ HALF \in Nat /\ ENTRIES * ENTRIES \in Nat
  BY Geometry
<1>2. SpacePages \in Nat
  <2> DEFINE q == ENTRIES * ENTRIES
  <2> HIDE DEF q
  <2> QED
    BY <1>1 DEF SpacePages, q
<1>3. bytes \in Nat /\ WORD \in Nat /\ bytes < WORD
  BY <1>1, <1>2, GeometryAssumption
<1>4. USER_SPACE_END \in Int
  <2> DEFINE q == PAGE * (ENTRIES * ENTRIES)
  <2>1. q \in Nat
    <3> DEFINE z == ENTRIES * ENTRIES
    <3> HIDE DEF z
    <3> QED
      BY <1>1 DEF z
  <2> HIDE DEF q
  <2>2. HALF * q - 1 \in Int
    BY <1>1, <2>1
  <2> QED
    BY <2>2, GeometryAssumption DEF q
<1> HIDE DEF bytes
<1>5. KERNEL_HEAP_START \in USER_SPACE_END + 1 .. bytes - 1
      /\ USER_SPACE_START \in 1 .. USER_SPACE_END - 1 /\ USER_SPACE_START % PAGE = 0
  BY GeometryAssumption DEF bytes
<1> QED
  BY <1>3, <1>4, <1>5 DEF Address

LEMMA NewSpaceType ==
    ASSUME NEW pml4 \in Frames, NEW rs \in Seq(Regions)
    PROVE  /\ \A as : as # Kernel => Typed(as, NewSpace(pml4, rs))
           /\ NewSpace(pml4, rs).pml4 = pml4 /\ NewSpace(pml4, rs).regions = rs
           /\ NewSpace(pml4, rs).plain /\ ~NewSpace(pml4, rs).short
<1>1. USER_SPACE_START \in Address /\ 0 \in Address
  BY UserAddress, Words
<1>2. USER_SPACE_START <= USER_SPACE_START
  BY <1>1, Words
<1>3. pml4 # KernelPml4
  BY Places
<1> QED
  BY <1>1, <1>2, <1>3 DEF NewSpace, Typed, Spaces

\* vmm_create_address_space: what it makes of memory, in the order that it does.
LEMMA CreatedCases ==
    ASSUME NEW s \in Works
    PROVE  LET c == Created(s)
               as == Fresh(s)
               s1 == Take(s)
               pml4 == Fresh(s1)
               s2 == Take(s1)
               s3 == [s2 EXCEPT !.mem[pml4] = UpperHalf(s.mem[KernelPml4])]
           IN \/ c.as = NULL /\ c.s = RanOut(s)
              \/ /\ s.avail # {} /\ s1.avail # {} /\ c.as = as
                 /\ s1 \in Works /\ s2 \in Works /\ s3 \in Works
                 /\ s3.mem = [s2.mem EXCEPT ![pml4] = UpperHalf(s.mem[KernelPml4])]
                 /\ s3.avail = s2.avail /\ s3.fate = s.fate /\ s3.regions = s.regions
                 /\ \/ s3.avail = {} /\ c.s = RanOut(s3) /\ c.space = NewSpace(pml4, <<>>)
                    \/ /\ s3.avail # {} /\ c.s = Take(s3)
                       /\ c.space = NewSpace(pml4,
                            <<Region(USER_SPACE_START, USER_SPACE_END, FREE, Fresh(s3))>>)
<1> DEFINE as == Fresh(s)
           s1 == Take(s)
           pml4 == Fresh(s1)
           s2 == Take(s1)
           m3 == [s2.mem EXCEPT ![pml4] = UpperHalf(s.mem[KernelPml4])]
           s3 == [s2 EXCEPT !.mem[pml4] = UpperHalf(s.mem[KernelPml4])]
<1>1. CASE Cardinality(s.avail) < 2
  BY <1>1 DEF Created
<1>2. CASE ~(Cardinality(s.avail) < 2)
  <2>1. s.avail # {}
    BY <1>2, FS_EmptySet
  <2>2. as \in s.avail /\ s1 \in Works /\ s1.avail = s.avail \ {as}
        /\ s1.fate = s.fate /\ s1.regions = s.regions
    BY <2>1, FreshIn, TakeType
  <2>3. s1.avail # {}
    <3>1. s.avail # {as}
      <4>1. Cardinality({as}) = 1
        BY FS_Singleton
      <4> QED
        BY <1>2, <4>1
    <3> QED
      BY <2>2, <3>1
  <2>4. Created(s) = IF s3.avail = {}
                     THEN [as |-> as, s |-> RanOut(s3), space |-> NewSpace(pml4, <<>>)]
                     ELSE [as |-> as, s |-> Take(s3), space |-> NewSpace(pml4,
                             <<Region(USER_SPACE_START, USER_SPACE_END, FREE, Fresh(s3))>>)]
    BY <1>2 DEF Created
  <2> HIDE DEF as, s1
  <2>5. s2 \in Works /\ pml4 \in Memory /\ s2.fate = s1.fate /\ s2.regions = s1.regions
    BY <2>2, <2>3, FreshIn, TakeType
  <2> HIDE DEF pml4, s2
  <2>6. UpperHalf(s.mem[KernelPml4]) \in [Entry -> Entries]
    <3>1. s.mem[KernelPml4] \in [Entry -> Entries]
      BY Places DEF Works, Mem
    <3> QED
      BY <3>1, Places DEF UpperHalf, Entry
  <2>7. m3 \in Mem
    BY <2>5, <2>6 DEF Works, Mem
  <2>8. s3 = [s2 EXCEPT !.mem = m3]
    BY <2>5 DEF Works
  <2> HIDE DEF m3, s3
  <2>9. s3 \in Works /\ s3.mem = m3 /\ s3.avail = s2.avail /\ s3.fate = s2.fate
        /\ s3.regions = s2.regions
    BY <2>5, <2>7, <2>8 DEF Works
  <2> QED
    BY <2>1, <2>2, <2>3, <2>4, <2>5, <2>9 DEF as, s1, pml4, s2, s3, m3
<1> QED
  BY <1>1, <1>2

LEMMA CreatedType ==
    ASSUME NEW s \in Works
    PROVE  LET c == Created(s) IN
           /\ c.s \in Works /\ c.s.fate = s.fate
           /\ c.as # NULL => /\ c.as \in Frames
                             /\ c.space.pml4 \in Frames /\ c.space.regions \in Seq(Regions)
                             /\ \A as : as # Kernel => Typed(as, c.space)
<1> DEFINE c == Created(s)
           s1 == Take(s)
           pml4 == Fresh(s1)
           s3 == [Take(s1) EXCEPT !.mem[pml4] = UpperHalf(s.mem[KernelPml4])]
           one == <<Region(USER_SPACE_START, USER_SPACE_END, FREE, Fresh(s3))>>
<1> HIDE DEF c
<1>1. CASE c.as = NULL /\ c.s = RanOut(s)
  BY <1>1, RanOutType DEF c
<1>2. CASE ~(c.as = NULL /\ c.s = RanOut(s))
  <2>1. /\ s.avail # {} /\ s1.avail # {} /\ c.as = Fresh(s) /\ s1 \in Works /\ s3 \in Works
        /\ s3.fate = s.fate
        /\ \/ c.s = RanOut(s3) /\ c.space = NewSpace(pml4, <<>>)
           \/ s3.avail # {} /\ c.s = Take(s3) /\ c.space = NewSpace(pml4, one)
    BY <1>2, CreatedCases DEF c
  <2> HIDE DEF s1, s3
  <2>2. c.as \in Frames /\ pml4 \in Frames
    BY <2>1, FreshIn
  <2>3. s3.avail # {} => one \in Seq(Regions)
    <3>1. s3.avail # {} => Fresh(s3) \in Frames
      BY <2>1, FreshIn
    <3>2. s3.avail # {} => Region(USER_SPACE_START, USER_SPACE_END, FREE, Fresh(s3)) \in Regions
      BY <3>1, UserAddress DEF Region, Regions, FREE
    <3> QED
      BY <3>2
  <2>4. <<>> \in Seq(Regions)
    OBVIOUS
  <2> HIDE DEF one, pml4
  <2>5. RanOut(s3) \in Works /\ RanOut(s3).fate = s.fate
        /\ (s3.avail # {} => Take(s3) \in Works /\ Take(s3).fate = s.fate)
    BY <2>1, RanOutType, TakeType
  <2>6. \A rs \in Seq(Regions) :
            /\ NewSpace(pml4, rs).pml4 = pml4 /\ NewSpace(pml4, rs).regions = rs
            /\ \A as : as # Kernel => Typed(as, NewSpace(pml4, rs))
    BY <2>2, NewSpaceType
  <2>7. CASE c.s = RanOut(s3) /\ c.space = NewSpace(pml4, <<>>)
    <3>1. c.space.pml4 = pml4 /\ c.space.regions = <<>>
          /\ \A as : as # Kernel => Typed(as, c.space)
      BY <2>4, <2>6, <2>7
    <3> QED
      BY <2>2, <2>4, <2>5, <2>7, <3>1 DEF c
  <2>8. CASE s3.avail # {} /\ c.s = Take(s3) /\ c.space = NewSpace(pml4, one)
    <3>1. c.space.pml4 = pml4 /\ c.space.regions = one
          /\ \A as : as # Kernel => Typed(as, c.space)
      BY <2>3, <2>6, <2>8
    <3> QED
      BY <2>2, <2>3, <2>5, <2>8, <3>1 DEF c
  <2> QED
    BY <2>1, <2>7, <2>8
<1> QED
  BY <1>1, <1>2 DEF c

LEMMA CreateKeepsTypes == TypeOK /\ Create => TypeOK'
<1> SUFFICES ASSUME TypeOK, Create
             PROVE  TypeOK'
  OBVIOUS
<1> DEFINE c == Created(Idle)
           sp == IF c.as = NULL THEN spaces ELSE With(c.as, c.space)
<1>1. Commit(c.s, sp, "create", c.as, c.as # NULL, 0, 0)
  BY DEF Create
<1>2. c.s \in Works /\ (c.as # NULL => c.as \in Frames /\ Typed(c.as, c.space))
  BY IdleType, CreatedType, Places
<1> HIDE DEF c
<1>3. AllTyped(spaces)
  BY TypeParts
<1>4. AllTyped(sp)
  BY <1>2, <1>3, WithType
<1> HIDE DEF sp
<1> QED
  BY <1>1, <1>2, <1>4, CommitType

LEMMA CloneKeepsTypes ==
    ASSUME TypeOK, NEW src \in DOMAIN spaces, Clone(src)
    PROVE  TypeOK'
<1> DEFINE c == Created(Idle)
           d == [c.s EXCEPT !.ran = FALSE]
           t == CopyTables(d, spaces[src].pml4, c.space.pml4)
           clone == [spaces[src] EXCEPT !.pml4 = c.space.pml4, !.regions = c.space.regions,
                                        !.plain = FALSE]
           gone == Destroyed(t, c.as, c.space)
<1>1. /\ src # Kernel
      /\ IF c.as = NULL
           THEN Commit(c.s, spaces, "clone", src, FALSE, 0, 0)
           ELSE IF t.ran THEN Commit(gone, spaces, "clone", src, FALSE, 0, 0)
           ELSE Commit(t, With(c.as, clone), "clone", src, TRUE, 0, 0)
  BY DEF Clone
<1>2. c.s \in Works
      /\ (c.as # NULL => /\ c.as \in Frames /\ c.space.pml4 \in Frames
                         /\ c.space.regions \in Seq(Regions))
  BY IdleType, CreatedType
<1>3. Typed(src, spaces[src]) /\ spaces[src].pml4 \in Memory /\ AllTyped(spaces)
  BY TypedFacts, TypeParts
<1> HIDE DEF c
<1>4. d \in Works
  BY <1>2 DEF Works
<1> HIDE DEF d
<1>5. c.as # NULL => t \in Works
  BY <1>2, <1>3, <1>4, Places, CopyType
<1>6. c.as # NULL => Typed(c.as, clone)
  <2>1. c.as # NULL => c.as # Kernel /\ c.space.pml4 # KernelPml4
    BY <1>2, Places
  <2> QED
    BY <1>2, <1>3, <2>1 DEF Typed, Spaces
<1> HIDE DEF t, clone
<1>7. c.as # NULL => gone \in Works
  BY <1>2, <1>5, DestroyedType, Places
<1> HIDE DEF gone
<1>8. c.as # NULL => AllTyped(With(c.as, clone))
  BY <1>2, <1>3, <1>6, WithType
<1> QED
  BY <1>1, <1>2, <1>3, <1>5, <1>7, <1>8, CommitType

LEMMA DestroyKeepsTypes ==
    ASSUME TypeOK, NEW as \in DOMAIN spaces, Destroy(as)
    PROVE  TypeOK'
<1> DEFINE sp == [q \in DOMAIN spaces \ {as} |-> spaces[q]]
           s == Destroyed(Start(as), as, spaces[as])
<1>1. as # Kernel /\ Commit(s, sp, "destroy", as, TRUE, 0, 0)
  BY DEF Destroy
<1>2. s \in Works
  BY StartType, TypedFacts, DestroyedType
<1>3. AllTyped(sp)
  BY <1>1, TypeParts DEF AllTyped
<1> HIDE DEF s, sp
<1> QED
  BY <1>1, <1>2, <1>3, CommitType

LEMMA SwitchKeepsTypes ==
    ASSUME TypeOK, NEW as \in DOMAIN spaces, Switch(as)
    PROVE  TypeOK'
<1> DEFINE b == IF virt_to_phys(mem, spaces[as].pml4, Code * PAGE).to = Code THEN "runs" ELSE "halted"
           s == [Idle EXCEPT !.fate = b]
<1>1. Commit(s, spaces, "switch", as, TRUE, 0, 0)
  BY DEF Switch
<1>2. b \in Fates
  BY DEF Fates
<1> HIDE DEF b
<1>3. s \in Works
  BY <1>2, IdleType DEF Works
<1> HIDE DEF s
<1> QED
  BY <1>1, <1>3, TypeParts, CommitType

LEMMA CallArguments ==
    /\ \A c \in Counts : c \in 1 .. WORD - PAGE /\ c \in Address /\ c \in Nat
    /\ \A a \in Addresses : a \in Address /\ a # 0
    /\ \A fl \in Flags : fl \in SUBSET RegionFlags /\ fl # FREE
<1>1. /\ Counts \subseteq 1 .. WORD - PAGE /\ Addresses \subseteq Address \ {0}
      /\ Flags \subseteq SUBSET RegionFlags /\ \A fl \in Flags : "used" \in fl
  BY CallsAssumption
<1>2. 1 .. WORD - PAGE \subseteq Address
  BY Geometry DEF Address
<1> QED
  BY <1>1, <1>2 DEF FREE

\* The pages of a size that is not yet rounded.
LEMMA SizePages ==
    ASSUME NEW c \in Address
    PROVE  align_up(c) \div PAGE \in Nat /\ align_up(c) \in Nat
<1>1. align_up(c) \in Nat
  BY Words
<1> QED
  BY <1>1, Geometry, Division

\* vmm_alloc_pages_at: where it looks, and that what it takes fits the word.
LEMMA AllocPlace ==
    ASSUME TypeOK, NEW as \in DOMAIN spaces, NEW addr \in Addresses \cup {0}, NEW count \in Counts
    PROVE  LET n == PagesIn(count)
               virt == IF addr = 0 THEN vmm_find_free_region(spaces[as].regions, n * PAGE)
                                   ELSE align_down(addr)
           IN /\ virt \in Address /\ n \in Nat \ {0} /\ n * PAGE \in Address
              /\ addr = 0 /\ virt # 0 =>
                     /\ virt + n * PAGE \in Address
                     /\ \E i \in DOMAIN spaces[as].regions :
                            LET r == spaces[as].regions[i] IN
                            r.flags = FREE /\ virt = align_up(r.start) /\ virt + n * PAGE <= r.end
<1> DEFINE n == PagesIn(count)
           rs == spaces[as].regions
           free == vmm_find_free_region(rs, n * PAGE)
<1>1. n \in Nat \ {0} /\ n * PAGE \in Address /\ align_up(n * PAGE) = n * PAGE
  BY CallArguments, PageCounts
<1>2. rs \in Seq(Regions)
  BY TypedFacts
<1> HIDE DEF n, rs
<1>3. /\ free \in Address
      /\ free # 0 => \E i \in DOMAIN rs :
             rs[i].flags = FREE /\ free = align_up(rs[i].start) /\ free + n * PAGE <= rs[i].end
  BY <1>1, <1>2, FreeFound
<1> HIDE DEF free
<1>4. free # 0 => free + n * PAGE \in Address
  <2>1. \A i \in DOMAIN rs : rs[i] \in Regions
    BY <1>2, SeqFacts
  <2>2. \A i \in DOMAIN rs : rs[i].end \in Address
    BY <2>1 DEF Regions
  <2>3. n * PAGE \in Nat /\ free \in Nat /\ WORD \in Nat
    BY <1>1, <1>3, Words, Geometry
  <2> QED
    BY <1>3, <2>2, <2>3 DEF Address
<1>5. CASE addr = 0
  BY <1>1, <1>3, <1>4, <1>5 DEF n, rs, free
<1>6. CASE addr # 0
  <2>1. align_down(addr) \in Address
    BY <1>6, CallArguments, Words
  <2> QED
    BY <1>1, <1>6, <2>1 DEF n
<1> QED
  BY <1>5, <1>6

LEMMA AllocKeepsTypes ==
    ASSUME TypeOK, NEW as \in DOMAIN spaces, NEW addr \in Addresses \cup {0},
           NEW count \in Counts, NEW fl \in Flags, Alloc(as, addr, count, fl)
    PROVE  TypeOK'
<1> DEFINE pml4 == spaces[as].pml4
           n == PagesIn(count)
           virt == IF addr = 0 THEN vmm_find_free_region(spaces[as].regions, n * PAGE)
                               ELSE align_down(addr)
           taken == addr # 0 /\ vmm_find_region(spaces[as].regions, virt) # 0
           s == Back(Start(as), pml4, virt, n, PageFlags(fl))
           space == IF addr = 0 THEN spaces[as] ELSE Mixed(as)
           undone == Rollback(s, pml4, virt)
           got == Occupy(s, virt, virt + n * PAGE, fl)
<1>1. IF virt = 0 \/ taken THEN Refused("alloc", as)
      ELSE IF s.count < n THEN Within("alloc", as, undone, space, FALSE, virt, n)
      ELSE Within("alloc", as, got, space, TRUE, virt, n)
  BY DEF Alloc
<1>2. /\ virt \in Address /\ n \in Nat
      /\ addr = 0 /\ virt # 0 => virt + n * PAGE \in Address
  BY AllocPlace
<1>3. pml4 \in Memory /\ Typed(as, spaces[as]) /\ Typed(as, space)
  BY TypedFacts, PlainType
<1> HIDE DEF n, virt, pml4, space
<1>4. s \in Works /\ s.regions = spaces[as].regions
  <2> DEFINE b == Start(as)
             rt == PageFlags(fl)
             x == Back(b, pml4, virt, n, rt)
  <2>1. b \in Works /\ b.regions = spaces[as].regions /\ rt \in SUBSET Rights
    BY StartType, PageFlagsType
  <2> HIDE DEF b, rt
  <2>2. x \in Works /\ x.regions = b.regions /\ x.fate = b.fate /\ x.avail \subseteq b.avail
    BY <1>2, <1>3, <2>1, BackType
  <2> QED
    BY <2>1, <2>2 DEF b, rt
<1> HIDE DEF s
<1>5. undone \in Works
  <2>1. s.count \in Nat
    BY <1>4 DEF Works
  <2> QED
    BY <1>2, <1>3, <1>4, <2>1, DropsType DEF Rollback
<1>6. virt # 0 /\ ~taken => got \in Works
  <2>1. CASE addr = 0
    BY <1>2, <1>4, <2>1, CallArguments, OccupyType DEF Listed
  <2>2. CASE addr # 0 /\ ~taken
    <3>1. vmm_find_region(s.regions, virt) = 0
      BY <1>4, <2>2
    <3>2. Occupy(s, virt, virt + n * PAGE, fl) = s
      BY <1>4, <3>1, OccupyNothing
    <3> QED
      BY <1>4, <3>2
  <2> QED
    BY <2>1, <2>2
<1> HIDE DEF undone, got, taken
<1> QED
  BY <1>1, <1>3, <1>5, <1>6, RefusedType, WithinType

LEMMA FreeKeepsTypes ==
    ASSUME TypeOK, NEW as \in DOMAIN spaces, NEW addr \in Addresses, NEW count \in Counts,
           Free(as, addr, count)
    PROVE  TypeOK'
<1> DEFINE n == PagesIn(count)
           s == DropPages(Start(as), spaces[as].pml4, addr, n)
           i == vmm_find_region(s.regions, addr)
           t == IF i = 0 THEN s ELSE Release(s, i)
<1>1. Within("free", as, t, OfWhole(as, addr, n), TRUE, addr, n)
  BY DEF Free
<1>2. n \in Nat /\ addr \in Address
  BY CallArguments, PageCounts
<1> HIDE DEF n
<1>3. s \in Works
  BY <1>2, StartType, TypedFacts, DropsType
<1> HIDE DEF s
<1>4. s.regions \in Seq(Regions)
  BY <1>3 DEF Works
<1>5. i # 0 => i \in Nat /\ i \in DOMAIN s.regions
  BY <1>4, RegionFound, SeqFacts
<1> HIDE DEF i
<1>6. t \in Works
  BY <1>3, <1>5, ReleaseType
<1> HIDE DEF t
<1> QED
  BY <1>1, <1>6, PlainType, WithinType

LEMMA BrkKeepsTypes ==
    ASSUME TypeOK, NEW as \in DOMAIN spaces, NEW end \in Address, Brk(as, end)
    PROVE  TypeOK'
<1> DEFINE sp == spaces[as]
           new == align_up(end)
           up == IF new > sp.heap_end THEN (new - sp.heap_end) \div PAGE ELSE 0
           down == IF new < sp.heap_end THEN (sp.heap_end - new) \div PAGE ELSE 0
           s == IF up > 0 THEN Back(Start(as), sp.pml4, sp.heap_end, up, {"w", "u"})
                ELSE DropPages(Start(as), sp.pml4, new, down)
           moved == [Mixed(as) EXCEPT !.heap_end = new]
<1>1. IF BelowHeap(sp, new) THEN Refused("brk", as)
      ELSE IF s.count < up THEN Within("brk", as, s, Mixed(as), FALSE, sp.heap_end, up)
      ELSE Within("brk", as, s, moved, TRUE, IF up > 0 THEN sp.heap_end ELSE new, up + down)
  BY DEF Brk
<1>2. new \in Address /\ new \in Nat /\ sp.heap_end \in Address /\ sp.heap_end \in Nat
      /\ sp.heap_start \in Nat
  BY Words, TypedFacts
<1>3. Typed(as, Mixed(as)) /\ sp.pml4 \in Memory
  BY PlainType, TypedFacts
<1>4. Mixed(as).heap_start = sp.heap_start
  BY TypedFacts DEF Mixed, Typed, Spaces
<1> HIDE DEF new, sp
<1>5. up \in Nat /\ down \in Nat
  <2>1. ASSUME NEW x \in Nat, NEW y \in Nat, x > y
        PROVE  (x - y) \div PAGE \in Nat
    <3>1. x - y \in Nat
      BY <2>1
    <3> QED
      BY <3>1, Geometry, Division
  <2> QED
    BY <1>2, <2>1
<1> HIDE DEF up, down
<1>6. s \in Works
  <2>1. {"w", "u"} \in SUBSET Rights
    BY DEF Rights
  <2>2. Start(as) \in Works
    BY StartType
  <2>3. Back(Start(as), sp.pml4, sp.heap_end, up, {"w", "u"}) \in Works
    BY <1>2, <1>3, <1>5, <2>1, <2>2, BackType
  <2>4. DropPages(Start(as), sp.pml4, new, down) \in Works
    BY <1>2, <1>3, <1>5, <2>2, DropsType
  <2> QED
    BY <2>3, <2>4
<1> HIDE DEF s
<1>7. ~BelowHeap(sp, new) => Typed(as, moved)
  <2>1. ~BelowHeap(sp, new) => Mixed(as).heap_start <= new
    BY <1>2, <1>4 DEF BelowHeap
  <2> QED
    BY <1>2, <1>3, <2>1 DEF Typed, Spaces
<1> HIDE DEF moved
<1> QED
  BY <1>1, <1>3, <1>6, <1>7, RefusedType, WithinType

LEMMA SbrkKeepsTypes ==
    ASSUME TypeOK, NEW as \in DOMAIN spaces, NEW count \in Counts,
           Sbrk(as, count) \/ Sbrk(as, -count)
    PROVE  TypeOK'
<1> DEFINE h == spaces[as].heap_end
<1>1. \A z \in Int : (h + z) % WORD \in Address
  <2>1. h \in Nat /\ WORD \in Nat \ {0}
    BY TypedFacts, Words, Geometry
  <2> HIDE DEF h
  <2> TAKE z \in Int
  <2>2. (h + z) % WORD \in 0 .. WORD - 1
    BY <2>1
  <2> QED
    BY <2>2 DEF Address
<1>2. count \in Int /\ -count \in Int
  BY CallArguments
<1>3. PICK z \in Int : Sbrk(as, z)
  BY <1>2
<1> QED
  BY <1>1, <1>3, BrkKeepsTypes DEF Sbrk

LEMMA StackKeepsTypes ==
    ASSUME TypeOK, NEW as \in DOMAIN spaces, NEW top \in Addresses, NEW size \in Counts,
           SetupStack(as, top, size)
    PROVE  TypeOK'
<1> DEFINE sp == spaces[as]
           high == align_down(top)
           n == align_up(size) \div PAGE
           low == (high - align_up(size)) % WORD
           s == Back(Start(as), sp.pml4, low, n, {"w", "u", "nx"})
           undone == Rollback(s, sp.pml4, low)
           got == vmm_create_region(s, low, high, {"used", "stack", "read", "write"})
           space == [Mixed(as) EXCEPT !.stack_start = low, !.stack_end = high]
<1>1. IF s.count < n THEN Within("stack", as, undone, Mixed(as), FALSE, low, n)
      ELSE Within("stack", as, got, space, TRUE, low, n)
  BY DEF SetupStack
<1>2. high \in Address /\ n \in Nat /\ low \in Address
  <2>1. high \in Address /\ n \in Nat /\ align_up(size) \in Nat
    BY CallArguments, Words, SizePages
  <2> DEFINE up == align_up(size)
             x == high - up
  <2> HIDE DEF high, n, up
  <2>2. x \in Int /\ WORD \in Nat \ {0}
    BY <2>1, Words, Geometry DEF up
  <2> HIDE DEF x
  <2>3. x % WORD \in 0 .. WORD - 1
    BY <2>2
  <2> QED
    BY <2>1, <2>3 DEF Address, x, up
<1>3. Typed(as, Mixed(as)) /\ sp.pml4 \in Memory
  BY PlainType, TypedFacts
<1> HIDE DEF high, n, low, sp
<1>4. s \in Works
  <2>1. {"w", "u", "nx"} \in SUBSET Rights
    BY DEF Rights
  <2> QED
    BY <1>2, <1>3, <2>1, StartType, BackType
<1> HIDE DEF s
<1>5. undone \in Works
  <2>1. s.count \in Nat
    BY <1>4 DEF Works
  <2> QED
    BY <1>2, <1>3, <1>4, <2>1, DropsType DEF Rollback
<1>6. got \in Works
  <2>1. {"used", "stack", "read", "write"} \in SUBSET RegionFlags
    BY DEF RegionFlags
  <2> QED
    BY <1>2, <1>4, <2>1, CreateType DEF Listed
<1>7. Typed(as, space)
  BY <1>2, <1>3 DEF Typed, Spaces
<1> HIDE DEF undone, got, space
<1> QED
  BY <1>1, <1>3, <1>5, <1>6, <1>7, WithinType

LEMMA FaultKeepsTypes ==
    ASSUME TypeOK, NEW as \in DOMAIN spaces, NEW addr \in Addresses, PageFault(as, addr)
    PROVE  TypeOK'
<1> DEFINE sp == spaces[as]
           page == align_down(addr)
           s == Back(Start(as), sp.pml4, page, 1, {"w", "u", "nx"})
           space == [sp EXCEPT !.stack_start = page]
<1>1. \/ Refused("fault", as)
      \/ Within("fault", as, s, sp, FALSE, page, 1)
      \/ Within("fault", as, s, space, TRUE, page, 1)
  BY DEF PageFault
<1>2. page \in Address /\ Typed(as, sp) /\ sp.pml4 \in Memory
  BY CallArguments, Words, TypedFacts
<1> HIDE DEF page, sp
<1>3. s \in Works
  <2>1. {"w", "u", "nx"} \in SUBSET Rights /\ 1 \in Nat
    BY DEF Rights
  <2> QED
    BY <1>2, <2>1, StartType, BackType
<1>4. Typed(as, space)
  BY <1>2 DEF Typed, Spaces
<1> HIDE DEF s, space
<1> QED
  BY <1>1, <1>2, <1>3, <1>4, RefusedType, WithinType

LEMMA MapPhysicalKeepsTypes ==
    ASSUME TypeOK, NEW as \in DOMAIN spaces, NEW fl \in Flags, MapPhysical(as, fl)
    PROVE  TypeOK'
<1> DEFINE virt == vmm_find_free_region(spaces[as].regions, PAGE)
           s == Map(Start(as), spaces[as].pml4, virt, Device, PageFlags(fl) \ {"nx"})
           t == vmm_create_region(s, virt, virt + PAGE, fl \cup {"mmap"})
<1>1. \/ Refused("mmap", as)
      \/ virt # 0 /\ Within("mmap", as, t, Mixed(as), TRUE, virt, 1)
  BY DEF MapPhysical
<1>2. PAGE \in Address /\ align_up(PAGE) = PAGE
  <2>1. 1 * PAGE < WORD
    <3>1. PAGE * SpacePages < WORD /\ PAGE \in Nat \ {0} /\ WORD \in Nat
      BY Geometry, GeometryAssumption
    <3>2. SpacePages \in Nat \ {0}
      <4> DEFINE q == ENTRIES * ENTRIES
      <4>1. q \in Nat \ {0} /\ ENTRIES \in Nat \ {0}
        BY Geometry
      <4> HIDE DEF q
      <4> QED
        BY <4>1 DEF SpacePages, q
    <3>3. PAGE * 1 <= PAGE * SpacePages
      BY <3>1, <3>2
    <3> QED
      BY <3>1, <3>2, <3>3
  <2>2. 1 * PAGE = PAGE /\ 1 \in Nat
    BY Geometry
  <2> QED
    BY <2>1, <2>2, Aligned
<1>3. virt \in Address /\ (virt # 0 => virt + PAGE \in Address)
  <2>1. spaces[as].regions \in Seq(Regions)
    BY TypedFacts
  <2> DEFINE rs == spaces[as].regions
  <2> HIDE DEF rs
  <2>2. /\ virt \in Address
        /\ virt # 0 => \E i \in DOMAIN rs : virt + PAGE <= rs[i].end
    BY <1>2, <2>1, FreeFound DEF rs
  <2>3. \A i \in DOMAIN rs : rs[i] \in Regions
    BY <2>1, SeqFacts DEF rs
  <2>4. \A i \in DOMAIN rs : rs[i].end \in Address
    BY <2>3 DEF Regions
  <2> HIDE DEF virt
  <2>5. PAGE \in Nat /\ virt \in Nat /\ WORD \in Nat
    BY <2>2, Words, Geometry
  <2> QED
    BY <2>2, <2>4, <2>5 DEF Address
<1> HIDE DEF virt
<1>4. s \in Works
  <2>1. Device \in 0 .. TOP - 1
    BY Places
  <2>2. PageFlags(fl) \ {"nx"} \in SUBSET Rights
    BY PageFlagsType
  <2>3. virt \in Nat
    BY <1>3, Words
  <2> QED
    BY <2>1, <2>2, <2>3, StartType, TypedFacts, MapType
<1> HIDE DEF s
<1>5. virt # 0 => t \in Works
  <2>1. fl \cup {"mmap"} \in SUBSET RegionFlags
    BY CallArguments DEF RegionFlags
  <2> QED
    BY <1>3, <1>4, <2>1, CreateType DEF Listed
<1> HIDE DEF t
<1> QED
  BY <1>1, <1>5, PlainType, RefusedType, WithinType

LEMMA UnmapKeepsTypes ==
    ASSUME TypeOK, NEW as \in DOMAIN spaces, NEW addr \in Addresses, NEW size \in Counts,
           UnmapPages(as, addr, size)
    PROVE  TypeOK'
<1> DEFINE virt == align_down(addr)
           n == align_up(size) \div PAGE
           s == UnmapEach(Start(as), spaces[as].pml4, virt, n)
           i == vmm_find_region(s.regions, virt)
           f == [s EXCEPT !.regions[i].flags = FREE]
           t == IF i = 0 THEN s ELSE f
<1>1. Within("unmap", as, t, Mixed(as), TRUE, virt, n)
  BY DEF UnmapPages
<1>2. virt \in Address /\ n \in Nat
  BY CallArguments, Words, SizePages
<1> HIDE DEF virt, n
<1>3. s \in Works
  BY <1>2, StartType, TypedFacts, UnmapsType
<1> HIDE DEF s, i
<1>4. f \in Works
  <2>1. FREE \in SUBSET RegionFlags
    BY DEF FREE
  <2> QED
    BY <1>3, <2>1, SetFlags
<1>5. t \in Works
  BY <1>3, <1>4
<1> HIDE DEF t
<1> QED
  BY <1>1, <1>5, PlainType, WithinType

LEMMA ProtectKeepsTypes ==
    ASSUME TypeOK, NEW as \in DOMAIN spaces, NEW addr \in Addresses, NEW size \in Counts,
           NEW fl \in Flags, Protect(as, addr, size, fl)
    PROVE  TypeOK'
<1> DEFINE virt == align_down(addr)
           n == align_up(size) \div PAGE
           s == ReprotectEach(Start(as), spaces[as].pml4, virt, n, PageFlags(fl))
           i == vmm_find_region(s.regions, virt)
           new == (s.regions[i].flags \ {"read", "write", "exec"}) \cup fl
           f == [s EXCEPT !.regions[i].flags = (@ \ {"read", "write", "exec"}) \cup fl]
           t == IF i = 0 THEN s ELSE f
<1>1. Within("protect", as, t, OfWhole(as, virt, n), TRUE, virt, n)
  BY DEF Protect
<1>2. virt \in Address /\ n \in Nat
  BY CallArguments, Words, SizePages
<1> HIDE DEF virt, n
<1>3. s \in Works
  BY <1>2, StartType, TypedFacts, ReprotectsType, PageFlagsType
<1> HIDE DEF s
<1>4. s.regions \in Seq(Regions)
  BY <1>3 DEF Works
<1>5. i # 0 => i \in DOMAIN s.regions
  BY <1>4, RegionFound
<1> HIDE DEF i
<1>6. i # 0 => new \in SUBSET RegionFlags
  <2>1. i # 0 => s.regions[i] \in Regions
    BY <1>4, <1>5, SeqFacts
  <2>2. i # 0 => s.regions[i].flags \in SUBSET RegionFlags
    BY <2>1 DEF Regions
  <2> QED
    BY <2>2, CallArguments
<1>7. i # 0 => f = [s EXCEPT !.regions[i].flags = new]
  BY <1>3, <1>5 DEF Works
<1> HIDE DEF new, f
<1>8. ASSUME i # 0
      PROVE  f \in Works
  <2> DEFINE g == [s EXCEPT !.regions[i].flags = new]
  <2>1. g \in Works
    BY <1>3, <1>6, <1>8, SetFlags
  <2> HIDE DEF g
  <2> QED
    BY <1>7, <1>8, <2>1 DEF g
<1>9. t \in Works
  BY <1>3, <1>8
<1> HIDE DEF t
<1> QED
  BY <1>1, <1>9, PlainType, WithinType

LEMMA StoreKeepsTypes ==
    ASSUME TypeOK, NEW as \in DOMAIN spaces, NEW addr \in Addresses, NEW f \in Stored,
           Store(as, addr, f)
    PROVE  TypeOK'
<1> DEFINE p == virt_to_phys(mem, spaces[as].pml4, addr)
           e == [to |-> f, flags |-> {}]
           m == [mem EXCEPT ![p.to][0] = e]
           s == [Idle EXCEPT !.mem[p.to][0] = [to |-> f, flags |-> {}]]
<1>1. p.to \in Frames /\ Commit(s, spaces, "store", as, TRUE, 0, 0)
  BY DEF Store
<1> HIDE DEF p
<1>2. e \in Entries
  BY CallsAssumption, Places, FrameEntry
<1>3. m \in Mem
  <2> HIDE DEF e
  <2> QED
    BY <1>1, <1>2, Places, Geometry, TypeParts DEF Mem
<1>4. s = [Idle EXCEPT !.mem = m]
  BY IdleType DEF Works
<1> HIDE DEF m, s
<1>5. s \in Works
  BY <1>3, <1>4, IdleType DEF Works
<1> QED
  BY <1>1, <1>5, TypeParts, CommitType

\* The tables of paging_init, page by page.
LEMMA BootPages ==
    /\ BootMem[KernelPml4] = BootPml4
    /\ \A f \in LowDirs : \E k \in DOMAIN KernelDirs : BootMem[f] = BootDir(k)
    /\ BootMem[HighDir] = [Blank EXCEPT ![Index(KernelCode, 2)] = Table(HighTable)]
    /\ BootMem[HighTable] = [Blank EXCEPT ![Index(KernelCode, 1)] = [to |-> Code, flags |-> {}]]
    /\ \A f \in Memory \ ({KernelPml4, HighDir, HighTable} \cup LowDirs) : BootMem[f] = Blank
<1> DEFINE dir(f) == BootDir(CHOOSE k \in DOMAIN KernelDirs : KernelDirs[k] = f)
           b2 == [Blank EXCEPT ![Index(KernelCode, 2)] = Table(HighTable)]
           b1 == [Blank EXCEPT ![Index(KernelCode, 1)] = [to |-> Code, flags |-> {}]]
<1>1. BootMem = [f \in Memory |->
          CASE f = KernelPml4 -> BootPml4
            [] f \in LowDirs -> dir(f)
            [] f = HighDir -> b2
            [] f = HighTable -> b1
            [] OTHER -> Blank]
  BY DEF BootMem, LowDirs
<1>2. \A f \in LowDirs : \E k \in DOMAIN KernelDirs : dir(f) = BootDir(k)
  BY DEF LowDirs, Range
<1> HIDE DEF dir, b1, b2
<1>3. {KernelPml4, HighDir, HighTable} \subseteq Memory /\ LowDirs \subseteq Memory
      /\ {KernelPml4, HighDir, HighTable} \cap LowDirs = {}
      /\ KernelPml4 # HighDir /\ KernelPml4 # HighTable /\ HighDir # HighTable
  BY Places, HeldPages
<1>4. \A f \in LowDirs : f \in Memory /\ f # KernelPml4
  BY <1>3
<1>5. ASSUME NEW f \in LowDirs
      PROVE  BootMem[f] = dir(f)
  <2>1. f \in Memory /\ f # KernelPml4
    BY <1>4
  <2>2. BootMem[f] = CASE f = KernelPml4 -> BootPml4
                       [] f \in LowDirs -> dir(f)
                       [] f = HighDir -> b2
                       [] f = HighTable -> b1
                       [] OTHER -> Blank
    BY <1>1, <2>1
  <2>3. f # HighDir /\ f # HighTable
    BY <1>3
  <2> QED
    BY <2>1, <2>2, <2>3
<1>6. BootMem[KernelPml4] = BootPml4 /\ BootMem[HighDir] = b2 /\ BootMem[HighTable] = b1
  BY <1>1, <1>3
<1>7. \A f \in Memory \ ({KernelPml4, HighDir, HighTable} \cup LowDirs) : BootMem[f] = Blank
  BY <1>1
<1> QED
  BY <1>2, <1>5, <1>6, <1>7 DEF b1, b2

LEMMA BootTypes ==
    /\ BootMem \in Mem
    /\ \A k \in Entry : Blank[k] = Zero
    /\ KernelCode \in Nat
    /\ \A l \in 1 .. 3 : Index(KernelCode, l) \in Entry
<1>0. KernelCode \in Nat /\ \A l \in 1 .. 3 : Index(KernelCode, l) \in Entry
  <2>1. KernelCode \in Nat
    BY FramesAssumption, Words
  <2> HIDE DEF KernelCode
  <2> QED
    BY <2>1, IndexType
<1>1. Blank \in [Entry -> Entries] /\ Zero \in Entries
  BY Places
<1>9. \A k \in Entry : Blank[k] = Zero
  BY DEF Blank, Entry
<1>2. \A t \in Memory : Table(t) \in Entries /\ [to |-> t, flags |-> {}] \in Entries
  BY Places DEF Table, Entries
<1>3. BootPml4 \in [Entry -> Entries]
  <2>1. \A k \in DOMAIN KernelDirs : KernelDirs[k] \in Memory
    BY Places DEF LowDirs, Range
  <2>2. \A k \in Entry : (IF k \in DOMAIN KernelDirs THEN Table(KernelDirs[k])
                          ELSE IF k = Index(KernelCode, 3) THEN Table(HighDir) ELSE Zero) \in Entries
    BY <1>1, <1>2, <2>1, Places
  <2> QED
    BY <2>2 DEF BootPml4, Entry
<1>4. \A k \in DOMAIN KernelDirs : BootDir(k) \in [Entry -> Entries]
  <2> SUFFICES ASSUME NEW k \in DOMAIN KernelDirs
               PROVE  BootDir(k) \in [Entry -> Entries]
    OBVIOUS
  <2>1. k \in Nat
    BY FramesAssumption, Geometry
  <2>2. ASSUME NEW j \in Entry
        PROVE  (k * ENTRIES + j) * ENTRIES \in Nat
    <3>1. ENTRIES \in Nat /\ j \in Nat
      BY Geometry DEF Entry
    <3>2. k * ENTRIES + j \in Nat
      BY <2>1, <3>1
    <3> HIDE DEF Entry
    <3> QED
      BY <3>1, <3>2
  <2>3. \A j \in Entry :
            (LET page == (k * ENTRIES + j) * ENTRIES
             IN IF page < TOP THEN [to |-> page, flags |-> {"w", "huge"}] ELSE Zero) \in Entries
    <3> SUFFICES ASSUME NEW j \in Entry
                 PROVE  (LET page == (k * ENTRIES + j) * ENTRIES
                         IN IF page < TOP THEN [to |-> page, flags |-> {"w", "huge"}] ELSE Zero)
                            \in Entries
      OBVIOUS
    <3> DEFINE page == (k * ENTRIES + j) * ENTRIES
    <3>1. page \in Nat /\ TOP \in Nat
      BY <2>2, Places
    <3> HIDE DEF page
    <3>2. page < TOP => [to |-> page, flags |-> {"w", "huge"}] \in Entries
      BY <3>1 DEF Entries
    <3> QED
      BY <1>1, <3>2 DEF page
  <2> QED
    BY <2>3 DEF BootDir, Entry
<1>5. [Blank EXCEPT ![Index(KernelCode, 2)] = Table(HighTable)] \in [Entry -> Entries]
      /\ [Blank EXCEPT ![Index(KernelCode, 1)] = [to |-> Code, flags |-> {}]] \in [Entry -> Entries]
  BY <1>1, <1>2, Places
<1>6. BootMem = [f \in Memory |-> BootMem[f]]
  BY DEF BootMem
<1>7. \A f \in Memory : BootMem[f] \in [Entry -> Entries]
  <2> SUFFICES ASSUME NEW f \in Memory PROVE BootMem[f] \in [Entry -> Entries]
    OBVIOUS
  <2>1. CASE f = KernelPml4
    BY <1>3, <2>1, BootPages
  <2>2. CASE f \in LowDirs
    BY <1>4, <2>2, BootPages
  <2>3. CASE f = HighDir \/ f = HighTable
    BY <1>5, <2>3, BootPages
  <2> QED
    BY <1>1, <2>1, <2>2, <2>3, BootPages
<1>8. BootMem \in Mem
  BY <1>6, <1>7 DEF Mem
<1> QED
  BY <1>0, <1>8, <1>9

LEMMA InitTypes == Init => TypeOK
<1> SUFFICES ASSUME Init
             PROVE  TypeOK
  OBVIOUS
<1>4. mem \in Mem
  BY BootTypes DEF Init
<1>5. avail \subseteq Frames /\ fate \in Fates /\ mix \in Mixes /\ ops = 0
  BY DEF Init, Fates
<1>6. ops \in 0 .. mix.max
  <2>1. mix.max \in Nat
    BY <1>5, CallsAssumption
  <2> QED
    BY <1>5, <2>1
<1>7. AllTyped(spaces)
  <2> DEFINE sp == [NewSpace(KernelPml4, <<>>) EXCEPT
                       !.heap_start = KERNEL_HEAP_START, !.heap_end = KERNEL_HEAP_START]
  <2>1. spaces = [q \in {Kernel} |-> sp]
    BY DEF Init
  <2>2. Typed(Kernel, sp)
    <3>1. KERNEL_HEAP_START \in Address /\ 0 \in Address /\ KERNEL_HEAP_START <= KERNEL_HEAP_START
      BY UserAddress, Words
    <3>2. <<>> \in Seq(Regions)
      OBVIOUS
    <3> QED
      BY <3>1, <3>2 DEF Typed, Spaces, NewSpace
  <2> HIDE DEF sp
  <2> QED
    BY <2>1, <2>2 DEF AllTyped
<1> QED
  BY <1>4, <1>5, <1>6, <1>7, TypeParts

\* Every variable has a value of its kind, whatever is called and wherever memory
\* runs out: addresses, region records and tables stay in the word and in memory,
\* and no space but the kernel's has the kernel's table.
THEOREM Types == Spec => []TypeOK
<1>1. TypeOK /\ [Next]_vars => TypeOK'
  <2> SUFFICES ASSUME TypeOK, [Next]_vars
               PROVE  TypeOK'
    OBVIOUS
  <2>1. CASE Create
    BY <2>1, CreateKeepsTypes
  <2>2. ASSUME NEW as \in DOMAIN spaces,
               Clone(as) \/ Destroy(as) \/ Switch(as)
        PROVE  TypeOK'
    BY <2>2, CloneKeepsTypes, DestroyKeepsTypes, SwitchKeepsTypes
  <2>3. ASSUME NEW as \in DOMAIN spaces, NEW n \in Counts,
               Sbrk(as, n) \/ Sbrk(as, -n)
        PROVE  TypeOK'
    BY <2>3, SbrkKeepsTypes
  <2>4. ASSUME NEW as \in DOMAIN spaces, NEW fl \in Flags, MapPhysical(as, fl)
        PROVE  TypeOK'
    BY <2>4, MapPhysicalKeepsTypes
  <2>5. ASSUME NEW as \in DOMAIN spaces, NEW fl \in Flags, NEW n \in Counts,
               NEW a \in Addresses \cup {0}, Alloc(as, a, n, fl)
        PROVE  TypeOK'
    BY <2>5, AllocKeepsTypes
  <2>6. ASSUME NEW as \in DOMAIN spaces, NEW a \in Addresses, Brk(as, a) \/ PageFault(as, a)
        PROVE  TypeOK'
    BY <2>6, CallArguments, BrkKeepsTypes, FaultKeepsTypes
  <2>7. ASSUME NEW as \in DOMAIN spaces, NEW a \in Addresses, NEW f \in Stored, Store(as, a, f)
        PROVE  TypeOK'
    BY <2>7, StoreKeepsTypes
  <2>8. ASSUME NEW as \in DOMAIN spaces, NEW a \in Addresses, NEW n \in Counts,
               Free(as, a, n) \/ SetupStack(as, a, n) \/ UnmapPages(as, a, n)
        PROVE  TypeOK'
    BY <2>8, FreeKeepsTypes, StackKeepsTypes, UnmapKeepsTypes
  <2>9. ASSUME NEW as \in DOMAIN spaces, NEW a \in Addresses, NEW n \in Counts,
               NEW fl \in Flags, Protect(as, a, n, fl)
        PROVE  TypeOK'
    BY <2>9, ProtectKeepsTypes
  <2>10. CASE UNCHANGED vars
    BY <2>10 DEF vars, TypeOK
  <2> QED
    BY <2>1, <2>2, <2>3, <2>4, <2>5, <2>6, <2>7, <2>8, <2>9, <2>10 DEF Next
<1> QED
  BY <1>1, InitTypes, PTL DEF Spec

-----------------------------------------------------------------------------
(* What each page is used for.  The use u of the pages is not a variable: an *)
(* invariant says that there is one.                                         *)

Live == {"pml4", "dir", "table"}
Child == [r \in Live |-> IF r = "pml4" THEN "dir" ELSE IF r = "dir" THEN "table" ELSE "page"]
Uses == Live \cup {"page", "own", "free", "held"}

Leads(u, m, t, k) ==
    u[t] \in Live /\ Present(m[t][k]) /\ "huge" \notin m[t][k].flags

Below(u, m) == \A t \in Memory, k \in Entry :
                   Leads(u, m, t, k) => u[m[t][k].to] = Child[u[t]]
\* Large pages are entries that paging_init made, in directories that only the
\* kernel's own PML4 names.
Large(u, m) == \A t \in Memory, k \in Entry :
                   /\ u[t] \in Live /\ "huge" \in m[t][k].flags =>
                          u[t] = "dir" /\ t \in LowDirs /\ m[t][k] = BootMem[t][k]
                   /\ u[t] = "pml4" /\ Present(m[t][k]) /\ m[t][k].to \in LowDirs =>
                          t = KernelPml4 /\ m[t][k] = BootMem[t][k]
\* Two entries that lead to one frame are one entry, or the kernel's tables that
\* every space shares.
Once(u, m) == \A t1 \in Memory, t2 \in Memory, k1 \in Entry, k2 \in Entry :
                  Leads(u, m, t1, k1) /\ Leads(u, m, t2, k2) /\ m[t1][k1].to = m[t2][k2].to =>
                      \/ t1 = t2 /\ k1 = k2
                      \/ /\ u[t1] = "pml4" /\ u[t2] = "pml4"
                         /\ (k1 = k2 /\ k1 >= HALF) \/ m[t1][k1].to \notin Frames
Empty(u, m) == \A f \in Memory : u[f] = "page" => m[f] = Blank

Pages(u, m, av) ==
    /\ u \in [Memory -> Uses]
    /\ Below(u, m) /\ Large(u, m) /\ Once(u, m) /\ Empty(u, m)
    /\ \A f \in av : u[f] = "free"

Change(u, m, w, n, c, j) ==
    \A t \in Memory, k \in Entry : Leads(w, n, t, k) =>
        \/ /\ Leads(u, m, t, k) /\ n[t][k] = m[t][k] /\ w[t] = u[t]
           /\ w[m[t][k].to] = u[m[t][k].to]
        \/ t = c /\ k = j /\ w[n[t][k].to] = Child[w[t]]

Sole(u, m, w, n) ==
    \A t \in Memory, k \in Entry :
        Leads(w, n, t, k) /\ ~(Leads(u, m, t, k) /\ n[t][k] = m[t][k]) =>
            \A t2 \in Memory, k2 \in Entry :
                Leads(w, n, t2, k2) /\ n[t2][k2].to = n[t][k].to => t2 = t /\ k2 = k

NotLarger(u, m, w, n, c, j) ==
    /\ \A t \in Memory, k \in Entry :
           w[t] \in Live /\ "huge" \in n[t][k].flags => w[t] = u[t] /\ n[t][k] = m[t][k]
    /\ c \in Memory /\ w[c] = "pml4" => n[c][j].to \notin LowDirs

\* A change of memory and uses that keeps the rules: entries are the old ones, or
\* the one entry <<c, j>> that alone leads where it leads.
LEMMA Edited ==
    ASSUME NEW u, NEW m, NEW av, Pages(u, m, av),
           NEW w \in [Memory -> Uses], NEW n, NEW bv, NEW c, NEW j,
           Change(u, m, w, n, c, j), Sole(u, m, w, n), NotLarger(u, m, w, n, c, j),
           Empty(w, n),
           \A f \in bv : w[f] = "free"
    PROVE  Pages(w, n, bv)
<1> USE DEF Change, Sole, NotLarger
<1>1. Below(w, n)
  BY DEF Below, Pages
<1>2. Large(w, n)
  <2> SUFFICES ASSUME NEW t \in Memory, NEW k \in Entry
               PROVE  /\ w[t] \in Live /\ "huge" \in n[t][k].flags =>
                             w[t] = "dir" /\ t \in LowDirs /\ n[t][k] = BootMem[t][k]
                      /\ w[t] = "pml4" /\ Present(n[t][k]) /\ n[t][k].to \in LowDirs =>
                             t = KernelPml4 /\ n[t][k] = BootMem[t][k]
    BY DEF Large
  <2>1. w[t] \in Live /\ "huge" \in n[t][k].flags =>
            w[t] = "dir" /\ t \in LowDirs /\ n[t][k] = BootMem[t][k]
    BY DEF Large, Pages
  <2>2. ASSUME w[t] = "pml4", Present(n[t][k]), n[t][k].to \in LowDirs
        PROVE  t = KernelPml4 /\ n[t][k] = BootMem[t][k]
    <3>1. Leads(w, n, t, k)
      BY <2>1, <2>2 DEF Leads, Live
    <3>2. ~(t = c /\ k = j)
      BY <2>2
    <3>3. Leads(u, m, t, k) /\ n[t][k] = m[t][k] /\ w[t] = u[t]
      BY <3>1, <3>2
    <3> QED
      BY <2>2, <3>3 DEF Large, Pages
  <2> QED
    BY <2>1, <2>2
<1>3. Once(w, n)
  <2> SUFFICES ASSUME NEW t1 \in Memory, NEW t2 \in Memory, NEW k1 \in Entry, NEW k2 \in Entry,
                      Leads(w, n, t1, k1), Leads(w, n, t2, k2), n[t1][k1].to = n[t2][k2].to
               PROVE  \/ t1 = t2 /\ k1 = k2
                      \/ /\ w[t1] = "pml4" /\ w[t2] = "pml4"
                         /\ (k1 = k2 /\ k1 >= HALF) \/ n[t1][k1].to \notin Frames
    BY DEF Once
  <2>1. CASE /\ Leads(u, m, t1, k1) /\ n[t1][k1] = m[t1][k1]
             /\ Leads(u, m, t2, k2) /\ n[t2][k2] = m[t2][k2]
    <3>1. \/ t1 = t2 /\ k1 = k2
          \/ /\ u[t1] = "pml4" /\ u[t2] = "pml4"
             /\ (k1 = k2 /\ k1 >= HALF) \/ n[t1][k1].to \notin Frames
      BY <2>1 DEF Pages, Once
    <3>2. w[t1] = u[t1] \/ (t1 = c /\ k1 = j)
      OBVIOUS
    <3>3. w[t2] = u[t2] \/ (t2 = c /\ k2 = j)
      OBVIOUS
    <3>4. w[n[t1][k1].to] = Child[w[t1]] /\ w[n[t2][k2].to] = Child[w[t2]]
      BY <1>1 DEF Below
    <3>5. w[t1] \in Live /\ w[t2] \in Live
      BY DEF Leads
    <3>6. w[t1] = w[t2]
      BY <3>4, <3>5 DEF Child, Live
    <3>7. u[t1] \in Live /\ u[t2] \in Live
      BY <2>1 DEF Leads
    <3> QED
      BY <3>1, <3>2, <3>3, <3>6
  <2>2. CASE ~(Leads(u, m, t1, k1) /\ n[t1][k1] = m[t1][k1])
    BY <2>2
  <2>3. CASE ~(Leads(u, m, t2, k2) /\ n[t2][k2] = m[t2][k2])
    BY <2>3
  <2> QED
    BY <2>1, <2>2, <2>3
<1> QED
  BY <1>1, <1>2, <1>3 DEF Pages

\* The same without a new entry.
LEMMA Reduced ==
    ASSUME NEW u, NEW m, NEW av, Pages(u, m, av),
           NEW w \in [Memory -> Uses], NEW n, NEW bv,
           \A t \in Memory, k \in Entry : Leads(w, n, t, k) =>
               /\ Leads(u, m, t, k) /\ n[t][k] = m[t][k] /\ w[t] = u[t]
               /\ w[m[t][k].to] = u[m[t][k].to],
           \A t \in Memory, k \in Entry :
               w[t] \in Live /\ "huge" \in n[t][k].flags => w[t] = u[t] /\ n[t][k] = m[t][k],
           Empty(w, n),
           \A f \in bv : w[f] = "free"
    PROVE  Pages(w, n, bv)
<1>1. Change(u, m, w, n, 0, 0)
  BY DEF Change
<1>2. NotLarger(u, m, w, n, 0, 0)
  BY Places DEF NotLarger
<1>3. Sole(u, m, w, n)
  BY DEF Sole
<1> QED
  BY <1>1, <1>2, <1>3, Edited

LEMMA UseFacts ==
    ASSUME NEW u, NEW m \in Mem, NEW av \in SUBSET Frames, Pages(u, m, av)
    PROVE  /\ u \in [Memory -> Uses]
           /\ \A f \in av : u[f] = "free" /\ f \in Memory
           /\ \A t \in Memory, k \in Entry :
                  /\ m[t][k] \in Entries
                  /\ Leads(u, m, t, k) => /\ m[t][k].to \in Memory
                                          /\ u[m[t][k].to] = Child[u[t]]
                                          /\ u[m[t][k].to] \in {"dir", "table", "page"}
                                          /\ u[t] \in Live
<1>1. u \in [Memory -> Uses] /\ Below(u, m) /\ \A f \in av : u[f] = "free" /\ f \in Memory
  BY Places DEF Pages
<1>2. ASSUME NEW t \in Memory, NEW k \in Entry
      PROVE  /\ m[t][k] \in Entries
             /\ Leads(u, m, t, k) => /\ m[t][k].to \in Memory
                                     /\ u[m[t][k].to] = Child[u[t]]
                                     /\ u[m[t][k].to] \in {"dir", "table", "page"}
                                     /\ u[t] \in Live
  <2>1. m[t][k] \in Entries
    BY DEF Mem
  <2>2. Leads(u, m, t, k) => m[t][k].to \in Memory /\ u[t] \in Live
    BY <2>1, Places DEF Leads
  <2>3. Leads(u, m, t, k) => u[m[t][k].to] = Child[u[t]]
    BY <1>1 DEF Below
  <2>4. \A r \in Live : Child[r] \in {"dir", "table", "page"}
    BY DEF Child, Live
  <2> QED
    BY <2>1, <2>2, <2>3, <2>4
<1> QED
  BY <1>1, <1>2

\* An entry is cleared.
LEMMA ClearPage ==
    ASSUME NEW u, NEW m \in Mem, NEW av \in SUBSET Frames, Pages(u, m, av),
           NEW c \in Memory, NEW j \in Entry, u[c] \in Live
    PROVE  Pages(u, [m EXCEPT ![c][j] = Zero], av)
<1> DEFINE n == [m EXCEPT ![c][j] = Zero]
<1>1. \A t \in Memory, k \in Entry : n[t][k] = IF t = c /\ k = j THEN Zero ELSE m[t][k]
  BY DEF Mem
<1>2. \A t \in Memory : t # c => n[t] = m[t]
  BY DEF Mem
<1> HIDE DEF n
<1>3. ~Present(Zero) /\ "huge" \notin Zero.flags
  BY DEF Zero, Present, NULL
<1>4. Empty(u, n)
  BY <1>2 DEF Empty, Pages, Live
<1>5. u \in [Memory -> Uses] /\ \A f \in av : u[f] = "free"
  BY DEF Pages
<1>6. \A t \in Memory, k \in Entry : Leads(u, n, t, k) => Leads(u, m, t, k) /\ n[t][k] = m[t][k]
  BY <1>1, <1>3 DEF Leads
<1>7. Pages(u, n, av)
  BY <1>1, <1>3, <1>4, <1>5, <1>6, Reduced
<1> QED
  BY <1>7 DEF n

\* A frame that nothing leads to goes back to the allocator.
LEMMA GivePage ==
    ASSUME NEW u, NEW m \in Mem, NEW av \in SUBSET Frames, Pages(u, m, av), NEW f \in Frames,
           \A t \in Memory, k \in Entry : Leads(u, m, t, k) => t = f \/ m[t][k].to # f
    PROVE  Pages([u EXCEPT ![f] = "free"], m, av \cup {f})
<1> DEFINE w == [u EXCEPT ![f] = "free"]
<1>1. f \in Memory /\ u \in [Memory -> Uses]
  BY Places DEF Pages
<1>2. /\ w \in [Memory -> Uses] /\ w[f] = "free"
      /\ \A t \in Memory : t # f => w[t] = u[t]
  BY <1>1 DEF Uses
<1> HIDE DEF w
<1>3. Empty(w, m)
  BY <1>2 DEF Empty, Pages
<1>4. \A g \in av \cup {f} : w[g] = "free"
  BY <1>2, Places DEF Pages
<1>5. \A t \in Memory : w[t] \in Live => t # f /\ w[t] = u[t]
  BY <1>2 DEF Live
<1>6. \A t \in Memory, k \in Entry : Leads(w, m, t, k) =>
          Leads(u, m, t, k) /\ w[t] = u[t] /\ w[m[t][k].to] = u[m[t][k].to]
  <2> TAKE t \in Memory, k \in Entry
  <2>1. Leads(w, m, t, k) => t # f /\ w[t] = u[t] /\ Leads(u, m, t, k)
    BY <1>5 DEF Leads
  <2>2. Leads(u, m, t, k) => m[t][k].to \in Memory
    BY UseFacts
  <2> QED
    BY <1>2, <2>1, <2>2
<1>7. Pages(w, m, av \cup {f})
  BY <1>2, <1>3, <1>4, <1>5, <1>6, Reduced
<1> QED
  BY <1>7 DEF w

\* A fresh frame becomes a page that is not mapped yet, or a record.
LEMMA TakePage ==
    ASSUME NEW u, NEW m \in Mem, NEW av \in SUBSET Frames, Pages(u, m, av), NEW g \in av,
           NEW r \in {"page", "own"}
    PROVE  Pages([u EXCEPT ![g] = r], [m EXCEPT ![g] = Blank], av \ {g})
<1> DEFINE w == [u EXCEPT ![g] = r]
           n == [m EXCEPT ![g] = Blank]
<1> HIDE DEF w, n
<1>0. u \in [Memory -> Uses] /\ \A f \in av : u[f] = "free" /\ f \in Memory
  BY UseFacts
<1>1. g \in Memory /\ u[g] = "free" /\ u \in [Memory -> Uses]
  BY <1>0
<1>2. /\ w \in [Memory -> Uses] /\ w[g] = r
      /\ \A t \in Memory : t # g => w[t] = u[t]
  BY <1>1 DEF Uses, w
<1>3. n[g] = Blank /\ \A t \in Memory : t # g => n[t] = m[t]
  BY <1>1 DEF Mem, n
<1>4. Empty(w, n)
  BY <1>2, <1>3 DEF Empty, Pages
<1>5. \A f \in av \ {g} : w[f] = "free"
  BY <1>2, UseFacts
<1>6. \A t \in Memory : w[t] \in Live => t # g /\ w[t] = u[t] /\ n[t] = m[t]
  BY <1>2, <1>3 DEF Live
<1>7. \A t \in Memory, k \in Entry : Leads(w, n, t, k) =>
          Leads(u, m, t, k) /\ n[t][k] = m[t][k] /\ w[t] = u[t] /\ w[m[t][k].to] = u[m[t][k].to]
  <2> TAKE t \in Memory, k \in Entry
  <2>1. Leads(w, n, t, k) => t # g /\ w[t] = u[t] /\ n[t] = m[t] /\ Leads(u, m, t, k)
    BY <1>6 DEF Leads
  <2>2. Leads(u, m, t, k) => m[t][k].to \in Memory /\ u[m[t][k].to] \in {"dir", "table", "page"}
    BY UseFacts
  <2> QED
    BY <1>1, <1>2, <2>1, <2>2
<1>8. Pages(w, n, av \ {g})
  BY <1>2, <1>4, <1>5, <1>6, <1>7, Reduced
<1> QED
  BY <1>8 DEF w, n

\* A fresh frame becomes a table, empty and linked into the one above.
LEMMA LinkPage ==
    ASSUME NEW u, NEW m \in Mem, NEW av \in SUBSET Frames, Pages(u, m, av), NEW g \in av,
           NEW c \in Memory, NEW j \in Entry, u[c] \in {"pml4", "dir"}, NEW fl \in SUBSET Rights
    PROVE  Pages([u EXCEPT ![g] = Child[u[c]]],
                 [[m EXCEPT ![g] = Blank] EXCEPT ![c][j] = [to |-> g, flags |-> fl]], av \ {g})
<1> DEFINE e == [to |-> g, flags |-> fl]
           w == [u EXCEPT ![g] = Child[u[c]]]
           n == [[m EXCEPT ![g] = Blank] EXCEPT ![c][j] = e]
<1>0. e.to = g /\ "huge" \notin e.flags
  BY DEF Rights
<1>1. g \in Memory /\ u[g] = "free" /\ u \in [Memory -> Uses] /\ g # c
  BY UseFacts
<1>2. Child[u[c]] \in {"dir", "table"} /\ u[c] \in Live
  BY DEF Child, Live
<1>3. /\ w \in [Memory -> Uses] /\ w[g] = Child[u[c]]
      /\ \A t \in Memory : t # g => w[t] = u[t]
  BY <1>1, <1>2 DEF Uses, Live
<1> HIDE DEF e
<1>4. n[g] = Blank /\ (\A t \in Memory : t # g /\ t # c => n[t] = m[t])
      /\ \A t \in Memory, k \in Entry : t # g => n[t][k] = IF t = c /\ k = j THEN e ELSE m[t][k]
  BY <1>1 DEF Mem
<1> HIDE DEF w, n
<1>5. Empty(w, n)
  <2>1. Empty(u, m)
    BY DEF Pages
  <2>2. u[c] # "page"
    BY <1>2 DEF Live
  <2> QED
    BY <1>1, <1>2, <1>3, <1>4, <2>1, <2>2 DEF Empty
<1>6. \A f \in av \ {g} : w[f] = "free"
  BY <1>3, UseFacts
<1>7. \A k \in Entry : ~Present(Blank[k]) /\ "huge" \notin Blank[k].flags
  BY DEF Blank, Entry, Zero, Present, NULL
<1>8. \A t \in Memory, k \in Entry : Leads(w, n, t, k) =>
          \/ /\ Leads(u, m, t, k) /\ n[t][k] = m[t][k] /\ w[t] = u[t]
             /\ w[m[t][k].to] = u[m[t][k].to] /\ n[t][k].to # g
          \/ t = c /\ k = j /\ n[t][k].to = g /\ w[n[t][k].to] = Child[w[t]]
  <2> TAKE t \in Memory, k \in Entry
  <2>1. CASE t = g
    BY <2>1, <1>4, <1>7 DEF Leads
  <2>2. CASE t # g /\ t = c /\ k = j
    BY <2>2, <1>0, <1>3, <1>4
  <2>3. CASE t # g /\ ~(t = c /\ k = j)
    <3>1. n[t][k] = m[t][k] /\ w[t] = u[t]
      BY <2>3, <1>3, <1>4
    <3>2. Leads(w, n, t, k) => Leads(u, m, t, k)
      BY <3>1 DEF Leads
    <3>3. Leads(u, m, t, k) => m[t][k].to \in Memory /\ u[m[t][k].to] \in {"dir", "table", "page"}
      BY UseFacts
    <3> QED
      BY <1>1, <1>3, <3>1, <3>2, <3>3
  <2> QED
    BY <2>1, <2>2, <2>3
<1>9. NotLarger(u, m, w, n, c, j)
  <2>1. n[c][j].to \notin LowDirs
    BY <1>0, <1>1, <1>4, Places
  <2> QED
    BY <1>0, <1>3, <1>4, <1>7, <2>1 DEF NotLarger
<1>10. Change(u, m, w, n, c, j)
  BY <1>8 DEF Change
<1>11. Sole(u, m, w, n)
  BY <1>8 DEF Sole
<1>12. Pages(w, n, av \ {g})
  BY <1>3, <1>5, <1>6, <1>9, <1>10, <1>11, Edited
<1> QED
  BY <1>12 DEF w, n, e

\* A page that nothing leads to is mapped.
LEMMA LeafPage ==
    ASSUME NEW u, NEW m \in Mem, NEW av \in SUBSET Frames, Pages(u, m, av),
           NEW c \in Memory, NEW j \in Entry, u[c] = "table", NEW f \in Memory, u[f] = "page",
           NEW fl \in SUBSET Rights,
           \A t \in Memory, k \in Entry : Leads(u, m, t, k) => m[t][k].to # f
    PROVE  Pages(u, [m EXCEPT ![c][j] = [to |-> f, flags |-> fl]], av)
<1> DEFINE e == [to |-> f, flags |-> fl]
           n == [m EXCEPT ![c][j] = e]
<1>0. e.to = f /\ "huge" \notin e.flags /\ Child["table"] = "page" /\ "table" \in Live
  BY DEF Rights, Child, Live
<1> HIDE DEF e
<1>1. \A t \in Memory, k \in Entry : n[t][k] = IF t = c /\ k = j THEN e ELSE m[t][k]
  BY DEF Mem
<1>2. \A t \in Memory : t # c => n[t] = m[t]
  BY DEF Mem
<1> HIDE DEF n
<1>4. Empty(u, n)
  BY <1>2 DEF Empty, Pages, Live
<1>5. u \in [Memory -> Uses] /\ \A g \in av : u[g] = "free"
  BY DEF Pages
<1>6. \A t \in Memory, k \in Entry : Leads(u, n, t, k) =>
          \/ Leads(u, m, t, k) /\ n[t][k] = m[t][k] /\ n[t][k].to # f
          \/ t = c /\ k = j /\ n[t][k].to = f /\ u[n[t][k].to] = Child[u[t]]
  BY <1>0, <1>1 DEF Leads
<1>7. NotLarger(u, m, u, n, c, j)
  BY <1>0, <1>1 DEF NotLarger
<1>8. Change(u, m, u, n, c, j)
  BY <1>6 DEF Change
<1>9. Sole(u, m, u, n)
  BY <1>6 DEF Sole
<1>10. Pages(u, n, av)
  BY <1>4, <1>5, <1>7, <1>8, <1>9, Edited
<1> QED
  BY <1>10 DEF n, e

\* The pages of a call at work, some of which are known: those that hold structures
\* and records, the tables of level 3, and pages that are mapped nowhere.
Unled(u, m, f) == \A t \in Memory, k \in Entry : Leads(u, m, t, k) => m[t][k].to # f
Held(u, m, own, roots, loose) ==
    /\ \A f \in own : f \in Memory /\ u[f] = "own"
    /\ \A f \in roots : f \in Memory /\ u[f] = "pml4"
    /\ \A f \in loose : f \in Memory /\ u[f] = "page" /\ Unled(u, m, f)
Roles(m, av, own, roots, loose) ==
    \E u : Pages(u, m, av) /\ Held(u, m, own, roots, loose)
Kept(own, roots, loose) ==
    {x \in Works : x.fate = "runs" => Roles(x.mem, x.avail, own, roots, loose)}

LEMMA KeptFewer ==
    ASSUME NEW own, NEW roots, NEW loose, NEW s \in Kept(own, roots, loose)
    PROVE  s \in Kept(own, roots, {})
BY DEF Kept, Roles, Held

\* The walk of the tables.
LEMMA Walk ==
    ASSUME NEW u, NEW m \in Mem, NEW av \in SUBSET Frames, Pages(u, m, av),
           NEW p \in Memory, u[p] = "pml4", NEW a \in Nat
    PROVE  LET t2 == TableAt(m, p, a, 2)
               t1 == TableAt(m, p, a, 1)
           IN /\ t2 # NULL => /\ t2 \in Memory /\ u[t2] = "dir" /\ Leads(u, m, p, Index(a, 3))
                              /\ t2 = m[p][Index(a, 3)].to
              /\ t1 # NULL => /\ t2 # NULL /\ t1 \in Memory /\ u[t1] = "table"
                              /\ Leads(u, m, t2, Index(a, 2)) /\ t1 = m[t2][Index(a, 2)].to
<1> DEFINE t2 == TableAt(m, p, a, 2)
           t1 == TableAt(m, p, a, 1)
           i == Index(a, 3)
           j == Index(a, 2)
<1>1. t2 = Sub(m[p][i]) /\ t1 = IF t2 = NULL THEN NULL ELSE Sub(m[t2][j])
  BY TableSteps
<1>2. i \in Entry /\ j \in Entry
  BY IndexType
<1> HIDE DEF t2, t1, i, j
<1>3. \A t \in Memory, k \in Entry : u[t] \in Live /\ Sub(m[t][k]) # NULL =>
          /\ Leads(u, m, t, k) /\ Sub(m[t][k]) = m[t][k].to /\ m[t][k].to \in Memory
          /\ u[m[t][k].to] = Child[u[t]]
  <2> TAKE t \in Memory, k \in Entry
  <2>1. u[t] \in Live /\ Sub(m[t][k]) # NULL => Leads(u, m, t, k) /\ Sub(m[t][k]) = m[t][k].to
    BY DEF Sub, Leads, Present
  <2> QED
    BY <2>1, UseFacts
<1>4. Child["pml4"] = "dir" /\ Child["dir"] = "table" /\ "pml4" \in Live /\ "dir" \in Live
  BY DEF Child, Live
<1>5. t2 # NULL => t2 \in Memory /\ u[t2] = "dir" /\ Leads(u, m, p, i) /\ t2 = m[p][i].to
  BY <1>1, <1>2, <1>3, <1>4
<1>6. t1 # NULL => /\ t2 # NULL /\ t1 \in Memory /\ u[t1] = "table"
                   /\ Leads(u, m, t2, j) /\ t1 = m[t2][j].to
  BY <1>1, <1>2, <1>3, <1>4, <1>5
<1> QED
  BY <1>5, <1>6 DEF t2, t1, i, j

\* The addresses in the kernel's space that paging_init mapped by large pages.
Low(p, a) == p = KernelPml4 /\ LargeAt(BootMem, KernelPml4, a)

\* A walk meets a large page only at those.
LEMMA LargeIsLow ==
    ASSUME NEW u, NEW m \in Mem, NEW av \in SUBSET Frames, Pages(u, m, av),
           NEW p \in Memory, u[p] = "pml4", NEW a \in Nat, LargeAt(m, p, a)
    PROVE  Low(p, a)
<1> DEFINE t2 == TableAt(m, p, a, 2)
           i == Index(a, 3)
           j == Index(a, 2)
<1>1. i \in Entry /\ j \in Entry
  BY IndexType
<1>2. t2 # NULL /\ "huge" \in m[t2][j].flags
  BY DEF LargeAt
<1>3. t2 \in Memory /\ u[t2] = "dir" /\ Leads(u, m, p, i) /\ t2 = m[p][i].to
  BY <1>2, Walk
<1>4. t2 = Sub(m[p][i])
  BY TableSteps
<1>5. TableAt(BootMem, KernelPml4, a, 2) = Sub(BootMem[KernelPml4][i])
  BY TableSteps
<1> HIDE DEF t2, i, j
<1>6. t2 \in LowDirs /\ m[t2][j] = BootMem[t2][j]
  BY <1>1, <1>2, <1>3 DEF Pages, Large, Live
<1>7. p = KernelPml4 /\ m[p][i] = BootMem[p][i]
  BY <1>1, <1>3, <1>6 DEF Pages, Large, Leads
<1>8. TableAt(BootMem, KernelPml4, a, 2) = t2
  BY <1>4, <1>5, <1>7
<1> QED
  BY <1>2, <1>6, <1>7, <1>8 DEF Low, LargeAt, j

\* A frame that is used otherwise stays what it is.
LEMMA HeldStays ==
    ASSUME NEW u, NEW m, NEW w, NEW n, NEW own, NEW roots, NEW loose,
           Held(u, m, own, roots, loose),
           \A f \in Memory : u[f] \in {"own", "pml4", "page"} => w[f] = u[f],
           \A f \in Memory : u[f] = "page" /\ Unled(u, m, f) => Unled(w, n, f)
    PROVE  Held(w, n, own, roots, loose)
BY DEF Held

LEMMA TakeKeeps ==
    ASSUME NEW own, NEW roots, NEW loose, NEW s \in Kept(own, roots, loose), s.avail # {}
    PROVE  /\ Take(s) \in Kept(own, roots, loose \cup {Fresh(s)})
           /\ Take(s) \in Kept(own \cup {Fresh(s)}, roots, loose)
<1> DEFINE g == Fresh(s)
           n == [s.mem EXCEPT ![g] = Blank]
           av == s.avail \ {g}
<1>1. s \in Works /\ (s.fate = "runs" => Roles(s.mem, s.avail, own, roots, loose))
  BY DEF Kept
<1>2. g \in s.avail /\ g \in Memory
  BY <1>1, FreshIn
<1>3. Take(s) \in Works /\ Take(s).mem = n /\ Take(s).avail = av /\ Take(s).fate = s.fate
  BY <1>1, TakeType
<1> HIDE DEF g
<1>4. s.mem \in Mem /\ s.avail \in SUBSET Frames
  BY <1>1 DEF Works
<1>5. ASSUME s.fate = "runs", NEW r \in {"page", "own"}
      PROVE  Roles(n, av, IF r = "own" THEN own \cup {g} ELSE own, roots,
                   IF r = "page" THEN loose \cup {g} ELSE loose)
  <2>1. PICK u : Pages(u, s.mem, s.avail) /\ Held(u, s.mem, own, roots, loose)
    BY <1>1, <1>5 DEF Roles
  <2> DEFINE w == [u EXCEPT ![g] = r]
  <2>2. Pages(w, n, av)
    BY <1>2, <1>4, <1>5, <2>1, TakePage
  <2>3. u[g] = "free" /\ u \in [Memory -> Uses]
    BY <1>2, <2>1 DEF Pages
  <2>4. w[g] = r /\ \A f \in Memory : f # g => w[f] = u[f]
    BY <1>2, <2>3
  <2>5. n[g] = Blank /\ \A f \in Memory : f # g => n[f] = s.mem[f]
    BY <1>2, <1>4 DEF Mem
  <2> HIDE DEF w, n
  <2>6. \A t \in Memory, k \in Entry : Leads(w, n, t, k) =>
            Leads(u, s.mem, t, k) /\ n[t][k] = s.mem[t][k]
    BY <2>4, <2>5 DEF Leads, Live
  <2>7. Unled(w, n, g)
    <3> SUFFICES ASSUME NEW t \in Memory, NEW k \in Entry, Leads(w, n, t, k)
                 PROVE  n[t][k].to # g
      BY DEF Unled
    <3>1. u[s.mem[t][k].to] \in {"dir", "table", "page"}
      BY <1>4, <2>1, <2>6, UseFacts
    <3> QED
      BY <2>3, <2>6, <3>1
  <2>8. Held(w, n, own, roots, loose)
    <3>1. \A f \in Memory : u[f] = "page" /\ Unled(u, s.mem, f) => Unled(w, n, f)
      BY <2>6 DEF Unled
    <3> QED
      BY <2>1, <2>3, <2>4, <3>1, HeldStays
  <2>9. Held(w, n, IF r = "own" THEN own \cup {g} ELSE own, roots,
             IF r = "page" THEN loose \cup {g} ELSE loose)
    BY <1>2, <2>4, <2>7, <2>8 DEF Held
  <2> QED
    BY <2>2, <2>9 DEF Roles
<1> HIDE DEF n, av
<1>6. s.fate = "runs" => Roles(n, av, own, roots, loose \cup {g})
                         /\ Roles(n, av, own \cup {g}, roots, loose)
  BY <1>5
<1> QED
  BY <1>3, <1>6 DEF Kept, g

LEMMA RanOutKeeps ==
    ASSUME NEW own, NEW roots, NEW loose, NEW s \in Kept(own, roots, loose)
    PROVE  RanOut(s) \in Kept(own, roots, loose)
BY RanOutType DEF Kept

\* Whether a call that is still at work has pages known to be used so.
LEMMA KeptFacts ==
    ASSUME NEW own, NEW roots, NEW loose, NEW x \in Works
    PROVE  /\ x \in Kept(own, roots, loose) <=>
                  (x.fate = "runs" => Roles(x.mem, x.avail, own, roots, loose))
           /\ x.fate # "runs" => x \in Kept(own, roots, loose)
           /\ x.mem \in Mem /\ x.avail \in SUBSET Frames
BY DEF Kept, Works

LEMMA DescendKeeps ==
    ASSUME NEW own, NEW roots, NEW loose, NEW s \in Kept(own, roots, loose),
           NEW p \in roots \cap Memory, NEW a \in Nat, NEW l \in 2 .. 3, NEW fl \in SUBSET Rights,
           ~Low(p, a)
    PROVE  Descend(s, p, a, l, fl) \in Kept(own, roots, loose)
<1> DEFINE t == TableAt(s.mem, p, a, l)
           k == Index(a, l)
           g == Fresh(s)
           rt == {"w"} \cup (fl \cap {"u"})
           n == [[s.mem EXCEPT ![g] = Blank] EXCEPT ![t][k] = [to |-> g, flags |-> rt]]
           d == Descend(s, p, a, l, fl)
<1>1. s \in Works /\ (s.fate = "runs" => Roles(s.mem, s.avail, own, roots, loose))
  BY DEF Kept
<1>2. d \in Works /\ d.fate = s.fate
  BY <1>1, DescendType
<1> DEFINE large == t # NULL /\ l = 2 /\ "huge" \in s.mem[t][k].flags
<1>3. ~large => d = IF t = NULL \/ Present(s.mem[t][k]) THEN s
                    ELSE IF s.avail = {} THEN RanOut(s)
                    ELSE [Take(s) EXCEPT !.mem[t][k] = [to |-> g, flags |-> rt]]
  BY DEF Descend
<1>4. k \in Entry /\ s.mem \in Mem /\ s.avail \in SUBSET Frames
  BY <1>1, IndexType DEF Works
<1>8. CASE large
  <2> SUFFICES ASSUME s.fate = "runs" PROVE FALSE
    BY <1>2, KeptFacts
  <2>1. PICK u : Pages(u, s.mem, s.avail) /\ Held(u, s.mem, own, roots, loose)
    BY <1>1 DEF Roles
  <2>2. u[p] = "pml4"
    BY <2>1 DEF Held
  <2>3. LargeAt(s.mem, p, a)
    BY <1>8 DEF LargeAt
  <2> QED
    BY <1>4, <2>1, <2>2, <2>3, LargeIsLow
<1>5. CASE ~large /\ (t = NULL \/ Present(s.mem[t][k]))
  BY <1>3, <1>5
<1>6. CASE ~large /\ ~(t = NULL \/ Present(s.mem[t][k])) /\ s.avail = {}
  BY <1>3, <1>6, RanOutKeeps
<1>7. CASE ~large /\ ~(t = NULL \/ Present(s.mem[t][k])) /\ s.avail # {}
  <2>1. g \in s.avail /\ g \in Memory
    BY <1>1, <1>7, FreshIn
  <2>2. d = [Take(s) EXCEPT !.mem[t][k] = [to |-> g, flags |-> rt]]
    BY <1>3, <1>7
  <2>3. d.mem = n /\ d.avail = s.avail \ {g}
    <3>1. Take(s).mem = [s.mem EXCEPT ![g] = Blank] /\ Take(s).avail = s.avail \ {g}
          /\ Take(s) \in Works
      BY <1>1, <1>7, TakeType
    <3> HIDE DEF d, t, k, g
    <3> QED
      BY <2>2, <3>1 DEF Works
  <2> SUFFICES ASSUME s.fate = "runs"
               PROVE  Roles(n, s.avail \ {g}, own, roots, loose)
    BY <1>2, <2>3 DEF Kept
  <2>4. PICK u : Pages(u, s.mem, s.avail) /\ Held(u, s.mem, own, roots, loose)
    BY <1>1 DEF Roles
  <2>5. u[p] = "pml4"
    BY <2>4 DEF Held
  <2>6. t \in Memory /\ u[t] \in {"pml4", "dir"}
    <3>1. CASE l = 3
      BY <2>5, <3>1, TableSteps
    <3>2. CASE l = 2
      BY <1>4, <1>7, <2>4, <2>5, <3>2, Walk
    <3> QED
      BY <3>1, <3>2
  <2> HIDE DEF t, k, g, d, large
  <2> DEFINE w == [u EXCEPT ![g] = Child[u[t]]]
  <2>7. rt \in SUBSET Rights
    BY DEF Rights
  <2> HIDE DEF rt
  <2>8. Pages(w, n, s.avail \ {g})
    BY <1>4, <2>1, <2>4, <2>6, <2>7, LinkPage
  <2>9. u[g] = "free" /\ u \in [Memory -> Uses]
    BY <2>1, <2>4 DEF Pages
  <2>10. Child[u[t]] \in {"dir", "table"}
    BY <2>6 DEF Child, Live
  <2>11. w[g] \in {"dir", "table"} /\ \A f \in Memory : f # g => w[f] = u[f]
    BY <2>1, <2>9, <2>10
  <2>12. g # t
    BY <2>6, <2>9
  <2>13. \A q \in Memory, i \in Entry :
            n[q][i] = IF q = t /\ i = k THEN [to |-> g, flags |-> rt]
                      ELSE IF q = g THEN Zero ELSE s.mem[q][i]
    BY <1>4, <2>1, <2>6, <2>12 DEF Mem, Blank, Entry
  <2> HIDE DEF w, n
  <2>14. ASSUME NEW f \in Memory, u[f] = "page", Unled(u, s.mem, f)
         PROVE  Unled(w, n, f)
    <3> SUFFICES ASSUME NEW q \in Memory, NEW i \in Entry, Leads(w, n, q, i)
                 PROVE  n[q][i].to # f
      BY DEF Unled
    <3>1. CASE q = t /\ i = k
      BY <2>9, <2>13, <2>14, <3>1
    <3>2. CASE q = g
      <4>1. n[q][i] = Zero
        BY <2>12, <2>13, <3>2
      <4> QED
        BY <4>1 DEF Leads, Zero, Present
    <3>3. CASE ~(q = t /\ i = k) /\ q # g
      <4>1. n[q][i] = s.mem[q][i] /\ w[q] = u[q]
        BY <2>11, <2>13, <3>3
      <4>2. Leads(u, s.mem, q, i)
        BY <4>1 DEF Leads
      <4> QED
        BY <2>14, <4>1, <4>2 DEF Unled
    <3> QED
      BY <3>1, <3>2, <3>3
  <2>15. Held(w, n, own, roots, loose)
    BY <2>4, <2>9, <2>11, <2>14, HeldStays
  <2> QED
    BY <2>8, <2>15 DEF Roles
<1> QED
  BY <1>5, <1>6, <1>7, <1>8

\* A page that is mapped nowhere is mapped, if its tables can be had.
LEMMA MapKeeps ==
    ASSUME NEW own, NEW roots, NEW f \in Memory, NEW s \in Kept(own, roots, {f}),
           NEW p \in roots \cap Memory, NEW a \in Nat, NEW fl \in SUBSET Rights, ~Low(p, a)
    PROVE  Map(s, p, a, f, fl) \in Kept(own, roots, {})
<1> DEFINE d3 == Descend(s, p, a, 3, fl)
           d == Descend(d3, p, a, 2, fl)
           t == TableAt(d.mem, p, a, 1)
           k == Index(a, 1)
           c == Map(s, p, a, f, fl)
           n == [d.mem EXCEPT ![t][k] = [to |-> f, flags |-> fl]]
<1>1. s \in Works /\ f \in 0 .. TOP - 1
  BY Places DEF Kept
<1>2. c \in Works /\ c.fate = s.fate
  BY <1>1, MapType
<1>3. d3 \in Kept(own, roots, {f})
  BY DescendKeeps
<1>4. d3 \in Works
  BY <1>3 DEF Kept
<1> HIDE DEF d3
<1>5. d \in Kept(own, roots, {f})
  BY <1>3, DescendKeeps
<1>6. c = IF t = NULL THEN d ELSE [d EXCEPT !.mem[t][k] = [to |-> f, flags |-> fl]]
  BY DEF Map, d3
<1> SUFFICES c \in Kept(own, roots, {})
  OBVIOUS
<1> HIDE DEF d, c
<1>7. d \in Works /\ (d.fate = "runs" => Roles(d.mem, d.avail, own, roots, {f}))
      /\ d.mem \in Mem /\ d.avail \in SUBSET Frames
  BY <1>5 DEF Kept, Works
<1>8. c \in Kept(own, roots, {}) <=> (c.fate = "runs" => Roles(c.mem, c.avail, own, roots, {}))
  BY <1>2 DEF Kept
<1>9. d \in Kept(own, roots, {})
  BY <1>5, KeptFewer
<1>10. CASE t = NULL
  BY <1>6, <1>9, <1>10
<1>11. CASE t # NULL
  <2>1. c.mem = n /\ c.avail = d.avail /\ c.fate = d.fate
    BY <1>6, <1>7, <1>11 DEF Works
  <2> SUFFICES ASSUME d.fate = "runs"
               PROVE  Roles(n, d.avail, own, roots, {})
    BY <1>8, <2>1
  <2>2. PICK u : Pages(u, d.mem, d.avail) /\ Held(u, d.mem, own, roots, {f})
    BY <1>7 DEF Roles
  <2>3. u[p] = "pml4" /\ u[f] = "page" /\ Unled(u, d.mem, f)
    BY <2>2 DEF Held
  <2>4. t \in Memory /\ u[t] = "table" /\ k \in Entry
    BY <1>7, <1>11, <2>2, <2>3, Walk, IndexType
  <2> HIDE DEF t, k
  <2>5. Pages(u, n, d.avail)
    BY <1>7, <2>2, <2>3, <2>4, LeafPage DEF Unled
  <2>6. Held(u, n, own, roots, {})
    BY <2>2 DEF Held
  <2> QED
    BY <2>5, <2>6 DEF Roles
<1> QED
  BY <1>10, <1>11

\* What a translation finds: nothing, a part of a large page, or what an entry of
\* a table leads to.
LEMMA Found ==
    ASSUME NEW u, NEW m \in Mem, NEW av \in SUBSET Frames, Pages(u, m, av),
           NEW p \in Memory, u[p] = "pml4", NEW a \in Nat
    PROVE  LET e == virt_to_phys(m, p, a)
               t == TableAt(m, p, a, 1)
               k == Index(a, 1)
           IN /\ t = NULL /\ ~Low(p, a) => ~Present(e)
              /\ t # NULL => /\ t \in Memory /\ k \in Entry /\ u[t] = "table" /\ e = m[t][k]
                             /\ Present(e) => /\ Leads(u, m, t, k) /\ u[e.to] = "page"
                                              /\ e.to \in Memory
<1> DEFINE e == virt_to_phys(m, p, a)
           t2 == TableAt(m, p, a, 2)
           t == TableAt(m, p, a, 1)
           k == Index(a, 1)
           j == Index(a, 2)
           i == Index(a, 3)
<1>1. /\ t2 # NULL => /\ t2 \in Memory /\ u[t2] = "dir" /\ Leads(u, m, p, i)
                      /\ t2 = m[p][i].to
      /\ t # NULL => /\ t2 # NULL /\ t \in Memory /\ u[t] = "table"
                     /\ Leads(u, m, t2, j) /\ t = m[t2][j].to
  BY Walk
<1>2. e = IF t2 = NULL THEN Zero
          ELSE IF "huge" \in m[t2][j].flags
            THEN Piece(m[t2][j], k)
          ELSE IF t = NULL THEN Zero ELSE m[t][k]
  BY DEF virt_to_phys
<1>3. i \in Entry /\ j \in Entry /\ k \in Entry
  BY IndexType
<1>4. t = IF t2 = NULL THEN NULL ELSE Sub(m[t2][j])
  BY TableSteps
<1> HIDE DEF t2, t, k, j, i, e
<1>5. ~Present(Zero)
  BY DEF Present, Zero
<1>8. t2 # NULL /\ "huge" \in m[t2][j].flags => Low(p, a)
  BY LargeIsLow DEF LargeAt, t2, j
<1>6. t = NULL /\ ~Low(p, a) => ~Present(e)
  BY <1>2, <1>5, <1>8
<1>7. t # NULL => /\ t \in Memory /\ k \in Entry /\ u[t] = "table" /\ e = m[t][k]
                  /\ Present(e) => Leads(u, m, t, k) /\ u[e.to] = "page" /\ e.to \in Memory
  <2> SUFFICES ASSUME t # NULL
               PROVE  /\ t \in Memory /\ k \in Entry /\ u[t] = "table" /\ e = m[t][k]
                      /\ Present(e) => Leads(u, m, t, k) /\ u[e.to] = "page" /\ e.to \in Memory
    OBVIOUS
  <2>1. t \in Memory /\ k \in Entry /\ u[t] = "table" /\ t2 # NULL /\ "huge" \notin m[t2][j].flags
    BY <1>1, <1>3 DEF Leads
  <2>2. e = m[t][k]
    BY <1>2, <2>1
  <2>3. "huge" \notin m[t][k].flags
    <3>1. "table" \in Live
      BY DEF Live
    <3> QED
      BY <2>1, <3>1 DEF Pages, Large
  <2>4. Present(e) => Leads(u, m, t, k)
    BY <2>1, <2>2, <2>3 DEF Leads, Live
  <2>5. Child["table"] = "page"
    BY DEF Child, Live
  <2> QED
    BY <2>1, <2>2, <2>4, <2>5, UseFacts
<1> QED
  BY <1>6, <1>7 DEF e, t, k, t2, j, i

\* Of the entries that lead to a page, there is one.
LEMMA Alone ==
    ASSUME NEW u, NEW m, NEW av, Pages(u, m, av),
           NEW t \in Memory, NEW k \in Entry, u[t] \in {"dir", "table"}, Leads(u, m, t, k),
           NEW q \in Memory, NEW i \in Entry, Leads(u, m, q, i), m[q][i].to = m[t][k].to
    PROVE  q = t /\ i = k
BY DEF Pages, Once

\* A page is unmapped, and mapped nowhere then.
LEMMA UnmapKeeps ==
    ASSUME NEW own, NEW roots, NEW s \in Kept(own, roots, {}),
           NEW p \in roots \cap Memory, NEW a \in Nat
    PROVE  LET e == virt_to_phys(s.mem, p, a)
               t == TableAt(s.mem, p, a, 1)
               x == Unmap(s, p, a)
           IN /\ x \in Kept(own, roots, {})
              /\ t = NULL => x = s
              /\ t # NULL /\ Present(e) => x \in Kept(own, roots, {e.to})
<1> DEFINE e == virt_to_phys(s.mem, p, a)
           t == TableAt(s.mem, p, a, 1)
           k == Index(a, 1)
           x == Unmap(s, p, a)
           n == [s.mem EXCEPT ![t][k] = Zero]
<1>1. s \in Works /\ x \in Works /\ x.fate = s.fate /\ x.avail = s.avail
      /\ (s.fate = "runs" => Roles(s.mem, s.avail, own, roots, {}))
  BY UnmapType DEF Kept
<1>2. x = IF t = NULL THEN s ELSE [s EXCEPT !.mem[t][k] = Zero]
  BY DEF Unmap
<1>3. s.mem \in Mem /\ s.avail \in SUBSET Frames
  BY <1>1, KeptFacts
<1>4. t # NULL => x.mem = n
  BY <1>1, <1>2 DEF Works
<1> SUFFICES ASSUME t # NULL
             PROVE  x \in Kept(own, roots, {}) /\ (Present(e) => x \in Kept(own, roots, {e.to}))
  BY <1>2
<1> HIDE DEF x
<1> SUFFICES ASSUME s.fate = "runs"
             PROVE  /\ Roles(n, s.avail, own, roots, {})
                    /\ Present(e) => Roles(n, s.avail, own, roots, {e.to})
  BY <1>1, <1>4, KeptFacts
<1>5. PICK u : Pages(u, s.mem, s.avail) /\ Held(u, s.mem, own, roots, {})
  BY <1>1 DEF Roles
<1>6. u[p] = "pml4"
  BY <1>5 DEF Held
<1>7. /\ t \in Memory /\ k \in Entry /\ u[t] = "table" /\ e = s.mem[t][k]
      /\ Present(e) => Leads(u, s.mem, t, k) /\ u[e.to] = "page" /\ e.to \in Memory
  BY <1>3, <1>5, <1>6, Found
<1> HIDE DEF t, k, e
<1>8. Pages(u, n, s.avail)
  BY <1>3, <1>5, <1>7, ClearPage DEF Live
<1>9. \A q \in Memory, i \in Entry : n[q][i] = IF q = t /\ i = k THEN Zero ELSE s.mem[q][i]
  BY <1>3, <1>7 DEF Mem
<1> HIDE DEF n
<1>10. Held(u, n, own, roots, {})
  BY <1>5 DEF Held
<1>11. Present(e) => Unled(u, n, e.to)
  <2> SUFFICES ASSUME Present(e), NEW q \in Memory, NEW i \in Entry, Leads(u, n, q, i)
               PROVE  n[q][i].to # e.to
    BY DEF Unled
  <2>1. ~(q = t /\ i = k)
    BY <1>9 DEF Leads, Present, Zero
  <2>2. n[q][i] = s.mem[q][i]
    BY <1>9, <2>1
  <2>3. Leads(u, s.mem, q, i)
    BY <2>2 DEF Leads
  <2>4. s.mem[q][i].to = s.mem[t][k].to => q = t /\ i = k
    BY <1>5, <1>7, <2>3, Alone
  <2> QED
    BY <1>7, <2>1, <2>2, <2>4
<1>12. Present(e) => Held(u, n, own, roots, {e.to})
  BY <1>7, <1>10, <1>11 DEF Held
<1> QED
  BY <1>8, <1>10, <1>12 DEF Roles

\* A page that is mapped nowhere is given back.
LEMMA GiveKeeps ==
    ASSUME NEW own, NEW roots, NEW e \in Entries, NEW s \in Kept(own, roots, {e.to})
    PROVE  FreePage(s, e) \in Kept(own, roots, {})
<1> DEFINE x == FreePage(s, e)
<1>1. s \in Works /\ (s.fate = "runs" => Roles(s.mem, s.avail, own, roots, {e.to}))
  BY DEF Kept
<1>2. /\ x \in Works /\ x.mem = s.mem
      /\ x.fate = "runs" => /\ s.fate = "runs" /\ e.to \in Frames \ s.avail
                            /\ x.avail = s.avail \cup {e.to}
  BY <1>1, FreePageType
<1> SUFFICES x \in Kept(own, roots, {})
  OBVIOUS
<1> HIDE DEF x
<1> SUFFICES ASSUME x.fate = "runs"
             PROVE  Roles(s.mem, s.avail \cup {e.to}, own, roots, {})
  BY <1>2, KeptFacts
<1>3. PICK u : Pages(u, s.mem, s.avail) /\ Held(u, s.mem, own, roots, {e.to})
  BY <1>1, <1>2 DEF Roles
<1> DEFINE f == e.to
           w == [u EXCEPT ![f] = "free"]
<1>4. f \in Frames /\ f \in Memory /\ u[f] = "page" /\ Unled(u, s.mem, f)
  BY <1>2, <1>3, Places DEF Held
<1> HIDE DEF f
<1>5. s.mem \in Mem /\ s.avail \in SUBSET Frames
  BY <1>1, KeptFacts
<1>6. Pages(w, s.mem, s.avail \cup {f})
  BY <1>3, <1>4, <1>5, GivePage DEF Unled
<1>7. \A g \in Memory : g # f => w[g] = u[g]
  BY <1>3 DEF Pages
<1>8. Held(w, s.mem, own, roots, {})
  BY <1>3, <1>4, <1>7 DEF Held
<1> QED
  BY <1>6, <1>8 DEF Roles, f

LEMMA DropKeeps ==
    ASSUME NEW own, NEW roots, NEW s \in Kept(own, roots, {}),
           NEW p \in roots \cap Memory, NEW a \in Nat, ~Low(p, a)
    PROVE  Drop(s, p, a) \in Kept(own, roots, {})
<1> DEFINE e == virt_to_phys(s.mem, p, a)
           t == TableAt(s.mem, p, a, 1)
           x == Unmap(s, p, a)
<1>1. s \in Works /\ s.mem \in Mem /\ s.avail \in SUBSET Frames
      /\ (s.fate = "runs" => Roles(s.mem, s.avail, own, roots, {}))
  BY KeptFacts DEF Kept
<1>2. e \in Entries
  BY <1>1, virtType
<1>3. Drop(s, p, a) = IF Present(e) THEN FreePage(x, e) ELSE s
  BY DEF Drop
<1>4. /\ t = NULL => x = s
      /\ t # NULL /\ Present(e) => x \in Kept(own, roots, {e.to})
  BY UnmapKeeps
<1> HIDE DEF x
<1>5. CASE ~Present(e)
  BY <1>3, <1>5
<1>6. CASE Present(e) /\ t # NULL
  BY <1>2, <1>3, <1>4, <1>6, GiveKeeps
<1>7. CASE Present(e) /\ t = NULL
  <2>1. FreePage(s, e) \in Works /\ (FreePage(s, e).fate = "runs" => s.fate = "runs")
    BY <1>1, <1>2, FreePageType
  <2>2. s.fate # "runs"
    <3> SUFFICES ASSUME s.fate = "runs" PROVE FALSE
      OBVIOUS
    <3>1. PICK u : Pages(u, s.mem, s.avail) /\ Held(u, s.mem, own, roots, {})
      BY <1>1 DEF Roles
    <3>2. u[p] = "pml4"
      BY <3>1 DEF Held
    <3> QED
      BY <1>1, <1>7, <3>1, <3>2, Found
  <2>3. FreePage(s, e) \in Kept(own, roots, {})
    BY <2>1, <2>2, KeptFacts
  <2> QED
    BY <1>3, <1>4, <1>7, <2>3
<1> QED
  BY <1>5, <1>6, <1>7

LEMMA BackPageKeeps ==
    ASSUME NEW own, NEW roots, NEW s \in Kept(own, roots, {}),
           NEW p \in roots \cap Memory, NEW a \in Nat, NEW fl \in SUBSET Rights, ~Low(p, a)
    PROVE  BackPage(s, p, a, fl) \in Kept(own, roots, {})
<1> DEFINE g == Fresh(s)
           x == Map(Take(s), p, a, g, fl)
<1>1. s \in Works /\ BackPage(s, p, a, fl) \in Works
  BY BackPageType DEF Kept
<1>2. BackPage(s, p, a, fl) = IF s.avail = {} THEN RanOut(s) ELSE [x EXCEPT !.count = @ + 1]
  BY DEF BackPage
<1>3. CASE s.avail = {}
  BY <1>2, <1>3, RanOutKeeps
<1>4. CASE s.avail # {}
  <2>1. g \in Memory
    BY <1>1, <1>4, FreshIn
  <2>2. Take(s) \in Kept(own, roots, {} \cup {g})
    BY <1>4, TakeKeeps
  <2>3. {} \cup {g} = {g}
    OBVIOUS
  <2>4. Take(s) \in Kept(own, roots, {g})
    BY <2>2, <2>3
  <2> HIDE DEF g
  <2>5. x \in Kept(own, roots, {})
    BY <2>1, <2>4, MapKeeps
  <2> HIDE DEF x
  <2>6. x \in Works
    BY <2>5 DEF Kept
  <2>7. [x EXCEPT !.count = @ + 1].mem = x.mem /\ [x EXCEPT !.count = @ + 1].avail = x.avail
        /\ [x EXCEPT !.count = @ + 1].fate = x.fate
    BY <2>6 DEF Works
  <2> QED
    BY <1>1, <1>2, <1>4, <2>5, <2>6, <2>7, KeptFacts
<1> QED
  BY <1>3, <1>4

LEMMA ReprotectKeeps ==
    ASSUME NEW own, NEW roots, NEW s \in Kept(own, roots, {}),
           NEW p \in roots \cap Memory, NEW a \in Nat, NEW fl \in SUBSET Rights, ~Low(p, a)
    PROVE  Reprotect(s, p, a, fl) \in Kept(own, roots, {})
<1> DEFINE e == virt_to_phys(s.mem, p, a)
           t == TableAt(s.mem, p, a, 1)
           x == Unmap(s, p, a)
<1>1. s \in Works /\ s.mem \in Mem /\ s.avail \in SUBSET Frames
      /\ (s.fate = "runs" => Roles(s.mem, s.avail, own, roots, {}))
  BY KeptFacts DEF Kept
<1>2. e \in Entries
  BY <1>1, virtType
<1>3. Reprotect(s, p, a, fl) = IF Present(e) THEN Map(x, p, a, e.to, fl) ELSE s
  BY DEF Reprotect
<1>4. /\ t = NULL => x = s
      /\ t # NULL /\ Present(e) => x \in Kept(own, roots, {e.to})
  BY UnmapKeeps
<1> HIDE DEF x
<1>5. CASE ~Present(e)
  BY <1>3, <1>5
<1>6. CASE Present(e) /\ t # NULL
  <2>1. e.to \in Memory
    BY <1>2, <1>6, Places
  <2> QED
    BY <1>3, <1>4, <1>6, <2>1, MapKeeps
<1>7. CASE Present(e) /\ t = NULL
  <2> DEFINE y == Map(s, p, a, e.to, fl)
  <2>1. y \in Works /\ y.fate = s.fate
    <3>1. e.to \in 0 .. TOP - 1
      BY <1>2 DEF Entries
    <3> QED
      BY <1>1, <3>1, MapType
  <2>2. Reprotect(s, p, a, fl) = y
    BY <1>3, <1>4, <1>7
  <2> SUFFICES y \in Kept(own, roots, {})
    BY <2>2
  <2> SUFFICES ASSUME s.fate = "runs" PROVE FALSE
    BY <2>1, KeptFacts
  <2>3. PICK u : Pages(u, s.mem, s.avail) /\ Held(u, s.mem, own, roots, {})
    BY <1>1 DEF Roles
  <2>4. u[p] = "pml4"
    BY <2>3 DEF Held
  <2> QED
    BY <1>1, <1>7, <2>3, <2>4, Found
<1> QED
  BY <1>5, <1>6, <1>7

LEMMA DropsKeep ==
    ASSUME NEW own, NEW roots, NEW s \in Kept(own, roots, {}),
           NEW p \in roots \cap Memory, NEW a \in Address, NEW n \in Nat,
           \A v \in Run(a, n) : ~Low(p, v)
    PROVE  DropPages(s, p, a, n) \in Kept(own, roots, {})
<1> DEFINE W == Kept(own, roots, {})
<1>1. s \in Works /\ s \in W
  BY DEF Kept
<1>2. ASSUME NEW x \in Works, NEW k \in 0 .. n - 1, x \in W
      PROVE  Drop(x, p, PageOf(a, k)) \in W
  <2>1. k \in Nat
    OBVIOUS
  <2>2. PageOf(a, k) \in Nat
    BY <2>1, Words
  <2>3. ~Low(p, PageOf(a, k))
    BY DEF Run
  <2> QED
    BY <1>2, <2>2, <2>3, DropKeeps
<1> HIDE DEF W
<1>3. DropPages(s, p, a, n) \in W
  BY <1>1, <1>2, DropLoop
<1> QED
  BY <1>3 DEF W

LEMMA BackKeeps ==
    ASSUME NEW own, NEW roots, NEW s \in Kept(own, roots, {}),
           NEW p \in roots \cap Memory, NEW a \in Address, NEW n \in Nat, NEW fl \in SUBSET Rights,
           \A v \in Run(a, n) : ~Low(p, v)
    PROVE  Back(s, p, a, n, fl) \in Kept(own, roots, {})
<1> DEFINE W == Kept(own, roots, {})
<1>1. s \in Works /\ s \in W
  BY DEF Kept
<1>2. ASSUME NEW x \in Works, NEW k \in 0 .. n - 1, x \in W
      PROVE  BackPage(x, p, PageOf(a, k), fl) \in W
  <2>1. k \in Nat
    OBVIOUS
  <2>2. PageOf(a, k) \in Nat
    BY <2>1, Words
  <2>3. ~Low(p, PageOf(a, k))
    BY DEF Run
  <2> QED
    BY <1>2, <2>2, <2>3, BackPageKeeps
<1> HIDE DEF W
<1>3. Back(s, p, a, n, fl) \in W
  BY <1>1, <1>2, BackLoop
<1> QED
  BY <1>3 DEF W

LEMMA UnmapsKeep ==
    ASSUME NEW own, NEW roots, NEW s \in Kept(own, roots, {}),
           NEW p \in roots \cap Memory, NEW a \in Address, NEW n \in Nat
    PROVE  UnmapEach(s, p, a, n) \in Kept(own, roots, {})
<1> DEFINE W == Kept(own, roots, {})
<1>1. s \in Works /\ s \in W
  BY DEF Kept
<1>2. ASSUME NEW x \in Works, NEW k \in 0 .. n - 1, x \in W
      PROVE  Unmap(x, p, PageOf(a, k)) \in W
  <2>1. k \in Nat
    OBVIOUS
  <2>2. PageOf(a, k) \in Nat
    BY <2>1, Words
  <2> QED
    BY <1>2, <2>2, UnmapKeeps
<1> HIDE DEF W
<1>3. UnmapEach(s, p, a, n) \in W
  BY <1>1, <1>2, UnmapLoop
<1> QED
  BY <1>3 DEF W

LEMMA ReprotectsKeep ==
    ASSUME NEW own, NEW roots, NEW s \in Kept(own, roots, {}),
           NEW p \in roots \cap Memory, NEW a \in Address, NEW n \in Nat, NEW fl \in SUBSET Rights,
           \A v \in Run(a, n) : ~Low(p, v)
    PROVE  ReprotectEach(s, p, a, n, fl) \in Kept(own, roots, {})
<1> DEFINE W == Kept(own, roots, {})
<1>1. s \in Works /\ s \in W
  BY DEF Kept
<1>2. ASSUME NEW x \in Works, NEW k \in 0 .. n - 1, x \in W
      PROVE  Reprotect(x, p, PageOf(a, k), fl) \in W
  <2>1. k \in Nat
    OBVIOUS
  <2>2. PageOf(a, k) \in Nat
    BY <2>1, Words
  <2>3. ~Low(p, PageOf(a, k))
    BY DEF Run
  <2> QED
    BY <1>2, <2>2, <2>3, ReprotectKeeps
<1> HIDE DEF W
<1>3. ReprotectEach(s, p, a, n, fl) \in W
  BY <1>1, <1>2, ReprotectLoop
<1> QED
  BY <1>3 DEF W

-----------------------------------------------------------------------------
(* Freeing tables.  An entry is cleared behind what it leads to: on the way  *)
(* down, the entries z of the tables above count as cleared, and the tables  *)
(* q, with their uses, are those that hang on them.                          *)

Cut(m, z) == [t \in Memory |-> [k \in Entry |-> IF <<t, k>> \in z THEN Zero ELSE m[t][k]]]
Clear(m, t, k) == [m EXCEPT ![t][k] = Zero]
Loose(u, m, q) ==
    \A l \in q : /\ l[1] \in Memory /\ u[l[1]] = l[2] /\ (l[1] \in Frames => Unled(u, m, l[1]))
                 /\ l[2] = "dir" => l[1] \notin LowDirs
Split(m, av, own, roots, q) ==
    \E u : Pages(u, m, av) /\ Held(u, m, own, roots, {}) /\ Loose(u, m, q)
Torn(own, roots, z, q) ==
    {x \in Works : x.fate = "runs" => Split(Cut(x.mem, z), x.avail, own, roots, q)}

LEMMA TornFacts ==
    ASSUME NEW own, NEW roots, NEW z, NEW q, NEW x \in Works
    PROVE  /\ x \in Torn(own, roots, z, q) <=>
                  (x.fate = "runs" => Split(Cut(x.mem, z), x.avail, own, roots, q))
           /\ x.fate # "runs" => x \in Torn(own, roots, z, q)
           /\ x.mem \in Mem /\ x.avail \in SUBSET Frames
BY DEF Torn, Works

LEMMA CutFacts ==
    ASSUME NEW m \in Mem, NEW z
    PROVE  /\ Cut(m, z) \in Mem
           /\ Cut(m, {}) = m
           /\ \A t \in Memory, k \in Entry :
                  Cut(m, z)[t][k] = IF <<t, k>> \in z THEN Zero ELSE m[t][k]
<1>1. Cut(m, z) \in Mem
  BY Places DEF Cut, Mem
<1>2. Cut(m, {}) = m
  BY DEF Cut, Mem
<1>3. \A t \in Memory, k \in Entry :
          Cut(m, z)[t][k] = IF <<t, k>> \in z THEN Zero ELSE m[t][k]
  BY DEF Cut
<1> QED
  BY <1>1, <1>2, <1>3

LEMMA CutMore ==
    ASSUME NEW m \in Mem, NEW z, NEW t \in Memory, NEW k \in Entry
    PROVE  Cut(m, z \cup {<<t, k>>}) = Clear(Cut(m, z), t, k)
BY DEF Cut, Clear

LEMMA CutClear ==
    ASSUME NEW m \in Mem, NEW z, NEW t \in Memory, NEW k \in Entry
    PROVE  Cut(Clear(m, t, k), z) = Cut(m, z \cup {<<t, k>>})
<1> DEFINE n == [m EXCEPT ![t][k] = Zero]
<1>1. \A r \in Memory, j \in Entry : n[r][j] = IF r = t /\ j = k THEN Zero ELSE m[r][j]
  BY DEF Mem
<1> HIDE DEF n
<1>2. Cut(n, z) = Cut(m, z \cup {<<t, k>>})
  BY <1>1 DEF Cut
<1> QED
  BY <1>2 DEF n, Clear

LEMMA TornWhole ==
    \A own, roots : Torn(own, roots, {}, {}) = Kept(own, roots, {})
<1> SUFFICES ASSUME NEW own, NEW roots, NEW x \in Works
             PROVE  x \in Torn(own, roots, {}, {}) <=> x \in Kept(own, roots, {})
  BY DEF Torn, Kept
<1>1. Cut(x.mem, {}) = x.mem
  BY CutFacts, KeptFacts
<1>2. Split(x.mem, x.avail, own, roots, {}) <=> Roles(x.mem, x.avail, own, roots, {})
  BY DEF Split, Roles, Loose
<1> QED
  BY <1>1, <1>2, TornFacts, KeptFacts

\* An entry of a table that is known to be one, which counts as cleared from now on.
LEMMA TearOff ==
    ASSUME NEW u, NEW m \in Mem, NEW av \in SUBSET Frames, Pages(u, m, av),
           NEW own, NEW roots, Held(u, m, own, roots, {}), NEW q, Loose(u, m, q),
           NEW t \in Memory, NEW k \in Entry, Leads(u, m, t, k),
           u[t] = "pml4" => k < HALF /\ t # KernelPml4
    PROVE  Split(Clear(m, t, k), av, own, roots, q \cup {<<m[t][k].to, Child[u[t]]>>})
<1> DEFINE n == [m EXCEPT ![t][k] = Zero]
           f == m[t][k].to
<1>1. u[t] \in Live /\ f \in Memory /\ u[f] = Child[u[t]]
  BY UseFacts
<1>2. Pages(u, n, av)
  BY <1>1, ClearPage
<1>3. \A r \in Memory, j \in Entry : n[r][j] = IF r = t /\ j = k THEN Zero ELSE m[r][j]
  BY DEF Mem
<1> HIDE DEF n
<1>4. Held(u, n, own, roots, {})
  BY DEF Held
<1>5. \A r \in Memory, j \in Entry : Leads(u, n, r, j) =>
          Leads(u, m, r, j) /\ n[r][j] = m[r][j] /\ ~(r = t /\ j = k)
  BY <1>3 DEF Leads, Present, Zero
<1>6. \A g : Unled(u, m, g) => Unled(u, n, g)
  BY <1>5 DEF Unled
<1>7. f \in Frames => Unled(u, n, f)
  <2> SUFFICES ASSUME f \in Frames, NEW r \in Memory, NEW j \in Entry, Leads(u, n, r, j),
                      n[r][j].to = f
               PROVE  FALSE
    BY DEF Unled
  <2>1. Leads(u, m, r, j) /\ m[r][j].to = f /\ ~(r = t /\ j = k)
    BY <1>5
  <2>2. u[t] = "pml4" /\ k >= HALF
    BY <2>1 DEF Pages, Once
  <2> QED
    BY <2>2, Geometry DEF Entry
<1>9. Child[u[t]] = "dir" => f \notin LowDirs
  <2>1. Child[u[t]] = "dir" => u[t] = "pml4"
    BY <1>1 DEF Child, Live
  <2> QED
    BY <2>1 DEF Pages, Large, Leads
<1> HIDE DEF f
<1>8. Loose(u, n, q \cup {<<f, Child[u[t]]>>})
  BY <1>1, <1>6, <1>7, <1>9 DEF Loose
<1> QED
  BY <1>2, <1>4, <1>8 DEF Split, n, f, Clear

\* A loose frame is given back.
LEMMA GiveLoose ==
    ASSUME NEW own, NEW roots, NEW z, NEW q, NEW e \in Entries, NEW r \in {"page", "table", "dir"},
           NEW s \in Torn(own, roots, z, q \cup {<<e.to, r>>}),
           \A l \in q : l[2] # r
    PROVE  FreePage(s, e) \in Torn(own, roots, z, q)
<1> DEFINE x == FreePage(s, e)
           m == Cut(s.mem, z)
           f == e.to
<1>1. s \in Works /\ (s.fate = "runs" => Split(m, s.avail, own, roots, q \cup {<<f, r>>}))
  BY DEF Torn
<1>2. /\ x \in Works /\ x.mem = s.mem
      /\ x.fate = "runs" => /\ s.fate = "runs" /\ f \in Frames \ s.avail
                            /\ x.avail = s.avail \cup {f}
  BY <1>1, FreePageType
<1> SUFFICES x \in Torn(own, roots, z, q)
  OBVIOUS
<1>3. m \in Mem /\ s.avail \in SUBSET Frames
  BY <1>1, CutFacts, TornFacts
<1> HIDE DEF x, f
<1> SUFFICES ASSUME x.fate = "runs"
             PROVE  Split(m, s.avail \cup {f}, own, roots, q)
  BY <1>2, TornFacts
<1> HIDE DEF m
<1>4. PICK u : Pages(u, m, s.avail) /\ Held(u, m, own, roots, {}) /\ Loose(u, m, q \cup {<<f, r>>})
  BY <1>1, <1>2 DEF Split
<1> DEFINE w == [u EXCEPT ![f] = "free"]
<1>5. f \in Frames /\ f \in Memory /\ u[f] = r /\ Unled(u, m, f)
  <2>1. <<f, r>> \in q \cup {<<f, r>>} /\ <<f, r>>[1] = f /\ <<f, r>>[2] = r
    OBVIOUS
  <2> QED
    BY <1>2, <1>4, <2>1 DEF Loose
<1>6. Pages(w, m, s.avail \cup {f})
  BY <1>3, <1>4, <1>5, GivePage DEF Unled
<1>7. \A g \in Memory : g # f => w[g] = u[g]
  BY <1>4 DEF Pages
<1>8. Held(w, m, own, roots, {})
  BY <1>4, <1>5, <1>7 DEF Held
<1>9. w[f] = "free"
  BY <1>4, <1>5 DEF Pages
<1>10. \A t \in Memory, k \in Entry : Leads(w, m, t, k) => Leads(u, m, t, k)
  BY <1>7, <1>9 DEF Leads, Live
<1>11. Loose(w, m, q)
  BY <1>4, <1>5, <1>7, <1>10 DEF Loose, Unled
<1> QED
  BY <1>6, <1>8, <1>11 DEF Split

\* The table t at work is one that hangs, or a root whose lower half is freed; the
\* entries that count as cleared are those of other tables.
At(t, r, k, roots, z, q) ==
    /\ \/ r = "pml4" /\ t \in roots /\ k < HALF /\ t # KernelPml4
       \/ r \in {"dir", "table"} /\ <<t, r>> \in q
    /\ \A c \in z : \/ r # "pml4" /\ c[1] \in roots
                    \/ \E l \in q : l[1] = c[1] /\ l[2] # r
    /\ \A l \in q : l[2] # Child[r]

\* One entry: what it leads to is freed, then it is cleared.
LEMMA TurnTorn ==
    ASSUME NEW own, NEW roots, NEW z, NEW q, NEW s \in Torn(own, roots, z, q),
           NEW t \in Memory, NEW k \in Entry, NEW r \in Live, At(t, r, k, roots, z, q),
           NEW d, Present(s.mem[t][k]) => Gone(s, d),
           Present(s.mem[t][k])
           /\ s \in Torn(own, roots, z \cup {<<t, k>>}, q \cup {<<s.mem[t][k].to, Child[r]>>}) =>
               d \in Torn(own, roots, z \cup {<<t, k>>}, q)
    PROVE  Turn(s, t, k, d) \in Torn(own, roots, z, q)
<1> DEFINE e == s.mem[t][k]
           x == Turn(s, t, k, d)
           y == IF "huge" \in e.flags THEN FreePage(s, e) ELSE d
           m == Cut(s.mem, z)
           zz == z \cup {<<t, k>>}
           qq == q \cup {<<e.to, Child[r]>>}
<1>1. s \in Works /\ (s.fate = "runs" => Split(m, s.avail, own, roots, q))
  BY DEF Torn
<1>2. m \in Mem /\ s.mem \in Mem /\ s.avail \in SUBSET Frames /\ e \in Entries
  BY <1>1, CutFacts, TornFacts DEF Mem
<1>3. CASE ~Present(e)
  BY <1>3 DEF Turn
<1>4. CASE Present(e)
  <2>1. x = [y EXCEPT !.mem[t][k] = Zero]
    BY <1>4 DEF Turn
  <2>2. y \in Works /\ (y.fate = "runs" => s.fate = "runs")
    BY <1>1, <1>2, <1>4, FreePageType DEF Gone
  <2>3. Gone(s, x)
    BY <1>1, <1>4, TurnType
  <2>4. x \in Works
    BY <2>3 DEF Gone
  <2> HIDE DEF y, x, e
  <2>5. x.mem = Clear(y.mem, t, k) /\ x.avail = y.avail /\ x.fate = y.fate
    BY <2>1, <2>2 DEF Works, Clear
  <2>6. Cut(x.mem, z) = Cut(y.mem, zz)
    <3>1. y.mem \in Mem
      BY <2>2 DEF Works
    <3> QED
      BY <2>5, <3>1, CutClear
  <2>7. y \in Torn(own, roots, zz, q)
    <3> SUFFICES ASSUME s.fate = "runs" PROVE y \in Torn(own, roots, zz, q)
      BY <2>2, TornFacts
    <3>1. PICK u : Pages(u, m, s.avail) /\ Held(u, m, own, roots, {}) /\ Loose(u, m, q)
      BY <1>1 DEF Split
    <3>2. u[t] = r
      BY <3>1 DEF Held, Loose, At
    <3>3. <<t, k>> \notin z
      <4> SUFFICES ASSUME <<t, k>> \in z PROVE FALSE
        OBVIOUS
      <4>1. <<t, k>>[1] = t
        OBVIOUS
      <4>2. \/ r # "pml4" /\ t \in roots
            \/ \E l \in q : l[1] = t /\ l[2] # r
        BY <4>1 DEF At
      <4> QED
        BY <3>1, <3>2, <4>2 DEF Held, Loose
    <3>4. m[t][k] = e
      BY <1>2, <3>3, CutFacts DEF e
    <3>5. CASE "huge" \in e.flags
      <4>1. u[t] = "dir" /\ t \in LowDirs
        BY <3>1, <3>2, <3>4, <3>5 DEF Pages, Large
      <4>2. <<t, "dir">> \in q /\ <<t, "dir">>[1] = t /\ <<t, "dir">>[2] = "dir"
        BY <3>2, <4>1 DEF At
      <4> QED
        BY <3>1, <4>1, <4>2 DEF Loose
    <3>6. CASE "huge" \notin e.flags
      <4>1. Leads(u, m, t, k)
        BY <1>4, <3>2, <3>4, <3>6 DEF Leads
      <4>2. u[t] = "pml4" => k < HALF /\ t # KernelPml4
        BY <3>2 DEF At
      <4>3. Split(Clear(m, t, k), s.avail, own, roots, q \cup {<<m[t][k].to, Child[u[t]]>>})
        BY <1>2, <3>1, <4>1, <4>2, TearOff
      <4>4. Split(Cut(s.mem, zz), s.avail, own, roots, qq)
        <5>1. Cut(s.mem, zz) = Clear(m, t, k)
          BY <1>2, CutMore
        <5> HIDE DEF m, zz
        <5> QED
          BY <3>2, <3>4, <4>3, <5>1
      <4>5. s \in Torn(own, roots, zz, qq)
        BY <1>1, <4>4, TornFacts
      <4> QED
        BY <1>4, <3>6, <4>5 DEF y, e
    <3> QED
      BY <3>5, <3>6
  <2> QED
    BY <2>2, <2>4, <2>5, <2>6, <2>7, TornFacts DEF x
<1> QED
  BY <1>3, <1>4

\* A page holds no entries: freed as a table, it gives back itself alone.
LEMMA LeafTorn ==
    ASSUME NEW own, NEW roots, NEW z, NEW q, NEW e \in Entries, Present(e),
           NEW s \in Torn(own, roots, z, q \cup {<<e.to, "page">>}),
           \A l \in q : l[2] # "page",
           \A c \in z : c[1] \in roots \/ \E l \in q : l[1] = c[1]
    PROVE  FreeLeaf(s, e) \in Torn(own, roots, z, q)
<1> DEFINE f == e.to
           qq == q \cup {<<f, "page">>}
           W == Torn(own, roots, z, qq)
           x == Entries0(s, f, ENTRIES)
<1>1. s \in Works /\ f \in Memory
  BY Places DEF Torn
<1>2. FreeLeaf(s, e) = IF "nx" \in e.flags THEN FreePage(s, e) ELSE FreePage(x, e)
  BY <1>1, FreeLeafType
<1>3. ASSUME NEW y \in Works, NEW k \in 0 .. ENTRIES - 1, y \in W
      PROVE  Entry0(y, f, k) \in W
  <2>1. k \in Entry
    BY DEF Entry
  <2>2. Entry0(y, f, k) = Turn(y, f, k, FreePage(y, y.mem[f][k])) /\ Gone(y, Entry0(y, f, k))
    BY <1>1, <2>1, Entry0Type
  <2>3. CASE y.fate # "runs"
    BY <2>2, <2>3, TornFacts DEF Gone
  <2>4. CASE y.fate = "runs"
    <3> DEFINE m == Cut(y.mem, z)
    <3>1. PICK u : Pages(u, m, y.avail) /\ Held(u, m, own, roots, {}) /\ Loose(u, m, qq)
      BY <1>3, <2>4, TornFacts DEF Split
    <3>2. u[f] = "page"
      <4>1. <<f, "page">> \in qq /\ <<f, "page">>[1] = f /\ <<f, "page">>[2] = "page"
        OBVIOUS
      <4> QED
        BY <3>1, <4>1 DEF Loose
    <3>3. <<f, k>> \notin z
      <4> SUFFICES ASSUME <<f, k>> \in z PROVE FALSE
        OBVIOUS
      <4>1. <<f, k>>[1] = f
        OBVIOUS
      <4>2. f \in roots \/ \E l \in q : l[1] = f
        BY <4>1
      <4> QED
        BY <3>1, <3>2, <4>2 DEF Held, Loose
    <3>4. y.mem[f][k] = m[f][k]
      BY <1>1, <2>1, <3>3, CutFacts, TornFacts
    <3>5. m[f] = Blank
      BY <1>1, <3>1, <3>2 DEF Pages, Empty
    <3>6. ~Present(Blank[k])
      BY <2>1 DEF Blank, Present, Zero, Entry
    <3>7. ~Present(y.mem[f][k])
      BY <3>4, <3>5, <3>6
    <3> QED
      BY <1>3, <2>2, <3>7 DEF Turn
  <2> QED
    BY <2>3, <2>4
<1> HIDE DEF W
<1>4. x \in W
  <2>1. ENTRIES \in 0 .. ENTRIES /\ s \in W
    BY Geometry DEF W
  <2> QED
    BY <1>1, <1>3, <2>1, Entries0Loop
<1>5. FreePage(s, e) \in Torn(own, roots, z, q) /\ FreePage(x, e) \in Torn(own, roots, z, q)
  BY <1>4, GiveLoose DEF W
<1> QED
  BY <1>2, <1>5

LEMMA Table1Torn ==
    ASSUME NEW own, NEW roots, NEW z, NEW q, NEW e \in Entries, Present(e),
           NEW s \in Torn(own, roots, z, q \cup {<<e.to, "table">>}),
           \A l \in q : l[2] \notin {"table", "page"},
           \A c \in z : c[1] \in roots \/ \E l \in q : l[1] = c[1]
    PROVE  FreeTable1(s, e) \in Torn(own, roots, z, q)
<1> DEFINE f == e.to
           qq == q \cup {<<f, "table">>}
           W == Torn(own, roots, z, qq)
           x == Entries1(s, f, ENTRIES)
<1>1. s \in Works /\ f \in Memory
  BY Places DEF Torn
<1>2. FreeTable1(s, e) = FreeFrame(x, f)
  BY <1>1, FreeTable1Type
<1>3. Child["table"] = "page" /\ "table" \in Live
  BY DEF Child, Live
<1>4. <<f, "table">>[1] = f /\ <<f, "table">>[2] = "table"
  OBVIOUS
<1>5. ASSUME NEW y \in Works, NEW k \in 0 .. ENTRIES - 1, y \in W
      PROVE  Entry1(y, f, k) \in W
  <2> DEFINE d == FreeLeaf(y, y.mem[f][k])
             zz == z \cup {<<f, k>>}
             g == y.mem[f][k].to
  <2>1. k \in Entry /\ y.mem[f][k] \in Entries
    BY <1>1 DEF Entry, Works, Mem
  <2>2. Entry1(y, f, k) = Turn(y, f, k, d)
    BY <1>1, <2>1, Entry1Type
  <2>3. Present(y.mem[f][k]) => Gone(y, d)
    BY <2>1, FreeLeafType
  <2>4. At(f, "table", k, roots, z, qq)
    BY <1>3, <1>4 DEF At
  <2>5. <<f, k>>[1] = f
    OBVIOUS
  <2>6. /\ \A l \in qq : l[2] # "page"
        /\ \A c \in zz : c[1] \in roots \/ \E l \in qq : l[1] = c[1]
    BY <1>4, <2>5
  <2> HIDE DEF qq, zz
  <2>7. Present(y.mem[f][k]) /\ y \in Torn(own, roots, zz, qq \cup {<<g, "page">>}) =>
            d \in Torn(own, roots, zz, qq)
    BY <2>1, <2>6, LeafTorn
  <2> HIDE DEF d
  <2> QED
    <3> HIDE DEF W
    <3>1. y \in Torn(own, roots, z, qq)
      BY <1>5 DEF W
    <3>2. Present(y.mem[f][k]) /\ y \in Torn(own, roots, z \cup {<<f, k>>}, qq \cup {<<y.mem[f][k].to, Child["table"]>>}) =>
              d \in Torn(own, roots, z \cup {<<f, k>>}, qq)
      BY <1>3, <2>7 DEF zz
    <3> HIDE DEF f
    <3>3. Turn(y, f, k, d) \in Torn(own, roots, z, qq)
      BY <1>1, <1>3, <2>1, <2>3, <2>4, <3>1, <3>2, TurnTorn
    <3> QED
      BY <2>2, <3>3 DEF W
<1> HIDE DEF W, qq
<1>6. x \in W
  <2>1. ENTRIES \in 0 .. ENTRIES /\ s \in W
    BY Geometry DEF W, qq
  <2> QED
    BY <1>1, <1>5, <2>1, Entries1Loop
<1>7. FreePage(x, [to |-> f, flags |-> {}]) \in Torn(own, roots, z, q)
  <2>1. [to |-> f, flags |-> {}] \in Entries /\ [to |-> f, flags |-> {}].to = f
    BY <1>1, FrameEntry
  <2> DEFINE ee == [to |-> f, flags |-> {}]
  <2> HIDE DEF ee, x
  <2>2. x \in Torn(own, roots, z, q \cup {<<ee.to, "table">>})
    BY <1>6, <2>1 DEF W, qq, ee
  <2>3. FreePage(x, ee) \in Torn(own, roots, z, q)
    BY <2>1, <2>2, GiveLoose DEF ee
  <2> QED
    BY <2>3 DEF ee
<1> QED
  BY <1>2, <1>7 DEF FreeFrame

LEMMA Table2Torn ==
    ASSUME NEW own, NEW roots, NEW z, NEW q, NEW e \in Entries, Present(e),
           NEW s \in Torn(own, roots, z, q \cup {<<e.to, "dir">>}),
           \A l \in q : l[2] \notin {"dir", "table", "page"},
           \A c \in z : c[1] \in roots \/ \E l \in q : l[1] = c[1]
    PROVE  FreeTable2(s, e) \in Torn(own, roots, z, q)
<1> DEFINE f == e.to
           qq == q \cup {<<f, "dir">>}
           W == Torn(own, roots, z, qq)
           x == Entries2(s, f, ENTRIES)
<1>1. s \in Works /\ f \in Memory
  BY Places DEF Torn
<1>2. FreeTable2(s, e) = FreeFrame(x, f)
  BY <1>1, FreeTable2Type
<1>3. Child["dir"] = "table" /\ "dir" \in Live
  BY DEF Child, Live
<1>4. <<f, "dir">>[1] = f /\ <<f, "dir">>[2] = "dir"
  OBVIOUS
<1>5. ASSUME NEW y \in Works, NEW k \in 0 .. ENTRIES - 1, y \in W
      PROVE  Entry2(y, f, k) \in W
  <2> DEFINE d == FreeTable1(y, y.mem[f][k])
             zz == z \cup {<<f, k>>}
             g == y.mem[f][k].to
  <2>1. k \in Entry /\ y.mem[f][k] \in Entries
    BY <1>1 DEF Entry, Works, Mem
  <2>2. Entry2(y, f, k) = Turn(y, f, k, d)
    BY <1>1, <2>1, Entry2Type
  <2>3. Present(y.mem[f][k]) => Gone(y, d)
    BY <2>1, FreeTable1Type
  <2>4. At(f, "dir", k, roots, z, qq)
    BY <1>3, <1>4 DEF At
  <2>5. <<f, k>>[1] = f
    OBVIOUS
  <2>6. /\ \A l \in qq : l[2] \notin {"table", "page"}
        /\ \A c \in zz : c[1] \in roots \/ \E l \in qq : l[1] = c[1]
    BY <1>4, <2>5
  <2> HIDE DEF qq, zz
  <2>7. Present(y.mem[f][k]) /\ y \in Torn(own, roots, zz, qq \cup {<<g, "table">>}) =>
            d \in Torn(own, roots, zz, qq)
    BY <2>1, <2>6, Table1Torn
  <2> HIDE DEF d
  <2> QED
    <3> HIDE DEF W
    <3>1. y \in Torn(own, roots, z, qq)
      BY <1>5 DEF W
    <3>2. Present(y.mem[f][k]) /\ y \in Torn(own, roots, z \cup {<<f, k>>}, qq \cup {<<y.mem[f][k].to, Child["dir"]>>}) =>
              d \in Torn(own, roots, z \cup {<<f, k>>}, qq)
      BY <1>3, <2>7 DEF zz
    <3> HIDE DEF f
    <3>3. Turn(y, f, k, d) \in Torn(own, roots, z, qq)
      BY <1>1, <1>3, <2>1, <2>3, <2>4, <3>1, <3>2, TurnTorn
    <3> QED
      BY <2>2, <3>3 DEF W
<1> HIDE DEF W, qq
<1>6. x \in W
  <2>1. ENTRIES \in 0 .. ENTRIES /\ s \in W
    BY Geometry DEF W, qq
  <2> QED
    BY <1>1, <1>5, <2>1, Entries2Loop
<1>7. FreePage(x, [to |-> f, flags |-> {}]) \in Torn(own, roots, z, q)
  <2>1. [to |-> f, flags |-> {}] \in Entries /\ [to |-> f, flags |-> {}].to = f
    BY <1>1, FrameEntry
  <2> DEFINE ee == [to |-> f, flags |-> {}]
  <2> HIDE DEF ee, x
  <2>2. x \in Torn(own, roots, z, q \cup {<<ee.to, "dir">>})
    BY <1>6, <2>1 DEF W, qq, ee
  <2>3. FreePage(x, ee) \in Torn(own, roots, z, q)
    BY <2>1, <2>2, GiveLoose DEF ee
  <2> QED
    BY <2>3 DEF ee
<1> QED
  BY <1>2, <1>7 DEF FreeFrame

\* The lower half of a space.
LEMMA HalfKeeps ==
    ASSUME NEW own, NEW roots, NEW s \in Kept(own, roots, {}), NEW p \in roots \cap Memory,
           p # KernelPml4
    PROVE  Entries3(s, p, HALF) \in Kept(own, roots, {})
<1> DEFINE W == Torn(own, roots, {}, {})
<1>1. s \in W /\ s \in Works
  BY TornWhole DEF Kept
<1>2. Child["pml4"] = "dir" /\ "pml4" \in Live
  BY DEF Child, Live
<1>3. HALF \in 0 .. ENTRIES /\ HALF \in Nat
  BY Geometry
<1>4. ASSUME NEW y \in Works, NEW k \in 0 .. HALF - 1, y \in W
      PROVE  Entry3(y, p, k) \in W
  <2> DEFINE d == FreeTable2(y, y.mem[p][k])
             zz == {} \cup {<<p, k>>}
             g == y.mem[p][k].to
  <2>1. k \in Entry /\ k < HALF
    BY <1>3, Geometry DEF Entry
  <2>2. y.mem[p][k] \in Entries
    BY <2>1 DEF Works, Mem
  <2>3. Entry3(y, p, k) = Turn(y, p, k, d)
    BY <2>1, Entry3Type
  <2>4. Present(y.mem[p][k]) => Gone(y, d)
    BY <2>2, FreeTable2Type
  <2>5. At(p, "pml4", k, roots, {}, {})
    BY <2>1 DEF At
  <2>6. <<p, k>>[1] = p
    OBVIOUS
  <2>7. \A c \in zz : c[1] \in roots \/ \E l \in {} : l[1] = c[1]
    BY <2>6
  <2> HIDE DEF zz
  <2>8. Present(y.mem[p][k]) /\ y \in Torn(own, roots, zz, {} \cup {<<g, "dir">>}) =>
            d \in Torn(own, roots, zz, {})
    BY <2>2, <2>7, Table2Torn
  <2> HIDE DEF d
  <2>9. Present(y.mem[p][k])
        /\ y \in Torn(own, roots, {} \cup {<<p, k>>}, {} \cup {<<g, Child["pml4"]>>}) =>
            d \in Torn(own, roots, {} \cup {<<p, k>>}, {})
    BY <1>2, <2>8 DEF zz
  <2>10. y \in Torn(own, roots, {}, {})
    BY <1>4
  <2> HIDE DEF W
  <2>11. Turn(y, p, k, d) \in Torn(own, roots, {}, {})
    BY <1>2, <2>1, <2>4, <2>5, <2>9, <2>10, TurnTorn
  <2> QED
    BY <2>3, <2>11 DEF W
<1> HIDE DEF W
<1>5. Entries3(s, p, HALF) \in W
  BY <1>1, <1>3, <1>4, Entries3Loop
<1> QED
  BY <1>5, TornWhole DEF W

-----------------------------------------------------------------------------
(* Region lists: the records of a list are frames of their own.              *)

Records(rs) == {rs[i].at : i \in DOMAIN rs}
Distinct(rs) == \A i \in DOMAIN rs, j \in DOMAIN rs : rs[i].at = rs[j].at => i = j
Sound(own, roots) ==
    {x \in Works : x.fate = "runs" =>
         /\ Distinct(x.regions) /\ Records(x.regions) \cap own = {}
         /\ Roles(x.mem, x.avail, own \cup Records(x.regions), roots, {})}

LEMMA SoundFacts ==
    ASSUME NEW own, NEW roots, NEW x \in Works
    PROVE  x \in Sound(own, roots) <=>
               (x.fate = "runs" =>
                    /\ Distinct(x.regions) /\ Records(x.regions) \cap own = {}
                    /\ Roles(x.mem, x.avail, own \cup Records(x.regions), roots, {}))
BY DEF Sound

\* Work on the tables leaves the list alone.
LEMMA SoundWork ==
    ASSUME NEW own, NEW roots, NEW s \in Sound(own, roots), NEW x \in Works,
           x.regions = s.regions, x.fate = "runs" => s.fate = "runs",
           s \in Kept(own \cup Records(s.regions), roots, {}) =>
               x \in Kept(own \cup Records(s.regions), roots, {})
    PROVE  x \in Sound(own, roots)
<1>1. s \in Works
  BY DEF Sound
<1>2. s \in Kept(own \cup Records(s.regions), roots, {})
  BY <1>1, SoundFacts, KeptFacts
<1> QED
  BY <1>1, <1>2, SoundFacts, KeptFacts

\* Nor does it matter where regions begin and end.
LEMMA SoundEdit ==
    ASSUME NEW own, NEW roots, NEW s \in Sound(own, roots), NEW q \in Seq(Regions),
           DOMAIN q = DOMAIN s.regions, \A i \in DOMAIN q : q[i].at = s.regions[i].at,
           NEW x \in Works, x.regions = q, x.mem = s.mem, x.avail = s.avail, x.fate = s.fate
    PROVE  x \in Sound(own, roots)
<1>1. s \in Works
  BY DEF Sound
<1>2. Records(q) = Records(s.regions)
  BY DEF Records
<1>3. Distinct(s.regions) => Distinct(q)
  BY DEF Distinct
<1>4. s.fate = "runs" => /\ Distinct(s.regions) /\ Records(s.regions) \cap own = {}
                         /\ Roles(s.mem, s.avail, own \cup Records(s.regions), roots, {})
  BY <1>1, SoundFacts
<1>5. x.fate = "runs" => /\ Distinct(x.regions) /\ Records(x.regions) \cap own = {}
                         /\ Roles(x.mem, x.avail, own \cup Records(x.regions), roots, {})
  BY <1>2, <1>3, <1>4
<1> QED
  BY <1>5, SoundFacts

\* What is taken from the allocator is in no use yet.
LEMMA FreshIsNew ==
    ASSUME NEW m, NEW av, NEW own, NEW roots, NEW loose, Roles(m, av, own, roots, loose),
           NEW g \in av
    PROVE  g \notin own /\ g \notin roots /\ g \notin loose
BY DEF Roles, Held, Pages

\* A structure, a record or a root is given back.
LEMMA GiveOwn ==
    ASSUME NEW own, NEW roots, NEW s \in Kept(own, roots, {}), NEW f \in Memory, f \in own \cup roots
    PROVE  FreeFrame(s, f) \in Kept(own \ {f}, roots \ {f}, {})
<1> DEFINE x == FreeFrame(s, f)
<1>1. s \in Works /\ (s.fate = "runs" => Roles(s.mem, s.avail, own, roots, {}))
  BY DEF Kept
<1>2. /\ x \in Works /\ x.mem = s.mem
      /\ x.fate = "runs" => /\ s.fate = "runs" /\ f \in Frames \ s.avail
                            /\ x.avail = s.avail \cup {f}
  BY <1>1, FreeFrameType
<1> SUFFICES x \in Kept(own \ {f}, roots \ {f}, {})
  OBVIOUS
<1> HIDE DEF x
<1> SUFFICES ASSUME x.fate = "runs"
             PROVE  Roles(s.mem, s.avail \cup {f}, own \ {f}, roots \ {f}, {})
  BY <1>2, KeptFacts
<1>3. PICK u : Pages(u, s.mem, s.avail) /\ Held(u, s.mem, own, roots, {})
  BY <1>1, <1>2 DEF Roles
<1> DEFINE w == [u EXCEPT ![f] = "free"]
<1>4. f \in Frames /\ u[f] \in {"own", "pml4"}
  BY <1>2, <1>3 DEF Held
<1>5. s.mem \in Mem /\ s.avail \in SUBSET Frames
  BY <1>1, KeptFacts
<1>6. \A t \in Memory, k \in Entry : Leads(u, s.mem, t, k) => s.mem[t][k].to # f
  <2> TAKE t \in Memory, k \in Entry
  <2>1. Leads(u, s.mem, t, k) => u[s.mem[t][k].to] \in {"dir", "table", "page"}
    BY <1>3, <1>5, UseFacts
  <2> QED
    BY <1>4, <2>1
<1>7. Pages(w, s.mem, s.avail \cup {f})
  BY <1>3, <1>4, <1>5, <1>6, GivePage
<1>8. \A g \in Memory : g # f => w[g] = u[g]
  BY <1>3 DEF Pages
<1>9. Held(w, s.mem, own \ {f}, roots \ {f}, {})
  BY <1>3, <1>8 DEF Held
<1> QED
  BY <1>7, <1>9 DEF Roles

LEMMA CreateSound ==
    ASSUME NEW own, NEW roots, NEW s \in Sound(own, roots), NEW a \in Address, NEW b \in Address,
           NEW fl \in SUBSET RegionFlags
    PROVE  vmm_create_region(s, a, b, fl) \in Sound(own, roots)
<1> DEFINE d == vmm_create_region(s, a, b, fl)
           rs == s.regions
           g == Fresh(s)
           e == Region(a, b, fl, g)
<1>1. s \in Works /\ rs \in Seq(Regions)
  BY DEF Sound, Works
<1>2. d \in Works /\ d.fate = s.fate
  BY <1>1, CreateType DEF Listed
<1>3. \/ d = s
      \/ d = RanOut(s)
      \/ s.avail # {} /\ \E at \in 1 .. Len(rs) + 1 :
            d = [Take(s) EXCEPT !.regions = InsertAt(rs, at, e)]
  BY <1>1, CreateFacts
<1> SUFFICES d \in Sound(own, roots)
  OBVIOUS
<1> HIDE DEF d
<1>4. CASE d = s
  BY <1>4
<1>5. CASE d = RanOut(s)
  <2>1. d.regions = rs /\ d.mem = s.mem /\ d.avail = s.avail
    BY <1>1, <1>5, RanOutType
  <2> QED
    BY <1>1, <1>2, <2>1, SoundEdit
<1>6. CASE s.avail # {} /\ \E at \in 1 .. Len(rs) + 1 :
            d = [Take(s) EXCEPT !.regions = InsertAt(rs, at, e)]
  <2>1. PICK at \in 1 .. Len(rs) + 1 : d = [Take(s) EXCEPT !.regions = InsertAt(rs, at, e)]
    BY <1>6
  <2> DEFINE q == InsertAt(rs, at, e)
  <2>2. Take(s) \in Works /\ g \in s.avail /\ g \in Frames
    BY <1>1, <1>6, TakeType, FreshIn
  <2>3. e \in Regions /\ e.at = g
    BY <2>2 DEF Regions, Region
  <2> HIDE DEF e, g
  <2>4. /\ q \in Seq(Regions) /\ Len(q) = Len(rs) + 1
        /\ \A j \in 1 .. Len(rs) + 1 :
               q[j] = IF j < at THEN rs[j] ELSE IF j = at THEN e ELSE rs[j - 1]
    <3> HIDE DEF rs
    <3> QED
      BY <1>1, <2>3, InsertFacts
  <2> HIDE DEF q
  <2>5. d.regions = q /\ d.mem = Take(s).mem /\ d.avail = Take(s).avail /\ d.fate = Take(s).fate
    BY <2>1, <2>2 DEF q, Works
  <2>6. Len(rs) \in Nat /\ DOMAIN rs = 1 .. Len(rs) /\ DOMAIN q = 1 .. Len(rs) + 1
    BY <1>1, <2>4
  <2>7. Records(q) = Records(rs) \cup {g}
    <3>1. \A j \in DOMAIN q : q[j].at \in Records(rs) \cup {g}
      <4> TAKE j \in DOMAIN q
      <4>1. CASE j < at
        <5>1. j \in DOMAIN rs /\ q[j] = rs[j]
          BY <2>4, <2>6, <4>1
        <5> QED
          BY <5>1 DEF Records
      <4>2. CASE j = at
        BY <2>3, <2>4, <2>6, <4>2
      <4>3. CASE j > at
        <5>1. j - 1 \in DOMAIN rs /\ q[j] = rs[j - 1]
          BY <2>4, <2>6, <4>3
        <5> QED
          BY <5>1 DEF Records
      <4> QED
        BY <2>6, <4>1, <4>2, <4>3
    <3>2. g \in Records(q)
      <4>1. at \in DOMAIN q /\ q[at] = e
        BY <2>4, <2>6
      <4> QED
        BY <2>3, <4>1 DEF Records
    <3>3. \A i \in DOMAIN rs : rs[i].at \in Records(q)
      <4> TAKE i \in DOMAIN rs
      <4>1. CASE i < at
        <5>1. i \in DOMAIN q /\ q[i] = rs[i]
          BY <2>4, <2>6, <4>1
        <5> QED
          BY <5>1 DEF Records
      <4>2. CASE i >= at
        <5>1. i + 1 \in DOMAIN q /\ q[i + 1] = rs[i]
          BY <2>4, <2>6, <4>2
        <5> QED
          BY <5>1 DEF Records
      <4> QED
        BY <2>6, <4>1, <4>2
    <3> QED
      BY <3>1, <3>2, <3>3 DEF Records
  <2> SUFFICES ASSUME s.fate = "runs"
               PROVE  /\ Distinct(q) /\ Records(q) \cap own = {}
                      /\ Roles(d.mem, d.avail, own \cup Records(q), roots, {})
    BY <1>2, <2>5, SoundFacts
  <2>8. /\ Distinct(rs) /\ Records(rs) \cap own = {}
        /\ Roles(s.mem, s.avail, own \cup Records(rs), roots, {})
    BY <1>1, SoundFacts
  <2>9. g \notin own \cup Records(rs)
    BY <2>2, <2>8, FreshIsNew
  <2>10. Distinct(q)
    <3> SUFFICES ASSUME NEW i \in DOMAIN q, NEW j \in DOMAIN q, q[i].at = q[j].at, i < j
                 PROVE  FALSE
      BY <2>6 DEF Distinct
    <3>1. \A k \in DOMAIN rs : rs[k].at # g
      BY <2>9 DEF Records
    <3>2. CASE j < at
      <4>1. i \in DOMAIN rs /\ j \in DOMAIN rs /\ q[i] = rs[i] /\ q[j] = rs[j]
        BY <2>4, <2>6, <3>2
      <4> QED
        BY <2>6, <2>8, <4>1 DEF Distinct
    <3>3. CASE j = at
      <4>1. i \in DOMAIN rs /\ q[i] = rs[i] /\ q[j] = e
        BY <2>4, <2>6, <3>3
      <4> QED
        BY <2>3, <3>1, <4>1
    <3>4. CASE i = at
      <4>1. j - 1 \in DOMAIN rs /\ q[j] = rs[j - 1] /\ q[i] = e
        BY <2>4, <2>6, <3>4
      <4> QED
        BY <2>3, <3>1, <4>1
    <3>5. CASE i < at /\ at < j
      <4>1. i \in DOMAIN rs /\ j - 1 \in DOMAIN rs /\ q[i] = rs[i] /\ q[j] = rs[j - 1] /\ i < j - 1
        BY <2>4, <2>6, <3>5
      <4> QED
        BY <2>6, <2>8, <4>1 DEF Distinct
    <3>6. CASE at < i
      <4>1. i - 1 \in DOMAIN rs /\ j - 1 \in DOMAIN rs /\ q[i] = rs[i - 1] /\ q[j] = rs[j - 1]
            /\ i - 1 < j - 1
        BY <2>4, <2>6, <3>6
      <4> QED
        BY <2>6, <2>8, <4>1 DEF Distinct
    <3> QED
      BY <2>6, <3>2, <3>3, <3>4, <3>5, <3>6
  <2>11. Roles(d.mem, d.avail, own \cup Records(q), roots, {})
    <3>1. s \in Kept(own \cup Records(rs), roots, {})
      BY <1>1, <2>8, KeptFacts
    <3>2. Take(s) \in Kept((own \cup Records(rs)) \cup {g}, roots, {})
      BY <1>6, <3>1, TakeKeeps DEF g
    <3>3. (own \cup Records(rs)) \cup {g} = own \cup Records(q)
      BY <2>7
    <3>4. Take(s) \in Kept(own \cup Records(q), roots, {})
      BY <3>2, <3>3
    <3>5. Take(s).fate = "runs"
      BY <1>2, <2>5
    <3> QED
      BY <2>2, <2>5, <3>4, <3>5, KeptFacts
  <2> QED
    BY <2>7, <2>8, <2>9, <2>10, <2>11
<1> QED
  BY <1>3, <1>4, <1>5, <1>6

LEMMA CutSound ==
    ASSUME NEW own, NEW roots, NEW s \in Sound(own, roots), NEW i, NEW v \in Address
    PROVE  /\ [s EXCEPT !.regions[i].end = v] \in Sound(own, roots)
           /\ [s EXCEPT !.regions[i].start = v] \in Sound(own, roots)
<1>1. s \in Works /\ s.regions \in Seq(Regions)
  BY DEF Sound, Works
<1> DEFINE rs == s.regions
           q == [rs EXCEPT ![i].end = v]
           r == [rs EXCEPT ![i].start = v]
<1>2. q \in Seq(Regions) /\ r \in Seq(Regions)
  BY <1>1, EditType
<1>3. DOMAIN q = DOMAIN rs /\ DOMAIN r = DOMAIN rs
  OBVIOUS
<1>4. \A j \in DOMAIN rs : q[j].at = rs[j].at /\ r[j].at = rs[j].at
  <2> TAKE j \in DOMAIN rs
  <2>1. rs[j] \in Regions
    BY <1>1
  <2> QED
    BY <2>1 DEF Regions
<1>5. [s EXCEPT !.regions[i].end = v] = [s EXCEPT !.regions = q]
      /\ [s EXCEPT !.regions[i].start = v] = [s EXCEPT !.regions = r]
  BY <1>1 DEF Works
<1> DEFINE x == [s EXCEPT !.regions = q]
           y == [s EXCEPT !.regions = r]
<1> HIDE DEF q, r
<1>6. /\ x \in Works /\ x.regions = q /\ x.mem = s.mem /\ x.avail = s.avail /\ x.fate = s.fate
      /\ y \in Works /\ y.regions = r /\ y.mem = s.mem /\ y.avail = s.avail /\ y.fate = s.fate
  BY <1>1, <1>2 DEF Works
<1> HIDE DEF x, y
<1>7. x \in Sound(own, roots)
  BY <1>2, <1>3, <1>4, <1>6, SoundEdit
<1>8. y \in Sound(own, roots)
  BY <1>2, <1>3, <1>4, <1>6, SoundEdit
<1> QED
  BY <1>5, <1>7, <1>8 DEF x, y

LEMMA MarkSound ==
    ASSUME NEW own, NEW roots, NEW s \in Sound(own, roots), NEW i, NEW fl \in SUBSET RegionFlags
    PROVE  [s EXCEPT !.regions[i].flags = fl] \in Sound(own, roots)
<1> DEFINE d == [s EXCEPT !.regions[i].flags = fl]
           rs == s.regions
           q == [rs EXCEPT ![i].flags = fl]
<1>1. s \in Works /\ rs \in Seq(Regions)
  BY DEF Sound, Works
<1>2. q \in Seq(Regions) /\ DOMAIN q = DOMAIN rs
  BY <1>1, EditType, Words
<1>3. d \in Works /\ d.mem = s.mem /\ d.avail = s.avail /\ d.fate = s.fate /\ d.regions = q
  <2>1. d = [s EXCEPT !.regions = q]
    BY <1>1 DEF Works
  <2> HIDE DEF d, q
  <2> QED
    BY <1>1, <1>2, <2>1 DEF Works
<1>4. \A j \in DOMAIN rs : q[j].at = rs[j].at
  <2> TAKE j \in DOMAIN rs
  <2>1. rs[j] \in Regions
    BY <1>1
  <2> QED
    BY <2>1 DEF Regions
<1> SUFFICES d \in Sound(own, roots)
  OBVIOUS
<1> HIDE DEF d, q
<1> QED
  BY <1>2, <1>3, <1>4, SoundEdit

\* The record that leaves the list goes back to the allocator.
LEMMA AbsorbSound ==
    ASSUME NEW own, NEW roots, NEW s \in Sound(own, roots),
           NEW i \in Nat, i \in DOMAIN s.regions, i + 1 \in DOMAIN s.regions
    PROVE  Absorb(s, i) \in Sound(own, roots)
<1> DEFINE d == Absorb(s, i)
           rs == s.regions
           h == [rs EXCEPT ![i].end = rs[i + 1].end]
           q == RemoveAt(h, i + 1)
           f == rs[i + 1].at
           x == FreeFrame(s, f)
<1>1. s \in Works /\ rs \in Seq(Regions)
  BY DEF Sound, Works
<1>2. /\ d.fate = "runs" => s.fate = "runs"
      /\ d = [x EXCEPT !.regions = q]
      /\ q \in Seq(Regions) /\ d.regions = q /\ d \in Works /\ Len(q) = Len(rs) - 1
  BY <1>1, AbsorbType
<1>3. f \in Frames /\ f \in Memory /\ rs[i + 1] \in Regions /\ rs[i] \in Regions
  <2>1. rs[i + 1] \in Regions /\ rs[i] \in Regions
    BY <1>1
  <2>2. f \in Frames
    BY <2>1 DEF Regions
  <2> QED
    BY <2>1, <2>2, Places
<1>4. x \in Works /\ x.mem = s.mem
  BY <1>1, <1>3, FreeFrameType
<1> SUFFICES d \in Sound(own, roots)
  OBVIOUS
<1>5. Len(rs) \in Nat /\ DOMAIN rs = 1 .. Len(rs) /\ i + 1 \in 1 .. Len(rs)
  BY <1>1
<1>6. h \in Seq(Regions) /\ DOMAIN h = DOMAIN rs /\ \A j \in DOMAIN rs : h[j].at = rs[j].at
  <2>1. rs[i + 1].end \in Address
    BY <1>3 DEF Regions
  <2>2. h \in Seq(Regions) /\ DOMAIN h = DOMAIN rs
    BY <1>1, <2>1, EditType
  <2>3. ASSUME NEW j \in DOMAIN rs PROVE h[j].at = rs[j].at
    <3>1. rs[j] \in Regions
      BY <1>1
    <3> QED
      BY <3>1 DEF Regions
  <2> QED
    BY <2>2, <2>3
<1> HIDE DEF h
<1>7. Len(h) = Len(rs)
  BY <1>1, <1>6, SameLength
<1>8. \A j \in 1 .. Len(rs) - 1 : q[j] = IF j < i + 1 THEN h[j] ELSE h[j + 1]
  <2>1. i + 1 \in 1 .. Len(h)
    BY <1>5, <1>7
  <2>2. \A j \in 1 .. Len(h) - 1 : RemoveAt(h, i + 1)[j] = IF j < i + 1 THEN h[j] ELSE h[j + 1]
    BY <1>6, <2>1, RemoveFacts
  <2> QED
    BY <1>7, <2>2
<1> HIDE DEF q, x
<1>9. d.mem = x.mem /\ d.avail = x.avail /\ d.fate = x.fate
  BY <1>2, <1>4 DEF Works
<1>10. DOMAIN q = 1 .. Len(rs) - 1
  BY <1>2
<1> HIDE DEF d
<1> SUFFICES ASSUME d.fate = "runs"
             PROVE  /\ Distinct(q) /\ Records(q) \cap own = {}
                    /\ Roles(d.mem, d.avail, own \cup Records(q), roots, {})
  <2>1. d.regions = q /\ d \in Works
    BY <1>2
  <2> QED
    BY <2>1, SoundFacts
<1>11. /\ Distinct(rs) /\ Records(rs) \cap own = {}
       /\ Roles(s.mem, s.avail, own \cup Records(rs), roots, {})
  BY <1>1, <1>2, SoundFacts
<1> DEFINE to(j) == IF j < i + 1 THEN j ELSE j + 1
<1>12. \A j \in DOMAIN q : to(j) \in DOMAIN rs /\ to(j) # i + 1 /\ q[j].at = rs[to(j)].at
  BY <1>5, <1>6, <1>8, <1>10
<1>13. \A j \in DOMAIN q, k \in DOMAIN q : to(j) = to(k) => j = k
  BY <1>5, <1>10
<1>14. Distinct(q)
  <2> HIDE DEF to
  <2> QED
    BY <1>11, <1>12, <1>13 DEF Distinct
<1>15. Records(q) = Records(rs) \ {f}
  <2>1. ASSUME NEW j \in DOMAIN q PROVE q[j].at \in Records(rs) \ {f}
    <3>1. to(j) \in DOMAIN rs /\ to(j) # i + 1 /\ q[j].at = rs[to(j)].at
      BY <1>12
    <3> HIDE DEF to
    <3> QED
      BY <1>11, <3>1 DEF Distinct, Records
  <2>2. ASSUME NEW k \in DOMAIN rs, rs[k].at # f PROVE rs[k].at \in Records(q)
    <3>1. k # i + 1
      BY <2>2
    <3>2. CASE k < i + 1
      <4>1. k \in DOMAIN q /\ q[k].at = rs[k].at
        BY <1>5, <1>6, <1>8, <1>10, <3>2
      <4> QED
        BY <4>1 DEF Records
    <3>3. CASE k > i + 1
      <4>1. k - 1 \in DOMAIN q /\ q[k - 1].at = rs[k].at
        BY <1>5, <1>6, <1>8, <1>10, <3>3
      <4> QED
        BY <4>1 DEF Records
    <3> QED
      BY <1>5, <3>1, <3>2, <3>3
  <2> QED
    BY <2>1, <2>2 DEF Records
<1>16. f \in Records(rs)
  BY DEF Records
<1>17. x \in Kept((own \cup Records(rs)) \ {f}, roots \ {f}, {})
  <2>1. s \in Kept(own \cup Records(rs), roots, {})
    BY <1>1, <1>11, KeptFacts
  <2> QED
    BY <1>3, <1>16, <2>1, GiveOwn DEF x
<1>18. (own \cup Records(rs)) \ {f} = own \cup Records(q)
  BY <1>11, <1>15, <1>16
<1>19. roots \ {f} = roots
  BY <1>11, <1>16 DEF Roles, Held
<1> QED
  BY <1>4, <1>9, <1>11, <1>14, <1>15, <1>17, <1>18, <1>19, KeptFacts

LEMMA OccupySound ==
    ASSUME NEW own, NEW roots, NEW s \in Sound(own, roots), NEW a \in Address, NEW b \in Address,
           NEW fl \in SUBSET RegionFlags
    PROVE  Occupy(s, a, b, fl) \in Sound(own, roots)
<1> DEFINE i == Holder(s.regions, a)
           r == s.regions[i]
           cut == [s EXCEPT !.regions[i].end = a]
           front == vmm_create_region(s, a, b, fl)
           mid == vmm_create_region(cut, a, b, fl)
<1>1. s \in Works /\ s.regions \in Seq(Regions)
  BY DEF Sound, Works
<1>2. cut \in Sound(own, roots)
  BY CutSound
<1>3. front \in Sound(own, roots)
  BY CreateSound
<1>4. [front EXCEPT !.regions[i + 1].start = b] \in Sound(own, roots)
  BY <1>3, CutSound
<1> HIDE DEF cut
<1>5. mid \in Sound(own, roots)
  BY <1>2, CreateSound
<1> HIDE DEF mid
<1>6. [s EXCEPT !.regions[i].flags = fl] \in Sound(own, roots)
  BY MarkSound
<1>7. i # 0 => vmm_create_region(mid, b, r.end, FREE) \in Sound(own, roots)
  <2> SUFFICES ASSUME i # 0 PROVE vmm_create_region(mid, b, r.end, FREE) \in Sound(own, roots)
    OBVIOUS
  <2>1. i \in DOMAIN s.regions
    BY <1>1, HolderFacts
  <2>2. r \in Regions
    BY <1>1, <2>1
  <2>3. r.end \in Address
    BY <2>2 DEF Regions
  <2> QED
    BY <1>5, <2>3, CreateSound DEF FREE
<1>8. Occupy(s, a, b, fl) =
          CASE i = 0 -> s
            [] i # 0 /\ r.start = a /\ r.end = b -> [s EXCEPT !.regions[i].flags = fl]
            [] i # 0 /\ r.start = a /\ r.end # b ->
                  IF front.regions = s.regions THEN front
                  ELSE [front EXCEPT !.regions[i + 1].start = b]
            [] i # 0 /\ r.start # a /\ r.end = b -> mid
            [] OTHER -> vmm_create_region(mid, b, r.end, FREE)
  BY OccupyCases DEF cut, mid
<1> HIDE DEF i, r, front
<1>9. CASE i = 0
  BY <1>8, <1>9
<1>10. CASE i # 0 /\ r.start = a
  BY <1>3, <1>4, <1>6, <1>8, <1>10
<1>11. CASE i # 0 /\ r.start # a
  BY <1>5, <1>7, <1>8, <1>11
<1> QED
  BY <1>9, <1>10, <1>11

LEMMA ReleaseSound ==
    ASSUME NEW own, NEW roots, NEW s \in Sound(own, roots), NEW i \in Nat, i \in DOMAIN s.regions
    PROVE  Release(s, i) \in Sound(own, roots)
<1> DEFINE f == [s EXCEPT !.regions[i].flags = FREE]
           left == i > 1 /\ f.regions[i - 1].flags = FREE
           m == IF left THEN Absorb(f, i - 1) ELSE f
           j == IF left THEN i - 1 ELSE i
<1>1. s \in Works /\ s.regions \in Seq(Regions)
  BY DEF Sound, Works
<1>2. f \in Sound(own, roots)
  BY MarkSound DEF FREE
<1>3. f.regions = [s.regions EXCEPT ![i].flags = FREE]
  BY <1>1, SetFlags DEF FREE
<1>4. f \in Works /\ f.regions \in Seq(Regions)
  BY <1>2 DEF Sound, Works
<1>5. DOMAIN f.regions = DOMAIN s.regions
  BY <1>3
<1>6. i \in 1 .. Len(f.regions) /\ DOMAIN f.regions = 1 .. Len(f.regions) /\ Len(f.regions) \in Nat
  BY <1>4, <1>5
<1>7. Release(s, i) = IF j < Len(m.regions) /\ m.regions[j + 1].flags = FREE
                      THEN Absorb(m, j) ELSE m
  BY DEF Release
<1> HIDE DEF f
<1>8. m \in Sound(own, roots) /\ j \in Nat /\ j \in DOMAIN m.regions
  <2>1. CASE left
    <3>1. i - 1 \in Nat /\ i - 1 \in DOMAIN f.regions /\ (i - 1) + 1 \in DOMAIN f.regions
      BY <1>6, <2>1
    <3>2. Absorb(f, i - 1) \in Sound(own, roots)
      BY <1>2, <3>1, AbsorbSound
    <3>3. Absorb(f, i - 1).regions \in Seq(Regions)
          /\ Len(Absorb(f, i - 1).regions) = Len(f.regions) - 1
      BY <1>4, <3>1, AbsorbType
    <3>4. i - 1 \in DOMAIN Absorb(f, i - 1).regions
      BY <1>6, <2>1, <3>3
    <3>5. m = Absorb(f, i - 1) /\ j = i - 1
      BY <2>1
    <3> HIDE DEF m, j
    <3> QED
      BY <3>1, <3>2, <3>4, <3>5
  <2>2. CASE ~left
    BY <1>2, <1>5, <2>2
  <2> QED
    BY <2>1, <2>2
<1> HIDE DEF m, j
<1>9. m \in Works /\ m.regions \in Seq(Regions)
  BY <1>8 DEF Sound, Works
<1>10. CASE j < Len(m.regions) /\ m.regions[j + 1].flags = FREE
  <2>1. j + 1 \in DOMAIN m.regions
    BY <1>8, <1>9, <1>10
  <2>2. Absorb(m, j) \in Sound(own, roots)
    BY <1>8, <2>1, AbsorbSound
  <2> QED
    BY <1>7, <1>10, <2>2
<1>11. CASE ~(j < Len(m.regions) /\ m.regions[j + 1].flags = FREE)
  BY <1>7, <1>8, <1>11
<1> QED
  BY <1>10, <1>11

-----------------------------------------------------------------------------
(* The spaces share nothing: structures and records are frames of their own, *)
(* and so are the tables of level 3.                                         *)

Itself(q) == IF q = Kernel THEN {} ELSE {q}
OwnOf(sp, q) == Itself(q) \cup Records(sp[q].regions)
Ours(sp) == UNION {OwnOf(sp, q) : q \in DOMAIN sp}
Others(sp, as) == Itself(as) \cup UNION {OwnOf(sp, q) : q \in DOMAIN sp \ {as}}
Roots(sp) == {sp[q].pml4 : q \in DOMAIN sp}

Separate(sp) ==
    /\ \A q \in DOMAIN sp : /\ Distinct(sp[q].regions)
                            /\ Itself(q) \cap Records(sp[q].regions) = {}
    /\ \A q \in DOMAIN sp, r \in DOMAIN sp :
           q # r => OwnOf(sp, q) \cap OwnOf(sp, r) = {} /\ sp[q].pml4 # sp[r].pml4

Shared(m, av, sp) == Separate(sp) /\ Roles(m, av, Ours(sp), Roots(sp), {})

\* The inductive invariant: while nothing is mingled, every frame has a use.
UseInv == ~mingled /\ fate = "runs" => Shared(mem, avail, spaces)

LEMMA OursParts ==
    ASSUME NEW sp, NEW as \in DOMAIN sp
    PROVE  /\ Ours(sp) = Others(sp, as) \cup Records(sp[as].regions)
           /\ sp[as].pml4 \in Roots(sp)
<1>1. Roots(sp) = {sp[q].pml4 : q \in DOMAIN sp}
  BY DEF Roots
<1>2. Ours(sp) = (UNION {OwnOf(sp, q) : q \in DOMAIN sp \ {as}}) \cup OwnOf(sp, as)
  BY DEF Ours
<1>3. Ours(sp) = Others(sp, as) \cup Records(sp[as].regions)
  BY <1>2 DEF Others, OwnOf
<1> QED
  BY <1>1, <1>3

LEMMA SeparateParts ==
    ASSUME NEW sp, NEW as \in DOMAIN sp, Separate(sp)
    PROVE  Distinct(sp[as].regions) /\ Records(sp[as].regions) \cap Others(sp, as) = {}
<1>1. \A q \in DOMAIN sp \ {as} : OwnOf(sp, as) \cap OwnOf(sp, q) = {}
  BY DEF Separate
<1>2. Itself(as) \cap Records(sp[as].regions) = {} /\ Distinct(sp[as].regions)
  BY DEF Separate
<1> QED
  BY <1>1, <1>2 DEF Others, OwnOf

\* A space's list changes, and no other space.
Relisted(new, sp, as) ==
    /\ DOMAIN new = DOMAIN sp
    /\ \A q \in DOMAIN sp \ {as} : new[q] = sp[q]
    /\ new[as].pml4 = sp[as].pml4
    /\ Distinct(new[as].regions)
    /\ Records(new[as].regions) \cap Others(sp, as) = {}

LEMMA SeparateWith ==
    ASSUME NEW sp, NEW as \in DOMAIN sp, Separate(sp), NEW new, Relisted(new, sp, as)
    PROVE  /\ Separate(new) /\ Roots(new) = Roots(sp)
           /\ Ours(new) = Others(sp, as) \cup Records(new[as].regions)
<1> USE DEF Relisted
<1>1. \A q \in DOMAIN sp : q # as => OwnOf(new, q) = OwnOf(sp, q)
  BY DEF OwnOf
<1>2. \A q \in DOMAIN sp : new[q].pml4 = sp[q].pml4
  OBVIOUS
<1>3. Roots(new) = Roots(sp)
  BY <1>2 DEF Roots
<1>4. Others(new, as) = Others(sp, as)
  BY <1>1 DEF Others
<1>5. Ours(new) = Others(sp, as) \cup Records(new[as].regions)
  BY <1>4, OursParts
<1>6. \A q \in DOMAIN sp : q # as => OwnOf(sp, q) \cap OwnOf(new, as) = {}
  <2> SUFFICES ASSUME NEW q \in DOMAIN sp, q # as
               PROVE  OwnOf(sp, q) \cap OwnOf(new, as) = {}
    OBVIOUS
  <2>1. OwnOf(sp, q) \subseteq Others(sp, as)
    BY DEF Others
  <2>2. OwnOf(sp, q) \cap Itself(as) = {}
    BY DEF Separate, OwnOf
  <2> QED
    BY <2>1, <2>2 DEF OwnOf
<1>7. \A q \in DOMAIN new : Distinct(new[q].regions) /\ Itself(q) \cap Records(new[q].regions) = {}
  <2>1. Itself(as) \cap Records(new[as].regions) = {}
    BY DEF Others
  <2> QED
    BY <2>1 DEF Separate
<1>8. \A q \in DOMAIN sp, r \in DOMAIN sp : q # r =>
          OwnOf(new, q) \cap OwnOf(new, r) = {} /\ new[q].pml4 # new[r].pml4
  <2> TAKE q \in DOMAIN sp, r \in DOMAIN sp
  <2>1. q # r => OwnOf(sp, q) \cap OwnOf(sp, r) = {} /\ sp[q].pml4 # sp[r].pml4
    BY DEF Separate
  <2>2. CASE q = as
    BY <1>1, <1>2, <1>6, <2>1, <2>2
  <2>3. CASE r = as
    BY <1>1, <1>2, <1>6, <2>1, <2>3
  <2>4. CASE q # as /\ r # as
    BY <1>1, <1>2, <2>1, <2>4
  <2> QED
    BY <2>2, <2>3, <2>4
<1> QED
  BY <1>3, <1>5, <1>7, <1>8 DEF Separate

-----------------------------------------------------------------------------
(* Calls within a space *)

\* The call's state at its start, and what it may be at its end, when the pages that
\* it names are not under large ones.
Clear4K(as, a, n) == \A v \in Run(a, n) : ~Low(spaces[as].pml4, v)
Safe(as, a, n) ==
    IF ~mingled /\ fate = "runs" /\ Clear4K(as, a, n)
    THEN Sound(Others(spaces, as), Roots(spaces)) ELSE Works

LEMMA StartSafe ==
    ASSUME TypeOK, UseInv, NEW as \in DOMAIN spaces
    PROVE  (\A a, n : Start(as) \in Safe(as, a, n)) /\ spaces[as].pml4 \in Roots(spaces) \cap Memory
<1>1. Start(as) \in Works /\ Start(as).mem = mem /\ Start(as).avail = avail
      /\ Start(as).regions = spaces[as].regions
  BY StartType
<1>2. spaces[as].pml4 \in Roots(spaces) /\ spaces[as].pml4 \in Memory
  BY OursParts, TypedFacts
<1>3. ASSUME ~mingled, fate = "runs"
      PROVE  Start(as) \in Sound(Others(spaces, as), Roots(spaces))
  <2>1. Separate(spaces) /\ Roles(mem, avail, Ours(spaces), Roots(spaces), {})
    BY <1>3 DEF UseInv, Shared
  <2>2. Distinct(spaces[as].regions) /\ Records(spaces[as].regions) \cap Others(spaces, as) = {}
    BY <2>1, SeparateParts
  <2>3. Ours(spaces) = Others(spaces, as) \cup Records(spaces[as].regions)
    BY OursParts
  <2> DEFINE x == Start(as)
             own == Others(spaces, as)
  <2>4. Distinct(x.regions) /\ Records(x.regions) \cap own = {}
    BY <1>1, <2>2
  <2>5. Roles(x.mem, x.avail, own \cup Records(x.regions), Roots(spaces), {})
    BY <1>1, <2>1, <2>3
  <2> HIDE DEF x, own
  <2>6. x \in Sound(own, Roots(spaces))
    BY <1>1, <2>4, <2>5, SoundFacts DEF x
  <2> QED
    BY <2>6 DEF x, own
<1> QED
  BY <1>1, <1>2, <1>3 DEF Safe

LEMMA WholeType ==
    ASSUME TypeOK, NEW as \in DOMAIN spaces
    PROVE  \A a, n : Typed(as, OfWhole(as, a, n)) /\ OfWhole(as, a, n).pml4 = spaces[as].pml4
<1>1. Typed(as, spaces[as])
  BY TypedFacts
<1> TAKE a, n
<1> DEFINE b == spaces[as].plain /\ Whole(as, a, n)
<1>2. b \in BOOLEAN /\ OfWhole(as, a, n) = [spaces[as] EXCEPT !.plain = b]
  BY DEF OfWhole
<1> HIDE DEF b
<1> QED
  BY <1>1, <1>2 DEF Typed, Spaces

LEMMA WithinUses ==
    ASSUME TypeOK, UseInv, NEW as \in DOMAIN spaces, NEW space,
           Typed(as, space), space.pml4 = spaces[as].pml4,
           NEW op, NEW ok \in BOOLEAN, NEW a, NEW n, NEW s \in Safe(as, a, n),
           Within(op, as, s, space, ok, a, n), Minded
    PROVE  UseInv'
<1> DEFINE new == With(as, Ended(s, space, ok))
<1>1. Commit(s, new, op, as, ok, a, n)
  BY DEF Within, Ended
<1>2. s \in Works
  BY DEF Safe, Sound
<1>3. /\ DOMAIN new = DOMAIN spaces
      /\ \A q \in DOMAIN spaces \ {as} : new[q] = spaces[q]
      /\ new[as].pml4 = spaces[as].pml4 /\ new[as].regions = s.regions
  <2>1. Ended(s, space, ok).pml4 = space.pml4 /\ Ended(s, space, ok).regions = s.regions
    BY DEF Ended, Typed, Spaces
  <2>2. DOMAIN spaces \cup {as} = DOMAIN spaces
    OBVIOUS
  <2> QED
    BY <2>1, <2>2 DEF With
<1> HIDE DEF new
<1> SUFFICES ASSUME ~mingled', fate' = "runs"
             PROVE  Shared(mem', avail', spaces')
  BY DEF UseInv
<1>4. ~mingled /\ fate = "runs" /\ s.fate = "runs"
      /\ mem' = s.mem /\ avail' = s.avail /\ spaces' = new
  BY <1>1 DEF Commit, Minded
<1>9. Clear4K(as, a, n)
  <2>1. done'.as = as /\ done'.addr = a /\ done'.pages = n
    BY <1>1 DEF Commit
  <2>2. \A v \in Run(a, n) : ~KernelsOwn(as, v)
    BY <2>1 DEF Minded
  <2>3. spaces[as].pml4 = KernelPml4 => as = Kernel
    BY TypeParts DEF AllTyped, Typed
  <2> QED
    BY <2>2, <2>3 DEF Clear4K, KernelsOwn, Low
<1>5. Separate(spaces)
  BY <1>4 DEF UseInv, Shared
<1>6. s \in Sound(Others(spaces, as), Roots(spaces))
  BY <1>4, <1>9 DEF Safe
<1>7. /\ Distinct(s.regions) /\ Records(s.regions) \cap Others(spaces, as) = {}
      /\ Roles(s.mem, s.avail, Others(spaces, as) \cup Records(s.regions), Roots(spaces), {})
  BY <1>2, <1>4, <1>6, SoundFacts
<1>8. /\ Separate(new) /\ Roots(new) = Roots(spaces)
      /\ Ours(new) = Others(spaces, as) \cup Records(new[as].regions)
  <2>1. Distinct(new[as].regions) /\ Records(new[as].regions) \cap Others(spaces, as) = {}
    BY <1>3, <1>7
  <2>2. Relisted(new, spaces, as)
    BY <1>3, <2>1 DEF Relisted
  <2> QED
    BY <1>3, <1>5, <2>2, SeparateWith
<1> QED
  BY <1>3, <1>4, <1>7, <1>8 DEF Shared

LEMMA RefusedUses ==
    ASSUME TypeOK, UseInv, NEW as \in DOMAIN spaces, NEW op, Refused(op, as), Minded
    PROVE  UseInv'
BY StartSafe, TypedFacts, WithinUses DEF Refused

\* The loops over pages, the lists, and the end of a region.
LEMMA SafeWork ==
    ASSUME NEW as, NEW a, NEW n, NEW s \in Safe(as, a, n), NEW x \in Works,
           x.regions = s.regions, x.fate = "runs" => s.fate = "runs",
           Clear4K(as, a, n) =>
               \A own : s \in Kept(own, Roots(spaces), {}) => x \in Kept(own, Roots(spaces), {})
    PROVE  x \in Safe(as, a, n)
BY SoundWork DEF Safe

LEMMA SafeDrops ==
    ASSUME NEW as, NEW p \in Roots(spaces) \cap Memory, p = spaces[as].pml4,
           NEW a \in Address, NEW n \in Nat, NEW s \in Safe(as, a, n), NEW c \in 0 .. n
    PROVE  DropPages(s, p, a, c) \in Safe(as, a, n)
<1>1. s \in Works /\ p \in Memory
  BY DEF Safe, Sound
<1>0. c \in Nat /\ c <= n
  OBVIOUS
<1>2. Clear4K(as, a, n) => \A v \in Run(a, c) : ~Low(p, v)
  <2>1. Run(a, c) \subseteq Run(a, n)
    BY <1>0 DEF Run
  <2> QED
    BY <2>1 DEF Clear4K
<1> DEFINE x == DropPages(s, p, a, c)
<1>3. x \in Works /\ x.regions = s.regions /\ (x.fate = "runs" => s.fate = "runs")
  BY <1>0, <1>1, DropsType
<1>4. Clear4K(as, a, n) =>
          \A own : s \in Kept(own, Roots(spaces), {}) => x \in Kept(own, Roots(spaces), {})
  BY <1>0, <1>2, DropsKeep
<1> HIDE DEF x
<1>5. x \in Safe(as, a, n)
  BY <1>3, <1>4, SafeWork
<1> QED
  BY <1>5 DEF x

LEMMA SafeLoops ==
    ASSUME NEW as, NEW p \in Roots(spaces) \cap Memory, p = spaces[as].pml4,
           NEW a \in Address, NEW n \in Nat, NEW fl \in SUBSET Rights,
           NEW s \in Safe(as, a, n)
    PROVE  /\ Back(s, p, a, n, fl) \in Safe(as, a, n)
           /\ UnmapEach(s, p, a, n) \in Safe(as, a, n)
           /\ ReprotectEach(s, p, a, n, fl) \in Safe(as, a, n)
<1>1. s \in Works /\ p \in Memory
  BY DEF Safe, Sound
<1>6. Clear4K(as, a, n) => \A v \in Run(a, n) : ~Low(p, v)
  BY DEF Clear4K
<1>3. Back(s, p, a, n, fl) \in Safe(as, a, n)
  <2> DEFINE x == Back(s, p, a, n, fl)
  <2>1. x \in Works /\ x.regions = s.regions /\ x.fate = s.fate
    BY <1>1, BackType
  <2>2. Clear4K(as, a, n) =>
            \A own : s \in Kept(own, Roots(spaces), {}) => x \in Kept(own, Roots(spaces), {})
    BY <1>6, BackKeeps
  <2> HIDE DEF x
  <2>3. x \in Safe(as, a, n)
    BY <2>1, <2>2, SafeWork
  <2> QED
    BY <2>3 DEF x
<1>4. UnmapEach(s, p, a, n) \in Safe(as, a, n)
  <2> DEFINE x == UnmapEach(s, p, a, n)
  <2>1. x \in Works /\ x.regions = s.regions /\ x.fate = s.fate
    BY <1>1, UnmapsType
  <2>2. \A own : s \in Kept(own, Roots(spaces), {}) => x \in Kept(own, Roots(spaces), {})
    BY UnmapsKeep
  <2> HIDE DEF x
  <2>3. x \in Safe(as, a, n)
    BY <2>1, <2>2, SafeWork
  <2> QED
    BY <2>3 DEF x
<1>5. ReprotectEach(s, p, a, n, fl) \in Safe(as, a, n)
  <2> DEFINE x == ReprotectEach(s, p, a, n, fl)
  <2>1. x \in Works /\ x.regions = s.regions /\ x.fate = s.fate
    BY <1>1, ReprotectsType
  <2>2. Clear4K(as, a, n) =>
            \A own : s \in Kept(own, Roots(spaces), {}) => x \in Kept(own, Roots(spaces), {})
    BY <1>6, ReprotectsKeep
  <2> HIDE DEF x
  <2>3. x \in Safe(as, a, n)
    BY <2>1, <2>2, SafeWork
  <2> QED
    BY <2>3 DEF x
<1> QED
  BY <1>3, <1>4, <1>5

LEMMA SafeType ==
    ASSUME NEW as, NEW b0, NEW n, NEW s \in Safe(as, b0, n)
    PROVE  s \in Works /\ s.regions \in Seq(Regions) /\ s.count \in Nat
<1>1. s \in Works
  BY DEF Safe, Sound
<1> QED
  BY <1>1 DEF Works

LEMMA SafeMark ==
    ASSUME NEW as, NEW b0, NEW n, NEW s \in Safe(as, b0, n), NEW i, NEW fl \in SUBSET RegionFlags
    PROVE  [s EXCEPT !.regions[i].flags = fl] \in Safe(as, b0, n)
<1> DEFINE d == [s EXCEPT !.regions[i].flags = fl]
<1>1. d \in Works
  BY SafeType, SetFlags
<1>2. \A own, roots : s \in Sound(own, roots) => d \in Sound(own, roots)
  BY MarkSound
<1> HIDE DEF d
<1>3. d \in Safe(as, b0, n)
  BY <1>1, <1>2 DEF Safe
<1> QED
  BY <1>3 DEF d

LEMMA SafeLists ==
    ASSUME NEW as, NEW b0, NEW n, NEW s \in Safe(as, b0, n)
    PROVE  /\ \A a \in Address, b \in Address, fl \in SUBSET RegionFlags :
                  vmm_create_region(s, a, b, fl) \in Safe(as, b0, n) /\ Occupy(s, a, b, fl) \in Safe(as, b0, n)
           /\ \A i \in Nat : i \in DOMAIN s.regions => Release(s, i) \in Safe(as, b0, n)
<1>1. s \in Works
  BY SafeType
<1>2. ASSUME NEW a \in Address, NEW b \in Address, NEW fl \in SUBSET RegionFlags
      PROVE  vmm_create_region(s, a, b, fl) \in Safe(as, b0, n) /\ Occupy(s, a, b, fl) \in Safe(as, b0, n)
  <2> DEFINE x == vmm_create_region(s, a, b, fl)
             y == Occupy(s, a, b, fl)
  <2>1. x \in Works /\ y \in Works
    BY <1>1, CreateType, OccupyType DEF Listed
  <2>2. \A own, roots : s \in Sound(own, roots) => x \in Sound(own, roots) /\ y \in Sound(own, roots)
    BY CreateSound, OccupySound
  <2> HIDE DEF x, y
  <2>3. x \in Safe(as, b0, n) /\ y \in Safe(as, b0, n)
    BY <2>1, <2>2 DEF Safe
  <2> QED
    BY <2>3 DEF x, y
<1>3. ASSUME NEW i \in Nat, i \in DOMAIN s.regions
      PROVE  Release(s, i) \in Safe(as, b0, n)
  <2>1. Release(s, i) \in Works
    BY <1>1, <1>3, ReleaseType
  <2>2. \A own, roots : s \in Sound(own, roots) => Release(s, i) \in Sound(own, roots)
    BY <1>3, ReleaseSound
  <2> QED
    BY <2>1, <2>2 DEF Safe
<1> QED
  BY <1>2, <1>3

LEMMA SwitchUses ==
    ASSUME TypeOK, UseInv, NEW as \in DOMAIN spaces, Switch(as)
    PROVE  UseInv'
<1> DEFINE b == IF virt_to_phys(mem, spaces[as].pml4, Code * PAGE).to = Code THEN "runs" ELSE "halted"
           s == [Idle EXCEPT !.fate = b]
<1>1. Commit(s, spaces, "switch", as, TRUE, 0, 0) /\ UNCHANGED mingled
  BY DEF Switch
<1>2. s.mem = mem /\ s.avail = avail
  BY IdleType DEF Works
<1> HIDE DEF s
<1>3. fate = "runs" /\ mem' = mem /\ avail' = avail /\ spaces' = spaces
  BY <1>1, <1>2 DEF Commit
<1> QED
  BY <1>1, <1>3 DEF UseInv

LEMMA AllocUses ==
    ASSUME TypeOK, UseInv, NEW as \in DOMAIN spaces, NEW addr \in Addresses \cup {0},
           NEW count \in Counts, NEW fl \in Flags, Alloc(as, addr, count, fl)
    PROVE  UseInv'
<1> DEFINE pml4 == spaces[as].pml4
           n == PagesIn(count)
           virt == IF addr = 0 THEN vmm_find_free_region(spaces[as].regions, n * PAGE)
                               ELSE align_down(addr)
           taken == addr # 0 /\ vmm_find_region(spaces[as].regions, virt) # 0
           s == Back(Start(as), pml4, virt, n, PageFlags(fl))
           space == IF addr = 0 THEN spaces[as] ELSE Mixed(as)
           undone == Rollback(s, pml4, virt)
           got == Occupy(s, virt, virt + n * PAGE, fl)
<1>1. /\ IF virt = 0 \/ taken THEN Refused("alloc", as)
         ELSE IF s.count < n THEN Within("alloc", as, undone, space, FALSE, virt, n)
         ELSE Within("alloc", as, got, space, TRUE, virt, n)
      /\ Minded
  BY DEF Alloc
<1>2. /\ virt \in Address /\ n \in Nat
      /\ addr = 0 /\ virt # 0 => virt + n * PAGE \in Address
  BY AllocPlace
<1>3. Typed(as, spaces[as]) /\ Typed(as, space) /\ space.pml4 = pml4
  BY TypedFacts, PlainType
<1>4. (\A a0, n0 : Start(as) \in Safe(as, a0, n0)) /\ pml4 \in Roots(spaces) \cap Memory
  BY StartSafe
<1> HIDE DEF n, virt, pml4, space
<1>5. PageFlags(fl) \in SUBSET Rights /\ fl \in SUBSET RegionFlags
  BY CallArguments, PageFlagsType
<1>6. s \in Safe(as, virt, n)
  BY <1>2, <1>4, <1>5, SafeLoops DEF pml4
<1>7. Start(as) \in Works /\ Start(as).regions = spaces[as].regions /\ pml4 \in Memory
  BY <1>4, StartType
<1>8. s.regions = spaces[as].regions
  <2> DEFINE b == Start(as)
             rt == PageFlags(fl)
  <2> HIDE DEF b, rt
  <2>1. b \in Works /\ b.regions = spaces[as].regions /\ rt \in SUBSET Rights
    BY <1>5, <1>7 DEF b, rt
  <2> DEFINE x == Back(b, pml4, virt, n, rt)
  <2>2. x \in Works /\ x.regions = b.regions /\ x.fate = b.fate /\ x.avail \subseteq b.avail
    BY <1>2, <1>7, <2>1, BackType
  <2> QED
    BY <2>1, <2>2 DEF b, rt
<1> HIDE DEF s
<1>9. s \in Works
  BY <1>6, SafeType
<1>10. s.count < n => undone \in Safe(as, virt, n)
  <2> SUFFICES ASSUME s.count < n
               PROVE  undone \in Safe(as, virt, n)
    OBVIOUS
  <2>1. s.count \in Nat
    BY <1>9 DEF Works
  <2> DEFINE c == s.count
  <2>2. c \in 0 .. n
    BY <1>2, <2>1
  <2>3. undone = DropPages(s, spaces[as].pml4, virt, c)
    BY DEF Rollback, pml4
  <2>4. spaces[as].pml4 \in Roots(spaces) \cap Memory
    BY <1>4 DEF pml4
  <2> HIDE DEF undone, c
  <2> QED
    BY <1>2, <1>6, <2>2, <2>3, <2>4, SafeDrops
<1>11. virt # 0 /\ ~taken => got \in Safe(as, virt, n)
  <2>1. CASE addr = 0
    BY <1>2, <1>5, <1>6, <2>1, SafeLists
  <2>2. CASE addr # 0 /\ ~taken
    <3>1. vmm_find_region(s.regions, virt) = 0
      BY <1>8, <2>2
    <3>2. Occupy(s, virt, virt + n * PAGE, fl) = s
      BY <1>9, <3>1, OccupyNothing
    <3> QED
      BY <1>6, <3>2
  <2> QED
    BY <2>1, <2>2
<1> HIDE DEF undone, got, taken
<1> QED
  BY <1>1, <1>3, <1>10, <1>11, RefusedUses, WithinUses DEF pml4

LEMMA FreeUses ==
    ASSUME TypeOK, UseInv, NEW as \in DOMAIN spaces, NEW addr \in Addresses, NEW count \in Counts,
           Free(as, addr, count)
    PROVE  UseInv'
<1> DEFINE n == PagesIn(count)
           s == DropPages(Start(as), spaces[as].pml4, addr, n)
           i == vmm_find_region(s.regions, addr)
           t == IF i = 0 THEN s ELSE Release(s, i)
<1>1. Within("free", as, t, OfWhole(as, addr, n), TRUE, addr, n) /\ Minded
  BY DEF Free
<1>2. n \in Nat /\ addr \in Address /\ {} \in SUBSET Rights
  BY CallArguments, PageCounts
<1> HIDE DEF n
<1>3. s \in Safe(as, addr, n)
  <2>1. n \in 0 .. n
    BY <1>2
  <2>2. Start(as) \in Safe(as, addr, n) /\ spaces[as].pml4 \in Roots(spaces) \cap Memory
    BY StartSafe
  <2> QED
    BY <1>2, <2>1, <2>2, SafeDrops
<1> HIDE DEF s
<1>4. s.regions \in Seq(Regions)
  BY <1>3, SafeType
<1>5. i # 0 => i \in Nat /\ i \in DOMAIN s.regions
  BY <1>4, RegionFound, SeqFacts
<1> HIDE DEF i
<1>6. t \in Safe(as, addr, n)
  BY <1>3, <1>5, SafeLists
<1> HIDE DEF t
<1>7. Typed(as, OfWhole(as, addr, n)) /\ OfWhole(as, addr, n).pml4 = spaces[as].pml4
  BY WholeType
<1> QED
  BY <1>1, <1>6, <1>7, WithinUses

LEMMA BrkUses ==
    ASSUME TypeOK, UseInv, NEW as \in DOMAIN spaces, NEW end \in Address, Brk(as, end)
    PROVE  UseInv'
<1> DEFINE sp == spaces[as]
           new == align_up(end)
           up == IF new > sp.heap_end THEN (new - sp.heap_end) \div PAGE ELSE 0
           down == IF new < sp.heap_end THEN (sp.heap_end - new) \div PAGE ELSE 0
           s == IF up > 0 THEN Back(Start(as), sp.pml4, sp.heap_end, up, {"w", "u"})
                ELSE DropPages(Start(as), sp.pml4, new, down)
           moved == [Mixed(as) EXCEPT !.heap_end = new]
<1>1. /\ IF BelowHeap(sp, new) THEN Refused("brk", as)
         ELSE IF s.count < up THEN Within("brk", as, s, Mixed(as), FALSE, sp.heap_end, up)
         ELSE Within("brk", as, s, moved, TRUE, IF up > 0 THEN sp.heap_end ELSE new, up + down)
      /\ Minded
  BY DEF Brk
<1>2. new \in Address /\ new \in Nat /\ sp.heap_end \in Address /\ sp.heap_end \in Nat
      /\ sp.heap_start \in Nat
  BY Words, TypedFacts
<1>3. Typed(as, Mixed(as)) /\ Mixed(as).pml4 = sp.pml4
  BY PlainType
<1>4. Mixed(as).heap_start = sp.heap_start
  BY TypedFacts DEF Mixed, Typed, Spaces
<1>5. (\A a0, n0 : Start(as) \in Safe(as, a0, n0)) /\ sp.pml4 \in Roots(spaces) \cap Memory
  BY StartSafe
<1> HIDE DEF new, sp
<1>6. up \in Nat /\ down \in Nat
  <2>1. ASSUME NEW x \in Nat, NEW y \in Nat, x > y
        PROVE  (x - y) \div PAGE \in Nat
    <3>1. x - y \in Nat
      BY <2>1
    <3> QED
      BY <3>1, Geometry, Division
  <2> QED
    BY <1>2, <2>1
<1> DEFINE a == IF up > 0 THEN sp.heap_end ELSE new
           m == up + down
<1>10. (up > 0 => down = 0) /\ (~(up > 0) => up = 0)
  BY <1>2, <1>6
<1> HIDE DEF up, down
<1>11. a \in Address /\ m \in Nat /\ (up > 0 => a = sp.heap_end /\ m = up)
       /\ (~(up > 0) => a = new /\ m = down)
  BY <1>2, <1>6, <1>10
<1> HIDE DEF a, m
<1>7. s \in Safe(as, a, m)
  <2>1. {"w", "u"} \in SUBSET Rights
    BY DEF Rights
  <2>2. up > 0 => Back(Start(as), sp.pml4, sp.heap_end, up, {"w", "u"}) \in Safe(as, a, m)
    BY <1>5, <1>11, <2>1, SafeLoops DEF sp
  <2>3. ~(up > 0) => DropPages(Start(as), sp.pml4, new, down) \in Safe(as, a, m)
    <3>1. m \in 0 .. m
      BY <1>11
    <3>2. Start(as) \in Safe(as, a, m) /\ sp.pml4 \in Roots(spaces) \cap Memory
      BY <1>5
    <3>3. DropPages(Start(as), sp.pml4, a, m) \in Safe(as, a, m)
      BY <1>11, <3>1, <3>2, SafeDrops DEF sp
    <3> QED
      BY <1>11, <3>3
  <2> QED
    BY <2>2, <2>3
<1>12. s.count < up => up > 0
  <2>1. s.count \in Nat
    BY <1>7, SafeType
  <2> HIDE DEF s
  <2> QED
    BY <1>6, <2>1
<1> HIDE DEF s
<1>8. ~BelowHeap(sp, new) => Typed(as, moved)
  <2>1. ~BelowHeap(sp, new) => Mixed(as).heap_start <= new
    BY <1>2, <1>4 DEF BelowHeap
  <2> QED
    BY <1>2, <1>3, <2>1 DEF Typed, Spaces
<1>9. moved.pml4 = sp.pml4
  BY <1>3 DEF Typed, Spaces
<1> HIDE DEF moved
<1>13. \/ Refused("brk", as)
       \/ Within("brk", as, s, Mixed(as), FALSE, a, m)
       \/ ~BelowHeap(sp, new) /\ Within("brk", as, s, moved, TRUE, a, m)
  BY <1>1, <1>11, <1>12 DEF a, m
<1> QED
  BY <1>1, <1>13, <1>3, <1>7, <1>8, <1>9, RefusedUses, WithinUses DEF sp

LEMMA SbrkUses ==
    ASSUME TypeOK, UseInv, NEW as \in DOMAIN spaces, NEW count \in Counts,
           Sbrk(as, count) \/ Sbrk(as, -count)
    PROVE  UseInv'
<1> DEFINE h == spaces[as].heap_end
<1>1. \A z \in Int : (h + z) % WORD \in Address
  <2>1. h \in Nat /\ WORD \in Nat \ {0}
    BY TypedFacts, Words, Geometry
  <2> HIDE DEF h
  <2> TAKE z \in Int
  <2>2. (h + z) % WORD \in 0 .. WORD - 1
    BY <2>1
  <2> QED
    BY <2>2 DEF Address
<1>2. count \in Int /\ -count \in Int
  BY CallArguments
<1>3. PICK z \in Int : Sbrk(as, z)
  BY <1>2
<1> QED
  BY <1>1, <1>3, BrkUses DEF Sbrk

LEMMA StackUses ==
    ASSUME TypeOK, UseInv, NEW as \in DOMAIN spaces, NEW top \in Addresses, NEW size \in Counts,
           SetupStack(as, top, size)
    PROVE  UseInv'
<1> DEFINE sp == spaces[as]
           high == align_down(top)
           n == align_up(size) \div PAGE
           low == (high - align_up(size)) % WORD
           s == Back(Start(as), sp.pml4, low, n, {"w", "u", "nx"})
           undone == Rollback(s, sp.pml4, low)
           got == vmm_create_region(s, low, high, {"used", "stack", "read", "write"})
           space == [Mixed(as) EXCEPT !.stack_start = low, !.stack_end = high]
<1>1. /\ IF s.count < n THEN Within("stack", as, undone, Mixed(as), FALSE, low, n)
         ELSE Within("stack", as, got, space, TRUE, low, n)
      /\ Minded
  BY DEF SetupStack
<1>2. high \in Address /\ n \in Nat /\ low \in Address
  <2>1. high \in Address /\ n \in Nat /\ align_up(size) \in Nat
    BY CallArguments, Words, SizePages
  <2> DEFINE up == align_up(size)
             x == high - up
  <2> HIDE DEF high, n, up
  <2>2. x \in Int /\ WORD \in Nat \ {0}
    BY <2>1, Words, Geometry DEF up
  <2> HIDE DEF x
  <2>3. x % WORD \in 0 .. WORD - 1
    BY <2>2
  <2> QED
    BY <2>1, <2>3 DEF Address, x, up
<1>3. Typed(as, Mixed(as)) /\ Mixed(as).pml4 = sp.pml4
  BY PlainType
<1>4. (\A a0, n0 : Start(as) \in Safe(as, a0, n0)) /\ sp.pml4 \in Roots(spaces) \cap Memory
  BY StartSafe
<1> HIDE DEF high, n, low, sp
<1>5. {"w", "u", "nx"} \in SUBSET Rights
  BY DEF Rights
<1>6. s \in Safe(as, low, n)
  BY <1>2, <1>4, <1>5, SafeLoops DEF sp
<1> HIDE DEF s
<1>7. s.count < n => undone \in Safe(as, low, n)
  <2> SUFFICES ASSUME s.count < n
               PROVE  undone \in Safe(as, low, n)
    OBVIOUS
  <2>1. s.count \in Nat
    BY <1>6, SafeType
  <2> DEFINE c == s.count
  <2>2. c \in 0 .. n
    BY <1>2, <2>1
  <2>3. undone = DropPages(s, spaces[as].pml4, low, c)
    BY DEF Rollback, sp
  <2>4. spaces[as].pml4 \in Roots(spaces) \cap Memory
    BY <1>4 DEF sp
  <2> HIDE DEF undone, c
  <2> QED
    BY <1>2, <1>6, <2>2, <2>3, <2>4, SafeDrops
<1>8. got \in Safe(as, low, n)
  <2>1. {"used", "stack", "read", "write"} \in SUBSET RegionFlags
    BY DEF RegionFlags
  <2> QED
    BY <1>2, <1>6, <2>1, SafeLists
<1>9. Typed(as, space) /\ space.pml4 = sp.pml4
  BY <1>2, <1>3 DEF Typed, Spaces
<1> HIDE DEF undone, got, space
<1> QED
  BY <1>1, <1>3, <1>7, <1>8, <1>9, WithinUses DEF sp

LEMMA FaultUses ==
    ASSUME TypeOK, UseInv, NEW as \in DOMAIN spaces, NEW addr \in Addresses, PageFault(as, addr)
    PROVE  UseInv'
<1> DEFINE sp == spaces[as]
           page == align_down(addr)
           s == Back(Start(as), sp.pml4, page, 1, {"w", "u", "nx"})
           space == [sp EXCEPT !.stack_start = page]
<1>1. /\ \/ Refused("fault", as)
         \/ Within("fault", as, s, sp, FALSE, page, 1)
         \/ Within("fault", as, s, space, TRUE, page, 1)
      /\ Minded
  BY DEF PageFault
<1>2. page \in Address /\ Typed(as, sp)
  BY CallArguments, Words, TypedFacts
<1>3. (\A a0, n0 : Start(as) \in Safe(as, a0, n0)) /\ sp.pml4 \in Roots(spaces) \cap Memory
  BY StartSafe
<1> HIDE DEF page, sp
<1>4. s \in Safe(as, page, 1)
  <2>1. {"w", "u", "nx"} \in SUBSET Rights /\ 1 \in Nat
    BY DEF Rights
  <2> QED
    BY <1>2, <1>3, <2>1, SafeLoops DEF sp
<1>5. Typed(as, space) /\ space.pml4 = sp.pml4
  BY <1>2 DEF Typed, Spaces
<1> HIDE DEF s, space
<1> QED
  BY <1>1, <1>2, <1>4, <1>5, RefusedUses, WithinUses DEF sp

LEMMA UnmapUses ==
    ASSUME TypeOK, UseInv, NEW as \in DOMAIN spaces, NEW addr \in Addresses, NEW size \in Counts,
           UnmapPages(as, addr, size)
    PROVE  UseInv'
<1> DEFINE virt == align_down(addr)
           n == align_up(size) \div PAGE
           s == UnmapEach(Start(as), spaces[as].pml4, virt, n)
           i == vmm_find_region(s.regions, virt)
           f == [s EXCEPT !.regions[i].flags = FREE]
           t == IF i = 0 THEN s ELSE f
<1>1. Within("unmap", as, t, Mixed(as), TRUE, virt, n) /\ Minded
  BY DEF UnmapPages
<1>2. virt \in Address /\ n \in Nat /\ {} \in SUBSET Rights
  BY CallArguments, Words, SizePages
<1> HIDE DEF virt, n
<1>3. s \in Safe(as, virt, n)
  BY <1>2, StartSafe, SafeLoops
<1> HIDE DEF s, i
<1>4. f \in Safe(as, virt, n)
  <2>1. FREE \in SUBSET RegionFlags
    BY DEF FREE
  <2> QED
    BY <1>3, <2>1, SafeMark
<1> HIDE DEF f
<1>5. t \in Safe(as, virt, n)
  BY <1>3, <1>4
<1> HIDE DEF t
<1>6. Typed(as, Mixed(as)) /\ Mixed(as).pml4 = spaces[as].pml4
  BY PlainType
<1> QED
  BY <1>1, <1>5, <1>6, WithinUses

LEMMA ProtectUses ==
    ASSUME TypeOK, UseInv, NEW as \in DOMAIN spaces, NEW addr \in Addresses, NEW size \in Counts,
           NEW fl \in Flags, Protect(as, addr, size, fl)
    PROVE  UseInv'
<1> DEFINE virt == align_down(addr)
           n == align_up(size) \div PAGE
           s == ReprotectEach(Start(as), spaces[as].pml4, virt, n, PageFlags(fl))
           i == vmm_find_region(s.regions, virt)
           new == (s.regions[i].flags \ {"read", "write", "exec"}) \cup fl
           f == [s EXCEPT !.regions[i].flags = (@ \ {"read", "write", "exec"}) \cup fl]
           t == IF i = 0 THEN s ELSE f
<1>1. Within("protect", as, t, OfWhole(as, virt, n), TRUE, virt, n) /\ Minded
  BY DEF Protect
<1>2. virt \in Address /\ n \in Nat
  BY CallArguments, Words, SizePages
<1> HIDE DEF virt, n
<1>3. s \in Safe(as, virt, n)
  BY <1>2, StartSafe, SafeLoops, PageFlagsType
<1> HIDE DEF s
<1>4. s \in Works /\ s.regions \in Seq(Regions)
  BY <1>3, SafeType
<1>5. i # 0 => i \in DOMAIN s.regions
  BY <1>4, RegionFound
<1> HIDE DEF i
<1>6. i # 0 => new \in SUBSET RegionFlags
  <2>1. i # 0 => s.regions[i] \in Regions
    BY <1>4, <1>5, SeqFacts
  <2>2. i # 0 => s.regions[i].flags \in SUBSET RegionFlags
    BY <2>1 DEF Regions
  <2> QED
    BY <2>2, CallArguments
<1>7. i # 0 => f = [s EXCEPT !.regions[i].flags = new]
  BY <1>4, <1>5 DEF Works
<1> HIDE DEF new, f
<1>8. ASSUME i # 0
      PROVE  f \in Safe(as, virt, n)
  <2> DEFINE g == [s EXCEPT !.regions[i].flags = new]
  <2>1. g \in Safe(as, virt, n)
    BY <1>3, <1>6, <1>8, SafeMark
  <2> HIDE DEF g
  <2> QED
    BY <1>7, <1>8, <2>1 DEF g
<1>9. t \in Safe(as, virt, n)
  BY <1>3, <1>8
<1> HIDE DEF t
<1>10. Typed(as, OfWhole(as, virt, n)) /\ OfWhole(as, virt, n).pml4 = spaces[as].pml4
  BY WholeType
<1> QED
  BY <1>1, <1>9, <1>10, WithinUses

-----------------------------------------------------------------------------
(* A space is destroyed *)

LEMMA GiveKept ==
    ASSUME NEW own, NEW roots, NEW s \in Kept(own, roots, {}), NEW f \in Memory
    PROVE  /\ f \in own /\ f \notin roots => FreeFrame(s, f) \in Kept(own \ {f}, roots, {})
           /\ f \in roots /\ f \notin own => FreeFrame(s, f) \in Kept(own, roots \ {f}, {})
<1>1. f \in own /\ f \notin roots => FreeFrame(s, f) \in Kept(own \ {f}, roots, {})
  <2> SUFFICES ASSUME f \in own, f \notin roots
               PROVE  FreeFrame(s, f) \in Kept(own \ {f}, roots, {})
    OBVIOUS
  <2>1. FreeFrame(s, f) \in Kept(own \ {f}, roots \ {f}, {}) /\ f \in own \cup roots
    BY GiveOwn
  <2>2. roots \ {f} = roots
    OBVIOUS
  <2> QED
    BY <2>1, <2>2
<1>2. f \in roots /\ f \notin own => FreeFrame(s, f) \in Kept(own, roots \ {f}, {})
  <2> SUFFICES ASSUME f \in roots, f \notin own
               PROVE  FreeFrame(s, f) \in Kept(own, roots \ {f}, {})
    OBVIOUS
  <2>1. FreeFrame(s, f) \in Kept(own \ {f}, roots \ {f}, {}) /\ f \in own \cup roots
    BY GiveOwn
  <2>2. own \ {f} = own
    OBVIOUS
  <2> QED
    BY <2>1, <2>2
<1> QED
  BY <1>1, <1>2

LEMMA RecordsKeep ==
    ASSUME NEW own, NEW roots, NEW s \in Kept(own, roots, {}), NEW rs \in Seq(Regions),
           Distinct(rs), Records(rs) \subseteq own, Records(rs) \cap roots = {}
    PROVE  FreeRecords(s, rs) \in Kept(own \ Records(rs), roots, {})
<1> DEFINE done1(k) == {rs[j].at : j \in 1 .. k}
           G == [k \in 0 .. Len(rs) |-> Kept(own \ done1(k), roots, {})]
<1>1. s \in Works
  BY DEF Kept
<1>2. Len(rs) \in Nat /\ DOMAIN rs = 1 .. Len(rs)
  OBVIOUS
<1>3. s \in G[0]
  <2>1. own \ done1(0) = own
    OBVIOUS
  <2> HIDE DEF done1
  <2>2. Kept(own \ done1(0), roots, {}) = Kept(own, roots, {})
    BY <2>1, Zenon
  <2>3. G[0] = Kept(own \ done1(0), roots, {})
    BY <1>2
  <2> HIDE DEF G
  <2> QED
    BY <2>2, <2>3
<1>4. ASSUME NEW x \in Works, NEW k \in 0 .. Len(rs) - 1, x \in G[k]
      PROVE  FreeFrame(x, rs[k + 1].at) \in G[k + 1]
  <2> DEFINE f == rs[k + 1].at
  <2>1. k \in 0 .. Len(rs) /\ k + 1 \in 0 .. Len(rs) /\ k + 1 \in DOMAIN rs
    BY <1>2
  <2>2. x \in Kept(own \ done1(k), roots, {})
    BY <1>4, <2>1
  <2>3. f \in Memory
    <3>1. rs[k + 1] \in Regions
      BY <2>1
    <3>2. f \in Frames
      BY <3>1 DEF Regions
    <3> QED
      BY <3>2, Places
  <2>4. f \in Records(rs)
    BY <2>1 DEF Records
  <2>5. f \notin done1(k)
    <3> SUFFICES ASSUME NEW j \in 1 .. k, rs[j].at = f
                 PROVE  FALSE
      OBVIOUS
    <3>1. j \in DOMAIN rs /\ j # k + 1
      BY <1>2, <2>1
    <3> QED
      BY <2>1, <3>1 DEF Distinct
  <2>6. (own \ done1(k)) \ {f} = own \ done1(k + 1)
    <3>1. done1(k + 1) = done1(k) \cup {f}
      <4>1. 1 .. k + 1 = (1 .. k) \cup {k + 1}
        BY <1>2
      <4> QED
        BY <4>1
    <3> HIDE DEF done1
    <3> QED
      BY <3>1
  <2> HIDE DEF done1, f
  <2>7. FreeFrame(x, f) \in Kept((own \ done1(k)) \ {f}, roots, {})
    BY <2>2, <2>3, <2>4, <2>5, GiveKept
  <2>8. G[k + 1] = Kept(own \ done1(k + 1), roots, {})
    BY <2>1
  <2> QED
    BY <2>6, <2>7, <2>8 DEF f
<1>5. G[Len(rs)] = Kept(own \ Records(rs), roots, {})
  <2>1. done1(Len(rs)) = Records(rs)
    BY <1>2 DEF Records
  <2> HIDE DEF done1
  <2> QED
    BY <1>2, <2>1
<1> HIDE DEF G, done1
<1>6. FreeRecords(s, rs) \in G[Len(rs)]
  BY <1>1, <1>3, <1>4, RecordsLoop
<1> QED
  BY <1>5, <1>6

LEMMA DestroyedKeeps ==
    ASSUME NEW own, NEW roots, NEW s \in Kept(own, roots, {}),
           NEW as \in Memory, NEW space, space.pml4 \in Memory, space.regions \in Seq(Regions),
           as \in own, space.pml4 \in roots \ {KernelPml4}, own \cap roots = {},
           Distinct(space.regions), Records(space.regions) \subseteq own \ {as}
    PROVE  Destroyed(s, as, space)
               \in Kept((own \ Records(space.regions)) \ {as}, roots \ {space.pml4}, {})
<1> DEFINE p == space.pml4
           rs == space.regions
           c == Entries3(s, p, HALF)
           d == FreeFrame(c, p)
           e == FreeRecords(d, rs)
<1>1. Destroyed(s, as, space) = FreeFrame(e, as)
  BY DEF Destroyed, Entries3
<1>2. c \in Kept(own, roots, {})
  BY HalfKeeps
<1> HIDE DEF c
<1>3. d \in Kept(own, roots \ {p}, {})
  <2>1. p \in Memory /\ p \in roots /\ p \notin own
    OBVIOUS
  <2> HIDE DEF p
  <2> QED
    BY <1>2, <2>1, GiveKept
<1>4. Records(rs) \subseteq own /\ Records(rs) \cap (roots \ {p}) = {} /\ rs \in Seq(Regions)
      /\ Distinct(rs)
  OBVIOUS
<1> HIDE DEF d, rs, p
<1>5. e \in Kept(own \ Records(rs), roots \ {p}, {})
  BY <1>3, <1>4, RecordsKeep
<1>6. as \in own \ Records(rs) /\ as \notin roots \ {p}
  BY DEF rs
<1> HIDE DEF e
<1>7. FreeFrame(e, as) \in Kept((own \ Records(rs)) \ {as}, roots \ {p}, {})
  BY <1>5, <1>6, GiveKept
<1> QED
  BY <1>1, <1>7 DEF rs, p

\* What the other spaces own when one is gone.
Without(new, sp, as) ==
    DOMAIN new = DOMAIN sp \ {as} /\ \A q \in DOMAIN sp \ {as} : new[q] = sp[q]

LEMMA SeparateWithout ==
    ASSUME NEW sp, NEW as \in DOMAIN sp, as # Kernel, Separate(sp),
           NEW new, Without(new, sp, as)
    PROVE  /\ Separate(new)
           /\ Ours(new) = (Ours(sp) \ Records(sp[as].regions)) \ {as}
           /\ Roots(new) = Roots(sp) \ {sp[as].pml4}
<1> USE DEF Without
<1>1. \A q \in DOMAIN sp : q # as => OwnOf(new, q) = OwnOf(sp, q) /\ new[q] = sp[q]
  BY DEF OwnOf
<1>2. Separate(new)
  <2>1. \A q \in DOMAIN new : Distinct(new[q].regions) /\ Itself(q) \cap Records(new[q].regions) = {}
    BY <1>1 DEF Separate
  <2>2. \A q \in DOMAIN new, r \in DOMAIN new : q # r =>
            OwnOf(new, q) \cap OwnOf(new, r) = {} /\ new[q].pml4 # new[r].pml4
    <3> TAKE q \in DOMAIN new, r \in DOMAIN new
    <3>1. q \in DOMAIN sp /\ r \in DOMAIN sp /\ q # as /\ r # as
      OBVIOUS
    <3>2. q # r => OwnOf(sp, q) \cap OwnOf(sp, r) = {} /\ sp[q].pml4 # sp[r].pml4
      BY <3>1 DEF Separate
    <3> QED
      BY <1>1, <3>1, <3>2
  <2> QED
    BY <2>1, <2>2 DEF Separate
<1>3. Ours(new) = UNION {OwnOf(sp, q) : q \in DOMAIN sp \ {as}}
  BY <1>1 DEF Ours
<1>4. OwnOf(sp, as) = Records(sp[as].regions) \cup {as}
  BY DEF OwnOf, Itself
<1>5. \A q \in DOMAIN sp \ {as} : OwnOf(sp, q) \cap OwnOf(sp, as) = {}
  BY DEF Separate
<1>6. Ours(sp) = (UNION {OwnOf(sp, q) : q \in DOMAIN sp \ {as}}) \cup OwnOf(sp, as)
  BY DEF Ours
<1>7. Ours(new) = Ours(sp) \ OwnOf(sp, as)
  <2>1. Ours(new) \cap OwnOf(sp, as) = {}
    BY <1>3, <1>5
  <2>2. Ours(sp) = Ours(new) \cup OwnOf(sp, as)
    BY <1>3, <1>6
  <2> QED
    BY <2>1, <2>2
<1>8. Ours(new) = (Ours(sp) \ Records(sp[as].regions)) \ {as}
  BY <1>4, <1>7
<1>9. Roots(new) = Roots(sp) \ {sp[as].pml4}
  <2>1. \A q \in DOMAIN sp : q # as => sp[q].pml4 # sp[as].pml4
    BY DEF Separate
  <2>2. Roots(new) = {sp[q].pml4 : q \in DOMAIN sp \ {as}}
    BY <1>1 DEF Roots
  <2> QED
    BY <2>1, <2>2 DEF Roots
<1> QED
  BY <1>2, <1>8, <1>9

LEMMA DestroyUses ==
    ASSUME TypeOK, UseInv, NEW as \in DOMAIN spaces, Destroy(as)
    PROVE  UseInv'
<1> DEFINE new == [q \in DOMAIN spaces \ {as} |-> spaces[q]]
           s == Destroyed(Start(as), as, spaces[as])
           b == Start(as)
<1>1. as # Kernel /\ Commit(s, new, "destroy", as, TRUE, 0, 0) /\ UNCHANGED mingled
  BY DEF Destroy
<1> SUFFICES ASSUME ~mingled', fate' = "runs"
             PROVE  Shared(mem', avail', spaces')
  BY DEF UseInv
<1>2. ~mingled /\ fate = "runs" /\ s.fate = "runs"
      /\ mem' = s.mem /\ avail' = s.avail /\ spaces' = new
  BY <1>1 DEF Commit
<1>3. Separate(spaces) /\ Roles(mem, avail, Ours(spaces), Roots(spaces), {})
  BY <1>2 DEF UseInv, Shared
<1>4. b \in Kept(Ours(spaces), Roots(spaces), {})
  <2>1. b \in Works /\ b.mem = mem /\ b.avail = avail
    BY StartType
  <2> HIDE DEF b
  <2> QED
    BY <1>3, <2>1, KeptFacts
<1>5. /\ as \in Memory /\ spaces[as].pml4 \in Memory /\ spaces[as].regions \in Seq(Regions)
      /\ spaces[as].pml4 \in Roots(spaces) \ {KernelPml4}
  BY <1>1, TypedFacts, OursParts DEF Typed
<1>6. as \in Ours(spaces) /\ Records(spaces[as].regions) \subseteq Ours(spaces) \ {as}
      /\ Distinct(spaces[as].regions)
  <2>1. Ours(spaces) = Others(spaces, as) \cup Records(spaces[as].regions)
    BY OursParts
  <2>2. as \in Others(spaces, as)
    BY <1>1 DEF Others, Itself
  <2>3. Distinct(spaces[as].regions) /\ Records(spaces[as].regions) \cap Others(spaces, as) = {}
    BY <1>3, SeparateParts
  <2> QED
    BY <2>1, <2>2, <2>3
<1>7. Ours(spaces) \cap Roots(spaces) = {}
  BY <1>3 DEF Roles, Held
<1>8. /\ Separate(new)
      /\ Ours(new) = (Ours(spaces) \ Records(spaces[as].regions)) \ {as}
      /\ Roots(new) = Roots(spaces) \ {spaces[as].pml4}
  <2>1. Without(new, spaces, as)
    BY DEF Without
  <2> HIDE DEF new
  <2> QED
    BY <1>1, <1>3, <2>1, SeparateWithout
<1> HIDE DEF b, new
<1>9. Destroyed(b, as, spaces[as])
          \in Kept((Ours(spaces) \ Records(spaces[as].regions)) \ {as},
                   Roots(spaces) \ {spaces[as].pml4}, {})
  BY <1>4, <1>5, <1>6, <1>7, DestroyedKeeps
<1>10. s \in Kept(Ours(new), Roots(new), {})
  BY <1>8, <1>9 DEF b
<1> HIDE DEF s
<1>11. s \in Works
  BY <1>10 DEF Kept
<1>12. Roles(s.mem, s.avail, Ours(new), Roots(new), {})
  BY <1>2, <1>10, <1>11, KeptFacts
<1> QED
  BY <1>2, <1>8, <1>12 DEF Shared

-----------------------------------------------------------------------------
(* A space is created *)

\* A fresh frame becomes a table of level 3 that shares the kernel's upper half.
LEMMA RootPage ==
    ASSUME NEW u, NEW m \in Mem, NEW av \in SUBSET Frames, Pages(u, m, av), NEW g \in av,
           NEW c \in Memory, u[c] = "pml4"
    PROVE  Pages([u EXCEPT ![g] = "pml4"], [m EXCEPT ![g] = UpperHalf(m[c])], av \ {g})
<1> DEFINE w == [u EXCEPT ![g] = "pml4"]
           n == [m EXCEPT ![g] = UpperHalf(m[c])]
<1> HIDE DEF w, n
<1>0. u \in [Memory -> Uses] /\ \A f \in av : u[f] = "free" /\ f \in Memory
  BY UseFacts
<1>1. g \in Memory /\ u[g] = "free" /\ u \in [Memory -> Uses] /\ g # c
  BY <1>0
<1>2. /\ w \in [Memory -> Uses] /\ w[g] = "pml4"
      /\ \A t \in Memory : t # g => w[t] = u[t]
  BY <1>1 DEF Uses, Live, w
<1>3. n[g] = UpperHalf(m[c]) /\ \A t \in Memory : t # g => n[t] = m[t]
  BY <1>1 DEF Mem, n
<1>4. \A k \in Entry : n[g][k] = IF k >= HALF THEN m[c][k] ELSE Zero
  BY <1>3 DEF UpperHalf, Entry
<1>5. ~Present(Zero) /\ "huge" \notin Zero.flags
  BY DEF Zero, Present, NULL
<1>6. Empty(w, n)
  BY <1>2, <1>3 DEF Empty, Pages
<1>7. \A f \in av \ {g} : w[f] = "free"
  BY <1>0, <1>2
<1>8. Child["pml4"] = "dir" /\ "pml4" \in Live
  BY DEF Child, Live
\* An entry of the new table is one of the kernel's upper half.
<1> DEFINE o(t) == IF t = g THEN c ELSE t
<1>9. ASSUME NEW t \in Memory, NEW k \in Entry, Leads(w, n, t, k)
      PROVE  /\ Leads(u, m, o(t), k) /\ n[t][k] = m[o(t)][k] /\ w[t] = u[o(t)] /\ o(t) \in Memory
             /\ w[n[t][k].to] = u[n[t][k].to] /\ n[t][k].to \in Memory
             /\ t = g => k >= HALF
  <2>1. CASE t = g
    <3>1. k >= HALF /\ n[t][k] = m[c][k]
      BY <1>4, <1>5, <1>9, <2>1 DEF Leads
    <3>2. Leads(u, m, c, k) /\ w[t] = u[c]
      BY <1>2, <1>8, <1>9, <2>1, <3>1 DEF Leads
    <3>3. m[c][k].to \in Memory /\ u[m[c][k].to] = Child[u[c]]
      BY <3>2, UseFacts
    <3>4. m[c][k].to # g
      BY <1>1, <1>8, <3>3
    <3> QED
      BY <1>2, <2>1, <3>1, <3>2, <3>3, <3>4
  <2>2. CASE t # g
    <3>1. Leads(u, m, t, k) /\ n[t][k] = m[t][k] /\ w[t] = u[t]
      BY <1>2, <1>3, <1>9, <2>2 DEF Leads
    <3>2. m[t][k].to \in Memory /\ u[m[t][k].to] \in {"dir", "table", "page"}
      BY <3>1, UseFacts
    <3>3. m[t][k].to # g
      BY <1>1, <3>2
    <3> QED
      BY <1>2, <2>2, <3>1, <3>2, <3>3
  <2> QED
    BY <2>1, <2>2
<1> HIDE DEF o
<1>10. Below(w, n)
  <2> SUFFICES ASSUME NEW t \in Memory, NEW k \in Entry, Leads(w, n, t, k)
               PROVE  w[n[t][k].to] = Child[w[t]]
    BY DEF Below
  <2>1. /\ Leads(u, m, o(t), k) /\ n[t][k] = m[o(t)][k] /\ w[t] = u[o(t)] /\ o(t) \in Memory
        /\ w[n[t][k].to] = u[n[t][k].to]
    BY <1>9
  <2>2. u[m[o(t)][k].to] = Child[u[o(t)]]
    BY <2>1 DEF Pages, Below
  <2> QED
    BY <2>1, <2>2
<1>11. Large(w, n)
  <2> SUFFICES ASSUME NEW t \in Memory, NEW k \in Entry
               PROVE  /\ w[t] \in Live /\ "huge" \in n[t][k].flags =>
                             w[t] = "dir" /\ t \in LowDirs /\ n[t][k] = BootMem[t][k]
                      /\ w[t] = "pml4" /\ Present(n[t][k]) /\ n[t][k].to \in LowDirs =>
                             t = KernelPml4 /\ n[t][k] = BootMem[t][k]
    BY DEF Large
  \* No entry of the upper half is large or names a directory of large pages.
  <2>1. CASE t = g
    <3>1. ~("huge" \in m[c][k].flags)
      BY <1>8 DEF Pages, Large
    <3>2. k >= HALF /\ Present(m[c][k]) => m[c][k].to \notin LowDirs
      <4> SUFFICES ASSUME k >= HALF, Present(m[c][k]), m[c][k].to \in LowDirs
                   PROVE  FALSE
        OBVIOUS
      <4>1. m[c][k] = BootMem[KernelPml4][k]
        BY DEF Pages, Large
      <4>2. k \notin DOMAIN KernelDirs
        <5>1. k \in Nat /\ HALF \in Nat
          BY Geometry DEF Entry
        <5>2. k \in DOMAIN KernelDirs => k \in 0 .. HALF - 1
          BY FramesAssumption
        <5> QED
          BY <5>1, <5>2
      <4>3. BootMem[KernelPml4][k] \in {Table(HighDir), Zero}
        BY <4>2, BootPages DEF BootPml4, Entry
      <4>4. BootMem[KernelPml4][k].to \in {HighDir, NULL}
        BY <4>3 DEF Table, Zero
      <4>5. HighDir \notin LowDirs /\ NULL \notin LowDirs
        BY Places, HeldPages
      <4> QED
        BY <4>1, <4>4, <4>5
    <3>3. (n[g][k] = m[c][k] /\ k >= HALF) \/ n[g][k] = Zero
      BY <1>4
    <3> QED
      BY <1>5, <2>1, <3>1, <3>2, <3>3
  <2>2. CASE t # g
    BY <1>2, <1>3, <2>2 DEF Pages, Large
  <2> QED
    BY <2>1, <2>2
<1>12. Once(w, n)
  <2> SUFFICES ASSUME NEW t1 \in Memory, NEW t2 \in Memory, NEW k1 \in Entry, NEW k2 \in Entry,
                      Leads(w, n, t1, k1), Leads(w, n, t2, k2), n[t1][k1].to = n[t2][k2].to
               PROVE  \/ t1 = t2 /\ k1 = k2
                      \/ /\ w[t1] = "pml4" /\ w[t2] = "pml4"
                         /\ (k1 = k2 /\ k1 >= HALF) \/ n[t1][k1].to \notin Frames
    BY DEF Once
  <2>1. /\ Leads(u, m, o(t1), k1) /\ n[t1][k1] = m[o(t1)][k1] /\ w[t1] = u[o(t1)] /\ o(t1) \in Memory
        /\ t1 = g => k1 >= HALF
    BY <1>9
  <2>2. /\ Leads(u, m, o(t2), k2) /\ n[t2][k2] = m[o(t2)][k2] /\ w[t2] = u[o(t2)] /\ o(t2) \in Memory
        /\ t2 = g => k2 >= HALF
    BY <1>9
  <2>3. \/ o(t1) = o(t2) /\ k1 = k2
        \/ /\ u[o(t1)] = "pml4" /\ u[o(t2)] = "pml4"
           /\ (k1 = k2 /\ k1 >= HALF) \/ m[o(t1)][k1].to \notin Frames
    BY <2>1, <2>2 DEF Pages, Once
  <2>4. ASSUME o(t1) = o(t2), k1 = k2, t1 # t2
        PROVE  w[t1] = "pml4" /\ w[t2] = "pml4" /\ k1 >= HALF
    BY <1>2, <2>1, <2>2, <2>4 DEF o
  <2> QED
    BY <2>1, <2>2, <2>3, <2>4
<1>13. Pages(w, n, av \ {g})
  BY <1>2, <1>6, <1>7, <1>10, <1>11, <1>12 DEF Pages
<1> QED
  BY <1>13 DEF w, n

LEMMA RootKeeps ==
    ASSUME NEW own, NEW roots, NEW s \in Kept(own, roots, {}), s.avail # {},
           NEW c \in Memory, c \in roots, NEW x \in Works,
           x.mem = [s.mem EXCEPT ![Fresh(s)] = UpperHalf(s.mem[c])],
           x.avail = s.avail \ {Fresh(s)}, x.fate = s.fate
    PROVE  x \in Kept(own, roots \cup {Fresh(s)}, {})
<1> DEFINE g == Fresh(s)
<1>1. s \in Works /\ (s.fate = "runs" => Roles(s.mem, s.avail, own, roots, {}))
  BY DEF Kept
<1>2. s.mem \in Mem /\ s.avail \in SUBSET Frames /\ g \in s.avail /\ g \in Memory
  BY <1>1, KeptFacts, FreshIn
<1> HIDE DEF g
<1> DEFINE n == [s.mem EXCEPT ![g] = UpperHalf(s.mem[c])]
<1>3. x.mem = n /\ x.avail = s.avail \ {g}
  BY DEF g
<1> SUFFICES ASSUME s.fate = "runs"
             PROVE  Roles(n, s.avail \ {g}, own, roots \cup {g}, {})
  BY <1>3, KeptFacts DEF g
<1>4. PICK u : Pages(u, s.mem, s.avail) /\ Held(u, s.mem, own, roots, {})
  BY <1>1 DEF Roles
<1> DEFINE w == [u EXCEPT ![g] = "pml4"]
<1>5. u[c] = "pml4"
  BY <1>4 DEF Held
<1>6. Pages(w, n, s.avail \ {g})
  BY <1>2, <1>4, <1>5, RootPage
<1>7. u[g] = "free" /\ u \in [Memory -> Uses]
  BY <1>2, <1>4 DEF Pages
<1>8. w[g] = "pml4" /\ \A f \in Memory : f # g => w[f] = u[f]
  BY <1>2, <1>7
<1> HIDE DEF w, n
<1>9. Held(w, n, own, roots \cup {g}, {})
  BY <1>2, <1>4, <1>7, <1>8 DEF Held
<1> QED
  BY <1>6, <1>9 DEF Roles

\* The other spaces and the new one.
Joined(new, sp, as, space) ==
    /\ DOMAIN new = DOMAIN sp \cup {as}
    /\ \A q \in DOMAIN sp \cup {as} : new[q] = IF q = as THEN space ELSE sp[q]

\* The new space has nothing of the others.
Apart(sp, as, space) ==
    /\ as # Kernel /\ as \notin DOMAIN sp /\ as \notin Ours(sp)
    /\ space.pml4 \notin Roots(sp) /\ Distinct(space.regions)
    /\ Records(space.regions) \cap (Ours(sp) \cup {as}) = {}

\* One more space.
Grown(new, sp, as, space) == Separate(sp) /\ Apart(sp, as, space) /\ Joined(new, sp, as, space)

Widened(new, sp, as, space) ==
    /\ Ours(new) = (Ours(sp) \cup {as}) \cup Records(space.regions)
    /\ Roots(new) = Roots(sp) \cup {space.pml4}

LEMMA RootsMore ==
    ASSUME NEW sp, NEW as, NEW space, NEW new, Joined(new, sp, as, space), as \notin DOMAIN sp
    PROVE  Roots(new) = Roots(sp) \cup {space.pml4}
<1> USE DEF Joined
<1>0. new[as] = space /\ \A q \in DOMAIN sp : new[q] = sp[q]
  OBVIOUS
<1>1. Roots(new) = {new[q].pml4 : q \in DOMAIN sp \cup {as}}
  BY Zenon DEF Roots
<1>2. ASSUME NEW x \in Roots(new)
      PROVE  x \in Roots(sp) \cup {space.pml4}
  <2>1. PICK q \in DOMAIN sp \cup {as} : x = new[q].pml4
    BY <1>1, <1>2
  <2> QED
    BY <1>0, <2>1 DEF Roots
<1>3. ASSUME NEW x \in Roots(sp)
      PROVE  x \in Roots(new)
  <2>1. PICK q \in DOMAIN sp : x = sp[q].pml4
    BY <1>3 DEF Roots
  <2> QED
    BY <1>0, <1>1, <2>1
<1>4. space.pml4 \in Roots(new)
  BY <1>0, <1>1
<1> QED
  BY <1>2, <1>3, <1>4

LEMMA SeparateMore ==
    ASSUME NEW sp, NEW as, NEW space, NEW new, Grown(new, sp, as, space)
    PROVE  Separate(new) /\ Widened(new, sp, as, space)
<1> USE DEF Joined, Apart, Grown
<1>1. new[as] = space /\ \A q \in DOMAIN sp : q # as /\ new[q] = sp[q] /\ OwnOf(new, q) = OwnOf(sp, q)
  BY DEF OwnOf
<1>2. OwnOf(new, as) = {as} \cup Records(space.regions)
  BY <1>1 DEF OwnOf, Itself
<1>3. Ours(new) = Ours(sp) \cup OwnOf(new, as)
  <2>1. DOMAIN new = DOMAIN sp \cup {as}
    OBVIOUS
  <2>2. \A x : x \in Ours(new) <=> \E q \in DOMAIN new : x \in OwnOf(new, q)
    BY DEF Ours
  <2>3. \A x : x \in Ours(sp) <=> \E q \in DOMAIN sp : x \in OwnOf(sp, q)
    BY DEF Ours
  <2>4. \A x : x \in Ours(new) <=> x \in Ours(sp) \/ x \in OwnOf(new, as)
    BY <1>1, <2>1, <2>2, <2>3
  <2> QED
    BY <2>4
<1>4. Roots(new) = Roots(sp) \cup {space.pml4}
  <2> HIDE DEF Joined, Apart, Grown
  <2>1. Joined(new, sp, as, space) /\ as \notin DOMAIN sp
    BY DEF Grown, Apart
  <2> QED
    BY ONLY <2>1, RootsMore
<1>5. \A q \in DOMAIN sp : OwnOf(sp, q) \subseteq Ours(sp) /\ sp[q].pml4 \in Roots(sp)
  BY DEF Ours, Roots
<1>6. OwnOf(new, as) \cap Ours(sp) = {}
  BY <1>2
<1>7. \A q \in DOMAIN sp \cup {as} :
          Distinct(new[q].regions) /\ Itself(q) \cap Records(new[q].regions) = {}
  <2>1. Itself(as) \cap Records(space.regions) = {}
    BY DEF Itself
  <2> QED
    BY <1>1, <2>1 DEF Separate
<1>8. \A q \in DOMAIN sp, r \in DOMAIN sp : q # r =>
          OwnOf(new, q) \cap OwnOf(new, r) = {} /\ new[q].pml4 # new[r].pml4
  <2> TAKE q \in DOMAIN sp, r \in DOMAIN sp
  <2>1. q # r => OwnOf(sp, q) \cap OwnOf(sp, r) = {} /\ sp[q].pml4 # sp[r].pml4
    BY DEF Separate
  <2> QED
    BY <1>1, <2>1
<1>9. \A q \in DOMAIN sp :
          /\ OwnOf(new, q) \cap OwnOf(new, as) = {} /\ new[q].pml4 # new[as].pml4
  BY <1>1, <1>5, <1>6
<1>10. Separate(new)
  <2>1. \A q \in DOMAIN new, r \in DOMAIN new : q # r =>
            OwnOf(new, q) \cap OwnOf(new, r) = {} /\ new[q].pml4 # new[r].pml4
    BY <1>8, <1>9
  <2> QED
    BY <1>7, <2>1 DEF Separate
<1>11. Ours(new) = (Ours(sp) \cup {as}) \cup Records(space.regions)
  BY <1>2, <1>3
<1> QED
  BY <1>4, <1>10, <1>11 DEF Widened

LEMMA CreatedKeeps ==
    ASSUME NEW own, NEW roots, NEW s \in Kept(own, roots, {}), s.fate = "runs",
           KernelPml4 \in roots
    PROVE  LET c == Created(s) IN
           /\ c.as = NULL => c.s \in Kept(own, roots, {})
           /\ c.as # NULL =>
                  /\ c.as \in Frames /\ c.as \notin own /\ c.space.pml4 \notin roots
                  /\ Distinct(c.space.regions)
                  /\ Records(c.space.regions) \cap (own \cup {c.as}) = {}
                  /\ c.s \in Kept((own \cup {c.as}) \cup Records(c.space.regions),
                                  roots \cup {c.space.pml4}, {})
<1> DEFINE c == Created(s)
           as == Fresh(s)
           s1 == Take(s)
           pml4 == Fresh(s1)
           s2 == Take(s1)
           s3 == [s2 EXCEPT !.mem[pml4] = UpperHalf(s.mem[KernelPml4])]
           g == Fresh(s3)
           one == <<Region(USER_SPACE_START, USER_SPACE_END, FREE, g)>>
<1>1. s \in Works /\ Roles(s.mem, s.avail, own, roots, {})
  BY DEF Kept
<1>2. \/ c.as = NULL /\ c.s = RanOut(s)
      \/ /\ s.avail # {} /\ s1.avail # {} /\ c.as = as
         /\ s1 \in Works /\ s2 \in Works /\ s3 \in Works
         /\ s3.mem = [s2.mem EXCEPT ![pml4] = UpperHalf(s.mem[KernelPml4])]
         /\ s3.avail = s2.avail /\ s3.fate = s.fate /\ s3.regions = s.regions
         /\ \/ s3.avail = {} /\ c.s = RanOut(s3) /\ c.space = NewSpace(pml4, <<>>)
            \/ s3.avail # {} /\ c.s = Take(s3) /\ c.space = NewSpace(pml4, one)
  BY <1>1, CreatedCases
<1> SUFFICES /\ c.as = NULL => c.s \in Kept(own, roots, {})
             /\ c.as # NULL =>
                    /\ c.as \in Frames /\ c.as \notin own /\ c.space.pml4 \notin roots
                    /\ Distinct(c.space.regions)
                    /\ Records(c.space.regions) \cap (own \cup {c.as}) = {}
                    /\ c.s \in Kept((own \cup {c.as}) \cup Records(c.space.regions),
                                    roots \cup {c.space.pml4}, {})
  OBVIOUS
<1> HIDE DEF c, s3
<1>3. CASE c.as = NULL /\ c.s = RanOut(s)
  BY <1>3, RanOutKeeps
<1>4. CASE ~(c.as = NULL /\ c.s = RanOut(s))
  <2>0. /\ s.avail # {} /\ s1.avail # {} /\ c.as = as
        /\ s1 \in Works /\ s2 \in Works /\ s3 \in Works
        /\ s3.mem = [s2.mem EXCEPT ![pml4] = UpperHalf(s.mem[KernelPml4])]
        /\ s3.avail = s2.avail /\ s3.fate = s.fate
        /\ \/ s3.avail = {} /\ c.s = RanOut(s3) /\ c.space = NewSpace(pml4, <<>>)
           \/ s3.avail # {} /\ c.s = Take(s3) /\ c.space = NewSpace(pml4, one)
    BY <1>2, <1>4
  <2>1. as \in s.avail /\ as \in Frames /\ as \notin own
    BY <1>1, <2>0, FreshIn, FreshIsNew
  <2>2. s1 \in Kept(own \cup {as}, roots, {})
        /\ s1.mem = [s.mem EXCEPT ![as] = Blank] /\ s1.fate = "runs"
    BY <1>1, <2>0, TakeKeeps, TakeType
  <2> HIDE DEF s1, as
  <2>3. pml4 \in s1.avail /\ pml4 \in Frames /\ pml4 \notin roots
        /\ Roles(s1.mem, s1.avail, own \cup {as}, roots, {})
    <3>1. Roles(s1.mem, s1.avail, own \cup {as}, roots, {})
      BY <2>2 DEF Kept
    <3> QED
      BY <2>0, <3>1, FreshIn, FreshIsNew
  <2>4. s3.mem = [s1.mem EXCEPT ![pml4] = UpperHalf(s1.mem[KernelPml4])]
        /\ s3.avail = s1.avail \ {pml4} /\ s3.fate = s1.fate
    <3>1. s2.mem = [s1.mem EXCEPT ![pml4] = Blank] /\ s2.avail = s1.avail \ {pml4}
      BY <2>0, TakeType
    <3>2. s1.mem[KernelPml4] = s.mem[KernelPml4]
      <4>1. KernelPml4 # as /\ KernelPml4 \in Memory /\ s.mem \in Mem
        BY <1>1, <2>1, Places DEF Works
      <4> QED
        BY <2>2, <4>1 DEF Mem
    <3> HIDE DEF s2
    <3>3. s3.mem = [s2.mem EXCEPT ![pml4] = UpperHalf(s1.mem[KernelPml4])]
      BY <2>0, <3>2
    <3> DEFINE row == UpperHalf(s1.mem[KernelPml4])
    <3> HIDE DEF row, pml4
    <3>4. [[s1.mem EXCEPT ![pml4] = Blank] EXCEPT ![pml4] = row] = [s1.mem EXCEPT ![pml4] = row]
      <4>1. s1.mem \in Mem
        BY <2>0 DEF Works
      <4> QED
        BY <4>1 DEF Mem
    <3> QED
      BY <1>1, <2>0, <2>2, <3>1, <3>3, <3>4 DEF row
  <2>5. s3 \in Kept(own \cup {as}, roots \cup {pml4}, {})
    <3>1. KernelPml4 \in Memory
      BY Places
    <3> QED
      BY <2>0, <2>2, <2>4, <3>1, RootKeeps
  <2> HIDE DEF s2, pml4
  <2>6. CASE s3.avail = {} /\ c.s = RanOut(s3) /\ c.space = NewSpace(pml4, <<>>)
    <3>1. c.space.pml4 = pml4 /\ c.space.regions = <<>>
      BY <2>6 DEF NewSpace
    <3>2. Records(<<>>) = {} /\ Distinct(<<>>)
      BY DEF Records, Distinct
    <3>3. (own \cup {as}) \cup Records(<<>>) = own \cup {as}
      BY <3>2
    <3>4. c.s \in Kept(own \cup {as}, roots \cup {pml4}, {})
      BY <2>5, <2>6, RanOutKeeps
    <3>5. c.s \in Kept((own \cup {as}) \cup Records(<<>>), roots \cup {pml4}, {})
      BY <3>3, <3>4, Zenon
    <3> QED
      BY <2>0, <2>1, <2>3, <3>1, <3>2, <3>5, Places
  <2>7. CASE s3.avail # {} /\ c.s = Take(s3) /\ c.space = NewSpace(pml4, one)
    <3>1. c.space.pml4 = pml4 /\ c.space.regions = one
      BY <2>7 DEF NewSpace
    <3>2. Records(one) = {g} /\ Distinct(one)
      BY DEF Records, Distinct, Region
    <3>3. g \notin own \cup {as}
      <4> DEFINE o == own \cup {as}
                 r == roots \cup {pml4}
      <4>1. Roles(s3.mem, s3.avail, o, r, {})
        BY <2>2, <2>4, <2>5 DEF Kept
      <4>2. g \in s3.avail
        BY <2>0, <2>7, FreshIn
      <4> HIDE DEF o, r, g
      <4>3. g \notin o
        BY <4>1, <4>2, FreshIsNew
      <4> QED
        BY <4>3 DEF o
    <3> HIDE DEF one
    <3>4. Take(s3) \in Kept((own \cup {as}) \cup {g}, roots \cup {pml4}, {})
      BY <2>5, <2>7, TakeKeeps
    <3> HIDE DEF g
    <3>5. c.s \in Kept((own \cup {as}) \cup Records(one), roots \cup {pml4}, {})
      BY <2>7, <3>2, <3>4
    <3>6. Records(one) \cap (own \cup {as}) = {}
      BY <3>2, <3>3
    <3> QED
      BY <2>0, <2>1, <2>3, <3>1, <3>2, <3>5, <3>6, Places
  <2> QED
    BY <2>0, <2>6, <2>7
<1> QED
  BY <1>3, <1>4

LEMMA CreateUses ==
    ASSUME TypeOK, UseInv, Create
    PROVE  UseInv'
<1> DEFINE c == Created(Idle)
           new == IF c.as = NULL THEN spaces ELSE With(c.as, c.space)
           own == Ours(spaces)
           roots == Roots(spaces)
<1>1. Commit(c.s, new, "create", c.as, c.as # NULL, 0, 0) /\ UNCHANGED mingled
  BY DEF Create
<1> SUFFICES ASSUME ~mingled', fate' = "runs"
             PROVE  Shared(mem', avail', spaces')
  BY DEF UseInv
<1>2. ~mingled /\ fate = "runs" /\ c.s.fate = "runs"
      /\ mem' = c.s.mem /\ avail' = c.s.avail /\ spaces' = new
  BY <1>1 DEF Commit
<1>3. Separate(spaces) /\ Roles(mem, avail, own, roots, {})
  BY <1>2 DEF UseInv, Shared
<1>4. Idle \in Kept(own, roots, {}) /\ Idle.fate = "runs"
  <2> DEFINE b == Idle
  <2>1. b \in Works /\ b.mem = mem /\ b.avail = avail /\ b.fate = "runs"
    BY IdleType
  <2> HIDE DEF b, own, roots
  <2>2. b \in Kept(own, roots, {})
    BY <1>3, <2>1, KeptFacts
  <2> QED
    BY <2>1, <2>2 DEF b
<1>5. KernelPml4 \in roots
  <2>1. Kernel \in DOMAIN spaces /\ Typed(Kernel, spaces[Kernel])
    BY TypeParts DEF AllTyped
  <2>2. spaces[Kernel].pml4 = KernelPml4
    BY <2>1 DEF Typed
  <2> QED
    BY <2>1, <2>2, OursParts
<1>6. /\ c.as = NULL => c.s \in Kept(own, roots, {})
      /\ c.as # NULL =>
             /\ c.as \in Frames /\ c.as \notin own /\ c.space.pml4 \notin roots
             /\ Distinct(c.space.regions)
             /\ Records(c.space.regions) \cap (own \cup {c.as}) = {}
             /\ c.s \in Kept((own \cup {c.as}) \cup Records(c.space.regions),
                             roots \cup {c.space.pml4}, {})
  <2> HIDE DEF own, roots
  <2> DEFINE b == Idle
  <2>1. b \in Kept(own, roots, {}) /\ b.fate = "runs"
    BY <1>4
  <2> HIDE DEF b
  <2>2. LET d == Created(b) IN
        /\ d.as = NULL => d.s \in Kept(own, roots, {})
        /\ d.as # NULL =>
               /\ d.as \in Frames /\ d.as \notin own /\ d.space.pml4 \notin roots
               /\ Distinct(d.space.regions)
               /\ Records(d.space.regions) \cap (own \cup {d.as}) = {}
               /\ d.s \in Kept((own \cup {d.as}) \cup Records(d.space.regions),
                               roots \cup {d.space.pml4}, {})
    BY <1>5, <2>1, CreatedKeeps
  <2> QED
    BY <2>2 DEF b
<1> HIDE DEF c
<1>7. CASE c.as = NULL
  <2>1. c.s \in Kept(own, roots, {}) /\ new = spaces
    BY <1>6, <1>7
  <2>2. Roles(c.s.mem, c.s.avail, own, roots, {})
    BY <1>2, <2>1 DEF Kept
  <2> QED
    BY <1>2, <1>3, <2>1, <2>2 DEF Shared
<1>8. CASE c.as # NULL
  <2> DEFINE as == c.as
             space == c.space
  <2>1. /\ as \in Frames /\ as \notin own /\ space.pml4 \notin roots
        /\ Distinct(space.regions)
        /\ Records(space.regions) \cap (own \cup {as}) = {}
        /\ c.s \in Kept((own \cup {as}) \cup Records(space.regions), roots \cup {space.pml4}, {})
    BY <1>6, <1>8
  <2>2. as # Kernel /\ as \notin DOMAIN spaces
    <3>1. as # Kernel
      BY <2>1, Places
    <3>2. \A q \in DOMAIN spaces : q # Kernel => q \in Ours(spaces)
      BY DEF Ours, OwnOf, Itself
    <3> QED
      BY <2>1, <3>1, <3>2
  <2>3. Joined(new, spaces, as, space)
    BY <1>8 DEF With, Joined
  <2> HIDE DEF as, space, new
  <2>4. /\ Separate(new)
        /\ Ours(new) = (own \cup {as}) \cup Records(space.regions)
        /\ Roots(new) = roots \cup {space.pml4}
    <3>1. Apart(spaces, as, space)
      BY <2>1, <2>2 DEF Apart
    <3>2. /\ Separate(new)
          /\ Ours(new) = (Ours(spaces) \cup {as}) \cup Records(space.regions)
          /\ Roots(new) = Roots(spaces) \cup {space.pml4}
      <4> HIDE DEF own, roots
      <4>1. Grown(new, spaces, as, space)
        BY <1>3, <2>3, <3>1 DEF Grown
      <4>2. Separate(new) /\ Widened(new, spaces, as, space)
        BY <4>1, SeparateMore
      <4> QED
        BY <4>2 DEF Widened
    <3> QED
      BY <3>2
  <2>5. Roles(c.s.mem, c.s.avail, (own \cup {as}) \cup Records(space.regions),
              roots \cup {space.pml4}, {})
    BY <1>2, <2>1 DEF Kept
  <2> HIDE DEF own, roots
  <2>6. Roles(c.s.mem, c.s.avail, Ours(new), Roots(new), {})
    BY <2>4, <2>5
  <2> QED
    BY <1>2, <2>4, <2>6 DEF Shared
<1> QED
  BY <1>7, <1>8

-----------------------------------------------------------------------------
(* At boot, and always *)

LEMMA InitUses ==
    ASSUME Init
    PROVE  UseInv
<1> DEFINE u == [f \in Memory |-> IF f = KernelPml4 THEN "pml4"
                                  ELSE IF f \in LowDirs \cup {HighDir} THEN "dir"
                                  ELSE IF f = HighTable THEN "table"
                                  ELSE IF f = Code THEN "page"
                                  ELSE IF f \in Frames THEN "free" ELSE "held"]
           k3 == Index(KernelCode, 3)
           k2 == Index(KernelCode, 2)
           k1 == Index(KernelCode, 1)
<1>1. mem = BootMem
  BY DEF Init
<1>2. /\ {KernelPml4, HighDir, HighTable, Code} \subseteq Memory \ Frames
      /\ LowDirs \subseteq Memory \ Frames /\ Frames \subseteq Memory
      /\ {KernelPml4, HighDir, HighTable, Code} \cap LowDirs = {}
      /\ KernelPml4 # HighDir /\ KernelPml4 # HighTable /\ KernelPml4 # Code
      /\ HighDir # HighTable /\ HighDir # Code /\ HighTable # Code
  BY Places, HeldPages
<1>3. k3 \in Entry /\ k2 \in Entry /\ k1 \in Entry /\ k3 >= HALF
  BY BootTypes, FramesAssumption
<1>4. ~Present(Zero) /\ "huge" \notin Zero.flags
      /\ \A f : Table(f).to = f /\ "huge" \notin Table(f).flags
  BY DEF Zero, Present, NULL, Table
<1>5. /\ u \in [Memory -> Uses] /\ u[KernelPml4] = "pml4" /\ u[HighDir] = "dir"
      /\ u[HighTable] = "table" /\ u[Code] = "page" /\ \A f \in LowDirs : u[f] = "dir"
      /\ \A f \in Memory : u[f] \in Live => f \in {KernelPml4, HighDir, HighTable} \cup LowDirs
      /\ \A f \in Memory : u[f] = "page" => f = Code
      /\ \A f \in Frames : u[f] = "free"
  BY <1>2 DEF Uses, Live
<1> HIDE DEF u, k3, k2, k1
<1>6. ASSUME NEW k \in Entry
      PROVE  /\ mem[KernelPml4][k] = IF k \in DOMAIN KernelDirs THEN Table(KernelDirs[k])
                                    ELSE IF k = k3 THEN Table(HighDir) ELSE Zero
             /\ mem[HighDir][k] = IF k = k2 THEN Table(HighTable) ELSE Zero
             /\ mem[HighTable][k] = IF k = k1 THEN [to |-> Code, flags |-> {}] ELSE Zero
  <2>1. mem[KernelPml4] = BootPml4
        /\ mem[HighDir] = [Blank EXCEPT ![k2] = Table(HighTable)]
        /\ mem[HighTable] = [Blank EXCEPT ![k1] = [to |-> Code, flags |-> {}]]
    BY <1>1, BootPages DEF k1, k2
  <2>2. Blank = [j \in Entry |-> Zero]
    BY DEF Blank, Entry
  <2>3. mem[KernelPml4][k] = IF k \in DOMAIN KernelDirs THEN Table(KernelDirs[k])
                             ELSE IF k = k3 THEN Table(HighDir) ELSE Zero
    BY <2>1 DEF BootPml4, Entry, k3
  <2> QED
    BY <1>3, <2>1, <2>2, <2>3
\* A directory of large pages holds nothing else.
<1>7. ASSUME NEW t \in LowDirs, NEW k \in Entry
      PROVE  mem[t][k] = Zero \/ "huge" \in mem[t][k].flags
  <2>1. PICK i \in DOMAIN KernelDirs : mem[t] = BootDir(i)
    BY <1>1, BootPages
  <2>2. BootDir(i)[k] = LET page == (i * ENTRIES + k) * ENTRIES
                        IN IF page < TOP THEN [to |-> page, flags |-> {"w", "huge"}] ELSE Zero
    BY DEF BootDir, Entry
  <2> QED
    BY <2>1, <2>2
<1>8. Large(u, mem)
  <2> SUFFICES ASSUME NEW t \in Memory, NEW k \in Entry
               PROVE  /\ u[t] \in Live /\ "huge" \in mem[t][k].flags =>
                             u[t] = "dir" /\ t \in LowDirs
                      /\ u[t] = "pml4" => t = KernelPml4
    BY <1>1 DEF Large
  <2>1. u[t] = "pml4" => t = KernelPml4
    BY <1>5 DEF Live
  <2>2. [to |-> Code, flags |-> {}].flags = {}
    OBVIOUS
  <2>3. t \in {KernelPml4, HighDir, HighTable} => "huge" \notin mem[t][k].flags
    BY <1>4, <1>6, <2>2
  <2> QED
    BY <1>5, <2>1, <2>3
\* The entries that lead somewhere: to the directories, to one table, to one page.
<1>9. ASSUME NEW t \in Memory, NEW k \in Entry, Leads(u, mem, t, k)
      PROVE  \/ t = KernelPml4 /\ k \in DOMAIN KernelDirs /\ mem[t][k].to = KernelDirs[k]
             \/ t = KernelPml4 /\ k = k3 /\ mem[t][k].to = HighDir
             \/ t = HighDir /\ k = k2 /\ mem[t][k].to = HighTable
             \/ t = HighTable /\ k = k1 /\ mem[t][k].to = Code
  <2>1. t \in {KernelPml4, HighDir, HighTable} \cup LowDirs
    BY <1>5, <1>9 DEF Leads
  <2>2. t \notin LowDirs
    BY <1>4, <1>7, <1>9 DEF Leads
  <2> QED
    BY <1>4, <1>6, <1>9, <2>1, <2>2 DEF Leads
<1>18. \A k \in DOMAIN KernelDirs : KernelDirs[k] \in LowDirs
  BY DEF LowDirs, Range
<1>19. Below(u, mem)
  <2>1. Child["pml4"] = "dir" /\ Child["dir"] = "table" /\ Child["table"] = "page"
    BY DEF Child, Live
  <2> QED
    BY <1>5, <1>9, <1>18, <2>1 DEF Below
<1>10. Once(u, mem)
  <2> SUFFICES ASSUME NEW t1 \in Memory, NEW t2 \in Memory, NEW i1 \in Entry, NEW i2 \in Entry,
                      Leads(u, mem, t1, i1), Leads(u, mem, t2, i2),
                      mem[t1][i1].to = mem[t2][i2].to
               PROVE  t1 = t2 /\ i1 = i2
    BY DEF Once
  <2>1. \A x, y \in DOMAIN KernelDirs : KernelDirs[x] = KernelDirs[y] => x = y
    BY FramesAssumption DEF IsInjective
  <2> QED
    BY <1>2, <1>9, <1>18, <2>1
<1>11. Empty(u, mem)
  BY <1>1, <1>2, <1>5, BootPages DEF Empty
<1>12. avail \subseteq Frames
  BY DEF Init
<1>13. Pages(u, mem, avail)
  BY <1>5, <1>8, <1>19, <1>10, <1>11, <1>12 DEF Pages
<1>14. DOMAIN spaces = {Kernel} /\ spaces[Kernel].pml4 = KernelPml4 /\ spaces[Kernel].regions = <<>>
  BY DEF Init, NewSpace
<1>15. Separate(spaces) /\ Ours(spaces) = {} /\ Roots(spaces) = {KernelPml4}
  <2>1. Records(<<>>) = {} /\ Distinct(<<>>)
    BY DEF Records, Distinct
  <2>2. OwnOf(spaces, Kernel) = {}
    BY <1>14, <2>1 DEF OwnOf, Itself
  <2> QED
    BY <1>14, <2>1, <2>2 DEF Separate, Ours, Roots
<1>16. Held(u, mem, {}, {KernelPml4}, {})
  BY <1>2, <1>5 DEF Held
<1>17. Roles(mem, avail, {}, {KernelPml4}, {})
  BY <1>13, <1>16 DEF Roles
<1> QED
  BY <1>15, <1>17 DEF UseInv, Shared

LEMMA NextUses ==
    ASSUME TypeOK, UseInv, [Next]_vars
    PROVE  UseInv'
<1>1. CASE Create
  BY <1>1, CreateUses
<1>2. ASSUME NEW as \in DOMAIN spaces, Destroy(as) \/ Switch(as)
      PROVE  UseInv'
  BY <1>2, DestroyUses, SwitchUses
<1>3. ASSUME NEW as \in DOMAIN spaces, NEW n \in Counts, Sbrk(as, n) \/ Sbrk(as, -n)
      PROVE  UseInv'
  BY <1>3, SbrkUses
<1>4. ASSUME NEW as \in DOMAIN spaces, NEW fl \in Flags, NEW n \in Counts,
             NEW a \in Addresses \cup {0}, Alloc(as, a, n, fl)
      PROVE  UseInv'
  BY <1>4, AllocUses
<1>5. ASSUME NEW as \in DOMAIN spaces, NEW a \in Addresses, Brk(as, a) \/ PageFault(as, a)
      PROVE  UseInv'
  BY <1>5, CallArguments, BrkUses, FaultUses
<1>6. ASSUME NEW as \in DOMAIN spaces, NEW a \in Addresses, NEW n \in Counts,
             Free(as, a, n) \/ SetupStack(as, a, n) \/ UnmapPages(as, a, n)
      PROVE  UseInv'
  BY <1>6, FreeUses, StackUses, UnmapUses
<1>7. ASSUME NEW as \in DOMAIN spaces, NEW a \in Addresses, NEW n \in Counts,
             NEW fl \in Flags, Protect(as, a, n, fl)
      PROVE  UseInv'
  BY <1>7, ProtectUses
\* Two spaces share tables, a device is mapped, or data looks like an entry.
<1>8. ASSUME NEW as \in DOMAIN spaces,
             \/ Clone(as)
             \/ \E fl \in Flags : MapPhysical(as, fl)
             \/ \E a \in Addresses, f \in Stored : Store(as, a, f)
      PROVE  UseInv'
  <2>1. mingled'
    BY <1>8 DEF Clone, MapPhysical, Store
  <2> QED
    BY <2>1 DEF UseInv
<1>9. CASE UNCHANGED vars
  BY <1>9 DEF vars, UseInv, Shared
<1> QED
  BY <1>1, <1>2, <1>3, <1>4, <1>5, <1>6, <1>7, <1>8, <1>9 DEF Next

\* The inductive invariant of the frames.
THEOREM FramesAreShared == Spec => []UseInv
<1>1. Init => UseInv
  BY InitUses
<1>2. TypeOK /\ UseInv /\ [Next]_vars => UseInv'
  BY NextUses
<1> QED
  BY <1>1, <1>2, Types, PTL DEF Spec

-----------------------------------------------------------------------------
(* Therefore a frame has one use *)

\* A function that takes no two to one counts what it takes.
LEMMA OneToOne ==
    ASSUME NEW S, NEW T, IsFiniteSet(T), NEW f \in [S -> T],
           \A x \in S, y \in S : f[x] = f[y] => x = y
    PROVE  /\ IsFiniteSet({f[x] : x \in S})
           /\ Cardinality({f[x] : x \in S}) = Cardinality(S)
           /\ Cardinality(S) \in Nat
<1> DEFINE R == {f[x] : x \in S}
<1>1. IsFiniteSet(R)
  <2>1. R \in SUBSET T
    OBVIOUS
  <2> HIDE DEF R
  <2> QED
    BY <2>1, FS_Subset
<1>2. f \in Injection(S, R) /\ f \in Surjection(S, R)
  BY DEF Injection, Surjection, IsInjective
<1> HIDE DEF R
<1>3. IsFiniteSet(S) /\ Cardinality(S) = Cardinality(R)
  BY <1>1, <1>2, FS_Injection
<1>4. Cardinality(S) \in Nat
  BY <1>3, FS_CardinalityType
<1> QED
  BY <1>1, <1>3, <1>4 DEF R

\* An entry of a space's tables.
Node(u, as, c) ==
    \E t \in Memory, k \in Entry :
        /\ c = <<t, k>> /\ Leads(u, mem, t, k)
        /\ u[t] = "pml4" => (as = Kernel /\ t = KernelPml4) \/ k < HALF

LEMMA UnderNodes ==
    ASSUME TypeOK, NEW u, Pages(u, mem, avail), NEW as,
           NEW cells, \A c \in cells : Node(u, as, c)
    PROVE  \A c \in Under(cells) : Node(u, as, c)
<1> SUFFICES ASSUME NEW c \in Under(cells)
             PROVE  Node(u, as, c)
  OBVIOUS
<1>1. mem \in Mem /\ avail \in SUBSET Frames
  BY TypeParts
<1>2. PICK d \in cells : c \in Filled(mem[d[1]][d[2]].to, 0 .. ENTRIES - 1)
  BY DEF Under, Target
<1>3. PICK t \in Memory, k \in Entry : d = <<t, k>> /\ Leads(u, mem, t, k)
  BY DEF Node
<1>4. Leads(u, mem, t, k)
  BY <1>3
<1> DEFINE t1 == mem[t][k].to
<1>5. t1 \in Memory /\ u[t1] \in {"dir", "table", "page"}
  BY <1>1, <1>4, UseFacts
<1>6. c \in Filled(t1, 0 .. ENTRIES - 1)
  BY <1>2, <1>3
<1> HIDE DEF t1
<1>7. PICK k1 \in Entry : /\ c = <<t1, k1>> /\ Present(mem[t1][k1])
                          /\ "huge" \notin mem[t1][k1].flags
  BY <1>6 DEF Filled, Entry
\* Pages are empty.
<1>8. u[t1] # "page"
  <2>1. u[t1] = "page" => mem[t1] = Blank
    BY <1>5 DEF Pages, Empty
  <2>2. ~Present(Blank[k1])
    BY <1>7 DEF Blank, Entry, Zero, Present, NULL
  <2> QED
    BY <1>7, <2>1, <2>2
<1> QED
  BY <1>5, <1>7, <1>8 DEF Node, Leads, Live

LEMMA CellNodes ==
    ASSUME TypeOK, NEW u, Pages(u, mem, avail), Held(u, mem, Ours(spaces), Roots(spaces), {}),
           NEW as \in DOMAIN spaces, NEW c \in Cells(as)
    PROVE  Node(u, as, c) /\ Target(c) \in Frames
<1> DEFINE n == (IF as = Kernel THEN ENTRIES ELSE HALF) - 1
           c3 == Filled(spaces[as].pml4, 0 .. n)
           c2 == Under(c3)
           c1 == Under(c2)
<1>0. (\A k \in 0 .. HALF - 1 : k \in Entry /\ k < HALF) /\ \A k \in 0 .. ENTRIES - 1 : k \in Entry
  BY Geometry DEF Entry
<1>1. \A d \in c3 : Node(u, as, d)
  <2> SUFFICES ASSUME NEW d \in c3
               PROVE  Node(u, as, d)
    OBVIOUS
  <2> DEFINE p == spaces[as].pml4
  <2>1. p \in Memory /\ u[p] = "pml4" /\ (as = Kernel => p = KernelPml4)
    <3>1. p \in Roots(spaces)
      BY OursParts
    <3>2. Typed(as, spaces[as])
      BY TypeParts DEF AllTyped
    <3> QED
      BY <3>1, <3>2 DEF Held, Typed
  <2> HIDE DEF p, n
  <2>2. PICK k \in 0 .. n : /\ d = <<p, k>> /\ Present(mem[p][k])
                            /\ "huge" \notin mem[p][k].flags
    BY DEF Filled, p
  <2>3. k \in Entry /\ (as = Kernel \/ k < HALF)
    <3>2. CASE as = Kernel
      BY <1>0, <2>2, <3>2 DEF n
    <3>3. CASE as # Kernel
      BY <1>0, <2>2, <3>3 DEF n
    <3> QED
      BY <3>2, <3>3
  <2>4. u[p] \in Live
    BY <2>1 DEF Live
  <2> QED
    BY <2>1, <2>2, <2>3, <2>4 DEF Node, Leads
<1> HIDE DEF c3, n
<1>2. \A d \in c2 : Node(u, as, d)
  BY <1>1, UnderNodes
<1> HIDE DEF c2
<1>3. \A d \in c1 : Node(u, as, d)
  BY <1>2, UnderNodes
<1>4. c \in c3 \cup c2 \cup c1 /\ Target(c) \in Frames
  BY DEF Cells, c3, c2, n
<1> HIDE DEF c1
<1> QED
  BY <1>1, <1>2, <1>3, <1>4

LEMMA CellsDiffer ==
    ASSUME TypeOK, NEW u, Pages(u, mem, avail), Held(u, mem, Ours(spaces), Roots(spaces), {}),
           NEW c \in AllCells
    PROVE  /\ Target(c) \in Frames /\ u[Target(c)] \in {"dir", "table", "page"}
           /\ \A d \in AllCells : Target(c) = Target(d) => c = d
<1>1. mem \in Mem /\ avail \in SUBSET Frames
  BY TypeParts
<1>2. ASSUME NEW d \in AllCells
      PROVE  \E t \in Memory, k \in Entry :
                 /\ d = <<t, k>> /\ Target(d) = mem[t][k].to /\ Leads(u, mem, t, k)
                 /\ Target(d) \in Frames
                 /\ u[t] = "pml4" => t = KernelPml4 \/ k < HALF
  <2>1. PICK as \in DOMAIN spaces : d \in Cells(as)
    BY DEF AllCells
  <2>2. Node(u, as, d) /\ Target(d) \in Frames
    BY <2>1, CellNodes
  <2>3. PICK t \in Memory, k \in Entry :
            /\ d = <<t, k>> /\ Leads(u, mem, t, k)
            /\ u[t] = "pml4" => (as = Kernel /\ t = KernelPml4) \/ k < HALF
    BY <2>2 DEF Node
  <2>4. Target(d) = mem[t][k].to
    BY <2>3 DEF Target
  <2> QED
    BY <2>2, <2>3, <2>4
<1>3. PICK t \in Memory, k \in Entry :
          /\ c = <<t, k>> /\ Target(c) = mem[t][k].to /\ Leads(u, mem, t, k)
          /\ Target(c) \in Frames
          /\ u[t] = "pml4" => t = KernelPml4 \/ k < HALF
  BY <1>2
<1>4. u[Target(c)] \in {"dir", "table", "page"}
  BY <1>1, <1>3, UseFacts
<1>5. ASSUME NEW d \in AllCells, Target(c) = Target(d)
      PROVE  c = d
  <2>1. PICK t2 \in Memory, k2 \in Entry :
            /\ d = <<t2, k2>> /\ Target(d) = mem[t2][k2].to /\ Leads(u, mem, t2, k2)
            /\ Target(d) \in Frames
            /\ u[t2] = "pml4" => t2 = KernelPml4 \/ k2 < HALF
    BY <1>2
  <2>2. \/ t = t2 /\ k = k2
        \/ /\ u[t] = "pml4" /\ u[t2] = "pml4"
           /\ (k = k2 /\ k >= HALF) \/ mem[t][k].to \notin Frames
    BY <1>3, <1>5, <2>1 DEF Pages, Once
  <2>3. k \in Nat /\ HALF \in Nat
    BY Geometry DEF Entry
  <2> QED
    BY <1>3, <2>1, <2>2, <2>3
<1> QED
  BY <1>3, <1>4, <1>5

\* What a space holds besides its tables and pages.
LEMMA OwnParts ==
    ASSUME NEW as \in DOMAIN spaces, NEW o \in Own(as)
    PROVE  \/ \E i \in DOMAIN spaces[as].regions : o = <<as, i, spaces[as].regions[i].at>>
           \/ as # Kernel /\ o = <<as, -1, as>>
           \/ as # Kernel /\ o = <<as, 0, spaces[as].pml4>>
BY DEF Own

LEMMA OwnDiffer ==
    ASSUME TypeOK, NEW u, Pages(u, mem, avail), Held(u, mem, Ours(spaces), Roots(spaces), {}),
           Separate(spaces), NEW o \in AllOwn
    PROVE  /\ o[3] \in Memory /\ u[o[3]] \in {"own", "pml4"}
           /\ \A q \in AllOwn : o[3] = q[3] => o = q
<1> DEFINE Rec(as, q) == \E i \in DOMAIN spaces[as].regions : q = <<as, i, spaces[as].regions[i].at>>
           Str(as, q) == as # Kernel /\ q = <<as, -1, as>>
           Top(as, q) == as # Kernel /\ q = <<as, 0, spaces[as].pml4>>
<1>1. ASSUME NEW q \in AllOwn
      PROVE  \E as \in DOMAIN spaces : Rec(as, q) \/ Str(as, q) \/ Top(as, q)
  BY OwnParts DEF AllOwn
<1>2. ASSUME NEW as \in DOMAIN spaces, NEW q
      PROVE  /\ Rec(as, q) => q[3] \in Records(spaces[as].regions) /\ q[3] \in OwnOf(spaces, as)
             /\ Str(as, q) => q[3] \in Itself(as) /\ q[3] \in OwnOf(spaces, as)
             /\ Top(as, q) => q[3] = spaces[as].pml4 /\ q[3] \in Roots(spaces)
  <2>1. ASSUME Rec(as, q)
        PROVE  q[3] \in Records(spaces[as].regions)
    <3>1. PICK i \in DOMAIN spaces[as].regions : q = <<as, i, spaces[as].regions[i].at>>
      BY <2>1
    <3>2. q[3] = spaces[as].regions[i].at
      BY <3>1
    <3> QED
      BY <3>2 DEF Records
  <2>2. Str(as, q) => q[3] \in Itself(as)
    BY DEF Itself
  <2>3. Top(as, q) => q[3] = spaces[as].pml4
    OBVIOUS
  <2> HIDE DEF Rec, Str, Top
  <2> QED
    BY <2>1, <2>2, <2>3, OursParts DEF OwnOf
<1>3. \A as \in DOMAIN spaces : OwnOf(spaces, as) \subseteq Ours(spaces)
  BY DEF Ours
<1>4. /\ \A f \in Ours(spaces) : f \in Memory /\ u[f] = "own"
      /\ \A f \in Roots(spaces) : f \in Memory /\ u[f] = "pml4"
  BY DEF Held
<1>5. PICK as \in DOMAIN spaces : Rec(as, o) \/ Str(as, o) \/ Top(as, o)
  BY <1>1
<1>6. /\ Rec(as, o) \/ Str(as, o) => o[3] \in OwnOf(spaces, as) /\ o[3] \in Memory /\ u[o[3]] = "own"
      /\ Top(as, o) => o[3] \in Memory /\ u[o[3]] = "pml4"
  <2> HIDE DEF Rec, Str, Top
  <2> QED
    BY <1>2, <1>3, <1>4
<1>7. ASSUME NEW q \in AllOwn, o[3] = q[3]
      PROVE  o = q
  <2>1. PICK bs \in DOMAIN spaces : Rec(bs, q) \/ Str(bs, q) \/ Top(bs, q)
    BY <1>1
  <2>2. /\ Rec(bs, q) \/ Str(bs, q) => q[3] \in OwnOf(spaces, bs) /\ u[q[3]] = "own"
        /\ Top(bs, q) => q[3] = spaces[bs].pml4 /\ u[q[3]] = "pml4"
    <3> HIDE DEF Rec, Str, Top
    <3> QED
      BY <1>2, <1>3, <1>4
  <2>3. as # bs => /\ OwnOf(spaces, as) \cap OwnOf(spaces, bs) = {}
                   /\ spaces[as].pml4 # spaces[bs].pml4
    BY DEF Separate
  <2>4. as = bs
    <3> HIDE DEF Rec, Str, Top
    <3> QED
      BY <1>2, <1>5, <1>6, <1>7, <2>1, <2>2, <2>3
  <2>5. Distinct(spaces[as].regions) /\ Itself(as) \cap Records(spaces[as].regions) = {}
    BY DEF Separate
  <2>6. ~(Rec(as, o) /\ Str(as, q)) /\ ~(Str(as, o) /\ Rec(as, q))
    <3> HIDE DEF Rec, Str, Top
    <3> QED
      BY <1>2, <1>7, <2>5
  <2>7. (Top(as, o) <=> Top(as, q))
    <3> HIDE DEF Rec, Str, Top
    <3> QED
      BY <1>5, <1>6, <1>7, <2>1, <2>2, <2>4
  <2>8. CASE Rec(as, o) /\ Rec(as, q)
    <3> DEFINE rs == spaces[as].regions
    <3>1. PICK i \in DOMAIN rs : o = <<as, i, rs[i].at>>
      BY <2>8
    <3>2. PICK j \in DOMAIN rs : q = <<as, j, rs[j].at>>
      BY <2>8
    <3>3. Distinct(rs) /\ rs[i].at = rs[j].at
      BY <1>7, <2>5, <3>1, <3>2
    <3> HIDE DEF rs
    <3>4. i = j
      BY <3>3 DEF Distinct
    <3> QED
      BY <3>1, <3>2, <3>4
  <2>9. CASE Str(as, o) /\ Str(as, q)
    BY <2>9
  <2>10. CASE Top(as, o) /\ Top(as, q)
    BY <2>10
  <2> HIDE DEF Rec, Str, Top
  <2> QED
    BY <1>5, <2>1, <2>4, <2>6, <2>7, <2>8, <2>9, <2>10
<1> QED
  BY <1>5, <1>6, <1>7

LEMMA UseIsOne == TypeOK /\ UseInv => OneUse
<1> SUFFICES ASSUME TypeOK, UseInv, ~mingled, fate = "runs"
             PROVE  /\ Cardinality(InUse) = Cardinality(AllCells) + Cardinality(AllOwn)
                    /\ InUse \cap avail = {}
  BY DEF OneUse
<1>1. Separate(spaces) /\ Roles(mem, avail, Ours(spaces), Roots(spaces), {})
  BY DEF UseInv, Shared
<1>2. PICK u : Pages(u, mem, avail) /\ Held(u, mem, Ours(spaces), Roots(spaces), {})
  BY <1>1 DEF Roles
<1> DEFINE f == [c \in AllCells |-> Target(c)]
           g == [o \in AllOwn |-> o[3]]
           C == {f[c] : c \in AllCells}
           O == {g[o] : o \in AllOwn}
<1>3. IsFiniteSet(Memory)
  BY Places, FS_Interval
<1>4. IsFiniteSet(C) /\ Cardinality(C) = Cardinality(AllCells) /\ Cardinality(AllCells) \in Nat
  <2>1. f \in [AllCells -> Memory] /\ \A c \in AllCells, d \in AllCells : f[c] = f[d] => c = d
    BY <1>2, CellsDiffer, Places
  <2> HIDE DEF f
  <2> QED
    BY <1>3, <2>1, OneToOne
<1>5. IsFiniteSet(O) /\ Cardinality(O) = Cardinality(AllOwn) /\ Cardinality(AllOwn) \in Nat
  <2>1. g \in [AllOwn -> Memory] /\ \A c \in AllOwn, d \in AllOwn : g[c] = g[d] => c = d
    BY <1>1, <1>2, OwnDiffer
  <2> HIDE DEF g
  <2> QED
    BY <1>3, <2>1, OneToOne
<1>6. \A x \in C : u[x] \in {"dir", "table", "page"}
  BY <1>2, CellsDiffer
<1>7. \A x \in O : u[x] \in {"own", "pml4"}
  BY <1>1, <1>2, OwnDiffer
<1>8. InUse = C \cup O
  BY DEF InUse
<1> HIDE DEF C, O
<1>9. C \cap O = {}
  BY <1>6, <1>7
<1>10. Cardinality(C \cup O) = Cardinality(C) + Cardinality(O)
  <2>1. Cardinality(C \cup O) = Cardinality(C) + Cardinality(O) - Cardinality(C \cap O)
    BY <1>4, <1>5, FS_Union
  <2>2. Cardinality(C \cap O) = 0
    BY <1>9, FS_EmptySet, Zenon
  <2> QED
    BY <1>4, <1>5, <2>1, <2>2
<1>11. Cardinality(InUse) = Cardinality(C) + Cardinality(O)
  BY <1>8, <1>10, Zenon
<1>12. \A x \in avail : u[x] = "free"
  BY <1>2 DEF Pages
<1> QED
  BY <1>4, <1>5, <1>6, <1>7, <1>8, <1>11, <1>12

\* A frame has one use, as a structure, a table, a region record or a mapped page
\* of one space, and the allocator does not have it: whatever is created,
\* allocated, freed, protected and destroyed, and wherever memory runs out.
THEOREM FramesHaveOneUse == Spec => []OneUse
BY Types, FramesAreShared, UseIsOne, PTL

=============================================================================
