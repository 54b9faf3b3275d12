----------------------------- MODULE VMM_areas -----------------------------
(***************************************************************************)
(* Areas.  In a space that is used for nothing but areas whose places      *)
(* vmm_alloc_pages chose, the list of regions is in order, and the tables  *)
(* of the lower half map the pages of the areas in use and no other: for   *)
(* tables of all sizes, any memory and any calls.                          *)
(*                                                                         *)
(* First the lists alone.  Then what the tables of a space map (View), how *)
(* each write to memory and each loop of a call changes that, and what     *)
(* each call makes of the list beside it.                                  *)
(***************************************************************************)
EXTENDS VMM_proofs

-----------------------------------------------------------------------------
(* Areas: regions in order, apart, and no two free ones in a row but at the   *)
(* places of a set.                                                          *)

Placed(r) == USER_SPACE_START <= r.start /\ r.start < r.end /\ r.end <= USER_SPACE_END
Precedes(r, q) == r.end <= q.start
BothFree(r, q) == r.flags = FREE /\ q.flags = FREE
Lined(rs, places) ==
    \A i \in DOMAIN rs :
        /\ Placed(rs[i])
        /\ i + 1 \in DOMAIN rs => /\ Precedes(rs[i], rs[i + 1])
                                  /\ BothFree(rs[i], rs[i + 1]) => i \in places

LEMMA RegionFacts ==
    ASSUME NEW r \in Regions
    PROVE  /\ r.start \in Nat /\ r.end \in Nat /\ r.start \in Address /\ r.end \in Address
           /\ r.flags \in SUBSET RegionFlags
           /\ \A v \in Address, fl \in SUBSET RegionFlags :
                  /\ [r EXCEPT !.start = v] \in Regions /\ [r EXCEPT !.end = v] \in Regions
                  /\ [r EXCEPT !.flags = fl] \in Regions
           /\ \A v : /\ [r EXCEPT !.start = v].start = v /\ [r EXCEPT !.start = v].end = r.end
                     /\ [r EXCEPT !.start = v].flags = r.flags
                     /\ [r EXCEPT !.end = v].start = r.start /\ [r EXCEPT !.end = v].end = v
                     /\ [r EXCEPT !.end = v].flags = r.flags
                     /\ [r EXCEPT !.flags = v].start = r.start
                     /\ [r EXCEPT !.flags = v].end = r.end /\ [r EXCEPT !.flags = v].flags = v
<1>1. /\ r.start \in Address /\ r.end \in Address /\ r.flags \in SUBSET RegionFlags
      /\ \A v \in Address, fl \in SUBSET RegionFlags :
                  /\ [r EXCEPT !.start = v] \in Regions /\ [r EXCEPT !.end = v] \in Regions
                  /\ [r EXCEPT !.flags = fl] \in Regions
  BY DEF Regions
<1>2. r.start \in Nat /\ r.end \in Nat
  BY <1>1, Words
<1>3. \A v : /\ [r EXCEPT !.start = v].start = v /\ [r EXCEPT !.start = v].end = r.end
             /\ [r EXCEPT !.start = v].flags = r.flags
             /\ [r EXCEPT !.end = v].start = r.start /\ [r EXCEPT !.end = v].end = v
             /\ [r EXCEPT !.end = v].flags = r.flags
             /\ [r EXCEPT !.flags = v].start = r.start
             /\ [r EXCEPT !.flags = v].end = r.end /\ [r EXCEPT !.flags = v].flags = v
  BY DEF Regions
<1> QED
  BY <1>1, <1>2, <1>3

LEMMA LinedFacts ==
    ASSUME NEW rs \in Seq(Regions), NEW places, Lined(rs, places)
    PROVE  \A i \in DOMAIN rs :
               /\ i \in Nat \ {0} /\ rs[i] \in Regions
               /\ rs[i].start \in Nat /\ rs[i].end \in Nat /\ Placed(rs[i])
               /\ rs[i].start < rs[i].end
               /\ i + 1 \in DOMAIN rs => rs[i].end <= rs[i + 1].start
<1> TAKE i \in DOMAIN rs
<1>1. i \in Nat \ {0} /\ rs[i] \in Regions
  BY SeqFacts
<1>2. rs[i].start \in Nat /\ rs[i].end \in Nat
  BY <1>1, RegionFacts
<1> QED
  BY <1>1, <1>2 DEF Lined, Placed, Precedes

\* What is further on in the list lies further up.
LEMMA LinedOrder ==
    ASSUME NEW rs \in Seq(Regions), NEW places, Lined(rs, places),
           NEW i \in DOMAIN rs, NEW j \in DOMAIN rs, i < j
    PROVE  rs[i].end <= rs[j].start
<1> DEFINE Bad == {k \in DOMAIN rs : i < k /\ ~(rs[i].end <= rs[k].start)}
<1> SUFFICES ASSUME Bad # {}
             PROVE  FALSE
  OBVIOUS
<1>1. DOMAIN rs = 1 .. Len(rs) /\ Len(rs) \in Nat
  BY SeqFacts
<1>2. Bad \in SUBSET Nat
  BY <1>1
<1>3. PICK k \in Bad : \A l \in Bad : k <= l
  <2> HIDE DEF Bad
  <2> QED
    BY <1>2, NatMin
<1>4. k \in DOMAIN rs /\ i < k /\ ~(rs[i].end <= rs[k].start)
  OBVIOUS
<1>5. k - 1 \in DOMAIN rs /\ i <= k - 1 /\ (k - 1) + 1 = k
  BY <1>1, <1>4
<1>6. rs[k - 1].end <= rs[k].start
  BY <1>4, <1>5, LinedFacts
<1>7. k - 1 \notin Bad
  BY <1>1, <1>3, <1>4
<1>8. CASE i = k - 1
  BY <1>4, <1>6, <1>8
<1>9. CASE i < k - 1
  <2>1. rs[i].end <= rs[k - 1].start
    BY <1>5, <1>7, <1>9
  <2>2. /\ rs[i].end \in Nat /\ rs[k - 1].start \in Nat /\ rs[k - 1].end \in Nat
        /\ rs[k].start \in Nat /\ rs[k - 1].start < rs[k - 1].end
    BY <1>4, <1>5, LinedFacts
  <2> QED
    BY <1>4, <1>6, <2>1, <2>2
<1> QED
  BY <1>1, <1>5, <1>8, <1>9

\* One region, e, more in the list: at place p.
Put(qs, rs, p, e) ==
    /\ qs \in Seq(Regions) /\ Len(qs) = Len(rs) + 1
    /\ \A j \in 1 .. Len(rs) + 1 :
           qs[j] = IF j < p THEN rs[j] ELSE IF j = p THEN e ELSE rs[j - 1]
Meets(r, q) == Precedes(r, q) /\ ~BothFree(r, q)

LEMMA PutLined ==
    ASSUME NEW rs \in Seq(Regions), Lined(rs, {}), NEW p \in 1 .. Len(rs) + 1, NEW e,
           Placed(e), p > 1 => Meets(rs[p - 1], e), p <= Len(rs) => Meets(e, rs[p]),
           NEW qs, Put(qs, rs, p, e)
    PROVE  Lined(qs, {})
<1>1. /\ DOMAIN rs = 1 .. Len(rs) /\ Len(rs) \in Nat /\ p \in Nat
      /\ DOMAIN qs = 1 .. Len(rs) + 1
  BY SeqFacts DEF Put
<1>2. \A k \in DOMAIN rs : Placed(rs[k]) /\ (k + 1 \in DOMAIN rs => Meets(rs[k], rs[k + 1]))
  BY DEF Lined, Meets
<1>3. \A j \in DOMAIN qs : qs[j] = IF j < p THEN rs[j] ELSE IF j = p THEN e ELSE rs[j - 1]
  BY <1>1 DEF Put
<1> SUFFICES ASSUME NEW k \in DOMAIN qs
             PROVE  Placed(qs[k]) /\ (k + 1 \in DOMAIN qs => Meets(qs[k], qs[k + 1]))
  BY DEF Lined, Meets
<1>4. k \in Nat /\ 1 <= k /\ k <= Len(rs) + 1 /\ (k + 1 \in DOMAIN qs <=> k <= Len(rs))
  BY <1>1
<1>5. CASE k < p
  <2>1. k \in DOMAIN rs /\ qs[k] = rs[k]
    BY <1>1, <1>3, <1>4, <1>5
  <2>2. k + 1 < p => k + 1 \in DOMAIN qs /\ k + 1 \in DOMAIN rs /\ qs[k + 1] = rs[k + 1]
    BY <1>1, <1>3, <1>4
  <2>3. k + 1 = p => k = p - 1 /\ p > 1 /\ k + 1 \in DOMAIN qs /\ qs[k + 1] = e
    BY <1>1, <1>3, <1>4
  <2> QED
    BY <1>1, <1>2, <1>4, <1>5, <2>1, <2>2, <2>3
<1>6. CASE k = p
  <2>1. qs[k] = e
    BY <1>3, <1>6
  <2>2. k + 1 \in DOMAIN qs => p <= Len(rs) /\ qs[k + 1] = rs[p]
    BY <1>1, <1>3, <1>4, <1>6
  <2> QED
    BY <2>1, <2>2
<1>7. CASE k > p
  <2>1. k - 1 \in DOMAIN rs /\ qs[k] = rs[k - 1]
    BY <1>1, <1>3, <1>4, <1>7
  <2>2. k + 1 \in DOMAIN qs => (k - 1) + 1 \in DOMAIN rs /\ qs[k + 1] = rs[(k - 1) + 1]
    BY <1>1, <1>3, <1>4, <1>7
  <2> QED
    BY <1>2, <2>1, <2>2
<1> QED
  BY <1>1, <1>4, <1>5, <1>6, <1>7

\* Region i is another, r.
Swapped(qs, rs, i, r) ==
    /\ qs \in Seq(Regions) /\ Len(qs) = Len(rs) /\ qs[i] = r
    /\ \A j \in DOMAIN rs : j # i => qs[j] = rs[j]

LEMMA SwapFacts ==
    ASSUME NEW rs \in Seq(Regions), NEW i \in DOMAIN rs, NEW v \in Address,
           NEW fl \in SUBSET RegionFlags
    PROVE  /\ Swapped([rs EXCEPT ![i].start = v], rs, i, [rs[i] EXCEPT !.start = v])
           /\ Swapped([rs EXCEPT ![i].end = v], rs, i, [rs[i] EXCEPT !.end = v])
           /\ Swapped([rs EXCEPT ![i].flags = fl], rs, i, [rs[i] EXCEPT !.flags = fl])
<1>1. ASSUME NEW r, NEW qs, qs = [rs EXCEPT ![i] = r], qs \in Seq(Regions)
      PROVE  Swapped(qs, rs, i, r)
  <2>1. DOMAIN qs = DOMAIN rs /\ qs[i] = r /\ \A j \in DOMAIN rs : j # i => qs[j] = rs[j]
    BY <1>1
  <2>2. Len(qs) = Len(rs)
    BY <1>1, <2>1, SameLength
  <2> QED
    BY <1>1, <2>1, <2>2 DEF Swapped
<1> QED
  BY <1>1, EditType

\* A region within another, free only if that is.
Inside(r, q) == /\ q.start <= r.start /\ r.start < r.end /\ r.end <= q.end
                /\ r.flags = FREE => q.flags = FREE

LEMMA InsideFacts ==
    ASSUME NEW r \in Regions, NEW q \in Regions, Inside(r, q)
    PROVE  /\ Placed(q) => Placed(r)
           /\ \A x \in Regions : Meets(x, q) => Meets(x, r)
           /\ \A x \in Regions : Meets(q, x) => Meets(r, x)
<1>1. /\ r.start \in Nat /\ r.end \in Nat /\ q.start \in Nat /\ q.end \in Nat
      /\ USER_SPACE_START \in Nat /\ USER_SPACE_END \in Nat
  BY RegionFacts, UserAddress, Words
<1>2. Placed(q) => Placed(r)
  BY <1>1 DEF Placed, Inside
<1>3. ASSUME NEW x \in Regions
      PROVE  /\ Meets(x, q) => Meets(x, r)
             /\ Meets(q, x) => Meets(r, x)
  <2>1. x.start \in Nat /\ x.end \in Nat
    BY RegionFacts
  <2> QED
    BY <1>1, <2>1 DEF Inside, Meets, Precedes, BothFree
<1> QED
  BY <1>2, <1>3

LEMMA SwapLined ==
    ASSUME NEW rs \in Seq(Regions), Lined(rs, {}), NEW i \in DOMAIN rs,
           NEW r \in Regions, Inside(r, rs[i]), NEW qs, Swapped(qs, rs, i, r)
    PROVE  Lined(qs, {})
<1>1. DOMAIN rs = 1 .. Len(rs) /\ Len(rs) \in Nat /\ DOMAIN qs = DOMAIN rs
  BY SeqFacts DEF Swapped
<1>2. \A k \in DOMAIN rs : /\ Placed(rs[k]) /\ rs[k] \in Regions
                           /\ k + 1 \in DOMAIN rs => Meets(rs[k], rs[k + 1])
  BY SeqFacts DEF Lined, Meets
<1>3. qs[i] = r /\ \A j \in DOMAIN rs : j # i => qs[j] = rs[j]
  BY DEF Swapped
<1> SUFFICES ASSUME NEW k \in DOMAIN qs
             PROVE  Placed(qs[k]) /\ (k + 1 \in DOMAIN qs => Meets(qs[k], qs[k + 1]))
  BY DEF Lined, Meets
<1>4. /\ Placed(r)
      /\ \A x \in Regions : Meets(x, rs[i]) => Meets(x, r)
      /\ \A x \in Regions : Meets(rs[i], x) => Meets(r, x)
  BY <1>2, InsideFacts
<1>5. CASE k = i
  <2>1. k + 1 # i
    BY <1>1, <1>5
  <2> QED
    BY <1>1, <1>2, <1>3, <1>4, <1>5, <2>1
<1>6. CASE k # i
  BY <1>1, <1>2, <1>3, <1>4, <1>6
<1> QED
  BY <1>5, <1>6

\* Two neighbours become one region with the flags of the first.
LEMMA LinedJoin ==
    ASSUME NEW rs \in Seq(Regions), NEW places, Lined(rs, places),
           NEW i \in DOMAIN rs, i + 1 \in DOMAIN rs, rs[i].flags = rs[i + 1].flags,
           NEW fewer, \A k \in DOMAIN rs : /\ k < i /\ k \in places => k \in fewer
                                           /\ k > i /\ k \in places => k - 1 \in fewer
    PROVE  LET ys == RemoveAt([rs EXCEPT ![i].end = rs[i + 1].end], i + 1) IN
           Lined(ys, fewer) /\ ys[i].flags = rs[i].flags
<1> DEFINE r == [rs[i] EXCEPT !.end = rs[i + 1].end]
           e == [rs EXCEPT ![i].end = rs[i + 1].end]
           ys == RemoveAt(e, i + 1)
<1>1. DOMAIN rs = 1 .. Len(rs) /\ Len(rs) \in Nat /\ i \in Nat \ {0} /\ i + 1 <= Len(rs)
  BY SeqFacts
<1>2. \A k \in DOMAIN rs : /\ Placed(rs[k]) /\ rs[k].start \in Nat /\ rs[k].end \in Nat
                           /\ rs[k].start < rs[k].end /\ rs[k] \in Regions
  BY LinedFacts
<1>3. rs[i + 1].end \in Address /\ {} \in SUBSET RegionFlags
  BY <1>2, RegionFacts
<1>4. Swapped(e, rs, i, r)
  BY <1>3, SwapFacts
<1>5. r \in Regions /\ r.start = rs[i].start /\ r.end = rs[i + 1].end /\ r.flags = rs[i].flags
  <2>1. rs[i] \in Regions
    BY <1>2
  <2> QED
    BY <1>3, <2>1 DEF Regions
<1> HIDE DEF e, r
<1>6. e \in Seq(Regions) /\ Len(e) = Len(rs) /\ e[i] = r
      /\ \A k \in 1 .. Len(rs) : k # i => e[k] = rs[k]
  BY <1>1, <1>4 DEF Swapped
<1>7. /\ ys \in Seq(Regions) /\ DOMAIN ys = 1 .. Len(rs) - 1
      /\ \A k \in 1 .. Len(rs) - 1 : ys[k] = IF k < i + 1 THEN e[k] ELSE e[k + 1]
  <2>1. i + 1 \in 1 .. Len(e)
    BY <1>1, <1>6
  <2>2. /\ ys \in Seq(Regions) /\ Len(ys) = Len(e) - 1
        /\ \A k \in 1 .. Len(e) - 1 : ys[k] = IF k < i + 1 THEN e[k] ELSE e[k + 1]
    BY <1>6, <2>1, RemoveFacts
  <2> HIDE DEF ys
  <2>3. DOMAIN ys = 1 .. Len(ys)
    BY <2>2, SeqFacts
  <2> QED
    BY <1>6, <2>2, <2>3
<1> HIDE DEF ys
<1>8. ys[i] = r /\ i \in DOMAIN ys
  BY <1>1, <1>6, <1>7
<1>9. \A k \in DOMAIN ys : k < i => ys[k] = rs[k] /\ k \in DOMAIN rs /\ k \in Nat
  <2> TAKE k \in DOMAIN ys
  <2>1. k < i => /\ k \in 1 .. Len(rs) - 1 /\ k < i + 1 /\ k \in 1 .. Len(rs) /\ k # i
                 /\ k \in Nat
    BY <1>1, <1>7
  <2> QED
    BY <1>1, <1>6, <1>7, <2>1
<1>10. \A k \in DOMAIN ys : k > i => ys[k] = rs[k + 1] /\ k + 1 \in DOMAIN rs /\ k \in Nat
  <2> TAKE k \in DOMAIN ys
  <2>1. k > i => /\ k \in 1 .. Len(rs) - 1 /\ ~(k < i + 1)
                 /\ k + 1 \in 1 .. Len(rs) /\ k + 1 # i /\ k \in Nat
    BY <1>1, <1>7
  <2> QED
    BY <1>1, <1>6, <1>7, <2>1
<1>11. \A k \in DOMAIN rs : k + 1 \in DOMAIN rs =>
          Precedes(rs[k], rs[k + 1]) /\ (BothFree(rs[k], rs[k + 1]) => k \in places)
  BY DEF Lined
<1>12. Placed(r)
  <2>1. rs[i].end <= rs[i + 1].start
    BY LinedFacts
  <2>2. /\ rs[i].start \in Nat /\ rs[i].end \in Nat /\ rs[i].start < rs[i].end
        /\ rs[i + 1].start \in Nat /\ rs[i + 1].end \in Nat
        /\ rs[i + 1].start < rs[i + 1].end
    BY <1>2
  <2>3. USER_SPACE_START <= rs[i].start /\ rs[i + 1].end <= USER_SPACE_END
    BY <1>2 DEF Placed
  <2>4. r.start < r.end
    BY <1>5, <2>1, <2>2
  <2> QED
    BY <1>5, <2>3, <2>4 DEF Placed
<1>13. \A x : /\ Precedes(x, r) <=> Precedes(x, rs[i])
              /\ BothFree(x, r) <=> BothFree(x, rs[i])
              /\ Precedes(r, x) <=> Precedes(rs[i + 1], x)
              /\ BothFree(r, x) <=> BothFree(rs[i + 1], x)
  BY <1>5 DEF Precedes, BothFree
<1> SUFFICES ASSUME NEW k \in DOMAIN ys
             PROVE  /\ Placed(ys[k])
                    /\ k + 1 \in DOMAIN ys => /\ Precedes(ys[k], ys[k + 1])
                                              /\ BothFree(ys[k], ys[k + 1]) => k \in fewer
  BY <1>5, <1>8 DEF Lined, ys, e
<1>14. k \in Nat /\ \A j \in Nat : j \in DOMAIN ys <=> 1 <= j /\ j <= Len(rs) - 1
  BY <1>1, <1>7
<1>15. CASE k < i
  <2>1. /\ ys[k] = rs[k] /\ k \in DOMAIN rs /\ k + 1 \in DOMAIN rs
        /\ k \in places => k \in fewer
    BY <1>1, <1>9, <1>14, <1>15
  <2>2. CASE k + 1 = i
    BY <1>2, <1>8, <1>11, <1>13, <2>1, <2>2
  <2>3. CASE k + 1 < i
    <3>1. k + 1 \in DOMAIN ys /\ ys[k + 1] = rs[k + 1]
      BY <1>1, <1>9, <1>14, <2>3
    <3> QED
      BY <1>2, <1>11, <2>1, <3>1
  <2> QED
    BY <1>1, <1>14, <1>15, <2>2, <2>3
<1>16. CASE k = i
  <2>1. k + 1 \in DOMAIN ys => /\ ys[k + 1] = rs[(k + 1) + 1] /\ (k + 1) + 1 \in DOMAIN rs
                               /\ k + 1 \in DOMAIN rs
                               /\ k + 1 \in places => (k + 1) - 1 \in fewer
    BY <1>1, <1>10, <1>14, <1>16
  <2>2. (k + 1) - 1 = k
    BY <1>14
  <2> QED
    BY <1>8, <1>11, <1>12, <1>13, <1>16, <2>1, <2>2
<1>17. CASE k > i
  <2>1. /\ ys[k] = rs[k + 1] /\ k + 1 \in DOMAIN rs /\ (k + 1) - 1 = k
        /\ k + 1 \in places => (k + 1) - 1 \in fewer
    BY <1>1, <1>10, <1>14, <1>17
  <2>2. k + 1 \in DOMAIN ys => ys[k + 1] = rs[(k + 1) + 1] /\ (k + 1) + 1 \in DOMAIN rs
    BY <1>1, <1>10, <1>14, <1>17
  <2> QED
    BY <1>2, <1>11, <2>1, <2>2
<1> QED
  BY <1>1, <1>14, <1>15, <1>16, <1>17

\* A record of which Put tells, or no record.
LEMMA CreatePlace ==
    ASSUME NEW s \in Works, NEW rs, rs = s.regions, NEW a \in Address, NEW b \in Address, a < b,
           NEW fl \in SUBSET RegionFlags, NEW p \in 1 .. Len(rs) + 1,
           \A j \in 1 .. p - 1 : rs[j].start < a,
           p # Len(rs) + 1 => rs[p].start >= a
    PROVE  LET d == vmm_create_region(s, a, b, fl) IN
           /\ d \in Works
           /\ \/ s.avail = {} /\ d.avail = {} /\ d.regions = rs
              \/ \E e \in Regions : /\ e.start = a /\ e.end = b /\ e.flags = fl
                                    /\ Put(d.regions, rs, p, e)
<1> DEFINE d == vmm_create_region(s, a, b, fl)
           e == Region(a, b, fl, Fresh(s))
           Spot(at) == /\ at \in 1 .. Len(rs) + 1
                       /\ at # Len(rs) + 1 => rs[at].start >= a
                       /\ \A j \in 1 .. at - 1 : rs[j].start < a
<1>1. rs \in Seq(Regions) /\ a \in Nat /\ b \in Nat
  BY Words DEF Works
<1>2. DOMAIN rs = 1 .. Len(rs) /\ Len(rs) \in Nat /\ \A j \in DOMAIN rs : rs[j].start \in Nat
  <2>1. \A j \in DOMAIN rs : rs[j] \in Regions
    BY <1>1, SeqFacts
  <2>2. \A j \in DOMAIN rs : rs[j].start \in Nat
    BY <2>1, RegionFacts
  <2> QED
    BY <1>1, <2>2, SeqFacts
<1>3. d \in Works
  BY CreateType DEF Listed
<1>4. \/ d = RanOut(s) /\ s.avail = {}
      \/ s.avail # {} /\ \E at : Spot(at) /\ d = [Take(s) EXCEPT !.regions = InsertAt(rs, at, e)]
  <2>1. ~(a >= b)
    BY <1>1
  <2> QED
    BY <2>1, CreateFacts
<1> HIDE DEF d
<1>5. CASE d = RanOut(s) /\ s.avail = {}
  <2>1. d.avail = {} /\ d.regions = rs
    BY <1>5, RanOutType
  <2> QED
    BY <1>3, <1>5, <2>1 DEF d
<1>6. ASSUME s.avail # {}, NEW at, Spot(at), d = [Take(s) EXCEPT !.regions = InsertAt(rs, at, e)]
      PROVE  /\ e \in Regions /\ e.start = a /\ e.end = b /\ e.flags = fl
             /\ Put(d.regions, rs, p, e)
  <2>1. Take(s) \in Works /\ Fresh(s) \in Frames
    BY <1>6, TakeType, FreshIn
  <2>2. e \in Regions /\ e.start = a /\ e.end = b /\ e.flags = fl
    BY <2>1 DEF Regions, Region
  <2> HIDE DEF e
  <2>3. p \in Nat /\ at \in Nat /\ 1 <= p /\ p <= Len(rs) + 1 /\ 1 <= at /\ at <= Len(rs) + 1
    <3>1. p \in 1 .. Len(rs) + 1 /\ at \in 1 .. Len(rs) + 1
      BY <1>6
    <3> QED
      BY ONLY <1>2, <3>1
  <2>4. ~(at < p)
    <3> SUFFICES ASSUME at < p
                 PROVE  FALSE
      OBVIOUS
    <3>1. at \in 1 .. p - 1 /\ at # Len(rs) + 1 /\ at \in DOMAIN rs
      BY <1>2, <2>3
    <3>2. rs[at].start < a /\ rs[at].start >= a /\ rs[at].start \in Nat
      BY <1>2, <1>6, <3>1
    <3> QED
      BY <1>1, <3>2
  <2>5. ~(p < at)
    <3> SUFFICES ASSUME p < at
                 PROVE  FALSE
      OBVIOUS
    <3>1. p \in 1 .. at - 1 /\ p # Len(rs) + 1 /\ p \in DOMAIN rs
      BY <1>2, <2>3
    <3>2. rs[p].start < a
      BY <1>6, <3>1
    <3>3. rs[p].start >= a /\ rs[p].start \in Nat
      BY <1>2, <3>1
    <3> QED
      BY <1>1, <3>2, <3>3
  <2>6. at = p
    BY <2>3, <2>4, <2>5
  <2> DEFINE q == InsertAt(rs, p, e)
  <2>7. Put(q, rs, p, e)
    <3>1. /\ q \in Seq(Regions) /\ Len(q) = Len(rs) + 1
          /\ \A j \in 1 .. Len(rs) + 1 :
                 q[j] = IF j < p THEN rs[j] ELSE IF j = p THEN e ELSE rs[j - 1]
      BY <1>1, <2>2, InsertFacts
    <3> HIDE DEF q
    <3> QED
      BY <3>1 DEF Put
  <2> HIDE DEF q
  <2>8. d.regions = q
    BY <1>6, <2>1, <2>6 DEF q, Works
  <2> QED
    BY <2>2, <2>7, <2>8
<1> HIDE DEF e
<1> QED
  BY <1>3, <1>4, <1>5, <1>6 DEF d

\* A part of a free area is occupied, as far as records can be had.
LEMMA OccupyLined ==
    ASSUME NEW s \in Works, NEW rs, rs = s.regions, Lined(rs, {}),
           NEW a \in Address, NEW b \in Address, a < b,
           NEW fl \in SUBSET RegionFlags, fl # FREE,
           NEW i \in DOMAIN rs, rs[i].flags = FREE, rs[i].start <= a, b <= rs[i].end
    PROVE  Lined(Occupy(s, a, b, fl).regions, {})
<1> DEFINE r == rs[i]
           cut == [s EXCEPT !.regions[i].end = a]
           whole == [s EXCEPT !.regions[i].flags = fl]
           front == vmm_create_region(s, a, b, fl)
           start == [front EXCEPT !.regions[i + 1].start = b]
           back == vmm_create_region(cut, a, b, fl)
           rest == vmm_create_region(back, b, r.end, FREE)
           c == [rs EXCEPT ![i].end = a]
<1>1. rs \in Seq(Regions) /\ a \in Nat /\ b \in Nat
  BY Words DEF Works
<1>2. /\ DOMAIN rs = 1 .. Len(rs) /\ Len(rs) \in Nat /\ i \in Nat /\ 1 <= i /\ i <= Len(rs)
      /\ \A j \in DOMAIN rs : /\ rs[j] \in Regions /\ rs[j].start \in Nat /\ rs[j].end \in Nat
                              /\ rs[j].start < rs[j].end
  BY <1>1, LinedFacts, SeqFacts
<1>3. \A j \in DOMAIN rs : /\ j < i => rs[j].start < r.start /\ rs[j].end <= r.start
                           /\ j > i => rs[j].start >= r.end
  <2> TAKE j \in DOMAIN rs
  <2>1. CASE j < i
    <3>1. rs[j].end <= rs[i].start
      BY <1>1, <2>1, LinedOrder
    <3> QED
      BY <1>2, <2>1, <3>1
  <2>2. CASE j > i
    <3>1. rs[i].end <= rs[j].start
      BY <1>1, <2>2, LinedOrder
    <3> QED
      BY <1>2, <2>2, <3>1
  <2> QED
    BY <1>2, <2>1, <2>2
<1>4. Holder(rs, a) = i
  <2> DEFINE h == Holder(rs, a)
  <2>1. /\ h = 0 => \A j \in DOMAIN rs : ~(rs[j].flags = FREE /\ rs[j].start <= a /\ a < rs[j].end)
        /\ h # 0 => /\ h \in DOMAIN rs /\ a < rs[h].end /\ rs[h].start <= a
                    /\ \A j \in DOMAIN rs :
                           rs[j].flags = FREE /\ rs[j].start <= a /\ a < rs[j].end => h <= j
    BY <1>1, HolderFacts
  <2> HIDE DEF h
  <2>2. r.flags = FREE /\ r.start <= a /\ a < r.end
    BY <1>1, <1>2
  <2>3. h # 0 /\ h \in DOMAIN rs /\ h <= i /\ a < rs[h].end
    BY <2>1, <2>2
  <2>4. ~(h < i)
    BY <1>1, <1>2, <1>3, <2>2, <2>3
  <2> QED
    BY <1>2, <2>3, <2>4 DEF h
<1>5. Occupy(s, a, b, fl) =
        CASE i = 0 -> s
          [] i # 0 /\ r.start = a /\ r.end = b -> whole
          [] i # 0 /\ r.start = a /\ r.end # b -> IF front.regions = s.regions THEN front ELSE start
          [] i # 0 /\ r.start # a /\ r.end = b -> back
          [] OTHER -> rest
  BY <1>4, OccupyCases
<1>6. /\ r \in Regions /\ r.start \in Nat /\ r.end \in Nat /\ r.end \in Address /\ r.flags = FREE
      /\ a < r.end /\ r.start < b /\ Placed(r)
  BY <1>1, <1>2, RegionFacts DEF Lined
<1>7. /\ i > 1 => Meets(rs[i - 1], r)
      /\ i + 1 <= Len(rs) => Meets(r, rs[i + 1])
  <2>1. i > 1 => i - 1 \in DOMAIN rs /\ (i - 1) + 1 = i
    BY <1>2
  <2>2. i + 1 <= Len(rs) => i + 1 \in DOMAIN rs
    BY <1>2
  <2> QED
    BY <2>1, <2>2 DEF Lined, Meets
\* What the call puts in: a piece of the region with its flags, or one in use.
<1>8. ASSUME NEW e \in Regions, e.start = a, e.end = b, e.flags = fl
      PROVE  Inside(e, r) /\ \A x : ~BothFree(x, e) /\ ~BothFree(e, x)
  BY <1>8 DEF Inside, BothFree
<1> HIDE DEF cut, whole, front, start, back, rest, c
<1>9. CASE r.start = a /\ r.end = b
  <2> DEFINE ys == [rs EXCEPT ![i].flags = fl]
             e == [r EXCEPT !.flags = fl]
  <2>1. whole.regions = ys /\ Occupy(s, a, b, fl) = whole
    BY <1>2, <1>5, <1>9 DEF whole, Works
  <2>2. Swapped(ys, rs, i, e)
    BY <1>1, SwapFacts
  <2>3. e \in Regions /\ e.start = a /\ e.end = b /\ e.flags = fl
    BY <1>6, <1>9 DEF Regions
  <2> HIDE DEF ys, e
  <2>4. Inside(e, r)
    BY <1>8, <2>3
  <2>5. Lined(ys, {})
    BY <1>1, <2>2, <2>3, <2>4, SwapLined
  <2> QED
    BY <2>1, <2>5
<1>10. CASE r.start = a /\ r.end # b
  <2>0. Occupy(s, a, b, fl) = IF front.regions = rs THEN front ELSE start
    BY <1>2, <1>5, <1>10
  <2>1. /\ front \in Works
        /\ \/ front.regions = rs
           \/ \E e \in Regions : /\ e.start = a /\ e.end = b /\ e.flags = fl
                                 /\ Put(front.regions, rs, i, e)
    <3>1. i \in 1 .. Len(rs) + 1 /\ (i # Len(rs) + 1 => rs[i].start >= a)
      BY <1>2, <1>6, <1>10
    <3>2. \A j \in 1 .. i - 1 : rs[j].start < a
      BY <1>2, <1>3, <1>10
    <3> QED
      BY <3>1, <3>2, CreatePlace DEF front
  <2>2. CASE front.regions = rs
    BY <2>0, <2>2
  <2>3. ASSUME NEW e \in Regions, e.start = a, e.end = b, e.flags = fl, Put(front.regions, rs, i, e)
        PROVE  Lined(start.regions, {})
    <3> DEFINE q == front.regions
               t == [rs EXCEPT ![i].start = b]
               g == [r EXCEPT !.start = b]
               ys == [q EXCEPT ![i + 1].start = b]
    <3>1. Swapped(t, rs, i, g)
      BY <1>1, SwapFacts
    <3>2. g \in Regions /\ g.start = b /\ g.end = r.end /\ g.flags = FREE
      BY <1>6 DEF Regions
    <3>3. Inside(g, r)
      BY <1>1, <1>6, <1>10, <3>2 DEF Inside
    <3>4. start.regions = ys
      BY <2>1 DEF start, Works
    <3>5. /\ q \in Seq(Regions) /\ DOMAIN q = 1 .. Len(rs) + 1 /\ Len(q) = Len(rs) + 1
          /\ q[i + 1] = r /\ i + 1 \in DOMAIN q
          /\ \A j \in 1 .. Len(rs) + 1 :
                 q[j] = IF j < i THEN rs[j] ELSE IF j = i THEN e ELSE rs[j - 1]
      <4>1. /\ q \in Seq(Regions) /\ Len(q) = Len(rs) + 1
            /\ \A j \in 1 .. Len(rs) + 1 :
                   q[j] = IF j < i THEN rs[j] ELSE IF j = i THEN e ELSE rs[j - 1]
        BY <2>3 DEF Put
      <4> HIDE DEF q
      <4>2. DOMAIN q = 1 .. Len(rs) + 1
        BY <4>1, SeqFacts
      <4>3. i + 1 \in 1 .. Len(rs) + 1 /\ ~(i + 1 < i) /\ i + 1 # i /\ (i + 1) - 1 = i
        BY <1>2
      <4> QED
        BY <4>1, <4>2, <4>3
    <3> HIDE DEF q
    <3>6. Swapped(ys, q, i + 1, g)
      BY <3>5, SwapFacts
    <3> HIDE DEF t, g, ys
    <3>7. Lined(t, {}) /\ t \in Seq(Regions) /\ Len(t) = Len(rs)
      <4>1. Lined(t, {})
        BY <1>1, <3>1, <3>2, <3>3, SwapLined
      <4> QED
        BY <3>1, <4>1 DEF Swapped
    <3>8. Put(ys, t, i, e)
      <4>1. ys \in Seq(Regions) /\ Len(ys) = Len(t) + 1
        BY <3>5, <3>6, <3>7 DEF Swapped
      <4>2. ASSUME NEW j \in 1 .. Len(t) + 1
            PROVE  ys[j] = IF j < i THEN t[j] ELSE IF j = i THEN e ELSE t[j - 1]
        <5>1. j \in 1 .. Len(rs) + 1 /\ j \in DOMAIN q
          BY <3>5, <3>7, <4>2
        <5>2. CASE j < i
          <6>1. j \in DOMAIN rs /\ j # i /\ j # i + 1
            BY <1>2, <5>1, <5>2
          <6> QED
            BY <3>1, <3>5, <3>6, <5>1, <5>2, <6>1 DEF Swapped
        <5>3. CASE j = i
          <6>1. j # i + 1 /\ ~(j < i)
            BY <1>2, <5>3
          <6> QED
            BY <3>5, <3>6, <5>1, <5>3, <6>1 DEF Swapped
        <5>4. CASE j = i + 1
          <6>1. j # i /\ ~(j < i) /\ j - 1 = i
            BY <1>2, <5>4
          <6> QED
            BY <3>1, <3>6, <5>4, <6>1 DEF Swapped
        <5>5. CASE j > i + 1
          <6>1. j # i /\ ~(j < i) /\ j # i + 1 /\ j - 1 \in DOMAIN rs /\ j - 1 # i
            BY <1>2, <5>1, <5>5
          <6> QED
            BY <3>1, <3>5, <3>6, <5>1, <6>1 DEF Swapped
        <5> QED
          BY <1>2, <5>1, <5>2, <5>3, <5>4, <5>5
      <4> QED
        BY <4>1, <4>2 DEF Put
    <3>9. Inside(e, r) /\ ~BothFree(e, g)
      BY <1>8, <2>3
    <3>10. Placed(e) /\ \A x \in Regions : Meets(x, r) => Meets(x, e)
      BY <1>6, <2>3, <3>9, InsideFacts
    <3>11. i > 1 => Meets(t[i - 1], e)
      <4>1. i > 1 => i - 1 \in DOMAIN rs /\ i - 1 # i
        BY <1>2
      <4>2. i > 1 => t[i - 1] = rs[i - 1] /\ rs[i - 1] \in Regions
        BY <1>2, <3>1, <4>1 DEF Swapped
      <4> QED
        BY <1>7, <3>10, <4>2
    <3>12. Meets(e, t[i])
      BY <1>1, <2>3, <3>1, <3>2, <3>9 DEF Swapped, Meets, Precedes
    <3>13. i \in 1 .. Len(t) + 1
      BY <1>2, <3>7
    <3>14. Lined(ys, {})
      BY <3>7, <3>8, <3>10, <3>11, <3>12, <3>13, PutLined
    <3> QED
      BY <3>4, <3>14
  <2> QED
    BY <2>0, <2>1, <2>2, <2>3
\* The region is cut; the new one comes after it, and after that the rest.
<1>11. CASE r.start # a
  <2> DEFINE f == [r EXCEPT !.end = a]
             q == back.regions
  <2>1. cut \in Works /\ cut.regions = c
    <3>1. c \in Seq(Regions)
      BY <1>1, EditType DEF c, FREE
    <3>2. cut = [s EXCEPT !.regions = c]
      BY DEF cut, c
    <3> QED
      BY <3>1, <3>2 DEF Works
  <2>2. Swapped(c, rs, i, f)
    BY <1>1, SwapFacts DEF c
  <2>3. f \in Regions /\ f.start = r.start /\ f.end = a /\ f.flags = FREE
    BY <1>6 DEF Regions
  <2>4. r.start < a
    BY <1>1, <1>6, <1>11
  <2> HIDE DEF f
  <2>5. Inside(f, r)
    BY <1>1, <1>6, <2>3, <2>4 DEF Inside
  <2>6. c \in Seq(Regions) /\ Lined(c, {}) /\ Len(c) = Len(rs) /\ c[i] = f
    <3>1. Lined(c, {})
      BY <1>1, <2>2, <2>3, <2>5, SwapLined
    <3> QED
      BY <2>2, <3>1 DEF Swapped
  <2>7. /\ back \in Works
        /\ \/ back.avail = {} /\ q = c
           \/ \E e \in Regions : /\ e.start = a /\ e.end = b /\ e.flags = fl
                                 /\ Put(q, c, i + 1, e)
    <3>1. i + 1 \in 1 .. Len(c) + 1
      BY <1>2, <2>6
    <3>2. i + 1 # Len(c) + 1 => c[i + 1].start >= a
      <4>1. i + 1 # Len(c) + 1 => i + 1 \in DOMAIN rs /\ i + 1 # i
        BY <1>2, <2>6
      <4>2. i + 1 # Len(c) + 1 => c[i + 1] = rs[i + 1] /\ rs[i + 1].start >= r.end
        BY <1>2, <1>3, <2>2, <4>1 DEF Swapped
      <4> QED
        BY <1>1, <1>2, <1>6, <4>1, <4>2
    <3>3. \A j \in 1 .. (i + 1) - 1 : c[j].start < a
      <4> TAKE j \in 1 .. (i + 1) - 1
      <4>1. j = i \/ (j < i /\ j \in DOMAIN rs /\ j # i)
        BY <1>2
      <4>2. CASE j # i
        <5>1. c[j] = rs[j] /\ rs[j].start < r.start /\ rs[j].start \in Nat
          BY <1>2, <1>3, <2>2, <4>1, <4>2 DEF Swapped
        <5> QED
          BY <1>1, <1>6, <2>4, <5>1
      <4> QED
        BY <2>3, <2>4, <2>6, <4>1, <4>2
    <3> QED
      BY <2>1, <3>1, <3>2, <3>3, CreatePlace DEF back
  <2> HIDE DEF q
  <2>8. CASE back.avail = {} /\ q = c
    <3>1. rest = back \/ rest = RanOut(back)
      BY <1>6, <2>7, <2>8, CreateFacts DEF rest, FREE
    <3>2. rest.regions = c
      BY <2>7, <2>8, <3>1, RanOutType DEF q
    <3> QED
      BY <1>2, <1>5, <1>11, <2>6, <2>8, <3>2 DEF q
  <2>9. ASSUME NEW e \in Regions, e.start = a, e.end = b, e.flags = fl, Put(q, c, i + 1, e)
        PROVE  Lined(Occupy(s, a, b, fl).regions, {})
    <3>1. Inside(e, r) /\ \A x : ~BothFree(x, e) /\ ~BothFree(e, x)
      BY <1>8, <2>9
    <3>2. Placed(e) /\ \A x \in Regions : Meets(r, x) => Meets(e, x)
      BY <1>6, <3>1, InsideFacts
    <3>3. i + 1 <= Len(c) => c[i + 1] = rs[i + 1] /\ rs[i + 1] \in Regions
      <4>1. i + 1 <= Len(c) => i + 1 \in DOMAIN rs /\ i + 1 # i
        BY <1>2, <2>6
      <4> QED
        BY <1>2, <2>2, <4>1 DEF Swapped
    <3>4. i + 1 <= Len(c) => Meets(e, c[i + 1])
      BY <1>7, <2>6, <3>2, <3>3
    <3>5. Meets(f, e)
      BY <1>1, <2>3, <2>9, <3>1 DEF Meets, Precedes
    <3>6. i + 1 \in 1 .. Len(c) + 1 /\ (i + 1) - 1 = i
      BY <1>2, <2>6
    <3>7. Lined(q, {})
      BY <2>6, <2>9, <3>2, <3>4, <3>5, <3>6, PutLined
    <3>8. /\ q \in Seq(Regions) /\ Len(q) = Len(rs) + 1 /\ q[i + 1] = e /\ q[i] = f
          /\ DOMAIN q = 1 .. Len(rs) + 1
          /\ \A j \in DOMAIN rs : /\ j < i => q[j] = rs[j]
                                  /\ j > i => q[j + 1] = rs[j]
      <4>1. /\ q \in Seq(Regions) /\ Len(q) = Len(rs) + 1
            /\ \A j \in 1 .. Len(rs) + 1 :
                   q[j] = IF j < i + 1 THEN c[j] ELSE IF j = i + 1 THEN e ELSE c[j - 1]
        BY <2>6, <2>9 DEF Put
      <4>2. i \in 1 .. Len(rs) + 1 /\ i + 1 \in 1 .. Len(rs) + 1 /\ i < i + 1 /\ ~(i + 1 < i + 1)
        BY <1>2
      <4>3. ASSUME NEW j \in DOMAIN rs
            PROVE  /\ j < i => q[j] = rs[j]
                   /\ j > i => q[j + 1] = rs[j]
        <5>1. j \in 1 .. Len(rs) + 1 /\ j + 1 \in 1 .. Len(rs) + 1 /\ (j + 1) - 1 = j
              /\ (j < i => j < i + 1 /\ j # i)
              /\ (j > i => ~(j + 1 < i + 1) /\ j + 1 # i + 1 /\ j # i)
          BY <1>2, <4>3
        <5> QED
          BY <2>2, <4>1, <4>3, <5>1 DEF Swapped
      <4> QED
        BY <2>6, <4>1, <4>2, <4>3, SeqFacts
    <3>9. CASE r.end = b
      BY <1>2, <1>5, <1>11, <3>7, <3>9 DEF q
    <3>10. CASE r.end # b
      <4> DEFINE qs == rest.regions
      <4>1. Occupy(s, a, b, fl) = rest /\ b < r.end
        BY <1>1, <1>2, <1>5, <1>6, <1>11, <3>10
      <4>2. i + 2 \in 1 .. Len(q) + 1 /\ (i + 2) - 1 = i + 1
        BY <1>2, <3>8
      <4>3. i + 2 # Len(q) + 1 => /\ i + 1 \in DOMAIN rs /\ q[i + 2] = rs[i + 1]
                                  /\ rs[i + 1].start >= r.end /\ i + 1 <= Len(rs)
        <5>1. i + 2 # Len(q) + 1 => i + 1 \in DOMAIN rs /\ i + 1 > i /\ (i + 1) + 1 = i + 2
          BY <1>2, <3>8
        <5> QED
          BY <1>2, <1>3, <3>8, <5>1
      <4>4. i + 2 # Len(q) + 1 => q[i + 2].start >= b
        BY <1>1, <1>2, <1>6, <4>1, <4>3
      <4>5. \A j \in 1 .. (i + 2) - 1 : q[j].start < b
        <5> TAKE j \in 1 .. (i + 2) - 1
        <5>1. j = i + 1 \/ j = i \/ (j < i /\ j \in DOMAIN rs)
          BY <1>2
        <5>2. CASE j < i /\ j \in DOMAIN rs
          <6>1. q[j] = rs[j] /\ rs[j].start < r.start /\ rs[j].start \in Nat
            BY <1>2, <1>3, <3>8, <5>2
          <6> QED
            BY <1>1, <1>6, <6>1
        <5>3. CASE j = i
          BY <1>6, <2>3, <3>8, <5>3
        <5>4. CASE j = i + 1
          BY <2>9, <3>8, <5>4
        <5> QED
          BY <5>1, <5>2, <5>3, <5>4
      <4>6. \/ qs = q
            \/ \E g \in Regions : /\ g.start = b /\ g.end = r.end /\ g.flags = FREE
                                  /\ Put(qs, q, i + 2, g)
        <5>1. FREE \in SUBSET RegionFlags /\ q = back.regions
          BY DEF FREE, q
        <5> QED
          BY <1>6, <2>7, <4>1, <4>2, <4>4, <4>5, <5>1, CreatePlace DEF rest
      <4>7. CASE qs = q
        BY <3>7, <4>1, <4>7
      <4>8. ASSUME NEW g \in Regions, g.start = b, g.end = r.end, g.flags = FREE,
                   Put(qs, q, i + 2, g)
            PROVE  Lined(qs, {})
        <5>1. Inside(g, r)
          BY <1>1, <1>6, <4>1, <4>8 DEF Inside
        <5>2. Placed(g) /\ \A x \in Regions : Meets(r, x) => Meets(g, x)
          BY <1>6, <4>8, <5>1, InsideFacts
        <5>3. i + 2 <= Len(q) => Meets(g, q[i + 2])
          <6>1. i + 2 <= Len(q) => i + 2 # Len(q) + 1
            BY <1>2, <3>8
          <6> QED
            BY <1>2, <1>7, <4>3, <5>2, <6>1
        <5>4. Meets(q[i + 1], g)
          BY <1>1, <2>9, <3>1, <3>8, <4>8 DEF Meets, Precedes
        <5> HIDE DEF qs
        <5> QED
          BY <3>7, <3>8, <4>2, <4>8, <5>2, <5>3, <5>4, PutLined
      <4> HIDE DEF qs
      <4> QED
        BY <4>1, <4>6, <4>7, <4>8 DEF qs
    <3> QED
      BY <3>9, <3>10
  <2> QED
    BY <2>7, <2>8, <2>9
<1> QED
  BY <1>9, <1>10, <1>11

\* A region that becomes free may meet free ones on both sides.
LEMMA MarkLined ==
    ASSUME NEW rs \in Seq(Regions), Lined(rs, {}), NEW i \in DOMAIN rs, NEW r,
           r.start = rs[i].start, r.end = rs[i].end, NEW qs, Swapped(qs, rs, i, r)
    PROVE  Lined(qs, {i - 1, i})
<1>1. DOMAIN rs = 1 .. Len(rs) /\ Len(rs) \in Nat /\ DOMAIN qs = DOMAIN rs
  BY SeqFacts DEF Swapped
<1>2. qs[i] = r /\ \A j \in DOMAIN rs : j # i => qs[j] = rs[j]
  BY DEF Swapped
<1>3. \A k \in DOMAIN rs : Placed(qs[k]) /\ (k + 1 \in DOMAIN rs => Precedes(qs[k], qs[k + 1]))
  BY <1>1, <1>2 DEF Lined, Placed, Precedes
<1>4. ASSUME NEW k \in DOMAIN rs, k + 1 \in DOMAIN rs, BothFree(qs[k], qs[k + 1]), k # i
      PROVE  k = i - 1
  <2>1. CASE k + 1 = i
    BY <1>1, <2>1
  <2>2. CASE k + 1 # i
    <3>1. BothFree(rs[k], rs[k + 1])
      BY <1>2, <1>4, <2>2
    <3> QED
      BY <1>4, <3>1 DEF Lined
  <2> QED
    BY <2>1, <2>2
<1> QED
  BY <1>1, <1>3, <1>4 DEF Lined

LEMMA ReleaseLined ==
    ASSUME NEW s \in Works, NEW rs, rs = s.regions, Lined(rs, {}), NEW i \in DOMAIN rs
    PROVE  Lined(Release(s, i).regions, {})
<1> DEFINE f == [s EXCEPT !.regions[i].flags = FREE]
           fs == [rs EXCEPT ![i].flags = FREE]
           r == [rs[i] EXCEPT !.flags = FREE]
           left == i > 1 /\ f.regions[i - 1].flags = FREE
           g == Absorb(f, i - 1)
           m == IF left THEN g ELSE f
           j == IF left THEN i - 1 ELSE i
           right == j < Len(m.regions) /\ m.regions[j + 1].flags = FREE
<1>1. Release(s, i) = IF right THEN Absorb(m, j) ELSE m
  BY DEF Release
<1>2. rs \in Seq(Regions) /\ FREE \in SUBSET RegionFlags /\ 0 \in Address
  BY Words DEF FREE, Works
<1>3. f \in Works /\ f.regions = fs
  <2>1. FREE \in SUBSET RegionFlags
    BY <1>2
  <2> HIDE DEF f
  <2>2. f \in Works /\ f.regions = [s.regions EXCEPT ![i].flags = FREE]
    BY <2>1, SetFlags DEF f
  <2> QED
    BY <2>2
<1>4. Swapped(fs, rs, i, r)
  BY <1>2, SwapFacts
<1>5. rs[i] \in Regions
  BY <1>2, SeqFacts
<1>6. r.start = rs[i].start /\ r.end = rs[i].end /\ r.flags = FREE
  BY <1>5 DEF Regions
<1> HIDE DEF f, fs, r
<1>7. Lined(fs, {i - 1, i})
  BY <1>2, <1>4, <1>6, MarkLined
<1>8. /\ fs \in Seq(Regions) /\ DOMAIN fs = 1 .. Len(fs) /\ Len(fs) \in Nat
      /\ i \in Nat \ {0} /\ i <= Len(fs) /\ i \in DOMAIN fs /\ fs[i].flags = FREE
  <2>1. fs \in Seq(Regions) /\ Len(fs) = Len(rs) /\ fs[i].flags = FREE
    BY <1>4, <1>6 DEF Swapped
  <2> QED
    BY <1>2, <2>1, SeqFacts
\* The joined pair on the left: what is left of the two places is the right one.
<1>9. ASSUME left
      PROVE  /\ m \in Works /\ Lined(m.regions, {j}) /\ j \in DOMAIN m.regions
             /\ m.regions[j].flags = FREE
  <2>1. m = g /\ j = i - 1 /\ i > 1 /\ fs[i - 1].flags = FREE
    BY <1>3, <1>9
  <2> DEFINE h == i - 1
             ys == RemoveAt([fs EXCEPT ![h].end = fs[h + 1].end], h + 1)
  <2>2. /\ h \in Nat /\ h + 1 = i /\ h \in DOMAIN fs /\ h + 1 \in DOMAIN fs
        /\ \A k \in DOMAIN fs : /\ k < h /\ k \in {h, i} => k \in {h}
                                /\ k > h /\ k \in {h, i} => k - 1 \in {h}
    BY <1>8, <2>1
  <2>3. g = Absorb(f, h) /\ Lined(fs, {h, i}) /\ fs[h].flags = FREE
    BY <1>7, <2>1
  <2>4. m = g /\ j = h
    BY <2>1
  <2> HIDE DEF m, g, j, left, h
  <2>5. g \in Works /\ Len(g.regions) = Len(fs) - 1 /\ g.regions = ys
    BY <1>3, <2>2, <2>3, AbsorbType
  <2>6. fs[h].flags = fs[h + 1].flags
    BY <1>8, <2>2, <2>3
  <2>7. Lined(ys, {h}) /\ ys[h].flags = fs[h].flags
    BY <1>8, <2>2, <2>3, <2>6, LinedJoin
  <2> HIDE DEF ys
  <2>8. h \in DOMAIN g.regions
    <3>1. g.regions \in Seq(Regions)
      BY <2>5 DEF Works
    <3>2. DOMAIN g.regions = 1 .. Len(fs) - 1
      BY <2>5, <3>1, SeqFacts
    <3>3. h \in 1 .. Len(fs) - 1
      BY <1>8, <2>2
    <3> QED
      BY <3>2, <3>3
  <2> QED
    BY <2>3, <2>4, <2>5, <2>7, <2>8
<1>10. ASSUME ~left
       PROVE  /\ m \in Works /\ Lined(m.regions, {j}) /\ j \in DOMAIN m.regions
              /\ m.regions[j].flags = FREE
  <2>1. m = f /\ j = i
    BY <1>10
  <2>2. i > 1 => fs[i - 1].flags # FREE
    BY <1>3, <1>10
  <2> HIDE DEF m, g, j, left
  <2>3. ASSUME NEW k \in DOMAIN fs, k = i - 1
        PROVE  ~BothFree(fs[k], fs[k + 1])
    <3>1. i > 1
      BY <1>8, <2>3
    <3> QED
      BY <2>2, <2>3, <3>1 DEF BothFree
  <2>4. Lined(fs, {i})
    BY <1>7, <2>3 DEF Lined
  <2> QED
    BY <1>3, <1>8, <2>1, <2>4
<1>11. /\ m \in Works /\ Lined(m.regions, {j}) /\ j \in DOMAIN m.regions
       /\ m.regions[j].flags = FREE
  BY <1>9, <1>10
<1> HIDE DEF m, g, j, left
<1> DEFINE ms == m.regions
<1>12. /\ ms \in Seq(Regions) /\ DOMAIN ms = 1 .. Len(ms) /\ Len(ms) \in Nat
       /\ j \in Nat \ {0} /\ j <= Len(ms) /\ (j + 1 \in DOMAIN ms <=> j < Len(ms))
  <2>1. ms \in Seq(Regions)
    BY <1>11 DEF Works
  <2> HIDE DEF ms
  <2>2. DOMAIN ms = 1 .. Len(ms) /\ Len(ms) \in Nat
    BY <2>1, SeqFacts
  <2>3. j \in 1 .. Len(ms)
    BY <1>11, <2>2 DEF ms
  <2> QED
    BY <2>1, <2>2, <2>3
<1>13. CASE right
  <2>1. /\ Release(s, i) = Absorb(m, j) /\ j \in DOMAIN ms /\ j + 1 \in DOMAIN ms
        /\ ms[j + 1].flags = FREE
    BY <1>1, <1>11, <1>12, <1>13
  <2>2. Absorb(m, j).regions = RemoveAt([ms EXCEPT ![j].end = ms[j + 1].end], j + 1)
    BY <1>11, <1>12, <2>1, AbsorbType
  <2>3. \A k \in DOMAIN ms : /\ k < j /\ k \in {j} => k \in {}
                             /\ k > j /\ k \in {j} => k - 1 \in {}
    BY <1>12
  <2>4. Lined(ms, {j}) /\ ms[j].flags = ms[j + 1].flags
    BY <1>11, <2>1
  <2> HIDE DEF ms
  <2>5. Lined(RemoveAt([ms EXCEPT ![j].end = ms[j + 1].end], j + 1), {})
    BY <1>12, <2>1, <2>3, <2>4, LinedJoin
  <2> QED
    BY <2>1, <2>2, <2>5
<1>14. CASE ~right
  <2>1. j + 1 \in DOMAIN ms => ~BothFree(ms[j], ms[j + 1])
    BY <1>12, <1>14 DEF BothFree
  <2>2. Lined(ms, {})
    BY <1>11, <2>1 DEF Lined
  <2> QED
    BY <1>1, <1>14, <2>2
<1> QED
  BY <1>13, <1>14

-----------------------------------------------------------------------------
(* Areas lie apart in every plain space *)

Neat(space) == space.plain => Lined(space.regions, {})
AllNeat(sp) == \A as \in DOMAIN sp \ {Kernel} : Neat(sp[as])

LEMMA CommitNeat ==
    ASSUME AllNeat(spaces), NEW s, NEW new, NEW op, NEW as, NEW ok, NEW a, NEW n,
           Commit(s, new, op, as, ok, a, n), s.fate = "runs" => AllNeat(new)
    PROVE  AllNeat(spaces')
<1>1. (spaces' = new /\ s.fate = "runs") \/ spaces' = spaces
  BY DEF Commit
<1> QED
  BY <1>1

LEMMA WithNeat ==
    ASSUME AllNeat(spaces), NEW as, NEW space, as # Kernel => Neat(space)
    PROVE  AllNeat(With(as, space))
BY DEF With, AllNeat

LEMMA WithinNeat ==
    ASSUME AllNeat(spaces), NEW as, NEW space \in Spaces, NEW s,
           as # Kernel /\ space.plain => Lined(s.regions, {}),
           NEW op, NEW ok, NEW a, NEW n, Within(op, as, s, space, ok, a, n)
    PROVE  AllNeat(spaces')
<1> DEFINE e == Ended(s, space, ok)
<1>1. Commit(s, With(as, e), op, as, ok, a, n)
  BY DEF Within, Ended
<1>2. e.plain = space.plain /\ e.regions = s.regions
  BY DEF Ended, Spaces
<1> HIDE DEF e
<1>3. AllNeat(With(as, e))
  <2>1. as # Kernel => Neat(e)
    BY <1>2 DEF Neat
  <2> QED
    BY <2>1, WithNeat
<1> QED
  BY <1>1, <1>3, CommitNeat

\* A call that leaves the list as it is.
LEMMA SameNeat ==
    ASSUME AllNeat(spaces), NEW as \in DOMAIN spaces, NEW space \in Spaces, NEW s,
           s.regions = spaces[as].regions, space.plain => spaces[as].plain,
           NEW op, NEW ok, NEW a, NEW n, Within(op, as, s, space, ok, a, n)
    PROVE  AllNeat(spaces')
<1>1. as # Kernel /\ space.plain => Lined(s.regions, {})
  BY DEF AllNeat, Neat
<1> QED
  BY <1>1, WithinNeat

LEMMA RefusedNeat ==
    ASSUME TypeOK, AllNeat(spaces), NEW as \in DOMAIN spaces, NEW op, Refused(op, as)
    PROVE  AllNeat(spaces')
<1>1. spaces[as] \in Spaces
  BY TypedFacts DEF Typed
<1>2. Start(as).regions = spaces[as].regions
  BY StartType
<1> QED
  BY <1>1, <1>2, SameNeat DEF Refused

\* A call after which the space is not plain.
LEMMA MixedNeat ==
    ASSUME TypeOK, AllNeat(spaces), NEW as \in DOMAIN spaces, NEW s, NEW op, NEW ok, NEW a, NEW n,
           NEW h \in Address, NEW b \in Address, NEW c \in Address
    PROVE  /\ Within(op, as, s, Mixed(as), ok, a, n) => AllNeat(spaces')
           /\ Within(op, as, s, [Mixed(as) EXCEPT !.heap_end = h], ok, a, n) => AllNeat(spaces')
           /\ Within(op, as, s, [Mixed(as) EXCEPT !.stack_start = b, !.stack_end = c], ok, a, n)
                  => AllNeat(spaces')
<1>1. Mixed(as) \in Spaces /\ ~Mixed(as).plain
  BY PlainType DEF Typed
<1>2. [Mixed(as) EXCEPT !.heap_end = h] \in Spaces /\ ~[Mixed(as) EXCEPT !.heap_end = h].plain
  BY <1>1 DEF Spaces
<1>3. /\ [Mixed(as) EXCEPT !.stack_start = b, !.stack_end = c] \in Spaces
      /\ ~[Mixed(as) EXCEPT !.stack_start = b, !.stack_end = c].plain
  BY <1>1 DEF Spaces
<1>4. ASSUME NEW space \in Spaces, ~space.plain, Within(op, as, s, space, ok, a, n)
      PROVE  AllNeat(spaces')
  BY <1>4, WithinNeat
<1> QED
  BY <1>1, <1>2, <1>3, <1>4

LEMMA CreateNeat ==
    ASSUME TypeOK, AllNeat(spaces), Create
    PROVE  AllNeat(spaces')
<1> DEFINE c == Created(Idle)
           sp == IF c.as = NULL THEN spaces ELSE With(c.as, c.space)
<1>1. Commit(c.s, sp, "create", c.as, c.as # NULL, 0, 0)
  BY DEF Create
<1>2. c.as # NULL => Neat(c.space)
  <2>1. ASSUME NEW f \in Frames
        PROVE  Lined(<<Region(USER_SPACE_START, USER_SPACE_END, FREE, f)>>, {})
    <3> DEFINE r == Region(USER_SPACE_START, USER_SPACE_END, FREE, f)
    <3>1. Placed(r)
      BY UserAddress, Words DEF Placed, Region
    <3> HIDE DEF r
    <3>2. DOMAIN <<r>> = {1} /\ <<r>>[1] = r /\ 1 + 1 \notin {1}
      OBVIOUS
    <3>3. Lined(<<r>>, {})
      BY <3>1, <3>2 DEF Lined
    <3> QED
      BY <3>3 DEF r
  <2>2. Lined(<<>>, {})
    BY DEF Lined
  <2>3. \A rs, pml4 : Lined(rs, {}) => Neat(NewSpace(pml4, rs))
    BY DEF Neat, NewSpace
  <2>4. c.as # NULL => \/ \E pml4 : c.space = NewSpace(pml4, <<>>)
                       \/ \E pml4 : \E f \in Frames : c.space = NewSpace(pml4,
                              <<Region(USER_SPACE_START, USER_SPACE_END, FREE, f)>>)
    <3>1. Idle \in Works
      BY IdleType
    <3> DEFINE s1 == Take(Idle)
               pml4 == Fresh(s1)
               s2 == Take(s1)
               s3 == [s2 EXCEPT !.mem[pml4] = UpperHalf(Idle.mem[KernelPml4])]
    <3>2. \/ c.as = NULL
          \/ s3 \in Works /\ c.space = NewSpace(pml4, <<>>)
          \/ /\ s3 \in Works /\ s3.avail # {}
             /\ c.space = NewSpace(pml4,
                   <<Region(USER_SPACE_START, USER_SPACE_END, FREE, Fresh(s3))>>)
      BY <3>1, CreatedCases
    <3> HIDE DEF c, s3, pml4
    <3>3. s3 \in Works /\ s3.avail # {} => Fresh(s3) \in Frames
      BY FreshIn
    <3>4. CASE s3 \in Works /\ c.space = NewSpace(pml4, <<>>)
      BY <3>4
    <3>5. CASE /\ s3 \in Works /\ s3.avail # {}
               /\ c.space = NewSpace(pml4,
                     <<Region(USER_SPACE_START, USER_SPACE_END, FREE, Fresh(s3))>>)
      <4> DEFINE f == Fresh(s3)
      <4>1. f \in Frames
        BY <3>3, <3>5
      <4>2. c.space = NewSpace(pml4, <<Region(USER_SPACE_START, USER_SPACE_END, FREE, f)>>)
        BY <3>5
      <4> HIDE DEF f
      <4> QED
        BY <4>1, <4>2
    <3> QED
      BY <3>2, <3>4, <3>5
  <2> HIDE DEF c
  <2> QED
    BY <2>1, <2>2, <2>3, <2>4
<1> HIDE DEF c
<1>3. AllNeat(sp)
  BY <1>2, WithNeat
<1> HIDE DEF sp
<1> QED
  BY <1>1, <1>3, CommitNeat

LEMMA CloneNeat ==
    ASSUME TypeOK, AllNeat(spaces), NEW src \in DOMAIN spaces, Clone(src)
    PROVE  AllNeat(spaces')
<1> DEFINE c == Created(Idle)
           t == CopyTables([c.s EXCEPT !.ran = FALSE], spaces[src].pml4, c.space.pml4)
           clone == [spaces[src] EXCEPT !.pml4 = c.space.pml4, !.regions = c.space.regions,
                                        !.plain = FALSE]
           gone == Destroyed(t, c.as, c.space)
<1>1. IF c.as = NULL
        THEN Commit(c.s, spaces, "clone", src, FALSE, 0, 0)
        ELSE IF t.ran THEN Commit(gone, spaces, "clone", src, FALSE, 0, 0)
        ELSE Commit(t, With(c.as, clone), "clone", src, TRUE, 0, 0)
  BY DEF Clone
<1>2. spaces[src] \in Spaces
  BY TypedFacts DEF Typed
<1> HIDE DEF c, t
<1>3. Neat(clone)
  BY <1>2 DEF Neat, Spaces
<1> HIDE DEF clone, gone
<1>4. AllNeat(With(c.as, clone))
  BY <1>3, WithNeat
<1> QED
  BY <1>1, <1>4, CommitNeat

LEMMA DestroyNeat ==
    ASSUME AllNeat(spaces), NEW as \in DOMAIN spaces, Destroy(as)
    PROVE  AllNeat(spaces')
<1> DEFINE sp == [q \in DOMAIN spaces \ {as} |-> spaces[q]]
<1>1. AllNeat(sp)
  BY DEF AllNeat
<1> HIDE DEF sp
<1> QED
  BY <1>1, CommitNeat DEF Destroy, sp

LEMMA UpFurther ==
    ASSUME NEW a \in Address, align_up(a) # 0
    PROVE  a <= align_up(a)
<1> DEFINE x == a + PAGE - 1
<1>1. a \in Nat /\ a < WORD /\ PAGE \in Nat \ {0} /\ WORD \in Nat \ {0} /\ x \in Nat
  BY Words, Geometry DEF Address
<1>2. align_up(a) = (x % WORD) - ((x % WORD) % PAGE)
  BY DEF align_up, align_down
<1> HIDE DEF x
<1>3. CASE x < WORD
  <2>1. x % WORD = x
    <3>1. x \in 0 .. WORD - 1 /\ 0 \in Nat /\ WORD * 0 + x = x
      BY <1>1, <1>3
    <3> QED
      BY <1>1, <3>1, DivisionUnique
  <2>2. x % PAGE \in 0 .. PAGE - 1
    BY <1>1, Division
  <2> QED
    BY <1>1, <1>2, <2>1, <2>2 DEF x
<1>4. CASE x >= WORD
  <2> DEFINE y == x - WORD
  <2>1. y \in Nat /\ y < PAGE /\ y < WORD
    BY <1>1, <1>4, GeometryAssumption DEF x
  <2>0. WORD * 1 + y = x
    BY <1>1
  <2> HIDE DEF y
  <2>2. x % WORD = y
    <3>1. y \in 0 .. WORD - 1 /\ 1 \in Nat
      BY <1>1, <2>1
    <3> QED
      BY <1>1, <2>0, <3>1, DivisionUnique
  <2>3. y % PAGE = y
    <3>1. y \in 0 .. PAGE - 1 /\ 0 \in Nat /\ PAGE * 0 + y = y
      BY <1>1, <2>1
    <3> QED
      BY <1>1, <3>1, DivisionUnique
  <2> QED
    BY <1>2, <2>1, <2>2, <2>3
<1> QED
  BY <1>1, <1>3, <1>4

LEMMA AllocNeat ==
    ASSUME TypeOK, AllNeat(spaces), NEW as \in DOMAIN spaces, NEW addr \in Addresses \cup {0},
           NEW count \in Counts, NEW fl \in Flags, Alloc(as, addr, count, fl)
    PROVE  AllNeat(spaces')
<1> DEFINE pml4 == spaces[as].pml4
           n == PagesIn(count)
           virt == IF addr = 0 THEN vmm_find_free_region(spaces[as].regions, n * PAGE)
                               ELSE align_down(addr)
           taken == addr # 0 /\ vmm_find_region(spaces[as].regions, virt) # 0
           s == Back(Start(as), pml4, virt, n, PageFlags(fl))
           space == IF addr = 0 THEN spaces[as] ELSE Mixed(as)
           undone == Rollback(s, pml4, virt)
           end == virt + n * PAGE
           got == Occupy(s, virt, end, fl)
           rs == spaces[as].regions
<1>1. IF virt = 0 \/ taken THEN Refused("alloc", as)
      ELSE IF s.count < n THEN Within("alloc", as, undone, space, FALSE, virt, n)
      ELSE Within("alloc", as, got, space, TRUE, virt, n)
  BY DEF Alloc
<1>2. /\ virt \in Address /\ n \in Nat \ {0} /\ n * PAGE \in Address
      /\ addr = 0 /\ virt # 0 =>
             /\ virt + n * PAGE \in Address
             /\ \E i \in DOMAIN rs :
                    /\ rs[i].flags = FREE /\ virt = align_up(rs[i].start)
                    /\ virt + n * PAGE <= rs[i].end
  BY AllocPlace
<1>3. pml4 \in Memory /\ Typed(as, spaces[as]) /\ rs \in Seq(Regions)
  BY TypedFacts
<1>4. Typed(as, Mixed(as)) /\ ~Mixed(as).plain
  BY PlainType
<1> HIDE DEF n, virt, pml4, rs
<1>5. s \in Works /\ s.regions = rs
  <2> DEFINE b == Start(as)
             rt == PageFlags(fl)
             x == Back(b, pml4, virt, n, rt)
  <2>1. b \in Works /\ b.regions = spaces[as].regions /\ rt \in SUBSET Rights
    BY StartType, PageFlagsType
  <2> HIDE DEF b, rt
  <2>2. x \in Works /\ x.regions = b.regions /\ x.fate = b.fate /\ x.avail \subseteq b.avail
    BY <1>2, <1>3, <2>1, BackType
  <2> QED
    BY <2>1, <2>2 DEF b, rt, rs
<1> HIDE DEF s
<1>6. undone.regions = rs
  <2>1. s.count \in Nat
    BY <1>5 DEF Works
  <2> QED
    BY <1>2, <1>3, <1>5, <2>1, DropsType DEF Rollback
<1> HIDE DEF end
\* The free region that was found takes in the whole span.
<1>7. ASSUME addr = 0, virt # 0, Lined(rs, {})
      PROVE  Lined(got.regions, {})
  <2>1. PICK i \in DOMAIN rs :
            rs[i].flags = FREE /\ virt = align_up(rs[i].start) /\ virt + n * PAGE <= rs[i].end
    BY <1>2, <1>7
  <2>2. end \in Address /\ virt < end
    <3> DEFINE bytes == n * PAGE
    <3>1. bytes # 0
      BY <1>2, Geometry
    <3>2. bytes \in Nat /\ virt \in Nat /\ virt + bytes \in Address
      BY <1>2, <1>7, Words
    <3> HIDE DEF bytes
    <3>3. virt < virt + bytes
      BY <3>1, <3>2
    <3> QED
      BY <3>2, <3>3 DEF end, bytes
  <2>3. rs[i].start <= virt
    <3>1. rs[i] \in Regions
      BY <1>3, <2>1, SeqFacts
    <3>2. rs[i].start \in Address
      BY <3>1, RegionFacts
    <3> QED
      BY <1>7, <2>1, <3>2, UpFurther
  <2>4. end <= rs[i].end
    BY <2>1 DEF end
  <2>5. fl \in SUBSET RegionFlags /\ fl # FREE
    BY CallArguments
  <2> QED
    BY <1>2, <1>5, <1>7, <2>1, <2>2, <2>3, <2>4, <2>5, OccupyLined
<1> HIDE DEF got, undone, taken
<1>8. CASE virt = 0 \/ taken
  BY <1>1, <1>8, RefusedNeat
<1>9. CASE ~(virt = 0 \/ taken) /\ s.count < n
  <2>1. Within("alloc", as, undone, space, FALSE, virt, n)
    BY <1>1, <1>9
  <2>2. space \in Spaces /\ (space.plain => spaces[as].plain)
    BY <1>3, <1>4 DEF Typed
  <2> HIDE DEF space
  <2> QED
    BY <1>6, <2>1, <2>2, SameNeat DEF rs
<1>10. CASE ~(virt = 0 \/ taken) /\ ~(s.count < n)
  <2>1. Within("alloc", as, got, space, TRUE, virt, n)
    BY <1>1, <1>10
  <2>2. space \in Spaces
    BY <1>3, <1>4 DEF Typed
  <2>3. as # Kernel /\ space.plain => Lined(got.regions, {})
    <3>1. CASE addr = 0
      <4>1. as # Kernel /\ space.plain => Lined(rs, {})
        BY <3>1 DEF AllNeat, Neat, rs
      <4> QED
        BY <1>7, <1>10, <3>1, <4>1
    <3>2. CASE addr # 0
      BY <1>4, <3>2
    <3> QED
      BY <3>1, <3>2
  <2> HIDE DEF space
  <2> QED
    BY <2>1, <2>2, <2>3, WithinNeat
<1> QED
  BY <1>8, <1>9, <1>10

LEMMA FreeNeat ==
    ASSUME TypeOK, AllNeat(spaces), NEW as \in DOMAIN spaces, NEW addr \in Addresses,
           NEW count \in Counts, Free(as, addr, count)
    PROVE  AllNeat(spaces')
<1> DEFINE n == PagesIn(count)
           s == DropPages(Start(as), spaces[as].pml4, addr, n)
           i == vmm_find_region(s.regions, addr)
           t == IF i = 0 THEN s ELSE Release(s, i)
           space == OfWhole(as, addr, n)
<1>1. Within("free", as, t, space, TRUE, addr, n)
  BY DEF Free
<1>2. n \in Nat /\ addr \in Address
  BY CallArguments, PageCounts
<1> HIDE DEF n
<1>3. s \in Works /\ s.regions = spaces[as].regions
  <2> DEFINE b == Start(as)
  <2>1. b \in Works /\ b.regions = spaces[as].regions /\ spaces[as].pml4 \in Memory
    BY StartType, TypedFacts
  <2> HIDE DEF b
  <2>2. DropPages(b, spaces[as].pml4, addr, n) \in Works
        /\ DropPages(b, spaces[as].pml4, addr, n).regions = b.regions
    BY <1>2, <2>1, DropsType
  <2> QED
    BY <2>1, <2>2 DEF b
<1> HIDE DEF s
<1>4. i # 0 => i \in DOMAIN s.regions
  <2>1. s.regions \in Seq(Regions)
    BY <1>3 DEF Works
  <2> QED
    BY <2>1, RegionFound
<1> HIDE DEF i
<1>5. space \in Spaces /\ (space.plain => spaces[as].plain)
  BY PlainType DEF Typed
<1> HIDE DEF space
<1>6. as # Kernel /\ space.plain => Lined(s.regions, {})
  BY <1>3, <1>5 DEF AllNeat, Neat
<1>7. as # Kernel /\ space.plain => Lined(t.regions, {})
  BY <1>3, <1>4, <1>6, ReleaseLined
<1> HIDE DEF t
<1> QED
  BY <1>1, <1>5, <1>7, WithinNeat

LEMMA ProtectNeat ==
    ASSUME TypeOK, AllNeat(spaces), NEW as \in DOMAIN spaces, NEW addr \in Addresses,
           NEW size \in Counts, NEW fl \in Flags, Protect(as, addr, size, fl)
    PROVE  AllNeat(spaces')
<1> DEFINE virt == align_down(addr)
           n == align_up(size) \div PAGE
           s == ReprotectEach(Start(as), spaces[as].pml4, virt, n, PageFlags(fl))
           i == vmm_find_region(s.regions, virt)
           new == (s.regions[i].flags \ {"read", "write", "exec"}) \cup fl
           f == [s EXCEPT !.regions[i].flags = (@ \ {"read", "write", "exec"}) \cup fl]
           t == IF i = 0 THEN s ELSE f
           space == OfWhole(as, virt, n)
           rs == spaces[as].regions
           r == [rs[i] EXCEPT !.flags = new]
           qs == [rs EXCEPT ![i].flags = new]
<1>1. Within("protect", as, t, space, TRUE, virt, n)
  BY DEF Protect
<1>2. virt \in Address /\ n \in Nat
  BY CallArguments, Words, SizePages
<1> HIDE DEF virt, n
<1>3. s \in Works /\ s.regions = rs
  <2> DEFINE b == Start(as)
             p == spaces[as].pml4
             rt == PageFlags(fl)
             x == ReprotectEach(b, p, virt, n, rt)
  <2>1. b \in Works /\ b.regions = rs /\ p \in Memory /\ rt \in SUBSET Rights
    BY StartType, TypedFacts, PageFlagsType
  <2> HIDE DEF b, p, rt
  <2>2. x \in Works /\ x.regions = b.regions
    BY <1>2, <2>1, ReprotectsType
  <2> QED
    BY <2>1, <2>2 DEF b, p, rt
<1> HIDE DEF s
<1>4. rs \in Seq(Regions) /\ (i # 0 => i \in DOMAIN rs)
  <2>1. s.regions \in Seq(Regions)
    BY <1>3 DEF Works
  <2> QED
    BY <1>3, <2>1, RegionFound
<1> HIDE DEF i
<1>5. i # 0 => /\ rs[i] \in Regions /\ new \in SUBSET RegionFlags /\ new # FREE
  <2>1. i # 0 => rs[i] \in Regions
    BY <1>4, SeqFacts
  <2>2. i # 0 => s.regions[i].flags \in SUBSET RegionFlags
    BY <1>3, <2>1 DEF Regions
  <2> QED
    BY <2>1, <2>2, CallArguments DEF FREE
<1>6. i # 0 => f = [s EXCEPT !.regions = qs]
  BY <1>3, <1>4 DEF Works
<1>7. space \in Spaces /\ (space.plain => spaces[as].plain)
  BY PlainType DEF Typed
<1> HIDE DEF space
<1>8. as # Kernel /\ space.plain => Lined(rs, {})
  BY <1>7 DEF AllNeat, Neat
<1> HIDE DEF new, f, rs
<1>9. ASSUME i # 0, Lined(rs, {})
      PROVE  Lined(f.regions, {})
  <2>1. Swapped(qs, rs, i, r)
    BY <1>4, <1>5, <1>9, Words, SwapFacts
  <2>2. r \in Regions /\ Inside(r, rs[i])
    <3>1. r \in Regions /\ r.start = rs[i].start /\ r.end = rs[i].end /\ r.flags = new
      BY <1>5, <1>9 DEF Regions
    <3> HIDE DEF r
    <3>2. rs[i].start < rs[i].end /\ rs[i].start \in Nat /\ rs[i].end \in Nat
      BY <1>4, <1>9, LinedFacts
    <3> QED
      BY <1>5, <1>9, <3>1, <3>2 DEF Inside
  <2> HIDE DEF r, qs
  <2>3. Lined(qs, {})
    BY <1>4, <1>9, <2>1, <2>2, SwapLined
  <2>4. f.regions = qs
    BY <1>3, <1>6, <1>9 DEF Works
  <2> QED
    BY <2>3, <2>4
<1>10. as # Kernel /\ space.plain => Lined(t.regions, {})
  BY <1>3, <1>8, <1>9
<1> HIDE DEF t
<1> QED
  BY <1>1, <1>7, <1>10, WithinNeat

LEMMA BrkNeat ==
    ASSUME TypeOK, AllNeat(spaces), NEW as \in DOMAIN spaces, NEW end \in Address, Brk(as, end)
    PROVE  AllNeat(spaces')
<1> DEFINE sp == spaces[as]
           new == align_up(end)
           up == IF new > sp.heap_end THEN (new - sp.heap_end) \div PAGE ELSE 0
           down == IF new < sp.heap_end THEN (sp.heap_end - new) \div PAGE ELSE 0
           s == IF up > 0 THEN Back(Start(as), sp.pml4, sp.heap_end, up, {"w", "u"})
                ELSE DropPages(Start(as), sp.pml4, new, down)
           moved == [Mixed(as) EXCEPT !.heap_end = new]
           from == IF up > 0 THEN sp.heap_end ELSE new
<1>1. IF BelowHeap(sp, new) THEN Refused("brk", as)
      ELSE IF s.count < up THEN Within("brk", as, s, Mixed(as), FALSE, sp.heap_end, up)
      ELSE Within("brk", as, s, moved, TRUE, from, up + down)
  BY DEF Brk
<1>2. new \in Address
  BY Words
<1> HIDE DEF new, sp, up, down, s, from
<1> QED
  BY <1>1, <1>2, RefusedNeat, MixedNeat

LEMMA SbrkNeat ==
    ASSUME TypeOK, AllNeat(spaces), NEW as \in DOMAIN spaces, NEW count \in Counts,
           Sbrk(as, count) \/ Sbrk(as, -count)
    PROVE  AllNeat(spaces')
<1> DEFINE h == spaces[as].heap_end
<1>1. \A z \in Int : (h + z) % WORD \in Address
  <2>1. h \in Nat /\ WORD \in Nat \ {0}
    BY TypedFacts, Words, Geometry
  <2> HIDE DEF h
  <2> TAKE z \in Int
  <2>2. (h + z) % WORD \in 0 .. WORD - 1
    BY <2>1
  <2> QED
    BY <2>2 DEF Address
<1>2. count \in Int /\ -count \in Int
  BY CallArguments
<1>3. PICK z \in Int : Sbrk(as, z)
  BY <1>2
<1> QED
  BY <1>1, <1>3, BrkNeat DEF Sbrk

LEMMA StackNeat ==
    ASSUME TypeOK, AllNeat(spaces), NEW as \in DOMAIN spaces, NEW top \in Addresses,
           NEW size \in Counts, SetupStack(as, top, size)
    PROVE  AllNeat(spaces')
<1> DEFINE sp == spaces[as]
           high == align_down(top)
           n == align_up(size) \div PAGE
           low == (high - align_up(size)) % WORD
           s == Back(Start(as), sp.pml4, low, n, {"w", "u", "nx"})
           undone == Rollback(s, sp.pml4, low)
           got == vmm_create_region(s, low, high, {"used", "stack", "read", "write"})
           space == [Mixed(as) EXCEPT !.stack_start = low, !.stack_end = high]
<1>1. IF s.count < n THEN Within("stack", as, undone, Mixed(as), FALSE, low, n)
      ELSE Within("stack", as, got, space, TRUE, low, n)
  BY DEF SetupStack
<1>2. high \in Address /\ low \in Address
  <2>1. high \in Address /\ align_up(size) \in Nat
    BY CallArguments, Words, SizePages
  <2> DEFINE up == align_up(size)
             x == high - up
  <2> HIDE DEF high, n, up
  <2>2. x \in Int /\ WORD \in Nat \ {0}
    BY <2>1, Words, Geometry DEF up
  <2> HIDE DEF x
  <2>3. x % WORD \in 0 .. WORD - 1
    BY <2>2
  <2> QED
    BY <2>1, <2>3 DEF Address, x, up
<1> HIDE DEF high, n, low, sp, s, undone, got
<1> QED
  BY <1>1, <1>2, MixedNeat

LEMMA FaultNeat ==
    ASSUME TypeOK, AllNeat(spaces), NEW as \in DOMAIN spaces, NEW addr \in Addresses,
           PageFault(as, addr)
    PROVE  AllNeat(spaces')
<1> DEFINE sp == spaces[as]
           page == align_down(addr)
           s == Back(Start(as), sp.pml4, page, 1, {"w", "u", "nx"})
           space == [sp EXCEPT !.stack_start = page]
<1>1. \/ Refused("fault", as)
      \/ Within("fault", as, s, sp, FALSE, page, 1)
      \/ Within("fault", as, s, space, TRUE, page, 1)
  BY DEF PageFault
<1>2. page \in Address /\ sp \in Spaces /\ sp.pml4 \in Memory
  BY CallArguments, Words, TypedFacts DEF Typed
<1> HIDE DEF page
<1>3. s.regions = sp.regions
  <2> DEFINE b == Start(as)
             rt == {"w", "u", "nx"}
             x == Back(b, sp.pml4, page, 1, rt)
  <2>1. b \in Works /\ b.regions = sp.regions /\ rt \in SUBSET Rights /\ 1 \in Nat
    BY StartType DEF Rights
  <2> HIDE DEF b, rt, sp
  <2>2. x \in Works /\ x.regions = b.regions /\ x.fate = b.fate /\ x.avail \subseteq b.avail
    BY <1>2, <2>1, BackType
  <2> QED
    BY <2>1, <2>2 DEF b, rt
<1>4. space \in Spaces /\ (space.plain => sp.plain)
  BY <1>2 DEF Spaces
<1> HIDE DEF s, space
<1> QED
  BY <1>1, <1>2, <1>3, <1>4, RefusedNeat, SameNeat

LEMMA MapPhysicalNeat ==
    ASSUME TypeOK, AllNeat(spaces), NEW as \in DOMAIN spaces, NEW fl \in Flags,
           MapPhysical(as, fl)
    PROVE  AllNeat(spaces')
<1> DEFINE virt == vmm_find_free_region(spaces[as].regions, PAGE)
           s == Map(Start(as), spaces[as].pml4, virt, Device, PageFlags(fl) \ {"nx"})
           t == vmm_create_region(s, virt, virt + PAGE, fl \cup {"mmap"})
<1>1. \/ Refused("mmap", as)
      \/ Within("mmap", as, t, Mixed(as), TRUE, virt, 1)
  BY DEF MapPhysical
<1>2. 0 \in Address
  BY Words
<1> HIDE DEF t, virt
<1> QED
  BY <1>1, <1>2, RefusedNeat, MixedNeat

LEMMA UnmapNeat ==
    ASSUME TypeOK, AllNeat(spaces), NEW as \in DOMAIN spaces, NEW addr \in Addresses,
           NEW size \in Counts, UnmapPages(as, addr, size)
    PROVE  AllNeat(spaces')
<1> DEFINE virt == align_down(addr)
           n == align_up(size) \div PAGE
           s == UnmapEach(Start(as), spaces[as].pml4, virt, n)
           i == vmm_find_region(s.regions, virt)
           t == IF i = 0 THEN s ELSE [s EXCEPT !.regions[i].flags = FREE]
<1>1. Within("unmap", as, t, Mixed(as), TRUE, virt, n)
  BY DEF UnmapPages
<1>2. 0 \in Address
  BY Words
<1> HIDE DEF t, virt, n
<1> QED
  BY <1>1, <1>2, MixedNeat

LEMMA SwitchNeat ==
    ASSUME AllNeat(spaces), NEW as \in DOMAIN spaces, Switch(as)
    PROVE  AllNeat(spaces')
BY CommitNeat DEF Switch

LEMMA StoreNeat ==
    ASSUME AllNeat(spaces), NEW as \in DOMAIN spaces, NEW addr \in Addresses, NEW f \in Stored,
           Store(as, addr, f)
    PROVE  AllNeat(spaces')
BY CommitNeat DEF Store

LEMMA NeatIsApart == AllNeat(spaces) => AreasApart
<1> SUFFICES ASSUME AllNeat(spaces), NEW as \in DOMAIN spaces \ {Kernel}, spaces[as].plain,
                    NEW i \in DOMAIN spaces[as].regions
             PROVE  LET rs == spaces[as].regions IN
                    /\ USER_SPACE_START <= rs[i].start /\ rs[i].start < rs[i].end
                    /\ rs[i].end <= USER_SPACE_END
                    /\ i + 1 \in DOMAIN rs =>
                           /\ rs[i].end <= rs[i + 1].start
                           /\ {rs[i].flags, rs[i + 1].flags} # {FREE}
  BY DEF AreasApart
<1> DEFINE rs == spaces[as].regions
<1>1. Lined(rs, {})
  BY DEF AllNeat, Neat
<1> HIDE DEF rs
<1>2. Placed(rs[i])
  BY <1>1 DEF Lined, rs
<1>3. ASSUME i + 1 \in DOMAIN rs
      PROVE  Precedes(rs[i], rs[i + 1]) /\ ~BothFree(rs[i], rs[i + 1])
  BY <1>1, <1>3 DEF Lined, rs
<1> QED
  BY <1>2, <1>3 DEF Placed, Precedes, BothFree, rs

LEMMA InitNeat == Init => AllNeat(spaces)
BY DEF Init, AllNeat

NeatInv == AllNeat(spaces)

\* The lists of plain spaces are in order, in every state.
THEOREM AreasAreNeat == Spec => []NeatInv
<1>1. TypeOK /\ AllNeat(spaces) /\ [Next]_vars => AllNeat(spaces')
  <2> SUFFICES ASSUME TypeOK, AllNeat(spaces), [Next]_vars
               PROVE  AllNeat(spaces')
    OBVIOUS
  <2>1. CASE Create
    BY <2>1, CreateNeat
  <2>2. ASSUME NEW as \in DOMAIN spaces,
               Clone(as) \/ Destroy(as) \/ Switch(as)
        PROVE  AllNeat(spaces')
    BY <2>2, CloneNeat, DestroyNeat, SwitchNeat
  <2>3. ASSUME NEW as \in DOMAIN spaces, NEW n \in Counts,
               Sbrk(as, n) \/ Sbrk(as, -n)
        PROVE  AllNeat(spaces')
    BY <2>3, SbrkNeat
  <2>4. ASSUME NEW as \in DOMAIN spaces, NEW fl \in Flags, MapPhysical(as, fl)
        PROVE  AllNeat(spaces')
    BY <2>4, MapPhysicalNeat
  <2>5. ASSUME NEW as \in DOMAIN spaces, NEW fl \in Flags, NEW n \in Counts,
               NEW a \in Addresses \cup {0}, Alloc(as, a, n, fl)
        PROVE  AllNeat(spaces')
    BY <2>5, AllocNeat
  <2>6. ASSUME NEW as \in DOMAIN spaces, NEW a \in Addresses, Brk(as, a) \/ PageFault(as, a)
        PROVE  AllNeat(spaces')
    BY <2>6, CallArguments, BrkNeat, FaultNeat
  <2>7. ASSUME NEW as \in DOMAIN spaces, NEW a \in Addresses, NEW f \in Stored, Store(as, a, f)
        PROVE  AllNeat(spaces')
    BY <2>7, StoreNeat
  <2>8. ASSUME NEW as \in DOMAIN spaces, NEW a \in Addresses, NEW n \in Counts,
               Free(as, a, n) \/ SetupStack(as, a, n) \/ UnmapPages(as, a, n)
        PROVE  AllNeat(spaces')
    BY <2>8, FreeNeat, StackNeat, UnmapNeat
  <2>9. ASSUME NEW as \in DOMAIN spaces, NEW a \in Addresses, NEW n \in Counts,
               NEW fl \in Flags, Protect(as, a, n, fl)
        PROVE  AllNeat(spaces')
    BY <2>9, ProtectNeat
  <2>10. CASE UNCHANGED vars
    BY <2>10 DEF vars
  <2> QED
    BY <2>1, <2>2, <2>3, <2>4, <2>5, <2>6, <2>7, <2>8, <2>9, <2>10 DEF Next
<1>2. Init => NeatInv
  BY InitNeat DEF NeatInv
<1>3. TypeOK /\ NeatInv /\ [Next]_vars => NeatInv'
  <2>1. AllNeat(spaces)' <=> AllNeat(spaces')
    BY DEF AllNeat
  <2> QED
    BY <1>1, <2>1 DEF NeatInv
<1> QED
  BY <1>2, <1>3, Types, PTL DEF Spec

\* In every space that is used for nothing but areas whose places vmm_alloc_pages
\* chose, named from end to end when freed or protected, the list of regions is in
\* order: they lie in the user's part, none is empty, no two overlap, and no two
\* free ones are neighbours in it.  vmm_alloc_pages_at, vmm_create_region,
\* vmm_free_pages and vmm_protect keep it so, whichever record could not be had.
THEOREM AreasLieApart == Spec => []AreasApart
<1>1. NeatInv => AreasApart
  BY NeatIsApart DEF NeatInv
<1> QED
  BY <1>1, AreasAreNeat, PTL

-----------------------------------------------------------------------------
(* What the lower half of a space maps: the pages whose walk ends in an entry  *)
(* that is present.                                                            *)

LowPages == 0 .. HALF * (ENTRIES * ENTRIES) - 1
Mapped(m, q, a) ==
    TableAt(m, q, a, 1) # NULL /\ Present(m[TableAt(m, q, a, 1)][Index(a, 1)])
View(m, q) == {v \in LowPages : Mapped(m, q, v * PAGE)}

\* Frames hold no large pages, and the lower halves of the tables of level 3 in
\* roots lead to frames.
Tame(m, roots) ==
    /\ \A t \in Frames, k \in Entry : "huge" \notin m[t][k].flags
    /\ \A q \in roots, k \in 0 .. HALF - 1 : Present(m[q][k]) => m[q][k].to \in Frames

LEMMA ViewFacts ==
    ASSUME NEW m, NEW q
    PROVE  /\ View(m, q) \subseteq LowPages
           /\ \A v \in LowPages : v \in View(m, q) <=> Mapped(m, q, v * PAGE)
BY DEF View

\* A page of the lower half is known by its indices.
LEMMA PageDigits ==
    ASSUME NEW v \in LowPages
    PROVE  /\ v \in Nat /\ v * PAGE \in Nat /\ (v * PAGE) \div PAGE = v
           /\ Index(v * PAGE, 3) \in 0 .. HALF - 1
           /\ v = ENTRIES * (ENTRIES * Index(v * PAGE, 3) + Index(v * PAGE, 2))
                  + Index(v * PAGE, 1)
<1> DEFINE E == ENTRIES
           EE == ENTRIES * ENTRIES
           p == v \div E
           q == v \div EE
<1>1. E \in Nat \ {0} /\ PAGE \in Nat \ {0} /\ HALF \in Nat \ {0} /\ E = 2 * HALF
      /\ EE \in Nat \ {0}
  BY Geometry
<1>2. v \in Nat /\ v < HALF * EE
  <2>1. HALF * EE \in Nat
    BY <1>1
  <2> QED
    BY <2>1 DEF LowPages
<1>3. v * PAGE \in Nat /\ (v * PAGE) \div PAGE = v
  <2>1. v * PAGE = PAGE * v + 0 /\ 0 \in 0 .. PAGE - 1
    BY <1>1, <1>2
  <2>2. (PAGE * v + 0) \div PAGE = v
    BY <1>1, <1>2, <2>1, DivisionUnique
  <2> QED
    BY <1>1, <1>2, <2>1, <2>2
<1>4. p \in Nat /\ v % E \in Nat /\ v = E * p + (v % E)
  <2> HIDE DEF E
  <2>1. v \div E \in Nat /\ v % E \in 0 .. E - 1 /\ v = E * (v \div E) + (v % E)
    BY <1>1, <1>2, Division
  <2> QED
    BY <1>1, <2>1
<1>5. q \in Nat /\ v = EE * q + (v % EE) /\ v % EE \in Nat
  <2> HIDE DEF EE
  <2>1. v \div EE \in Nat /\ v % EE \in 0 .. EE - 1 /\ v = EE * (v \div EE) + (v % EE)
    BY <1>1, <1>2, Division
  <2> QED
    BY <1>1, <2>1
<1>6. p \div E = q
  <2>1. ENTRIES \in Nat \ {0}
    BY Geometry
  <2>2. (v \div ENTRIES) \div ENTRIES = v \div (ENTRIES * ENTRIES)
    <3> HIDE DEF E, EE, p, q
    <3> QED
      BY <1>2, <2>1, DivisionTwice
  <2> QED
    BY <2>2
<1>7. p = E * q + (p % E) /\ p % E \in Nat
  <2> HIDE DEF E, p, q
  <2>1. p \div E \in Nat /\ p % E \in 0 .. E - 1 /\ p = E * (p \div E) + (p % E)
    BY <1>1, <1>4, Division
  <2> QED
    BY <1>1, <1>6, <2>1
<1>8. q < HALF
  <2> SUFFICES ASSUME HALF <= q PROVE FALSE
    BY <1>1, <1>5
  <2> HIDE DEF q, EE
  <2>1. EE * HALF <= EE * q
    BY <1>1, <1>5
  <2>2. EE * HALF = HALF * EE
    BY <1>1
  <2> QED
    BY <1>1, <1>2, <1>5, <2>1, <2>2
<1>9. q % E = q
  <2> HIDE DEF q, E
  <2>1. q \in Nat /\ q < E
    BY <1>1, <1>5, <1>8
  <2> QED
    BY <1>1, <2>1
<1>10. v \div 1 = v
  BY <1>2
<1>11. /\ Index(v * PAGE, 1) = v % E
       /\ Index(v * PAGE, 2) = p % E
       /\ Index(v * PAGE, 3) = q
  BY <1>3, <1>9, <1>10, Geometry DEF Index
<1> HIDE DEF p, q, E, EE
<1>12. Index(v * PAGE, 3) \in 0 .. HALF - 1
  BY <1>1, <1>5, <1>8, <1>11
<1>13. v = E * (E * Index(v * PAGE, 3) + Index(v * PAGE, 2)) + Index(v * PAGE, 1)
  BY <1>4, <1>7, <1>11
<1> QED
  BY <1>2, <1>3, <1>12, <1>13 DEF E

LEMMA SamePage ==
    ASSUME NEW v \in LowPages, NEW w \in LowPages,
           \A l \in 1 .. 3 : Index(v * PAGE, l) = Index(w * PAGE, l)
    PROVE  v = w
<1>1. /\ Index(v * PAGE, 1) = Index(w * PAGE, 1)
      /\ Index(v * PAGE, 2) = Index(w * PAGE, 2)
      /\ Index(v * PAGE, 3) = Index(w * PAGE, 3)
  OBVIOUS
<1>2. v = ENTRIES * (ENTRIES * Index(v * PAGE, 3) + Index(v * PAGE, 2)) + Index(v * PAGE, 1)
  BY PageDigits
<1>3. w = ENTRIES * (ENTRIES * Index(w * PAGE, 3) + Index(w * PAGE, 2)) + Index(w * PAGE, 1)
  BY PageDigits
<1> QED
  BY <1>1, <1>2, <1>3

\* What a translation finds in the lower half of such a table is what is mapped.
LEMMA MappedIsFound ==
    ASSUME NEW u, NEW m \in Mem, NEW av \in SUBSET Frames, Pages(u, m, av),
           NEW q \in Memory, u[q] = "pml4", NEW roots, q \in roots, Tame(m, roots),
           NEW a \in Nat, Index(a, 3) \in 0 .. HALF - 1
    PROVE  Mapped(m, q, a) <=> Present(virt_to_phys(m, q, a))
<1> DEFINE t == TableAt(m, q, a, 1)
           c == TableAt(m, q, a, 2)
           e == virt_to_phys(m, q, a)
           i == Index(a, 3)
           j == Index(a, 2)
           k == Index(a, 1)
<1>1. t # NULL => e = m[t][k]
  BY Found
<1>2. c # NULL => c = m[q][i].to /\ Leads(u, m, q, i)
  BY Walk
<1>3. c # NULL => c \in Frames
  BY <1>2 DEF Tame, Leads
<1>4. j \in Entry
  BY IndexType
<1>5. c # NULL => "huge" \notin m[c][j].flags
  BY <1>3, <1>4 DEF Tame
<1>6. e = IF c = NULL THEN Zero
          ELSE IF "huge" \in m[c][j].flags
            THEN Piece(m[c][j], k)
          ELSE IF t = NULL THEN Zero ELSE m[t][k]
  BY DEF virt_to_phys
<1>7. Mapped(m, q, a) <=> t # NULL /\ Present(m[t][k])
  BY DEF Mapped
<1> HIDE DEF t, c, e
<1>8. ~Present(Zero)
  BY DEF Present, Zero
<1> QED
  BY <1>1, <1>5, <1>6, <1>7, <1>8 DEF e

\* The walk in two memories that agree on the way.
LEMMA SameWalk ==
    ASSUME NEW m, NEW n, NEW q, NEW a,
           n[q][Index(a, 3)] = m[q][Index(a, 3)],
           TableAt(m, q, a, 2) # NULL =>
               n[TableAt(m, q, a, 2)][Index(a, 2)] = m[TableAt(m, q, a, 2)][Index(a, 2)]
    PROVE  /\ TableAt(n, q, a, 2) = TableAt(m, q, a, 2)
           /\ TableAt(n, q, a, 1) = TableAt(m, q, a, 1)
<1>1. TableAt(n, q, a, 2) = TableAt(m, q, a, 2)
  BY TableSteps
<1> QED
  BY <1>1, TableSteps

\* The uses u of the pages, and the tables of level 3 of programs among them.
Rooted(u, m, av, roots) ==
    Pages(u, m, av) /\ Tame(m, roots) /\ \A q \in roots : q \in Frames /\ u[q] = "pml4"

LEMMA TameStays ==
    ASSUME NEW m, NEW roots \in SUBSET Frames, Tame(m, roots), NEW n,
           \A t \in Memory, k \in Entry :
               \/ n[t][k] = m[t][k]
               \/ /\ "huge" \notin n[t][k].flags
                  /\ t \in roots /\ k < HALF /\ Present(n[t][k]) => n[t][k].to \in Frames
    PROVE  Tame(n, roots)
<1>1. Frames \subseteq Memory /\ \A k \in 0 .. HALF - 1 : k \in Entry /\ k < HALF
  BY Places, Geometry DEF Entry
<1>2. \A t \in Frames, k \in Entry : "huge" \notin n[t][k].flags
  BY <1>1 DEF Tame
<1>3. ASSUME NEW q \in roots, NEW k \in 0 .. HALF - 1, Present(n[q][k])
      PROVE  n[q][k].to \in Frames
  <2>1. q \in Memory /\ k \in Entry /\ k < HALF
    BY <1>1
  <2>2. CASE n[q][k] = m[q][k]
    BY <1>3, <2>2 DEF Tame
  <2>3. CASE n[q][k] # m[q][k]
    BY <1>3, <2>1, <2>3
  <2> QED
    BY <2>2, <2>3
<1> QED
  BY <1>2, <1>3 DEF Tame

\* The walk of a program's space, and the uses of what it goes through.
OnWalk(u, m, q, a) ==
    /\ q \in Memory /\ u[q] = "pml4"
    /\ Index(a, 1) \in Entry /\ Index(a, 2) \in Entry /\ Index(a, 3) \in Entry
    /\ TableAt(m, q, a, 2) # NULL =>
           /\ TableAt(m, q, a, 2) \in Memory /\ u[TableAt(m, q, a, 2)] = "dir"
           /\ Leads(u, m, q, Index(a, 3))
           /\ TableAt(m, q, a, 2) = m[q][Index(a, 3)].to
    /\ TableAt(m, q, a, 1) # NULL =>
           /\ TableAt(m, q, a, 2) # NULL
           /\ TableAt(m, q, a, 1) \in Memory /\ u[TableAt(m, q, a, 1)] = "table"
           /\ Leads(u, m, TableAt(m, q, a, 2), Index(a, 2))
           /\ TableAt(m, q, a, 1) = m[TableAt(m, q, a, 2)][Index(a, 2)].to

LEMMA PageWalk ==
    ASSUME NEW u, NEW m \in Mem, NEW av \in SUBSET Frames, Pages(u, m, av),
           NEW q \in Memory, u[q] = "pml4", NEW a \in Nat
    PROVE  OnWalk(u, m, q, a)
<1>2. Index(a, 1) \in Entry /\ Index(a, 2) \in Entry /\ Index(a, 3) \in Entry
  BY IndexType
<1>3. LET t2 == TableAt(m, q, a, 2)
          t1 == TableAt(m, q, a, 1)
      IN /\ t2 # NULL => /\ t2 \in Memory /\ u[t2] = "dir" /\ Leads(u, m, q, Index(a, 3))
                         /\ t2 = m[q][Index(a, 3)].to
         /\ t1 # NULL => /\ t2 # NULL /\ t1 \in Memory /\ u[t1] = "table"
                         /\ Leads(u, m, t2, Index(a, 2)) /\ t1 = m[t2][Index(a, 2)].to
  BY Walk
<1> QED
  BY <1>2, <1>3 DEF OnWalk

LEMMA RootedWalk ==
    ASSUME NEW u, NEW m \in Mem, NEW av \in SUBSET Frames, NEW roots, Rooted(u, m, av, roots),
           NEW q \in roots, NEW a \in Nat
    PROVE  OnWalk(u, m, q, a)
<1>1. q \in Memory /\ u[q] = "pml4" /\ Pages(u, m, av)
  BY Places DEF Rooted
<1> QED
  BY <1>1, PageWalk

LEMMA RootedFree ==
    ASSUME NEW u, NEW m, NEW av, NEW roots, Rooted(u, m, av, roots)
    PROVE  \A f \in av : u[f] = "free"
BY DEF Rooted, Pages

\* What is written: frames of the allocator, an entry, or one that links a new table.
Beside(n, m, av) == \A t \in Memory \ av : n[t] = m[t]
Wrote(n, m, c, j, e) ==
    \A t \in Memory, k \in Entry : n[t][k] = IF t = c /\ k = j THEN e ELSE m[t][k]
Linked(n, m, c, j, g, fl) ==
    \A t \in Memory, k \in Entry :
        n[t][k] = IF t = c /\ k = j THEN [to |-> g, flags |-> fl]
                  ELSE IF t = g THEN Zero ELSE m[t][k]

\* Frames of the allocator are on no walk.
LEMMA FreeWalk ==
    ASSUME NEW u, NEW m \in Mem, NEW av \in SUBSET Frames, NEW roots, Rooted(u, m, av, roots),
           NEW q \in roots, NEW a \in Nat, NEW n, Beside(n, m, av)
    PROVE  Mapped(n, q, a) <=> Mapped(m, q, a)
<1>0. OnWalk(u, m, q, a) /\ \A f \in av : u[f] = "free"
  BY RootedWalk, RootedFree
<1>1. q \in Memory \ av
  BY <1>0 DEF OnWalk
<1>2. TableAt(m, q, a, 2) # NULL => TableAt(m, q, a, 2) \in Memory \ av
  BY <1>0 DEF OnWalk
<1>3. TableAt(m, q, a, 1) # NULL => TableAt(m, q, a, 1) \in Memory \ av
  BY <1>0 DEF OnWalk
<1>4. TableAt(n, q, a, 1) = TableAt(m, q, a, 1)
  BY <1>1, <1>2, SameWalk DEF Beside
<1> QED
  BY <1>3, <1>4 DEF Mapped, Beside

\* A new table, which is empty, maps nothing.
LEMMA LinkWalk ==
    ASSUME NEW u, NEW m \in Mem, NEW av \in SUBSET Frames, NEW roots, Rooted(u, m, av, roots),
           NEW q \in roots, NEW a \in Nat, NEW g \in av,
           NEW c \in Memory, NEW j \in Entry, u[c] \in {"pml4", "dir"}, ~Present(m[c][j]),
           NEW fl, "huge" \notin fl, NEW n,
           Linked(n, m, c, j, g, fl)
    PROVE  Mapped(n, q, a) <=> Mapped(m, q, a)
<1> DEFINE e == [to |-> g, flags |-> fl]
           t2 == TableAt(m, q, a, 2)
           t1 == TableAt(m, q, a, 1)
           s2 == TableAt(n, q, a, 2)
           s1 == TableAt(n, q, a, 1)
           i3 == Index(a, 3)
           i2 == Index(a, 2)
           i1 == Index(a, 1)
<1>0. OnWalk(u, m, q, a) /\ \A f \in av : u[f] = "free"
  BY RootedWalk, RootedFree
<1>1. /\ q \in Memory /\ u[q] = "pml4" /\ i3 \in Entry /\ i2 \in Entry /\ i1 \in Entry
      /\ t2 # NULL => t2 \in Memory /\ u[t2] = "dir"
      /\ t1 # NULL => t2 # NULL /\ t1 \in Memory /\ u[t1] = "table"
      /\ u[g] = "free" /\ g \in Memory
  BY <1>0, Places DEF OnWalk
<1>2. /\ t2 = Sub(m[q][i3]) /\ s2 = Sub(n[q][i3])
      /\ t1 = IF t2 = NULL THEN NULL ELSE Sub(m[t2][i2])
      /\ s1 = IF s2 = NULL THEN NULL ELSE Sub(n[s2][i2])
  BY TableSteps
<1>3. /\ Mapped(m, q, a) <=> t1 # NULL /\ Present(m[t1][i1])
      /\ Mapped(n, q, a) <=> s1 # NULL /\ Present(n[s1][i1])
  BY DEF Mapped
<1>4. Sub(e) = g /\ g # NULL /\ Sub(Zero) = NULL /\ ~Present(Zero) /\ Sub(m[c][j]) = NULL
  BY <1>1, Places DEF Sub, Zero, Present
<1>5. /\ g # c /\ n[c][j] = e /\ \A k \in Entry : n[g][k] = Zero
      /\ \A t \in Memory, k \in Entry : n[t][k] = IF t = c /\ k = j THEN e
                                                ELSE IF t = g THEN Zero ELSE m[t][k]
  BY <1>1 DEF Linked
<1> HIDE DEF e, t2, t1, s2, s1, i3, i2, i1
<1>6. CASE q = c /\ i3 = j
  <2>1. t2 = NULL /\ s2 = g
    BY <1>2, <1>4, <1>5, <1>6
  <2>2. t1 = NULL /\ s1 = NULL
    BY <1>1, <1>2, <1>4, <1>5, <2>1
  <2> QED
    BY <1>3, <2>2
<1>7. CASE ~(q = c /\ i3 = j)
  <2>1. n[q][i3] = m[q][i3]
    BY <1>1, <1>5, <1>7
  <2>2. s2 = t2
    BY <1>2, <2>1
  <2>3. CASE t2 = NULL
    BY <1>2, <1>3, <2>2, <2>3
  <2>4. CASE t2 # NULL /\ t2 = c /\ i2 = j
    <3>1. t1 = NULL /\ s1 = g
      BY <1>2, <1>4, <1>5, <2>2, <2>4
    <3> QED
      BY <1>1, <1>3, <1>4, <1>5, <3>1
  <2>5. CASE t2 # NULL /\ ~(t2 = c /\ i2 = j)
    <3>1. n[t2][i2] = m[t2][i2]
      BY <1>1, <1>5, <2>5
    <3>2. s1 = t1
      BY <1>2, <2>2, <3>1
    <3>3. t1 # NULL => t1 \in Memory /\ t1 # g /\ t1 # c
      BY <1>1
    <3>4. t1 # NULL => n[t1][i1] = m[t1][i1]
      BY <1>1, <1>5, <3>3
    <3> QED
      BY <1>3, <3>2, <3>4
  <2> QED
    BY <2>3, <2>4, <2>5
<1> QED
  BY <1>6, <1>7

\* An entry of a table of the last level is on the walks through that table alone.
LEMMA LeafWalk ==
    ASSUME NEW u, NEW m \in Mem, NEW av \in SUBSET Frames, NEW roots, Rooted(u, m, av, roots),
           NEW q \in roots, NEW a \in Nat,
           NEW c \in Memory, NEW j \in Entry, u[c] = "table", NEW e, NEW n,
           Wrote(n, m, c, j, e)
    PROVE  Mapped(n, q, a) <=>
               IF TableAt(m, q, a, 1) = c /\ Index(a, 1) = j THEN Present(e) ELSE Mapped(m, q, a)
<1> DEFINE t2 == TableAt(m, q, a, 2)
           t1 == TableAt(m, q, a, 1)
           s1 == TableAt(n, q, a, 1)
           i3 == Index(a, 3)
           i2 == Index(a, 2)
           i1 == Index(a, 1)
<1>0. OnWalk(u, m, q, a) /\ \A f \in av : u[f] = "free"
  BY RootedWalk, RootedFree
<1>1. /\ q \in Memory /\ u[q] = "pml4" /\ i3 \in Entry /\ i2 \in Entry /\ i1 \in Entry
      /\ t2 # NULL => t2 \in Memory /\ u[t2] = "dir"
      /\ t1 # NULL => t2 # NULL /\ t1 \in Memory /\ u[t1] = "table"
  BY <1>0 DEF OnWalk
<1>2. q # c /\ (t2 # NULL => t2 # c)
  BY <1>1
<1>3. n[q][i3] = m[q][i3] /\ (t2 # NULL => n[t2][i2] = m[t2][i2])
  BY <1>1, <1>2 DEF Wrote
<1>4. s1 = t1
  BY <1>3, SameWalk
<1>5. /\ Mapped(m, q, a) <=> t1 # NULL /\ Present(m[t1][i1])
      /\ Mapped(n, q, a) <=> s1 # NULL /\ Present(n[s1][i1])
  BY DEF Mapped
<1>6. c # NULL
  BY Places
<1> HIDE DEF t2, t1, s1, i3, i2, i1
<1>7. t1 # NULL => n[t1][i1] = IF t1 = c /\ i1 = j THEN e ELSE m[t1][i1]
  BY <1>1 DEF Wrote
<1> QED
  BY <1>4, <1>5, <1>6, <1>7 DEF t1, i1

\* Through a table of the last level there is one way, from the lower half of one space.
LEMMA OneWay ==
    ASSUME NEW u, NEW m \in Mem, NEW av \in SUBSET Frames, NEW roots, Rooted(u, m, av, roots),
           NEW q \in roots, NEW b \in Nat, Index(b, 3) \in 0 .. HALF - 1,
           NEW p \in Memory, u[p] = "pml4", NEW a \in Nat,
           TableAt(m, p, a, 1) # NULL, TableAt(m, q, b, 1) = TableAt(m, p, a, 1)
    PROVE  p = q /\ Index(a, 3) = Index(b, 3) /\ Index(a, 2) = Index(b, 2)
<1> DEFINE c == TableAt(m, p, a, 2)
           d == TableAt(m, q, b, 2)
           t == TableAt(m, p, a, 1)
<1>0. Pages(u, m, av) /\ q \in Memory /\ u[q] = "pml4" /\ Tame(m, roots)
  BY Places DEF Rooted
<1>1. /\ Index(a, 3) \in Entry /\ Index(a, 2) \in Entry
      /\ Index(b, 3) \in Entry /\ Index(b, 2) \in Entry
  BY IndexType
<1>2. OnWalk(u, m, p, a)
  BY <1>0, PageWalk
<1>3. OnWalk(u, m, q, b)
  BY RootedWalk
<1>4. /\ d \in Memory /\ u[d] = "dir" /\ Leads(u, m, q, Index(b, 3))
      /\ d = m[q][Index(b, 3)].to
      /\ Leads(u, m, d, Index(b, 2)) /\ t = m[d][Index(b, 2)].to
  BY <1>3 DEF OnWalk
<1>5. /\ c \in Memory /\ u[c] = "dir" /\ Leads(u, m, p, Index(a, 3))
      /\ c = m[p][Index(a, 3)].to
      /\ Leads(u, m, c, Index(a, 2)) /\ t = m[c][Index(a, 2)].to
  BY <1>2 DEF OnWalk
<1> HIDE DEF c, d, t
<1>6. c = d /\ Index(a, 2) = Index(b, 2)
  <2>1. u[c] \in {"dir", "table"} /\ m[d][Index(b, 2)].to = m[c][Index(a, 2)].to
    BY <1>4, <1>5
  <2> QED
    BY <1>0, <1>1, <1>4, <1>5, <2>1, Alone
<1>7. \/ p = q /\ Index(a, 3) = Index(b, 3)
      \/ Index(b, 3) >= HALF \/ m[q][Index(b, 3)].to \notin Frames
  <2>1. Once(u, m)
    BY <1>0 DEF Pages
  <2> QED
    BY <1>0, <1>1, <1>4, <1>5, <1>6, <2>1 DEF Once
<1>8. m[q][Index(b, 3)].to \in Frames
  BY <1>0, <1>4 DEF Tame, Leads
<1>9. ~(Index(b, 3) >= HALF)
  BY Geometry
<1> QED
  BY <1>6, <1>7, <1>8, <1>9

\* What q maps when the entry for a, in the tables of p, is e.
Revised(T, S, q, p, a, e) ==
    \/ q # p /\ T = S
    \/ \E v \in LowPages : /\ q = p /\ a = v * PAGE
                           /\ T = IF Present(e) THEN S \cup {v} ELSE S \ {v}

\* An entry of the last level is written.
LEMMA LeafView ==
    ASSUME NEW u, NEW m \in Mem, NEW av \in SUBSET Frames, NEW roots, Rooted(u, m, av, roots),
           NEW q \in roots, NEW p \in Memory, u[p] = "pml4", NEW a \in Nat,
           NEW c, c = TableAt(m, p, a, 1), c # NULL, NEW e, NEW n,
           Wrote(n, m, c, Index(a, 1), e)
    PROVE  \A T : Revised(T, View(m, q), q, p, a, e) => View(n, q) = T
<1>0. Pages(u, m, av)
  BY DEF Rooted
<1>1. c \in Memory /\ u[c] = "table"
  BY <1>0, PageWalk DEF OnWalk
<1>2. Index(a, 1) \in Entry
  BY IndexType
<1>3. ASSUME NEW w \in LowPages
      PROVE  /\ w \in View(m, q) <=> Mapped(m, q, w * PAGE)
             /\ w \in View(n, q) <=> Mapped(n, q, w * PAGE)
             /\ Mapped(n, q, w * PAGE) <=>
                  IF TableAt(m, q, w * PAGE, 1) = c /\ Index(w * PAGE, 1) = Index(a, 1)
                    THEN Present(e) ELSE Mapped(m, q, w * PAGE)
             /\ TableAt(m, q, w * PAGE, 1) = c =>
                    p = q /\ Index(a, 3) = Index(w * PAGE, 3) /\ Index(a, 2) = Index(w * PAGE, 2)
  <2>1. w * PAGE \in Nat /\ Index(w * PAGE, 3) \in 0 .. HALF - 1
    BY PageDigits
  <2>2. Mapped(n, q, w * PAGE) <=>
            IF TableAt(m, q, w * PAGE, 1) = c /\ Index(w * PAGE, 1) = Index(a, 1)
              THEN Present(e) ELSE Mapped(m, q, w * PAGE)
    BY <1>1, <1>2, <2>1, LeafWalk
  <2>3. TableAt(m, q, w * PAGE, 1) = c =>
            p = q /\ Index(a, 3) = Index(w * PAGE, 3) /\ Index(a, 2) = Index(w * PAGE, 2)
    <3> SUFFICES ASSUME TableAt(m, q, w * PAGE, 1) = TableAt(m, p, a, 1)
                 PROVE  /\ p = q /\ Index(a, 3) = Index(w * PAGE, 3)
                        /\ Index(a, 2) = Index(w * PAGE, 2)
      OBVIOUS
    <3>1. TableAt(m, p, a, 1) # NULL
      OBVIOUS
    <3> QED
      BY <2>1, <3>1, OneWay
  <2> QED
    BY <2>2, <2>3, ViewFacts
<1>4. View(n, q) \subseteq LowPages /\ View(m, q) \subseteq LowPages
  BY ViewFacts
<1>5. CASE q # p
  <2>1. \A w \in LowPages : w \in View(n, q) <=> w \in View(m, q)
    BY <1>3, <1>5
  <2> QED
    <3>1. View(n, q) = View(m, q)
      BY <1>4, <2>1
    <3> QED
      BY <1>5, <3>1 DEF Revised
<1>6. ASSUME NEW v \in LowPages, q = p, a = v * PAGE
      PROVE  View(n, q) = IF Present(e) THEN View(m, q) \cup {v} ELSE View(m, q) \ {v}
  <2>1. \A w \in LowPages :
            TableAt(m, q, w * PAGE, 1) = c /\ Index(w * PAGE, 1) = Index(a, 1) => w = v
    <3> TAKE w \in LowPages
    <3> SUFFICES ASSUME TableAt(m, q, w * PAGE, 1) = c, Index(w * PAGE, 1) = Index(a, 1)
                 PROVE  w = v
      OBVIOUS
    <3>1. Index(w * PAGE, 3) = Index(v * PAGE, 3) /\ Index(w * PAGE, 2) = Index(v * PAGE, 2)
          /\ Index(w * PAGE, 1) = Index(v * PAGE, 1)
      BY <1>3, <1>6
    <3>2. \A l \in 1 .. 3 : Index(w * PAGE, l) = Index(v * PAGE, l)
      <4> TAKE l \in 1 .. 3
      <4>1. l = 1 \/ l = 2 \/ l = 3
        OBVIOUS
      <4> QED
        BY <3>1, <4>1
    <3> QED
      BY <3>2, SamePage
  <2>2. TableAt(m, q, v * PAGE, 1) = c /\ Index(v * PAGE, 1) = Index(a, 1)
    BY <1>6
  <2>3. \A w \in LowPages :
            w \in View(n, q) <=> IF w = v THEN Present(e) ELSE w \in View(m, q)
    BY <1>3, <2>1, <2>2
  <2>4. CASE Present(e)
    <3>1. View(n, q) = View(m, q) \cup {v}
      BY <1>4, <2>3, <2>4
    <3> QED
      BY <2>4, <3>1
  <2>5. CASE ~Present(e)
    <3>1. View(n, q) = View(m, q) \ {v}
      BY <1>4, <2>3, <2>5
    <3> QED
      BY <2>5, <3>1
  <2> QED
    BY <2>4, <2>5
<1> QED
  BY <1>5, <1>6 DEF Revised

LEMMA FreeView ==
    ASSUME NEW u, NEW m \in Mem, NEW av \in SUBSET Frames, NEW roots, Rooted(u, m, av, roots),
           NEW q \in roots, NEW n, Beside(n, m, av)
    PROVE  View(n, q) = View(m, q)
<1>1. \A w \in LowPages : w \in View(n, q) <=> w \in View(m, q)
  <2> TAKE w \in LowPages
  <2>1. w * PAGE \in Nat
    BY PageDigits
  <2>2. Mapped(n, q, w * PAGE) <=> Mapped(m, q, w * PAGE)
    BY <2>1, FreeWalk
  <2> QED
    BY <2>2, ViewFacts
<1>2. View(n, q) \subseteq LowPages /\ View(m, q) \subseteq LowPages
  BY ViewFacts
<1> QED
  BY <1>1, <1>2

LEMMA LinkView ==
    ASSUME NEW u, NEW m \in Mem, NEW av \in SUBSET Frames, NEW roots, Rooted(u, m, av, roots),
           NEW q \in roots, NEW g \in av,
           NEW c \in Memory, NEW j \in Entry, u[c] \in {"pml4", "dir"}, ~Present(m[c][j]),
           NEW fl, "huge" \notin fl, NEW n,
           Linked(n, m, c, j, g, fl)
    PROVE  View(n, q) = View(m, q)
<1>1. \A w \in LowPages : w \in View(n, q) <=> w \in View(m, q)
  <2> TAKE w \in LowPages
  <2>1. w * PAGE \in Nat
    BY PageDigits
  <2>2. Mapped(n, q, w * PAGE) <=> Mapped(m, q, w * PAGE)
    BY <2>1, LinkWalk
  <2> QED
    BY <2>2, ViewFacts
<1>2. View(n, q) \subseteq LowPages /\ View(m, q) \subseteq LowPages
  BY ViewFacts
<1> QED
  BY <1>1, <1>2

-----------------------------------------------------------------------------
(* Calls at work, and what a program's space maps meanwhile: the tables of level *)
(* 3 of programs are in roots, and S is what the one at q maps.                  *)

Programs(u, roots) == u \subseteq roots /\ u \subseteq Frames
Seen(roots, q, S) ==
    {x \in Works : x.fate = "runs" => Tame(x.mem, roots) /\ (q \in roots => View(x.mem, q) = S)}

LEMMA SeenFacts ==
    ASSUME NEW U, NEW q, NEW S, NEW x \in Works
    PROVE  /\ x \in Seen(U, q, S) <=>
                  (x.fate = "runs" => Tame(x.mem, U) /\ (q \in U => View(x.mem, q) = S))
           /\ x.fate # "runs" => x \in Seen(U, q, S)
           /\ x.mem \in Mem /\ x.avail \in SUBSET Frames
BY DEF Seen, Works

LEMMA SeenRooted ==
    ASSUME NEW own, NEW roots, NEW loose, NEW s \in Kept(own, roots, loose),
           NEW U, Programs(U, roots), NEW q, NEW S, s \in Seen(U, q, S), s.fate = "runs"
    PROVE  /\ s.mem \in Mem /\ s.avail \in SUBSET Frames /\ U \in SUBSET Frames
           /\ Tame(s.mem, U) /\ (q \in U => View(s.mem, q) = S)
           /\ \E u : /\ Rooted(u, s.mem, s.avail, U) /\ Pages(u, s.mem, s.avail)
                     /\ \A p \in roots : p \in Memory /\ u[p] = "pml4"
<1>1. s \in Works /\ Roles(s.mem, s.avail, own, roots, loose)
  BY DEF Kept
<1>2. s.mem \in Mem /\ s.avail \in SUBSET Frames /\ Tame(s.mem, U)
      /\ (q \in U => View(s.mem, q) = S)
  BY <1>1, SeenFacts
<1>3. PICK u : Pages(u, s.mem, s.avail) /\ Held(u, s.mem, own, roots, loose)
  BY <1>1 DEF Roles
<1>4. \A p \in roots : p \in Memory /\ u[p] = "pml4"
  BY <1>3 DEF Held
<1>5. Rooted(u, s.mem, s.avail, U)
  BY <1>2, <1>3, <1>4 DEF Rooted, Programs
<1> QED
  BY <1>2, <1>3, <1>4, <1>5 DEF Programs

\* Frames of the allocator are changed.
LEMMA BesideSeen ==
    ASSUME NEW own, NEW roots, NEW loose, NEW s \in Kept(own, roots, loose),
           NEW U, Programs(U, roots), NEW q, NEW S, s \in Seen(U, q, S),
           NEW x \in Works, x.fate = "runs" => s.fate = "runs",
           Beside(x.mem, s.mem, s.avail),
           \A f \in s.avail, k \in Entry :
               x.mem[f][k] = s.mem[f][k] \/ "huge" \notin x.mem[f][k].flags
    PROVE  x \in Seen(U, q, S)
<1> SUFFICES ASSUME x.fate = "runs"
             PROVE  Tame(x.mem, U) /\ (q \in U => View(x.mem, q) = S)
  BY SeenFacts
<1>1. s.fate = "runs"
  OBVIOUS
<1>2. /\ s.mem \in Mem /\ s.avail \in SUBSET Frames /\ U \in SUBSET Frames
      /\ Tame(s.mem, U) /\ (q \in U => View(s.mem, q) = S)
      /\ \E u : /\ Rooted(u, s.mem, s.avail, U) /\ Pages(u, s.mem, s.avail)
                /\ \A p \in roots : p \in Memory /\ u[p] = "pml4"
  BY <1>1, SeenRooted
<1>3. PICK u : Rooted(u, s.mem, s.avail, U) /\ Pages(u, s.mem, s.avail)
               /\ \A p \in roots : p \in Memory /\ u[p] = "pml4"
  BY <1>2
<1>4. \A t \in Memory, k \in Entry :
          \/ x.mem[t][k] = s.mem[t][k]
          \/ /\ "huge" \notin x.mem[t][k].flags
             /\ t \in U /\ k < HALF /\ Present(x.mem[t][k]) => x.mem[t][k].to \in Frames
  <2> TAKE t \in Memory, k \in Entry
  <2>1. CASE t \notin s.avail
    BY <2>1 DEF Beside
  <2>2. CASE t \in s.avail
    <3>1. u[t] = "free"
      BY <1>3, <2>2 DEF Pages
    <3>2. t \notin U
      BY <1>3, <3>1 DEF Programs
    <3> QED
      BY <2>2, <3>2
  <2> QED
    BY <2>1, <2>2
<1>5. Tame(x.mem, U)
  BY <1>2, <1>4, TameStays
<1>6. q \in U => View(x.mem, q) = View(s.mem, q)
  BY <1>2, <1>3, FreeView
<1> QED
  BY <1>2, <1>5, <1>6

LEMMA TakeSeen ==
    ASSUME NEW own, NEW roots, NEW loose, NEW s \in Kept(own, roots, loose),
           NEW U, Programs(U, roots), NEW q, NEW S, s \in Seen(U, q, S), s.avail # {}
    PROVE  Take(s) \in Seen(U, q, S)
<1> DEFINE g == Fresh(s)
           x == Take(s)
<1>1. s \in Works /\ s.mem \in Mem
  BY KeptFacts DEF Kept
<1>2. g \in s.avail /\ g \in Memory
  BY <1>1, FreshIn
<1>3. x \in Works /\ x.mem = [s.mem EXCEPT ![g] = Blank] /\ x.fate = s.fate
  BY <1>1, TakeType
<1> HIDE DEF x, g
<1>4. Beside(x.mem, s.mem, s.avail)
  BY <1>1, <1>2, <1>3 DEF Beside, Mem
<1>5. \A f \in s.avail, k \in Entry :
          x.mem[f][k] = s.mem[f][k] \/ "huge" \notin x.mem[f][k].flags
  <2> TAKE f \in s.avail, k \in Entry
  <2>1. f \in Memory
    BY <1>1, Places DEF Works
  <2>2. CASE f = g
    <3>1. x.mem[f][k] = Zero
      BY <1>1, <1>2, <1>3, <2>2 DEF Mem, Blank, Entry
    <3> QED
      BY <3>1 DEF Zero
  <2>3. CASE f # g
    BY <1>1, <1>3, <2>1, <2>3 DEF Mem
  <2> QED
    BY <2>2, <2>3
<1>6. x \in Works /\ (x.fate = "runs" => s.fate = "runs")
  BY <1>3
<1>7. x \in Seen(U, q, S)
  BY <1>4, <1>5, <1>6, BesideSeen
<1> QED
  BY <1>7 DEF x

LEMMA SameSeen ==
    ASSUME NEW U, NEW q, NEW S, NEW s \in Seen(U, q, S),
           NEW x \in Works, x.mem = s.mem, x.fate = "runs" => s.fate = "runs"
    PROVE  x \in Seen(U, q, S)
BY DEF Seen

\* The next table on the way is there, cannot be had, or is linked.
LinkFlags(fl) == {"w"} \cup (fl \cap {"u"})
LEMMA DescendCases ==
    ASSUME NEW s \in Works, NEW p \in Memory, NEW a \in Nat, NEW l \in 2 .. 3,
           NEW fl \in SUBSET Rights, l = 2 => ~LargeAt(s.mem, p, a)
    PROVE  LET t == TableAt(s.mem, p, a, l)
               k == Index(a, l)
               d == Descend(s, p, a, l, fl)
           IN /\ t = NULL \/ Present(s.mem[t][k]) => d = s
              /\ ~(t = NULL \/ Present(s.mem[t][k])) /\ s.avail = {} => d = RanOut(s)
              /\ ~(t = NULL \/ Present(s.mem[t][k])) /\ s.avail # {} =>
                     /\ t \in Memory /\ k \in Entry /\ Fresh(s) \in s.avail
                     /\ d \in Works /\ d.ran = s.ran /\ d.fate = s.fate
                     /\ Linked(d.mem, s.mem, t, k, Fresh(s), LinkFlags(fl))
<1> DEFINE t == TableAt(s.mem, p, a, l)
           k == Index(a, l)
           g == Fresh(s)
           rt == LinkFlags(fl)
           n == [[s.mem EXCEPT ![g] = Blank] EXCEPT ![t][k] = [to |-> g, flags |-> rt]]
           d == Descend(s, p, a, l, fl)
<1>1. d \in Works /\ d.fate = s.fate
  BY DescendType
<1>2. d = IF t = NULL \/ Present(s.mem[t][k]) THEN s
          ELSE IF s.avail = {} THEN RanOut(s)
          ELSE [Take(s) EXCEPT !.mem[t][k] = [to |-> g, flags |-> rt]]
  <2>1. ~(t # NULL /\ l = 2 /\ "huge" \in s.mem[t][k].flags)
    BY DEF LargeAt
  <2> QED
    BY <2>1 DEF Descend, LinkFlags
<1>3. k \in Entry /\ s.mem \in Mem /\ s.avail \in SUBSET Frames
  BY IndexType DEF Works
<1>4. t = NULL \/ t \in Memory
  <2>1. l \in 1 .. 3
    OBVIOUS
  <2> QED
    BY <1>3, <2>1, TableType
<1>5. ASSUME ~(t = NULL \/ Present(s.mem[t][k])), s.avail # {}
      PROVE  /\ t \in Memory /\ g \in s.avail /\ d.ran = s.ran
             /\ Linked(d.mem, s.mem, t, k, g, rt)
  <2>1. g \in s.avail /\ g \in Memory
    BY <1>5, FreshIn
  <2>2. d = [Take(s) EXCEPT !.mem[t][k] = [to |-> g, flags |-> rt]]
    BY <1>2, <1>5
  <2>3. Take(s).mem = [s.mem EXCEPT ![g] = Blank] /\ Take(s) \in Works /\ Take(s).ran = s.ran
    BY <1>5, TakeType
  <2> HIDE DEF d, t, k, g, rt
  <2>4. d.mem = n /\ d.ran = s.ran
    BY <2>2, <2>3 DEF Works
  <2>5. t \in Memory
    BY <1>4, <1>5
  <2>6. \A q \in Memory, i \in Entry :
            n[q][i] = IF q = t /\ i = k THEN [to |-> g, flags |-> rt]
                      ELSE IF q = g THEN Zero ELSE s.mem[q][i]
    BY <1>3, <2>1, <2>5 DEF Mem, Blank, Entry
  <2> HIDE DEF n
  <2> QED
    BY <2>1, <2>4, <2>5, <2>6 DEF Linked
<1> HIDE DEF d, t, k, g, rt
<1> QED
  BY <1>1, <1>2, <1>3, <1>5 DEF d, t, k, g, rt

\* That frames were wanting is remembered.
LEMMA DescendRan ==
    ASSUME NEW s \in Works, s.ran, NEW p \in Memory, NEW a \in Nat, NEW l \in 2 .. 3,
           NEW fl \in SUBSET Rights
    PROVE  Descend(s, p, a, l, fl).ran
<1> DEFINE t == TableAt(s.mem, p, a, l)
           k == Index(a, l)
           e == [to |-> Fresh(s), flags |-> {"w"} \cup (fl \cap {"u"})]
           big == "huge" \in s.mem[t][k].flags
           d == Descend(s, p, a, l, fl)
<1>1. d = IF t = NULL THEN s
          ELSE IF l = 2 /\ big THEN split_2mb_page(s, t, k)
          ELSE IF Present(s.mem[t][k]) THEN s
          ELSE IF s.avail = {} THEN RanOut(s)
          ELSE [Take(s) EXCEPT !.mem[t][k] = e]
  BY DEF Descend
<1>2. RanOut(s).ran
  BY RanOutType
<1> HIDE DEF t, k, d, e, big
<1>3. s.avail # {} => [Take(s) EXCEPT !.mem[t][k] = e].ran
  <2>1. s.avail # {} => Take(s).ran /\ Take(s) \in Works
    BY TakeType
  <2> QED
    BY <2>1 DEF Works
<1>4. split_2mb_page(s, t, k).ran
  BY <1>2 DEF split_2mb_page, Works
<1>5. d.ran
  BY <1>1, <1>2, <1>3, <1>4
<1> QED
  BY <1>5 DEF d

LEMMA MapRan ==
    ASSUME NEW s \in Works, s.ran, NEW p \in Memory, NEW a \in Nat, NEW f,
           NEW fl \in SUBSET Rights
    PROVE  Map(s, p, a, f, fl).ran
<1> DEFINE y == Descend(s, p, a, 3, fl)
           d == Descend(y, p, a, 2, fl)
           t == TableAt(d.mem, p, a, 1)
<1>1. y.ran /\ y \in Works
  BY DescendRan, DescendType
<1> HIDE DEF y
<1>2. d.ran /\ d \in Works
  BY <1>1, DescendRan, DescendType
<1>3. Map(s, p, a, f, fl) = IF t = NULL THEN d
                            ELSE [d EXCEPT !.mem[t][Index(a, 1)] = [to |-> f, flags |-> fl]]
  BY DEF Map, y
<1> HIDE DEF d, t
<1> QED
  BY <1>2, <1>3 DEF Works

\* A walk that ends in a large page is that of an address paging_init mapped, and in
\* the kernel's space.
LEMMA NotLarge ==
    ASSUME NEW own, NEW roots, NEW loose, NEW s \in Kept(own, roots, loose), s.fate = "runs",
           NEW p \in roots \cap Memory, NEW a \in Nat, ~Low(p, a)
    PROVE  ~LargeAt(s.mem, p, a)
<1>1. s \in Works /\ Roles(s.mem, s.avail, own, roots, loose)
  BY DEF Kept
<1>2. s.mem \in Mem /\ s.avail \in SUBSET Frames
  BY <1>1 DEF Works
<1>3. PICK u : Pages(u, s.mem, s.avail) /\ Held(u, s.mem, own, roots, loose)
  BY <1>1 DEF Roles
<1>4. u[p] = "pml4"
  BY <1>3 DEF Held
<1> QED
  BY <1>2, <1>3, <1>4, LargeIsLow

LEMMA ProgramsHigh ==
    ASSUME NEW U, NEW roots, Programs(U, roots), NEW p \in U, NEW a
    PROVE  ~Low(p, a)
BY Places DEF Programs, Low

LEMMA DescendSeen ==
    ASSUME NEW own, NEW roots, NEW loose, NEW s \in Kept(own, roots, loose),
           NEW U, Programs(U, roots), NEW q, NEW S, s \in Seen(U, q, S),
           NEW p \in roots \cap Memory, NEW a \in Nat, NEW l \in 2 .. 3, NEW fl \in SUBSET Rights,
           ~Low(p, a)
    PROVE  LET d == Descend(s, p, a, l, fl) IN
           d \in Seen(U, q, S) /\ (s.ran => d.ran)
<1> DEFINE t == TableAt(s.mem, p, a, l)
           k == Index(a, l)
           g == Fresh(s)
           rt == LinkFlags(fl)
           d == Descend(s, p, a, l, fl)
<1>1. s \in Works
  BY DEF Kept
<1>9. d \in Works /\ d.fate = s.fate /\ (s.ran => d.ran)
  <2>1. p \in Memory
    OBVIOUS
  <2> QED
    BY <1>1, <2>1, DescendType, DescendRan
<1>10. CASE s.fate # "runs"
  <2> HIDE DEF d
  <2>1. d \in Seen(U, q, S)
    BY <1>9, <1>10, SeenFacts
  <2> QED
    BY <1>9, <2>1 DEF d
<1> SUFFICES ASSUME s.fate = "runs"
             PROVE  d \in Seen(U, q, S) /\ (s.ran => d.ran)
  BY <1>10
<1>11. ~LargeAt(s.mem, p, a)
  BY NotLarge
<1>2. /\ t = NULL \/ Present(s.mem[t][k]) => d = s
      /\ ~(t = NULL \/ Present(s.mem[t][k])) /\ s.avail = {} => d = RanOut(s)
      /\ ~(t = NULL \/ Present(s.mem[t][k])) /\ s.avail # {} =>
             /\ t \in Memory /\ k \in Entry /\ g \in s.avail
             /\ d \in Works /\ d.ran = s.ran /\ d.fate = s.fate
             /\ Linked(d.mem, s.mem, t, k, g, rt)
  BY <1>1, <1>11, DescendCases
<1>3. RanOut(s) \in Works /\ RanOut(s).mem = s.mem /\ RanOut(s).fate = s.fate /\ RanOut(s).ran
  BY <1>1, RanOutType
<1>4. RanOut(s) \in Seen(U, q, S)
  BY <1>3, SameSeen
<1>5. ASSUME ~(t = NULL \/ Present(s.mem[t][k])), s.avail # {}, s.fate = "runs"
      PROVE  Tame(d.mem, U) /\ (q \in U => View(d.mem, q) = S)
  <2>1. /\ s.mem \in Mem /\ s.avail \in SUBSET Frames /\ U \in SUBSET Frames
        /\ Tame(s.mem, U) /\ (q \in U => View(s.mem, q) = S)
        /\ \E u : /\ Rooted(u, s.mem, s.avail, U) /\ Pages(u, s.mem, s.avail)
                  /\ \A z \in roots : z \in Memory /\ u[z] = "pml4"
    BY <1>5, SeenRooted
  <2>2. PICK u : /\ Rooted(u, s.mem, s.avail, U) /\ Pages(u, s.mem, s.avail)
                 /\ \A z \in roots : z \in Memory /\ u[z] = "pml4"
    BY <2>1
  <2>3. t \in Memory /\ k \in Entry /\ g \in s.avail /\ Linked(d.mem, s.mem, t, k, g, rt)
        /\ ~Present(s.mem[t][k])
    BY <1>2, <1>5
  <2>4. p \in Memory /\ u[p] = "pml4"
    BY <2>2
  <2>5. u[t] \in {"pml4", "dir"}
    <3>1. CASE l = 3
      BY <2>4, <3>1, TableSteps
    <3>2. CASE l = 2
      <4>1. OnWalk(u, s.mem, p, a)
        BY <2>1, <2>2, <2>4, PageWalk
      <4> QED
        BY <1>5, <3>2, <4>1 DEF OnWalk
    <3> QED
      BY <3>1, <3>2
  <2>6. "huge" \notin rt
    BY DEF LinkFlags
  <2>7. g \in Frames
    BY <2>1, <2>3
  <2> HIDE DEF t, k, g, rt, d
  <2>8. \A c \in Memory, j \in Entry :
            \/ d.mem[c][j] = s.mem[c][j]
            \/ /\ "huge" \notin d.mem[c][j].flags
               /\ c \in U /\ j < HALF /\ Present(d.mem[c][j]) => d.mem[c][j].to \in Frames
    <3> TAKE c \in Memory, j \in Entry
    <3>1. d.mem[c][j] = IF c = t /\ j = k THEN [to |-> g, flags |-> rt]
                        ELSE IF c = g THEN Zero ELSE s.mem[c][j]
      BY <2>3 DEF Linked
    <3>2. "huge" \notin Zero.flags /\ ~Present(Zero)
      BY DEF Zero, Present
    <3>3. [to |-> g, flags |-> rt].flags = rt /\ [to |-> g, flags |-> rt].to = g
      OBVIOUS
    <3> QED
      BY <2>6, <2>7, <3>1, <3>2, <3>3
  <2>9. Tame(d.mem, U)
    BY <2>1, <2>8, TameStays
  <2>10. q \in U => View(d.mem, q) = View(s.mem, q)
    BY <2>1, <2>2, <2>3, <2>5, <2>6, LinkView
  <2> QED
    BY <2>1, <2>9, <2>10
<1>6. CASE t = NULL \/ Present(s.mem[t][k])
  BY <1>2, <1>6
<1>7. CASE ~(t = NULL \/ Present(s.mem[t][k])) /\ s.avail = {}
  BY <1>2, <1>3, <1>4, <1>7
<1>8. CASE ~(t = NULL \/ Present(s.mem[t][k])) /\ s.avail # {}
  <2>1. d \in Works /\ d.ran = s.ran /\ d.fate = s.fate
    BY <1>2, <1>8
  <2>2. d.fate = "runs" => Tame(d.mem, U) /\ (q \in U => View(d.mem, q) = S)
    BY <1>5, <1>8, <2>1
  <2> QED
    BY <2>1, <2>2, SeenFacts
<1> QED
  BY <1>6, <1>7, <1>8

LEMMA DescendFills ==
    ASSUME NEW s \in Works, NEW p \in Memory, NEW a \in Nat, NEW l \in 2 .. 3,
           NEW fl \in SUBSET Rights, ~Descend(s, p, a, l, fl).ran,
           ~LargeAt(s.mem, p, a)
    PROVE  \/ TableAt(s.mem, p, a, l) = NULL
           \/ Present(Descend(s, p, a, l, fl).mem[TableAt(s.mem, p, a, l)][Index(a, l)])
<1> DEFINE t == TableAt(s.mem, p, a, l)
           k == Index(a, l)
           d == Descend(s, p, a, l, fl)
<1>1. /\ t = NULL \/ Present(s.mem[t][k]) => d = s
      /\ ~(t = NULL \/ Present(s.mem[t][k])) /\ s.avail = {} => d = RanOut(s)
      /\ ~(t = NULL \/ Present(s.mem[t][k])) /\ s.avail # {} =>
             /\ t \in Memory /\ k \in Entry /\ Fresh(s) \in s.avail
             /\ d \in Works /\ d.ran = s.ran /\ d.fate = s.fate
             /\ Linked(d.mem, s.mem, t, k, Fresh(s), LinkFlags(fl))
  BY DescendCases
<1>2. RanOut(s).ran
  BY RanOutType
<1>3. s.avail \in SUBSET Frames
  BY DEF Works
<1> HIDE DEF t, k, d
<1>4. CASE t = NULL \/ Present(s.mem[t][k])
  BY <1>1, <1>4 DEF t, k, d
<1>5. CASE ~(t = NULL \/ Present(s.mem[t][k])) /\ s.avail = {}
  <2>1. d.ran
    BY <1>1, <1>2, <1>5
  <2> QED
    BY <2>1 DEF d
<1>6. CASE ~(t = NULL \/ Present(s.mem[t][k])) /\ s.avail # {}
  <2>1. d.mem[t][k] = [to |-> Fresh(s), flags |-> LinkFlags(fl)]
    BY <1>1, <1>6 DEF Linked
  <2>2. Fresh(s) # NULL
    BY <1>1, <1>3, <1>6, Places
  <2>3. Present(d.mem[t][k])
    BY <2>1, <2>2 DEF Present
  <2> QED
    BY <2>3 DEF d, t, k
<1> QED
  BY <1>4, <1>5, <1>6

\* In the lower half of a program's space only a want of frames keeps the walk short.
LEMMA DescentReaches ==
    ASSUME NEW own, NEW roots, NEW loose, NEW s \in Kept(own, roots, loose),
           NEW U, Programs(U, roots), NEW q, NEW S, s \in Seen(U, q, S),
           NEW p \in roots \cap Memory, p \in U, NEW a \in Nat, Index(a, 3) \in 0 .. HALF - 1,
           NEW fl \in SUBSET Rights
    PROVE  LET d == Descend(Descend(s, p, a, 3, fl), p, a, 2, fl) IN
           d.fate = "runs" /\ ~d.ran => TableAt(d.mem, p, a, 1) # NULL
<1> DEFINE x == Descend(s, p, a, 3, fl)
           d == Descend(x, p, a, 2, fl)
           i == Index(a, 3)
           j == Index(a, 2)
           c == TableAt(x.mem, p, a, 2)
<1> SUFFICES ASSUME d.fate = "runs", ~d.ran
             PROVE  TableAt(d.mem, p, a, 1) # NULL
  OBVIOUS
<1>0. p \in Memory /\ p \in Frames /\ i \in 0 .. HALF - 1 /\ i \in Entry /\ j \in Entry
  BY IndexType DEF Programs
<1>20. ~Low(p, a)
  BY ProgramsHigh
<1>1. x \in Kept(own, roots, loose) /\ x \in Seen(U, q, S) /\ s \in Works
  <2>1. x \in Kept(own, roots, loose)
    BY <1>20, DescendKeeps
  <2>2. x \in Seen(U, q, S)
    BY <1>20, DescendSeen
  <2>3. s \in Works
    BY DEF Kept
  <2> QED
    BY <2>1, <2>2, <2>3
<1>2. x \in Works
  BY <1>1 DEF Kept
<1>21. x.fate = s.fate /\ d.fate = x.fate
  BY <1>0, <1>1, <1>2, DescendType
<1>22. ~LargeAt(s.mem, p, a) /\ ~LargeAt(x.mem, p, a)
  BY <1>1, <1>20, <1>21, NotLarge
<1>3. ~x.ran => TableAt(s.mem, p, a, 3) = NULL \/ Present(x.mem[TableAt(s.mem, p, a, 3)][i])
  BY <1>0, <1>1, <1>22, DescendFills
<1> HIDE DEF x
<1>4. d \in Kept(own, roots, loose) /\ d \in Seen(U, q, S) /\ (x.ran => d.ran)
  BY <1>1, <1>20, DescendKeeps, DescendSeen
<1>5. d \in Works /\ d.fate = x.fate
  BY <1>0, <1>2, DescendType
<1>6. c = NULL \/ Present(d.mem[c][j])
  BY <1>0, <1>2, <1>22, DescendFills
<1>7. \/ d = x
      \/ d = RanOut(x)
      \/ Linked(d.mem, x.mem, c, j, Fresh(x), LinkFlags(fl)) /\ Fresh(x) \in x.avail
  BY <1>0, <1>2, <1>22, DescendCases
<1>8. RanOut(x).ran
  BY <1>2, RanOutType
<1>9. x.fate = "runs" /\ ~x.ran
  BY <1>4, <1>5
<1> HIDE DEF d
<1>10. /\ x.mem \in Mem /\ x.avail \in SUBSET Frames /\ Tame(x.mem, U)
       /\ \E u : /\ Rooted(u, x.mem, x.avail, U) /\ Pages(u, x.mem, x.avail)
                 /\ \A z \in roots : z \in Memory /\ u[z] = "pml4"
  BY <1>1, <1>9, SeenRooted
<1>11. d.mem \in Mem /\ Tame(d.mem, U)
  BY <1>4, SeenRooted
<1>12. Present(x.mem[p][i])
  BY <1>0, <1>3, <1>9, TableSteps, Places
<1>13. "huge" \notin x.mem[p][i].flags /\ x.mem[p][i].to \in Frames
  BY <1>0, <1>10, <1>12 DEF Tame
<1>14. c = Sub(x.mem[p][i])
  BY TableSteps
<1>15. c = x.mem[p][i].to /\ c \in Frames /\ c # NULL /\ c \in Memory
  BY <1>13, <1>14, Places DEF Sub
<1> HIDE DEF c
<1>16. d.mem[p][i] = x.mem[p][i]
  <2>1. PICK u : /\ Rooted(u, x.mem, x.avail, U) /\ Pages(u, x.mem, x.avail)
                 /\ \A z \in roots : z \in Memory /\ u[z] = "pml4"
    BY <1>10
  <2>2. u[p] = "pml4"
    BY <2>1
  <2>3. u[c] = "dir"
    <3>1. OnWalk(u, x.mem, p, a)
      BY <1>0, <1>10, <2>1, <2>2, PageWalk
    <3> QED
      BY <1>15, <3>1 DEF OnWalk, c
  <2>4. CASE d = x
    BY <2>4
  <2>5. CASE d = RanOut(x)
    BY <1>8, <2>5
  <2>6. CASE Linked(d.mem, x.mem, c, j, Fresh(x), LinkFlags(fl)) /\ Fresh(x) \in x.avail
    <3>1. p # c /\ p # Fresh(x)
      BY <2>1, <2>2, <2>3, <2>6 DEF Pages
    <3> QED
      BY <1>0, <2>6, <3>1 DEF Linked
  <2> QED
    BY <1>7, <2>4, <2>5, <2>6
<1>17. TableAt(d.mem, p, a, 2) = c
  BY <1>14, <1>16, TableSteps
<1>18. "huge" \notin d.mem[c][j].flags /\ Present(d.mem[c][j])
  BY <1>0, <1>6, <1>11, <1>15 DEF Tame
<1>19. TableAt(d.mem, p, a, 1) = Sub(d.mem[c][j])
  BY <1>15, <1>17, TableSteps
<1> QED
  BY <1>18, <1>19 DEF Sub, Present

\* An entry of the last level is written in a call at work.
LEMMA WroteSeen ==
    ASSUME NEW own, NEW roots, NEW loose, NEW s \in Kept(own, roots, loose),
           NEW U, Programs(U, roots), NEW q, NEW S, s \in Seen(U, q, S),
           NEW p \in roots \cap Memory, NEW a \in Nat, TableAt(s.mem, p, a, 1) # NULL,
           NEW e, "huge" \notin e.flags, NEW x \in Works, x.fate = "runs" => s.fate = "runs",
           Wrote(x.mem, s.mem, TableAt(s.mem, p, a, 1), Index(a, 1), e)
    PROVE  \A T : Revised(T, S, q, p, a, e) => x \in Seen(U, q, T)
<1> DEFINE t == TableAt(s.mem, p, a, 1)
           k == Index(a, 1)
<1>1. CASE x.fate # "runs"
  BY <1>1, SeenFacts
<1>2. CASE x.fate = "runs"
  <2>0. s.fate = "runs"
    BY <1>2
  <2>1. /\ s.mem \in Mem /\ s.avail \in SUBSET Frames /\ U \in SUBSET Frames
        /\ Tame(s.mem, U) /\ (q \in U => View(s.mem, q) = S)
        /\ \E u : /\ Rooted(u, s.mem, s.avail, U) /\ Pages(u, s.mem, s.avail)
                  /\ \A z \in roots : z \in Memory /\ u[z] = "pml4"
    BY <2>0, SeenRooted
  <2>2. PICK u : /\ Rooted(u, s.mem, s.avail, U) /\ Pages(u, s.mem, s.avail)
                 /\ \A z \in roots : z \in Memory /\ u[z] = "pml4"
    BY <2>1
  <2>3. u[p] = "pml4" /\ p \in Memory
    BY <2>2
  <2>4. q \in U => \A T : Revised(T, View(s.mem, q), q, p, a, e) => View(x.mem, q) = T
    BY <2>1, <2>2, <2>3, LeafView
  <2>5. t \in Memory /\ u[t] = "table"
    BY <2>1, <2>2, <2>3, PageWalk DEF OnWalk
  <2>6. t \notin U
    BY <2>2, <2>5 DEF Programs
  <2>7. \A c \in Memory, j \in Entry :
            \/ x.mem[c][j] = s.mem[c][j]
            \/ /\ "huge" \notin x.mem[c][j].flags
               /\ c \in U /\ j < HALF /\ Present(x.mem[c][j]) => x.mem[c][j].to \in Frames
    BY <2>6 DEF Wrote
  <2>8. Tame(x.mem, U)
    BY <2>1, <2>7, TameStays
  <2> HIDE DEF t, k
  <2>9. ASSUME NEW T, Revised(T, S, q, p, a, e)
        PROVE  x \in Seen(U, q, T)
    <3>1. q \in U => View(x.mem, q) = T
      BY <2>1, <2>4, <2>9
    <3> QED
      BY <2>8, <3>1, SeenFacts
  <2> QED
    BY <2>9
<1> QED
  BY <1>1, <1>2

LEMMA MapSeen ==
    ASSUME NEW own, NEW roots, NEW loose, NEW s \in Kept(own, roots, loose),
           NEW U, Programs(U, roots), NEW q, NEW S, s \in Seen(U, q, S),
           NEW p \in roots \cap Memory, NEW a \in Nat, NEW f \in Memory, NEW fl \in SUBSET Rights,
           ~Low(p, a)
    PROVE  LET x == Map(s, p, a, f, fl) IN
           /\ x \in Works /\ (s.ran => x.ran)
           /\ q # p => x \in Seen(U, q, S)
           /\ \A v \in LowPages : q = p /\ p \in U /\ a = v * PAGE =>
                  \/ x \in Seen(U, q, S \cup {v})
                  \/ x \in Seen(U, q, S) /\ x.ran
<1> DEFINE y == Descend(s, p, a, 3, fl)
           d == Descend(y, p, a, 2, fl)
           t == TableAt(d.mem, p, a, 1)
           k == Index(a, 1)
           e == [to |-> f, flags |-> fl]
           x == Map(s, p, a, f, fl)
<1>1. y \in Kept(own, roots, loose)
  BY DescendKeeps
<1>2. y \in Seen(U, q, S) /\ (s.ran => y.ran)
  BY DescendSeen
<1>3. p \in U /\ Index(a, 3) \in 0 .. HALF - 1 /\ d.fate = "runs" /\ ~d.ran => t # NULL
  BY DescentReaches
<1>4. x = IF t = NULL THEN d ELSE [d EXCEPT !.mem[t][k] = e]
  BY DEF Map
<1>5. x \in Works
  <2>1. f \in 0 .. TOP - 1 /\ s \in Works /\ p \in Memory
    BY Places DEF Kept
  <2> QED
    BY <2>1, MapType
<1> HIDE DEF y, x
<1>6. d \in Kept(own, roots, loose)
  BY <1>1, DescendKeeps
<1>7. d \in Seen(U, q, S) /\ (y.ran => d.ran)
  BY <1>1, <1>2, DescendSeen
<1> HIDE DEF d
<1>8. d \in Works /\ d.mem \in Mem
  BY <1>6, KeptFacts DEF Kept
<1>9. t = NULL \/ t \in Memory
  BY <1>8, TableType
<1>10. \A v \in LowPages : a = v * PAGE => Index(a, 3) \in 0 .. HALF - 1
  BY PageDigits
<1>11. CASE t = NULL
  <2>1. x = d
    BY <1>4, <1>11
  <2>2. ASSUME NEW v \in LowPages, q = p, p \in U, a = v * PAGE
        PROVE  \/ x \in Seen(U, q, S \cup {v})
               \/ x \in Seen(U, q, S) /\ x.ran
    <3>1. d.fate # "runs" \/ d.ran
      BY <1>3, <1>10, <1>11, <2>2
    <3> QED
      BY <1>7, <1>8, <2>1, <3>1, SeenFacts
  <2> HIDE DEF t
  <2> QED
    BY <1>2, <1>5, <1>7, <2>1, <2>2 DEF x
<1>12. CASE t # NULL
  <2>1. x = [d EXCEPT !.mem[t][k] = e]
    BY <1>4, <1>12
  <2>2. k \in Entry
    BY IndexType
  <2>3. x.fate = d.fate /\ x.ran = d.ran /\ x.mem = [d.mem EXCEPT ![t][k] = e]
    <3> HIDE DEF t, k, e
    <3> QED
      BY <1>8, <2>1 DEF Works
  <2>4. Wrote(x.mem, d.mem, t, k, e)
    <3> HIDE DEF t, k, e
    <3> QED
      BY <1>8, <1>9, <1>12, <2>2, <2>3 DEF Mem, Wrote
  <2>5. "huge" \notin e.flags
    BY DEF Rights
  <2>6. Present(e)
    BY Places DEF Present
  <2> HIDE DEF e
  <2>8. x.fate = "runs" => d.fate = "runs"
    BY <2>3
  <2>9. Wrote(x.mem, d.mem, TableAt(d.mem, p, a, 1), Index(a, 1), e) /\ TableAt(d.mem, p, a, 1) # NULL
    BY <1>12, <2>4
  <2> HIDE DEF t, k
  <2>7. \A T : Revised(T, S, q, p, a, e) => x \in Seen(U, q, T)
    BY <1>5, <1>6, <1>7, <2>5, <2>8, <2>9, WroteSeen
  <2>10. q # p => x \in Seen(U, q, S)
    BY <2>7 DEF Revised
  <2>11. ASSUME NEW v \in LowPages, q = p, a = v * PAGE
         PROVE  x \in Seen(U, q, S \cup {v})
    BY <2>6, <2>7, <2>11 DEF Revised
  <2> QED
    BY <1>2, <1>5, <1>7, <2>3, <2>10, <2>11 DEF x
<1> QED
  BY <1>11, <1>12

LEMMA SeenMapped ==
    ASSUME NEW own, NEW roots, NEW loose, NEW s \in Kept(own, roots, loose),
           NEW U, Programs(U, roots), NEW q, NEW S, s \in Seen(U, q, S),
           q \in U, NEW v \in LowPages, s.fate = "runs"
    PROVE  /\ v \in S <=> Present(virt_to_phys(s.mem, q, v * PAGE))
           /\ v \in S <=> Mapped(s.mem, q, v * PAGE)
<1>1. /\ s.mem \in Mem /\ s.avail \in SUBSET Frames /\ U \in SUBSET Frames
      /\ Tame(s.mem, U) /\ (q \in U => View(s.mem, q) = S)
      /\ \E u : /\ Rooted(u, s.mem, s.avail, U) /\ Pages(u, s.mem, s.avail)
                /\ \A z \in roots : z \in Memory /\ u[z] = "pml4"
  BY SeenRooted
<1>2. PICK u : /\ Rooted(u, s.mem, s.avail, U) /\ Pages(u, s.mem, s.avail)
               /\ \A z \in roots : z \in Memory /\ u[z] = "pml4"
  BY <1>1
<1>3. q \in Memory /\ u[q] = "pml4"
  BY <1>2 DEF Programs
<1>4. v * PAGE \in Nat /\ Index(v * PAGE, 3) \in 0 .. HALF - 1
  BY PageDigits
<1>5. Mapped(s.mem, q, v * PAGE) <=> Present(virt_to_phys(s.mem, q, v * PAGE))
  BY <1>1, <1>2, <1>3, <1>4, MappedIsFound
<1>6. v \in View(s.mem, q) <=> Mapped(s.mem, q, v * PAGE)
  BY ViewFacts
<1> QED
  BY <1>1, <1>5, <1>6

LEMMA UnmapSeen ==
    ASSUME NEW own, NEW roots, NEW loose, NEW s \in Kept(own, roots, loose),
           NEW U, Programs(U, roots), NEW q, NEW S, s \in Seen(U, q, S),
           NEW p \in roots \cap Memory, NEW a \in Nat
    PROVE  LET x == Unmap(s, p, a) IN
           /\ x \in Works /\ (s.ran => x.ran) /\ x.fate = s.fate
           /\ q # p => x \in Seen(U, q, S)
           /\ \A v \in LowPages : q = p /\ p \in U /\ a = v * PAGE => x \in Seen(U, q, S \ {v})
<1> DEFINE t == TableAt(s.mem, p, a, 1)
           k == Index(a, 1)
           x == Unmap(s, p, a)
<1>1. s \in Works /\ s.mem \in Mem /\ p \in Memory
  BY KeptFacts DEF Kept
<1>2. x \in Works /\ x.fate = s.fate /\ x.ran = s.ran
  BY <1>1, UnmapType
<1>3. x = IF t = NULL THEN s ELSE [s EXCEPT !.mem[t][k] = Zero]
  BY DEF Unmap
<1>4. t = NULL \/ t \in Memory
  BY <1>1, TableType
<1> HIDE DEF x
<1>5. CASE t = NULL
  <2>1. x = s
    BY <1>3, <1>5
  <2>2. ASSUME NEW v \in LowPages, q = p, p \in U, a = v * PAGE
        PROVE  x \in Seen(U, q, S \ {v})
    <3>1. CASE s.fate # "runs"
      BY <1>2, <3>1, SeenFacts
    <3>2. CASE s.fate = "runs"
      <4>1. q \in U
        BY <2>2
      <4>2. v \in S <=> Mapped(s.mem, q, v * PAGE)
        BY <3>2, <4>1, SeenMapped
      <4>3. v \notin S
        BY <1>5, <2>2, <4>2 DEF Mapped
      <4>4. S \ {v} = S
        BY <4>3
      <4> QED
        BY <2>1, <4>4
    <3> QED
      BY <3>1, <3>2
  <2> HIDE DEF t
  <2> QED
    BY <1>2, <2>1, <2>2 DEF x
<1>6. CASE t # NULL
  <2>1. x = [s EXCEPT !.mem[t][k] = Zero]
    BY <1>3, <1>6
  <2>2. k \in Entry
    BY IndexType
  <2>3. Wrote(x.mem, s.mem, t, k, Zero)
    <3> HIDE DEF t, k
    <3>1. x.mem = [s.mem EXCEPT ![t][k] = Zero]
      BY <1>1, <2>1 DEF Works
    <3> QED
      BY <1>1, <1>4, <1>6, <2>2, <3>1 DEF Mem, Wrote
  <2>4. "huge" \notin Zero.flags /\ ~Present(Zero)
    BY DEF Zero, Present
  <2>5. Wrote(x.mem, s.mem, TableAt(s.mem, p, a, 1), Index(a, 1), Zero)
        /\ TableAt(s.mem, p, a, 1) # NULL
    BY <1>6, <2>3
  <2> HIDE DEF t, k
  <2>6. x.fate = "runs" => s.fate = "runs"
    BY <1>2
  <2>7. \A T : Revised(T, S, q, p, a, Zero) => x \in Seen(U, q, T)
    BY <1>2, <2>4, <2>5, <2>6, WroteSeen
  <2>8. q # p => x \in Seen(U, q, S)
    BY <2>7 DEF Revised
  <2>9. ASSUME NEW v \in LowPages, q = p, a = v * PAGE
        PROVE  x \in Seen(U, q, S \ {v})
    BY <2>4, <2>7, <2>9 DEF Revised
  <2> QED
    BY <1>2, <2>8, <2>9 DEF x
<1> QED
  BY <1>5, <1>6

LEMMA DropSeen ==
    ASSUME NEW own, NEW roots, NEW loose, NEW s \in Kept(own, roots, loose),
           NEW U, Programs(U, roots), NEW q, NEW S, s \in Seen(U, q, S),
           NEW p \in roots \cap Memory, NEW a \in Nat
    PROVE  LET x == Drop(s, p, a) IN
           /\ q # p => x \in Seen(U, q, S)
           /\ \A v \in LowPages : q = p /\ p \in U /\ a = v * PAGE => x \in Seen(U, q, S \ {v})
<1> DEFINE e == virt_to_phys(s.mem, p, a)
           y == Unmap(s, p, a)
           x == Drop(s, p, a)
<1>1. s \in Works /\ s.mem \in Mem /\ p \in Memory
  BY KeptFacts DEF Kept
<1>2. e \in Entries
  BY <1>1, virtType
<1>3. x = IF Present(e) THEN FreePage(y, e) ELSE s
  BY DEF Drop
<1>4. /\ y \in Works /\ y.fate = s.fate
      /\ q # p => y \in Seen(U, q, S)
      /\ \A v \in LowPages : q = p /\ p \in U /\ a = v * PAGE => y \in Seen(U, q, S \ {v})
  BY UnmapSeen
<1> HIDE DEF x, y
<1>5. FreePage(y, e) \in Works /\ FreePage(y, e).mem = y.mem
      /\ (FreePage(y, e).fate = "runs" => y.fate = "runs")
  BY <1>2, <1>4, FreePageType
<1>6. CASE Present(e)
  <2>1. x \in Works /\ x.mem = y.mem /\ (x.fate = "runs" => y.fate = "runs")
    BY <1>3, <1>5, <1>6
  <2>2. \A T : y \in Seen(U, q, T) => x \in Seen(U, q, T)
    BY <2>1, SameSeen
  <2> QED
    BY <1>4, <2>2 DEF x
<1>7. CASE ~Present(e)
  <2>1. x = s
    BY <1>3, <1>7
  <2>2. ASSUME NEW v \in LowPages, q = p, p \in U, a = v * PAGE
        PROVE  x \in Seen(U, q, S \ {v})
    <3>1. CASE s.fate # "runs"
      BY <1>1, <2>1, <3>1, SeenFacts
    <3>2. CASE s.fate = "runs"
      <4>1. q \in U
        BY <2>2
      <4>2. v \in S <=> Present(virt_to_phys(s.mem, q, v * PAGE))
        BY <3>2, <4>1, SeenMapped
      <4>3. v \notin S
        BY <1>7, <2>2, <4>2
      <4>4. S \ {v} = S
        BY <4>3
      <4> QED
        BY <2>1, <4>4
    <3> QED
      BY <3>1, <3>2
  <2> QED
    BY <2>1, <2>2 DEF x
<1> QED
  BY <1>6, <1>7

LEMMA BackPageSeen ==
    ASSUME NEW own, NEW roots, NEW s \in Kept(own, roots, {}),
           NEW U, Programs(U, roots), NEW q, NEW S, s \in Seen(U, q, S),
           NEW p \in roots \cap Memory, NEW a \in Nat, NEW fl \in SUBSET Rights,
           ~Low(p, a)
    PROVE  LET x == BackPage(s, p, a, fl) IN
           /\ s.ran => x.ran
           /\ q # p => x \in Seen(U, q, S)
           /\ s.avail = {} => /\ x \in Seen(U, q, S) /\ x.ran /\ x.count = s.count
                              /\ x.avail = {}
           /\ s.avail # {} => x.count = s.count + 1
           /\ \A v \in LowPages : s.avail # {} /\ q = p /\ p \in U /\ a = v * PAGE =>
                  \/ x \in Seen(U, q, S \cup {v})
                  \/ x \in Seen(U, q, S) /\ x.ran
<1> DEFINE g == Fresh(s)
           y == Map(Take(s), p, a, g, fl)
           x == BackPage(s, p, a, fl)
<1>1. s \in Works /\ x \in Works
  BY BackPageType DEF Kept
<1>2. x = IF s.avail = {} THEN RanOut(s) ELSE [y EXCEPT !.count = @ + 1]
  BY DEF BackPage
<1>3. CASE s.avail = {}
  <2>1. x = RanOut(s)
    BY <1>2, <1>3
  <2>2. x.mem = s.mem /\ x.fate = s.fate /\ x.ran /\ x.count = s.count /\ x.avail = {}
    BY <1>1, <1>3, <2>1, RanOutType
  <2> HIDE DEF x
  <2>3. x \in Seen(U, q, S)
    BY <1>1, <2>2, SameSeen
  <2> QED
    BY <1>3, <2>2, <2>3 DEF x
<1>4. CASE s.avail # {}
  <2>1. g \in Memory
    BY <1>1, <1>4, FreshIn
  <2>2. Take(s) \in Kept(own, roots, {} \cup {g})
    BY <1>4, TakeKeeps
  <2>3. Take(s) \in Seen(U, q, S)
    BY <1>4, TakeSeen
  <2>4. Take(s).ran = s.ran /\ Take(s).count = s.count /\ Take(s) \in Works
    BY <1>1, <1>4, TakeType
  <2> HIDE DEF g
  <2>5. /\ y \in Works /\ (Take(s).ran => y.ran)
        /\ q # p => y \in Seen(U, q, S)
        /\ \A v \in LowPages : q = p /\ p \in U /\ a = v * PAGE =>
               \/ y \in Seen(U, q, S \cup {v})
               \/ y \in Seen(U, q, S) /\ y.ran
    BY <2>1, <2>2, <2>3, MapSeen
  <2>6. y.count = s.count
    <3>1. g \in 0 .. TOP - 1
      BY <2>1, Places
    <3>2. p \in Memory
      OBVIOUS
    <3> QED
      BY <2>4, <3>1, <3>2, MapType
  <2>7. x = [y EXCEPT !.count = @ + 1]
    BY <1>2, <1>4
  <2> HIDE DEF y, x
  <2>8. x.mem = y.mem /\ x.fate = y.fate /\ x.ran = y.ran /\ x.count = s.count + 1
    BY <2>5, <2>6, <2>7 DEF Works
  <2>9. \A T : y \in Seen(U, q, T) => x \in Seen(U, q, T)
    BY <1>1, <2>8, SameSeen
  <2> QED
    BY <1>4, <2>4, <2>5, <2>8, <2>9 DEF x
<1> QED
  BY <1>3, <1>4

LEMMA ReprotectSeen ==
    ASSUME NEW own, NEW roots, NEW s \in Kept(own, roots, {}),
           NEW U, Programs(U, roots), NEW q, NEW S, s \in Seen(U, q, S),
           NEW p \in roots \cap Memory, NEW a \in Nat, NEW fl \in SUBSET Rights,
           ~Low(p, a)
    PROVE  LET x == Reprotect(s, p, a, fl) IN
           /\ s.ran => x.ran
           /\ q # p => x \in Seen(U, q, S)
           /\ \A v \in LowPages : q = p /\ p \in U /\ a = v * PAGE =>
                  \/ x \in Seen(U, q, S)
                  \/ x \in Seen(U, q, S \ {v}) /\ x.ran
<1> DEFINE e == virt_to_phys(s.mem, p, a)
           y == Unmap(s, p, a)
           z == Map(y, p, a, e.to, fl)
           x == Reprotect(s, p, a, fl)
<1>1. s \in Works /\ s.mem \in Mem /\ p \in Memory
  BY KeptFacts DEF Kept
<1>2. e \in Entries
  BY <1>1, virtType
<1>3. x = IF Present(e) THEN z ELSE s
  BY DEF Reprotect
<1>4. /\ y \in Works /\ y.fate = s.fate /\ (s.ran => y.ran)
      /\ q # p => y \in Seen(U, q, S)
      /\ \A v \in LowPages : q = p /\ p \in U /\ a = v * PAGE => y \in Seen(U, q, S \ {v})
  BY UnmapSeen
<1>5. y \in Kept(own, roots, {})
  BY UnmapKeeps
<1> HIDE DEF y
<1>6. CASE ~Present(e)
  <2>1. x = s
    BY <1>3, <1>6
  <2> HIDE DEF x
  <2> QED
    BY <2>1 DEF x
<1>7. CASE Present(e)
  <2>1. e.to \in Memory
    BY <1>2, <1>7, Places
  <2>2. ASSUME NEW T, y \in Seen(U, q, T)
        PROVE  /\ z \in Works /\ (y.ran => z.ran)
               /\ q # p => z \in Seen(U, q, T)
               /\ \A v \in LowPages : q = p /\ p \in U /\ a = v * PAGE =>
                      \/ z \in Seen(U, q, T \cup {v})
                      \/ z \in Seen(U, q, T) /\ z.ran
    <3> HIDE DEF e
    <3> QED
      BY <1>5, <2>1, <2>2, MapSeen
  <2>3. x = z
    BY <1>3, <1>7
  <2>4. z \in Works
    <3>1. e.to \in 0 .. TOP - 1
      BY <2>1, Places
    <3> HIDE DEF e
    <3> QED
      BY <1>1, <1>4, <3>1, MapType
  <2>5. ASSUME NEW v \in LowPages, q = p, p \in U, a = v * PAGE
        PROVE  /\ z \in Seen(U, q, S) \/ (z \in Seen(U, q, S \ {v}) /\ z.ran)
               /\ y.ran => z.ran
    <3>1. y \in Seen(U, q, S \ {v})
      BY <1>4, <2>5
    <3>2. /\ y.ran => z.ran
          /\ \/ z \in Seen(U, q, (S \ {v}) \cup {v})
             \/ z \in Seen(U, q, S \ {v}) /\ z.ran
      <4> HIDE DEF z
      <4> QED
        BY <2>2, <2>5, <3>1
    <3>3. CASE s.fate # "runs"
      <4>1. z.fate = y.fate
        <5>1. e.to \in 0 .. TOP - 1
          BY <2>1, Places
        <5> HIDE DEF e
        <5> QED
          BY <1>1, <1>4, <5>1, MapType
      <4>2. z.fate # "runs"
        BY <1>4, <3>3, <4>1
      <4> HIDE DEF z
      <4> QED
        BY <2>4, <3>2, <4>2, SeenFacts
    <3>4. CASE s.fate = "runs"
      <4>1. q \in U
        BY <2>5
      <4>2. v \in S <=> Present(virt_to_phys(s.mem, q, v * PAGE))
        BY <3>4, <4>1, SeenMapped
      <4>3. v \in S
        BY <1>7, <2>5, <4>2
      <4>4. (S \ {v}) \cup {v} = S
        BY <4>3
      <4> HIDE DEF z
      <4> QED
        BY <3>2, <4>4
    <3> QED
      BY <3>3, <3>4
  <2>6. q # p => z \in Seen(U, q, S) /\ (y.ran => z.ran)
    <3> HIDE DEF z
    <3> QED
      BY <1>4, <2>2
  <2>7. y.ran => z.ran
    <3> HIDE DEF e
    <3> QED
      BY <1>1, <1>4, MapRan
  <2>8. s.ran => z.ran
    BY <1>4, <2>7
  <2> HIDE DEF z, x
  <2> QED
    BY <2>3, <2>5, <2>6, <2>8 DEF x
<1> QED
  BY <1>6, <1>7

-----------------------------------------------------------------------------
(* The loops over pages. *)

LEMMA LowWords ==
    ASSUME NEW v \in LowPages
    PROVE  v \in Nat /\ v * PAGE \in Nat /\ v * PAGE < WORD /\ v * PAGE \in Address
<1> DEFINE EE == ENTRIES * ENTRIES
<1>1. ENTRIES \in Nat \ {0} /\ PAGE \in Nat \ {0} /\ HALF \in Nat \ {0} /\ ENTRIES = 2 * HALF
      /\ EE \in Nat \ {0} /\ WORD \in Nat
  <2>1. ENTRIES \in Nat \ {0} /\ PAGE \in Nat \ {0} /\ HALF \in Nat \ {0} /\ ENTRIES = 2 * HALF
        /\ WORD \in Nat
    BY Geometry
  <2> QED
    BY <2>1
<1>2. SpacePages = ENTRIES * EE /\ WORD > PAGE * SpacePages
  BY GeometryAssumption DEF SpacePages
<1>3. v \in 0 .. HALF * EE - 1
  BY DEF LowPages
<1> HIDE DEF EE
<1>4. HALF * EE \in Nat /\ ENTRIES * EE = HALF * EE + HALF * EE
  BY <1>1
<1>5. v \in Nat /\ v <= SpacePages /\ SpacePages \in Nat
  BY <1>2, <1>3, <1>4
<1>6. PAGE * v <= PAGE * SpacePages /\ PAGE * v \in Nat /\ PAGE * v = v * PAGE
      /\ PAGE * SpacePages \in Nat
  BY <1>1, <1>5
<1> QED
  BY <1>1, <1>2, <1>5, <1>6 DEF Address

LEMMA LowRun ==
    ASSUME NEW v \in Nat, NEW k \in Nat, v + k \in LowPages
    PROVE  PageOf(v * PAGE, k) = (v + k) * PAGE
<1>1. (v + k) * PAGE \in Nat /\ (v + k) * PAGE < WORD /\ PAGE \in Nat /\ WORD \in Nat \ {0}
  BY LowWords, Geometry
<1>2. (v + k) * PAGE = v * PAGE + k * PAGE
  BY <1>1
<1> QED
  BY <1>1, <1>2 DEF PageOf

\* The calls' loops leave what another space maps.
LEMMA LoopsPass ==
    ASSUME NEW own, NEW roots, NEW s \in Kept(own, roots, {}),
           NEW U, Programs(U, roots), NEW q, NEW S, s \in Seen(U, q, S),
           NEW p \in roots \cap Memory, q # p, NEW a \in Address, NEW n \in Nat,
           NEW fl \in SUBSET Rights, \A v \in Run(a, n) : ~Low(p, v)
    PROVE  /\ DropPages(s, p, a, n) \in Seen(U, q, S) /\ Back(s, p, a, n, fl) \in Seen(U, q, S)
           /\ UnmapEach(s, p, a, n) \in Seen(U, q, S)
           /\ ReprotectEach(s, p, a, n, fl) \in Seen(U, q, S)
<1> DEFINE W == Kept(own, roots, {}) \cap Seen(U, q, S)
<1>1. s \in Works /\ s \in W /\ p \in Memory
  BY DEF Kept
<1>2. \A k \in 0 .. n - 1 : PageOf(a, k) \in Nat
  <2> TAKE k \in 0 .. n - 1
  <2>1. k \in Nat
    OBVIOUS
  <2> QED
    BY <2>1, Words
<1>3. ASSUME NEW x \in Works, NEW k \in 0 .. n - 1, x \in W
      PROVE  /\ Drop(x, p, PageOf(a, k)) \in W
             /\ BackPage(x, p, PageOf(a, k), fl) \in W
             /\ Unmap(x, p, PageOf(a, k)) \in W
             /\ Reprotect(x, p, PageOf(a, k), fl) \in W
  <2> DEFINE b == PageOf(a, k)
  <2>1. b \in Nat /\ x \in Kept(own, roots, {}) /\ x \in Seen(U, q, S)
    BY <1>2, <1>3
  <2>6. ~Low(p, b)
    BY DEF Run
  <2> HIDE DEF b
  <2>2. Drop(x, p, b) \in W
    BY <2>1, <2>6, DropKeeps, DropSeen
  <2>3. BackPage(x, p, b, fl) \in W
    BY <2>1, <2>6, BackPageKeeps, BackPageSeen
  <2>4. Unmap(x, p, b) \in W
    BY <2>1, UnmapKeeps, UnmapSeen
  <2>5. Reprotect(x, p, b, fl) \in W
    BY <2>1, <2>6, ReprotectKeeps, ReprotectSeen
  <2> QED
    BY <2>2, <2>3, <2>4, <2>5 DEF b
<1> HIDE DEF W
<1>4. DropPages(s, p, a, n) \in W
  BY <1>1, <1>3, DropLoop
<1>5. Back(s, p, a, n, fl) \in W
  BY <1>1, <1>3, BackLoop
<1>6. UnmapEach(s, p, a, n) \in W
  BY <1>1, <1>3, UnmapLoop
<1>7. ReprotectEach(s, p, a, n, fl) \in W
  BY <1>1, <1>3, ReprotectLoop
<1> QED
  BY <1>4, <1>5, <1>6, <1>7 DEF W

\* Pages v, v + 1, ... of a program's own space: dropped, they are not mapped.
LEMMA DropsSeen ==
    ASSUME NEW own, NEW roots, NEW s \in Kept(own, roots, {}),
           NEW U, Programs(U, roots), NEW p, NEW S, s \in Seen(U, p, S),
           p \in roots, p \in U, NEW v \in Nat, NEW n \in Nat,
           \A k \in 0 .. n - 1 : v + k \in LowPages, v \in LowPages
    PROVE  DropPages(s, p, v * PAGE, n) \in Seen(U, p, S \ (v .. v + n - 1))
<1> DEFINE G == [k \in 0 .. n |-> Kept(own, roots, {}) \cap Seen(U, p, S \ (v .. v + k - 1))]
<1>1. s \in Works /\ p \in Memory /\ p \in roots \cap Memory
  BY Places DEF Kept, Programs
<1>2. s \in G[0]
  <2>1. S \ (v .. v + 0 - 1) = S
    OBVIOUS
  <2>2. 0 \in 0 .. n
    OBVIOUS
  <2> QED
    BY <2>1, <2>2
<1>3. ASSUME NEW x \in Works, NEW k \in 0 .. n - 1, x \in G[k]
      PROVE  Drop(x, p, PageOf(v * PAGE, k)) \in G[k + 1]
  <2> DEFINE T == S \ (v .. v + k - 1)
             w == v + k
  <2>1. k \in 0 .. n /\ k + 1 \in 0 .. n /\ k \in Nat
    OBVIOUS
  <2>2. x \in Kept(own, roots, {}) /\ x \in Seen(U, p, T)
    BY <1>3, <2>1
  <2>3. w \in LowPages /\ PageOf(v * PAGE, k) = w * PAGE /\ w * PAGE \in Nat
    BY <2>1, LowRun, LowWords
  <2>4. T \ {w} = S \ (v .. v + (k + 1) - 1)
    BY <2>1
  <2> HIDE DEF T, w
  <2>5. Drop(x, p, w * PAGE) \in Kept(own, roots, {})
    BY <1>1, <2>2, <2>3, ProgramsHigh, DropKeeps
  <2>6. Drop(x, p, w * PAGE) \in Seen(U, p, T \ {w})
    BY <1>1, <2>2, <2>3, ProgramsHigh, DropSeen
  <2> QED
    BY <2>1, <2>3, <2>4, <2>5, <2>6
<1> HIDE DEF G
<1>4. v * PAGE \in Address
  BY LowWords
<1>5. DropPages(s, p, v * PAGE, n) \in G[n]
  BY <1>1, <1>2, <1>3, <1>4, DropLoop
<1>6. n \in 0 .. n
  OBVIOUS
<1> QED
  BY <1>5, <1>6 DEF G

\* Backed: the first ones are mapped, up to the first that cannot be had.
Filling(x, U, p, S, v, n) ==
    /\ x.count \in 0 .. n
    /\ \E T \in SUBSET (v .. v + x.count - 1) :
           /\ x \in Seen(U, p, S \cup T)
           /\ ~x.ran => T = v .. v + n - 1

LEMMA BackFills ==
    ASSUME NEW own, NEW roots, NEW s \in Kept(own, roots, {}), s.count = 0,
           NEW U, Programs(U, roots), NEW p, NEW S, s \in Seen(U, p, S),
           p \in roots, p \in U, NEW v \in LowPages, NEW n \in Nat, NEW fl \in SUBSET Rights,
           \A k \in 0 .. n - 1 : v + k \in LowPages
    PROVE  Filling(Back(s, p, v * PAGE, n, fl), U, p, S, v, n)
<1> DEFINE Holds(x, k) ==
               /\ x \in Kept(own, roots, {}) /\ x.count \in 0 .. k
               /\ x.avail # {} \/ ~x.ran => x.count = k
               /\ \E T \in SUBSET (v .. v + x.count - 1) :
                      x \in Seen(U, p, S \cup T) /\ (~x.ran => T = v .. v + k - 1)
           G == [k \in 0 .. n |-> {x \in Works : Holds(x, k)}]
<1>1. s \in Works /\ p \in Memory /\ p \in roots \cap Memory /\ v \in Nat
  BY Places, LowWords DEF Kept, Programs
<1>2. s \in G[0]
  <2>1. 0 \in 0 .. n /\ v .. v + 0 - 1 = {} /\ S \cup {} = S /\ {} \in SUBSET (v .. v + s.count - 1)
    BY <1>1
  <2>3. s \in Seen(U, p, S \cup {}) /\ (~s.ran => {} = v .. v + 0 - 1)
    BY <2>1
  <2>4. s.count \in 0 .. 0 /\ s.count = 0
    OBVIOUS
  <2>2. Holds(s, 0)
    BY <2>1, <2>3, <2>4, Zenon
  <2> HIDE DEF Holds
  <2> QED
    BY <1>1, <2>1, <2>2
<1>3. ASSUME NEW x \in Works, NEW k \in 0 .. n - 1, x \in G[k]
      PROVE  BackPage(x, p, PageOf(v * PAGE, k), fl) \in G[k + 1]
  <2> DEFINE w == v + k
             y == BackPage(x, p, w * PAGE, fl)
  <2>1. k \in 0 .. n /\ k + 1 \in 0 .. n /\ k \in Nat
    OBVIOUS
  <2>2. Holds(x, k)
    BY <1>3, <2>1
  <2>3. w \in LowPages /\ PageOf(v * PAGE, k) = w * PAGE /\ w * PAGE \in Nat /\ w \in Nat
    BY <2>1, LowRun, LowWords
  <2>4. PICK T \in SUBSET (v .. v + x.count - 1) :
            x \in Seen(U, p, S \cup T) /\ (~x.ran => T = v .. v + k - 1)
    BY <2>2
  <2>5. x \in Kept(own, roots, {}) /\ x.count \in 0 .. k
        /\ (x.avail # {} \/ ~x.ran => x.count = k)
    BY <2>2
  <2>6. v .. w = (v .. v + k - 1) \cup {w}
    BY <1>1, <2>1, <2>3
  <2> HIDE DEF w, Holds
  <2>7. y \in Kept(own, roots, {}) /\ y \in Works
    BY <1>1, <2>3, <2>5, ProgramsHigh, BackPageKeeps DEF Kept
  <2>8. /\ x.ran => y.ran
        /\ x.avail = {} => /\ y \in Seen(U, p, S \cup T) /\ y.ran /\ y.count = x.count
                           /\ y.avail = {}
        /\ x.avail # {} => y.count = x.count + 1
        /\ x.avail # {} => \/ y \in Seen(U, p, (S \cup T) \cup {w})
                           \/ y \in Seen(U, p, S \cup T) /\ y.ran
    <3> DEFINE SS == S \cup T
    <3>1. x \in Seen(U, p, SS)
      BY <2>4
    <3> HIDE DEF SS
    <3>2. /\ x.ran => y.ran
          /\ p # p => y \in Seen(U, p, SS)
          /\ x.avail = {} => /\ y \in Seen(U, p, SS) /\ y.ran /\ y.count = x.count
                             /\ y.avail = {}
          /\ x.avail # {} => y.count = x.count + 1
          /\ \A z \in LowPages : x.avail # {} /\ p = p /\ p \in U /\ w * PAGE = z * PAGE =>
                 \/ y \in Seen(U, p, SS \cup {z})
                 \/ y \in Seen(U, p, SS) /\ y.ran
      BY <1>1, <2>3, <2>5, <3>1, ProgramsHigh, BackPageSeen
    <3> HIDE DEF y
    <3> QED
      BY <2>3, <3>2 DEF SS
  <2> HIDE DEF y
  <2>9. CASE x.avail = {}
    <3>1. y.count \in 0 .. k + 1 /\ T \in SUBSET (v .. v + y.count - 1)
      BY <2>1, <2>5, <2>8, <2>9
    <3>2. Holds(y, k + 1)
      BY <2>7, <2>8, <2>9, <3>1 DEF Holds
    <3> QED
      BY <2>1, <2>3, <2>7, <3>2 DEF y
  <2>10. CASE x.avail # {}
    <3>1. y.count = k + 1 /\ x.count = k /\ v + y.count - 1 = w /\ v + (k + 1) - 1 = w
      BY <2>1, <2>5, <2>8, <2>10 DEF w
    <3>2. T \cup {w} \in SUBSET (v .. w) /\ T \in SUBSET (v .. w)
      BY <2>4, <2>6, <3>1
    <3>3. ~x.ran => T \cup {w} = v .. w
      BY <2>4, <2>6
    <3>4. (S \cup T) \cup {w} = S \cup (T \cup {w})
      OBVIOUS
    <3>5. \E R \in SUBSET (v .. v + y.count - 1) :
              y \in Seen(U, p, S \cup R) /\ (~y.ran => R = v .. v + (k + 1) - 1)
      <4>1. CASE y \in Seen(U, p, (S \cup T) \cup {w})
        <5>1. y \in Seen(U, p, S \cup (T \cup {w})) /\ (~y.ran => T \cup {w} = v .. v + (k + 1) - 1)
          BY <2>8, <3>1, <3>3, <3>4, <4>1
        <5> QED
          BY <3>1, <3>2, <5>1
      <4>2. CASE y \in Seen(U, p, S \cup T) /\ y.ran
        BY <3>1, <3>2, <4>2
      <4> QED
        BY <2>8, <2>10, <4>1, <4>2
    <3>7. y.count \in 0 .. k + 1
      BY <2>1, <3>1
    <3>6. Holds(y, k + 1)
      BY <2>7, <3>1, <3>5, <3>7, Zenon DEF Holds
    <3> QED
      BY <2>1, <2>3, <2>7, <3>6 DEF y
  <2> QED
    BY <2>9, <2>10
<1> HIDE DEF G
<1>4. v * PAGE \in Address
  BY LowWords
<1>5. Back(s, p, v * PAGE, n, fl) \in G[n]
  BY <1>1, <1>2, <1>3, <1>4, BackLoop
<1>6. n \in 0 .. n
  OBVIOUS
<1> DEFINE z == Back(s, p, v * PAGE, n, fl)
<1>7. Holds(z, n)
  BY <1>5, <1>6 DEF G
<1> HIDE DEF z
<1>8. Filling(z, U, p, S, v, n)
  BY <1>7 DEF Filling
<1> QED
  BY <1>8 DEF z

LEMMA ReprotectsSeen ==
    ASSUME NEW own, NEW roots, NEW s \in Kept(own, roots, {}),
           NEW U, Programs(U, roots), NEW p, NEW S, s \in Seen(U, p, S),
           p \in roots, p \in U, NEW v \in Nat, NEW n \in Nat, NEW fl \in SUBSET Rights,
           \A k \in 0 .. n - 1 : v + k \in LowPages, v \in LowPages
    PROVE  LET x == ReprotectEach(s, p, v * PAGE, n, fl) IN
           /\ \E T : x \in Seen(U, p, T)
           /\ ~x.ran => x \in Seen(U, p, S)
<1> DEFINE W == {x \in Works : /\ x \in Kept(own, roots, {})
                               /\ \E T : x \in Seen(U, p, T) /\ (~x.ran => T = S)}
<1>1. s \in Works /\ p \in Memory /\ p \in roots \cap Memory /\ s \in W
  BY Places DEF Kept, Programs
<1>2. ASSUME NEW x \in Works, NEW k \in 0 .. n - 1, x \in W
      PROVE  Reprotect(x, p, PageOf(v * PAGE, k), fl) \in W
  <2> DEFINE w == v + k
             y == Reprotect(x, p, w * PAGE, fl)
  <2>1. k \in Nat
    OBVIOUS
  <2>2. PICK T : x \in Seen(U, p, T) /\ (~x.ran => T = S)
    BY <1>2
  <2>3. w \in LowPages /\ PageOf(v * PAGE, k) = w * PAGE /\ w * PAGE \in Nat
    BY <2>1, LowRun, LowWords
  <2>4. x \in Kept(own, roots, {})
    BY <1>2
  <2> HIDE DEF w
  <2>5. y \in Kept(own, roots, {}) /\ y \in Works
    BY <1>1, <2>3, <2>4, ProgramsHigh, ReprotectKeeps DEF Kept
  <2>6. /\ x.ran => y.ran
        /\ p # p => y \in Seen(U, p, T)
        /\ \A z \in LowPages : p = p /\ p \in U /\ w * PAGE = z * PAGE =>
               \/ y \in Seen(U, p, T)
               \/ y \in Seen(U, p, T \ {z}) /\ y.ran
    BY <1>1, <2>2, <2>3, <2>4, ProgramsHigh, ReprotectSeen
  <2> HIDE DEF y
  <2>7. \E R : y \in Seen(U, p, R) /\ (~y.ran => R = S)
    BY <2>2, <2>3, <2>6
  <2> QED
    BY <2>3, <2>5, <2>7 DEF y
<1>3. v * PAGE \in Address
  BY LowWords
<1> HIDE DEF W
<1>4. ReprotectEach(s, p, v * PAGE, n, fl) \in W
  BY <1>1, <1>2, <1>3, ReprotectLoop
<1> QED
  BY <1>4 DEF W

-----------------------------------------------------------------------------
(* Records: the list of regions is changed, and what is mapped is not. *)

Booked(s, d) ==
    /\ d \in Works /\ d.fate = s.fate /\ d.avail \subseteq s.avail /\ (s.ran => d.ran)
    /\ \A t \in Memory : d.mem[t] = s.mem[t] \/ (t \in s.avail /\ d.mem[t] = Blank)

LEMMA BookedTrans ==
    ASSUME NEW s, NEW d, NEW c, Booked(s, d), Booked(d, c)
    PROVE  Booked(s, c)
BY DEF Booked

LEMMA BookedSeen ==
    ASSUME NEW own, NEW roots, NEW loose, NEW s \in Kept(own, roots, loose),
           NEW U, Programs(U, roots), NEW q, NEW S, s \in Seen(U, q, S),
           NEW d, Booked(s, d)
    PROVE  d \in Seen(U, q, S)
<1>1. s \in Works /\ s.avail \in SUBSET Frames
  BY DEF Kept, Works
<1>2. d \in Works /\ (d.fate = "runs" => s.fate = "runs")
  BY DEF Booked
<1>3. Beside(d.mem, s.mem, s.avail)
  BY DEF Booked, Beside
<1>4. \A f \in s.avail, k \in Entry :
          d.mem[f][k] = s.mem[f][k] \/ "huge" \notin d.mem[f][k].flags
  <2> TAKE f \in s.avail, k \in Entry
  <2>1. f \in Memory
    BY <1>1, Places
  <2>2. d.mem[f] = s.mem[f] \/ d.mem[f] = Blank
    BY <2>1 DEF Booked
  <2>3. Blank[k] = Zero /\ "huge" \notin Zero.flags
    BY DEF Blank, Zero, Entry
  <2> QED
    BY <2>2, <2>3
<1> QED
  BY <1>2, <1>3, <1>4, BesideSeen

LEMMA SetBooked ==
    ASSUME NEW s \in Works, NEW q \in Seq(Regions)
    PROVE  Booked(s, [s EXCEPT !.regions = q])
BY DEF Works, Booked

LEMMA TakeBooked ==
    ASSUME NEW s \in Works, s.avail # {}
    PROVE  Booked(s, Take(s))
<1>1. Fresh(s) \in s.avail /\ Fresh(s) \in Memory
  BY FreshIn
<1>2. /\ Take(s) \in Works
      /\ Take(s).mem = [s.mem EXCEPT ![Fresh(s)] = Blank]
      /\ Take(s).avail = s.avail \ {Fresh(s)}
      /\ Take(s).fate = s.fate /\ Take(s).ran = s.ran
  BY TakeType
<1>3. \A t \in Memory : Take(s).mem[t] = IF t = Fresh(s) THEN Blank ELSE s.mem[t]
  BY <1>2 DEF Works, Mem
<1> QED
  BY <1>1, <1>2, <1>3 DEF Booked

LEMMA CreateBooked ==
    ASSUME NEW s \in Works, NEW a \in Address, NEW b \in Address,
           NEW fl \in SUBSET RegionFlags
    PROVE  Booked(s, vmm_create_region(s, a, b, fl))
<1> DEFINE rs == s.regions
           d == vmm_create_region(s, a, b, fl)
<1>1. CASE d = s
  BY <1>1 DEF Booked
<1>2. CASE d = RanOut(s)
  BY <1>2, RanOutType DEF Booked
<1>3. ASSUME s.avail # {}, NEW at \in 1 .. Len(rs) + 1,
             d = [Take(s) EXCEPT !.regions = InsertAt(rs, at, Region(a, b, fl, Fresh(s)))]
      PROVE  Booked(s, d)
  <2>1. Region(a, b, fl, Fresh(s)) \in Regions
    BY <1>3, FreshIn DEF Region, Regions
  <2>2. rs \in Seq(Regions)
    BY DEF Works
  <2> HIDE DEF rs
  <2>3. InsertAt(rs, at, Region(a, b, fl, Fresh(s))) \in Seq(Regions)
    BY <2>1, <2>2, InsertFacts
  <2> DEFINE q == InsertAt(rs, at, Region(a, b, fl, Fresh(s)))
             t == Take(s)
  <2>4. t \in Works /\ Booked(s, t)
    BY <1>3, TakeType, TakeBooked
  <2>5. d = [t EXCEPT !.regions = q]
    BY <1>3
  <2> HIDE DEF q, t, d
  <2>6. Booked(t, d)
    BY <2>3, <2>4, <2>5, SetBooked DEF q
  <2> QED
    BY <2>4, <2>6, BookedTrans
<1> QED
  BY <1>1, <1>2, <1>3, CreateFacts

LEMMA OccupyBooked ==
    ASSUME NEW s \in Works, NEW a \in Address, NEW b \in Address,
           NEW fl \in SUBSET RegionFlags
    PROVE  Booked(s, Occupy(s, a, b, fl))
<1> DEFINE rs == s.regions
           i == Holder(rs, a)
           r == rs[i]
           cut == [s EXCEPT !.regions[i].end = a]
           whole == [s EXCEPT !.regions[i].flags = fl]
           front == vmm_create_region(s, a, b, fl)
           start == [front EXCEPT !.regions[i + 1].start = b]
           back == vmm_create_region(cut, a, b, fl)
           rest == vmm_create_region(back, b, r.end, FREE)
<1>0. rs \in Seq(Regions) /\ Booked(s, s)
  BY DEF Works, Booked
<1>1. Booked(s, cut) /\ Booked(s, whole)
  <2>1. [rs EXCEPT ![i].end = a] \in Seq(Regions) /\ [rs EXCEPT ![i].flags = fl] \in Seq(Regions)
    BY <1>0, EditType
  <2>2. /\ cut = [s EXCEPT !.regions = [rs EXCEPT ![i].end = a]]
        /\ whole = [s EXCEPT !.regions = [rs EXCEPT ![i].flags = fl]]
    BY DEF Works
  <2> HIDE DEF i
  <2> QED
    BY <2>1, <2>2, SetBooked
<1>2. Booked(s, front)
  BY CreateBooked
<1>3. Booked(s, start)
  <2> HIDE DEF front
  <2>1. front \in Works /\ front.regions \in Seq(Regions)
    BY <1>2 DEF Booked, Works
  <2>2. [front.regions EXCEPT ![i + 1].start = b] \in Seq(Regions)
    BY <2>1, EditType
  <2>3. start = [front EXCEPT !.regions = [front.regions EXCEPT ![i + 1].start = b]]
    BY <2>1 DEF Works
  <2>4. Booked(front, start)
    BY <2>1, <2>2, <2>3, SetBooked
  <2> QED
    BY <1>2, <2>4, BookedTrans
<1>4. Booked(s, back)
  <2>1. cut \in Works
    BY <1>1 DEF Booked
  <2> HIDE DEF cut
  <2>2. Booked(cut, back)
    BY <2>1, CreateBooked
  <2> QED
    BY <1>1, <2>2, BookedTrans
<1>5. i # 0 => Booked(s, rest)
  <2>1. i # 0 => r.end \in Address
    <3>1. i # 0 => i \in DOMAIN rs
      BY <1>0, HolderFacts
    <3> HIDE DEF rs, i
    <3>2. i # 0 => r \in Regions
      BY <1>0, <3>1, SeqFacts
    <3> QED
      BY <3>2 DEF Regions
  <2>2. back \in Works /\ FREE \in SUBSET RegionFlags
    BY <1>4 DEF Booked, FREE
  <2> HIDE DEF back
  <2>3. i # 0 => Booked(back, rest)
    BY <2>1, <2>2, CreateBooked
  <2> QED
    BY <1>4, <2>3, BookedTrans
<1>6. Occupy(s, a, b, fl) =
        CASE i = 0 -> s
          [] i # 0 /\ r.start = a /\ r.end = b -> whole
          [] i # 0 /\ r.start = a /\ r.end # b -> IF front.regions = s.regions THEN front ELSE start
          [] i # 0 /\ r.start # a /\ r.end = b -> back
          [] OTHER -> rest
  BY OccupyCases
<1> HIDE DEF i, r, cut, whole, front, start, back, rest
<1> QED
  BY <1>0, <1>1, <1>2, <1>3, <1>4, <1>5, <1>6

LEMMA AbsorbMem ==
    ASSUME NEW s \in Works, NEW i \in Nat, i \in DOMAIN s.regions, i + 1 \in DOMAIN s.regions
    PROVE  Absorb(s, i).mem = s.mem
<1> DEFINE f == FreeFrame(s, s.regions[i + 1].at)
<1>1. s.regions[i + 1].at \in Memory
  <2>1. s.regions \in Seq(Regions)
    BY DEF Works
  <2>2. s.regions[i + 1] \in Regions
    BY <2>1, SeqFacts
  <2> QED
    BY <2>2, Places DEF Regions
<1>2. f \in Works /\ f.mem = s.mem
  BY <1>1, FreeFrameType
<1>3. Absorb(s, i).mem = f.mem
  <2>1. Absorb(s, i) = [f EXCEPT !.regions =
            RemoveAt([s.regions EXCEPT ![i].end = s.regions[i + 1].end], i + 1)]
    BY AbsorbType
  <2> HIDE DEF f
  <2> QED
    BY <1>2, <2>1 DEF Works
<1> QED
  BY <1>2, <1>3

LEMMA ReleaseMem ==
    ASSUME NEW s \in Works, NEW i \in Nat, i \in DOMAIN s.regions
    PROVE  Release(s, i).mem = s.mem /\ Release(s, i).ran = s.ran
<1> DEFINE f == [s EXCEPT !.regions[i].flags = FREE]
           left == i > 1 /\ f.regions[i - 1].flags = FREE
           g == Absorb(f, i - 1)
           m == IF left THEN g ELSE f
           j == IF left THEN i - 1 ELSE i
           right == j < Len(m.regions) /\ m.regions[j + 1].flags = FREE
<1>1. Release(s, i) = IF right THEN Absorb(m, j) ELSE m
  BY DEF Release
<1>2. f \in Works /\ f.mem = s.mem /\ f.ran = s.ran /\ DOMAIN f.regions = DOMAIN s.regions
  <2>1. FREE \in SUBSET RegionFlags
    BY DEF FREE
  <2> HIDE DEF f
  <2>2. /\ f \in Works /\ f.mem = s.mem /\ f.ran = s.ran
        /\ f.regions = [s.regions EXCEPT ![i].flags = FREE]
    BY <2>1, SetFlags DEF f
  <2> QED
    BY <2>2
<1>3. f.regions \in Seq(Regions) /\ s.regions \in Seq(Regions)
  BY <1>2 DEF Works
<1> HIDE DEF f
<1>4. /\ DOMAIN f.regions = 1 .. Len(f.regions) /\ Len(f.regions) \in Nat
      /\ i \in 1 .. Len(f.regions)
  BY <1>2, <1>3, SeqFacts
<1>5. left => /\ g \in Works /\ g.mem = s.mem /\ g.ran = s.ran
              /\ Len(g.regions) = Len(f.regions) - 1
  <2>1. left => i - 1 \in Nat /\ i - 1 \in DOMAIN f.regions /\ (i - 1) + 1 \in DOMAIN f.regions
    BY <1>4
  <2>2. left => g.mem = f.mem
    BY <1>2, <2>1, AbsorbMem
  <2>3. left => g \in Works /\ g.ran = f.ran /\ Len(g.regions) = Len(f.regions) - 1
    BY <1>2, <2>1, AbsorbType
  <2> QED
    BY <1>2, <2>2, <2>3
<1>6. /\ m \in Works /\ m.mem = s.mem /\ m.ran = s.ran /\ j \in Nat \ {0}
      /\ j <= Len(m.regions)
  <2>1. CASE left
    BY <1>4, <1>5, <2>1
  <2>2. CASE ~left
    BY <1>2, <1>4, <2>2
  <2> QED
    BY <2>1, <2>2
<1> HIDE DEF m, j, left, g
<1>7. right => /\ Absorb(m, j).mem = s.mem /\ Absorb(m, j).ran = s.ran
  <2>1. m.regions \in Seq(Regions)
    BY <1>6 DEF Works
  <2>2. DOMAIN m.regions = 1 .. Len(m.regions) /\ Len(m.regions) \in Nat
    BY <2>1, SeqFacts
  <2>3. right => j \in DOMAIN m.regions /\ j + 1 \in DOMAIN m.regions
    BY <1>6, <2>2
  <2>4. right => Absorb(m, j).mem = m.mem
    BY <1>6, <2>3, AbsorbMem
  <2>5. right => Absorb(m, j).ran = m.ran
    BY <1>6, <2>3, AbsorbType
  <2> QED
    BY <1>6, <2>4, <2>5
<1> QED
  BY <1>1, <1>6, <1>7

-----------------------------------------------------------------------------
(* Areas in use, as pairs of bounds, and the pages in them. *)

Areas(rs) == {<<rs[i].start, rs[i].end>> : i \in {j \in DOMAIN rs : rs[j].flags # FREE}}
InAreas(A) == {v \in LowPages : \E x \in A : x[1] <= v * PAGE /\ v * PAGE < x[2]}
Square(A) == \A x \in A : x[1] % PAGE = 0

LEMMA AreaFacts ==
    ASSUME NEW rs
    PROVE  \A x : x \in Areas(rs) <=>
               \E i \in DOMAIN rs : rs[i].flags # FREE /\ x = <<rs[i].start, rs[i].end>>
BY DEF Areas

LEMMA SameAreas ==
    ASSUME NEW A, NEW B, \A x : x \in A <=> x \in B
    PROVE  A = B
OBVIOUS

LEMMA PutAreas ==
    ASSUME NEW rs \in Seq(Regions), NEW p \in 1 .. Len(rs) + 1, NEW e, NEW qs, Put(qs, rs, p, e)
    PROVE  /\ e.flags = FREE => Areas(qs) = Areas(rs)
           /\ e.flags # FREE => Areas(qs) = Areas(rs) \cup {<<e.start, e.end>>}
<1>1. /\ DOMAIN rs = 1 .. Len(rs) /\ Len(rs) \in Nat /\ p \in Nat
      /\ DOMAIN qs = 1 .. Len(rs) + 1
  BY SeqFacts DEF Put
<1>2. \A j \in DOMAIN qs : qs[j] = IF j < p THEN rs[j] ELSE IF j = p THEN e ELSE rs[j - 1]
  BY <1>1 DEF Put
<1>3. ASSUME NEW i \in DOMAIN rs
      PROVE  \E j \in DOMAIN qs : qs[j] = rs[i]
  <2>1. CASE i < p
    <3>1. i \in DOMAIN qs
      BY <1>1
    <3> QED
      BY <1>2, <2>1, <3>1
  <2>2. CASE ~(i < p)
    <3>1. i + 1 \in DOMAIN qs /\ ~(i + 1 < p) /\ i + 1 # p /\ (i + 1) - 1 = i
      BY <1>1, <2>2
    <3>2. qs[i + 1] = rs[i]
      BY <1>2, <3>1
    <3> QED
      BY <3>1, <3>2
  <2> QED
    BY <2>1, <2>2
<1>4. ASSUME NEW j \in DOMAIN qs
      PROVE  qs[j] = e \/ \E i \in DOMAIN rs : qs[j] = rs[i]
  <2>1. CASE j < p
    <3>1. j \in DOMAIN rs
      BY <1>1, <2>1
    <3> QED
      BY <1>2, <2>1, <3>1
  <2>2. CASE j = p
    <3>1. ~(j < p)
      BY <1>1, <2>2
    <3> QED
      BY <1>2, <2>2, <3>1
  <2>3. CASE ~(j < p) /\ j # p
    <3>1. j - 1 \in DOMAIN rs
      BY <1>1, <2>3
    <3> QED
      BY <1>2, <2>3, <3>1
  <2> QED
    BY <2>1, <2>2, <2>3
<1>5. p \in DOMAIN qs /\ qs[p] = e
  <2>1. p \in DOMAIN qs /\ ~(p < p)
    BY <1>1
  <2> QED
    BY <1>2, <2>1
<1>6. \A x : x \in Areas(qs) <=>
          x \in Areas(rs) \/ (e.flags # FREE /\ x = <<e.start, e.end>>)
  <2> TAKE x
  <2>1. x \in Areas(rs) => x \in Areas(qs)
    BY <1>3, AreaFacts
  <2>2. e.flags # FREE /\ x = <<e.start, e.end>> => x \in Areas(qs)
    BY <1>5, AreaFacts
  <2>3. x \in Areas(qs) => x \in Areas(rs) \/ (e.flags # FREE /\ x = <<e.start, e.end>>)
    BY <1>4, AreaFacts
  <2> QED
    BY <2>1, <2>2, <2>3
<1>7. ASSUME e.flags = FREE
      PROVE  Areas(qs) = Areas(rs)
  BY <1>6, <1>7, SameAreas
<1>8. ASSUME e.flags # FREE
      PROVE  Areas(qs) = Areas(rs) \cup {<<e.start, e.end>>}
  <2> DEFINE z == <<e.start, e.end>>
  <2>1. \A x : x \in Areas(qs) <=> x \in Areas(rs) \cup {z}
    BY <1>6, <1>8
  <2> HIDE DEF z
  <2> QED
    BY <2>1, SameAreas DEF z
<1> QED
  BY <1>7, <1>8

LEMMA SwapAreas ==
    ASSUME NEW rs \in Seq(Regions), NEW i \in DOMAIN rs, NEW r, NEW qs, Swapped(qs, rs, i, r)
    PROVE  /\ rs[i].flags = FREE /\ r.flags = FREE => Areas(qs) = Areas(rs)
           /\ rs[i].flags = FREE /\ r.flags # FREE =>
                  Areas(qs) = Areas(rs) \cup {<<r.start, r.end>>}
           /\ /\ rs[i].flags # FREE /\ r.flags # FREE
              /\ rs[i].start = r.start /\ rs[i].end = r.end
              => Areas(qs) = Areas(rs)
           /\ rs[i].flags # FREE /\ r.flags = FREE /\ Lined(rs, {}) =>
                  Areas(qs) = Areas(rs) \ {<<rs[i].start, rs[i].end>>}
<1> DEFINE X(q) == <<q.start, q.end>>
<1>1. DOMAIN qs = DOMAIN rs /\ qs[i] = r /\ \A j \in DOMAIN rs : j # i => qs[j] = rs[j]
  BY SeqFacts DEF Swapped
<1>2. \A x : x \in Areas(qs) <=>
          \/ r.flags # FREE /\ x = X(r)
          \/ \E j \in DOMAIN rs : j # i /\ rs[j].flags # FREE /\ x = X(rs[j])
  <2> TAKE x
  <2>1. x \in Areas(qs) <=> \E j \in DOMAIN rs : qs[j].flags # FREE /\ x = X(qs[j])
    BY <1>1, AreaFacts
  <2> HIDE DEF X
  <2> QED
    BY <1>1, <2>1
<1>3. \A x : x \in Areas(rs) <=>
          \/ rs[i].flags # FREE /\ x = X(rs[i])
          \/ \E j \in DOMAIN rs : j # i /\ rs[j].flags # FREE /\ x = X(rs[j])
  <2> TAKE x
  <2>1. x \in Areas(rs) <=> \E j \in DOMAIN rs : rs[j].flags # FREE /\ x = X(rs[j])
    BY AreaFacts
  <2> HIDE DEF X
  <2> QED
    BY <2>1
<1>4. ASSUME rs[i].flags = FREE, r.flags = FREE
      PROVE  Areas(qs) = Areas(rs)
  BY <1>2, <1>3, <1>4, SameAreas
<1>5. ASSUME rs[i].flags = FREE, r.flags # FREE
      PROVE  Areas(qs) = Areas(rs) \cup {X(r)}
  BY <1>2, <1>3, <1>5, SameAreas
<1>6. ASSUME rs[i].flags # FREE, r.flags # FREE, rs[i].start = r.start, rs[i].end = r.end
      PROVE  Areas(qs) = Areas(rs)
  <2>1. X(r) = X(rs[i])
    BY <1>6
  <2> HIDE DEF X
  <2> QED
    BY <1>2, <1>3, <1>6, <2>1, SameAreas
<1>7. ASSUME rs[i].flags # FREE, r.flags = FREE, Lined(rs, {})
      PROVE  Areas(qs) = Areas(rs) \ {X(rs[i])}
  <2>1. ASSUME NEW j \in DOMAIN rs, j # i
        PROVE  X(rs[j]) # X(rs[i])
    <3>1. /\ rs[i].start \in Nat /\ rs[i].end \in Nat /\ rs[i].start < rs[i].end
          /\ rs[j].start \in Nat /\ rs[j].end \in Nat /\ rs[j].start < rs[j].end
          /\ i \in Nat /\ j \in Nat
      BY <1>7, LinedFacts
    <3>2. i < j => rs[i].end <= rs[j].start
      BY <1>7, LinedOrder
    <3>3. j < i => rs[j].end <= rs[i].start
      BY <1>7, LinedOrder
    <3>4. rs[j].start # rs[i].start
      BY <2>1, <3>1, <3>2, <3>3
    <3> QED
      BY <3>4
  <2> HIDE DEF X
  <2>2. \A x : x \in Areas(qs) <=> x \in Areas(rs) /\ x # X(rs[i])
    BY <1>2, <1>3, <1>7, <2>1
  <2>3. \A x : x \in Areas(qs) <=> x \in Areas(rs) \ {X(rs[i])}
    BY <2>2
  <2> QED
    BY <2>3, SameAreas
<1> QED
  BY <1>4, <1>5, <1>6, <1>7

\* Two free neighbours become one.
LEMMA JoinAreas ==
    ASSUME NEW rs \in Seq(Regions), NEW i \in DOMAIN rs, i + 1 \in DOMAIN rs,
           rs[i].flags = FREE, rs[i + 1].flags = FREE
    PROVE  LET ys == RemoveAt([rs EXCEPT ![i].end = rs[i + 1].end], i + 1) IN
           Areas(ys) = Areas(rs) /\ ys[i].flags = FREE /\ i \in DOMAIN ys
<1> DEFINE r == [rs[i] EXCEPT !.end = rs[i + 1].end]
           e == [rs EXCEPT ![i].end = rs[i + 1].end]
           ys == RemoveAt(e, i + 1)
<1>1. DOMAIN rs = 1 .. Len(rs) /\ Len(rs) \in Nat /\ i \in Nat \ {0} /\ i + 1 <= Len(rs)
  BY SeqFacts
<1>2. rs[i] \in Regions /\ rs[i + 1] \in Regions
  BY SeqFacts
<1>3. rs[i + 1].end \in Address /\ {} \in SUBSET RegionFlags
  BY <1>2, RegionFacts
<1>4. Swapped(e, rs, i, r)
  BY <1>3, SwapFacts
<1>5. r.flags = FREE
  BY <1>2, RegionFacts
<1> HIDE DEF e, r
<1>6. e \in Seq(Regions) /\ Len(e) = Len(rs) /\ e[i] = r /\ e[i + 1] = rs[i + 1]
      /\ DOMAIN e = 1 .. Len(rs)
  <2>1. e \in Seq(Regions) /\ Len(e) = Len(rs) /\ e[i] = r
        /\ \A j \in DOMAIN rs : j # i => e[j] = rs[j]
    BY <1>4 DEF Swapped
  <2>2. i + 1 \in DOMAIN rs /\ i + 1 # i
    BY <1>1
  <2> QED
    BY <2>1, <2>2, SeqFacts
<1>7. Areas(e) = Areas(rs)
  BY <1>4, <1>5, SwapAreas
<1>8. /\ ys \in Seq(Regions) /\ DOMAIN ys = 1 .. Len(rs) - 1
      /\ \A k \in 1 .. Len(rs) - 1 : ys[k] = IF k < i + 1 THEN e[k] ELSE e[k + 1]
  <2>1. i + 1 \in 1 .. Len(e)
    BY <1>1, <1>6
  <2>2. /\ ys \in Seq(Regions) /\ Len(ys) = Len(e) - 1
        /\ \A k \in 1 .. Len(e) - 1 : ys[k] = IF k < i + 1 THEN e[k] ELSE e[k + 1]
    BY <1>6, <2>1, RemoveFacts
  <2> HIDE DEF ys
  <2>3. DOMAIN ys = 1 .. Len(ys)
    BY <2>2, SeqFacts
  <2> QED
    BY <1>6, <2>2, <2>3
<1> HIDE DEF ys
<1>9. ys[i] = r /\ i \in DOMAIN ys
  <2>1. i \in 1 .. Len(rs) - 1 /\ i < i + 1
    BY <1>1
  <2> QED
    BY <1>6, <1>8, <2>1
<1>10. ASSUME NEW k \in DOMAIN ys
       PROVE  \E j \in DOMAIN e : ys[k] = e[j]
  <2>1. k \in 1 .. Len(rs) - 1 /\ k \in DOMAIN e /\ k + 1 \in DOMAIN e
    BY <1>1, <1>6, <1>8
  <2> QED
    BY <1>8, <2>1
<1>11. ASSUME NEW j \in DOMAIN e, e[j].flags # FREE
       PROVE  \E k \in DOMAIN ys : ys[k] = e[j]
  <2>1. j # i + 1
    BY <1>6, <1>11
  <2>2. CASE j < i + 1
    <3>1. j \in 1 .. Len(rs) - 1
      BY <1>1, <1>6, <2>2
    <3> QED
      BY <1>8, <2>2, <3>1
  <2>3. CASE j > i + 1
    <3>1. j - 1 \in 1 .. Len(rs) - 1 /\ ~(j - 1 < i + 1) /\ (j - 1) + 1 = j
      BY <1>1, <1>6, <2>3
    <3>2. ys[j - 1] = e[j]
      BY <1>8, <3>1
    <3> QED
      BY <1>8, <3>1, <3>2
  <2> QED
    BY <1>1, <1>6, <2>1, <2>2, <2>3
<1>12. \A x : x \in Areas(ys) <=> x \in Areas(e)
  <2> TAKE x
  <2>1. x \in Areas(ys) => x \in Areas(e)
    BY <1>10, AreaFacts
  <2>2. x \in Areas(e) => x \in Areas(ys)
    BY <1>11, AreaFacts
  <2> QED
    BY <2>1, <2>2
<1>13. Areas(ys) = Areas(rs)
  BY <1>7, <1>12, SameAreas
<1> QED
  BY <1>5, <1>9, <1>13 DEF ys, e

\* A record of an area, or none.
LEMMA CreateAreas ==
    ASSUME NEW s \in Works, NEW a \in Address, NEW b \in Address, a < b,
           NEW fl \in SUBSET RegionFlags
    PROVE  LET d == vmm_create_region(s, a, b, fl) IN
           \/ d.ran /\ d.regions = s.regions
           \/ fl = FREE /\ Areas(d.regions) = Areas(s.regions)
           \/ fl # FREE /\ Areas(d.regions) = Areas(s.regions) \cup {<<a, b>>}
<1> DEFINE rs == s.regions
           d == vmm_create_region(s, a, b, fl)
           e == Region(a, b, fl, Fresh(s))
<1>1. a \in Nat /\ b \in Nat /\ rs \in Seq(Regions)
  BY Words DEF Works
<1>2. \/ d = RanOut(s)
      \/ s.avail # {} /\ \E at \in 1 .. Len(rs) + 1 :
                             d = [Take(s) EXCEPT !.regions = InsertAt(rs, at, e)]
  <2>1. ~(a >= b)
    BY <1>1
  <2> QED
    BY <2>1, CreateFacts
<1> HIDE DEF d
<1>3. CASE d = RanOut(s)
  BY <1>3, RanOutType DEF d
<1>4. ASSUME s.avail # {}, NEW at \in 1 .. Len(rs) + 1,
             d = [Take(s) EXCEPT !.regions = InsertAt(rs, at, e)]
      PROVE  /\ fl = FREE => Areas(d.regions) = Areas(rs)
             /\ fl # FREE => Areas(d.regions) = Areas(rs) \cup {<<a, b>>}
  <2>1. Take(s) \in Works /\ Fresh(s) \in Frames
    BY <1>4, TakeType, FreshIn
  <2>2. e \in Regions /\ e.start = a /\ e.end = b /\ e.flags = fl
    BY <2>1 DEF Regions, Region
  <2> HIDE DEF e, rs
  <2> DEFINE q == InsertAt(rs, at, e)
  <2>3. Put(q, rs, at, e)
    <3>1. rs \in Seq(Regions) /\ at \in 1 .. Len(rs) + 1 /\ e \in Regions
      BY <1>1, <2>2
    <3>2. /\ InsertAt(rs, at, e) \in Seq(Regions)
          /\ Len(InsertAt(rs, at, e)) = Len(rs) + 1
          /\ \A j \in 1 .. Len(rs) + 1 :
                 InsertAt(rs, at, e)[j] = IF j < at THEN rs[j]
                                          ELSE IF j = at THEN e ELSE rs[j - 1]
      BY ONLY <3>1, InsertFacts
    <3> HIDE DEF q
    <3> QED
      BY <3>2 DEF Put, q
  <2>4. d.regions = q
    BY <1>4, <2>1 DEF Works
  <2> HIDE DEF q
  <2> QED
    BY <1>1, <2>2, <2>3, <2>4, PutAreas
<1> QED
  BY <1>2, <1>3, <1>4 DEF d

LEMMA OccupyAreas ==
    ASSUME NEW s \in Works, NEW rs, rs = s.regions, Lined(rs, {}),
           NEW a \in Address, NEW b \in Address, a < b,
           NEW fl \in SUBSET RegionFlags, fl # FREE,
           NEW i \in DOMAIN rs, rs[i].flags = FREE, rs[i].start <= a, b <= rs[i].end
    PROVE  LET d == Occupy(s, a, b, fl) IN
           /\ Areas(d.regions) \in {Areas(rs), Areas(rs) \cup {<<a, b>>}}
           /\ ~d.ran => Areas(d.regions) = Areas(rs) \cup {<<a, b>>}
<1> DEFINE r == rs[i]
           cut == [s EXCEPT !.regions[i].end = a]
           whole == [s EXCEPT !.regions[i].flags = fl]
           front == vmm_create_region(s, a, b, fl)
           start == [front EXCEPT !.regions[i + 1].start = b]
           back == vmm_create_region(cut, a, b, fl)
           rest == vmm_create_region(back, b, r.end, FREE)
           c == [rs EXCEPT ![i].end = a]
           More == Areas(rs) \cup {<<a, b>>}
           Done(d) == /\ Areas(d.regions) \in {Areas(rs), More}
                      /\ ~d.ran => Areas(d.regions) = More
<1>1. rs \in Seq(Regions) /\ a \in Nat /\ b \in Nat
  BY Words DEF Works
<1>2. /\ DOMAIN rs = 1 .. Len(rs) /\ Len(rs) \in Nat /\ i \in Nat /\ 1 <= i /\ i <= Len(rs)
      /\ \A j \in DOMAIN rs : /\ rs[j] \in Regions /\ rs[j].start \in Nat /\ rs[j].end \in Nat
                              /\ rs[j].start < rs[j].end
  BY <1>1, LinedFacts, SeqFacts
<1>3. \A j \in DOMAIN rs : j < i => rs[j].start < r.start /\ rs[j].end <= r.start
  <2> TAKE j \in DOMAIN rs
  <2>1. CASE j < i
    <3>1. rs[j].end <= rs[i].start
      BY <1>1, <2>1, LinedOrder
    <3> QED
      BY <1>2, <2>1, <3>1
  <2> QED
    BY <2>1
<1>4. Holder(rs, a) = i
  <2> DEFINE h == Holder(rs, a)
  <2>1. /\ h = 0 => \A j \in DOMAIN rs : ~(rs[j].flags = FREE /\ rs[j].start <= a /\ a < rs[j].end)
        /\ h # 0 => /\ h \in DOMAIN rs /\ a < rs[h].end /\ rs[h].start <= a
                    /\ \A j \in DOMAIN rs :
                           rs[j].flags = FREE /\ rs[j].start <= a /\ a < rs[j].end => h <= j
    BY <1>1, HolderFacts
  <2> HIDE DEF h
  <2>2. r.flags = FREE /\ r.start <= a /\ a < r.end
    BY <1>1, <1>2
  <2>3. h # 0 /\ h \in DOMAIN rs /\ h <= i /\ a < rs[h].end
    BY <2>1, <2>2
  <2>4. ~(h < i)
    BY <1>1, <1>2, <1>3, <2>2, <2>3
  <2> QED
    BY <1>2, <2>3, <2>4 DEF h
<1>5. Occupy(s, a, b, fl) =
        CASE i = 0 -> s
          [] i # 0 /\ r.start = a /\ r.end = b -> whole
          [] i # 0 /\ r.start = a /\ r.end # b -> IF front.regions = s.regions THEN front ELSE start
          [] i # 0 /\ r.start # a /\ r.end = b -> back
          [] OTHER -> rest
  BY <1>4, OccupyCases
<1>6. /\ r \in Regions /\ r.start \in Nat /\ r.end \in Nat /\ r.end \in Address /\ r.flags = FREE
      /\ a < r.end /\ r.start < b
  BY <1>1, <1>2, RegionFacts
<1> HIDE DEF cut, whole, front, start, back, rest, c, More
<1>7. CASE r.start = a /\ r.end = b
  <2> DEFINE ys == [rs EXCEPT ![i].flags = fl]
             e == [r EXCEPT !.flags = fl]
  <2>1. whole.regions = ys /\ Occupy(s, a, b, fl) = whole
    BY <1>2, <1>5, <1>7 DEF whole, Works
  <2>2. Swapped(ys, rs, i, e)
    BY <1>1, SwapFacts
  <2>3. e.start = a /\ e.end = b /\ e.flags = fl
    BY <1>6, <1>7 DEF Regions
  <2> HIDE DEF ys, e
  <2>4. Areas(ys) = Areas(rs) \cup {<<e.start, e.end>>}
    BY <1>1, <1>6, <2>2, <2>3, SwapAreas
  <2>5. Areas(ys) = More
    BY <2>3, <2>4 DEF More
  <2> QED
    BY <2>1, <2>5 DEF More
<1>8. CASE r.start = a /\ r.end # b
  <2>0. Occupy(s, a, b, fl) = IF front.regions = rs THEN front ELSE start
    BY <1>2, <1>5, <1>8
  <2>1. /\ front \in Works
        /\ \/ s.avail = {} /\ front.regions = rs
           \/ \E e \in Regions : /\ e.start = a /\ e.end = b /\ e.flags = fl
                                 /\ Put(front.regions, rs, i, e)
    <3>1. i \in 1 .. Len(rs) + 1 /\ (i # Len(rs) + 1 => rs[i].start >= a)
      BY <1>2, <1>6, <1>8
    <3>2. \A j \in 1 .. i - 1 : rs[j].start < a
      BY <1>2, <1>3, <1>8
    <3> QED
      BY <3>1, <3>2, CreatePlace DEF front
  <2>2. CASE s.avail = {} /\ front.regions = rs
    <3>1. front = RanOut(s)
      <4>1. ~(a >= b)
        BY <1>1
      <4> QED
        BY <2>2, <4>1, CreateFacts DEF front
    <3>2. front.ran
      BY <3>1, RanOutType
    <3> QED
      BY <2>0, <2>2, <3>2
  <2>3. ASSUME NEW e \in Regions, e.start = a, e.end = b, e.flags = fl, Put(front.regions, rs, i, e)
        PROVE  Occupy(s, a, b, fl) = start /\ Areas(start.regions) = More
    <3> DEFINE q == front.regions
               g == [r EXCEPT !.start = b]
               ys == [q EXCEPT ![i + 1].start = b]
    <3>1. g.flags = FREE
      BY <1>6 DEF Regions
    <3>2. start.regions = ys
      BY <2>1 DEF start, Works
    <3>3. /\ q \in Seq(Regions) /\ Len(q) = Len(rs) + 1
          /\ q[i + 1] = r /\ i + 1 \in DOMAIN q
      <4>1. /\ q \in Seq(Regions) /\ Len(q) = Len(rs) + 1
            /\ \A j \in 1 .. Len(rs) + 1 :
                   q[j] = IF j < i THEN rs[j] ELSE IF j = i THEN e ELSE rs[j - 1]
        BY <2>3 DEF Put
      <4> HIDE DEF q
      <4>2. DOMAIN q = 1 .. Len(rs) + 1
        BY <4>1, SeqFacts
      <4>3. i + 1 \in 1 .. Len(rs) + 1 /\ ~(i + 1 < i) /\ i + 1 # i /\ (i + 1) - 1 = i
        BY <1>2
      <4> QED
        BY <4>1, <4>2, <4>3
    <3>4. Areas(q) = More
      <4>1. i \in 1 .. Len(rs) + 1
        BY <1>2
      <4> QED
        BY <1>1, <2>3, <4>1, PutAreas DEF More
    <3>5. q # rs
      <4>1. Len(rs) + 1 # Len(rs)
        BY <1>2
      <4> QED
        BY <3>3, <4>1
    <3> HIDE DEF q
    <3>6. Swapped(ys, q, i + 1, g)
      BY <3>3, SwapFacts
    <3> HIDE DEF g, ys
    <3>7. Areas(ys) = Areas(q)
      BY <1>6, <3>1, <3>3, <3>6, SwapAreas
    <3> QED
      BY <2>0, <3>2, <3>4, <3>5, <3>7 DEF q
  <2> QED
    BY <2>1, <2>2, <2>3 DEF More
<1>9. CASE r.start # a
  <2> DEFINE f == [r EXCEPT !.end = a]
  <2>1. cut \in Works /\ cut.regions = c
    <3>1. c \in Seq(Regions)
      BY <1>1, EditType DEF c, FREE
    <3>2. cut = [s EXCEPT !.regions = c]
      BY DEF cut, c
    <3> QED
      BY <3>1, <3>2 DEF Works
  <2>2. Swapped(c, rs, i, f)
    BY <1>1, SwapFacts DEF c
  <2>3. f.flags = FREE
    BY <1>6 DEF Regions
  <2> HIDE DEF f
  <2>4. Areas(c) = Areas(rs)
    BY <1>1, <1>6, <2>2, <2>3, SwapAreas
  <2>5. \/ back.ran /\ Areas(back.regions) = Areas(rs)
        \/ Areas(back.regions) = More
    BY <2>1, <2>4, CreateAreas DEF back, More
  <2>6. CASE r.end = b
    BY <1>2, <1>5, <1>9, <2>5, <2>6 DEF More
  <2>7. CASE r.end # b
    <3>1. Occupy(s, a, b, fl) = rest /\ b < r.end
      BY <1>1, <1>2, <1>5, <1>6, <1>9, <2>7
    <3>2. back \in Works
      BY <2>1, CreateType DEF back, Listed
    <3>3. FREE \in SUBSET RegionFlags /\ ~(FREE # FREE)
      BY DEF FREE
    <3>4. Areas(rest.regions) = Areas(back.regions)
      BY <1>6, <3>1, <3>2, <3>3, CreateAreas DEF rest
    <3>5. back.ran => rest.ran
      BY <1>6, <3>2, <3>3, CreateBooked DEF rest, Booked
    <3> QED
      BY <2>5, <3>1, <3>4, <3>5 DEF More
  <2> QED
    BY <2>6, <2>7
<1> QED
  BY <1>7, <1>8, <1>9 DEF More

LEMMA AbsorbAreas ==
    ASSUME NEW s \in Works, NEW i \in Nat, i \in DOMAIN s.regions, i + 1 \in DOMAIN s.regions,
           s.regions[i].flags = FREE, s.regions[i + 1].flags = FREE
    PROVE  LET d == Absorb(s, i) IN
           /\ d \in Works /\ Areas(d.regions) = Areas(s.regions)
           /\ i \in DOMAIN d.regions /\ d.regions[i].flags = FREE
<1> DEFINE rs == s.regions
           ys == RemoveAt([rs EXCEPT ![i].end = rs[i + 1].end], i + 1)
<1>1. rs \in Seq(Regions)
  BY DEF Works
<1>2. Absorb(s, i) \in Works /\ Absorb(s, i).regions = ys
  BY AbsorbType
<1> HIDE DEF rs
<1>3. Areas(ys) = Areas(rs) /\ ys[i].flags = FREE /\ i \in DOMAIN ys
  BY <1>1, JoinAreas DEF rs
<1> QED
  BY <1>2, <1>3 DEF rs

LEMMA ReleaseAreas ==
    ASSUME NEW s \in Works, NEW rs, rs = s.regions, Lined(rs, {}), NEW i \in DOMAIN rs,
           rs[i].flags # FREE
    PROVE  Areas(Release(s, i).regions) = Areas(rs) \ {<<rs[i].start, rs[i].end>>}
<1> DEFINE f == [s EXCEPT !.regions[i].flags = FREE]
           fs == [rs EXCEPT ![i].flags = FREE]
           r == [rs[i] EXCEPT !.flags = FREE]
           left == i > 1 /\ f.regions[i - 1].flags = FREE
           g == Absorb(f, i - 1)
           m == IF left THEN g ELSE f
           j == IF left THEN i - 1 ELSE i
           right == j < Len(m.regions) /\ m.regions[j + 1].flags = FREE
           Less == Areas(rs) \ {<<rs[i].start, rs[i].end>>}
<1>1. Release(s, i) = IF right THEN Absorb(m, j) ELSE m
  BY DEF Release
<1>2. rs \in Seq(Regions) /\ FREE \in SUBSET RegionFlags /\ 0 \in Address
  BY Words DEF FREE, Works
<1>3. f \in Works /\ f.regions = fs
  <2>1. FREE \in SUBSET RegionFlags
    BY <1>2
  <2> HIDE DEF f
  <2>2. f \in Works /\ f.regions = [s.regions EXCEPT ![i].flags = FREE]
    BY <2>1, SetFlags DEF f
  <2> QED
    BY <2>2
<1>4. Swapped(fs, rs, i, r)
  BY <1>2, SwapFacts
<1>5. rs[i] \in Regions
  BY <1>2, SeqFacts
<1>6. r.flags = FREE
  BY <1>5 DEF Regions
<1> HIDE DEF f, fs, r
<1>7. Areas(fs) = Less
  BY <1>2, <1>4, <1>6, SwapAreas
<1> HIDE DEF Less
<1>8. /\ fs \in Seq(Regions) /\ DOMAIN fs = 1 .. Len(fs) /\ Len(fs) \in Nat
      /\ i \in Nat \ {0} /\ i <= Len(fs) /\ i \in DOMAIN fs /\ fs[i].flags = FREE
  <2>1. fs \in Seq(Regions) /\ Len(fs) = Len(rs) /\ fs[i].flags = FREE
    BY <1>4, <1>6 DEF Swapped
  <2> QED
    BY <1>2, <2>1, SeqFacts
<1>9. ASSUME left
      PROVE  /\ m \in Works /\ Areas(m.regions) = Less /\ j \in DOMAIN m.regions
             /\ m.regions[j].flags = FREE
  <2>1. m = g /\ j = i - 1 /\ i > 1 /\ fs[i - 1].flags = FREE
    BY <1>3, <1>9
  <2> DEFINE h == i - 1
  <2>2. h \in Nat /\ h + 1 = i /\ h \in DOMAIN fs /\ h + 1 \in DOMAIN fs
    BY <1>8, <2>1
  <2>3. g = Absorb(f, h) /\ fs[h].flags = FREE /\ m = g /\ j = h
    BY <2>1
  <2> HIDE DEF m, g, j, left, h
  <2> QED
    BY <1>3, <1>7, <1>8, <2>2, <2>3, AbsorbAreas
<1>10. ASSUME ~left
       PROVE  /\ m \in Works /\ Areas(m.regions) = Less /\ j \in DOMAIN m.regions
              /\ m.regions[j].flags = FREE
  <2>1. m = f /\ j = i
    BY <1>10
  <2> HIDE DEF m, g, j, left
  <2> QED
    BY <1>3, <1>7, <1>8, <2>1
<1>11. /\ m \in Works /\ Areas(m.regions) = Less /\ j \in DOMAIN m.regions
       /\ m.regions[j].flags = FREE
  BY <1>9, <1>10
<1> HIDE DEF m, g, j, left
<1>12. CASE right
  <2>1. m.regions \in Seq(Regions)
    BY <1>11 DEF Works
  <2>2. DOMAIN m.regions = 1 .. Len(m.regions) /\ Len(m.regions) \in Nat
    BY <2>1, SeqFacts
  <2>3. j \in Nat /\ j + 1 \in DOMAIN m.regions
    BY <1>11, <1>12, <2>2
  <2>4. Release(s, i) = Absorb(m, j)
    BY <1>1, <1>12
  <2> QED
    BY <1>11, <1>12, <2>3, <2>4, AbsorbAreas DEF Less
<1>13. CASE ~right
  BY <1>1, <1>11, <1>13 DEF Less
<1> QED
  BY <1>12, <1>13

-----------------------------------------------------------------------------
(* Spans of pages and areas. *)

\* n pages from a on, in the lower half.
LowSpan(a, n, v) ==
    /\ v \in LowPages /\ a = v * PAGE /\ n \in Nat \ {0} /\ a + n * PAGE = (v + n) * PAGE
    /\ \A k \in 0 .. n - 1 : v + k \in LowPages

LEMMA DownOnPage ==
    ASSUME NEW a \in Nat
    PROVE  align_down(a) = (a \div PAGE) * PAGE /\ align_down(a) % PAGE = 0
<1>1. PAGE \in Nat \ {0}
  BY Geometry
<1>2. a \div PAGE \in Nat /\ a % PAGE \in 0 .. PAGE - 1 /\ a = PAGE * (a \div PAGE) + (a % PAGE)
  BY <1>1, Division
<1> DEFINE w == a \div PAGE
           z == a % PAGE
<1>3. align_down(a) = a - z
  BY DEF align_down
<1> HIDE DEF w, z
<1>4. w \in Nat /\ z \in Nat /\ a = PAGE * w + z
  BY <1>1, <1>2 DEF w, z
<1>5. PAGE * w \in Nat /\ PAGE * w = w * PAGE
  BY <1>1, <1>4
<1>6. align_down(a) = PAGE * w + 0
  BY <1>3, <1>4, <1>5
<1>7. (PAGE * w + 0) % PAGE = 0
  <2>1. 0 \in 0 .. PAGE - 1
    BY <1>1
  <2> QED
    BY <1>1, <1>4, <2>1, DivisionUnique
<1> QED
  BY <1>5, <1>6, <1>7 DEF w

LEMMA UpOnPage ==
    ASSUME NEW a \in Nat
    PROVE  align_up(a) % PAGE = 0
<1>1. (a + PAGE - 1) % WORD \in Nat
  <2>1. a + PAGE - 1 \in Nat
    BY Geometry
  <2> QED
    BY <2>1, Words
<1> QED
  BY <1>1, DownOnPage DEF align_up

\* A whole number of pages that ends in the user's part.
LEMMA SpanFound ==
    ASSUME NEW a \in Nat, a % PAGE = 0, NEW n \in Nat \ {0}, a + n * PAGE <= USER_SPACE_END
    PROVE  \E v \in LowPages : LowSpan(a, n, v)
<1> DEFINE v == a \div PAGE
           EE == ENTRIES * ENTRIES
           H == HALF * EE
<1>1. PAGE \in Nat \ {0} /\ HALF \in Nat \ {0} /\ EE \in Nat
  <2>1. PAGE \in Nat \ {0} /\ HALF \in Nat \ {0} /\ ENTRIES \in Nat
    BY Geometry
  <2> QED
    BY <2>1
<1>2. v \in Nat /\ a = PAGE * v
  <2>1. a \div PAGE \in Nat /\ a = PAGE * (a \div PAGE) + (a % PAGE)
    BY <1>1, Division
  <2> HIDE DEF v
  <2>2. PAGE * v \in Nat /\ v \in Nat
    BY <1>1, <2>1 DEF v
  <2> QED
    BY <2>1, <2>2 DEF v
<1>3. USER_SPACE_END = HALF * (PAGE * EE) - 1
  BY GeometryAssumption
<1>4. LowPages = 0 .. H - 1
  BY DEF LowPages
<1> HIDE DEF v, EE
<1>5. H \in Nat /\ HALF * (PAGE * EE) = PAGE * H
  BY <1>1
<1> HIDE DEF H
<1>6. PAGE * v + n * PAGE = PAGE * (v + n)
  BY <1>1, <1>2
<1>7. PAGE * (v + n) \in Nat /\ PAGE * H \in Nat /\ PAGE * (v + n) < PAGE * H
  <2>1. PAGE * (v + n) \in Nat /\ PAGE * H \in Nat
    BY <1>1, <1>2, <1>5
  <2>2. PAGE * (v + n) <= PAGE * H - 1
    BY <1>2, <1>3, <1>5, <1>6
  <2> QED
    BY <2>1, <2>2
<1>8. v + n < H
  <2> SUFFICES ASSUME H <= v + n
               PROVE  PAGE * H <= PAGE * (v + n)
    BY <1>1, <1>2, <1>5, <1>7
  <2> QED
    BY <1>1, <1>2, <1>5
<1>9. v \in LowPages /\ \A k \in 0 .. n - 1 : v + k \in LowPages
  BY <1>2, <1>4, <1>5, <1>8
<1>10. a = v * PAGE /\ a + n * PAGE = (v + n) * PAGE
  BY <1>1, <1>2, <1>6
<1> QED
  BY <1>9, <1>10 DEF LowSpan

\* The pages of a span are those between its bounds.
LEMMA SpanPages ==
    ASSUME NEW a, NEW n, NEW v, LowSpan(a, n, v)
    PROVE  /\ v \in Nat /\ n \in Nat \ {0} /\ a \in Nat /\ v .. v + n - 1 \subseteq LowPages
           /\ \A w \in LowPages : w \in v .. v + n - 1 <=> a <= w * PAGE /\ w * PAGE < a + n * PAGE
<1>1. /\ v \in LowPages /\ a = v * PAGE /\ n \in Nat \ {0} /\ a + n * PAGE = (v + n) * PAGE
      /\ \A k \in 0 .. n - 1 : v + k \in LowPages
  BY DEF LowSpan
<1>2. v \in Nat /\ v * PAGE \in Nat /\ PAGE \in Nat \ {0}
  BY <1>1, LowWords, Geometry
<1>3. v .. v + n - 1 \subseteq LowPages
  <2> SUFFICES ASSUME NEW w \in v .. v + n - 1
               PROVE  w \in LowPages
    OBVIOUS
  <2>1. w - v \in 0 .. n - 1 /\ v + (w - v) = w
    BY <1>1, <1>2
  <2> QED
    BY <1>1, <2>1
<1>4. ASSUME NEW w \in LowPages
      PROVE  w \in v .. v + n - 1 <=> v * PAGE <= w * PAGE /\ w * PAGE < (v + n) * PAGE
  <2>1. w \in Nat
    BY LowWords
  <2>2. /\ v <= w => v * PAGE <= w * PAGE
        /\ w < v => w * PAGE < v * PAGE
        /\ w < v + n => w * PAGE < (v + n) * PAGE
        /\ v + n <= w => (v + n) * PAGE <= w * PAGE
    <3>1. \A x \in Nat, y \in Nat : /\ x <= y => x * PAGE <= y * PAGE
                                    /\ x < y => x * PAGE < y * PAGE
                                    /\ x * PAGE \in Nat
      BY <1>2
    <3>2. v + n \in Nat
      BY <1>1, <1>2
    <3> QED
      BY <1>2, <2>1, <3>1, <3>2
  <2>3. v * PAGE \in Nat /\ w * PAGE \in Nat /\ (v + n) * PAGE \in Nat
    BY <1>1, <1>2, <2>1
  <2> DEFINE x == v * PAGE
             y == w * PAGE
             z == (v + n) * PAGE
  <2> HIDE DEF x, y, z
  <2>4. x \in Nat /\ y \in Nat /\ z \in Nat /\ (v <= w => x <= y) /\ (w < v => y < x)
        /\ (w < v + n => y < z) /\ (v + n <= w => z <= y)
    BY <2>2, <2>3 DEF x, y, z
  <2>5. w \in v .. v + n - 1 <=> x <= y /\ y < z
    BY <1>1, <1>2, <2>1, <2>4
  <2> QED
    BY <2>5 DEF x, y, z
<1> QED
  BY <1>1, <1>2, <1>3, <1>4

LEMMA AreasMore ==
    ASSUME NEW A, NEW a, NEW n, NEW v, LowSpan(a, n, v)
    PROVE  InAreas(A \cup {<<a, a + n * PAGE>>}) = InAreas(A) \cup (v .. v + n - 1)
<1> DEFINE b == a + n * PAGE
           x == <<a, b>>
<1>1. x[1] = a /\ x[2] = b
  OBVIOUS
<1>2. /\ v .. v + n - 1 \subseteq LowPages
      /\ \A w \in LowPages : w \in v .. v + n - 1 <=> a <= w * PAGE /\ w * PAGE < b
  BY SpanPages
<1> HIDE DEF b, x
<1>3. \A w \in LowPages : w \in InAreas(A \cup {x}) <=>
          w \in InAreas(A) \/ (a <= w * PAGE /\ w * PAGE < b)
  BY <1>1 DEF InAreas
<1>4. InAreas(A \cup {x}) \subseteq LowPages /\ InAreas(A) \subseteq LowPages
  BY DEF InAreas
<1>5. \A w : w \in InAreas(A \cup {x}) <=> w \in InAreas(A) \cup (v .. v + n - 1)
  BY <1>2, <1>3, <1>4
<1>6. InAreas(A \cup {x}) = InAreas(A) \cup (v .. v + n - 1)
  BY <1>5
<1> QED
  BY <1>6 DEF b, x

\* Areas of a list in order that do not meet a span.
LEMMA AreasClear ==
    ASSUME NEW rs \in Seq(Regions), Lined(rs, {}), NEW i \in DOMAIN rs,
           NEW a, NEW n, NEW v, LowSpan(a, n, v), rs[i].start <= a, a + n * PAGE <= rs[i].end
    PROVE  \A x \in Areas(rs) :
               x # <<rs[i].start, rs[i].end>> \/ rs[i].flags = FREE =>
                   \A w \in v .. v + n - 1 : ~(x[1] <= w * PAGE /\ w * PAGE < x[2])
<1> SUFFICES ASSUME NEW x \in Areas(rs),
                    x # <<rs[i].start, rs[i].end>> \/ rs[i].flags = FREE,
                    NEW w \in v .. v + n - 1
             PROVE  ~(x[1] <= w * PAGE /\ w * PAGE < x[2])
  OBVIOUS
<1>1. PICK j \in DOMAIN rs : rs[j].flags # FREE /\ x = <<rs[j].start, rs[j].end>>
  BY AreaFacts
<1>2. j # i
  BY <1>1
<1>3. /\ rs[i].start \in Nat /\ rs[i].end \in Nat /\ rs[j].start \in Nat /\ rs[j].end \in Nat
      /\ i \in Nat /\ j \in Nat
  BY LinedFacts
<1>4. /\ i < j => rs[i].end <= rs[j].start
      /\ j < i => rs[j].end <= rs[i].start
  BY LinedOrder
<1>5. w \in LowPages /\ a <= w * PAGE /\ w * PAGE < a + n * PAGE /\ a \in Nat /\ n \in Nat
  BY SpanPages
<1>6. w * PAGE \in Nat /\ n * PAGE \in Nat
  BY <1>5, LowWords, Geometry
<1>7. x[1] = rs[j].start /\ x[2] = rs[j].end
  BY <1>1
<1> DEFINE y == w * PAGE
           z == n * PAGE
<1> HIDE DEF y, z
<1>8. y \in Nat /\ z \in Nat /\ a <= y /\ y < a + z /\ a + z <= rs[i].end
  BY <1>5, <1>6 DEF y, z
<1>9. ~(rs[j].start <= y /\ y < rs[j].end)
  BY <1>2, <1>3, <1>4, <1>5, <1>8
<1> QED
  BY <1>7, <1>9 DEF y

LEMMA SpanClear ==
    ASSUME NEW rs \in Seq(Regions), Lined(rs, {}), NEW i \in DOMAIN rs, rs[i].flags = FREE,
           NEW a, NEW n, NEW v, LowSpan(a, n, v), rs[i].start <= a, a + n * PAGE <= rs[i].end
    PROVE  InAreas(Areas(rs)) \cap (v .. v + n - 1) = {}
BY AreasClear DEF InAreas

LEMMA AreasLess ==
    ASSUME NEW rs \in Seq(Regions), Lined(rs, {}), NEW i \in DOMAIN rs,
           NEW a, NEW n, NEW v, LowSpan(a, n, v), rs[i].start = a, rs[i].end = a + n * PAGE
    PROVE  InAreas(Areas(rs) \ {<<a, a + n * PAGE>>}) = InAreas(Areas(rs)) \ (v .. v + n - 1)
<1> DEFINE b == a + n * PAGE
           x == <<a, b>>
           A == Areas(rs)
<1>1. x[1] = a /\ x[2] = b
  OBVIOUS
<1>2. \A w \in LowPages : w \in v .. v + n - 1 <=> a <= w * PAGE /\ w * PAGE < b
  BY SpanPages
<1>3. \A y \in A : y # x => \A w \in v .. v + n - 1 : ~(y[1] <= w * PAGE /\ w * PAGE < y[2])
  <2>1. rs[i].start \in Nat /\ rs[i].end \in Nat
    BY LinedFacts
  <2>2. rs[i].start <= a /\ a + n * PAGE <= rs[i].end
    BY <2>1
  <2> QED
    BY <2>2, AreasClear
<1> HIDE DEF b, x, A
<1>4. \A w \in LowPages : w \in InAreas(A \ {x}) <=>
          \E y \in A : y # x /\ y[1] <= w * PAGE /\ w * PAGE < y[2]
  BY DEF InAreas
<1>5. \A w \in LowPages : w \in InAreas(A) <=> \E y \in A : y[1] <= w * PAGE /\ w * PAGE < y[2]
  BY DEF InAreas
<1>6. \A w \in LowPages : w \in InAreas(A \ {x}) <=> w \in InAreas(A) /\ w \notin v .. v + n - 1
  <2> TAKE w \in LowPages
  <2>1. CASE w \in v .. v + n - 1
    BY <1>3, <1>4, <2>1
  <2>2. CASE w \notin v .. v + n - 1
    <3>1. ~(x[1] <= w * PAGE /\ w * PAGE < x[2])
      BY <1>1, <1>2, <2>2
    <3> QED
      BY <1>4, <1>5, <2>2, <3>1
  <2> QED
    BY <2>1, <2>2
<1>7. InAreas(A \ {x}) \subseteq LowPages /\ InAreas(A) \subseteq LowPages
  BY DEF InAreas
<1>8. \A w : w \in InAreas(A \ {x}) <=> w \in InAreas(A) \ (v .. v + n - 1)
  BY <1>6, <1>7
<1>9. InAreas(A \ {x}) = InAreas(A) \ (v .. v + n - 1)
  BY <1>8
<1> QED
  BY <1>9 DEF b, x, A

-----------------------------------------------------------------------------
(* The invariant: while nothing is mingled, plain spaces have no stack, their  *)
(* areas start with a page, and their lower half maps what is in the areas.    *)

UserRoots(sp) == {sp[q].pml4 : q \in DOMAIN sp \ {Kernel}}
Backed(m, space) ==
    space.plain =>
        /\ space.stack_end = 0 /\ Square(Areas(space.regions))
        /\ ~space.short => View(m, space.pml4) = InAreas(Areas(space.regions))
AllBacked(m, sp) ==
    Tame(m, UserRoots(sp)) /\ \A as \in DOMAIN sp \ {Kernel} : Backed(m, sp[as])

Clean == ~mingled /\ fate = "runs"
BackInv == Clean => AllBacked(mem, spaces)

\* A call's memory shows every space but that of p as it was.
Passes(x, p) == \A q : q # p => x \in Seen(UserRoots(spaces), q, View(mem, q))

\* What the space of a call is in the end.
Fits(s, space, ok) ==
    space.plain /\ s.fate = "runs" =>
        /\ space.stack_end = 0 /\ Square(Areas(s.regions))
        /\ ~space.short /\ ~(ok /\ s.ran) => View(s.mem, space.pml4) = InAreas(Areas(s.regions))

LEMMA CleanFacts ==
    ASSUME TypeOK, UseInv, Clean
    PROVE  /\ Programs(UserRoots(spaces), Roots(spaces)) /\ Separate(spaces)
           /\ Roles(mem, avail, Ours(spaces), Roots(spaces), {})
           /\ \A as \in DOMAIN spaces :
                  /\ spaces[as].pml4 \in Roots(spaces) \cap Memory
                  /\ as # Kernel => spaces[as].pml4 \in UserRoots(spaces)
                  /\ \A b \in DOMAIN spaces : as # b => spaces[as].pml4 # spaces[b].pml4
<1>1. Separate(spaces) /\ Roles(mem, avail, Ours(spaces), Roots(spaces), {})
  BY DEF UseInv, Clean, Shared
<1>2. \A as \in DOMAIN spaces : /\ spaces[as].pml4 \in Roots(spaces) /\ spaces[as].pml4 \in Memory
                                /\ Typed(as, spaces[as])
  BY OursParts, TypedFacts
<1>3. \A as \in DOMAIN spaces : as # Kernel => spaces[as].pml4 \in UserRoots(spaces)
  BY DEF UserRoots
<1>4. \A as \in DOMAIN spaces, b \in DOMAIN spaces : as # b => spaces[as].pml4 # spaces[b].pml4
  BY <1>1 DEF Separate
<1>5. UserRoots(spaces) \subseteq Roots(spaces)
  BY DEF UserRoots, Roots
<1>6. UserRoots(spaces) \subseteq Frames
  <2> SUFFICES ASSUME NEW as \in DOMAIN spaces \ {Kernel}
               PROVE  spaces[as].pml4 \in Frames
    BY DEF UserRoots
  <2> QED
    BY <1>2 DEF Typed, Spaces
<1> QED
  BY <1>1, <1>2, <1>3, <1>4, <1>5, <1>6 DEF Programs

LEMMA StartSeen ==
    ASSUME TypeOK, UseInv, BackInv, Clean, NEW x \in Works, x.mem = mem, x.avail = avail,
           NEW p
    PROVE  x \in Kept(Ours(spaces), Roots(spaces), {}) /\ Passes(x, p)
<1>1. Roles(mem, avail, Ours(spaces), Roots(spaces), {})
  BY CleanFacts
<1>2. Tame(mem, UserRoots(spaces))
  BY DEF BackInv, AllBacked
<1>3. x \in Kept(Ours(spaces), Roots(spaces), {})
  BY <1>1, KeptFacts
<1>4. \A q : x \in Seen(UserRoots(spaces), q, View(mem, q))
  BY <1>2, SeenFacts
<1> QED
  BY <1>3, <1>4 DEF Passes

LEMMA PassLoops ==
    ASSUME TypeOK, UseInv, Clean, NEW as \in DOMAIN spaces, NEW p, p = spaces[as].pml4,
           NEW s \in Kept(Ours(spaces), Roots(spaces), {}), Passes(s, p),
           NEW a \in Address, NEW n \in Nat, NEW fl \in SUBSET Rights, Clear4K(as, a, n)
    PROVE  /\ Passes(DropPages(s, p, a, n), p) /\ Passes(Back(s, p, a, n, fl), p)
           /\ Passes(UnmapEach(s, p, a, n), p) /\ Passes(ReprotectEach(s, p, a, n, fl), p)
<1>1. Programs(UserRoots(spaces), Roots(spaces)) /\ p \in Roots(spaces) \cap Memory
  BY CleanFacts
<1>3. \A v \in Run(a, n) : ~Low(p, v)
  BY DEF Clear4K
<1>2. ASSUME NEW q, q # p
      PROVE  LET W == Seen(UserRoots(spaces), q, View(mem, q)) IN
             /\ DropPages(s, p, a, n) \in W /\ Back(s, p, a, n, fl) \in W
             /\ UnmapEach(s, p, a, n) \in W /\ ReprotectEach(s, p, a, n, fl) \in W
  <2>1. s \in Seen(UserRoots(spaces), q, View(mem, q))
    BY <1>2 DEF Passes
  <2> QED
    BY <1>1, <1>2, <1>3, <2>1, LoopsPass
<1> QED
  BY <1>2 DEF Passes

LEMMA PassBooked ==
    ASSUME TypeOK, UseInv, Clean, NEW p,
           NEW s \in Kept(Ours(spaces), Roots(spaces), {}), Passes(s, p), NEW d, Booked(s, d)
    PROVE  Passes(d, p)
<1>1. Programs(UserRoots(spaces), Roots(spaces))
  BY CleanFacts
<1> SUFFICES ASSUME NEW q, q # p
             PROVE  d \in Seen(UserRoots(spaces), q, View(mem, q))
  BY DEF Passes
<1>2. s \in Seen(UserRoots(spaces), q, View(mem, q))
  BY DEF Passes
<1> QED
  BY <1>1, <1>2, BookedSeen

LEMMA PassSame ==
    ASSUME NEW p, NEW s, Passes(s, p),
           NEW x \in Works, x.mem = s.mem, x.fate = "runs" => s.fate = "runs"
    PROVE  Passes(x, p)
BY SameSeen DEF Passes

\* What is not mingled by the call was named clear of the large pages; a program's
\* space has none.
LEMMA CallsClear ==
    ASSUME TypeOK, NEW as \in DOMAIN spaces, NEW op, NEW s, NEW space, NEW ok, NEW a, NEW n,
           Within(op, as, s, space, ok, a, n), Minded, ~mingled'
    PROVE  Clear4K(as, a, n)
<1>1. done'.as = as /\ done'.addr = a /\ done'.pages = n
  BY DEF Within, Commit
<1>2. \A v \in Run(a, n) : ~KernelsOwn(as, v)
  BY <1>1 DEF Minded
<1>3. spaces[as].pml4 = KernelPml4 => as = Kernel
  BY TypeParts DEF AllTyped, Typed
<1> QED
  BY <1>2, <1>3 DEF Clear4K, KernelsOwn, Low

LEMMA ProgramsClear ==
    ASSUME TypeOK, NEW as \in DOMAIN spaces, as # Kernel, NEW a, NEW n
    PROVE  Clear4K(as, a, n)
<1>1. spaces[as].pml4 # KernelPml4
  BY TypeParts DEF AllTyped, Typed
<1> QED
  BY <1>1 DEF Clear4K, Low

LEMMA WithinBacked ==
    ASSUME TypeOK, UseInv, BackInv, Clean, NEW as \in DOMAIN spaces, NEW s \in Works, NEW space,
           Typed(as, space), space.pml4 = spaces[as].pml4,
           NEW op, NEW ok \in BOOLEAN, NEW a, NEW n,
           Within(op, as, s, space, ok, a, n), Minded,
           Clear4K(as, a, n) => Passes(s, spaces[as].pml4), as # Kernel => Fits(s, space, ok)
    PROVE  BackInv'
<1> DEFINE new == With(as, Ended(s, space, ok))
           U == UserRoots(spaces)
           p == spaces[as].pml4
<1>1. Commit(s, new, op, as, ok, a, n)
  BY DEF Within, Ended
<1> SUFFICES ASSUME fate' = "runs", ~mingled'
             PROVE  AllBacked(mem', spaces')
  BY DEF BackInv, Clean
<1>11. Passes(s, p)
  BY CallsClear
<1>2. s.fate = "runs" /\ mem' = s.mem /\ spaces' = new
  BY <1>1 DEF Commit
<1>3. /\ Ended(s, space, ok).regions = s.regions /\ Ended(s, space, ok).pml4 = space.pml4
      /\ Ended(s, space, ok).plain = space.plain
      /\ Ended(s, space, ok).stack_end = space.stack_end
  BY DEF Ended, Typed, Spaces
<1>4. ~Ended(s, space, ok).short => ~space.short /\ ~(ok /\ s.ran)
  BY DEF Ended, Typed, Spaces
<1>5. /\ DOMAIN new = DOMAIN spaces
      /\ \A q \in DOMAIN spaces \ {as} : new[q] = spaces[q]
      /\ new[as] = Ended(s, space, ok)
  <2>1. DOMAIN spaces \cup {as} = DOMAIN spaces
    OBVIOUS
  <2> QED
    BY <2>1 DEF With
<1> HIDE DEF new
<1>6. UserRoots(new) = U
  <2>1. \A q \in DOMAIN spaces : new[q].pml4 = spaces[q].pml4
    BY <1>3, <1>5
  <2> QED
    BY <1>5, <2>1 DEF UserRoots
<1>7. /\ p \in Memory
      /\ \A b \in DOMAIN spaces : b # Kernel => spaces[b].pml4 \in U
      /\ \A b \in DOMAIN spaces : b # as => spaces[b].pml4 # p
  BY CleanFacts
<1>8. Tame(s.mem, U)
  <2>1. p # 0
    BY <1>7, Places
  <2>2. s \in Seen(U, 0, View(mem, 0))
    BY <1>11, <2>1 DEF Passes
  <2> QED
    BY <1>2, <2>2, SeenFacts
<1>9. ASSUME NEW b \in DOMAIN spaces \ {Kernel}, b # as
      PROVE  Backed(s.mem, new[b])
  <2>1. s \in Seen(U, spaces[b].pml4, View(mem, spaces[b].pml4))
    BY <1>7, <1>9, <1>11 DEF Passes
  <2>2. View(s.mem, spaces[b].pml4) = View(mem, spaces[b].pml4)
    BY <1>2, <1>7, <2>1, SeenFacts
  <2>3. Backed(mem, spaces[b])
    BY DEF BackInv, AllBacked
  <2> QED
    BY <1>5, <1>9, <2>2, <2>3 DEF Backed
<1>10. ASSUME as # Kernel
       PROVE  Backed(s.mem, new[as])
  <2>1. Fits(s, space, ok)
    BY <1>10
  <2> QED
    BY <1>2, <1>3, <1>4, <1>5, <2>1 DEF Backed, Fits
<1> QED
  BY <1>2, <1>5, <1>6, <1>8, <1>9, <1>10 DEF AllBacked

LEMMA RefusedBacked ==
    ASSUME TypeOK, UseInv, BackInv, Clean, NEW as \in DOMAIN spaces, NEW op,
           Refused(op, as), Minded
    PROVE  BackInv'
<1> DEFINE s == Start(as)
           sp == spaces[as]
<1>1. /\ s \in Works /\ s.mem = mem /\ s.avail = avail /\ s.regions = sp.regions
      /\ s.fate = "runs" /\ ~s.ran
  BY StartType
<1>2. Typed(as, sp)
  BY TypedFacts
<1>3. Within(op, as, s, sp, FALSE, 0, 0)
  BY DEF Refused
<1>4. as # Kernel => Backed(mem, sp)
  BY DEF BackInv, AllBacked
<1> HIDE DEF s
<1>5. as # Kernel => Fits(s, sp, FALSE)
  BY <1>1, <1>4 DEF Fits, Backed
<1>6. Passes(s, sp.pml4)
  BY <1>1, StartSeen
<1> QED
  BY <1>1, <1>2, <1>3, <1>5, <1>6, WithinBacked

\* A call that leaves its space no longer plain, or the kernel's.
LEMMA MixedBacked ==
    ASSUME TypeOK, UseInv, BackInv, Clean, NEW as \in DOMAIN spaces, NEW s \in Works, NEW space,
           Typed(as, space), space.pml4 = spaces[as].pml4, ~space.plain,
           NEW op, NEW ok \in BOOLEAN, NEW a, NEW n,
           Within(op, as, s, space, ok, a, n), Minded,
           Clear4K(as, a, n) => Passes(s, spaces[as].pml4)
    PROVE  BackInv'
BY WithinBacked DEF Fits

-----------------------------------------------------------------------------
(* Calls that leave their space no longer plain, or do nothing in one that is  *)

Passing(as, a, n) ==
    IF Clear4K(as, a, n)
    THEN {x \in Kept(Ours(spaces), Roots(spaces), {}) : Passes(x, spaces[as].pml4)} ELSE Works

LEMMA StartPasses ==
    ASSUME TypeOK, UseInv, BackInv, Clean, NEW as \in DOMAIN spaces
    PROVE  /\ \A a, n : Start(as) \in Passing(as, a, n)
           /\ spaces[as].pml4 \in Roots(spaces) \cap Memory
<1>1. Start(as) \in Works /\ Start(as).mem = mem /\ Start(as).avail = avail
  BY StartType
<1>2. spaces[as].pml4 \in Roots(spaces) \cap Memory
  BY CleanFacts
<1> DEFINE x == Start(as)
           p == spaces[as].pml4
<1> HIDE DEF x, p
<1>3. x \in Kept(Ours(spaces), Roots(spaces), {}) /\ Passes(x, p)
  BY <1>1, StartSeen DEF x
<1> QED
  BY <1>1, <1>2, <1>3 DEF Passing, x, p

LEMMA LoopsPassing ==
    ASSUME TypeOK, UseInv, Clean, NEW as \in DOMAIN spaces, NEW p, p = spaces[as].pml4,
           NEW a \in Address, NEW n \in Nat, NEW s \in Passing(as, a, n),
           NEW fl \in SUBSET Rights
    PROVE  /\ Back(s, p, a, n, fl) \in Passing(as, a, n)
           /\ UnmapEach(s, p, a, n) \in Passing(as, a, n)
           /\ ReprotectEach(s, p, a, n, fl) \in Passing(as, a, n)
<1>1. p \in Roots(spaces) \cap Memory /\ p \in Memory /\ s \in Works
  BY CleanFacts DEF Passing, Kept
<1>2. /\ Back(s, p, a, n, fl) \in Works /\ UnmapEach(s, p, a, n) \in Works
      /\ ReprotectEach(s, p, a, n, fl) \in Works
  BY <1>1, BackType, UnmapsType, ReprotectsType
<1> SUFFICES ASSUME Clear4K(as, a, n)
             PROVE  /\ Back(s, p, a, n, fl) \in Passing(as, a, n)
                    /\ UnmapEach(s, p, a, n) \in Passing(as, a, n)
                    /\ ReprotectEach(s, p, a, n, fl) \in Passing(as, a, n)
  BY <1>2 DEF Passing
<1>9. \A v \in Run(a, n) : ~Low(p, v)
  BY DEF Clear4K
<1>10. s \in Kept(Ours(spaces), Roots(spaces), {}) /\ Passes(s, p)
  BY DEF Passing
<1>3. /\ Passes(Back(s, p, a, n, fl), p)
      /\ Passes(UnmapEach(s, p, a, n), p) /\ Passes(ReprotectEach(s, p, a, n, fl), p)
  BY <1>10, PassLoops
<1> DEFINE own == Ours(spaces)
           roots == Roots(spaces)
<1> HIDE DEF own, roots
<1>4. s \in Kept(own, roots, {}) /\ p \in roots \cap Memory
  BY <1>1, <1>10 DEF own, roots
<1>6. Back(s, p, a, n, fl) \in Kept(own, roots, {})
  BY <1>4, <1>9, BackKeeps
<1>7. UnmapEach(s, p, a, n) \in Kept(own, roots, {})
  BY <1>4, UnmapsKeep
<1>8. ReprotectEach(s, p, a, n, fl) \in Kept(own, roots, {})
  BY <1>4, <1>9, ReprotectsKeep
<1> QED
  BY <1>3, <1>6, <1>7, <1>8 DEF Passing, own, roots

\* Of a span, the first c pages.
LEMMA DropsPassing ==
    ASSUME TypeOK, UseInv, Clean, NEW as \in DOMAIN spaces, NEW p, p = spaces[as].pml4,
           NEW a \in Address, NEW n \in Nat, NEW s \in Passing(as, a, n), NEW c \in 0 .. n
    PROVE  DropPages(s, p, a, c) \in Passing(as, a, n)
<1>10. p \in Roots(spaces) \cap Memory /\ p \in Memory /\ s \in Works
  BY CleanFacts DEF Passing, Kept
<1>11. c \in Nat
  OBVIOUS
<1>1. p \in Roots(spaces) \cap Memory /\ p \in Memory /\ s \in Works /\ c \in Nat
  BY <1>10, <1>11
<1>2. DropPages(s, p, a, c) \in Works
  BY <1>1, DropsType
<1> SUFFICES ASSUME Clear4K(as, a, n)
             PROVE  DropPages(s, p, a, c) \in Passing(as, a, n)
  BY <1>2 DEF Passing
<1>3. Run(a, c) \subseteq Run(a, n)
  BY <1>1 DEF Run
<1>4. Clear4K(as, a, c) /\ \A v \in Run(a, c) : ~Low(p, v)
  BY <1>3 DEF Clear4K
<1>5. s \in Kept(Ours(spaces), Roots(spaces), {}) /\ Passes(s, p)
  BY DEF Passing
<1>6. {} \in SUBSET Rights
  OBVIOUS
<1>7. Passes(DropPages(s, p, a, c), p)
  BY <1>1, <1>4, <1>5, <1>6, PassLoops
<1> DEFINE own == Ours(spaces)
           roots == Roots(spaces)
<1> HIDE DEF own, roots
<1>8. s \in Kept(own, roots, {}) /\ p \in roots \cap Memory
  BY <1>1, <1>5 DEF own, roots
<1>9. DropPages(s, p, a, c) \in Kept(own, roots, {})
  BY <1>1, <1>4, <1>8, DropsKeep
<1> QED
  BY <1>7, <1>9 DEF Passing, own, roots

LEMMA PassingFacts ==
    ASSUME NEW as, NEW a, NEW n, NEW s \in Passing(as, a, n)
    PROVE  /\ s \in Works /\ s.regions \in Seq(Regions) /\ s.count \in Nat
           /\ Clear4K(as, a, n) =>
                  Passes(s, spaces[as].pml4) /\ s \in Kept(Ours(spaces), Roots(spaces), {})
BY DEF Passing, Kept, Works

LEMMA BrkBacked ==
    ASSUME TypeOK, UseInv, BackInv, Clean, NEW as \in DOMAIN spaces, NEW end \in Address,
           Brk(as, end)
    PROVE  BackInv'
<1> DEFINE sp == spaces[as]
           new == align_up(end)
           up == IF new > sp.heap_end THEN (new - sp.heap_end) \div PAGE ELSE 0
           down == IF new < sp.heap_end THEN (sp.heap_end - new) \div PAGE ELSE 0
           s == IF up > 0 THEN Back(Start(as), sp.pml4, sp.heap_end, up, {"w", "u"})
                ELSE DropPages(Start(as), sp.pml4, new, down)
           from == IF up > 0 THEN sp.heap_end ELSE new
           moved == [Mixed(as) EXCEPT !.heap_end = new]
<1>1. /\ IF BelowHeap(sp, new) THEN Refused("brk", as)
         ELSE IF s.count < up THEN Within("brk", as, s, Mixed(as), FALSE, sp.heap_end, up)
         ELSE Within("brk", as, s, moved, TRUE, from, up + down)
      /\ Minded
  BY DEF Brk
<1>2. new \in Address /\ new \in Nat /\ sp.heap_end \in Address /\ sp.heap_end \in Nat
      /\ sp.heap_start \in Nat
  BY Words, TypedFacts
<1>3. Typed(as, Mixed(as)) /\ Mixed(as).pml4 = sp.pml4 /\ ~Mixed(as).plain
  BY PlainType
<1>4. Mixed(as).heap_start = sp.heap_start
  BY TypedFacts DEF Mixed, Typed, Spaces
<1> HIDE DEF new
<1>5. up \in Nat /\ down \in Nat
  <2> HIDE DEF sp
  <2>1. ASSUME NEW x \in Nat, NEW y \in Nat, x > y
        PROVE  (x - y) \div PAGE \in Nat
    <3>1. x - y \in Nat
      BY <2>1
    <3> QED
      BY <3>1, Geometry, Division
  <2> QED
    BY <1>2, <2>1
<1>13. up > 0 => up + down = up /\ from = sp.heap_end
  <2> HIDE DEF sp
  <2>1. ASSUME up > 0
        PROVE  down = 0
    BY <1>2, <2>1
  <2> HIDE DEF up, down
  <2> QED
    BY <1>5, <2>1
<1>14. ~(up > 0) => up = 0 /\ from = new
  <2> HIDE DEF sp, up
  <2> QED
    BY <1>5
<1> HIDE DEF up, down, from
<1>6. s \in Passing(as, from, up + down)
  <2>1. {"w", "u"} \in SUBSET Rights
    BY DEF Rights
  <2>3. CASE up > 0
    <3>1. up + down = up /\ from = sp.heap_end
      BY <1>13, <2>3
    <3>2. Start(as) \in Passing(as, sp.heap_end, up)
      BY StartPasses
    <3>3. Back(Start(as), sp.pml4, sp.heap_end, up, {"w", "u"}) \in Passing(as, sp.heap_end, up)
      BY <1>2, <1>5, <2>1, <3>2, LoopsPassing
    <3> QED
      BY <2>3, <3>1, <3>3
  <2>4. CASE ~(up > 0)
    <3>1. up + down = down /\ from = new /\ down \in 0 .. down
      BY <1>5, <1>14, <2>4
    <3>2. Start(as) \in Passing(as, new, down)
      BY StartPasses
    <3>3. DropPages(Start(as), sp.pml4, new, down) \in Passing(as, new, down)
      BY <1>2, <1>5, <3>1, <3>2, DropsPassing
    <3> QED
      BY <2>4, <3>1, <3>3
  <2> QED
    BY <2>3, <2>4
<1> HIDE DEF s
<1>7. s \in Works /\ (Clear4K(as, from, up + down) => Passes(s, sp.pml4))
  BY <1>6, PassingFacts
<1>15. s.count < up => from = sp.heap_end /\ up + down = up
  <2>1. s.count \in Nat
    BY <1>6, PassingFacts
  <2>2. s.count < up => up > 0
    BY <1>5, <2>1
  <2> QED
    BY <1>13, <2>2
<1>8. ~BelowHeap(sp, new) => Typed(as, moved)
  <2> HIDE DEF sp
  <2>1. ~BelowHeap(sp, new) => Mixed(as).heap_start <= new
    BY <1>2, <1>4 DEF BelowHeap
  <2> QED
    BY <1>2, <1>3, <2>1 DEF Typed, Spaces
<1>9. moved.pml4 = sp.pml4 /\ ~moved.plain
  BY <1>3 DEF Typed, Spaces
<1> HIDE DEF moved
<1>10. CASE BelowHeap(sp, new)
  BY <1>1, <1>10, RefusedBacked
<1>11. CASE ~BelowHeap(sp, new) /\ s.count < up
  BY <1>1, <1>3, <1>7, <1>11, <1>15, MixedBacked
<1>12. CASE ~BelowHeap(sp, new) /\ ~(s.count < up)
  BY <1>1, <1>7, <1>8, <1>9, <1>12, MixedBacked
<1> QED
  BY <1>10, <1>11, <1>12

LEMMA SbrkBacked ==
    ASSUME TypeOK, UseInv, BackInv, Clean, NEW as \in DOMAIN spaces, NEW count \in Counts,
           Sbrk(as, count) \/ Sbrk(as, -count)
    PROVE  BackInv'
<1> DEFINE h == spaces[as].heap_end
<1>1. \A z \in Int : (h + z) % WORD \in Address
  <2>1. h \in Nat /\ WORD \in Nat \ {0}
    BY TypedFacts, Words, Geometry
  <2> HIDE DEF h
  <2> TAKE z \in Int
  <2>2. (h + z) % WORD \in 0 .. WORD - 1
    BY <2>1
  <2> QED
    BY <2>2 DEF Address
<1>2. count \in Int /\ -count \in Int
  BY CallArguments
<1>3. PICK z \in Int : Sbrk(as, z)
  BY <1>2
<1> QED
  BY <1>1, <1>3, BrkBacked DEF Sbrk

LEMMA StackBacked ==
    ASSUME TypeOK, UseInv, BackInv, Clean, NEW as \in DOMAIN spaces, NEW top \in Addresses,
           NEW size \in Counts, SetupStack(as, top, size)
    PROVE  BackInv'
<1> DEFINE sp == spaces[as]
           high == align_down(top)
           n == align_up(size) \div PAGE
           low == (high - align_up(size)) % WORD
           s == Back(Start(as), sp.pml4, low, n, {"w", "u", "nx"})
           undone == Rollback(s, sp.pml4, low)
           got == vmm_create_region(s, low, high, {"used", "stack", "read", "write"})
           space == [Mixed(as) EXCEPT !.stack_start = low, !.stack_end = high]
<1>1. /\ IF s.count < n THEN Within("stack", as, undone, Mixed(as), FALSE, low, n)
         ELSE Within("stack", as, got, space, TRUE, low, n)
      /\ Minded
  BY DEF SetupStack
<1>2. high \in Address /\ n \in Nat /\ low \in Address
  <2>1. high \in Address /\ n \in Nat /\ align_up(size) \in Nat
    BY CallArguments, Words, SizePages
  <2> DEFINE up == align_up(size)
             x == high - up
  <2> HIDE DEF high, n, up
  <2>2. x \in Int /\ WORD \in Nat \ {0}
    BY <2>1, Words, Geometry DEF up
  <2> HIDE DEF x
  <2>3. x % WORD \in 0 .. WORD - 1
    BY <2>2
  <2> QED
    BY <2>1, <2>3 DEF Address, x, up
<1>3. Typed(as, Mixed(as)) /\ Mixed(as).pml4 = sp.pml4 /\ ~Mixed(as).plain
  BY PlainType
<1> HIDE DEF high, n, low
<1>4. {"w", "u", "nx"} \in SUBSET Rights
  BY DEF Rights
<1>5. s \in Passing(as, low, n)
  BY <1>2, <1>4, StartPasses, LoopsPassing
<1> HIDE DEF s
<1>6. /\ s \in Works /\ s.regions \in Seq(Regions) /\ s.count \in Nat
      /\ Clear4K(as, low, n) =>
             Passes(s, sp.pml4) /\ s \in Kept(Ours(spaces), Roots(spaces), {})
  BY <1>5, PassingFacts
<1>7. s.count < n => undone \in Works /\ (Clear4K(as, low, n) => Passes(undone, sp.pml4))
  <2> SUFFICES ASSUME s.count < n
               PROVE  undone \in Works /\ (Clear4K(as, low, n) => Passes(undone, sp.pml4))
    OBVIOUS
  <2>2. s.count \in 0 .. n
    BY <1>2, <1>6
  <2>1. undone \in Passing(as, low, n)
    BY <1>2, <1>5, <2>2, DropsPassing DEF Rollback
  <2> HIDE DEF undone
  <2> QED
    BY <2>1, PassingFacts
<1>8. got \in Works /\ (Clear4K(as, low, n) => Passes(got, sp.pml4))
  <2>1. {"used", "stack", "read", "write"} \in SUBSET RegionFlags
    BY DEF RegionFlags
  <2>2. Booked(s, got)
    BY <1>2, <1>6, <2>1, CreateBooked
  <2> HIDE DEF got
  <2>3. got \in Works
    BY <2>2 DEF Booked
  <2> HIDE DEF sp
  <2> QED
    BY <1>6, <2>2, <2>3, PassBooked
<1>9. Typed(as, space) /\ space.pml4 = sp.pml4 /\ ~space.plain
  BY <1>2, <1>3 DEF Typed, Spaces
<1> HIDE DEF undone, got, space
<1>10. CASE s.count < n
  BY <1>1, <1>3, <1>7, <1>10, MixedBacked
<1>11. CASE ~(s.count < n)
  BY <1>1, <1>8, <1>9, <1>11, MixedBacked
<1> QED
  BY <1>10, <1>11

LEMMA UnmapBacked ==
    ASSUME TypeOK, UseInv, BackInv, Clean, NEW as \in DOMAIN spaces, NEW addr \in Addresses,
           NEW size \in Counts, UnmapPages(as, addr, size)
    PROVE  BackInv'
<1> DEFINE virt == align_down(addr)
           n == align_up(size) \div PAGE
           s == UnmapEach(Start(as), spaces[as].pml4, virt, n)
           i == vmm_find_region(s.regions, virt)
           f == [s EXCEPT !.regions[i].flags = FREE]
           t == IF i = 0 THEN s ELSE f
<1>1. Within("unmap", as, t, Mixed(as), TRUE, virt, n) /\ Minded
  BY DEF UnmapPages
<1>2. virt \in Address /\ n \in Nat /\ {} \in SUBSET Rights
  BY CallArguments, Words, SizePages
<1> HIDE DEF virt, n
<1>3. s \in Passing(as, virt, n)
  BY <1>2, StartPasses, LoopsPassing
<1> HIDE DEF s, i
<1>4. s \in Works /\ (Clear4K(as, virt, n) => Passes(s, spaces[as].pml4))
  BY <1>3, PassingFacts
<1>5. f \in Works /\ f.mem = s.mem /\ f.fate = s.fate
  <2>1. FREE \in SUBSET RegionFlags
    BY DEF FREE
  <2> QED
    BY <1>4, <2>1, SetFlags
<1> HIDE DEF f
<1>6. Clear4K(as, virt, n) => Passes(f, spaces[as].pml4)
  BY <1>4, <1>5, PassSame
<1>7. t \in Works /\ (Clear4K(as, virt, n) => Passes(t, spaces[as].pml4))
  BY <1>4, <1>5, <1>6
<1> HIDE DEF t
<1>8. Typed(as, Mixed(as)) /\ Mixed(as).pml4 = spaces[as].pml4 /\ ~Mixed(as).plain
  BY PlainType
<1> QED
  BY <1>1, <1>7, <1>8, MixedBacked

\* A page fault is for a stack, and a plain space has none.
LEMMA FaultBacked ==
    ASSUME TypeOK, UseInv, BackInv, Clean, NEW as \in DOMAIN spaces, NEW addr \in Addresses,
           PageFault(as, addr)
    PROVE  BackInv'
<1> DEFINE sp == spaces[as]
           page == align_down(addr)
           s == Back(Start(as), sp.pml4, page, 1, {"w", "u", "nx"})
           space == [sp EXCEPT !.stack_start = page]
<1>1. /\ \/ Refused("fault", as)
         \/ sp.stack_end # 0 /\ Within("fault", as, s, sp, FALSE, page, 1)
         \/ sp.stack_end # 0 /\ Within("fault", as, s, space, TRUE, page, 1)
      /\ Minded
  BY DEF PageFault
<1>2. page \in Address /\ Typed(as, sp)
  BY CallArguments, Words, TypedFacts
<1>3. as # Kernel /\ sp.stack_end # 0 => ~sp.plain
  BY DEF BackInv, AllBacked, Backed
<1> HIDE DEF page
<1>4. s \in Works /\ (Clear4K(as, page, 1) => Passes(s, sp.pml4))
  <2>1. {"w", "u", "nx"} \in SUBSET Rights /\ 1 \in Nat
    BY DEF Rights
  <2>2. s \in Passing(as, page, 1)
    BY <1>2, <2>1, StartPasses, LoopsPassing
  <2> HIDE DEF s
  <2> QED
    BY <2>2, PassingFacts
<1>5. Typed(as, space) /\ space.pml4 = sp.pml4 /\ space.plain = sp.plain
  <2> HIDE DEF sp
  <2> QED
    BY <1>2 DEF Typed, Spaces
<1> HIDE DEF s, space
<1>6. sp.stack_end # 0 /\ as # Kernel => Fits(s, sp, FALSE) /\ Fits(s, space, TRUE)
  BY <1>3, <1>5 DEF Fits
<1>7. CASE Refused("fault", as)
  BY <1>1, <1>7, RefusedBacked
<1>8. CASE sp.stack_end # 0 /\ Within("fault", as, s, sp, FALSE, page, 1)
  BY <1>1, <1>2, <1>4, <1>6, <1>8, WithinBacked
<1>9. CASE sp.stack_end # 0 /\ Within("fault", as, s, space, TRUE, page, 1)
  BY <1>1, <1>4, <1>5, <1>6, <1>9, WithinBacked
<1> QED
  BY <1>1, <1>7, <1>8, <1>9

LEMMA SwitchBacked ==
    ASSUME TypeOK, BackInv, Clean, NEW as \in DOMAIN spaces, Switch(as)
    PROVE  BackInv'
<1> DEFINE b == IF virt_to_phys(mem, spaces[as].pml4, Code * PAGE).to = Code THEN "runs" ELSE "halted"
           s == [Idle EXCEPT !.fate = b]
<1>1. Commit(s, spaces, "switch", as, TRUE, 0, 0) /\ UNCHANGED mingled
  BY DEF Switch
<1>2. s.mem = mem
  BY IdleType DEF Works
<1> HIDE DEF s
<1>3. mem' = mem /\ spaces' = spaces
  BY <1>1, <1>2 DEF Commit
<1> QED
  BY <1>3 DEF BackInv, AllBacked, Clean

-----------------------------------------------------------------------------
(* Calls on a whole area *)

LEMMA StartOwn ==
    ASSUME TypeOK, UseInv, BackInv, Clean, NEW as \in DOMAIN spaces, as # Kernel
    PROVE  /\ Programs(UserRoots(spaces), Roots(spaces))
           /\ Start(as) \in Kept(Ours(spaces), Roots(spaces), {})
           /\ Start(as) \in Seen(UserRoots(spaces), spaces[as].pml4, View(mem, spaces[as].pml4))
           /\ spaces[as].pml4 \in UserRoots(spaces) /\ spaces[as].pml4 \in Roots(spaces)
           /\ spaces[as].pml4 \in Memory
           /\ Backed(mem, spaces[as])
<1> DEFINE x == Start(as)
           p == spaces[as].pml4
<1>1. x \in Works /\ x.mem = mem /\ x.avail = avail
  BY StartType
<1>2. /\ Programs(UserRoots(spaces), Roots(spaces)) /\ p \in Roots(spaces) \cap Memory
      /\ p \in UserRoots(spaces)
  BY CleanFacts
<1>3. p # 0 /\ Backed(mem, spaces[as])
  BY <1>2, Places DEF BackInv, AllBacked
<1> HIDE DEF x, p
<1>4. x \in Kept(Ours(spaces), Roots(spaces), {}) /\ Passes(x, 0)
  BY <1>1, StartSeen
<1>5. x \in Seen(UserRoots(spaces), p, View(mem, p))
  BY <1>3, <1>4 DEF Passes
<1> QED
  BY <1>2, <1>3, <1>4, <1>5 DEF x, p

\* The first region that holds the start of a whole area is that area.
LEMMA WholeFound ==
    ASSUME NEW rs \in Seq(Regions), Lined(rs, {}), Square(Areas(rs)),
           NEW a, NEW n \in Nat,
           \E i \in DOMAIN rs : rs[i].flags # FREE /\ rs[i].start = a /\ rs[i].end = a + n * PAGE
    PROVE  LET i == vmm_find_region(rs, a) IN
           /\ i # 0 /\ i \in DOMAIN rs /\ i \in Nat
           /\ rs[i].flags # FREE /\ rs[i].start = a /\ rs[i].end = a + n * PAGE
           /\ \E v \in LowPages : LowSpan(a, n, v)
<1> DEFINE b == a + n * PAGE
<1>1. PICK j \in DOMAIN rs : rs[j].flags # FREE /\ rs[j].start = a /\ rs[j].end = b
  OBVIOUS
<1>2. \A i \in DOMAIN rs : /\ i \in Nat \ {0} /\ rs[i] \in Regions
                           /\ rs[i].start \in Nat /\ rs[i].end \in Nat /\ Placed(rs[i])
                           /\ rs[i].start < rs[i].end
  BY LinedFacts
<1> HIDE DEF b
<1>3. a \in Nat /\ b \in Nat /\ a < b /\ b <= USER_SPACE_END
  BY <1>1, <1>2 DEF Placed
<1>4. a % PAGE = 0
  <2>1. <<a, b>> \in Areas(rs)
    BY <1>1, AreaFacts
  <2>2. <<a, b>>[1] = a
    OBVIOUS
  <2> QED
    BY <2>1, <2>2 DEF Square
<1>5. n # 0
  <2>1. n = 0 => b = a
    BY <1>3, Geometry DEF b
  <2> QED
    BY <1>3, <2>1
<1>6. \E v \in LowPages : LowSpan(a, n, v)
  BY <1>3, <1>4, <1>5, SpanFound DEF b
<1> DEFINE i == vmm_find_region(rs, a)
<1>7. /\ i = 0 => \A k \in DOMAIN rs : ~(rs[k].start <= a /\ a < rs[k].end)
      /\ i # 0 => /\ i \in DOMAIN rs /\ rs[i].start <= a /\ a < rs[i].end
                  /\ \A k \in DOMAIN rs : rs[k].start <= a /\ a < rs[k].end => i <= k
  BY RegionFound
<1> HIDE DEF i
<1>8. rs[j].start <= a /\ a < rs[j].end
  BY <1>1, <1>3
<1>9. i # 0 /\ i \in DOMAIN rs /\ i <= j /\ a < rs[i].end
  BY <1>1, <1>7, <1>8
<1>10. i = j
  <2> SUFFICES ASSUME i # j
               PROVE  FALSE
    OBVIOUS
  <2>1. i < j
    BY <1>1, <1>2, <1>9
  <2>2. rs[i].end <= rs[j].start
    BY <1>1, <1>9, <2>1, LinedOrder
  <2> QED
    BY <1>1, <1>2, <1>3, <1>9, <2>2
<1> QED
  BY <1>1, <1>2, <1>6, <1>9, <1>10 DEF b, i

LEMMA FreeBacked ==
    ASSUME TypeOK, UseInv, AllNeat(spaces), BackInv, Clean, NEW as \in DOMAIN spaces,
           NEW addr \in Addresses, NEW count \in Counts, Free(as, addr, count)
    PROVE  BackInv'
<1> DEFINE n == PagesIn(count)
           p == spaces[as].pml4
           rs == spaces[as].regions
           s == DropPages(Start(as), p, addr, n)
           i == vmm_find_region(s.regions, addr)
           t == IF i = 0 THEN s ELSE Release(s, i)
           space == OfWhole(as, addr, n)
<1>1. Within("free", as, t, space, TRUE, addr, n) /\ Minded
  BY DEF Free
<1>2. n \in Nat /\ addr \in Address /\ {} \in SUBSET Rights
  BY CallArguments, PageCounts
<1>3. Typed(as, spaces[as]) /\ p \in Memory /\ rs \in Seq(Regions)
  BY TypedFacts
<1>4. /\ Typed(as, space) /\ space.pml4 = p /\ space.short = spaces[as].short
      /\ space.plain => spaces[as].plain /\ Whole(as, addr, n)
  BY PlainType
<1>5. space.stack_end = spaces[as].stack_end
  BY <1>3 DEF OfWhole, Typed, Spaces
<1>6. s \in Passing(as, addr, n)
  <2>1. n \in 0 .. n
    BY <1>2
  <2> HIDE DEF n
  <2> QED
    BY <1>2, <2>1, StartPasses, DropsPassing
<1>7. s \in Works /\ s.regions = rs
  <2> DEFINE b == Start(as)
  <2>1. b \in Works /\ b.regions = rs
    BY StartType
  <2> HIDE DEF b, n, rs
  <2>2. DropPages(b, p, addr, n) \in Works /\ DropPages(b, p, addr, n).regions = b.regions
    BY <1>2, <1>3, <2>1, DropsType
  <2> QED
    BY <2>1, <2>2 DEF b
<1>8. i # 0 => i \in Nat /\ i \in DOMAIN s.regions
  <2> HIDE DEF s, rs, p
  <2>1. s.regions \in Seq(Regions)
    BY <1>3, <1>7
  <2>2. i \in 0 .. Len(s.regions) /\ (i # 0 => i \in DOMAIN s.regions)
    BY <2>1, RegionFound
  <2> QED
    BY <2>2
<1> HIDE DEF n, space, s
<1>9. i # 0 => Release(s, i).mem = s.mem /\ Release(s, i).ran = s.ran
  BY <1>7, <1>8, ReleaseMem
<1>10. t \in Works /\ t.mem = s.mem /\ (t.fate = "runs" => s.fate = "runs")
  <2> HIDE DEF i
  <2>1. i # 0 => Release(s, i) \in Works /\ (Release(s, i).fate = "runs" => s.fate = "runs")
    BY <1>7, <1>8, ReleaseType
  <2> QED
    BY <1>7, <1>9, <2>1
<1>11. Clear4K(as, addr, n) => Passes(t, p)
  <2>1. Clear4K(as, addr, n) => Passes(s, p)
    BY <1>6, PassingFacts
  <2> HIDE DEF t
  <2> QED
    BY <1>10, <2>1, PassSame
<1>12. ASSUME as # Kernel, space.plain, t.fate = "runs"
       PROVE  /\ space.stack_end = 0 /\ Square(Areas(t.regions))
              /\ ~space.short => View(t.mem, p) = InAreas(Areas(t.regions))
  <2>1. spaces[as].plain /\ Whole(as, addr, n)
    BY <1>4, <1>12
  <2>2. /\ spaces[as].stack_end = 0 /\ Square(Areas(rs))
        /\ ~spaces[as].short => View(mem, p) = InAreas(Areas(rs))
    BY <1>12, <2>1, StartOwn DEF Backed
  <2>3. Lined(rs, {})
    BY <1>12, <2>1 DEF AllNeat, Neat
  <2>4. \E k \in DOMAIN rs :
            rs[k].flags # FREE /\ rs[k].start = addr /\ rs[k].end = addr + n * PAGE
    BY <2>1 DEF Whole
  <2>5. /\ i # 0 /\ i \in DOMAIN rs /\ i \in Nat
        /\ rs[i].flags # FREE /\ rs[i].start = addr /\ rs[i].end = addr + n * PAGE
        /\ \E v \in LowPages : LowSpan(addr, n, v)
    <3> HIDE DEF rs
    <3> QED
      BY <1>2, <1>3, <1>7, <2>2, <2>3, <2>4, WholeFound
  <2>6. PICK v \in LowPages : LowSpan(addr, n, v)
    BY <2>5
  <2> HIDE DEF rs, i
  <2>7. /\ addr = v * PAGE /\ v \in Nat /\ \A k \in 0 .. n - 1 : v + k \in LowPages
    BY <2>6, LowWords DEF LowSpan
  <2> DEFINE S == View(mem, p)
             U == UserRoots(spaces)
  <2>8. s \in Seen(U, p, S \ (v .. v + n - 1)) /\ p \in U
    <3> DEFINE b == Start(as)
               own == Ours(spaces)
               roots == Roots(spaces)
    <3>1. /\ Programs(U, roots) /\ b \in Kept(own, roots, {}) /\ b \in Seen(U, p, S)
          /\ p \in U /\ p \in roots
      BY <1>12, StartOwn
    <3> HIDE DEF b, own, roots, U, S, p
    <3>2. DropPages(b, p, v * PAGE, n) \in Seen(U, p, S \ (v .. v + n - 1))
      BY <1>2, <2>6, <2>7, <3>1, DropsSeen
    <3> QED
      BY <2>7, <3>1, <3>2 DEF s, b
  <2>9. View(t.mem, p) = S \ (v .. v + n - 1)
    <3>1. s.fate = "runs" /\ t.mem = s.mem
      BY <1>10, <1>12
    <3> HIDE DEF S, U, p
    <3> QED
      BY <1>7, <2>8, <3>1, SeenFacts
  <2>10. Areas(t.regions) = Areas(rs) \ {<<addr, addr + n * PAGE>>}
    <3>1. Areas(Release(s, i).regions) = Areas(rs) \ {<<rs[i].start, rs[i].end>>}
      BY <1>7, <2>3, <2>5, ReleaseAreas
    <3> QED
      BY <2>5, <3>1
  <2>11. InAreas(Areas(rs) \ {<<addr, addr + n * PAGE>>}) = InAreas(Areas(rs)) \ (v .. v + n - 1)
    BY <1>3, <2>3, <2>5, <2>6, AreasLess
  <2>12. Square(Areas(t.regions))
    BY <2>2, <2>10 DEF Square, rs
  <2> QED
    BY <1>4, <1>5, <2>2, <2>9, <2>10, <2>11, <2>12 DEF rs
<1> HIDE DEF t
<1>13. as # Kernel => Fits(t, space, TRUE)
  BY <1>4, <1>12 DEF Fits
<1> QED
  BY <1>1, <1>4, <1>10, <1>11, <1>13, WithinBacked

LEMMA ProtectBacked ==
    ASSUME TypeOK, UseInv, AllNeat(spaces), BackInv, Clean, NEW as \in DOMAIN spaces,
           NEW addr \in Addresses, NEW size \in Counts, NEW fl \in Flags,
           Protect(as, addr, size, fl)
    PROVE  BackInv'
<1> DEFINE virt == align_down(addr)
           n == align_up(size) \div PAGE
           p == spaces[as].pml4
           rs == spaces[as].regions
           rt == PageFlags(fl)
           s == ReprotectEach(Start(as), p, virt, n, rt)
           i == vmm_find_region(s.regions, virt)
           new == (s.regions[i].flags \ {"read", "write", "exec"}) \cup fl
           f == [s EXCEPT !.regions[i].flags = (@ \ {"read", "write", "exec"}) \cup fl]
           t == IF i = 0 THEN s ELSE f
           space == OfWhole(as, virt, n)
           r == [rs[i] EXCEPT !.flags = new]
           qs == [rs EXCEPT ![i].flags = new]
<1>1. Within("protect", as, t, space, TRUE, virt, n) /\ Minded
  BY DEF Protect
<1>2. virt \in Address /\ n \in Nat /\ rt \in SUBSET Rights
  BY CallArguments, Words, SizePages, PageFlagsType
<1>3. Typed(as, spaces[as]) /\ p \in Memory /\ rs \in Seq(Regions)
  BY TypedFacts
<1>4. /\ Typed(as, space) /\ space.pml4 = p /\ space.short = spaces[as].short
      /\ space.plain => spaces[as].plain /\ Whole(as, virt, n)
  BY PlainType
<1>5. space.stack_end = spaces[as].stack_end
  BY <1>3 DEF OfWhole, Typed, Spaces
<1> HIDE DEF virt, n, rt
<1>6. s \in Passing(as, virt, n)
  BY <1>2, StartPasses, LoopsPassing
<1>7. s \in Works /\ s.regions = rs
  <2> DEFINE b == Start(as)
  <2>1. b \in Works /\ b.regions = rs
    BY StartType
  <2> HIDE DEF b, rs
  <2>2. ReprotectEach(b, p, virt, n, rt) \in Works
        /\ ReprotectEach(b, p, virt, n, rt).regions = b.regions
    BY <1>2, <1>3, <2>1, ReprotectsType
  <2> QED
    BY <2>1, <2>2 DEF b
<1>8. i # 0 => i \in DOMAIN rs /\ rs[i] \in Regions
  <2> HIDE DEF s, rs
  <2>1. i # 0 => i \in DOMAIN rs
    BY <1>3, <1>7, RegionFound
  <2> HIDE DEF i
  <2> QED
    BY <1>3, <2>1, SeqFacts
<1> HIDE DEF space, s
<1>9. i # 0 => new \in SUBSET RegionFlags /\ new # FREE
  <2> HIDE DEF i
  <2>1. i # 0 => s.regions[i].flags \in SUBSET RegionFlags
    BY <1>7, <1>8 DEF Regions
  <2> QED
    BY <2>1, CallArguments DEF FREE
<1>10. i # 0 => f = [s EXCEPT !.regions[i].flags = new]
  <2> HIDE DEF i, rs
  <2> QED
    BY <1>7, <1>8 DEF Works
<1> HIDE DEF new, f
<1>11. i # 0 => /\ f \in Works /\ f.mem = s.mem /\ f.fate = s.fate /\ f.ran = s.ran
                /\ f.regions = [s.regions EXCEPT ![i].flags = new]
  <2> HIDE DEF i
  <2> SUFFICES ASSUME i # 0
               PROVE  /\ f \in Works /\ f.mem = s.mem /\ f.fate = s.fate /\ f.ran = s.ran
                      /\ f.regions = [s.regions EXCEPT ![i].flags = new]
    OBVIOUS
  <2>1. PICK z \in SUBSET RegionFlags : z = new
    BY <1>9
  <2> DEFINE g == [s EXCEPT !.regions[i].flags = z]
  <2>2. g \in Works
    BY <1>7, SetFlags
  <2>5. g.mem = s.mem /\ g.fate = s.fate
    BY <1>7 DEF Works
  <2>6. g.ran = s.ran
    BY <1>7 DEF Works
  <2>4. g.regions = [s.regions EXCEPT ![i].flags = z]
    BY <1>7, SetFlags
  <2>3. f = g
    BY <1>10, <2>1
  <2> HIDE DEF g
  <2> QED
    BY <2>1, <2>2, <2>3, <2>4, <2>5, <2>6
<1>12. t \in Works /\ t.mem = s.mem /\ t.fate = s.fate /\ t.ran = s.ran
  BY <1>7, <1>11
<1>13. Clear4K(as, virt, n) => Passes(t, p)
  <2>1. Clear4K(as, virt, n) => Passes(s, p)
    BY <1>6, PassingFacts
  <2> HIDE DEF t
  <2> QED
    BY <1>12, <2>1, PassSame
<1>14. ASSUME as # Kernel, space.plain, t.fate = "runs"
       PROVE  /\ space.stack_end = 0 /\ Square(Areas(t.regions))
              /\ ~space.short /\ ~t.ran => View(t.mem, p) = InAreas(Areas(t.regions))
  <2>1. spaces[as].plain /\ Whole(as, virt, n)
    BY <1>4, <1>14
  <2>2. /\ spaces[as].stack_end = 0 /\ Square(Areas(rs))
        /\ ~spaces[as].short => View(mem, p) = InAreas(Areas(rs))
    BY <1>14, <2>1, StartOwn DEF Backed
  <2>3. Lined(rs, {})
    BY <1>14, <2>1 DEF AllNeat, Neat
  <2>4. \E k \in DOMAIN rs :
            rs[k].flags # FREE /\ rs[k].start = virt /\ rs[k].end = virt + n * PAGE
    BY <2>1 DEF Whole
  <2>5. /\ i # 0 /\ i \in DOMAIN rs /\ i \in Nat
        /\ rs[i].flags # FREE /\ rs[i].start = virt /\ rs[i].end = virt + n * PAGE
        /\ \E v \in LowPages : LowSpan(virt, n, v)
    <3> HIDE DEF rs
    <3> QED
      BY <1>2, <1>3, <1>7, <2>2, <2>3, <2>4, WholeFound
  <2>6. PICK v \in LowPages : LowSpan(virt, n, v)
    BY <2>5
  <2> HIDE DEF rs, i
  <2>7. /\ virt = v * PAGE /\ v \in Nat /\ \A k \in 0 .. n - 1 : v + k \in LowPages
    BY <2>6, LowWords DEF LowSpan
  <2> DEFINE S == View(mem, p)
             U == UserRoots(spaces)
  <2>8. p \in U /\ (~s.ran => s \in Seen(U, p, S))
    <3> DEFINE b == Start(as)
               own == Ours(spaces)
               roots == Roots(spaces)
    <3>1. /\ Programs(U, roots) /\ b \in Kept(own, roots, {}) /\ b \in Seen(U, p, S)
          /\ p \in U /\ p \in roots
      BY <1>14, StartOwn
    <3> DEFINE x == ReprotectEach(b, p, v * PAGE, n, rt)
    <3> HIDE DEF b, own, roots, U, S, p
    <3>2. /\ \E T : x \in Seen(U, p, T)
          /\ ~x.ran => x \in Seen(U, p, S)
      BY <1>2, <2>6, <2>7, <3>1, ReprotectsSeen
    <3>3. s = x
      BY <2>7 DEF s, b
    <3> HIDE DEF x
    <3> QED
      BY <3>1, <3>2, <3>3
  <2>9. ~t.ran => View(t.mem, p) = S
    <3>1. s.fate = "runs" /\ t.mem = s.mem /\ t.ran = s.ran
      BY <1>12, <1>14
    <3> HIDE DEF S, U, p
    <3> QED
      BY <1>7, <2>8, <3>1, SeenFacts
  <2>10. Areas(t.regions) = Areas(rs)
    <3>1. t.regions = qs
      BY <1>7, <1>11, <2>5
    <3>2. Swapped(qs, rs, i, r)
      BY <1>3, <1>9, <2>5, Words, SwapFacts
    <3>3. r.start = rs[i].start /\ r.end = rs[i].end /\ r.flags = new
      BY <1>8, <2>5 DEF Regions
    <3> HIDE DEF r, qs
    <3> QED
      BY <1>3, <1>9, <2>5, <3>1, <3>2, <3>3, SwapAreas
  <2> QED
    BY <1>4, <1>5, <2>2, <2>9, <2>10 DEF rs
<1> HIDE DEF t
<1>15. as # Kernel => Fits(t, space, TRUE)
  BY <1>4, <1>14 DEF Fits
<1> QED
  BY <1>1, <1>4, <1>12, <1>13, <1>15, WithinBacked

-----------------------------------------------------------------------------
(* vmm_alloc_pages and vmm_alloc_pages_at *)

\* The pages that vmm_alloc_pages chooses lie in a free region of a plain space.
InFree(rs, virt, n, i, v) ==
    /\ rs[i].flags = FREE /\ rs[i].start <= virt /\ virt + n * PAGE <= rs[i].end
    /\ virt < virt + n * PAGE /\ virt + n * PAGE \in Address
    /\ virt % PAGE = 0 /\ LowSpan(virt, n, v)

LEMMA SpanLength ==
    ASSUME NEW n \in Nat \ {0}, NEW a \in Nat
    PROVE  n * PAGE \in Nat /\ a < a + n * PAGE
<1> DEFINE bytes == n * PAGE
<1>1. bytes # 0 /\ bytes \in Nat
  BY Geometry
<1> HIDE DEF bytes
<1>2. a < a + bytes
  BY <1>1
<1> QED
  BY <1>1, <1>2 DEF bytes

LEMMA AtMost ==
    ASSUME NEW a \in Int, NEW b \in Int, NEW c \in Int, a <= b, b <= c
    PROVE  a <= c
OBVIOUS

LEMMA ChosenSpan ==
    ASSUME NEW rs \in Seq(Regions), Lined(rs, {}), NEW n \in Nat \ {0}, NEW virt \in Address,
           virt # 0, NEW end \in Address, end = virt + n * PAGE,
           NEW i \in DOMAIN rs, rs[i].flags = FREE, virt = align_up(rs[i].start), end <= rs[i].end
    PROVE  \E v \in LowPages : InFree(rs, virt, n, i, v)
<1>1. rs[i] \in Regions /\ rs[i].start \in Nat /\ rs[i].end \in Nat /\ Placed(rs[i])
  BY LinedFacts
<1>2. rs[i].start \in Address /\ virt \in Nat /\ end \in Nat /\ USER_SPACE_END \in Nat
  BY <1>1, RegionFacts, Words, UserAddress
<1>3. rs[i].start <= virt /\ virt % PAGE = 0
  BY <1>1, <1>2, UpFurther, UpOnPage
<1>4. virt < end
  BY <1>2, SpanLength
<1>5. rs[i].end <= USER_SPACE_END
  BY <1>1 DEF Placed
<1>6. end <= USER_SPACE_END
  BY <1>1, <1>2, <1>5, AtMost
<1>7. virt + n * PAGE <= USER_SPACE_END
  BY <1>6
<1>8. PICK v \in LowPages : LowSpan(virt, n, v)
  BY <1>2, <1>3, <1>7, SpanFound
<1> QED
  BY <1>3, <1>4, <1>8 DEF InFree

LEMMA AllocBacked ==
    ASSUME TypeOK, UseInv, AllNeat(spaces), BackInv, Clean, NEW as \in DOMAIN spaces,
           NEW addr \in Addresses \cup {0}, NEW count \in Counts, NEW fl \in Flags,
           Alloc(as, addr, count, fl)
    PROVE  BackInv'
<1> DEFINE p == spaces[as].pml4
           rs == spaces[as].regions
           n == PagesIn(count)
           virt == IF addr = 0 THEN vmm_find_free_region(rs, n * PAGE)
                               ELSE align_down(addr)
           taken == addr # 0 /\ vmm_find_region(rs, virt) # 0
           rt == PageFlags(fl)
           s == Back(Start(as), p, virt, n, rt)
           space == IF addr = 0 THEN spaces[as] ELSE Mixed(as)
           undone == Rollback(s, p, virt)
           end == virt + n * PAGE
           got == Occupy(s, virt, end, fl)
<1>1. /\ IF virt = 0 \/ taken THEN Refused("alloc", as)
         ELSE IF s.count < n THEN Within("alloc", as, undone, space, FALSE, virt, n)
         ELSE Within("alloc", as, got, space, TRUE, virt, n)
      /\ Minded
  BY DEF Alloc
<1>2. virt \in Address /\ n \in Nat \ {0} /\ n \in Nat
  BY AllocPlace
<1>16. addr = 0 /\ virt # 0 =>
           /\ end \in Address
           /\ \E i \in DOMAIN rs :
                  rs[i].flags = FREE /\ virt = align_up(rs[i].start) /\ end <= rs[i].end
  BY AllocPlace
<1>3. /\ Typed(as, spaces[as]) /\ p \in Memory /\ rs \in Seq(Regions)
      /\ rt \in SUBSET Rights /\ fl \in SUBSET RegionFlags /\ fl # FREE
  BY TypedFacts, CallArguments, PageFlagsType
<1>4. Typed(as, space) /\ space.pml4 = p /\ (space.plain => addr = 0)
  BY <1>3, PlainType
<1>5. addr = 0 => space = spaces[as]
  OBVIOUS
<1> HIDE DEF n, virt, space, rt
<1>6. addr = 0 /\ as # Kernel /\ spaces[as].plain /\ virt # 0 =>
          \E i \in DOMAIN rs, v \in LowPages : InFree(rs, virt, n, i, v)
  <2> SUFFICES ASSUME addr = 0, as # Kernel, spaces[as].plain, virt # 0
               PROVE  \E i \in DOMAIN rs, v \in LowPages : InFree(rs, virt, n, i, v)
    OBVIOUS
  <2>1. Lined(rs, {})
    BY DEF AllNeat, Neat
  <2> HIDE DEF rs
  <2>2. PICK i \in DOMAIN rs :
            rs[i].flags = FREE /\ virt = align_up(rs[i].start) /\ end <= rs[i].end
    BY <1>16
  <2>3. end \in Address
    BY <1>16
  <2> QED
    BY <1>2, <1>3, <2>1, <2>2, <2>3, ChosenSpan
<1>7. s \in Passing(as, virt, n)
  BY <1>2, <1>3, StartPasses, LoopsPassing
<1>8. s \in Works /\ s.regions = rs
  <2> DEFINE b == Start(as)
  <2>1. b \in Works /\ b.regions = rs
    BY StartType
  <2> HIDE DEF b, rs, p
  <2> DEFINE x == Back(b, p, virt, n, rt)
  <2>2. x \in Works /\ x.regions = b.regions /\ x.fate = b.fate /\ x.avail \subseteq b.avail
    BY <1>2, <1>3, <2>1, BackType
  <2> QED
    BY <2>1, <2>2 DEF b
<1> HIDE DEF s
<1>9. s.count \in Nat
  BY <1>7, PassingFacts
<1>10. undone \in Works /\ undone.regions = rs
  <2>2. /\ DropPages(s, p, virt, s.count) \in Works
        /\ DropPages(s, p, virt, s.count).regions = s.regions
    <3> HIDE DEF p, rs
    <3> QED
      BY <1>2, <1>3, <1>8, <1>9, DropsType
  <2> QED
    BY <1>8, <2>2 DEF Rollback
<1>17. s.count < n /\ Clear4K(as, virt, n) => Passes(undone, p)
  <2> SUFFICES ASSUME s.count < n, Clear4K(as, virt, n)
               PROVE  Passes(undone, p)
    OBVIOUS
  <2>1. s.count \in 0 .. n
    BY <1>2, <1>9
  <2>2. undone \in Passing(as, virt, n)
    BY <1>2, <1>7, <2>1, DropsPassing DEF Rollback
  <2> HIDE DEF undone
  <2> QED
    BY <2>2, PassingFacts
<1>11. ~taken /\ virt # 0 => got \in Works /\ (Clear4K(as, virt, n) => Passes(got, p))
  <2>1. CASE addr = 0 /\ virt # 0
    <3>1. Booked(s, got)
      BY <1>2, <1>16, <1>3, <1>8, <2>1, OccupyBooked
    <3>2. got \in Works
      BY <3>1 DEF Booked
    <3>3. Clear4K(as, virt, n) => s \in Kept(Ours(spaces), Roots(spaces), {}) /\ Passes(s, p)
      BY <1>7, PassingFacts
    <3> HIDE DEF got, p
    <3> QED
      BY <3>1, <3>2, <3>3, PassBooked
  <2>2. CASE addr # 0 /\ ~taken
    <3>1. vmm_find_region(s.regions, virt) = 0
      BY <1>8, <2>2
    <3>2. got = s
      BY <1>8, <3>1, OccupyNothing
    <3> QED
      BY <1>7, <3>2, PassingFacts
  <2> QED
    BY <2>1, <2>2
\* What a plain space maps once the pages are backed, and once they are not.
<1>12. ASSUME as # Kernel, space.plain, virt # 0
       PROVE  /\ undone.fate = "runs" =>
                     /\ space.stack_end = 0 /\ Square(Areas(undone.regions))
                     /\ ~space.short => View(undone.mem, p) = InAreas(Areas(undone.regions))
              /\ got.fate = "runs" =>
                     /\ space.stack_end = 0 /\ Square(Areas(got.regions))
                     /\ ~space.short /\ ~got.ran => View(got.mem, p) = InAreas(Areas(got.regions))
  <2>1. addr = 0 /\ space = spaces[as] /\ spaces[as].plain
    BY <1>4, <1>5, <1>12
  <2>2. /\ spaces[as].stack_end = 0 /\ Square(Areas(rs))
        /\ ~spaces[as].short => View(mem, p) = InAreas(Areas(rs))
    BY <1>12, <2>1, StartOwn DEF Backed
  <2>3. Lined(rs, {})
    BY <1>12, <2>1 DEF AllNeat, Neat
  <2>4. PICK i \in DOMAIN rs, v \in LowPages : InFree(rs, virt, n, i, v)
    BY <1>6, <1>12, <2>1
  <2> HIDE DEF rs
  <2>5. /\ LowSpan(virt, n, v) /\ rs[i].flags = FREE /\ rs[i].start <= virt /\ end <= rs[i].end
        /\ virt < end /\ end \in Address
    BY <2>4 DEF InFree
  <2>6. /\ virt = v * PAGE /\ v \in Nat /\ \A k \in 0 .. n - 1 : v + k \in LowPages
    BY <2>5, LowWords DEF LowSpan
  <2>7. InAreas(Areas(rs)) \cap (v .. v + n - 1) = {}
    BY <1>3, <2>3, <2>5, SpanClear
  <2>8. InAreas(Areas(rs) \cup {<<virt, end>>}) = InAreas(Areas(rs)) \cup (v .. v + n - 1)
    BY <2>5, AreasMore
  <2> DEFINE S == View(mem, p)
             U == UserRoots(spaces)
             own == Ours(spaces)
             roots == Roots(spaces)
             b == Start(as)
  <2>9. /\ Programs(U, roots) /\ b \in Kept(own, roots, {}) /\ b \in Seen(U, p, S)
        /\ p \in U /\ p \in roots
    BY <1>12, StartOwn
  <2>10. b.count = 0 /\ s = Back(b, p, v * PAGE, n, rt)
    BY <2>6, StartType DEF s
  <2>11. s \in Kept(own, roots, {})
    BY <1>7, <1>12, PassingFacts, ProgramsClear
  <2> HIDE DEF b, own, roots, U, S, p
  <2> DEFINE x == Back(b, p, v * PAGE, n, rt)
  <2>12. Filling(x, U, p, S, v, n)
    BY <1>2, <1>3, <2>6, <2>9, <2>10, BackFills
  <2>22. s = x
    BY <2>10
  <2> HIDE DEF x
  <2>13. PICK T \in SUBSET (v .. v + s.count - 1) :
             /\ s \in Seen(U, p, S \cup T)
             /\ ~s.ran => T = v .. v + n - 1
    BY <2>12, <2>22 DEF Filling
  <2>23. s.count \in 0 .. n
    BY <2>12, <2>22 DEF Filling
  <2>14. undone \in Seen(U, p, (S \cup T) \ (v .. v + s.count - 1))
    <3>1. \A k \in 0 .. s.count - 1 : v + k \in LowPages
      BY <1>2, <2>6, <2>23
    <3>2. DropPages(s, p, v * PAGE, s.count) \in Seen(U, p, (S \cup T) \ (v .. v + s.count - 1))
      BY <1>9, <2>6, <2>9, <2>11, <2>13, <3>1, DropsSeen
    <3> QED
      BY <2>6, <3>2 DEF Rollback
  <2>15. undone.fate = "runs" => View(undone.mem, p) = (S \cup T) \ (v .. v + s.count - 1)
    BY <1>10, <2>9, <2>14, SeenFacts
  <2>16. S \cap (v .. v + n - 1) = {} => (S \cup T) \ (v .. v + s.count - 1) = S
    <3>1. v .. v + s.count - 1 \subseteq v .. v + n - 1
      BY <1>2, <2>6, <2>23
    <3> QED
      BY <2>13, <3>1
  <2>17. Booked(s, got)
    BY <1>2, <1>3, <1>8, <2>5, OccupyBooked
  <2>18. got.fate = "runs" /\ ~got.ran => View(got.mem, p) = S \cup (v .. v + n - 1)
    <3> SUFFICES ASSUME got.fate = "runs", ~got.ran
                 PROVE  View(got.mem, p) = S \cup (v .. v + n - 1)
      OBVIOUS
    <3>1. ~s.ran /\ got \in Works
      BY <2>17 DEF Booked
    <3>2. got \in Seen(U, p, S \cup T)
      BY <2>9, <2>11, <2>13, <2>17, BookedSeen
    <3> HIDE DEF got
    <3>3. View(got.mem, p) = S \cup T
      BY <2>9, <3>1, <3>2, SeenFacts
    <3> QED
      BY <2>13, <3>1, <3>3
  <2>19. /\ Areas(got.regions) \in {Areas(rs), Areas(rs) \cup {<<virt, end>>}}
         /\ ~got.ran => Areas(got.regions) = Areas(rs) \cup {<<virt, end>>}
    <3> HIDE DEF end
    <3>1. /\ s \in Works /\ rs = s.regions /\ Lined(rs, {}) /\ virt \in Address /\ end \in Address
          /\ virt < end /\ fl \in SUBSET RegionFlags /\ fl # FREE
          /\ i \in DOMAIN rs /\ rs[i].flags = FREE /\ rs[i].start <= virt /\ end <= rs[i].end
      BY <1>2, <1>3, <1>8, <2>3, <2>5
    <3> QED
      BY <3>1, OccupyAreas
  <2>20. Square(Areas(rs) \cup {<<virt, end>>})
    <3>1. virt % PAGE = 0
      BY <2>4 DEF InFree
    <3>2. \A ends \in Areas(rs) : ends[1] % PAGE = 0
      BY <2>2 DEF Square, rs
    <3>3. <<virt, end>>[1] = virt
      OBVIOUS
    <3> HIDE DEF end
    <3> QED
      BY <3>1, <3>2, <3>3 DEF Square
  <2>21. Square(Areas(got.regions))
    BY <2>2, <2>19, <2>20 DEF rs
  <2> HIDE DEF got, undone
  <2> QED
    BY <1>10, <2>1, <2>2, <2>7, <2>8, <2>15, <2>16, <2>18, <2>19, <2>21 DEF rs, S, p
<1> HIDE DEF got, undone, taken
<1>13. CASE virt = 0 \/ taken
  BY <1>1, <1>13, RefusedBacked
<1>14. CASE ~(virt = 0 \/ taken) /\ s.count < n
  <2>1. Within("alloc", as, undone, space, FALSE, virt, n)
    BY <1>1, <1>14
  <2>2. as # Kernel => Fits(undone, space, FALSE)
    BY <1>4, <1>12, <1>14 DEF Fits
  <2>3. Clear4K(as, virt, n) => Passes(undone, p)
    BY <1>14, <1>17
  <2> QED
    BY <1>1, <1>4, <1>10, <2>1, <2>2, <2>3, WithinBacked
<1>15. CASE ~(virt = 0 \/ taken) /\ ~(s.count < n)
  <2>1. Within("alloc", as, got, space, TRUE, virt, n)
    BY <1>1, <1>15
  <2>2. as # Kernel => Fits(got, space, TRUE)
    BY <1>4, <1>12, <1>15 DEF Fits
  <2> QED
    BY <1>1, <1>4, <1>11, <1>15, <2>1, <2>2, WithinBacked
<1> QED
  BY <1>13, <1>14, <1>15

-----------------------------------------------------------------------------
(* A space is destroyed: only entries of its own tables are cleared. *)

\* The tables below the lower half of the one at p.
UnderRoot(u, m, p, t) == \E k \in Entry : k < HALF /\ Leads(u, m, p, k) /\ m[p][k].to = t
UnderDir(u, m, p, t) ==
    \E d \in Memory, k \in Entry : UnderRoot(u, m, p, d) /\ Leads(u, m, d, k) /\ m[d][k].to = t
Tree(u, m, p) == {t \in Memory : t = p \/ UnderRoot(u, m, p, t) \/ UnderDir(u, m, p, t)}
Pared(u, m, p) ==
    {x \in Works : \A t \in Memory, k \in Entry :
         x.mem[t][k] = m[t][k] \/ (t \in Tree(u, m, p) /\ x.mem[t][k] = Zero)}

LEMMA TreeUses ==
    ASSUME NEW u, NEW m \in Mem, NEW av \in SUBSET Frames, Pages(u, m, av),
           NEW p \in Memory, u[p] = "pml4"
    PROVE  /\ \A t : UnderRoot(u, m, p, t) => t \in Memory /\ u[t] = "dir" /\ t \in Tree(u, m, p)
           /\ \A t : UnderDir(u, m, p, t) => t \in Memory /\ u[t] = "table" /\ t \in Tree(u, m, p)
           /\ p \in Tree(u, m, p)
           /\ \A t \in Tree(u, m, p) : u[t] # "page"
<1>1. Child["pml4"] = "dir" /\ Child["dir"] = "table"
  BY DEF Child, Live
<1>2. \A t : UnderRoot(u, m, p, t) => t \in Memory /\ u[t] = "dir"
  BY <1>1, UseFacts DEF UnderRoot
<1>3. \A t : UnderDir(u, m, p, t) => t \in Memory /\ u[t] = "table"
  BY <1>1, <1>2, UseFacts DEF UnderDir
<1> QED
  BY <1>2, <1>3 DEF Tree

LEMMA SameMem ==
    ASSUME NEW u, NEW m, NEW p, NEW s \in Pared(u, m, p), NEW x \in Works, x.mem = s.mem
    PROVE  x \in Pared(u, m, p)
BY DEF Pared

LEMMA TurnPared ==
    ASSUME NEW u, NEW m, NEW p, NEW s \in Pared(u, m, p), NEW t \in Tree(u, m, p), NEW k \in Entry,
           NEW d, Present(s.mem[t][k]) => Gone(s, d),
           /\ Present(s.mem[t][k]) /\ "huge" \notin s.mem[t][k].flags /\ s.mem[t][k] = m[t][k]
           => d \in Pared(u, m, p)
    PROVE  Turn(s, t, k, d) \in Pared(u, m, p)
<1> DEFINE e == s.mem[t][k]
           y == IF "huge" \in e.flags THEN FreePage(s, e) ELSE d
           x == Turn(s, t, k, d)
<1>1. s \in Works /\ t \in Memory
  BY DEF Pared, Tree
<1>2. e \in Entries
  BY <1>1 DEF Works, Mem
<1>3. CASE ~Present(e)
  BY <1>3 DEF Turn
<1>4. CASE Present(e)
  <2>1. x = [y EXCEPT !.mem[t][k] = Zero]
    BY <1>4 DEF Turn
  <2>2. s.mem[t][k] = m[t][k]
    BY <1>1, <1>4 DEF Pared, Zero, Present
  <2>3. y \in Pared(u, m, p)
    <3>1. FreePage(s, e) \in Works /\ FreePage(s, e).mem = s.mem
      BY <1>1, <1>2, FreePageType
    <3> QED
      BY <1>4, <2>2, <3>1, SameMem
  <2>4. Gone(s, x)
    BY <1>1, <1>4, TurnType
  <2> HIDE DEF y, x
  <2>5. x \in Works /\ y \in Works
    BY <2>3, <2>4 DEF Gone, Pared
  <2>6. \A r \in Memory, j \in Entry : x.mem[r][j] = IF r = t /\ j = k THEN Zero ELSE y.mem[r][j]
    BY <2>1, <2>5 DEF Works, Mem
  <2> QED
    BY <2>3, <2>5, <2>6 DEF Pared, x
<1> QED
  BY <1>3, <1>4

LEMMA LeafPared ==
    ASSUME NEW u, NEW m \in Mem, NEW av \in SUBSET Frames, Pages(u, m, av),
           NEW p \in Memory, u[p] = "pml4",
           NEW s \in Pared(u, m, p), NEW e \in Entries, Present(e), u[e.to] = "page"
    PROVE  FreeLeaf(s, e) \in Pared(u, m, p)
<1> DEFINE f == e.to
           W == Pared(u, m, p)
           x == Entries0(s, f, ENTRIES)
<1>1. s \in Works /\ f \in Memory /\ f \notin Tree(u, m, p)
  <2>1. f \in Memory
    BY Places
  <2>2. \A t \in Tree(u, m, p) : u[t] # "page"
    BY TreeUses
  <2> QED
    BY <2>1, <2>2 DEF Pared
<1>2. FreeLeaf(s, e) = IF "nx" \in e.flags THEN FreePage(s, e) ELSE FreePage(x, e)
  BY <1>1, FreeLeafType
<1>3. ASSUME NEW y \in Works, NEW k \in 0 .. ENTRIES - 1, y \in W
      PROVE  Entry0(y, f, k) \in W
  <2>1. k \in Entry
    BY DEF Entry
  <2>2. Entry0(y, f, k) = Turn(y, f, k, FreePage(y, y.mem[f][k]))
    BY <1>1, <2>1, Entry0Type
  <2>3. y.mem[f][k] = m[f][k]
    BY <1>1, <1>3, <2>1 DEF Pared
  <2>4. m[f] = Blank
    BY <1>1 DEF Pages, Empty
  <2>5. ~Present(Blank[k])
    BY <2>1 DEF Blank, Present, Zero, Entry
  <2>6. ~Present(y.mem[f][k])
    BY <2>3, <2>4, <2>5
  <2> QED
    BY <1>3, <2>2, <2>6 DEF Turn
<1> HIDE DEF W, f
<1>4. x \in W /\ x \in Works
  <2>1. ENTRIES \in 0 .. ENTRIES /\ s \in W
    BY Geometry DEF W
  <2> QED
    BY <1>1, <1>3, <2>1, Entries0Loop
<1> HIDE DEF x
<1>5. FreePage(s, e) \in W /\ FreePage(x, e) \in W
  <2>1. FreePage(s, e) \in Works /\ FreePage(s, e).mem = s.mem
    BY <1>1, FreePageType
  <2>2. FreePage(x, e) \in Works /\ FreePage(x, e).mem = x.mem
    BY <1>4, FreePageType
  <2>3. s \in W
    BY DEF W
  <2> QED
    BY <1>4, <2>1, <2>2, <2>3, SameMem DEF W
<1> QED
  BY <1>2, <1>5 DEF W

LEMMA Table1Pared ==
    ASSUME NEW u, NEW m \in Mem, NEW av \in SUBSET Frames, Pages(u, m, av),
           NEW p \in Memory, u[p] = "pml4",
           NEW s \in Pared(u, m, p), NEW e \in Entries, Present(e), UnderDir(u, m, p, e.to)
    PROVE  FreeTable1(s, e) \in Pared(u, m, p)
<1> DEFINE f == e.to
           W == Pared(u, m, p)
           x == Entries1(s, f, ENTRIES)
<1>1. s \in Works /\ f \in Memory /\ f \in Tree(u, m, p) /\ u[f] = "table"
  BY TreeUses DEF Pared
<1>2. FreeTable1(s, e) = FreeFrame(x, f)
  BY <1>1, FreeTable1Type
<1>3. Child["table"] = "page" /\ "table" \in Live
  BY DEF Child, Live
<1>4. ASSUME NEW y \in Works, NEW k \in 0 .. ENTRIES - 1, y \in W
      PROVE  Entry1(y, f, k) \in W
  <2> DEFINE g == y.mem[f][k]
             d == FreeLeaf(y, g)
  <2>1. k \in Entry /\ g \in Entries
    BY <1>1 DEF Entry, Works, Mem
  <2>2. Entry1(y, f, k) = Turn(y, f, k, d)
    BY <1>1, <2>1, Entry1Type
  <2>3. Present(g) => Gone(y, d)
    BY <2>1, FreeLeafType
  <2>4. Present(g) /\ "huge" \notin g.flags /\ g = m[f][k] => d \in Pared(u, m, p)
    <3> SUFFICES ASSUME Present(g), "huge" \notin g.flags, g = m[f][k]
                 PROVE  d \in Pared(u, m, p)
      OBVIOUS
    <3>1. Leads(u, m, f, k)
      BY <1>1, <1>3 DEF Leads
    <3>2. u[m[f][k].to] = Child[u[f]]
      BY <1>1, <2>1, <3>1, UseFacts
    <3>3. u[g.to] = "page"
      BY <1>1, <1>3, <3>2
    <3>4. y \in Pared(u, m, p)
      BY <1>4
    <3> HIDE DEF g
    <3> QED
      BY <2>1, <3>3, <3>4, LeafPared
  <2> HIDE DEF d
  <2>5. Turn(y, f, k, d) \in Pared(u, m, p)
    <3>1. y \in Pared(u, m, p)
      BY <1>4
    <3> HIDE DEF f
    <3> QED
      BY <1>1, <2>1, <2>3, <2>4, <3>1, TurnPared
  <2> QED
    BY <2>2, <2>5
<1> HIDE DEF W, f
<1>5. x \in W /\ x \in Works
  <2>1. ENTRIES \in 0 .. ENTRIES /\ s \in W
    BY Geometry DEF W
  <2> QED
    BY <1>1, <1>4, <2>1, Entries1Loop
<1> HIDE DEF x
<1>6. FreeFrame(x, f) \in W
  <2>1. [to |-> f, flags |-> {}] \in Entries
    BY <1>1, FrameEntry
  <2>2. FreeFrame(x, f) \in Works /\ FreeFrame(x, f).mem = x.mem
    BY <1>5, <2>1, FreePageType DEF FreeFrame
  <2> QED
    BY <1>5, <2>2, SameMem DEF W
<1> QED
  BY <1>2, <1>6 DEF W

LEMMA Table2Pared ==
    ASSUME NEW u, NEW m \in Mem, NEW av \in SUBSET Frames, Pages(u, m, av),
           NEW p \in Memory, u[p] = "pml4",
           NEW s \in Pared(u, m, p), NEW e \in Entries, Present(e), UnderRoot(u, m, p, e.to)
    PROVE  FreeTable2(s, e) \in Pared(u, m, p)
<1> DEFINE f == e.to
           W == Pared(u, m, p)
           x == Entries2(s, f, ENTRIES)
<1>1. s \in Works /\ f \in Memory /\ f \in Tree(u, m, p) /\ u[f] = "dir" /\ UnderRoot(u, m, p, f)
  BY TreeUses DEF Pared
<1>2. FreeTable2(s, e) = FreeFrame(x, f)
  BY <1>1, FreeTable2Type
<1>3. "dir" \in Live
  BY DEF Live
<1>4. ASSUME NEW y \in Works, NEW k \in 0 .. ENTRIES - 1, y \in W
      PROVE  Entry2(y, f, k) \in W
  <2> DEFINE g == y.mem[f][k]
             d == FreeTable1(y, g)
  <2>1. k \in Entry /\ g \in Entries
    BY <1>1 DEF Entry, Works, Mem
  <2>2. Entry2(y, f, k) = Turn(y, f, k, d)
    BY <1>1, <2>1, Entry2Type
  <2>3. Present(g) => Gone(y, d)
    BY <2>1, FreeTable1Type
  <2>4. Present(g) /\ "huge" \notin g.flags /\ g = m[f][k] => d \in Pared(u, m, p)
    <3> SUFFICES ASSUME Present(g), "huge" \notin g.flags, g = m[f][k]
                 PROVE  d \in Pared(u, m, p)
      OBVIOUS
    <3>1. Leads(u, m, f, k)
      BY <1>1, <1>3 DEF Leads
    <3>2. UnderDir(u, m, p, g.to)
      BY <1>1, <2>1, <3>1 DEF UnderDir
    <3>4. y \in Pared(u, m, p)
      BY <1>4
    <3> HIDE DEF g
    <3> QED
      BY <2>1, <3>2, <3>4, Table1Pared
  <2> HIDE DEF d
  <2>5. Turn(y, f, k, d) \in Pared(u, m, p)
    <3>1. y \in Pared(u, m, p)
      BY <1>4
    <3> HIDE DEF f
    <3> QED
      BY <1>1, <2>1, <2>3, <2>4, <3>1, TurnPared
  <2> QED
    BY <2>2, <2>5
<1> HIDE DEF W, f
<1>5. x \in W /\ x \in Works
  <2>1. ENTRIES \in 0 .. ENTRIES /\ s \in W
    BY Geometry DEF W
  <2> QED
    BY <1>1, <1>4, <2>1, Entries2Loop
<1> HIDE DEF x
<1>6. FreeFrame(x, f) \in W
  <2>1. [to |-> f, flags |-> {}] \in Entries
    BY <1>1, FrameEntry
  <2>2. FreeFrame(x, f) \in Works /\ FreeFrame(x, f).mem = x.mem
    BY <1>5, <2>1, FreePageType DEF FreeFrame
  <2> QED
    BY <1>5, <2>2, SameMem DEF W
<1> QED
  BY <1>2, <1>6 DEF W

LEMMA HalfPared ==
    ASSUME NEW u, NEW m \in Mem, NEW av \in SUBSET Frames, Pages(u, m, av),
           NEW p \in Memory, u[p] = "pml4", NEW s \in Works, s.mem = m
    PROVE  Entries3(s, p, HALF) \in Pared(u, m, p)
<1> DEFINE W == Pared(u, m, p)
<1>1. s \in W /\ p \in Tree(u, m, p)
  BY TreeUses DEF Pared
<1>2. "pml4" \in Live
  BY DEF Live
<1>3. HALF \in 0 .. ENTRIES /\ HALF \in Nat
  BY Geometry
<1>4. ASSUME NEW y \in Works, NEW k \in 0 .. HALF - 1, y \in W
      PROVE  Entry3(y, p, k) \in W
  <2> DEFINE g == y.mem[p][k]
             d == FreeTable2(y, g)
  <2>1. k \in Entry /\ k < HALF
    BY <1>3, Geometry DEF Entry
  <2>2. g \in Entries
    BY <2>1 DEF Works, Mem
  <2>3. Entry3(y, p, k) = Turn(y, p, k, d)
    BY <2>1, Entry3Type
  <2>4. Present(g) => Gone(y, d)
    BY <2>2, FreeTable2Type
  <2>5. Present(g) /\ "huge" \notin g.flags /\ g = m[p][k] => d \in Pared(u, m, p)
    <3> SUFFICES ASSUME Present(g), "huge" \notin g.flags, g = m[p][k]
                 PROVE  d \in Pared(u, m, p)
      OBVIOUS
    <3>1. Leads(u, m, p, k)
      BY <1>2 DEF Leads
    <3>2. UnderRoot(u, m, p, g.to)
      BY <2>1, <3>1 DEF UnderRoot
    <3>3. y \in Pared(u, m, p)
      BY <1>4
    <3> HIDE DEF g
    <3> QED
      BY <2>2, <3>2, <3>3, Table2Pared
  <2> HIDE DEF d
  <2>6. Turn(y, p, k, d) \in Pared(u, m, p)
    BY <1>1, <1>4, <2>1, <2>4, <2>5, TurnPared
  <2> QED
    BY <2>3, <2>6
<1> HIDE DEF W
<1>5. Entries3(s, p, HALF) \in W
  BY <1>1, <1>3, <1>4, Entries3Loop
<1> QED
  BY <1>5 DEF W

-----------------------------------------------------------------------------
(* The other spaces lose nothing when one is destroyed. *)

LEMMA OtherTree ==
    ASSUME NEW u, NEW m \in Mem, NEW av \in SUBSET Frames, NEW roots, Rooted(u, m, av, roots),
           NEW p \in roots, NEW q \in roots, q # p, NEW a \in Nat
    PROVE  /\ q \notin Tree(u, m, p)
           /\ TableAt(m, q, a, 2) # NULL => TableAt(m, q, a, 2) \notin Tree(u, m, p)
           /\ TableAt(m, q, a, 1) # NULL => TableAt(m, q, a, 1) \notin Tree(u, m, p)
<1> DEFINE d == TableAt(m, q, a, 2)
           t == TableAt(m, q, a, 1)
<1>1. /\ Pages(u, m, av) /\ Tame(m, roots) /\ p \in Memory /\ q \in Memory
      /\ u[p] = "pml4" /\ u[q] = "pml4"
  BY Places DEF Rooted
<1>2. OnWalk(u, m, q, a)
  BY RootedWalk
<1>3. /\ Index(a, 2) \in Entry /\ Index(a, 3) \in Entry
      /\ d # NULL => /\ d \in Memory /\ u[d] = "dir" /\ Leads(u, m, q, Index(a, 3))
                     /\ d = m[q][Index(a, 3)].to
      /\ t # NULL => /\ d # NULL /\ t \in Memory /\ u[t] = "table"
                     /\ Leads(u, m, d, Index(a, 2)) /\ t = m[d][Index(a, 2)].to
  BY <1>2 DEF OnWalk
<1> HIDE DEF d, t
<1>4. /\ \A r : UnderRoot(u, m, p, r) => u[r] = "dir"
      /\ \A r : UnderDir(u, m, p, r) => u[r] = "table"
  BY <1>1, TreeUses
<1>5. Once(u, m)
  BY <1>1 DEF Pages
<1>6. ~UnderRoot(u, m, p, d) \/ d = NULL
  <2> SUFFICES ASSUME d # NULL, NEW k \in Entry, k < HALF, Leads(u, m, p, k), m[p][k].to = d
               PROVE  FALSE
    BY DEF UnderRoot
  <2>1. k \in 0 .. HALF - 1
    BY Geometry DEF Entry
  <2>2. d \in Frames
    BY <1>1, <2>1 DEF Tame, Leads
  <2>3. k >= HALF
    BY <1>1, <1>3, <1>5, <2>2 DEF Once
  <2> QED
    BY <2>1, <2>3, Geometry
<1>7. ~UnderDir(u, m, p, t) \/ t = NULL
  <2> SUFFICES ASSUME t # NULL, NEW c \in Memory, NEW k \in Entry, UnderRoot(u, m, p, c),
                      Leads(u, m, c, k), m[c][k].to = t
               PROVE  FALSE
    BY DEF UnderDir
  <2>1. u[c] = "dir" /\ u[d] = "dir" /\ d # NULL
    BY <1>3, <1>4
  <2>2. c = d
    BY <1>3, <1>5, <2>1 DEF Once
  <2> QED
    BY <1>6, <2>1, <2>2
<1>8. q \notin Tree(u, m, p)
  BY <1>1, <1>4 DEF Tree
<1>9. d # NULL => d \notin Tree(u, m, p)
  BY <1>1, <1>3, <1>4, <1>6 DEF Tree
<1>10. t # NULL => t \notin Tree(u, m, p)
  BY <1>1, <1>3, <1>4, <1>7 DEF Tree
<1> QED
  BY <1>8, <1>9, <1>10 DEF d, t

LEMMA ParedView ==
    ASSUME NEW u, NEW m \in Mem, NEW av \in SUBSET Frames, NEW roots, Rooted(u, m, av, roots),
           NEW p \in roots, NEW q \in roots, q # p, NEW x \in Pared(u, m, p)
    PROVE  View(x.mem, q) = View(m, q)
<1> DEFINE n == x.mem
<1>1. \A t \in Memory, k \in Entry : t \notin Tree(u, m, p) => n[t][k] = m[t][k]
  BY DEF Pared
<1> HIDE DEF n
<1>2. q \in Memory
  BY Places DEF Rooted
<1>3. ASSUME NEW v \in LowPages
      PROVE  Mapped(n, q, v * PAGE) <=> Mapped(m, q, v * PAGE)
  <2> DEFINE a == v * PAGE
             d == TableAt(m, q, a, 2)
             t == TableAt(m, q, a, 1)
  <2>1. a \in Nat
    BY PageDigits
  <2> HIDE DEF a
  <2>2. /\ Index(a, 1) \in Entry /\ Index(a, 2) \in Entry /\ Index(a, 3) \in Entry
        /\ d # NULL => d \in Memory
        /\ t # NULL => t \in Memory
    BY <2>1, RootedWalk DEF OnWalk
  <2>3. /\ q \notin Tree(u, m, p)
        /\ d # NULL => d \notin Tree(u, m, p)
        /\ t # NULL => t \notin Tree(u, m, p)
    BY <2>1, OtherTree
  <2>4. /\ n[q][Index(a, 3)] = m[q][Index(a, 3)]
        /\ d # NULL => n[d][Index(a, 2)] = m[d][Index(a, 2)]
        /\ t # NULL => n[t][Index(a, 1)] = m[t][Index(a, 1)]
    BY <1>1, <1>2, <2>2, <2>3
  <2>5. TableAt(n, q, a, 1) = TableAt(m, q, a, 1)
    BY <2>4, SameWalk
  <2> QED
    BY <2>4, <2>5 DEF Mapped, a
<1> QED
  BY <1>3 DEF View, n

LEMMA DestroyBacked ==
    ASSUME TypeOK, UseInv, BackInv, Clean, NEW as \in DOMAIN spaces, Destroy(as)
    PROVE  BackInv'
<1> DEFINE new == [q \in DOMAIN spaces \ {as} |-> spaces[q]]
           b == Start(as)
           p == spaces[as].pml4
           rs == spaces[as].regions
           c == Entries3(b, p, HALF)
           d == FreeFrame(c, p)
           e == FreeRecords(d, rs)
           s == Destroyed(b, as, spaces[as])
           U == UserRoots(spaces)
           own == Ours(spaces)
           roots == Roots(spaces)
<1>1. as # Kernel /\ Commit(s, new, "destroy", as, TRUE, 0, 0) /\ UNCHANGED mingled
  BY DEF Destroy
<1>2. s = FreeFrame(e, as)
  BY DEF Destroyed, Entries3
<1>3. b \in Works /\ b.mem = mem /\ b.fate = "runs" /\ b.avail = avail
  BY StartType
<1>4. /\ Programs(U, roots) /\ b \in Kept(own, roots, {}) /\ b \in Seen(U, p, View(mem, p))
      /\ p \in U /\ p \in roots /\ p \in Memory
  BY <1>1, StartOwn
<1>5. as \in Memory /\ rs \in Seq(Regions)
  BY TypedFacts
<1>6. /\ \A r \in DOMAIN spaces : r # Kernel => spaces[r].pml4 \in U
      /\ \A r \in DOMAIN spaces : r # as => spaces[r].pml4 # p
  BY CleanFacts
<1>7. /\ DOMAIN new = DOMAIN spaces \ {as}
      /\ \A q \in DOMAIN spaces \ {as} : new[q] = spaces[q]
  OBVIOUS
<1> HIDE DEF new, b, p, rs, s
<1>8. PICK u : Rooted(u, b.mem, b.avail, U) /\ Pages(u, b.mem, b.avail)
               /\ \A r \in roots : r \in Memory /\ u[r] = "pml4"
  <2> HIDE DEF U, own, roots
  <2> QED
    BY <1>3, <1>4, SeenRooted
<1> DEFINE W == Pared(u, mem, p)
<1>9. c \in W /\ c \in Works
  <2> HIDE DEF U, own, roots
  <2>1. Pages(u, mem, avail) /\ u[p] = "pml4" /\ mem \in Mem /\ avail \in SUBSET Frames
    BY <1>3, <1>4, <1>8 DEF Works
  <2>2. c \in Pared(u, mem, p)
    BY <1>3, <1>4, <2>1, HalfPared
  <2> QED
    BY <2>2 DEF Pared
<1> HIDE DEF c, W
<1>10. ASSUME NEW x \in Works, x \in W, NEW f \in Memory
       PROVE  FreeFrame(x, f) \in Works /\ FreeFrame(x, f) \in W
  <2>1. [to |-> f, flags |-> {}] \in Entries
    BY FrameEntry
  <2>2. FreeFrame(x, f) \in Works /\ FreeFrame(x, f).mem = x.mem
    BY <2>1, FreePageType DEF FreeFrame
  <2> QED
    BY <1>10, <2>2, SameMem DEF W
<1>11. d \in Works /\ d \in W
  BY <1>4, <1>9, <1>10
<1> HIDE DEF d
<1>12. e \in Works /\ e \in W
  <2>1. \A k \in 0 .. Len(rs) - 1 : rs[k + 1].at \in Memory
    <3> TAKE k \in 0 .. Len(rs) - 1
    <3>1. k + 1 \in DOMAIN rs
      BY <1>5
    <3>2. rs[k + 1] \in Regions
      BY <1>5, <3>1, SeqFacts
    <3> QED
      BY <3>2, Places DEF Regions
  <2>2. \A x \in Works, k \in 0 .. Len(rs) - 1 : x \in W => FreeFrame(x, rs[k + 1].at) \in W
    BY <1>10, <2>1
  <2> QED
    BY <1>5, <1>11, <2>2, RecordsLoop
<1> HIDE DEF e
<1>13. s \in W
  BY <1>2, <1>5, <1>10, <1>12
<1> SUFFICES ASSUME fate' = "runs"
             PROVE  AllBacked(mem', spaces')
  BY DEF BackInv, Clean
<1>14. mem' = s.mem /\ spaces' = new
  BY <1>1 DEF Commit
<1>15. UserRoots(new) \subseteq U
  BY <1>7 DEF UserRoots
<1>16. \A q \in U : q # p => View(s.mem, q) = View(mem, q)
  <2> HIDE DEF U, own, roots
  <2>1. Rooted(u, mem, avail, U) /\ mem \in Mem /\ avail \in SUBSET Frames
    BY <1>3, <1>8 DEF Works
  <2> QED
    BY <1>4, <1>13, <2>1, ParedView DEF W
<1>17. Tame(s.mem, UserRoots(new))
  <2>1. Tame(mem, U) /\ U \in SUBSET Frames
    BY <1>3, <1>4, <1>8 DEF Rooted, Programs
  <2>2. \A t \in Memory, k \in Entry : s.mem[t][k] = mem[t][k] \/ s.mem[t][k] = Zero
    BY <1>13 DEF W, Pared
  <2>3. "huge" \notin Zero.flags /\ ~Present(Zero)
    BY DEF Zero, Present, NULL
  <2> HIDE DEF U
  <2>4. Tame(s.mem, U)
    BY <2>1, <2>2, <2>3, TameStays
  <2> QED
    BY <1>15, <2>4 DEF Tame
<1>18. ASSUME NEW q \in DOMAIN new \ {Kernel}
       PROVE  Backed(s.mem, new[q])
  <2>1. q \in DOMAIN spaces \ {Kernel} /\ q # as /\ new[q] = spaces[q]
    BY <1>7
  <2>2. View(s.mem, spaces[q].pml4) = View(mem, spaces[q].pml4)
    BY <1>6, <1>16, <2>1
  <2>3. Backed(mem, spaces[q])
    BY <2>1 DEF BackInv, AllBacked
  <2> QED
    BY <2>1, <2>2, <2>3 DEF Backed
<1> QED
  BY <1>14, <1>17, <1>18 DEF AllBacked

-----------------------------------------------------------------------------
(* A new space maps nothing in its lower half, and the others what they did. *)

\* A row whose lower half is empty.
Bare(m, q) == \A k \in 0 .. HALF - 1 : m[q][k] = Zero

LEMMA BareView ==
    ASSUME NEW m \in Mem, NEW q \in Memory, Bare(m, q)
    PROVE  View(m, q) = {}
<1> SUFFICES ASSUME NEW v \in LowPages
             PROVE  ~Mapped(m, q, v * PAGE)
  BY ViewFacts
<1>1. v * PAGE \in Nat /\ Index(v * PAGE, 3) \in 0 .. HALF - 1
  BY PageDigits
<1>2. m[q][Index(v * PAGE, 3)] = Zero
  BY <1>1 DEF Bare
<1>3. Sub(Zero) = NULL
  BY DEF Sub, Zero, NULL
<1> DEFINE a == v * PAGE
<1>4. a \in Nat /\ m[q][Index(a, 3)] = Zero
  BY <1>1, <1>2
<1> HIDE DEF a
<1>5. /\ TableAt(m, q, a, 2) = Sub(m[q][Index(a, 3)])
      /\ TableAt(m, q, a, 1) = IF TableAt(m, q, a, 2) = NULL THEN NULL
                               ELSE Sub(m[TableAt(m, q, a, 2)][Index(a, 2)])
  BY <1>4, TableSteps
<1>6. TableAt(m, q, a, 1) = NULL
  BY <1>3, <1>4, <1>5
<1> QED
  BY <1>6 DEF Mapped, a

\* The upper half of a space is copied into a frame of the allocator.
LEMMA CopySeen ==
    ASSUME NEW own, NEW roots, NEW s \in Kept(own, roots, {}), NEW g, g \in s.avail,
           NEW c \in Memory, c \in roots, NEW x \in Works, x.fate = s.fate,
           x.mem = [s.mem EXCEPT ![g] = UpperHalf(s.mem[c])],
           NEW U, Programs(U, roots), NEW q, NEW S, s \in Seen(U, q, S)
    PROVE  /\ x \in Seen(U, q, S)
           /\ x.fate = "runs" => Bare(x.mem, g) /\ Tame(x.mem, U \cup {g})
<1>1. s \in Works /\ s.mem \in Mem /\ s.avail \in SUBSET Frames /\ g \in Memory /\ g \in Frames
  BY KeptFacts, Places DEF Kept
<1> SUFFICES ASSUME x.fate = "runs"
             PROVE  x \in Seen(U, q, S) /\ Bare(x.mem, g) /\ Tame(x.mem, U \cup {g})
  BY SeenFacts
<1>0. s.fate = "runs"
  OBVIOUS
<1>2. /\ s.mem \in Mem /\ s.avail \in SUBSET Frames /\ U \in SUBSET Frames
      /\ Tame(s.mem, U) /\ (q \in U => View(s.mem, q) = S)
      /\ \E u : /\ Rooted(u, s.mem, s.avail, U) /\ Pages(u, s.mem, s.avail)
                /\ \A p \in roots : p \in Memory /\ u[p] = "pml4"
  BY <1>0, SeenRooted
<1>3. PICK u : Pages(u, s.mem, s.avail) /\ \A p \in roots : p \in Memory /\ u[p] = "pml4"
  BY <1>2
<1>4. \A k \in Entry : "huge" \notin s.mem[c][k].flags
  <2>1. u[c] = "pml4" /\ "pml4" \in Live /\ Large(u, s.mem)
    BY <1>3 DEF Pages, Live
  <2> QED
    BY <2>1 DEF Large
<1>5. \A k \in Entry : x.mem[g][k] = IF k >= HALF THEN s.mem[c][k] ELSE Zero
  BY <1>1 DEF UpperHalf, Entry, Mem
<1>6. "huge" \notin Zero.flags
  BY DEF Zero
<1>7. \A t \in Memory : t # g => x.mem[t] = s.mem[t]
  BY <1>1 DEF Mem
<1>8. Beside(x.mem, s.mem, s.avail)
  BY <1>7 DEF Beside
<1>9. \A f \in s.avail, k \in Entry :
          x.mem[f][k] = s.mem[f][k] \/ "huge" \notin x.mem[f][k].flags
  BY <1>1, <1>4, <1>5, <1>6, <1>7, Places
<1>10. x \in Seen(U, q, S)
  <2>1. x.fate = "runs" => s.fate = "runs"
    OBVIOUS
  <2>2. s \in Kept(own, roots, {}) /\ Programs(U, roots) /\ s \in Seen(U, q, S) /\ x \in Works
    OBVIOUS
  <2> QED
    BY ONLY <1>8, <1>9, <2>1, <2>2, BesideSeen
<1>11. Bare(x.mem, g)
  <2>1. \A k \in 0 .. HALF - 1 : k \in Entry /\ ~(k >= HALF)
    BY Geometry DEF Entry
  <2> QED
    BY <1>5, <2>1 DEF Bare
<1>12. Tame(x.mem, U \cup {g})
  <2>1. Tame(x.mem, U)
    BY <1>10, SeenFacts
  <2>2. ~Present(Zero)
    BY DEF Present, Zero, NULL
  <2> QED
    BY <1>11, <2>1, <2>2 DEF Tame, Bare
<1> QED
  BY <1>10, <1>11, <1>12

Anew(m, U, space) ==
    /\ Tame(m, U \cup {space.pml4}) /\ View(m, space.pml4) = {}
    /\ space.stack_end = 0 /\ Areas(space.regions) = {}

LEMMA CreatedSeen ==
    ASSUME NEW own, NEW roots, NEW s \in Kept(own, roots, {}), s.fate = "runs",
           KernelPml4 \in roots, NEW U, Programs(U, roots), Tame(s.mem, U)
    PROVE  LET c == Created(s) IN
           IF c.as = NULL THEN c.s.mem = s.mem
           ELSE /\ \A q \in U : View(c.s.mem, q) = View(s.mem, q)
                /\ Anew(c.s.mem, U, c.space)
<1> DEFINE c == Created(s)
           as == Fresh(s)
           s1 == Take(s)
           pml4 == Fresh(s1)
           s2 == Take(s1)
           s3 == [s2 EXCEPT !.mem[pml4] = UpperHalf(s.mem[KernelPml4])]
           g == Fresh(s3)
           one == <<Region(USER_SPACE_START, USER_SPACE_END, FREE, g)>>
           V == U \cup {pml4}
<1>1. s \in Works /\ Roles(s.mem, s.avail, own, roots, {}) /\ s.mem \in Mem
  BY KeptFacts DEF Kept
<1>2. \/ c.as = NULL /\ c.s = RanOut(s)
      \/ /\ s.avail # {} /\ s1.avail # {} /\ c.as = as
         /\ s1 \in Works /\ s2 \in Works /\ s3 \in Works
         /\ s3.mem = [s2.mem EXCEPT ![pml4] = UpperHalf(s.mem[KernelPml4])]
         /\ s3.avail = s2.avail /\ s3.fate = s.fate /\ s3.regions = s.regions
         /\ \/ s3.avail = {} /\ c.s = RanOut(s3) /\ c.space = NewSpace(pml4, <<>>)
            \/ s3.avail # {} /\ c.s = Take(s3) /\ c.space = NewSpace(pml4, one)
  BY <1>1, CreatedCases
<1> SUFFICES IF c.as = NULL THEN c.s.mem = s.mem
             ELSE /\ \A q \in U : View(c.s.mem, q) = View(s.mem, q)
                  /\ Anew(c.s.mem, U, c.space)
  OBVIOUS
<1> HIDE DEF c, s3
<1>3. c.as = NULL => c.s.mem = s.mem
  <2>1. as # NULL \/ s.avail = {}
    BY <1>1, FreshIn, Places
  <2>2. RanOut(s).mem = s.mem
    BY <1>1, RanOutType
  <2> QED
    BY <1>2, <2>1, <2>2
<1> SUFFICES ASSUME c.as # NULL
             PROVE  /\ \A q \in U : View(c.s.mem, q) = View(s.mem, q)
                    /\ Anew(c.s.mem, U, c.space)
  BY <1>3
<1>4. /\ s.avail # {} /\ s1.avail # {} /\ c.as = as
      /\ s1 \in Works /\ s2 \in Works /\ s3 \in Works
      /\ s3.mem = [s2.mem EXCEPT ![pml4] = UpperHalf(s.mem[KernelPml4])]
      /\ s3.avail = s2.avail /\ s3.fate = s.fate
      /\ \/ s3.avail = {} /\ c.s = RanOut(s3) /\ c.space = NewSpace(pml4, <<>>)
         \/ s3.avail # {} /\ c.s = Take(s3) /\ c.space = NewSpace(pml4, one)
  BY <1>2
<1>5. as \in s.avail /\ as \in Frames
  BY <1>1, <1>4, FreshIn
<1>6. s1 \in Kept(own \cup {as}, roots, {})
      /\ s1.mem = [s.mem EXCEPT ![as] = Blank] /\ s1.fate = "runs"
  BY <1>1, <1>4, TakeKeeps, TakeType
<1>7. \A q : s1 \in Seen(U, q, View(s.mem, q))
  <2> TAKE q
  <2>1. s \in Seen(U, q, View(s.mem, q))
    BY <1>1, SeenFacts
  <2> QED
    BY <1>4, <2>1, TakeSeen
<1> HIDE DEF s1, as
<1>8. pml4 \in s1.avail /\ pml4 \in Frames /\ pml4 \notin U
  <2>1. Roles(s1.mem, s1.avail, own \cup {as}, roots, {})
    BY <1>6 DEF Kept
  <2>2. pml4 \in s1.avail /\ pml4 \in Frames /\ pml4 \notin roots
    BY <1>4, <2>1, FreshIn, FreshIsNew
  <2> QED
    BY <2>2 DEF Programs
<1>9. s3.mem = [s1.mem EXCEPT ![pml4] = UpperHalf(s1.mem[KernelPml4])]
      /\ s3.avail = s1.avail \ {pml4} /\ s3.fate = s1.fate
  <2>1. s2.mem = [s1.mem EXCEPT ![pml4] = Blank] /\ s2.avail = s1.avail \ {pml4}
    BY <1>4, TakeType
  <2>2. s1.mem[KernelPml4] = s.mem[KernelPml4]
    <3>1. KernelPml4 # as /\ KernelPml4 \in Memory
      BY <1>5, Places
    <3> QED
      BY <1>1, <1>6, <3>1 DEF Mem
  <2> HIDE DEF s2
  <2>3. s3.mem = [s2.mem EXCEPT ![pml4] = UpperHalf(s1.mem[KernelPml4])]
    BY <1>4, <2>2
  <2> DEFINE row == UpperHalf(s1.mem[KernelPml4])
  <2> HIDE DEF row, pml4
  <2>4. [[s1.mem EXCEPT ![pml4] = Blank] EXCEPT ![pml4] = row] = [s1.mem EXCEPT ![pml4] = row]
    <3>1. s1.mem \in Mem
      BY <1>4 DEF Works
    <3> QED
      BY <3>1 DEF Mem
  <2> QED
    BY <1>4, <1>6, <2>1, <2>3, <2>4 DEF row
<1>10. s3 \in Kept(own \cup {as}, roots \cup {pml4}, {})
  <2>1. KernelPml4 \in Memory
    BY Places
  <2> QED
    BY <1>4, <1>6, <1>9, <2>1, RootKeeps
<1>11. s3.fate = "runs"
  BY <1>6, <1>9
<1> HIDE DEF s2, pml4
<1>12. /\ \A q : s3 \in Seen(U, q, View(s.mem, q))
       /\ Bare(s3.mem, pml4) /\ Tame(s3.mem, V)
  <2>1. KernelPml4 \in Memory
    BY Places
  <2>2. ASSUME NEW q
        PROVE  /\ s3 \in Seen(U, q, View(s.mem, q))
               /\ s3.fate = "runs" => Bare(s3.mem, pml4) /\ Tame(s3.mem, U \cup {pml4})
    <3> DEFINE o == own \cup {as}
               S == View(s.mem, q)
    <3>1. /\ s1 \in Kept(o, roots, {}) /\ pml4 \in s1.avail /\ KernelPml4 \in Memory
          /\ KernelPml4 \in roots /\ s3 \in Works /\ s3.fate = s1.fate
          /\ s3.mem = [s1.mem EXCEPT ![pml4] = UpperHalf(s1.mem[KernelPml4])]
          /\ Programs(U, roots) /\ s1 \in Seen(U, q, S)
      BY <1>4, <1>6, <1>7, <1>8, <1>9, <2>1
    <3> HIDE DEF o, S
    <3>2. /\ s3 \in Seen(U, q, S)
          /\ s3.fate = "runs" => Bare(s3.mem, pml4) /\ Tame(s3.mem, U \cup {pml4})
      BY ONLY <3>1, CopySeen
    <3> QED
      BY <3>2 DEF S
  <2> QED
    BY <1>11, <2>2
<1>13. /\ \A q \in U : s3 \in Seen(V, q, View(s.mem, q))
       /\ s3 \in Seen(V, pml4, {})
  <2>1. \A q \in U : View(s3.mem, q) = View(s.mem, q)
    BY <1>4, <1>11, <1>12, SeenFacts
  <2>2. s3.mem \in Mem /\ pml4 \in Memory
    BY <1>4, <1>8, Places DEF Works
  <2>3. View(s3.mem, pml4) = {}
    BY <1>12, <2>2, BareView
  <2>4. s3 \in Works /\ Tame(s3.mem, V)
    BY <1>4, <1>12
  <2> HIDE DEF V
  <2>5. ASSUME NEW q, NEW S, q \in V => View(s3.mem, q) = S
        PROVE  s3 \in Seen(V, q, S)
    BY <2>4, <2>5, SeenFacts
  <2>6. ASSUME NEW q \in U
        PROVE  s3 \in Seen(V, q, View(s.mem, q))
    BY <2>1, <2>5
  <2>7. s3 \in Seen(V, pml4, {})
    BY <2>3, <2>5
  <2> QED
    BY <2>6, <2>7
<1>14. Programs(V, roots \cup {pml4})
  BY <1>8 DEF Programs
<1>15. c.s \in Works /\ c.s.fate = "runs" /\ c.space.pml4 = pml4 /\ c.space.stack_end = 0
  <2>1. c.s \in Works /\ c.s.fate = s.fate
    BY <1>1, CreatedType DEF c
  <2> QED
    BY <1>4, <2>1 DEF NewSpace
<1>16. Areas(c.space.regions) = {}
  <2>1. c.space.regions = <<>> \/ c.space.regions = one
    BY <1>4 DEF NewSpace
  <2>2. Areas(<<>>) = {}
    BY DEF Areas
  <2>3. Areas(one) = {}
    BY DEF Areas, Region
  <2> QED
    BY <2>1, <2>2, <2>3
<1> HIDE DEF one, g, V
<1>17. ASSUME NEW q, NEW S, s3 \in Seen(V, q, S)
       PROVE  c.s \in Seen(V, q, S)
  <2>1. CASE s3.avail = {} /\ c.s = RanOut(s3)
    <3>1. c.s.mem = s3.mem /\ (c.s.fate = "runs" => s3.fate = "runs")
      BY <1>4, <1>11, <2>1, RanOutType
    <3> QED
      BY <1>15, <1>17, <3>1, SameSeen
  <2>2. CASE s3.avail # {} /\ c.s = Take(s3)
    <3>1. Take(s3) \in Seen(V, q, S)
      BY <1>10, <1>14, <1>17, <2>2, TakeSeen
    <3> QED
      BY <2>2, <3>1
  <2> QED
    BY <1>4, <2>1, <2>2
<1>18. \A q \in U : View(c.s.mem, q) = View(s.mem, q)
  <2> TAKE q \in U
  <2>1. q \in V
    BY DEF V
  <2> QED
    BY <1>13, <1>15, <1>17, <2>1, SeenFacts
<1>19. Tame(c.s.mem, V) /\ View(c.s.mem, pml4) = {}
  <2>1. pml4 \in V
    BY DEF V
  <2> QED
    BY <1>13, <1>15, <1>17, <2>1, SeenFacts
<1> QED
  BY <1>15, <1>16, <1>18, <1>19 DEF Anew, V

LEMMA CreateBacked ==
    ASSUME TypeOK, UseInv, BackInv, Clean, Create
    PROVE  BackInv'
<1> DEFINE b == Idle
           c == Created(b)
           new == IF c.as = NULL THEN spaces ELSE With(c.as, c.space)
           U == UserRoots(spaces)
           own == Ours(spaces)
           roots == Roots(spaces)
<1>1. Commit(c.s, new, "create", c.as, c.as # NULL, 0, 0)
  BY DEF Create
<1> SUFFICES ASSUME fate' = "runs"
             PROVE  AllBacked(mem', spaces')
  BY DEF BackInv, Clean
<1>2. mem' = c.s.mem /\ spaces' = new
  BY <1>1 DEF Commit
<1>3. b \in Works /\ b.mem = mem /\ b.avail = avail /\ b.fate = "runs"
  BY IdleType
<1> HIDE DEF b
<1>4. /\ Programs(U, roots) /\ b \in Kept(own, roots, {})
      /\ \A as \in DOMAIN spaces : as # Kernel => spaces[as].pml4 \in U
  BY <1>3, CleanFacts, StartSeen
<1>5. KernelPml4 \in roots
  <2>1. Kernel \in DOMAIN spaces /\ Typed(Kernel, spaces[Kernel])
    BY TypeParts DEF AllTyped
  <2>2. spaces[Kernel].pml4 = KernelPml4
    BY <2>1 DEF Typed
  <2> QED
    BY <2>1, <2>2, OursParts
<1>6. Tame(mem, U) /\ \A as \in DOMAIN spaces \ {Kernel} : Backed(mem, spaces[as])
  BY DEF BackInv, AllBacked
<1>7. IF c.as = NULL THEN c.s.mem = mem
      ELSE /\ \A q \in U : View(c.s.mem, q) = View(mem, q)
           /\ Anew(c.s.mem, U, c.space)
  <2> HIDE DEF U, own, roots
  <2> QED
    BY <1>3, <1>4, <1>5, <1>6, CreatedSeen
<1>8. c.as # NULL => c.as \in Frames
  BY <1>3, CreatedType
<1> HIDE DEF c
<1>9. CASE c.as = NULL
  <2>1. mem' = mem /\ spaces' = spaces
    BY <1>2, <1>7, <1>9
  <2> QED
    BY <1>6, <2>1 DEF AllBacked
<1>10. CASE c.as # NULL
  <2> DEFINE a == c.as
             space == c.space
  <2>1. /\ DOMAIN new = DOMAIN spaces \cup {a}
        /\ \A q \in DOMAIN spaces \cup {a} : new[q] = IF q = a THEN space ELSE spaces[q]
    BY <1>10 DEF With
  <2>2. Anew(c.s.mem, U, space) /\ \A q \in U : View(c.s.mem, q) = View(mem, q)
    BY <1>7, <1>10
  <2> HIDE DEF a, space, new
  <2>3. UserRoots(new) \subseteq U \cup {space.pml4}
    BY <2>1 DEF UserRoots
  <2>4. Tame(c.s.mem, UserRoots(new))
    BY <2>2, <2>3 DEF Anew, Tame
  <2>5. ASSUME NEW q \in DOMAIN new \ {Kernel}
        PROVE  Backed(c.s.mem, new[q])
    <3>1. CASE q = a
      <4>1. new[q] = space
        BY <2>1, <3>1
      <4>2. Square({}) /\ InAreas({}) = {}
        BY DEF Square, InAreas
      <4> QED
        BY <2>2, <4>1, <4>2 DEF Backed, Anew
    <3>2. CASE q # a
      <4>1. q \in DOMAIN spaces \ {Kernel} /\ new[q] = spaces[q]
        BY <2>1, <3>2
      <4>2. View(c.s.mem, spaces[q].pml4) = View(mem, spaces[q].pml4)
        BY <1>4, <2>2, <4>1
      <4>3. Backed(mem, spaces[q])
        BY <1>6, <4>1
      <4> QED
        BY <4>1, <4>2, <4>3 DEF Backed
    <3> QED
      BY <3>1, <3>2
  <2> QED
    BY <1>2, <2>4, <2>5 DEF AllBacked
<1> QED
  BY <1>9, <1>10

-----------------------------------------------------------------------------
(* The invariant in the initial states and under every step. *)

LEMMA InitBacked == Init => BackInv
<1> SUFFICES ASSUME Init
             PROVE  AllBacked(mem, spaces)
  BY DEF BackInv
<1>1. DOMAIN spaces \ {Kernel} = {}
  BY DEF Init
<1>2. UserRoots(spaces) = {}
  BY <1>1 DEF UserRoots
<1>3. mem = BootMem
  BY DEF Init
<1>4. ASSUME NEW t \in Frames
      PROVE  mem[t] = Blank
  <2>1. t \in Memory /\ t \notin {KernelPml4, HighDir, HighTable} \cup LowDirs
    BY Places, BootPages
  <2> QED
    BY <1>3, <2>1, BootPages
<1>5. \A k \in Entry : "huge" \notin Blank[k].flags
  BY DEF Blank, Entry, Zero
<1>6. Tame(mem, UserRoots(spaces))
  BY <1>2, <1>4, <1>5 DEF Tame
<1> QED
  BY <1>1, <1>6 DEF AllBacked

\* What every step does: a call was made while the machine ran, nothing that was
\* mingled is set apart, and when the machine stops nothing else changes.
Ends ==
    /\ fate = "runs" /\ (mingled => mingled')
    /\ fate' = "runs" \/ (mem' = mem /\ spaces' = spaces)

LEMMA CommitEnds ==
    ASSUME NEW s, NEW new, NEW op, NEW as, NEW ok, NEW a, NEW n,
           Commit(s, new, op, as, ok, a, n), mingled => mingled'
    PROVE  Ends
BY DEF Commit, Ends

LEMMA WithinEnds ==
    ASSUME NEW op, NEW as, NEW s, NEW space, NEW ok, NEW a, NEW n,
           Within(op, as, s, space, ok, a, n), mingled => mingled'
    PROVE  Ends
BY CommitEnds DEF Within

LEMMA RefusedEnds ==
    ASSUME NEW op, NEW as, Refused(op, as), mingled => mingled'
    PROVE  Ends
BY WithinEnds DEF Refused

LEMMA MindedStays == Minded => (mingled => mingled')
BY DEF Minded

LEMMA BrkEnds ==
    ASSUME NEW as, NEW end, Brk(as, end)
    PROVE  Ends
<1> DEFINE sp == spaces[as]
           new == align_up(end)
           up == IF new > sp.heap_end THEN (new - sp.heap_end) \div PAGE ELSE 0
           down == IF new < sp.heap_end THEN (sp.heap_end - new) \div PAGE ELSE 0
           s == IF up > 0 THEN Back(Start(as), sp.pml4, sp.heap_end, up, {"w", "u"})
                ELSE DropPages(Start(as), sp.pml4, new, down)
           moved == [Mixed(as) EXCEPT !.heap_end = new]
           from == IF up > 0 THEN sp.heap_end ELSE new
<1>1. /\ \/ Refused("brk", as)
         \/ Within("brk", as, s, Mixed(as), FALSE, sp.heap_end, up)
         \/ Within("brk", as, s, moved, TRUE, from, up + down)
      /\ Minded
  BY DEF Brk
<1> HIDE DEF sp, new, up, down, s, moved, from
<1> QED
  BY <1>1, MindedStays, WithinEnds, RefusedEnds

LEMMA CallEnds ==
    ASSUME NEW as, NEW a, NEW n, NEW fl, NEW f
    PROVE  /\ Create \/ Clone(as) \/ Destroy(as) \/ Switch(as) => Ends
           /\ Sbrk(as, n) \/ Sbrk(as, -n) \/ Brk(as, a) => Ends
           /\ MapPhysical(as, fl) \/ Alloc(as, a, n, fl) => Ends
           /\ PageFault(as, a) \/ Store(as, a, f) => Ends
           /\ Free(as, a, n) \/ SetupStack(as, a, n) \/ UnmapPages(as, a, n) => Ends
           /\ Protect(as, a, n, fl) => Ends
<1>1. Create => Ends
  BY CommitEnds DEF Create
<1>2. Clone(as) => Ends
  BY CommitEnds DEF Clone
<1>3. ASSUME Destroy(as) PROVE Ends
  <2> DEFINE s == Destroyed(Start(as), as, spaces[as])
             new == [q \in DOMAIN spaces \ {as} |-> spaces[q]]
  <2>1. Commit(s, new, "destroy", as, TRUE, 0, 0) /\ mingled' = mingled
    BY <1>3 DEF Destroy
  <2> HIDE DEF s, new
  <2> QED
    BY <2>1, CommitEnds
<1>4. ASSUME Switch(as) PROVE Ends
  <2> DEFINE s == [Idle EXCEPT !.fate =
                      IF virt_to_phys(mem, spaces[as].pml4, Code * PAGE).to = Code
                        THEN "runs" ELSE "halted"]
  <2>1. Commit(s, spaces, "switch", as, TRUE, 0, 0) /\ mingled' = mingled
    BY <1>4 DEF Switch
  <2> HIDE DEF s
  <2> QED
    BY <2>1, CommitEnds
<1>5. Sbrk(as, n) \/ Sbrk(as, -n) \/ Brk(as, a) => Ends
  BY BrkEnds DEF Sbrk
<1>6. MapPhysical(as, fl) => Ends
  BY WithinEnds, RefusedEnds DEF MapPhysical
<1>7. ASSUME Alloc(as, a, n, fl) PROVE Ends
  <2> DEFINE pml4 == spaces[as].pml4
             c == PagesIn(n)
             virt == IF a = 0 THEN vmm_find_free_region(spaces[as].regions, c * PAGE)
                                ELSE align_down(a)
             s == Back(Start(as), pml4, virt, c, PageFlags(fl))
             space == IF a = 0 THEN spaces[as] ELSE Mixed(as)
             undone == Rollback(s, pml4, virt)
             got == Occupy(s, virt, virt + c * PAGE, fl)
  <2>1. /\ \/ Refused("alloc", as)
           \/ Within("alloc", as, undone, space, FALSE, virt, c)
           \/ Within("alloc", as, got, space, TRUE, virt, c)
        /\ Minded
    BY <1>7 DEF Alloc
  <2> HIDE DEF pml4, c, virt, s, space, undone, got
  <2> QED
    BY <2>1, MindedStays, WithinEnds, RefusedEnds
<1>8. ASSUME PageFault(as, a) PROVE Ends
  <2> DEFINE page == align_down(a)
             s == Back(Start(as), spaces[as].pml4, page, 1, {"w", "u", "nx"})
             space == [spaces[as] EXCEPT !.stack_start = page]
  <2>1. /\ \/ Refused("fault", as)
           \/ Within("fault", as, s, spaces[as], FALSE, page, 1)
           \/ Within("fault", as, s, space, TRUE, page, 1)
        /\ Minded
    BY <1>8 DEF PageFault
  <2> HIDE DEF page, s, space
  <2> QED
    BY <2>1, MindedStays, WithinEnds, RefusedEnds
<1>9. Store(as, a, f) => Ends
  BY CommitEnds DEF Store
<1>10. ASSUME Free(as, a, n) PROVE Ends
  <2> DEFINE c == PagesIn(n)
             s == DropPages(Start(as), spaces[as].pml4, a, c)
             i == vmm_find_region(s.regions, a)
             t == IF i = 0 THEN s ELSE Release(s, i)
             space == OfWhole(as, a, c)
  <2>1. Within("free", as, t, space, TRUE, a, c) /\ Minded
    BY <1>10 DEF Free
  <2> HIDE DEF c, s, i, t, space
  <2> QED
    BY <2>1, MindedStays, WithinEnds
<1>11. ASSUME SetupStack(as, a, n) PROVE Ends
  <2> DEFINE high == align_down(a)
             c == align_up(n) \div PAGE
             low == (high - align_up(n)) % WORD
             s == Back(Start(as), spaces[as].pml4, low, c, {"w", "u", "nx"})
             undone == Rollback(s, spaces[as].pml4, low)
             got == vmm_create_region(s, low, high, {"used", "stack", "read", "write"})
             space == [Mixed(as) EXCEPT !.stack_start = low, !.stack_end = high]
  <2>1. /\ \/ Within("stack", as, undone, Mixed(as), FALSE, low, c)
           \/ Within("stack", as, got, space, TRUE, low, c)
        /\ Minded
    BY <1>11 DEF SetupStack
  <2> HIDE DEF high, c, low, s, undone, got, space
  <2> QED
    BY <2>1, MindedStays, WithinEnds
<1>12. ASSUME UnmapPages(as, a, n) PROVE Ends
  <2> DEFINE virt == align_down(a)
             c == align_up(n) \div PAGE
             s == UnmapEach(Start(as), spaces[as].pml4, virt, c)
             i == vmm_find_region(s.regions, virt)
             t == IF i = 0 THEN s ELSE [s EXCEPT !.regions[i].flags = FREE]
  <2>1. Within("unmap", as, t, Mixed(as), TRUE, virt, c) /\ Minded
    BY <1>12 DEF UnmapPages
  <2> HIDE DEF virt, c, s, i, t
  <2> QED
    BY <2>1, MindedStays, WithinEnds
<1>13. ASSUME Protect(as, a, n, fl) PROVE Ends
  <2> DEFINE virt == align_down(a)
             c == align_up(n) \div PAGE
             s == ReprotectEach(Start(as), spaces[as].pml4, virt, c, PageFlags(fl))
             i == vmm_find_region(s.regions, virt)
             t == IF i = 0 THEN s
                  ELSE [s EXCEPT !.regions[i].flags = (@ \ {"read", "write", "exec"}) \cup fl]
             space == OfWhole(as, virt, c)
  <2>1. Within("protect", as, t, space, TRUE, virt, c) /\ Minded
    BY <1>13 DEF Protect
  <2> HIDE DEF virt, c, s, i, t, space
  <2> QED
    BY <2>1, MindedStays, WithinEnds
<1> QED
  BY <1>1, <1>2, <1>3, <1>4, <1>5, <1>6, <1>7, <1>8, <1>9, <1>10, <1>11, <1>12, <1>13

LEMMA MingledBacked == mingled' => BackInv'
BY DEF BackInv, Clean

LEMMA NextBacked ==
    ASSUME TypeOK, UseInv, NeatInv, BackInv, Next
    PROVE  BackInv' /\ Ends
<1>1. Ends
  BY CallEnds DEF Next
<1>2. CASE mingled
  BY <1>1, <1>2, MingledBacked DEF Ends
<1>3. CASE ~mingled
  <2> SUFFICES BackInv'
    BY <1>1
  <2>1. Clean /\ AllNeat(spaces)
    BY <1>1, <1>3 DEF Clean, Ends, NeatInv
  <2>2. CASE Create
    BY <2>1, <2>2, CreateBacked
  <2>3. ASSUME NEW as \in DOMAIN spaces, Clone(as)
        PROVE  BackInv'
    BY <2>3, MingledBacked DEF Clone
  <2>4. ASSUME NEW as \in DOMAIN spaces, Destroy(as) \/ Switch(as)
        PROVE  BackInv'
    BY <2>1, <2>4, DestroyBacked, SwitchBacked
  <2>5. ASSUME NEW as \in DOMAIN spaces, NEW n \in Counts, Sbrk(as, n) \/ Sbrk(as, -n)
        PROVE  BackInv'
    BY <2>1, <2>5, SbrkBacked
  <2>6. ASSUME NEW as \in DOMAIN spaces, NEW fl \in Flags, MapPhysical(as, fl)
        PROVE  BackInv'
    BY <2>6, MingledBacked DEF MapPhysical
  <2>7. ASSUME NEW as \in DOMAIN spaces, NEW fl \in Flags, NEW n \in Counts,
               NEW a \in Addresses \cup {0}, Alloc(as, a, n, fl)
        PROVE  BackInv'
    BY <2>1, <2>7, AllocBacked
  <2>8. ASSUME NEW as \in DOMAIN spaces, NEW a \in Addresses, Brk(as, a) \/ PageFault(as, a)
        PROVE  BackInv'
    BY <2>1, <2>8, CallArguments, BrkBacked, FaultBacked
  <2>9. ASSUME NEW as \in DOMAIN spaces, NEW a \in Addresses, NEW f \in Stored, Store(as, a, f)
        PROVE  BackInv'
    BY <2>9, MingledBacked DEF Store
  <2>10. ASSUME NEW as \in DOMAIN spaces, NEW a \in Addresses, NEW n \in Counts,
                Free(as, a, n) \/ SetupStack(as, a, n) \/ UnmapPages(as, a, n)
         PROVE  BackInv'
    BY <2>1, <2>10, FreeBacked, StackBacked, UnmapBacked
  <2>11. ASSUME NEW as \in DOMAIN spaces, NEW a \in Addresses, NEW n \in Counts,
                NEW fl \in Flags, Protect(as, a, n, fl)
         PROVE  BackInv'
    BY <2>1, <2>11, ProtectBacked
  <2> QED
    BY <2>2, <2>3, <2>4, <2>5, <2>6, <2>7, <2>8, <2>9, <2>10, <2>11 DEF Next
<1> QED
  BY <1>1, <1>2, <1>3

LEMMA BackedIsTrue ==
    TypeOK /\ UseInv /\ BackInv /\ fate = "runs" => AreasBacked
<1> SUFFICES ASSUME TypeOK, UseInv, BackInv, fate = "runs",
                    NEW as \in DOMAIN spaces \ {Kernel},
                    spaces[as].plain, ~spaces[as].short, ~mingled,
                    NEW page \in LowPages
             PROVE  Present(virt_to_phys(mem, spaces[as].pml4, page * PAGE)) <=>
                        \E i \in DOMAIN spaces[as].regions :
                            LET r == spaces[as].regions[i] IN
                            r.flags # FREE /\ r.start <= page * PAGE /\ page * PAGE < r.end
  BY DEF AreasBacked, LowPages
<1> DEFINE q == spaces[as].pml4
           rs == spaces[as].regions
           U == UserRoots(spaces)
<1>1. Clean /\ mem \in Mem /\ avail \in SUBSET Frames
  BY TypeParts DEF Clean
<1>2. Tame(mem, U) /\ View(mem, q) = InAreas(Areas(rs))
  BY <1>1 DEF BackInv, AllBacked, Backed
<1>3. q \in Roots(spaces) /\ q \in Memory /\ q \in U
      /\ Roles(mem, avail, Ours(spaces), Roots(spaces), {})
  BY <1>1, CleanFacts
<1>4. PICK u : Pages(u, mem, avail) /\ Held(u, mem, Ours(spaces), Roots(spaces), {})
  BY <1>3 DEF Roles
<1>5. u[q] = "pml4"
  BY <1>3, <1>4 DEF Held
<1> DEFINE a == page * PAGE
<1>6. a \in Nat /\ Index(a, 3) \in 0 .. HALF - 1
  BY PageDigits
<1>7. page \in View(mem, q) <=> Mapped(mem, q, a)
  BY ViewFacts
<1>8. page \in InAreas(Areas(rs)) <=> \E x \in Areas(rs) : x[1] <= a /\ a < x[2]
  BY DEF InAreas
<1> HIDE DEF a, q, rs, U
<1>9. Mapped(mem, q, a) <=> Present(virt_to_phys(mem, q, a))
  BY <1>1, <1>2, <1>3, <1>4, <1>5, <1>6, MappedIsFound
<1>10. (\E x \in Areas(rs) : x[1] <= a /\ a < x[2])
       <=> \E i \in DOMAIN rs : rs[i].flags # FREE /\ rs[i].start <= a /\ a < rs[i].end
  <2>1. \A x : x \in Areas(rs) <=>
            \E i \in DOMAIN rs : rs[i].flags # FREE /\ x = <<rs[i].start, rs[i].end>>
    BY AreaFacts
  <2>2. ASSUME NEW x \in Areas(rs), x[1] <= a, a < x[2]
        PROVE  \E i \in DOMAIN rs : rs[i].flags # FREE /\ rs[i].start <= a /\ a < rs[i].end
    <3>1. PICK i \in DOMAIN rs : rs[i].flags # FREE /\ x = <<rs[i].start, rs[i].end>>
      BY <2>1, <2>2
    <3>2. x[1] = rs[i].start /\ x[2] = rs[i].end
      BY <3>1
    <3> QED
      BY <2>2, <3>1, <3>2
  <2>3. ASSUME NEW i \in DOMAIN rs, rs[i].flags # FREE, rs[i].start <= a, a < rs[i].end
        PROVE  \E x \in Areas(rs) : x[1] <= a /\ a < x[2]
    <3> DEFINE x == <<rs[i].start, rs[i].end>>
    <3>1. x \in Areas(rs)
      BY <2>1, <2>3
    <3>2. x[1] <= a /\ a < x[2]
      BY <2>3
    <3> QED
      BY <3>1, <3>2
  <2> QED
    BY <2>2, <2>3
<1>11. Present(virt_to_phys(mem, q, a))
       <=> \E i \in DOMAIN rs : rs[i].flags # FREE /\ rs[i].start <= a /\ a < rs[i].end
  BY <1>2, <1>7, <1>8, <1>9, <1>10
<1> QED
  BY <1>11 DEF a, q, rs

LEMMA InitAreasBacked == Init => AreasBacked
BY DEF Init, AreasBacked

\* The machine that has stopped has what it had.
LEMMA StoppedBacked ==
    ASSUME AreasBacked, mem' = mem, spaces' = spaces, mingled => mingled'
    PROVE  AreasBacked'
BY DEF AreasBacked

LEMMA NextAreasBacked ==
    ASSUME TypeOK, UseInv, NeatInv, BackInv, AreasBacked, [Next]_vars
    PROVE  BackInv' /\ (fate' = "runs" \/ AreasBacked')
<1>1. CASE Next
  <2>1. BackInv' /\ Ends
    BY <1>1, NextBacked
  <2> QED
    BY <2>1, StoppedBacked DEF Ends
<1>2. CASE UNCHANGED vars
  <2>1. mem' = mem /\ spaces' = spaces /\ mingled' = mingled /\ fate' = fate
    BY <1>2 DEF vars
  <2>2. BackInv'
    BY <2>1 DEF BackInv, Clean
  <2> QED
    BY <2>1, <2>2, StoppedBacked
<1> QED
  BY <1>1, <1>2

\* In every space that is used for nothing but areas whose places vmm_alloc_pages
\* chose, the list of regions is in order, and the page tables of the lower half
\* map the pages of the areas in use and no other: vmm_alloc_pages_at, its retreat
\* when memory runs out, vmm_free_pages and vmm_protect keep list and tables in
\* step, and no call for another space disturbs them.
THEOREM AreasAreTrue == Spec => []AreasTrue
<1> DEFINE Runs == fate = "runs"
<1>1. Init => BackInv /\ AreasBacked
  BY InitBacked, InitAreasBacked
<1>2. TypeOK /\ UseInv /\ BackInv /\ Runs => AreasBacked
  BY BackedIsTrue
<1>3. /\ TypeOK /\ UseInv /\ NeatInv /\ BackInv /\ AreasBacked
      /\ [Next]_vars
      => BackInv' /\ (Runs' \/ AreasBacked')
  BY NextAreasBacked
<1>4. AreasApart /\ AreasBacked => AreasTrue
  BY DEF AreasTrue
<1> HIDE DEF Runs
<1> QED
  BY <1>1, <1>2, <1>3, <1>4, Types, FramesAreShared, AreasAreNeat, AreasLieApart, PTL DEF Spec

=============================================================================
