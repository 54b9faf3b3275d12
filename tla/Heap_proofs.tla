---------------------------- MODULE Heap_proofs ----------------------------
(***************************************************************************)
(* The heap's blocks tile its address range, objects have blocks of their  *)
(* own, free blocks are merged, and one growth serves any request, for all *)
(* sizes of words, headers, pages and requests.                            *)
(***************************************************************************)
EXTENDS Heap, TLAPS

-----------------------------------------------------------------------------
(* Rounding *)

LEMMA Sizes ==
    /\ WORD \in Nat \ {0} /\ BLOCK_SIZE \in Nat \ {0} /\ PAGE_SIZE \in Nat \ {0}
    /\ HEAP_INITIAL_SIZE \in Nat /\ HEAP_INITIAL_SIZE - BLOCK_SIZE \in Nat
    /\ TABLE \in Nat \ {0} /\ Frames \in Nat /\ MaxLive \in Nat
BY SizesAssumption

\* Rounding up to a multiple of w does not lose anything.
LEMMA RoundUp ==
    ASSUME NEW n \in Nat, NEW w \in Nat \ {0}
    PROVE  /\ (n + w - 1) \div w \in Nat
           /\ ((n + w - 1) \div w) * w \in Nat
           /\ ((n + w - 1) \div w) * w >= n
<1> DEFINE m == n + w - 1
           q == m \div w
<1>1. m \in Nat
  OBVIOUS
<1>2. q \in Int /\ m = w * q + (m % w) /\ m % w \in 0 .. w - 1
  BY <1>1
<1>3. q >= 0
  BY <1>1, <1>2
<1>4. q * w = w * q
  BY <1>2
<1> QED
  BY <1>1, <1>2, <1>3, <1>4

LEMMA AlignFacts == \A n \in Nat : ALIGN(n) \in Nat /\ ALIGN(n) >= n
BY RoundUp, SizesAssumption DEF ALIGN

\* A grown block has room for the header and the request.
LEMMA GrowthFacts ==
    \A n \in Nat : Growth(n) \in Nat /\ Growth(n) >= n + BLOCK_SIZE
<1> SUFFICES ASSUME NEW n \in Nat
             PROVE  Growth(n) \in Nat /\ Growth(n) >= n + BLOCK_SIZE
  OBVIOUS
<1>1. n + BLOCK_SIZE + PAGE_SIZE \in Nat
  BY SizesAssumption
<1>2. /\ Growth(n) \in Nat
      /\ Growth(n) >= n + BLOCK_SIZE + PAGE_SIZE
  BY <1>1, RoundUp, SizesAssumption DEF Growth, PagesFor
<1> QED
  BY <1>2, SizesAssumption

-----------------------------------------------------------------------------
(* Headers that tile a range *)

EndIn(h, a) == a + BLOCK_SIZE + h[a].size
Header == [size : Nat, free : BOOLEAN, next : Nat \cup {NULL}]

\* The headers of h tile 0 .. e - 1, but for one block u that is not on the list.
Tiles(h, e, u) ==
    /\ DOMAIN h \subseteq Nat
    /\ \A a \in DOMAIN h : h[a] \in Header
    /\ heap_first \in DOMAIN h \ {u}
    /\ \A a \in DOMAIN h \ {u} :
           \/ h[a].next = EndIn(h, a) /\ EndIn(h, a) \in DOMAIN h \ {u}
           \/ h[a].next = NULL /\ EndIn(h, a) = e
    /\ \A a \in DOMAIN h \ {u} : EndIn(h, a) <= e
    /\ \A a, b \in DOMAIN h : a < b => EndIn(h, a) <= b

LEMMA TilesTyped ==
    ASSUME NEW h, NEW e, NEW u, Tiles(h, e, u), NEW a \in DOMAIN h
    PROVE  /\ a \in Nat /\ h[a].size \in Nat /\ h[a] \in Header
           /\ EndIn(h, a) \in Nat /\ a < EndIn(h, a)
BY SizesAssumption DEF Tiles, Header, EndIn

\* Marking a block as free or used leaves the tiling alone.
LEMMA MarkTiles ==
    ASSUME NEW h, NEW e \in Nat, NEW u, Tiles(h, e, u),
           NEW b \in DOMAIN h, NEW f \in BOOLEAN
    PROVE  Tiles([h EXCEPT ![b].free = f], e, u)
<1> DEFINE g == [h EXCEPT ![b].free = f]
<1>1. DOMAIN g = DOMAIN h
  OBVIOUS
<1>2. \A a \in DOMAIN h : /\ g[a] \in Header /\ g[a].size = h[a].size
                          /\ g[a].next = h[a].next
  BY DEF Tiles, Header
<1>3. \A a \in DOMAIN h : EndIn(g, a) = EndIn(h, a)
  BY <1>2 DEF EndIn
<1> HIDE DEF g
<1>4. \A a \in DOMAIN g \ {u} :
          \/ g[a].next = EndIn(g, a) /\ EndIn(g, a) \in DOMAIN g \ {u}
          \/ g[a].next = NULL /\ EndIn(g, a) = e
  BY <1>1, <1>2, <1>3 DEF Tiles
<1>5. \A a, c \in DOMAIN g : a < c => EndIn(g, a) <= c
  BY <1>1, <1>3 DEF Tiles
<1>6. \A a \in DOMAIN g \ {u} : EndIn(g, a) <= e
  BY <1>1, <1>3 DEF Tiles
<1> QED
  BY <1>1, <1>2, <1>4, <1>5, <1>6 DEF Tiles, g

\* Splitting a block in two leaves a tiling: the new header lies inside the old
\* block, where there was none.
LEMMA SplitTiles ==
    ASSUME NEW e \in Nat, Tiles(hdr, e, NULL), NEW b \in DOMAIN hdr, NEW n \in Nat,
           NEW f \in BOOLEAN, hdr[b].size >= n + BLOCK_SIZE
    PROVE  /\ b + BLOCK_SIZE + n \notin DOMAIN hdr
           /\ DOMAIN Split(b, n, f) = DOMAIN hdr \cup {b + BLOCK_SIZE + n}
           /\ Tiles(Split(b, n, f), e, NULL)
<1> DEFINE rest == b + BLOCK_SIZE + n
           g == Split(b, n, f)
<1>0. BLOCK_SIZE \in Nat \ {0} /\ NULL = -1
  BY SizesAssumption DEF NULL
<1>1. /\ b \in Nat /\ hdr[b].size \in Nat /\ hdr[b] \in Header
      /\ rest \in Nat /\ b < rest /\ EndIn(hdr, b) \in Nat
      /\ rest < EndIn(hdr, b)
  BY <1>0, TilesTyped DEF EndIn
<1>2. rest \notin DOMAIN hdr
  BY <1>1 DEF Tiles
<1>3. DOMAIN g = DOMAIN hdr \cup {rest}
  BY DEF Split
<1>4. g[rest] = Block(hdr[b].size - n - BLOCK_SIZE, TRUE, hdr[b].next)
  BY DEF Split
<1>5. g[b] = Block(n, f, rest)
  <2>1. b # rest
    BY <1>1
  <2> QED
    BY <2>1, Zenon DEF Split
<1>6. \A a \in DOMAIN hdr \ {b} : g[a] = hdr[a]
  BY <1>2 DEF Split
<1>7. /\ EndIn(g, rest) = EndIn(hdr, b) /\ g[rest].next = hdr[b].next
      /\ EndIn(g, b) = rest /\ g[b].next = rest
      /\ \A a \in DOMAIN hdr \ {b} : EndIn(g, a) = EndIn(hdr, a)
  BY <1>0, <1>1, <1>4, <1>5, <1>6 DEF EndIn, Block
<1>8. g[rest] \in Header /\ g[b] \in Header
  BY <1>0, <1>1, <1>4, <1>5 DEF Block, Header
<1>9. NULL \notin DOMAIN hdr /\ NULL # rest
  BY <1>0, <1>1 DEF Tiles
<1> HIDE DEF rest, g
<1>10. /\ DOMAIN g \subseteq Nat
       /\ \A a \in DOMAIN g : g[a] \in Header
       /\ heap_first \in DOMAIN g \ {NULL}
  BY <1>1, <1>3, <1>6, <1>8 DEF Tiles
<1>11. ASSUME NEW a \in DOMAIN g
       PROVE  /\ \/ g[a].next = EndIn(g, a) /\ EndIn(g, a) \in DOMAIN g \ {NULL}
                 \/ g[a].next = NULL /\ EndIn(g, a) = e
              /\ EndIn(g, a) <= e
  <2>1. CASE a = b
    <3>1. rest <= e
      BY <1>1, <1>9 DEF Tiles, EndIn
    <3> QED
      BY <2>1, <3>1, <1>3, <1>7, <1>9
  <2>2. CASE a = rest
    BY <2>2, <1>3, <1>7, <1>9 DEF Tiles
  <2>3. CASE a \in DOMAIN hdr \ {b}
    BY <2>3, <1>3, <1>6, <1>7, <1>9 DEF Tiles
  <2> QED
    BY <2>1, <2>2, <2>3, <1>3
<1>12. ASSUME NEW a \in DOMAIN g, NEW c \in DOMAIN g, a < c
       PROVE  EndIn(g, a) <= c
  <2>1. CASE a = b
    <3>1. c \in DOMAIN hdr => EndIn(hdr, b) <= c
      BY <1>12, <2>1 DEF Tiles
    <3>2. c \in DOMAIN hdr => c \in Nat
      BY DEF Tiles
    <3> QED
      BY <2>1, <3>1, <3>2, <1>1, <1>3, <1>7
  <2>2. CASE a = rest
    <3>1. c \in DOMAIN hdr /\ b < c
      BY <2>2, <1>1, <1>3, <1>12 DEF Tiles
    <3> QED
      BY <2>2, <3>1, <1>7 DEF Tiles
  <2>3. CASE a \in DOMAIN hdr \ {b}
    <3>1. c \in DOMAIN hdr => EndIn(hdr, a) <= c
      BY <2>3, <1>12 DEF Tiles
    <3>2. c = rest => EndIn(hdr, a) <= c
      <4> SUFFICES ASSUME c = rest PROVE EndIn(hdr, a) <= c
        OBVIOUS
      <4>0. a \in Nat /\ b \in DOMAIN hdr /\ a \in DOMAIN hdr
        BY <2>3 DEF Tiles
      <4>1. a < b
        <5>1. b < a => EndIn(hdr, b) <= a
          BY <4>0 DEF Tiles
        <5> QED
          BY <5>1, <4>0, <1>1, <1>12, <2>3
      <4>2. EndIn(hdr, a) <= b
        BY <2>3, <4>1 DEF Tiles
      <4>3. EndIn(hdr, a) \in Nat
        BY <2>3, TilesTyped
      <4> QED
        BY <4>2, <4>3, <1>1
    <3> QED
      BY <2>3, <3>1, <3>2, <1>3, <1>7
  <2> QED
    BY <2>1, <2>2, <2>3, <1>3
<1> QED
  BY <1>2, <1>3, <1>10, <1>11, <1>12 DEF Tiles, rest, g

\* Making the following block part of a block leaves a tiling.
LEMMA AbsorbTiles ==
    ASSUME NEW e \in Nat, NEW u, Tiles(hdr, e, u), NEW b \in DOMAIN hdr \ {u},
           hdr[b].next # NULL, u = NULL
    PROVE  LET nxt == hdr[b].next
               g == Absorb(b, BLOCK_SIZE + hdr[nxt].size)
           IN  /\ nxt \in DOMAIN hdr /\ nxt = EndIn(hdr, b) /\ b < nxt
               /\ DOMAIN g = DOMAIN hdr \ {nxt}
               /\ EndIn(g, b) = EndIn(hdr, nxt)
               /\ Tiles(g, e, u)
<1> DEFINE nxt == hdr[b].next
           g == Absorb(b, BLOCK_SIZE + hdr[nxt].size)
<1>0. BLOCK_SIZE \in Nat \ {0} /\ NULL = -1 /\ u = NULL
  BY SizesAssumption DEF NULL
<1>1. /\ nxt = EndIn(hdr, b) /\ nxt \in DOMAIN hdr \ {u}
      /\ b \in Nat /\ nxt \in Nat /\ b < nxt
      /\ hdr[b].size \in Nat /\ hdr[nxt].size \in Nat
      /\ hdr[b] \in Header /\ hdr[nxt] \in Header
  <2>1. nxt = EndIn(hdr, b) /\ nxt \in DOMAIN hdr \ {u}
    BY DEF Tiles
  <2> QED
    BY <2>1, TilesTyped
<1>2. DOMAIN g = DOMAIN hdr \ {nxt}
  BY DEF Absorb
<1>3. g[b] = Block(hdr[b].size + BLOCK_SIZE + hdr[nxt].size, hdr[b].free, hdr[nxt].next)
  BY <1>0, <1>1 DEF Absorb, Block
<1>4. \A a \in DOMAIN g \ {b} : g[a] = hdr[a]
  BY DEF Absorb
<1>5. /\ EndIn(g, b) = EndIn(hdr, nxt) /\ g[b].next = hdr[nxt].next
      /\ \A a \in DOMAIN g \ {b} : EndIn(g, a) = EndIn(hdr, a)
  <2>1. EndIn(g, b) = b + BLOCK_SIZE + (hdr[b].size + BLOCK_SIZE + hdr[nxt].size)
    BY <1>3 DEF EndIn, Block
  <2>2. EndIn(hdr, nxt) = b + BLOCK_SIZE + hdr[b].size + BLOCK_SIZE + hdr[nxt].size
    BY <1>1 DEF EndIn
  <2> QED
    BY <2>1, <2>2, <1>0, <1>1, <1>3, <1>4 DEF EndIn, Block
<1>6. g[b] \in Header
  BY <1>0, <1>1, <1>3 DEF Block, Header
<1>7. nxt # heap_first
  BY <1>1 DEF heap_first
<1> HIDE DEF nxt, g
<1>8. /\ DOMAIN g \subseteq Nat
      /\ \A a \in DOMAIN g : g[a] \in Header
      /\ heap_first \in DOMAIN g \ {u}
  BY <1>2, <1>4, <1>6, <1>7 DEF Tiles
<1>9. ASSUME NEW a \in DOMAIN g
      PROVE  /\ \/ g[a].next = EndIn(g, a) /\ EndIn(g, a) \in DOMAIN g \ {u}
                \/ g[a].next = NULL /\ EndIn(g, a) = e
             /\ EndIn(g, a) <= e
  <2>0. a \in DOMAIN hdr \ {u} /\ a # nxt
    BY <1>0, <1>2 DEF Tiles
  <2>1. CASE a = b
    <3>1. EndIn(hdr, nxt) # nxt
      BY <1>1, TilesTyped
    <3> QED
      BY <2>1, <3>1, <1>1, <1>2, <1>5 DEF Tiles
  <2>2. CASE a # b
    <3>1. EndIn(hdr, a) # nxt
      <4> SUFFICES ASSUME EndIn(hdr, a) = EndIn(hdr, b) PROVE FALSE
        BY <1>1
      <4>1. a < b => EndIn(hdr, a) <= b
        BY <2>0 DEF Tiles
      <4>2. b < a => EndIn(hdr, b) <= a
        BY <2>0 DEF Tiles
      <4>3. a < EndIn(hdr, a) /\ a \in Nat
        BY <2>0, TilesTyped
      <4> QED
        BY <2>2, <4>1, <4>2, <4>3, <1>1
    <3> QED
      BY <2>0, <2>2, <3>1, <1>2, <1>4, <1>5 DEF Tiles
  <2> QED
    BY <2>1, <2>2
<1>10. ASSUME NEW a \in DOMAIN g, NEW c \in DOMAIN g, a < c
       PROVE  EndIn(g, a) <= c
  <2>0. a \in DOMAIN hdr /\ c \in DOMAIN hdr /\ c # nxt /\ c \in Nat
    BY <1>2 DEF Tiles
  <2>1. CASE a = b
    <3>1. EndIn(hdr, b) <= c
      BY <2>0, <2>1, <1>10 DEF Tiles
    <3>2. nxt < c
      BY <2>0, <3>1, <1>1
    <3>3. EndIn(hdr, nxt) <= c
      BY <2>0, <3>2, <1>1 DEF Tiles
    <3> QED
      BY <2>1, <3>3, <1>5
  <2>2. CASE a # b
    BY <2>0, <2>2, <1>5, <1>10 DEF Tiles
  <2> QED
    BY <2>1, <2>2
<1>11. Tiles(g, e, u)
  BY <1>8, <1>9, <1>10 DEF Tiles
<1> QED
  BY <1>1, <1>2, <1>5, <1>11 DEF nxt, g

\* A block behind the heap that is not on the list yet.
LEMMA AppendTiles ==
    ASSUME NEW e \in Nat, Tiles(hdr, e, NULL), NEW n \in Nat,
           NEW g, g = [a \in DOMAIN hdr \cup {e} |->
                         IF a = e THEN Block(n, TRUE, NULL) ELSE hdr[a]]
    PROVE  /\ e \notin DOMAIN hdr
           /\ \A a \in DOMAIN hdr : g[a] = hdr[a]
           /\ Tiles(g, e, e)
<1>0. NULL \notin DOMAIN hdr /\ NULL = -1
  BY DEF Tiles, NULL
<1>1. e \notin DOMAIN hdr
  <2> SUFFICES ASSUME e \in DOMAIN hdr PROVE FALSE
    OBVIOUS
  <2>1. EndIn(hdr, e) <= e
    BY <1>0 DEF Tiles
  <2>2. e < EndIn(hdr, e) /\ EndIn(hdr, e) \in Nat
    BY TilesTyped
  <2> QED
    BY <2>1, <2>2
<1>2. /\ DOMAIN g = DOMAIN hdr \cup {e} /\ g[e] = Block(n, TRUE, NULL)
      /\ \A a \in DOMAIN hdr : g[a] = hdr[a]
  BY <1>1
<1>3. \A a \in DOMAIN hdr : EndIn(g, a) = EndIn(hdr, a)
  BY <1>2 DEF EndIn
<1>4. g[e] \in Header
  BY <1>2 DEF Block, Header
<1>5. DOMAIN g \ {e} = DOMAIN hdr
  BY <1>1, <1>2
<1>6. ASSUME NEW a \in DOMAIN g, NEW c \in DOMAIN g, a < c
      PROVE  EndIn(g, a) <= c
  <2>1. a \in Nat /\ c \in Nat
    BY <1>2 DEF Tiles
  <2>2. CASE a = e
    <3>0. c \in DOMAIN hdr \ {NULL}
      BY <2>1, <2>2, <1>0, <1>5, <1>6
    <3>1. EndIn(hdr, c) <= e
      BY <3>0 DEF Tiles
    <3>2. c < EndIn(hdr, c) /\ EndIn(hdr, c) \in Nat
      BY <3>0, TilesTyped
    <3> QED
      BY <2>1, <2>2, <3>1, <3>2, <1>6
  <2>3. CASE a # e /\ c = e
    <3>1. a \in DOMAIN hdr \ {NULL}
      BY <2>3, <1>0, <1>5
    <3> QED
      BY <2>3, <3>1, <1>3 DEF Tiles
  <2>4. CASE a # e /\ c # e
    BY <2>4, <1>3, <1>5, <1>6 DEF Tiles
  <2> QED
    BY <2>2, <2>3, <2>4
<1>7. \A a \in DOMAIN g \ {e} :
          /\ \/ g[a].next = EndIn(g, a) /\ EndIn(g, a) \in DOMAIN g \ {e}
             \/ g[a].next = NULL /\ EndIn(g, a) = e
          /\ EndIn(g, a) <= e
  BY <1>0, <1>2, <1>3, <1>5 DEF Tiles
<1>8. /\ DOMAIN g \subseteq Nat /\ \A a \in DOMAIN g : g[a] \in Header
      /\ heap_first \in DOMAIN g \ {e}
  BY <1>0, <1>2, <1>4, <1>5 DEF Tiles
<1> QED
  BY <1>1, <1>2, <1>6, <1>7, <1>8 DEF Tiles

\* Linking that block behind the last one extends the tiling to its end.
LEMMA LinkTiles ==
    ASSUME NEW e \in Nat, NEW n \in Nat, Tiles(hdr, e, e),
           e \in DOMAIN hdr, hdr[e].next = NULL, EndIn(hdr, e) = e + n,
           NEW last \in DOMAIN hdr \ {e}, hdr[last].next = NULL,
           NEW g, g = [hdr EXCEPT ![last].next = e]
    PROVE  Tiles(g, e + n, NULL)
<1>0. NULL \notin DOMAIN hdr /\ NULL = -1
  BY DEF Tiles, NULL
<1>1. /\ DOMAIN g = DOMAIN hdr
      /\ \A a \in DOMAIN hdr : /\ g[a] \in Header /\ EndIn(g, a) = EndIn(hdr, a)
                               /\ a # last => g[a].next = hdr[a].next
      /\ g[last].next = e
  BY DEF Tiles, Header, EndIn
<1>2. EndIn(hdr, last) = e
  BY <1>0, TilesTyped DEF Tiles
<1>3. ASSUME NEW a \in DOMAIN hdr \ {e, last}
      PROVE  hdr[a].next = EndIn(hdr, a) /\ EndIn(hdr, a) \in DOMAIN hdr
  <2>1. EndIn(hdr, a) # e
    <3>1. /\ a < EndIn(hdr, a) /\ a \in Nat /\ last \in Nat
          /\ last < EndIn(hdr, last)
      BY TilesTyped
    <3>2. a < last => EndIn(hdr, a) <= last
      BY DEF Tiles
    <3>3. last < a => EndIn(hdr, last) <= a
      BY DEF Tiles
    <3> QED
      BY <3>1, <3>2, <3>3, <1>2
  <2> QED
    BY <2>1 DEF Tiles
<1>4. ASSUME NEW a \in DOMAIN g
      PROVE  /\ \/ g[a].next = EndIn(g, a) /\ EndIn(g, a) \in DOMAIN g \ {NULL}
                \/ g[a].next = NULL /\ EndIn(g, a) = e + n
             /\ EndIn(g, a) <= e + n
  <2>1. CASE a = e
    <3>1. g[e].next = NULL /\ EndIn(g, e) = e + n
      BY <1>1
    <3> HIDE DEF EndIn
    <3> QED
      BY <2>1, <3>1
  <2>2. CASE a = last
    <3>1. g[last].next = e /\ EndIn(g, last) = e /\ e \in DOMAIN g \ {NULL}
      BY <1>0, <1>1, <1>2
    <3> QED
      BY <2>2, <3>1
  <2>3. CASE a \notin {e, last}
    <3>1. a \in DOMAIN hdr \ {e}
      BY <2>3, <1>1
    <3>2. EndIn(hdr, a) <= e
      BY <3>1 DEF Tiles
    <3>3. EndIn(hdr, a) \in Nat
      BY <3>1, TilesTyped
    <3>4. EndIn(hdr, a) <= e + n
      BY <3>2, <3>3
    <3>5. g[a].next = EndIn(g, a) /\ EndIn(g, a) \in DOMAIN g \ {NULL}
      <4>1. a \in DOMAIN hdr \ {e, last} /\ a # last
        BY <2>3, <3>1
      <4>2. hdr[a].next = EndIn(hdr, a) /\ EndIn(hdr, a) \in DOMAIN hdr
        BY <4>1, <1>3
      <4>3. g[a].next = hdr[a].next /\ EndIn(g, a) = EndIn(hdr, a)
        BY <4>1, <1>1
      <4>4. DOMAIN g = DOMAIN hdr
        BY <1>1
      <4> QED
        BY <4>2, <4>3, <4>4, <1>0, Zenon
    <3> QED
      BY <3>1, <3>4, <3>5, <1>1
  <2> QED
    BY <2>1, <2>2, <2>3
<1>5. \A a, c \in DOMAIN g : a < c => EndIn(g, a) <= c
  BY <1>1 DEF Tiles
<1>6. /\ DOMAIN g \subseteq Nat /\ \A a \in DOMAIN g : g[a] \in Header
      /\ heap_first \in DOMAIN g \ {NULL}
  BY <1>0, <1>1 DEF Tiles
<1> QED
  BY <1>4, <1>5, <1>6 DEF Tiles

-----------------------------------------------------------------------------
(* The inductive invariant *)

\* The block that is not on the list, if any.
Unlinked == IF pc = "find_last" THEN heap_current_size ELSE NULL

TilingInv == pc # "init" => Tiles(hdr, ListEnd, Unlinked)

\* What is known of the blocks the loops are at.
CursorInv ==
    /\ pc = "init" => DOMAIN hdr = {} /\ live = {}
    /\ pc = "find_last" =>
          /\ heap_current_size \in DOMAIN hdr
          /\ hdr[heap_current_size] = Block(new_size - BLOCK_SIZE, TRUE, NULL)
          /\ new_size = Growth(size)
          /\ current # heap_current_size
    /\ pc \in {"grow_merge", "free_merge"} => hdr[current].free

\* What is known of the running call.
CallInv ==
    pc \in {"scan", "find_last", "grow_merge", "grown"} =>
        /\ call.op \in {"kmalloc", "kcalloc", "krealloc"}
        /\ call.n > 0 /\ size = ALIGN(call.n)
        /\ call.op = "krealloc" => \E o \in live : o.ptr = call.ptr

\* Once the heap has grown, a block that serves the call is ahead.
OnceInv ==
    /\ pc \in {"init", "idle", "free_scan", "free_merge"} => expansions = 0
    /\ pc = "scan" =>
          \/ expansions = 0
          \/ expansions = 1 /\ \E b \in DOMAIN hdr : b >= current /\ Fits(b)
    /\ pc = "find_last" => expansions = 1
    /\ pc \in {"grow_merge", "grown"} =>
          expansions = 1 /\ \E b \in DOMAIN hdr : Fits(b)

\* Block a is not free, or what follows it is not.
Alone(a) == hdr[a].free /\ hdr[a].next # NULL => ~hdr[hdr[a].next].free

\* Between calls no block has a free neighbour; kfree's walk has got that far.
AloneInv ==
    /\ pc \in {"idle", "scan", "find_last", "grown"} => \A a \in DOMAIN hdr : Alone(a)
    /\ pc = "grow_merge" => \A a \in DOMAIN hdr : a # current => Alone(a)
    /\ pc \in {"free_scan", "free_merge"} =>
          \A a \in DOMAIN hdr : a < current => Alone(a)

IInv == /\ TypeOK /\ TilingInv /\ CursorInv /\ CallInv
        /\ ObjectsHaveBlocks /\ OnceInv /\ AloneInv

-----------------------------------------------------------------------------
(* Facts about a state *)

\* Following the list from a block on it leads to a later block on it.
LEMMA NextOnList ==
    ASSUME IInv, pc # "init", NEW a \in DOMAIN hdr \ {Unlinked}, hdr[a].next # NULL
    PROVE  /\ hdr[a].next \in DOMAIN hdr \ {Unlinked}
           /\ hdr[a].next = EndIn(hdr, a) /\ a < hdr[a].next
           /\ a \in Nat /\ hdr[a].next \in Nat
<1>1. Tiles(hdr, ListEnd, Unlinked)
  BY DEF IInv, TilingInv
<1>2. hdr[a].next = EndIn(hdr, a) /\ EndIn(hdr, a) \in DOMAIN hdr \ {Unlinked}
  BY <1>1 DEF Tiles
<1> QED
  BY <1>1, <1>2, TilesTyped

\* No block begins between a block on the list and the one after it.
LEMMA NothingBetween ==
    ASSUME IInv, pc # "init", NEW a \in DOMAIN hdr \ {Unlinked}, hdr[a].next # NULL,
           NEW b \in DOMAIN hdr, b < hdr[a].next
    PROVE  b <= a
<1>1. Tiles(hdr, ListEnd, Unlinked)
  BY DEF IInv, TilingInv
<1>2. a < b => EndIn(hdr, a) <= b
  BY <1>1 DEF Tiles
<1>3. a \in Nat /\ b \in Nat
  BY <1>1, TilesTyped
<1> QED
  BY <1>2, <1>3, NextOnList

\* The last block on the list is the last of all.
LEMMA LastBlock ==
    ASSUME IInv, pc \notin {"init", "find_last"}, NEW a \in DOMAIN hdr,
           hdr[a].next = NULL, NEW b \in DOMAIN hdr
    PROVE  b <= a /\ EndIn(hdr, a) = ListEnd
<1>1. Tiles(hdr, ListEnd, NULL) /\ NULL \notin DOMAIN hdr
  BY DEF IInv, TilingInv, Unlinked, Tiles, NULL
<1>2. a \in Nat /\ EndIn(hdr, a) \in Nat /\ a < EndIn(hdr, a)
      /\ b \in Nat /\ EndIn(hdr, b) \in Nat /\ b < EndIn(hdr, b)
  BY <1>1, TilesTyped
<1>3. EndIn(hdr, a) = ListEnd
  BY <1>1, <1>2 DEF Tiles, NULL
<1>4. EndIn(hdr, b) <= ListEnd
  BY <1>1 DEF Tiles
<1>5. a < b => EndIn(hdr, a) <= b
  BY <1>1 DEF Tiles
<1> QED
  BY <1>2, <1>3, <1>4, <1>5

\* SplitAndTake on a block that fits: the tiling, the new header if there is one,
\* and what the headers are.
LEMMA TakeFacts ==
    ASSUME IInv, pc = "scan", Fits(current)
    PROVE  LET g == SplitAndTake(current)
               rest == current + BLOCK_SIZE + size
           IN  /\ current \in DOMAIN hdr /\ current \in Nat
               /\ Tiles(g, heap_current_size, NULL)
               /\ ~g[current].free /\ g[current].size >= size
               /\ \A a \in DOMAIN hdr \ {current} : g[a] = hdr[a]
               /\ \/ /\ DOMAIN g = DOMAIN hdr
                     /\ g[current].next = hdr[current].next
                  \/ /\ DOMAIN g = DOMAIN hdr \cup {rest}
                     /\ rest \notin DOMAIN hdr
                     /\ g[rest].free /\ g[rest].next = hdr[current].next
                     /\ g[current].next = rest
<1> DEFINE g == SplitAndTake(current)
           rest == current + BLOCK_SIZE + size
<1>0. /\ BLOCK_SIZE \in Nat \ {0} /\ WORD \in Nat \ {0}
      /\ size \in Nat /\ heap_current_size \in Nat
  BY SizesAssumption DEF IInv, TypeOK
<1>1. Tiles(hdr, heap_current_size, NULL) /\ current \in DOMAIN hdr
  BY DEF IInv, TypeOK, TilingInv, ListEnd, Unlinked
<1>2. current \in Nat /\ hdr[current] \in Header
  BY <1>1, TilesTyped
<1>3. hdr[current].size \in Nat /\ hdr[current].size >= size
  BY <1>2 DEF Header, Fits
<1>4. CASE hdr[current].size >= size + BLOCK_SIZE + WORD
  <2>1. g = Split(current, size, FALSE)
    BY <1>4 DEF SplitAndTake
  <2>2. hdr[current].size >= size + BLOCK_SIZE
    BY <1>0, <1>3, <1>4
  <2>3. /\ rest \notin DOMAIN hdr /\ DOMAIN g = DOMAIN hdr \cup {rest}
        /\ Tiles(g, heap_current_size, NULL)
    <3>1. /\ current + BLOCK_SIZE + size \notin DOMAIN hdr
          /\ DOMAIN Split(current, size, FALSE)
                 = DOMAIN hdr \cup {current + BLOCK_SIZE + size}
          /\ Tiles(Split(current, size, FALSE), heap_current_size, NULL)
      BY <1>0, <1>1, <2>2, SplitTiles
    <3> QED
      BY <2>1, <3>1
  <2>4. current # rest
    BY <1>0, <1>2
  <2>5. g[current] = Block(size, FALSE, rest)
    BY <1>1, <2>1, <2>4, Zenon DEF Split
  <2>6. g[rest] = Block(hdr[current].size - size - BLOCK_SIZE, TRUE, hdr[current].next)
    BY <2>1 DEF Split
  <2>7. \A a \in DOMAIN hdr \ {current} : g[a] = hdr[a]
    BY <2>1, <2>3 DEF Split
  <2> QED
    BY <1>0, <1>1, <1>2, <2>3, <2>5, <2>6, <2>7 DEF Block
<1>5. CASE ~(hdr[current].size >= size + BLOCK_SIZE + WORD)
  <2>1. g = [hdr EXCEPT ![current].free = FALSE]
    BY <1>5 DEF SplitAndTake
  <2>2. Tiles(g, heap_current_size, NULL)
    <3>1. Tiles([hdr EXCEPT ![current].free = FALSE], heap_current_size, NULL)
      BY <1>0, <1>1, MarkTiles
    <3> QED
      BY <2>1, <3>1
  <2>3. /\ DOMAIN g = DOMAIN hdr /\ ~g[current].free
        /\ g[current].size = hdr[current].size /\ g[current].next = hdr[current].next
        /\ \A a \in DOMAIN hdr \ {current} : g[a] = hdr[a]
    BY <1>1, <1>2, <2>1 DEF Header
  <2> QED
    BY <1>1, <1>2, <1>3, <2>2, <2>3
<1> QED
  BY <1>4, <1>5

-----------------------------------------------------------------------------
(* Steps that only move on: no header and no object changes *)

\* What such a step leaves to show.
LEMMA QuietStep ==
    ASSUME IInv, UNCHANGED <<hdr, live>>, pc # "init", pc' # "init",
           ListEnd' = ListEnd, Unlinked' = Unlinked,
           TypeOK', CursorInv', CallInv', OnceInv', AloneInv'
    PROVE  IInv'
<1>1. TilingInv'
  BY DEF IInv, TilingInv, Tiles, EndIn
<1>2. ObjectsHaveBlocks'
  BY DEF IInv, ObjectsHaveBlocks
<1> QED
  BY <1>1, <1>2 DEF IInv

LEMMA BeginAllocationStep ==
    ASSUME IInv, pc = "idle", NEW op \in {"kmalloc", "kcalloc", "krealloc"},
           NEW ptr \in Nat \cup {NULL}, NEW n \in Nat, n > 0,
           op = "krealloc" => \E o \in live : o.ptr = ptr,
           BeginAllocation(op, ptr, n)
    PROVE  IInv'
<1> USE DEF BeginAllocation
<1>1. TypeOK'
  BY AlignFacts DEF IInv, TypeOK, TilingInv, Tiles, heap_first
<1>2. CursorInv' /\ CallInv'
  BY DEF IInv, CursorInv, CallInv
<1>3. OnceInv'
  BY DEF IInv, OnceInv
<1>4. AloneInv'
  BY DEF IInv, AloneInv, Alone
<1>5. ListEnd' = ListEnd /\ Unlinked' = Unlinked
  BY DEF ListEnd, Unlinked
<1> QED
  BY <1>1, <1>2, <1>3, <1>4, <1>5, QuietStep

LEMMA ScanNextStep ==
    ASSUME IInv, ScanNext
    PROVE  IInv'
<1> USE DEF ScanNext
<1>1. current \in DOMAIN hdr \ {Unlinked}
  BY DEF IInv, TypeOK, Unlinked, TilingInv, Tiles, NULL
<1>2. current' \in DOMAIN hdr /\ current' \in Nat /\ current' = hdr[current].next
  BY <1>1, NextOnList
<1>3. TypeOK'
  BY <1>2 DEF IInv, TypeOK
<1>4. CursorInv' /\ CallInv' /\ AloneInv'
  BY DEF IInv, CursorInv, CallInv, AloneInv, Alone
<1>5. OnceInv'
  <2>1. CASE expansions = 0
    BY <2>1 DEF OnceInv
  <2>2. CASE expansions # 0
    <3>1. PICK b \in DOMAIN hdr : b >= current /\ Fits(b)
      BY <2>2 DEF IInv, OnceInv
    <3>2. b >= current'
      <4>1. b # current
        BY <3>1
      <4>2. b < current' => b <= current
        BY <1>1, <1>2, NothingBetween
      <4>3. b \in Nat /\ current \in Nat
        BY <1>1 DEF IInv, TypeOK
      <4> QED
        BY <3>1, <4>1, <4>2, <4>3, <1>2
    <3> QED
      BY <3>1, <3>2, <2>2 DEF IInv, OnceInv, Fits
  <2> QED
    BY <2>1, <2>2
<1>6. ListEnd' = ListEnd /\ Unlinked' = Unlinked
  BY DEF ListEnd, Unlinked
<1> QED
  BY <1>3, <1>4, <1>5, <1>6, QuietStep

LEMMA FindLastStep ==
    ASSUME IInv, FindLast
    PROVE  IInv'
<1> USE DEF FindLast
<1>1. current \in DOMAIN hdr \ {Unlinked}
  BY DEF IInv, TypeOK, CursorInv, Unlinked
<1>2. current' \in DOMAIN hdr \ {Unlinked} /\ current' \in Nat
  BY <1>1, NextOnList
<1>3. TypeOK'
  BY <1>2 DEF IInv, TypeOK
<1>4. CursorInv' /\ CallInv' /\ AloneInv' /\ OnceInv'
  BY <1>2 DEF IInv, CursorInv, CallInv, AloneInv, Alone, OnceInv, Unlinked
<1>5. ListEnd' = ListEnd /\ Unlinked' = Unlinked
  BY DEF ListEnd, Unlinked
<1> QED
  BY <1>3, <1>4, <1>5, QuietStep

LEMMA GrownStep ==
    ASSUME IInv, Grown
    PROVE  IInv'
<1> USE DEF Grown
<1>1. TypeOK'
  BY DEF IInv, TypeOK, TilingInv, Tiles, heap_first
<1>2. CursorInv' /\ CallInv' /\ AloneInv'
  BY DEF IInv, CursorInv, CallInv, AloneInv, Alone
<1>3. OnceInv'
  <2>1. PICK b \in DOMAIN hdr : Fits(b)
    BY DEF IInv, OnceInv
  <2>2. b >= heap_first
    BY DEF IInv, TypeOK, heap_first
  <2> QED
    BY <2>1, <2>2 DEF IInv, OnceInv, Fits
<1>4. ListEnd' = ListEnd /\ Unlinked' = Unlinked
  BY DEF ListEnd, Unlinked
<1> QED
  BY <1>1, <1>2, <1>3, <1>4, QuietStep

LEMMA GrowMergeDoneStep ==
    ASSUME IInv, GrowMergeDone
    PROVE  IInv'
<1> USE DEF GrowMergeDone
<1>1. TypeOK' /\ CursorInv' /\ CallInv'
  <2>1. TypeOK'
    BY DEF IInv, TypeOK
  <2>2. CursorInv'
    BY DEF IInv, CursorInv
  <2>3. CallInv'
    BY DEF IInv, CallInv
  <2> QED
    BY <2>1, <2>2, <2>3
<1>2. AloneInv'
  BY DEF IInv, AloneInv, Alone, NextIsFree
<1>3. OnceInv'
  BY DEF IInv, OnceInv, Fits
<1>4. ListEnd' = ListEnd /\ Unlinked' = Unlinked
  BY DEF ListEnd, Unlinked
<1> QED
  BY <1>1, <1>2, <1>3, <1>4, QuietStep

LEMMA FreeMergeBeginStep ==
    ASSUME IInv, FreeMergeBegin
    PROVE  IInv'
<1> USE DEF FreeMergeBegin
<1>1. TypeOK' /\ CursorInv' /\ CallInv' /\ AloneInv' /\ OnceInv'
  BY DEF IInv, TypeOK, CursorInv, CallInv, AloneInv, Alone, OnceInv
<1>2. ListEnd' = ListEnd /\ Unlinked' = Unlinked
  BY DEF ListEnd, Unlinked
<1> QED
  BY <1>1, <1>2, QuietStep

LEMMA FreeNextStep ==
    ASSUME IInv, FreeNext
    PROVE  IInv'
<1> USE DEF FreeNext
<1>1. /\ current \in DOMAIN hdr \ {Unlinked} /\ pc \in {"free_scan", "free_merge"}
      /\ pc' \in {"free_scan", "idle"}
  BY DEF IInv, TypeOK, Unlinked, TilingInv, Tiles, NULL
<1>2. Alone(current)
  BY DEF Alone, NextIsFree
<1>3. hdr[current].next # NULL => current' \in DOMAIN hdr /\ current' \in Nat
  BY <1>1, NextOnList
<1>4. TypeOK'
  BY <1>1, <1>3 DEF IInv, TypeOK
<1>5. CursorInv' /\ CallInv' /\ OnceInv'
  BY <1>1 DEF IInv, CursorInv, CallInv, OnceInv
<1>6. AloneInv'
  <2>1. ASSUME NEW a \in DOMAIN hdr, pc' = "free_scan" => a < current'
        PROVE  Alone(a)
    <3>1. a <= current
      BY <2>1, <1>1, NothingBetween, LastBlock
    <3>2. a < current => Alone(a)
      BY <1>1 DEF IInv, AloneInv
    <3>3. a \in Nat /\ current \in Nat
      BY <1>1 DEF IInv, TypeOK
    <3> QED
      BY <3>1, <3>2, <3>3, <1>2
  <2>2. \A a \in DOMAIN hdr : Alone(a)' = Alone(a)
    BY DEF Alone
  <2> QED
    BY <2>1, <2>2, <1>1 DEF AloneInv
<1>7. ListEnd' = ListEnd /\ Unlinked' = Unlinked
  BY <1>1 DEF ListEnd, Unlinked
<1> QED
  BY <1>1, <1>4, <1>5, <1>6, <1>7, QuietStep

-----------------------------------------------------------------------------
(* Steps that change headers *)

\* As many pages as there are, and more, need as many tables, or more.
LEMMA TablesOverGrows ==
    ASSUME NEW p \in Nat, NEW q \in Nat, p <= q, NEW w \in Nat \ {0}
    PROVE  /\ TablesOver(p, w) \in Nat /\ TablesOver(q, w) \in Nat
           /\ TablesOver(p, w) <= TablesOver(q, w)
<1> DEFINE m == p + w - 1
           n == q + w - 1
           s == m \div w
           t == n \div w
<1>1. m \in Nat /\ n \in Nat /\ m <= n
  OBVIOUS
<1>2. s \in Int /\ m = w * s + (m % w) /\ m % w \in 0 .. w - 1
  BY <1>1
<1>3. t \in Int /\ n = w * t + (n % w) /\ n % w \in 0 .. w - 1
  BY <1>1
<1>4. s \in Nat /\ t \in Nat
  BY RoundUp DEF TablesOver
<1> HIDE DEF m, n, s, t
<1>5. s <= t
  <2> SUFFICES ASSUME s >= t + 1
               PROVE  FALSE
    BY <1>4
  <2>1. w * s >= w * (t + 1)
    BY <1>4
  <2>2. w * (t + 1) = w * t + w /\ w * s \in Nat /\ w * t \in Nat
    BY <1>4
  <2> QED
    BY <1>1, <1>2, <1>3, <2>1, <2>2
<1> QED
  BY <1>4, <1>5 DEF TablesOver, s, t, m, n

LEMMA TablesGrow ==
    ASSUME NEW p \in Nat, NEW q \in Nat, p <= q
    PROVE  TablesFor(p) \in Nat /\ TablesFor(q) \in Nat /\ TablesFor(p) <= TablesFor(q)
<1>1. /\ TABLE \in Nat \ {0} /\ TABLE * TABLE \in Nat \ {0}
      /\ TABLE * TABLE * TABLE \in Nat \ {0}
  <2>1. TABLE \in Nat /\ TABLE >= 1
    BY Sizes
  <2>2. TABLE * TABLE \in Nat /\ TABLE * TABLE >= 1
    BY <2>1
  <2>3. TABLE * TABLE * TABLE \in Nat /\ TABLE * TABLE * TABLE >= 1
    BY <2>1, <2>2
  <2> QED
    BY <2>1, <2>2, <2>3
<1> QED
  BY <1>1, TablesOverGrows DEF TablesFor

\* More pages cost more frames.
LEMMA NeededGrows ==
    ASSUME NEW p \in Nat, NEW m \in Nat, NEW n \in Nat, m <= n
    PROVE  /\ FramesNeeded(p, m) \in Nat /\ FramesNeeded(p, n) \in Nat
           /\ FramesNeeded(p, m) <= FramesNeeded(p, n)
<1>1. /\ TablesFor(p) \in Nat /\ TablesFor(p + m) \in Nat /\ TablesFor(p + n) \in Nat
      /\ TablesFor(p) <= TablesFor(p + m) /\ TablesFor(p + m) <= TablesFor(p + n)
  BY TablesGrow
<1> QED
  BY <1>1 DEF FramesNeeded

LEMMA MapPagesTyped ==
    ASSUME NEW a \in Nat, NEW n \in Nat, MapPages(a, n),
           frames \in Nat, unbacked \subseteq Nat
    PROVE  frames' \in Nat /\ unbacked' \subseteq Nat
<1> DEFINE first == a \div PAGE_SIZE
<1>1. \A k \in 0 .. n - 1 : a + k * PAGE_SIZE \in Nat
  BY Sizes
<1>2. {a + k * PAGE_SIZE : k \in {j \in 0 .. n - 1 : FramesNeeded(first, j + 1) > frames}}
          \subseteq Nat
  BY <1>1
<1>3. FramesNeeded(first, n) \in Nat
  <2>1. first \in Nat
    BY Sizes
  <2> QED
    BY <2>1, NeededGrows
<1>4. frames' \in Nat
  BY <1>3 DEF MapPages
<1> QED
  BY <1>2, <1>4 DEF MapPages

LEMMA HeapInitStep ==
    ASSUME IInv, HeapInit
    PROVE  IInv'
<1> DEFINE n == HEAP_INITIAL_SIZE - BLOCK_SIZE
<1>0. /\ hdr' = [a \in {heap_first} |-> Block(n, TRUE, NULL)]
      /\ pc = "init" /\ pc' = "idle" /\ heap_current_size' = HEAP_INITIAL_SIZE
      /\ MapPages(0, PagesFor(HEAP_INITIAL_SIZE))
      /\ UNCHANGED <<call, size, current, new_size, expansions, live>>
  BY DEF HeapInit
<1>1. /\ n \in Nat /\ DOMAIN hdr' = {heap_first}
      /\ hdr'[heap_first] = Block(n, TRUE, NULL)
  BY <1>0, Sizes
<1>2. hdr'[heap_first] \in Header
  BY <1>1 DEF Block, Header
<1>3. EndIn(hdr', heap_first) = HEAP_INITIAL_SIZE
  BY <1>1, Sizes DEF EndIn, Block, heap_first
<1>4. Tiles(hdr', HEAP_INITIAL_SIZE, NULL)
  <2>1. \A a \in DOMAIN hdr' : a = heap_first
    BY <1>1
  <2>2. heap_first \in Nat /\ heap_first # NULL /\ HEAP_INITIAL_SIZE \in Nat
    BY Sizes DEF heap_first, NULL
  <2>3. hdr'[heap_first].next = NULL
    BY <1>1 DEF Block
  <2>4. \A a, b \in DOMAIN hdr' : ~(a < b)
    BY <2>1, <2>2
  <2>5. \A a \in DOMAIN hdr' \ {NULL} :
            /\ hdr'[a].next = NULL /\ EndIn(hdr', a) = HEAP_INITIAL_SIZE
            /\ EndIn(hdr', a) <= HEAP_INITIAL_SIZE
    BY <2>1, <2>2, <2>3, <1>3
  <2>6. /\ DOMAIN hdr' \subseteq Nat /\ heap_first \in DOMAIN hdr' \ {NULL}
        /\ \A a \in DOMAIN hdr' : hdr'[a] \in Header
    BY <2>1, <2>2, <1>1, <1>2
  <2> QED
    BY <2>4, <2>5, <2>6 DEF Tiles
<1>5. TilingInv'
  BY <1>0, <1>4 DEF TilingInv, ListEnd, Unlinked
<1>6. TypeOK'
  <2>1. frames' \in Nat /\ unbacked' \subseteq Nat
    <3>1. PagesFor(HEAP_INITIAL_SIZE) \in Nat
      BY RoundUp, Sizes DEF PagesFor
    <3> QED
      BY <1>0, <3>1, MapPagesTyped DEF IInv, TypeOK
  <2>2. heap_current_size' \in Nat
    BY <1>0, Sizes
  <2>3. DOMAIN hdr' \subseteq Nat /\ \A a \in DOMAIN hdr' : hdr'[a] \in Header
    BY <1>4 DEF Tiles
  <2> QED
    BY <1>0, <2>1, <2>2, <2>3 DEF IInv, TypeOK, Header
<1>7. CursorInv' /\ CallInv' /\ OnceInv' /\ AloneInv'
  BY <1>0, <1>1 DEF IInv, CursorInv, CallInv, OnceInv, AloneInv, Alone, Block
<1>8. ObjectsHaveBlocks'
  BY <1>0, <1>1 DEF IInv, CursorInv, ObjectsHaveBlocks, Block
<1> QED
  BY <1>5, <1>6, <1>7, <1>8 DEF IInv

LEMMA KfreeStep ==
    ASSUME IInv, NEW o \in live, Kfree(o)
    PROVE  IInv'
<1> USE DEF Kfree, BeginFree
<1> DEFINE b == o.ptr - BLOCK_SIZE
<1>1. b \in DOMAIN hdr /\ ~hdr[b].free
  BY DEF IInv, ObjectsHaveBlocks
<1>2. Tiles(hdr, heap_current_size, NULL) /\ heap_current_size \in Nat
  BY DEF IInv, TilingInv, ListEnd, Unlinked, TypeOK
<1>3. hdr' = [hdr EXCEPT ![b].free = TRUE]
  OBVIOUS
<1>4. Tiles(hdr', heap_current_size, NULL)
  <2>1. Tiles([hdr EXCEPT ![b].free = TRUE], heap_current_size, NULL)
    BY <1>1, <1>2, MarkTiles
  <2> QED
    BY <2>1, <1>3
<1>5. TilingInv'
  BY <1>4 DEF TilingInv, ListEnd, Unlinked
<1>6. hdr[b] \in Header
  BY <1>1, <1>2 DEF Tiles
<1>7. /\ DOMAIN hdr' = DOMAIN hdr /\ hdr'[b].free
      /\ \A a \in DOMAIN hdr : /\ a # b => hdr'[a] = hdr[a]
                               /\ hdr'[a].size = hdr[a].size
  BY <1>1, <1>3, <1>6 DEF Header
<1>8. TypeOK'
  BY <1>2, <1>4, <1>7 DEF IInv, TypeOK, Tiles, Header, heap_first
<1>9. CursorInv' /\ CallInv' /\ OnceInv'
  BY DEF IInv, CursorInv, CallInv, OnceInv
<1>10. AloneInv'
  <2>1. pc' = "free_scan" /\ \A a \in DOMAIN hdr' : ~(a < current')
    BY <1>2, <1>7 DEF Tiles, heap_first
  <2> QED
    BY <2>1 DEF AloneInv
<1>11. ObjectsHaveBlocks'
  <2>0. \A q \in live : q.ptr \in Nat
    BY DEF IInv, TypeOK
  <2>1. BLOCK_SIZE \in Nat /\ \A a \in DOMAIN hdr : a \in Nat
    BY <1>2, SizesAssumption DEF Tiles
  <2>2. ASSUME NEW q \in live'
        PROVE  LET c == q.ptr - BLOCK_SIZE
               IN  c \in DOMAIN hdr' /\ ~hdr'[c].free /\ hdr'[c].size >= q.size
    <3>1. q \in live /\ q.ptr # o.ptr
      BY DEF IInv, ObjectsHaveBlocks
    <3>2. q.ptr - BLOCK_SIZE # b
      BY <2>0, <2>1, <3>1
    <3> QED
      BY <3>1, <3>2, <1>7 DEF IInv, ObjectsHaveBlocks
  <2>3. ASSUME NEW a \in DOMAIN hdr', ~hdr'[a].free
        PROVE  \E q \in live' : q.ptr = a + BLOCK_SIZE
    <3>1. a # b /\ a \in DOMAIN hdr /\ ~hdr[a].free
      BY <1>7, <2>3
    <3>2. PICK q \in live : q.ptr = a + BLOCK_SIZE
      BY <3>1 DEF IInv, ObjectsHaveBlocks
    <3>3. q # o
      BY <2>0, <2>1, <3>1, <3>2
    <3> QED
      BY <3>2, <3>3
  <2> QED
    BY <2>2, <2>3 DEF IInv, ObjectsHaveBlocks
<1> QED
  BY <1>5, <1>8, <1>9, <1>10, <1>11 DEF IInv

LEMMA KreallocStep ==
    ASSUME IInv, NEW o \in live, NEW n \in Nat, Krealloc(o, n)
    PROVE  IInv'
<1> USE DEF Krealloc
<1>1. CASE hdr[o.ptr - BLOCK_SIZE].size < n
  <2>1. o.ptr \in Nat
    BY DEF IInv, TypeOK
  <2>2. ~(hdr[o.ptr - BLOCK_SIZE].size >= n)
    <3>1. hdr[o.ptr - BLOCK_SIZE].size \in Nat
      BY DEF IInv, TypeOK, ObjectsHaveBlocks
    <3> QED
      BY <1>1, <3>1
  <2> QED
    BY <2>1, <2>2, BeginAllocationStep
<1>2. CASE ~(hdr[o.ptr - BLOCK_SIZE].size < n)
  <2> DEFINE new == [ptr |-> o.ptr, size |-> n, good |-> n]
  <2>1. /\ UNCHANGED <<pc, hdr, heap_current_size, frames, unbacked, call, size,
                       current, new_size, expansions>>
        /\ live' = (live \ {o}) \cup {new} /\ hdr[o.ptr - BLOCK_SIZE].size >= n
        /\ pc = "idle"
    BY <1>2
  <2>2. o \in [ptr : Nat, size : Nat, good : Nat]
    BY DEF IInv, TypeOK
  <2>4. new.ptr = o.ptr /\ new.size = n /\ new \in [ptr : Nat, size : Nat, good : Nat]
    BY <2>2
  <2> HIDE DEF new
  <2>5. TypeOK'
    BY <2>1, <2>4 DEF IInv, TypeOK
  <2>6. ObjectsHaveBlocks'
    BY <2>1, <2>4 DEF IInv, ObjectsHaveBlocks
  <2>7. CursorInv' /\ CallInv' /\ OnceInv' /\ AloneInv'
    BY <2>1 DEF IInv, CursorInv, CallInv, OnceInv, AloneInv, Alone
  <2>8. TilingInv'
    BY <2>1 DEF IInv, TilingInv, ListEnd, Unlinked, Tiles, EndIn
  <2> QED
    BY <2>5, <2>6, <2>7, <2>8 DEF IInv
<1> QED
  BY <1>1, <1>2

\* The object that kmalloc, kcalloc or krealloc returns.
LEMMA NewObjectFacts ==
    ASSUME IInv, pc = "scan", Fits(current)
    PROVE  /\ NewObject \in [ptr : Nat, size : Nat, good : Nat]
           /\ NewObject.ptr = current + BLOCK_SIZE
           /\ NewObject.size <= size
           /\ \A o \in live : o.ptr # NewObject.ptr
<1>1. current \in DOMAIN hdr /\ current \in Nat /\ hdr[current].free
  BY TakeFacts DEF Fits
<1>2. /\ call.op \in {"kmalloc", "kcalloc", "krealloc"} /\ call.n \in Nat
      /\ size = ALIGN(call.n) /\ size \in Nat
  BY DEF IInv, TypeOK, CallInv
<1>3. \A n \in Nat : (n \div WORD) * WORD \in Nat
  <2>1. ASSUME NEW n \in Nat PROVE n \div WORD \in Nat
    BY Sizes
  <2> QED
    BY <2>1, Sizes
<1>4. call.op = "krealloc" => Copied \in Nat
  <2>1. ASSUME call.op = "krealloc"
        PROVE  hdr[call.ptr - BLOCK_SIZE].size \in Nat
    BY <2>1 DEF IInv, TypeOK, CallInv, ObjectsHaveBlocks
  <2> QED
    BY <2>1, <1>3 DEF Copied
<1>5. Good \in Nat
  BY <1>2, <1>3, <1>4 DEF Good
<1>6. ASSUME NEW o \in live
      PROVE  o.ptr # current + BLOCK_SIZE
  <2>1. o.ptr \in Nat /\ o.ptr - BLOCK_SIZE # current
    BY <1>1 DEF IInv, TypeOK, ObjectsHaveBlocks
  <2> QED
    BY <2>1, <1>1, Sizes
<1>7. call.n <= size
  BY <1>2, AlignFacts
<1> QED
  BY <1>1, <1>2, <1>5, <1>6, <1>7, Sizes DEF NewObject

\* No neighbour of a block that is taken becomes free.
LEMMA TakeAlone ==
    ASSUME IInv, pc = "scan", Fits(current),
           NEW a \in DOMAIN SplitAndTake(current)
    PROVE  LET g == SplitAndTake(current)
           IN  g[a].free /\ g[a].next # NULL => ~g[g[a].next].free
<1> DEFINE g == SplitAndTake(current)
           rest == current + BLOCK_SIZE + size
<1>1. /\ current \in DOMAIN hdr /\ ~g[current].free
      /\ \A b \in DOMAIN hdr \ {current} : g[b] = hdr[b]
      /\ \/ DOMAIN g = DOMAIN hdr
         \/ /\ DOMAIN g = DOMAIN hdr \cup {rest} /\ rest \notin DOMAIN hdr
            /\ g[rest].next = hdr[current].next
  BY TakeFacts
<1>2. \A b \in DOMAIN hdr : Alone(b) /\ (hdr[b].next # NULL => hdr[b].next \in DOMAIN hdr)
  <2>1. \A b \in DOMAIN hdr : Alone(b)
    BY DEF IInv, AloneInv
  <2>2. Unlinked = NULL /\ Tiles(hdr, ListEnd, NULL) /\ NULL \notin DOMAIN hdr
    BY DEF IInv, Unlinked, TilingInv, Tiles, NULL
  <2> QED
    BY <2>1, <2>2, NextOnList
<1> HIDE DEF g, rest
<1>3. hdr[current].free
  BY DEF Fits
<1>4. ASSUME NEW b \in DOMAIN hdr, hdr[b].free, hdr[b].next # NULL
      PROVE  ~g[hdr[b].next].free
  <2>1. ~hdr[hdr[b].next].free /\ hdr[b].next \in DOMAIN hdr
    BY <1>2, <1>4 DEF Alone
  <2> QED
    BY <2>1, <1>1
<1>5. a \in DOMAIN g
  BY DEF g
<1>6. g[a].free /\ g[a].next # NULL => ~g[g[a].next].free
  <2>1. CASE a \in DOMAIN hdr \ {current}
    BY <2>1, <1>1, <1>4
  <2>2. CASE a = current
    BY <2>2, <1>1
  <2>3. CASE a \notin DOMAIN hdr
    <3>1. a = rest /\ g[rest].next = hdr[current].next
      BY <1>1, <1>5, <2>3
    <3> QED
      BY <3>1, <1>1, <1>3, <1>4
  <2> QED
    BY <2>1, <2>2, <2>3
<1> QED
  BY <1>6 DEF g

LEMMA ReturnStep ==
    ASSUME IInv, ScanFits, call.op # "krealloc"
    PROVE  IInv'
<1> DEFINE g == SplitAndTake(current)
<1>1. /\ pc = "scan" /\ Fits(current) /\ hdr' = g
      /\ live' = live \cup {NewObject} /\ pc' = "idle" /\ current' = NULL
      /\ call' = NoCall /\ size' = 0 /\ expansions' = 0
      /\ UNCHANGED <<heap_current_size, frames, unbacked, new_size>>
  BY DEF ScanFits
<1>2. /\ current \in DOMAIN hdr /\ current \in Nat
      /\ Tiles(g, heap_current_size, NULL)
      /\ ~g[current].free /\ g[current].size >= size
      /\ \A b \in DOMAIN hdr \ {current} : g[b] = hdr[b]
      /\ DOMAIN hdr \subseteq DOMAIN g
      /\ \A b \in DOMAIN g \ DOMAIN hdr : g[b].free
  BY <1>1, TakeFacts
<1>3. /\ NewObject \in [ptr : Nat, size : Nat, good : Nat]
      /\ NewObject.ptr = current + BLOCK_SIZE /\ NewObject.size <= size
      /\ \A o \in live : o.ptr # NewObject.ptr
  BY <1>1, NewObjectFacts
<1>4. \A a \in DOMAIN g : g[a].free /\ g[a].next # NULL => ~g[g[a].next].free
  BY <1>1, TakeAlone
<1> HIDE DEF g
<1>5. TilingInv'
  BY <1>1, <1>2 DEF TilingInv, ListEnd, Unlinked
<1>6. TypeOK'
  BY <1>1, <1>2, <1>3 DEF IInv, TypeOK, Tiles, Header, NoCall
<1>7. CursorInv' /\ CallInv' /\ OnceInv'
  BY <1>1 DEF CursorInv, CallInv, OnceInv
<1>8. AloneInv'
  BY <1>1, <1>4 DEF AloneInv, Alone
<1>9. ObjectsHaveBlocks'
  <2>1. size \in Nat /\ NewObject.size \in Nat /\ g[current].size \in Nat
    BY <1>2, <1>3 DEF IInv, TypeOK, Tiles, Header
  <2>2. NewObject.ptr - BLOCK_SIZE = current /\ g[current].size >= NewObject.size
    BY <2>1, <1>2, <1>3, Sizes
  <2>3. ASSUME NEW o \in live
        PROVE  LET c == o.ptr - BLOCK_SIZE
               IN  c \in DOMAIN g /\ ~g[c].free /\ g[c].size >= o.size
    <3>1. o.ptr - BLOCK_SIZE \in DOMAIN hdr \ {current}
      BY <1>1 DEF IInv, ObjectsHaveBlocks, Fits
    <3> QED
      BY <3>1, <1>2 DEF IInv, ObjectsHaveBlocks
  <2>4. ASSUME NEW a \in DOMAIN g, ~g[a].free
        PROVE  \E o \in live \cup {NewObject} : o.ptr = a + BLOCK_SIZE
    BY <2>4, <1>2, <1>3 DEF IInv, ObjectsHaveBlocks
  <2>5. \A o, q \in live \cup {NewObject} : o.ptr = q.ptr => o = q
    BY <1>3 DEF IInv, ObjectsHaveBlocks
  <2> QED
    BY <2>2, <2>3, <2>4, <2>5, <1>1, <1>2 DEF ObjectsHaveBlocks
<1> QED
  BY <1>5, <1>6, <1>7, <1>8, <1>9 DEF IInv

\* krealloc: the new block is taken, and the old one is marked as free.
LEMMA MoveStep ==
    ASSUME IInv, ScanFits, call.op = "krealloc"
    PROVE  IInv'
<1> DEFINE g == SplitAndTake(current)
           b == call.ptr - BLOCK_SIZE
<1>1. /\ pc = "scan" /\ Fits(current) /\ hdr' = [g EXCEPT ![b].free = TRUE]
      /\ live' = {o \in live : o.ptr # call.ptr} \cup {NewObject}
      /\ pc' = "free_scan" /\ current' = heap_first
      /\ call' = NoCall /\ size' = 0 /\ expansions' = 0
      /\ UNCHANGED <<heap_current_size, frames, unbacked, new_size>>
  BY DEF ScanFits, BeginFree
<1>2. /\ current \in DOMAIN hdr /\ current \in Nat
      /\ Tiles(g, heap_current_size, NULL)
      /\ ~g[current].free /\ g[current].size >= size
      /\ \A c \in DOMAIN hdr \ {current} : g[c] = hdr[c]
      /\ DOMAIN hdr \subseteq DOMAIN g
      /\ \A c \in DOMAIN g \ DOMAIN hdr : g[c].free
  BY <1>1, TakeFacts
<1>3. /\ NewObject \in [ptr : Nat, size : Nat, good : Nat]
      /\ NewObject.ptr = current + BLOCK_SIZE /\ NewObject.size <= size
      /\ \A o \in live : o.ptr # NewObject.ptr
  BY <1>1, NewObjectFacts
<1>4. PICK old \in live : old.ptr = call.ptr
  BY <1>1 DEF IInv, CallInv
<1>5. b \in DOMAIN hdr /\ ~hdr[b].free /\ b # current
  BY <1>1, <1>4 DEF IInv, ObjectsHaveBlocks, Fits
<1> HIDE DEF g
<1>6. Tiles(hdr', heap_current_size, NULL)
  <2>1. b \in DOMAIN g /\ heap_current_size \in Nat
    BY <1>2, <1>5 DEF IInv, TypeOK
  <2>2. Tiles([g EXCEPT ![b].free = TRUE], heap_current_size, NULL)
    BY <2>1, <1>2, MarkTiles
  <2> QED
    BY <2>2, <1>1
<1>7. /\ DOMAIN hdr' = DOMAIN g /\ hdr'[b].free
      /\ \A a \in DOMAIN g : a # b => hdr'[a] = g[a]
  <2>1. g[b] \in Header /\ b \in DOMAIN g
    BY <1>2, <1>5 DEF Tiles
  <2> QED
    BY <2>1, <1>1 DEF Header
<1>8. TilingInv'
  BY <1>1, <1>6 DEF TilingInv, ListEnd, Unlinked
<1>9. TypeOK'
  <2>1. \A o \in live' : o \in [ptr : Nat, size : Nat, good : Nat]
    BY <1>1, <1>3 DEF IInv, TypeOK
  <2>2. heap_first \in Nat /\ heap_first \in DOMAIN hdr' /\ DOMAIN hdr' \subseteq Nat
        /\ \A a \in DOMAIN hdr' : hdr'[a] \in Header
    BY <1>6 DEF Tiles
  <2> QED
    BY <1>1, <2>1, <2>2 DEF IInv, TypeOK, Header, NoCall
<1>10. CursorInv' /\ CallInv' /\ OnceInv'
  BY <1>1 DEF CursorInv, CallInv, OnceInv
<1>11. AloneInv'
  <2>1. \A a \in DOMAIN hdr' : ~(a < heap_first)
    BY <1>6 DEF Tiles, heap_first
  <2> QED
    BY <2>1, <1>1 DEF AloneInv
<1>12. ObjectsHaveBlocks'
  <2>0. \A o \in live : o.ptr \in Nat
    BY DEF IInv, TypeOK
  <2>1. size \in Nat /\ NewObject.size \in Nat /\ g[current].size \in Nat
    BY <1>2, <1>3 DEF IInv, TypeOK, Tiles, Header
  <2>2. /\ NewObject.ptr - BLOCK_SIZE = current /\ hdr'[current].size >= NewObject.size
        /\ current \in DOMAIN hdr' /\ ~hdr'[current].free
    BY <2>1, <1>2, <1>3, <1>5, <1>7, Sizes
  <2>3. ASSUME NEW o \in live, o.ptr # call.ptr
        PROVE  LET c == o.ptr - BLOCK_SIZE
               IN  c \in DOMAIN hdr' /\ ~hdr'[c].free /\ hdr'[c].size >= o.size
    <3>1. o.ptr - BLOCK_SIZE \in DOMAIN hdr \ {current}
      BY <1>1 DEF IInv, ObjectsHaveBlocks, Fits
    <3>2. o.ptr - BLOCK_SIZE # b
      BY <2>0, <2>3, <1>4, Sizes
    <3> QED
      BY <3>1, <3>2, <1>2, <1>7 DEF IInv, ObjectsHaveBlocks
  <2>4. ASSUME NEW a \in DOMAIN hdr', ~hdr'[a].free
        PROVE  \E o \in live' : o.ptr = a + BLOCK_SIZE
    <3>1. a # b /\ a \in DOMAIN hdr /\ (a # current => ~hdr[a].free)
      BY <2>4, <1>2, <1>7
    <3>2. CASE a = current
      BY <3>2, <1>1, <1>3
    <3>3. CASE a # current
      <4>1. PICK o \in live : o.ptr = a + BLOCK_SIZE
        BY <3>1, <3>3 DEF IInv, ObjectsHaveBlocks
      <4>2. a \in Nat
        BY <3>1 DEF IInv, TypeOK
      <4>3. o.ptr # call.ptr
        BY <4>1, <4>2, <3>1, Sizes
      <4> QED
        BY <4>1, <4>3, <1>1
    <3> QED
      BY <3>2, <3>3
  <2>5. \A o, q \in live' : o.ptr = q.ptr => o = q
    BY <1>1, <1>3 DEF IInv, ObjectsHaveBlocks
  <2>6. \A o \in live' : LET c == o.ptr - BLOCK_SIZE
                         IN  c \in DOMAIN hdr' /\ ~hdr'[c].free /\ hdr'[c].size >= o.size
    <3>1. \A o \in live' : o = NewObject \/ (o \in live /\ o.ptr # call.ptr)
      BY <1>1
    <3> QED
      BY <3>1, <2>2, <2>3
  <2> QED
    BY <2>4, <2>5, <2>6 DEF ObjectsHaveBlocks
<1> QED
  BY <1>8, <1>9, <1>10, <1>11, <1>12 DEF IInv

\* The heap grows only if nothing fits, so not again after it has grown.
LEMMA ExpandStep ==
    ASSUME IInv, Expand
    PROVE  IInv'
<1> DEFINE e == heap_current_size
           n == Growth(size) - BLOCK_SIZE
           g == [a \in DOMAIN hdr \cup {e} |->
                   IF a = e THEN Block(n, TRUE, NULL) ELSE hdr[a]]
<1>1. /\ pc = "scan" /\ ~Fits(current) /\ hdr[current].next = NULL
      /\ new_size' = Growth(size) /\ MapPages(e, Growth(size) \div PAGE_SIZE)
      /\ hdr' = g /\ current' = heap_first /\ pc' = "find_last"
      /\ expansions' = expansions + 1
      /\ UNCHANGED <<heap_current_size, call, size, live>>
  BY DEF Expand
<1>2. /\ size \in Nat /\ e \in Nat /\ current \in Nat /\ current \in DOMAIN hdr
      /\ frames \in Nat /\ unbacked \subseteq Nat
  BY <1>1 DEF IInv, TypeOK
<1>3. n \in Nat /\ Growth(size) \in Nat
  BY <1>2, GrowthFacts, Sizes
<1>4. Tiles(hdr, e, NULL)
  BY <1>1 DEF IInv, TilingInv, ListEnd, Unlinked
<1>5. expansions = 0
  <2>1. ASSUME NEW b \in DOMAIN hdr, b >= current, Fits(b)
        PROVE  FALSE
    <3>1. b <= current
      BY <1>1, <1>2, LastBlock
    <3>2. b \in Nat
      BY DEF IInv, TypeOK
    <3> QED
      BY <1>1, <1>2, <2>1, <3>1, <3>2
  <2> QED
    BY <2>1, <1>1 DEF IInv, OnceInv
<1>6. /\ e \notin DOMAIN hdr /\ Tiles(g, e, e)
      /\ \A a \in DOMAIN hdr : g[a] = hdr[a]
  BY <1>2, <1>3, <1>4, AppendTiles
<1>7. DOMAIN g = DOMAIN hdr \cup {e} /\ g[e] = Block(n, TRUE, NULL)
  OBVIOUS
<1>8. heap_first \in DOMAIN hdr /\ heap_first \in Nat
  BY <1>4 DEF Tiles, heap_first
<1> HIDE DEF g, n
<1>9. TilingInv'
  BY <1>1, <1>6 DEF TilingInv, ListEnd, Unlinked
<1>10. TypeOK'
  <2>1. Growth(size) \div PAGE_SIZE \in Nat
    BY <1>3, Sizes
  <2>2. frames' \in Nat /\ unbacked' \subseteq Nat
    BY <1>1, <1>2, <2>1, MapPagesTyped
  <2>3. DOMAIN hdr' \subseteq Nat /\ \A a \in DOMAIN hdr' : hdr'[a] \in Header
    BY <1>1, <1>6 DEF Tiles
  <2>4. current' \in DOMAIN hdr' /\ current' \in Nat
    BY <1>1, <1>7, <1>8
  <2> QED
    BY <1>1, <1>3, <1>5, <2>2, <2>3, <2>4 DEF IInv, TypeOK, Header
<1>11. CursorInv'
  BY <1>1, <1>6, <1>7, <1>8 DEF CursorInv, n
<1>12. CallInv' /\ OnceInv'
  BY <1>1, <1>5 DEF IInv, CallInv, OnceInv
<1>13. AloneInv'
  <2>1. ASSUME NEW a \in DOMAIN hdr
        PROVE  Alone(a)'
    <3>1. Alone(a)
      BY <1>1 DEF IInv, AloneInv
    <3>2. NULL \notin DOMAIN hdr
      BY <1>4 DEF Tiles, NULL
    <3>3. hdr[a].next # NULL => hdr[a].next \in DOMAIN hdr
      BY <1>4, <3>2 DEF Tiles
    <3> QED
      BY <3>1, <3>3, <1>1, <1>6 DEF Alone
  <2>2. Alone(e)'
    BY <1>1, <1>7 DEF Alone, Block
  <2> QED
    BY <2>1, <2>2, <1>1, <1>7 DEF AloneInv
<1>14. ObjectsHaveBlocks'
  <2>1. g[e].free
    BY <1>7 DEF Block
  <2> QED
    BY <2>1, <1>1, <1>6, <1>7 DEF IInv, ObjectsHaveBlocks
<1> QED
  BY <1>9, <1>10, <1>11, <1>12, <1>13, <1>14 DEF IInv

LEMMA LinkStep ==
    ASSUME IInv, Link
    PROVE  IInv'
<1> DEFINE e == heap_current_size
<1>1. /\ pc = "find_last" /\ hdr[current].next = NULL
      /\ hdr' = [hdr EXCEPT ![current].next = e]
      /\ pc' = IF hdr[current].free THEN "grow_merge" ELSE "grown"
      /\ UNCHANGED <<heap_current_size, frames, unbacked, call, size, current,
                     new_size, expansions, live>>
  BY DEF Link
<1>2. /\ e \in DOMAIN hdr /\ e \in Nat /\ new_size \in Nat /\ size \in Nat
      /\ current \in DOMAIN hdr \ {e} /\ new_size = Growth(size)
      /\ hdr[e] = Block(new_size - BLOCK_SIZE, TRUE, NULL)
  BY <1>1 DEF IInv, TypeOK, CursorInv
<1>3. Tiles(hdr, e, e)
  BY <1>1 DEF IInv, TilingInv, ListEnd, Unlinked
<1>4. hdr[e].next = NULL /\ EndIn(hdr, e) = e + new_size
  BY <1>2, Sizes DEF EndIn, Block
<1>5. Tiles(hdr', e + new_size, NULL)
  BY <1>1, <1>2, <1>3, <1>4, LinkTiles
<1>6. /\ DOMAIN hdr' = DOMAIN hdr
      /\ \A a \in DOMAIN hdr : /\ hdr'[a].free = hdr[a].free
                               /\ hdr'[a].size = hdr[a].size
                               /\ a # current => hdr'[a] = hdr[a]
  BY <1>1, <1>3 DEF Tiles, Header
<1>7. TilingInv'
  BY <1>1, <1>5 DEF TilingInv, ListEnd, Unlinked
<1>8. TypeOK'
  <2>1. DOMAIN hdr' \subseteq Nat /\ \A a \in DOMAIN hdr' : hdr'[a] \in Header
    BY <1>5 DEF Tiles
  <2> QED
    BY <1>1, <1>6, <2>1 DEF IInv, TypeOK, Header
<1>9. CursorInv' /\ CallInv'
  BY <1>1, <1>2, <1>6 DEF IInv, CursorInv, CallInv
<1>10. OnceInv'
  <2>1. hdr[e].free /\ hdr[e].size >= size
    BY <1>2, GrowthFacts, Sizes DEF Block
  <2>2. hdr'[e].free /\ hdr'[e].size >= size' /\ e \in DOMAIN hdr'
    BY <2>1, <1>1, <1>2, <1>6
  <2> QED
    BY <1>1, <2>2 DEF IInv, OnceInv, Fits
<1>11. AloneInv'
  <2>1. ASSUME NEW a \in DOMAIN hdr \ {current}
        PROVE  Alone(a)'
    <3>1. Alone(a) /\ (hdr[a].next # NULL => hdr[a].next \in DOMAIN hdr)
      BY <1>1, <1>3, <1>4 DEF IInv, AloneInv, Tiles
    <3> QED
      BY <3>1, <1>6 DEF Alone
  <2>2. ~hdr[current].free => Alone(current)'
    BY <1>1, <1>2, <1>6 DEF Alone
  <2> QED
    BY <2>1, <2>2, <1>1, <1>6 DEF AloneInv
<1>12. ObjectsHaveBlocks'
  BY <1>1, <1>6 DEF IInv, ObjectsHaveBlocks
<1> QED
  BY <1>7, <1>8, <1>9, <1>10, <1>11, <1>12 DEF IInv

LEMMA MergeStep ==
    ASSUME IInv, Merge
    PROVE  IInv'
<1> DEFINE nxt == hdr[current].next
           g == Absorb(current, BLOCK_SIZE + hdr[nxt].size)
<1>1. /\ pc \in {"grow_merge", "free_merge"} /\ nxt # NULL /\ hdr[nxt].free
      /\ hdr' = g
      /\ UNCHANGED <<pc, heap_current_size, frames, unbacked, call, size, current,
                     new_size, expansions, live>>
  BY DEF Merge, NextIsFree
<1>2. /\ Tiles(hdr, ListEnd, NULL) /\ ListEnd \in Nat /\ NULL \notin DOMAIN hdr
      /\ current \in DOMAIN hdr /\ hdr[current].free
  BY <1>1 DEF IInv, TypeOK, TilingInv, CursorInv, ListEnd, Unlinked, Tiles, NULL
<1>3. /\ nxt \in DOMAIN hdr /\ nxt = EndIn(hdr, current) /\ current < nxt
      /\ DOMAIN g = DOMAIN hdr \ {nxt}
      /\ Tiles(g, ListEnd, NULL)
  <2>1. current \in DOMAIN hdr \ {NULL}
    BY <1>2
  <2>2. hdr[current].next # NULL
    BY <1>1
  <2> HIDE DEF nxt, g
  <2>3. \A u : u = NULL =>
           LET m == hdr[current].next
               h == Absorb(current, BLOCK_SIZE + hdr[m].size)
           IN  /\ m \in DOMAIN hdr /\ m = EndIn(hdr, current) /\ current < m
               /\ DOMAIN h = DOMAIN hdr \ {m}
               /\ Tiles(h, ListEnd, NULL)
    BY <1>2, <2>1, <2>2, AbsorbTiles
  <2> QED
    BY <2>3 DEF nxt, g
<1>4. /\ current \in Nat /\ nxt \in Nat /\ hdr[current].size \in Nat
      /\ hdr[nxt].size \in Nat /\ hdr[current] \in Header
  BY <1>2, <1>3, TilesTyped
<1>5. g[current] = Block(hdr[current].size + (BLOCK_SIZE + hdr[nxt].size),
                         hdr[current].free, hdr[nxt].next)
  <2>1. current # nxt
    BY <1>3, <1>4
  <2> QED
    BY <2>1, <1>2, Zenon DEF Absorb
<1>6. \A a \in DOMAIN g \ {current} : g[a] = hdr[a]
  BY DEF Absorb
<1>7. /\ g[current].free /\ g[current].size >= hdr[current].size
      /\ g[current].size >= hdr[nxt].size /\ current \in DOMAIN g
  BY <1>2, <1>3, <1>4, <1>5, Sizes DEF Block
<1> HIDE DEF g
<1>8. TilingInv'
  <2>1. ListEnd' = ListEnd /\ Unlinked' = NULL
    BY <1>1 DEF ListEnd, Unlinked
  <2>2. Tiles(hdr', ListEnd', NULL)
    BY <2>1, <1>1, <1>3
  <2> QED
    BY <2>1, <2>2 DEF TilingInv
<1>9. TypeOK'
  <2>1. DOMAIN hdr' \subseteq Nat /\ \A a \in DOMAIN hdr' : hdr'[a] \in Header
    BY <1>1, <1>3 DEF Tiles
  <2> QED
    BY <1>1, <1>7, <2>1 DEF IInv, TypeOK, Header
<1>10. CursorInv' /\ CallInv'
  BY <1>1, <1>7 DEF IInv, CursorInv, CallInv
<1>11. OnceInv'
  <2>1. CASE pc = "free_merge"
    BY <2>1, <1>1 DEF IInv, OnceInv
  <2>2. CASE pc = "grow_merge"
    <3>1. PICK b \in DOMAIN hdr : hdr[b].free /\ hdr[b].size >= size
      BY <2>2 DEF IInv, OnceInv, Fits
    <3>2. \E c \in DOMAIN g : g[c].free /\ g[c].size >= size
      <4>1. CASE b \in {current, nxt}
        <5>1. size \in Nat /\ g[current].size \in Nat
          BY <1>3, <1>7, TilesTyped DEF IInv, TypeOK
        <5>2. g[current].size >= size
          BY <4>1, <5>1, <3>1, <1>4, <1>7
        <5> QED
          BY <5>2, <1>7
      <4>2. CASE b \notin {current, nxt}
        BY <4>2, <3>1, <1>3, <1>6
      <4> QED
        BY <4>1, <4>2
    <3> QED
      BY <3>2, <2>2, <1>1 DEF IInv, OnceInv, Fits
  <2> QED
    BY <2>1, <2>2, <1>1
<1>12. AloneInv'
  <2>1. ASSUME NEW a \in DOMAIN g \ {current}, Alone(a)
        PROVE  Alone(a)'
    <3>1. hdr[a].next # NULL => hdr[a].next \in DOMAIN hdr
      BY <1>2, <1>3 DEF Tiles
    <3>2. hdr[a].free /\ hdr[a].next # NULL => hdr[a].next \notin {current, nxt}
      BY <2>1, <1>1, <1>2 DEF Alone
    <3> QED
      BY <3>1, <3>2, <2>1, <1>1, <1>3, <1>6 DEF Alone
  <2>2. \A a \in DOMAIN g : a < current => a # current
    BY <1>4
  <2> QED
    BY <2>1, <2>2, <1>1, <1>3 DEF IInv, AloneInv
<1>13. ObjectsHaveBlocks'
  <2>1. \A o \in live : o.ptr - BLOCK_SIZE \notin {current, nxt}
    BY <1>1, <1>2 DEF IInv, ObjectsHaveBlocks
  <2>2. \A o \in live : o.ptr - BLOCK_SIZE \in DOMAIN g \ {current}
    BY <2>1, <1>3 DEF IInv, ObjectsHaveBlocks
  <2>3. \A a \in DOMAIN g : ~g[a].free => a # current /\ a \in DOMAIN hdr /\ ~hdr[a].free
    BY <1>3, <1>6, <1>7
  <2> QED
    BY <2>2, <2>3, <1>1, <1>6 DEF IInv, ObjectsHaveBlocks
<1> QED
  BY <1>8, <1>9, <1>10, <1>11, <1>12, <1>13 DEF IInv

-----------------------------------------------------------------------------
(* The theorems *)

LEMMA InitIInv == Init => IInv
BY Sizes DEF Init, IInv, TypeOK, TilingInv, CursorInv, CallInv, ObjectsHaveBlocks,
             OnceInv, AloneInv, NoCall

LEMMA StutterStep ==
    ASSUME IInv, UNCHANGED vars
    PROVE  IInv'
<1> USE DEF vars
<1>1. TypeOK' /\ CursorInv' /\ CallInv'
  <2>1. TypeOK'
    BY DEF IInv, TypeOK
  <2>2. CursorInv'
    BY DEF IInv, CursorInv
  <2>3. CallInv'
    BY DEF IInv, CallInv
  <2> QED
    BY <2>1, <2>2, <2>3
<1>2. TilingInv'
  BY DEF IInv, TilingInv, Tiles, EndIn, ListEnd, Unlinked
<1>3. ObjectsHaveBlocks'
  BY DEF IInv, ObjectsHaveBlocks
<1>4. OnceInv' /\ AloneInv'
  BY DEF IInv, OnceInv, Fits, AloneInv, Alone
<1> QED
  BY <1>1, <1>2, <1>3, <1>4 DEF IInv

LEMMA NextIInv == IInv /\ [Next]_vars => IInv'
<1> SUFFICES ASSUME IInv, [Next]_vars
             PROVE  IInv'
  OBVIOUS
<1>1. CASE HeapInit
  BY <1>1, HeapInitStep
<1>2. ASSUME NEW n \in Requests, Kmalloc(n)
      PROVE  IInv'
  <2>1. n \in Nat /\ NULL \in Nat \cup {NULL}
    BY RequestsAssumption
  <2> QED
    BY <1>2, <2>1, BeginAllocationStep DEF Kmalloc
<1>3. ASSUME NEW total \in CallocTotals, Kcalloc(total)
      PROVE  IInv'
  <2>1. total \in Nat /\ NULL \in Nat \cup {NULL}
    BY RequestsAssumption
  <2> QED
    BY <1>3, <2>1, BeginAllocationStep DEF Kcalloc
<1>4. ASSUME NEW o \in live, Kfree(o)
      PROVE  IInv'
  BY <1>4, KfreeStep
<1>5. ASSUME NEW o \in live, NEW n \in Requests, Krealloc(o, n)
      PROVE  IInv'
  BY <1>5, KreallocStep, RequestsAssumption
<1>6. CASE ScanFits
  BY <1>6, ReturnStep, MoveStep
<1>7. CASE ScanNext
  BY <1>7, ScanNextStep
<1>8. CASE Expand
  BY <1>8, ExpandStep
<1>9. CASE FindLast
  BY <1>9, FindLastStep
<1>10. CASE Link
  BY <1>10, LinkStep
<1>11. CASE Grown
  BY <1>11, GrownStep
<1>12. CASE Merge
  BY <1>12, MergeStep
<1>13. CASE GrowMergeDone
  BY <1>13, GrowMergeDoneStep
<1>14. CASE FreeMergeBegin
  BY <1>14, FreeMergeBeginStep
<1>15. CASE FreeNext
  BY <1>15, FreeNextStep
<1>16. CASE UNCHANGED vars
  BY <1>16, StutterStep
<1> QED
  BY <1>1, <1>2, <1>3, <1>4, <1>5, <1>6, <1>7, <1>8, <1>9, <1>10, <1>11, <1>12,
     <1>13, <1>14, <1>15, <1>16 DEF Next, Call, Run

\* The invariant holds in every behaviour of the heap.
THEOREM Invariance == Spec => []IInv
BY InitIInv, NextIInv, PTL DEF Spec

\* Type correctness of kmalloc, kcalloc, krealloc and kfree.
THEOREM TypeCorrect == Spec => []TypeOK
<1>1. IInv => TypeOK
  BY DEF IInv
<1> QED
  BY Invariance, <1>1, PTL

\* Between and inside calls the headers tile the heap: split_block, merge_blocks
\* and the growth in kmalloc lose no byte and let no two blocks overlap.
THEOREM HeapIsTiled == Spec => []Tiling
<1>1. IInv => Tiling
  <2> SUFFICES ASSUME IInv, pc # "init"
               PROVE  /\ heap_first \in DOMAIN hdr
                      /\ \A a \in DOMAIN hdr :
                           \/ hdr[a].next # NULL /\ hdr[a].next = EndOf(a) /\ EndOf(a) \in DOMAIN hdr
                           \/ hdr[a].next = NULL /\ EndOf(a) = ListEnd
                           \/ /\ pc = "find_last" /\ a = heap_current_size
                              /\ hdr[a].next = NULL /\ EndOf(a) = heap_current_size + new_size
                      /\ \A a, b \in DOMAIN hdr : a < b => EndOf(a) <= b
    BY DEF Tiling
  <2>1. Tiles(hdr, ListEnd, Unlinked)
    BY DEF IInv, TilingInv
  <2>2. \A a \in DOMAIN hdr : EndOf(a) = EndIn(hdr, a)
    BY DEF EndOf, EndIn
  <2>3. NULL \notin DOMAIN hdr
    BY <2>1 DEF Tiles, NULL
  <2>4. ASSUME NEW a \in DOMAIN hdr, a = Unlinked
        PROVE  /\ pc = "find_last" /\ a = heap_current_size
               /\ hdr[a].next = NULL /\ EndOf(a) = heap_current_size + new_size
    <3>1. pc = "find_last" /\ a = heap_current_size
      BY <2>3, <2>4 DEF Unlinked
    <3>2. hdr[a] = Block(new_size - BLOCK_SIZE, TRUE, NULL) /\ new_size \in Nat /\ a \in Nat
      BY <3>1 DEF IInv, TypeOK, CursorInv
    <3> QED
      BY <3>1, <3>2, Sizes DEF EndOf, Block
  <2> QED
    BY <2>1, <2>2, <2>3, <2>4 DEF Tiles
<1> QED
  BY Invariance, <1>1, PTL

\* Every live object lies in a used block of its own, and every used block is an
\* object's: kmalloc hands out no block twice and kfree loses none.
THEOREM ObjectsAreBlocks == Spec => []ObjectsHaveBlocks
<1>1. IInv => ObjectsHaveBlocks
  BY DEF IInv
<1> QED
  BY Invariance, <1>1, PTL

\* Between calls no two neighbouring blocks are free: kfree's walk over the whole
\* list and the merge in kmalloc's growth leave nothing unmerged.
THEOREM HeapIsCoalesced == Spec => []Coalesced
<1>1. IInv => Coalesced
  BY DEF IInv, AloneInv, Alone, Coalesced
<1> QED
  BY Invariance, <1>1, PTL

\* The recursion of kmalloc is entered at most once in a call.
THEOREM GrowsOnce == Spec => []ExpandsOnce
<1>1. IInv => ExpandsOnce
  <2> SUFFICES ASSUME IInv
               PROVE  expansions \in {0, 1}
    BY DEF ExpandsOnce
  <2> QED
    BY DEF IInv, TypeOK, OnceInv
<1> QED
  BY Invariance, <1>1, PTL

-----------------------------------------------------------------------------
(* The heap implements ObjectStore *)

LiveApart == \A o, q \in live : o # q => Promise!Bytes(o) \cap Promise!Bytes(q) = {}

\* Blocks do not overlap, so neither do the objects in them.
LEMMA ObjectsApart == IInv => LiveApart
<1> SUFFICES ASSUME IInv, NEW o \in live, NEW q \in live, o # q,
                    NEW x \in Promise!Bytes(o) \cap Promise!Bytes(q)
             PROVE  FALSE
  BY DEF LiveApart
<1> DEFINE a == o.ptr - BLOCK_SIZE
           b == q.ptr - BLOCK_SIZE
<1>1. /\ o.ptr \in Nat /\ o.size \in Nat /\ q.ptr \in Nat /\ q.size \in Nat
      /\ o.ptr # q.ptr
  BY DEF IInv, TypeOK, ObjectsHaveBlocks
<1>2. /\ a \in DOMAIN hdr /\ b \in DOMAIN hdr
      /\ hdr[a].size >= o.size /\ hdr[b].size >= q.size
  BY DEF IInv, ObjectsHaveBlocks
<1>3. /\ x \in Int
      /\ o.ptr <= x /\ x < o.ptr + o.size
      /\ q.ptr <= x /\ x < q.ptr + q.size
  BY <1>1 DEF Promise!Bytes
<1>4. Tiles(hdr, ListEnd, Unlinked)
  BY <1>2 DEF IInv, TilingInv, CursorInv
<1>5. /\ a \in Nat /\ b \in Nat /\ hdr[a].size \in Nat /\ hdr[b].size \in Nat
      /\ EndIn(hdr, a) \in Nat /\ EndIn(hdr, b) \in Nat
  BY <1>2, <1>4, TilesTyped
<1>6. x < EndIn(hdr, a) /\ x < EndIn(hdr, b) /\ a <= x /\ b <= x /\ a # b
  BY <1>1, <1>2, <1>3, <1>5, Sizes DEF EndIn
<1>7. /\ a < b => EndIn(hdr, a) <= b
      /\ b < a => EndIn(hdr, b) <= a
  BY <1>2, <1>4 DEF Tiles
<1> HIDE DEF a, b
<1> QED
  BY <1>3, <1>5, <1>6, <1>7

\* Every step of the heap allocates, frees or resizes an object, or does nothing
\* to the objects.
LEMMA StepIsPromised == IInv /\ IInv' /\ [Next]_vars => [Promise!Next]_live
<1> SUFFICES ASSUME IInv, IInv', [Next]_vars, live' # live
             PROVE  Promise!Next
  OBVIOUS
<1>1. LiveApart'
  BY ObjectsApart, PTL
<1>2. CASE HeapInit
  BY <1>2 DEF HeapInit
<1>3. ASSUME NEW n \in Requests \cup CallocTotals, Kmalloc(n) \/ Kcalloc(n)
      PROVE  Promise!Next
  BY <1>3 DEF Kmalloc, Kcalloc, BeginAllocation
<1>4. ASSUME NEW o \in live, Kfree(o)
      PROVE  Promise!Next
  BY <1>4 DEF Kfree, Promise!Next, Promise!Free
<1>5. ASSUME NEW o \in live, NEW n \in Requests, Krealloc(o, n)
      PROVE  Promise!Next
  <2> DEFINE new == [ptr |-> o.ptr, size |-> n, good |-> n]
  <2>1. live' = (live \ {o}) \cup {new}
    BY <1>5 DEF Krealloc, BeginAllocation
  <2>2. \A q \in live \ {o} : q.ptr # new.ptr
    BY DEF IInv, ObjectsHaveBlocks
  <2> HIDE DEF new
  <2>3. Promise!Apart(new, live \ {o})
    BY <2>1, <2>2, <1>1 DEF LiveApart, Promise!Apart
  <2> QED
    BY <2>1, <2>3 DEF Promise!Next, Promise!Resize
<1>6. CASE ScanFits
  <2>1. pc = "scan" /\ Fits(current)
    BY <1>6 DEF ScanFits
  <2>2. \A o \in live : o.ptr # NewObject.ptr
    BY <2>1, NewObjectFacts
  <2>3. CASE call.op # "krealloc"
    <3>1. live' = live \cup {NewObject}
      BY <1>6, <2>3 DEF ScanFits
    <3>2. Promise!Apart(NewObject, live)
      BY <3>1, <2>2, <1>1 DEF LiveApart, Promise!Apart
    <3> QED
      BY <3>1, <3>2 DEF Promise!Next, Promise!Allocate
  <2>4. CASE call.op = "krealloc"
    <3>1. PICK old \in live : old.ptr = call.ptr
      BY <2>1, <2>4 DEF IInv, CallInv
    <3>2. {o \in live : o.ptr # call.ptr} = live \ {old}
      BY <3>1 DEF IInv, ObjectsHaveBlocks
    <3>3. live' = (live \ {old}) \cup {NewObject}
      BY <1>6, <2>4, <3>2 DEF ScanFits
    <3>4. Promise!Apart(NewObject, live \ {old})
      BY <3>3, <2>2, <1>1 DEF LiveApart, Promise!Apart
    <3> QED
      BY <3>3, <3>4 DEF Promise!Next, Promise!Resize
  <2> QED
    BY <2>3, <2>4
<1>7. CASE Run /\ ~ScanFits
  BY <1>7 DEF Run, ScanNext, Expand, FindLast, Link, Grown, Merge, GrowMergeDone,
              FreeMergeBegin, FreeNext
<1>8. CASE UNCHANGED vars
  BY <1>8 DEF vars
<1> QED
  BY <1>2, <1>3, <1>4, <1>5, <1>6, <1>7, <1>8 DEF Next, Call

\* The heap implements ObjectStore: kmalloc, kcalloc, krealloc and kfree keep
\* objects apart and where they are.
THEOREM Implementation == Spec => ImplementsObjectStore
<1>1. Init => Promise!Init
  BY DEF Init, Promise!Init
<1> QED
  BY Invariance, StepIsPromised, <1>1, PTL DEF Spec, ImplementsObjectStore, Promise!Spec

-----------------------------------------------------------------------------
(* Every page of the heap is allocated *)

\* As long as the heap has not grown for a call that needs it to, the allocator
\* has the pages; no page was mapped without one.
BackedInv ==
    EnoughMemory =>
        /\ unbacked = {}
        /\ pc = "scan" /\ expansions = 0 =>
              \/ CanGrow(Growth(size))
              \/ \E b \in DOMAIN hdr : b >= current /\ Fits(b)

\* The allocator has what n pages of the heap and their tables take: each of them
\* is mapped to a frame of its own.
LEMMA EnoughPages ==
    ASSUME NEW a \in Nat, NEW n \in Nat, MapPages(a, n), frames \in Nat,
           FramesNeeded(a \div PAGE_SIZE, n) <= frames, unbacked = {}
    PROVE  unbacked' = {}
<1> DEFINE first == a \div PAGE_SIZE
<1>1. first \in Nat
  BY Sizes
<1>2. ASSUME NEW j \in 0 .. n - 1
      PROVE  ~(FramesNeeded(first, j + 1) > frames)
  <2>0. j + 1 \in Nat /\ j + 1 <= n
    OBVIOUS
  <2> HIDE DEF first
  <2>1. /\ FramesNeeded(first, j + 1) \in Nat /\ FramesNeeded(first, n) \in Nat
        /\ FramesNeeded(first, j + 1) <= FramesNeeded(first, n)
    BY <1>1, <2>0, NeededGrows
  <2>2. FramesNeeded(first, n) <= frames
    BY DEF first
  <2> QED
    BY <2>1, <2>2
<1>3. {j \in 0 .. n - 1 : FramesNeeded(first, j + 1) > frames} = {}
  BY <1>2
<1> QED
  BY <1>3 DEF MapPages

LEMMA GrowthPages ==
    ASSUME NEW n \in Nat
    PROVE  Growth(n) \div PAGE_SIZE \in Nat
BY GrowthFacts, Sizes

LEMMA BeginIsBacked ==
    ASSUME IInv, BackedInv, pc = "idle", NEW op, NEW ptr, NEW n \in Nat,
           BeginAllocation(op, ptr, n)
    PROVE  BackedInv'
<1>1. \A b \in DOMAIN hdr : b >= heap_first /\ hdr[b].size \in Nat
  BY DEF IInv, TypeOK, heap_first
<1> QED
  BY <1>1 DEF BackedInv, BeginAllocation, Fits, CanGrow

\* A call that has to grow the heap grows it by pages the allocator has.
LEMMA ExpandIsBacked ==
    ASSUME IInv, BackedInv, EnoughMemory, Expand
    PROVE  BackedInv'
<1> DEFINE n == Growth(size) \div PAGE_SIZE
<1>1. /\ pc = "scan" /\ ~Fits(current) /\ hdr[current].next = NULL
      /\ MapPages(heap_current_size, n) /\ pc' = "find_last"
  BY DEF Expand
<1>2. current \in DOMAIN hdr /\ current \in Nat
  BY <1>1 DEF IInv, TypeOK
<1>3. ASSUME NEW b \in DOMAIN hdr, b >= current, Fits(b)
      PROVE  FALSE
  <2>1. b <= current /\ b \in Nat
    BY <1>1, <1>2, LastBlock DEF IInv, TypeOK
  <2> QED
    BY <1>1, <1>2, <1>3, <2>1
<1>4. expansions = 0
  BY <1>1, <1>3 DEF IInv, OnceInv
<1>5. CanGrow(Growth(size))
  BY <1>1, <1>3, <1>4 DEF BackedInv
<1>6. size \in Nat /\ frames \in Nat /\ heap_current_size \in Nat /\ n \in Nat
  BY GrowthPages DEF IInv, TypeOK
<1>7. FramesNeeded(heap_current_size \div PAGE_SIZE, n) <= frames
  BY <1>5 DEF CanGrow
<1>8. unbacked' = {}
  BY <1>1, <1>6, <1>7, EnoughPages DEF BackedInv
<1> QED
  BY <1>1, <1>8 DEF BackedInv

LEMMA BackedStep == IInv /\ BackedInv /\ [Next]_vars => BackedInv'
<1> SUFFICES ASSUME IInv, BackedInv, EnoughMemory, [Next]_vars
             PROVE  BackedInv'
  BY DEF BackedInv
<1>1. CASE HeapInit
  <2> DEFINE n == PagesFor(HEAP_INITIAL_SIZE)
  <2>1. n \in Nat
    BY RoundUp, Sizes DEF PagesFor
  <2>2. FramesNeeded(0, n) <= frames /\ MapPages(0, n) /\ pc' = "idle"
    BY <1>1 DEF HeapInit
  <2>3. unbacked' = {}
    <3>1. frames \in Nat /\ unbacked = {} /\ 0 \div PAGE_SIZE = 0
      BY Sizes DEF IInv, TypeOK, BackedInv
    <3> HIDE DEF n
    <3> QED
      BY <2>1, <2>2, <3>1, EnoughPages
  <2> QED
    BY <2>2, <2>3 DEF BackedInv
<1>2. ASSUME NEW n \in Requests, Kmalloc(n)
      PROVE  BackedInv'
  BY <1>2, BeginIsBacked, RequestsAssumption DEF Kmalloc
<1>3. ASSUME NEW total \in CallocTotals, Kcalloc(total)
      PROVE  BackedInv'
  BY <1>3, BeginIsBacked, RequestsAssumption DEF Kcalloc
<1>4. ASSUME NEW o \in live, NEW n \in Requests, Krealloc(o, n)
      PROVE  BackedInv'
  <2>1. CASE BeginAllocation("krealloc", o.ptr, n)
    BY <1>4, <2>1, BeginIsBacked, RequestsAssumption DEF Krealloc
  <2>2. CASE UNCHANGED <<pc, unbacked>>
    BY <1>4, <2>2 DEF Krealloc, BackedInv
  <2> QED
    BY <1>4, <2>1, <2>2 DEF Krealloc
<1>5. CASE ScanNext
  <2>1. /\ pc = "scan" /\ ~Fits(current) /\ hdr[current].next # NULL
        /\ current' = hdr[current].next
        /\ UNCHANGED <<pc, hdr, heap_current_size, frames, unbacked, size, expansions>>
    BY <1>5 DEF ScanNext
  <2>2. current \in DOMAIN hdr \ {Unlinked}
    BY <2>1 DEF IInv, TypeOK, Unlinked, NULL
  <2>3. ASSUME NEW b \in DOMAIN hdr, b >= current, Fits(b)
        PROVE  b >= current'
    <3>1. b \in Nat /\ current \in Nat /\ current' \in Nat
      BY <2>1, <2>2, NextOnList DEF IInv, TypeOK
    <3>2. b < current' => b <= current
      BY <2>1, <2>2, NothingBetween
    <3> QED
      BY <2>1, <2>3, <3>1, <3>2
  <2> QED
    BY <2>1, <2>3 DEF BackedInv, Fits, CanGrow
<1>6. CASE Expand
  BY <1>6, ExpandIsBacked
<1>7. CASE Grown
  BY <1>7 DEF Grown, BackedInv, IInv, OnceInv
<1>8. CASE \/ \E o \in live : Kfree(o)
           \/ ScanFits \/ FindLast \/ Link \/ Merge \/ GrowMergeDone \/ FreeMergeBegin \/ FreeNext
  <2>1. unbacked' = unbacked /\ pc' # "scan"
    BY <1>8 DEF Kfree, BeginFree, ScanFits, FindLast, Link, Merge, GrowMergeDone,
                FreeMergeBegin, FreeNext
  <2> QED
    BY <2>1 DEF BackedInv
<1>9. CASE UNCHANGED vars
  BY <1>9 DEF vars, BackedInv, Fits, CanGrow
<1> QED
  BY <1>1, <1>2, <1>3, <1>4, <1>5, <1>6, <1>7, <1>8, <1>9 DEF Next, Call, Run

\* If the allocator has what the calls' growth takes, tables included, every page
\* of the heap is mapped to a frame of its own: kmalloc never grows by more than it
\* has been shown to need, and never when a block ahead would serve.
THEOREM EveryPageBacked == Spec => [](EnoughMemory => HeapIsBacked)
<1>1. Init => BackedInv
  BY DEF Init, BackedInv
<1>2. BackedInv => (EnoughMemory => HeapIsBacked)
  BY DEF BackedInv, HeapIsBacked
<1> QED
  BY <1>1, <1>2, BackedStep, Invariance, PTL DEF Spec

-----------------------------------------------------------------------------
(* What objects contain *)

Whole(n) == n % WORD = 0

\* Callers of kcalloc ask for whole words.
WholeTotals == \A total \in CallocTotals : Whole(total)

\* Every block has a whole number of words, whatever was asked for.
WordsInv == Whole(size) /\ \A a \in DOMAIN hdr : Whole(hdr[a].size)

ContentsInv ==
    WholeTotals =>
        /\ ContentsAsPromised
        /\ pc \in {"scan", "find_last", "grow_merge", "grown"} /\ call.op = "kcalloc"
               => Whole(call.n)

LEMMA WholeIff ==
    \A n \in Int : Whole(n) <=> \E k \in Int : n = k * WORD
<1> SUFFICES ASSUME NEW n \in Int
             PROVE  Whole(n) <=> \E k \in Int : n = k * WORD
  OBVIOUS
<1> DEFINE q == n \div WORD
           r == n % WORD
<1>1. WORD \in Nat \ {0}
  BY Sizes
<1>2. q \in Int /\ r \in 0 .. WORD - 1 /\ n = q * WORD + r
  BY <1>1
<1> HIDE DEF q, r
<1>3. ASSUME NEW k \in Int, n = k * WORD
      PROVE  r = 0
  <2>1. (k - q) * WORD = r
    BY <1>1, <1>2, <1>3
  <2>2. k - q \in Int
    BY <1>2
  <2>3. CASE k - q >= 1
    <3>1. (k - q) * WORD >= WORD
      BY <2>2, <2>3, <1>1
    <3> QED
      BY <3>1, <2>1, <1>1, <1>2
  <2>4. CASE k - q <= -1
    <3>1. (k - q) * WORD <= -WORD
      BY <2>2, <2>4, <1>1
    <3> QED
      BY <3>1, <2>1, <1>1, <1>2
  <2>5. CASE k - q = 0
    BY <2>1, <2>5, <1>1
  <2> QED
    BY <2>2, <2>3, <2>4, <2>5
<1>4. ASSUME r = 0
      PROVE  \E k \in Int : n = k * WORD
  <2>1. n = q * WORD
    BY <1>1, <1>2, <1>4
  <2> QED
    BY <2>1, <1>2
<1> QED
  BY <1>3, <1>4 DEF Whole, r

LEMMA WholeSum ==
    \A m, n \in Int : Whole(m) /\ Whole(n) => Whole(m + n) /\ Whole(m - n)
<1> SUFFICES ASSUME NEW m \in Int, NEW n \in Int, Whole(m), Whole(n)
             PROVE  Whole(m + n) /\ Whole(m - n)
  OBVIOUS
<1>1. PICK j \in Int : m = j * WORD
  BY WholeIff
<1>2. PICK k \in Int : n = k * WORD
  BY WholeIff
<1>3. WORD \in Int
  BY Sizes
<1>4. m + n = (j + k) * WORD /\ m - n = (j - k) * WORD
  BY <1>1, <1>2, <1>3
<1>5. j + k \in Int /\ j - k \in Int /\ m + n \in Int /\ m - n \in Int
  OBVIOUS
<1> HIDE <1>1, <1>2
<1> QED
  BY <1>4, <1>5, WholeIff

\* The constants, and what the allocator computes from them, are whole words.
LEMMA WholeSizes ==
    /\ Whole(0) /\ Whole(BLOCK_SIZE) /\ Whole(HEAP_INITIAL_SIZE)
    /\ \A n \in Nat : Whole(ALIGN(n)) /\ Whole(Growth(n))
<1>0. WORD \in Nat \ {0} /\ PAGE_SIZE \in Nat \ {0} /\ HEAP_INITIAL_SIZE \in Nat
  BY Sizes
<1>1. PICK w \in Int : PAGE_SIZE = w * WORD
  <2>1. Whole(PAGE_SIZE)
    BY SizesAssumption DEF Whole
  <2> QED
    BY <2>1, <1>0, WholeIff
<1>2. ASSUME NEW m \in Int
      PROVE  Whole(m * PAGE_SIZE)
  <2>1. m * PAGE_SIZE = (m * w) * WORD
    BY <1>0, <1>1
  <2>2. m * w \in Int /\ m * PAGE_SIZE \in Int
    BY <1>0
  <2> QED
    BY <2>1, <2>2, WholeIff
<1>3. Whole(HEAP_INITIAL_SIZE)
  <2> DEFINE m == HEAP_INITIAL_SIZE \div PAGE_SIZE
  <2>1. m \in Int /\ HEAP_INITIAL_SIZE = m * PAGE_SIZE
    BY <1>0, SizesAssumption
  <2> HIDE DEF m
  <2> QED
    BY <2>1, <1>2
<1>4. Whole(0) /\ Whole(BLOCK_SIZE)
  BY <1>0, SizesAssumption DEF Whole
<1>5. ASSUME NEW n \in Nat
      PROVE  Whole(ALIGN(n))
  <2> DEFINE m == (n + WORD - 1) \div WORD
  <2>1. m \in Nat /\ m * WORD \in Nat
    BY <1>0, RoundUp
  <2> HIDE DEF m
  <2>2. Whole(m * WORD)
    BY <2>1, WholeIff
  <2> QED
    BY <2>2 DEF m, ALIGN
<1>6. ASSUME NEW n \in Nat
      PROVE  Whole(Growth(n))
  <2>1. n + BLOCK_SIZE + PAGE_SIZE \in Nat
    BY Sizes
  <2>2. PagesFor(n + BLOCK_SIZE + PAGE_SIZE) \in Int
    BY <2>1, <1>0, RoundUp DEF PagesFor
  <2> QED
    BY <2>2, <1>2 DEF Growth
<1> QED
  BY <1>3, <1>4, <1>5, <1>6

LEMMA MarkKeepsSizes ==
    ASSUME NEW h, NEW e \in Nat, NEW u, Tiles(h, e, u), NEW b \in DOMAIN h,
           NEW g, g = [h EXCEPT ![b].free = TRUE]
    PROVE  DOMAIN g = DOMAIN h /\ \A a \in DOMAIN h : g[a].size = h[a].size
BY DEF Tiles, Header

\* A block that is taken, and what it leaves, are whole words.
LEMMA TakeKeepsWords ==
    ASSUME IInv, WordsInv, pc = "scan", Fits(current)
    PROVE  \A a \in DOMAIN SplitAndTake(current) : Whole(SplitAndTake(current)[a].size)
<1> DEFINE g == SplitAndTake(current)
           rest == current + BLOCK_SIZE + size
<1>0. /\ current \in DOMAIN hdr /\ current \in Nat /\ size \in Nat
      /\ hdr[current] \in Header /\ hdr[current].size \in Nat
      /\ BLOCK_SIZE \in Nat \ {0}
  BY TakeFacts, Sizes DEF IInv, TypeOK, Header
<1>1. CASE hdr[current].size >= size + BLOCK_SIZE + WORD
  <2>1. g = Split(current, size, FALSE)
    BY <1>1 DEF SplitAndTake
  <2>2. Whole(hdr[current].size - size - BLOCK_SIZE)
    <3> DEFINE m == hdr[current].size
    <3>1. /\ Whole(m) /\ Whole(size) /\ Whole(BLOCK_SIZE)
          /\ m \in Int /\ size \in Int /\ BLOCK_SIZE \in Int
      BY <1>0, WholeSizes DEF WordsInv
    <3> HIDE DEF m
    <3>2. Whole(m - size) /\ m - size \in Int
      BY <3>1, WholeSum
    <3>3. Whole((m - size) - BLOCK_SIZE)
      BY <3>1, <3>2, WholeSum
    <3> QED
      BY <3>3 DEF m
  <2>3. ASSUME NEW a \in DOMAIN g
        PROVE  Whole(g[a].size)
    <3>1. CASE a = rest
      BY <3>1, <2>1, <2>2 DEF Split, Block
    <3>2. CASE a # rest /\ a = current
      BY <3>2, <2>1, <2>3 DEF Split, Block, WordsInv
    <3>3. CASE a # rest /\ a # current
      BY <3>3, <2>1, <2>3 DEF Split, WordsInv
    <3> QED
      BY <3>1, <3>2, <3>3
  <2> QED
    BY <2>3
<1>2. CASE ~(hdr[current].size >= size + BLOCK_SIZE + WORD)
  <2>1. g = [hdr EXCEPT ![current].free = FALSE]
    BY <1>2 DEF SplitAndTake
  <2>2. DOMAIN g = DOMAIN hdr /\ \A a \in DOMAIN hdr : g[a].size = hdr[a].size
    BY <2>1, <1>0 DEF Header
  <2> HIDE DEF g
  <2>3. \A a \in DOMAIN g : Whole(g[a].size)
    BY <2>2 DEF WordsInv
  <2> QED
    BY <2>3 DEF g
<1> QED
  BY <1>1, <1>2

\* Growing, splitting and merging the blocks keeps them whole words.
LEMMA WordsStep == IInv /\ IInv' /\ WordsInv /\ [Next]_vars => WordsInv'
<1> SUFFICES ASSUME IInv, IInv', WordsInv, [Next]_vars
             PROVE  WordsInv'
  OBVIOUS
<1>0. BLOCK_SIZE \in Nat /\ HEAP_INITIAL_SIZE \in Nat /\ size \in Nat
  BY Sizes DEF IInv, TypeOK
<1>1. CASE HeapInit
  <2>1. Whole(HEAP_INITIAL_SIZE - BLOCK_SIZE)
    BY <1>0, WholeSum, WholeSizes
  <2> QED
    BY <1>1, <2>1 DEF HeapInit, Block, WordsInv
<1>2. ASSUME NEW n \in Requests, Kmalloc(n)
      PROVE  WordsInv'
  BY <1>2, WholeSizes, RequestsAssumption DEF Kmalloc, BeginAllocation, WordsInv
<1>3. ASSUME NEW total \in CallocTotals, Kcalloc(total)
      PROVE  WordsInv'
  BY <1>3, WholeSizes, RequestsAssumption DEF Kcalloc, BeginAllocation, WordsInv
<1>4. ASSUME NEW o \in live, Kfree(o)
      PROVE  WordsInv'
  <2>1. Tiles(hdr, heap_current_size, NULL) /\ heap_current_size \in Nat
    BY <1>4 DEF Kfree, IInv, TilingInv, ListEnd, Unlinked, TypeOK
  <2>2. o.ptr - BLOCK_SIZE \in DOMAIN hdr
    BY DEF IInv, ObjectsHaveBlocks
  <2>3. hdr' = [hdr EXCEPT ![o.ptr - BLOCK_SIZE].free = TRUE] /\ size' = size
    BY <1>4 DEF Kfree, BeginFree
  <2>4. DOMAIN hdr' = DOMAIN hdr /\ \A a \in DOMAIN hdr : hdr'[a].size = hdr[a].size
    BY <2>1, <2>2, <2>3, MarkKeepsSizes
  <2> QED
    BY <2>3, <2>4 DEF WordsInv
<1>5. ASSUME NEW o \in live, NEW n \in Requests, Krealloc(o, n)
      PROVE  WordsInv'
  BY <1>5, WholeSizes, RequestsAssumption DEF Krealloc, BeginAllocation, WordsInv
<1>6. CASE ScanFits
  <2> DEFINE g == SplitAndTake(current)
  <2>1. pc = "scan" /\ Fits(current) /\ size' = 0
    BY <1>6 DEF ScanFits
  <2>2. \A a \in DOMAIN g : Whole(g[a].size)
    BY <2>1, TakeKeepsWords
  <2>3. CASE call.op = "krealloc"
    <3>1. Tiles(g, heap_current_size, NULL) /\ DOMAIN hdr \subseteq DOMAIN g
      BY <2>1, TakeFacts
    <3>2. heap_current_size \in Nat /\ call.ptr - BLOCK_SIZE \in DOMAIN g
      BY <2>1, <2>3, <3>1 DEF IInv, TypeOK, CallInv, ObjectsHaveBlocks
    <3>3. hdr' = [g EXCEPT ![call.ptr - BLOCK_SIZE].free = TRUE]
      BY <1>6, <2>3 DEF ScanFits, BeginFree
    <3> HIDE DEF g
    <3>4. DOMAIN hdr' = DOMAIN g /\ \A a \in DOMAIN g : hdr'[a].size = g[a].size
      BY <3>1, <3>2, <3>3, MarkKeepsSizes
    <3> QED
      BY <2>1, <2>2, <3>4, WholeSizes DEF WordsInv
  <2>4. CASE call.op # "krealloc"
    <3>1. hdr' = g
      BY <1>6, <2>4 DEF ScanFits
    <3> QED
      BY <2>1, <2>2, <3>1, WholeSizes DEF WordsInv
  <2> QED
    BY <2>3, <2>4
<1>7. CASE Expand
  <2>1. Whole(Growth(size) - BLOCK_SIZE)
    BY <1>0, WholeSum, WholeSizes, GrowthFacts
  <2>2. /\ size' = size
        /\ hdr' = [a \in DOMAIN hdr \cup {heap_current_size} |->
                     IF a = heap_current_size
                       THEN Block(Growth(size) - BLOCK_SIZE, TRUE, NULL)
                       ELSE hdr[a]]
    BY <1>7 DEF Expand
  <2> QED
    BY <2>1, <2>2 DEF Block, WordsInv
<1>8. CASE Link
  <2>1. hdr' = [hdr EXCEPT ![current].next = heap_current_size] /\ size' = size
    BY <1>8 DEF Link
  <2>2. \A a \in DOMAIN hdr : hdr[a] \in Header
    BY DEF IInv, TypeOK, Header
  <2>3. DOMAIN hdr' = DOMAIN hdr /\ \A a \in DOMAIN hdr : hdr'[a].size = hdr[a].size
    BY <2>1, <2>2 DEF Header
  <2> QED
    BY <2>1, <2>3 DEF WordsInv
<1>9. CASE Merge
  <2> DEFINE nxt == hdr[current].next
  <2>1. /\ size' = size
        /\ hdr' = Absorb(current, BLOCK_SIZE + hdr[nxt].size)
        /\ pc \in {"grow_merge", "free_merge"} /\ nxt # NULL
    BY <1>9 DEF Merge, NextIsFree
  <2>2. current \in DOMAIN hdr \ {Unlinked}
    BY <2>1 DEF IInv, TypeOK, Unlinked, NULL
  <2>3. nxt \in DOMAIN hdr
    BY <2>1, <2>2, NextOnList
  <2>4. hdr[current].size \in Nat /\ hdr[nxt].size \in Nat
    BY <2>2, <2>3 DEF IInv, TypeOK
  <2>5. Whole(hdr[current].size + (BLOCK_SIZE + hdr[nxt].size))
    <3> DEFINE m == hdr[current].size
               n == hdr[nxt].size
    <3>1. /\ Whole(m) /\ Whole(n) /\ Whole(BLOCK_SIZE)
          /\ m \in Int /\ n \in Int /\ BLOCK_SIZE \in Int
      BY <1>0, <2>2, <2>3, <2>4, WholeSizes DEF WordsInv
    <3> HIDE DEF m, n
    <3>2. Whole(BLOCK_SIZE + n) /\ BLOCK_SIZE + n \in Int
      BY <3>1, WholeSum
    <3>3. Whole(m + (BLOCK_SIZE + n))
      BY <3>1, <3>2, WholeSum
    <3> QED
      BY <3>3 DEF m, n
  <2> QED
    BY <2>1, <2>5 DEF Absorb, Block, WordsInv
<1>10. CASE ScanNext \/ FindLast \/ Grown \/ GrowMergeDone \/ FreeMergeBegin \/ FreeNext
  BY <1>10 DEF ScanNext, FindLast, Grown, GrowMergeDone, FreeMergeBegin, FreeNext, WordsInv
<1>11. CASE UNCHANGED vars
  BY <1>11 DEF vars, WordsInv
<1> QED
  BY <1>1, <1>2, <1>3, <1>4, <1>5, <1>6, <1>7, <1>8, <1>9, <1>10, <1>11 DEF Next, Call, Run

\* What a new object contains: all that kcalloc or krealloc promise.
LEMMA NewObjectIsGood ==
    ASSUME IInv, WordsInv, ContentsInv, WholeTotals, pc = "scan", Fits(current)
    PROVE  NewObject.good >= NewObject.size
<1>1. call.op \in {"kmalloc", "kcalloc", "krealloc"} /\ call.n \in Nat
  BY DEF IInv, TypeOK, CallInv
<1>2. \A n \in Nat : Whole(n) => (n \div WORD) * WORD = n
  <2> SUFFICES ASSUME NEW n \in Nat, Whole(n)
               PROVE  (n \div WORD) * WORD = n
    OBVIOUS
  <2>1. n % WORD = 0 /\ WORD \in Nat \ {0}
    BY Sizes DEF Whole
  <2>2. n = WORD * (n \div WORD) + (n % WORD) /\ n \div WORD \in Int
    BY <2>1
  <2> QED
    BY <2>1, <2>2
<1>3. Good = call.n
  <2>1. CASE call.op = "kmalloc"
    BY <2>1 DEF Good
  <2>2. CASE call.op = "kcalloc"
    <3>1. (call.n \div WORD) * WORD = call.n
      BY <2>2, <1>1, <1>2 DEF ContentsInv
    <3> QED
      BY <2>2, <3>1 DEF Good
  <2>3. CASE call.op = "krealloc"
    <3> DEFINE b == call.ptr - BLOCK_SIZE
    <3>1. PICK o \in live : o.ptr = call.ptr
      BY <2>3 DEF IInv, CallInv
    <3>2. b \in DOMAIN hdr /\ hdr[b].size >= o.size /\ hdr[b].size \in Nat
      BY <3>1 DEF IInv, TypeOK, ObjectsHaveBlocks
    <3>3. Copied = hdr[b].size
      BY <3>2, <1>2 DEF Copied, WordsInv
    <3>4. o.size <= Copied
      BY <3>2, <3>3 DEF IInv, TypeOK
    <3> QED
      BY <2>3, <3>1, <3>4 DEF Good
  <2> QED
    BY <2>1, <2>2, <2>3, <1>1
<1> QED
  BY <1>1, <1>3 DEF NewObject

LEMMA ContentsStep == IInv /\ WordsInv /\ ContentsInv /\ [Next]_vars => ContentsInv'
<1> SUFFICES ASSUME IInv, WordsInv, ContentsInv, WholeTotals, [Next]_vars
             PROVE  ContentsInv'
  BY DEF ContentsInv
<1> DEFINE Allocating == pc \in {"scan", "find_last", "grow_merge", "grown"}
           Calloced == Allocating /\ call.op = "kcalloc" => Whole(call.n)
<1>1. ContentsAsPromised /\ Calloced
  BY DEF ContentsInv
<1>2. CASE HeapInit
  BY <1>1, <1>2 DEF HeapInit, ContentsInv, ContentsAsPromised
<1>3. ASSUME NEW n \in Requests, Kmalloc(n)
      PROVE  ContentsInv'
  BY <1>1, <1>3 DEF Kmalloc, BeginAllocation, ContentsInv, ContentsAsPromised
<1>4. ASSUME NEW total \in CallocTotals, Kcalloc(total)
      PROVE  ContentsInv'
  <2>1. Whole(total)
    BY DEF WholeTotals
  <2> QED
    BY <1>1, <1>4, <2>1 DEF Kcalloc, BeginAllocation, ContentsInv, ContentsAsPromised
<1>5. ASSUME NEW o \in live, Kfree(o)
      PROVE  ContentsInv'
  BY <1>1, <1>5 DEF Kfree, BeginFree, ContentsInv, ContentsAsPromised
<1>6. ASSUME NEW o \in live, NEW n \in Requests, Krealloc(o, n)
      PROVE  ContentsInv'
  <2> DEFINE new == [ptr |-> o.ptr, size |-> n, good |-> n]
  <2>1. CASE UNCHANGED <<pc, call>> /\ live' = (live \ {o}) \cup {new}
    <3>1. n \in Nat /\ new.good >= new.size
      BY RequestsAssumption
    <3> HIDE DEF new
    <3> QED
      BY <1>1, <2>1, <3>1 DEF ContentsInv, ContentsAsPromised
  <2>2. CASE BeginAllocation("krealloc", o.ptr, n)
    BY <1>1, <2>2 DEF BeginAllocation, ContentsInv, ContentsAsPromised
  <2> QED
    BY <1>6, <2>1, <2>2 DEF Krealloc
<1>7. CASE ScanFits
  <2>1. pc = "scan" /\ Fits(current)
    BY <1>7 DEF ScanFits
  <2>2. NewObject.good >= NewObject.size
    BY <2>1, NewObjectIsGood
  <2>3. live' \subseteq live \cup {NewObject} /\ pc' \in {"idle", "free_scan"}
    BY <1>7 DEF ScanFits, BeginFree
  <2> QED
    BY <1>1, <2>2, <2>3 DEF ContentsInv, ContentsAsPromised
<1>8. CASE Run /\ ~ScanFits
  <2>1. live' = live /\ call' = call
    BY <1>8 DEF Run, ScanNext, Expand, FindLast, Link, Grown, Merge, GrowMergeDone,
                FreeMergeBegin, FreeNext
  <2>2. Allocating' => Allocating
    BY <1>8 DEF Run, ScanNext, Expand, FindLast, Link, Grown, Merge, GrowMergeDone,
                FreeMergeBegin, FreeNext
  <2> QED
    BY <1>1, <2>1, <2>2 DEF ContentsInv, ContentsAsPromised
<1>9. CASE UNCHANGED vars
  BY <1>1, <1>9 DEF vars, ContentsInv, ContentsAsPromised
<1> QED
  BY <1>2, <1>3, <1>4, <1>5, <1>6, <1>7, <1>8, <1>9 DEF Next, Call

\* If callers ask kcalloc for whole words, every byte that kcalloc returns is zero
\* and every byte that krealloc returns is the old object's, however the heap is
\* split, merged and grown.  (kcalloc's zeroing loop stops a word short otherwise.)
THEOREM ContentsKept == Spec => [](WholeTotals => ContentsAsPromised)
<1>1. Init => WordsInv /\ ContentsInv
  BY WholeSizes DEF Init, WordsInv, ContentsInv, ContentsAsPromised
<1>2. IInv /\ IInv' /\ (WordsInv /\ ContentsInv) /\ [Next]_vars => (WordsInv /\ ContentsInv)'
  BY WordsStep, ContentsStep
<1>3. ContentsInv => (WholeTotals => ContentsAsPromised)
  BY DEF ContentsInv
<1> QED
  BY <1>1, <1>2, <1>3, Invariance, PTL DEF Spec

=============================================================================
