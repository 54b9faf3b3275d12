-------------------------------- MODULE Heap --------------------------------
(***************************************************************************)
(* The kernel heap (heap.c): a singly linked list of blocks, each a header *)
(* followed by its payload, that covers the heap's address range.  kmalloc *)
(* takes the first free block that is large enough, splits it, and grows   *)
(* the heap when there is none; kfree merges neighbouring free blocks.     *)
(*                                                                         *)
(* Addresses are byte offsets from HEAP_START.  Each iteration of a loop   *)
(* of the code is a step.  Nothing interleaves with a call (no interrupt   *)
(* handler uses the heap), and callers are those of the interface: they    *)
(* free and resize live objects and write within them, so a header's magic *)
(* number is intact, and a pointer that kfree is given is good.            *)
(***************************************************************************)
EXTENDS Integers, FiniteSets

CONSTANTS WORD,              \* 8, the alignment
          BLOCK_SIZE,        \* 32, the size of a header
          PAGE_SIZE,         \* 4096
          HEAP_INITIAL_SIZE,
          Requests,          \* the sizes callers ask kmalloc and krealloc for
          CallocTotals,      \* the values of num * size callers ask kcalloc for
          TABLE,             \* 512, the pages or tables under a page table
          Frames,            \* how many pages the page allocator has
          MaxLive,           \* bound: objects that callers keep at a time
          EnoughMemory       \* bound: no call is made that would need more pages

ASSUME SizesAssumption ==
    /\ WORD \in Nat \ {0} /\ BLOCK_SIZE \in Nat \ {0} /\ PAGE_SIZE \in Nat \ {0}
    /\ BLOCK_SIZE % WORD = 0 /\ PAGE_SIZE % WORD = 0
    /\ HEAP_INITIAL_SIZE \in Nat
    /\ HEAP_INITIAL_SIZE >= BLOCK_SIZE + WORD /\ HEAP_INITIAL_SIZE % PAGE_SIZE = 0
    /\ TABLE \in Nat \ {0} /\ Frames \in Nat /\ MaxLive \in Nat /\ EnoughMemory \in BOOLEAN

ASSUME RequestsAssumption == Requests \subseteq Nat /\ CallocTotals \subseteq Nat

NULL == -1          \* no address
heap_first == 0     \* the block at HEAP_START

VARIABLES
    pc,                  \* where the running call is; "idle" between calls
    hdr,                 \* the headers: address -> size, free, next
    heap_current_size,
    frames,              \* pages the page allocator has left
    unbacked,            \* heap pages that are not mapped to a page of their own
    call,                \* the running call: operation, object, bytes asked for
    size,                \* kmalloc's argument, aligned; these four are reset
    current,             \* the loops' block             when they are dead
    new_size,            \* bytes being added to the heap
    expansions,          \* how often the running call has grown the heap
    live                 \* the callers' objects

vars == <<pc, hdr, heap_current_size, frames, unbacked, call, size, current,
          new_size, expansions, live>>

\* A bug: sizes are rounded down.
AlignDown(n) == (n \div WORD) * WORD

ALIGN(n) == ((n + WORD - 1) \div WORD) * WORD
PagesFor(n) == (n + PAGE_SIZE - 1) \div PAGE_SIZE

\* A bug: no room for the header.
GrowthWithoutHeader(n) == PagesFor(n) * PAGE_SIZE

\* What kmalloc adds to the heap for a request of n aligned bytes.
Growth(n) == PagesFor(n + BLOCK_SIZE + PAGE_SIZE) * PAGE_SIZE

NoCall == [op |-> "none", ptr |-> NULL, n |-> 0]
Block(n, f, nxt) == [size |-> n, free |-> f, next |-> nxt]

\* What paging_map_page has taken for page tables when the heap's first p pages
\* are mapped: HEAP_START begins a table of every level, and nothing else is
\* mapped near it.
TablesOver(p, span) == (p + span - 1) \div span
TablesFor(p) ==
    TablesOver(p, TABLE) + TablesOver(p, TABLE * TABLE) + TablesOver(p, TABLE * TABLE * TABLE)

\* The frames that n heap pages behind the first p cost, with their tables.
FramesNeeded(p, n) == n + TablesFor(p + n) - TablesFor(p)

\* A bug: the loop maps a page too many.
MapOneMore(a, n) ==
    LET first == a \div PAGE_SIZE IN
    /\ frames' = IF FramesNeeded(first, n + 1) <= frames
                   THEN frames - FramesNeeded(first, n + 1) ELSE 0
    /\ unbacked' = unbacked \cup
           {a + k * PAGE_SIZE : k \in {j \in 0 .. n : FramesNeeded(first, j + 1) > frames}}

\* Map n heap pages from address a on, each to a frame, through tables that are
\* made when they are first needed.  Neither pmm_alloc_page's NULL nor what
\* paging_map_page returns is looked at: without a frame for it a page is mapped
\* to page frame 0, and without one for a table it is not mapped at all.
MapPages(a, n) ==
    LET first == a \div PAGE_SIZE IN
    /\ frames' = IF FramesNeeded(first, n) <= frames
                   THEN frames - FramesNeeded(first, n) ELSE 0
    /\ unbacked' = unbacked \cup
           {a + k * PAGE_SIZE : k \in {j \in 0 .. n - 1 : FramesNeeded(first, j + 1) > frames}}

Init ==
    /\ pc = "init"
    /\ hdr = [a \in {} |-> NULL]
    /\ heap_current_size = 0
    /\ frames = Frames /\ unbacked = {}
    /\ call = NoCall /\ size = 0 /\ current = NULL /\ new_size = 0
    /\ expansions = 0
    /\ live = {}

HeapInit ==
    /\ pc = "init"
    /\ EnoughMemory => FramesNeeded(0, PagesFor(HEAP_INITIAL_SIZE)) <= frames
    /\ MapPages(0, PagesFor(HEAP_INITIAL_SIZE))
    /\ hdr' = [a \in {heap_first} |-> Block(HEAP_INITIAL_SIZE - BLOCK_SIZE, TRUE, NULL)]
    /\ heap_current_size' = HEAP_INITIAL_SIZE
    /\ pc' = "idle"
    /\ UNCHANGED <<call, size, current, new_size, expansions, live>>

-----------------------------------------------------------------------------
(* Calls.  What happens once a page is not mapped, or shares frame 0 with     *)
(* another, is not modelled: an access may fault, or change other headers.    *)

Usable == unbacked = {}

\* The page allocator has what the heap's growth by n bytes takes.
CanGrow(n) == FramesNeeded(heap_current_size \div PAGE_SIZE, n \div PAGE_SIZE) <= frames

\* kmalloc of n > 0 bytes begins, on its own or inside kcalloc or krealloc.
BeginAllocation(op, ptr, n) ==
    /\ EnoughMemory => \/ CanGrow(Growth(ALIGN(n)))
                       \/ \E b \in DOMAIN hdr : hdr[b].free /\ hdr[b].size >= ALIGN(n)
    /\ call' = [op |-> op, ptr |-> ptr, n |-> n]
    /\ size' = ALIGN(n)
    /\ current' = heap_first
    /\ pc' = "scan"
    /\ UNCHANGED <<hdr, heap_current_size, frames, unbacked, new_size, expansions, live>>

\* A request of no bytes returns NULL and changes nothing: it is no step.
Kmalloc(n) ==
    /\ pc = "idle" /\ Usable /\ n > 0
    /\ Cardinality(live) < MaxLive
    /\ BeginAllocation("kmalloc", NULL, n)

Kcalloc(total) ==
    /\ pc = "idle" /\ Usable /\ total > 0
    /\ Cardinality(live) < MaxLive
    /\ BeginAllocation("kcalloc", NULL, total)

\* A bug: the walk begins at the freed block.
BeginFreeHere(block, marked) ==
    /\ hdr' = [marked EXCEPT ![block].free = TRUE]
    /\ current' = block
    /\ pc' = "free_scan"

\* kfree: mark the block, then walk the list from its first block.
BeginFree(block, marked) ==
    /\ hdr' = [marked EXCEPT ![block].free = TRUE]
    /\ current' = heap_first
    /\ pc' = "free_scan"

Kfree(o) ==
    /\ pc = "idle" /\ Usable
    /\ BeginFree(o.ptr - BLOCK_SIZE, hdr)
    /\ live' = live \ {o}
    /\ UNCHANGED <<heap_current_size, frames, unbacked, call, size, new_size,
                   expansions>>

\* krealloc(ptr, 0) is kfree and krealloc(NULL, n) is kmalloc: the rest.
Krealloc(o, n) ==
    /\ pc = "idle" /\ Usable /\ n > 0
    /\ \/ /\ hdr[o.ptr - BLOCK_SIZE].size >= n
          /\ live' = (live \ {o}) \cup {[ptr |-> o.ptr, size |-> n, good |-> n]}
          /\ UNCHANGED <<pc, hdr, heap_current_size, frames, unbacked, call, size,
                         current, new_size, expansions>>
       \/ /\ hdr[o.ptr - BLOCK_SIZE].size < n
          /\ BeginAllocation("krealloc", o.ptr, n)

-----------------------------------------------------------------------------
(* kmalloc: look for a block *)

Fits(b) == hdr[b].free /\ hdr[b].size >= size

\* hdr when split_block cuts n bytes off block b: b is followed by a free rest.
Split(b, n, b_free) ==
    LET rest == b + BLOCK_SIZE + n
    IN  [a \in DOMAIN hdr \cup {rest} |->
           IF a = rest THEN Block(hdr[b].size - n - BLOCK_SIZE, TRUE, hdr[b].next)
           ELSE IF a = b THEN Block(n, b_free, rest)
           ELSE hdr[a]]

\* Two bugs: a block is split that has no room for the rest; the block is not
\* marked as used.
SplitAnyway(b) == Split(b, size, FALSE)
TakeUnmarked(b) == IF hdr[b].size >= size + BLOCK_SIZE + WORD THEN Split(b, size, TRUE)
                                                              ELSE hdr

\* Split the block if the rest can hold anything, and mark it as used.
SplitAndTake(b) ==
    IF hdr[b].size >= size + BLOCK_SIZE + WORD
      THEN Split(b, size, FALSE)
      ELSE [hdr EXCEPT ![b].free = FALSE]

\* A bug: krealloc's copy loop stops a word too soon.
CopiedButOne == (hdr[call.ptr - BLOCK_SIZE].size \div WORD - 1) * WORD

\* What krealloc copies: the old block's whole words.
Copied == (hdr[call.ptr - BLOCK_SIZE].size \div WORD) * WORD

\* The bytes whose contents are as the operation says: nothing is said of
\* kmalloc's, kcalloc zeroes whole words, krealloc keeps what it copies.
Good ==
    CASE call.op = "kmalloc"  -> call.n
      [] call.op = "kcalloc"  -> (call.n \div WORD) * WORD
      [] call.op = "krealloc" ->
             IF \E o \in live : o.ptr = call.ptr /\ o.size <= Copied
               THEN call.n ELSE Copied

NewObject == [ptr |-> current + BLOCK_SIZE, size |-> call.n, good |-> Good]

\* The block is found; kmalloc and kcalloc return it, krealloc goes on to free
\* the old one.
ScanFits ==
    /\ pc = "scan"
    /\ Fits(current)
    /\ IF call.op = "krealloc"
         THEN /\ BeginFree(call.ptr - BLOCK_SIZE, SplitAndTake(current))
              /\ live' = {o \in live : o.ptr # call.ptr} \cup {NewObject}
         ELSE /\ hdr' = SplitAndTake(current)
              /\ live' = live \cup {NewObject}
              /\ pc' = "idle"
              /\ current' = NULL
    /\ call' = NoCall /\ size' = 0 /\ expansions' = 0
    /\ UNCHANGED <<heap_current_size, frames, unbacked, new_size>>

ScanNext ==
    /\ pc = "scan"
    /\ ~Fits(current)
    /\ hdr[current].next # NULL
    /\ current' = hdr[current].next
    /\ UNCHANGED <<pc, hdr, heap_current_size, frames, unbacked, call, size,
                   new_size, expansions, live>>

-----------------------------------------------------------------------------
(* kmalloc: grow the heap *)

\* No block fits: map pages behind the heap and make one free block of them,
\* which is not on the list yet.
Expand ==
    /\ pc = "scan"
    /\ ~Fits(current)
    /\ hdr[current].next = NULL
    /\ new_size' = Growth(size)
    /\ MapPages(heap_current_size, Growth(size) \div PAGE_SIZE)
    /\ hdr' = [a \in DOMAIN hdr \cup {heap_current_size} |->
                 IF a = heap_current_size
                   THEN Block(Growth(size) - BLOCK_SIZE, TRUE, NULL)
                   ELSE hdr[a]]
    /\ current' = heap_first
    /\ pc' = "find_last"
    /\ expansions' = expansions + 1
    /\ UNCHANGED <<heap_current_size, call, size, live>>

FindLast ==
    /\ pc = "find_last" /\ Usable
    /\ hdr[current].next # NULL
    /\ current' = hdr[current].next
    /\ UNCHANGED <<pc, hdr, heap_current_size, frames, unbacked, call, size,
                   new_size, expansions, live>>

Link ==
    /\ pc = "find_last" /\ Usable
    /\ hdr[current].next = NULL
    /\ hdr' = [hdr EXCEPT ![current].next = heap_current_size]
    /\ pc' = IF hdr[current].free THEN "grow_merge" ELSE "grown"
    /\ UNCHANGED <<heap_current_size, frames, unbacked, call, size, current,
                   new_size, expansions, live>>

\* The size is brought up to date, and kmalloc calls itself.
Grown ==
    /\ pc = "grown"
    /\ heap_current_size' = heap_current_size + new_size
    /\ new_size' = 0
    /\ current' = heap_first
    /\ pc' = "scan"
    /\ UNCHANGED <<hdr, frames, unbacked, call, size, expansions, live>>

-----------------------------------------------------------------------------
(* merge_blocks, from kmalloc's growth and from kfree's walk *)

NextIsFree == hdr[current].next # NULL /\ hdr[hdr[current].next].free

\* hdr when the block after b becomes part of b, which gains n bytes.
Absorb(b, n) ==
    [a \in DOMAIN hdr \ {hdr[b].next} |->
       IF a = b THEN Block(hdr[b].size + n, hdr[b].free, hdr[hdr[b].next].next)
                ELSE hdr[a]]

\* A bug: the header of the absorbed block is lost.
MergePayloads ==
    /\ pc \in {"grow_merge", "free_merge"}
    /\ NextIsFree
    /\ hdr' = Absorb(current, hdr[hdr[current].next].size)
    /\ UNCHANGED <<pc, heap_current_size, frames, unbacked, call, size, current,
                   new_size, expansions, live>>

\* One iteration of merge_blocks: the next block becomes part of this one.
Merge ==
    /\ pc \in {"grow_merge", "free_merge"}
    /\ NextIsFree
    /\ hdr' = Absorb(current, BLOCK_SIZE + hdr[hdr[current].next].size)
    /\ UNCHANGED <<pc, heap_current_size, frames, unbacked, call, size, current,
                   new_size, expansions, live>>

GrowMergeDone ==
    /\ pc = "grow_merge"
    /\ ~NextIsFree
    /\ pc' = "grown"
    /\ UNCHANGED <<hdr, heap_current_size, frames, unbacked, call, size, current,
                   new_size, expansions, live>>

\* kfree's walk: a free block is merged with what follows it...
FreeMergeBegin ==
    /\ pc = "free_scan"
    /\ hdr[current].free
    /\ pc' = "free_merge"
    /\ UNCHANGED <<hdr, heap_current_size, frames, unbacked, call, size, current,
                   new_size, expansions, live>>

\* A bug: after each block the walk begins again.
FreeNextRestarts ==
    /\ \/ pc = "free_scan" /\ ~hdr[current].free
       \/ pc = "free_merge" /\ ~NextIsFree
    /\ IF hdr[current].next # NULL
         THEN pc' = "free_scan" /\ current' = heap_first
         ELSE pc' = "idle" /\ current' = NULL
    /\ UNCHANGED <<hdr, heap_current_size, frames, unbacked, call, size, new_size,
                   expansions, live>>

\* ... and the walk goes on to the next block, or is over.
FreeNext ==
    /\ \/ pc = "free_scan" /\ ~hdr[current].free
       \/ pc = "free_merge" /\ ~NextIsFree
    /\ IF hdr[current].next # NULL
         THEN pc' = "free_scan" /\ current' = hdr[current].next
         ELSE pc' = "idle" /\ current' = NULL
    /\ UNCHANGED <<hdr, heap_current_size, frames, unbacked, call, size, new_size,
                   expansions, live>>

-----------------------------------------------------------------------------

Call ==
    \/ \E n \in Requests : Kmalloc(n)
    \/ \E total \in CallocTotals : Kcalloc(total)
    \/ \E o \in live : Kfree(o)
    \/ \E o \in live, n \in Requests : Krealloc(o, n)

Run ==
    \/ ScanFits \/ ScanNext \/ Expand \/ FindLast \/ Link \/ Grown
    \/ Merge \/ GrowMergeDone \/ FreeMergeBegin \/ FreeNext

Next == HeapInit \/ Call \/ Run

\* A call that has begun runs: there is one processor, and it does not stop in
\* the middle of a function.  Nobody is obliged to call.
Spec == Init /\ [][Next]_vars /\ WF_vars(Run)

-----------------------------------------------------------------------------
(* Properties *)

TypeOK ==
    /\ pc \in {"init", "idle", "scan", "find_last", "grow_merge", "grown",
               "free_scan", "free_merge"}
    /\ heap_current_size \in Nat /\ frames \in Nat
    /\ unbacked \subseteq Nat
    /\ DOMAIN hdr \subseteq Nat
    /\ \A a \in DOMAIN hdr : hdr[a] \in [size : Nat, free : BOOLEAN, next : Nat \cup {NULL}]
    /\ call \in [op : {"none", "kmalloc", "kcalloc", "krealloc"},
                 ptr : Nat \cup {NULL}, n : Nat]
    /\ size \in Nat /\ new_size \in Nat /\ expansions \in Nat
    /\ current \in Nat \cup {NULL}
    /\ pc \notin {"init", "idle"} => current \in DOMAIN hdr
    /\ \A o \in live : o \in [ptr : Nat, size : Nat, good : Nat]

EndOf(a) == a + BLOCK_SIZE + hdr[a].size

\* The end of what the list covers, and the heap's end as soon as it has grown.
ListEnd ==
    IF pc \in {"grow_merge", "grown"} THEN heap_current_size + new_size
                                      ELSE heap_current_size

\* Between calls and inside them, the blocks on the list tile the heap: each
\* begins where the one before it ends, and the last ends where the heap does.
\* A block being added lies behind the heap until it is linked in.
Tiling ==
    pc # "init" =>
        /\ heap_first \in DOMAIN hdr
        /\ \A a \in DOMAIN hdr :
               \/ hdr[a].next # NULL /\ hdr[a].next = EndOf(a) /\ EndOf(a) \in DOMAIN hdr
               \/ hdr[a].next = NULL /\ EndOf(a) = ListEnd
               \/ /\ pc = "find_last" /\ a = heap_current_size
                  /\ hdr[a].next = NULL /\ EndOf(a) = heap_current_size + new_size
        /\ \A a, b \in DOMAIN hdr : a < b => EndOf(a) <= b

\* Every object lies in a block of its own that is in use and large enough, and
\* every block in use belongs to an object: no block is handed out twice, none
\* is lost.
ObjectsHaveBlocks ==
    /\ \A o \in live : LET b == o.ptr - BLOCK_SIZE
                       IN  b \in DOMAIN hdr /\ ~hdr[b].free /\ hdr[b].size >= o.size
    /\ \A a \in DOMAIN hdr : ~hdr[a].free => \E o \in live : o.ptr = a + BLOCK_SIZE
    /\ \A o, q \in live : o.ptr = q.ptr => o = q

\* Between calls no two neighbouring blocks are free: freeing, splitting and
\* growing the heap leave it merged as far as possible.
Coalesced ==
    pc = "idle" => \A a \in DOMAIN hdr :
        hdr[a].free /\ hdr[a].next # NULL => ~hdr[hdr[a].next].free

\* kmalloc calls itself, "recursively, but once": one growth serves any request.
ExpandsOnce == expansions <= 1

\* Every heap page is mapped to memory that the page allocator handed out for it:
\* pmm_alloc_page had a frame for it, and for each table on the way to it.
HeapIsBacked == unbacked = {}

\* An object's bytes are what the operation that returned it says: kcalloc's
\* are zero, krealloc's are those of the object it replaces.
ContentsAsPromised == \A o \in live : o.good >= o.size

\* Every call returns.
CallsReturn == (pc \notin {"init", "idle"}) ~> (pc = "idle")

\* The heap implements ObjectStore: objects share no byte and do not move.
Promise == INSTANCE ObjectStore

ImplementsObjectStore == Promise!Spec

=============================================================================
