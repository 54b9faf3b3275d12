-------------------------------- MODULE VMM --------------------------------
(***************************************************************************)
(* The virtual memory manager (vmm.c): address spaces, each with its page  *)
(* tables, a list of regions, a heap and a stack, over the page allocator  *)
(* and paging_map_page and paging_unmap_page.                              *)
(*                                                                         *)
(* A page has PAGE bytes and ENTRIES words, whatever it is used for; three *)
(* levels of tables stand for four, the last of which holds the pages.     *)
(* Virtual addresses are numbers of WORD values, physical ones are page    *)
(* numbers and a no-execute bit: virt_to_phys returns the entry with it.   *)
(* The allocator is its promise: a page it has, here the lowest.  Memory   *)
(* is mapped by large pages at its own addresses, as paging_init does it,  *)
(* and the kernel runs there.                                              *)
(***************************************************************************)
EXTENDS Integers, Sequences, FiniteSets, SequencesExt, FiniteSetsExt

CONSTANTS ENTRIES, PAGE, WORD,
          USER_SPACE_START, USER_SPACE_END, KERNEL_HEAP_START,
          MAX_STACK,     \* max_stack_size of vmm_expand_stack: 8 MB
          TOP,           \* pages of physical memory
          Frames,        \* those of the allocator
          Memories,      \* how many of them there may be at boot
          KERNEL_VMA,    \* the kernel's pages are mapped from here on as well
          Kernel, Code,  \* pages the kernel holds: kernel_address_space, the loader's
                         \* page that it runs in, and the tables of paging_init:
          KernelPml4,    \* g_kernel_paging.pml4
          KernelDirs,    \* the directories of the memory, by entry of the PML4
          HighDir, HighTable,   \* directory and table of the page at KERNEL_VMA
          Device,        \* a physical page that is a device's
          Counts, Addresses, Flags,   \* arguments of the calls, in bytes
          Stored,        \* frames that data in memory may look like an entry for
          Mixes          \* bound: the kinds of calls made, on which spaces, and
                         \* how many: a behaviour has one mix

Span == <<1, ENTRIES, ENTRIES * ENTRIES>>     \* pages under an entry of a level
SpacePages == ENTRIES * (ENTRIES * ENTRIES)
HALF == ENTRIES \div 2                         \* entries of the lower half
Memory == 1 .. TOP - 1
Address == 0 .. WORD - 1
RegionFlags == {"used", "read", "write", "exec", "user", "stack", "heap", "mmap"}

Index(a, l) == ((a \div PAGE) \div Span[l]) % ENTRIES

ASSUME GeometryAssumption ==
    /\ ENTRIES \in Nat \ {0} /\ ENTRIES % 2 = 0
    /\ PAGE \in Nat \ {0} /\ WORD \in Nat /\ WORD % PAGE = 0 /\ WORD > PAGE * SpacePages
    /\ USER_SPACE_END = HALF * (PAGE * (ENTRIES * ENTRIES)) - 1
    /\ USER_SPACE_START \in 1 .. USER_SPACE_END - 1 /\ USER_SPACE_START % PAGE = 0
    /\ KERNEL_HEAP_START \in USER_SPACE_END + 1 .. PAGE * SpacePages - 1
    /\ MAX_STACK \in Nat

Named == <<Device, Kernel, Code, KernelPml4, HighDir, HighTable>>
KernelCode == KERNEL_VMA + Code * PAGE         \* the address of Code in the upper half

ASSUME FramesAssumption ==
    /\ TOP \in Nat /\ TOP % ENTRIES = 0 /\ TOP <= HALF * (ENTRIES * ENTRIES)
    /\ Frames \subseteq Memory
    /\ Memories \subseteq 0 .. Cardinality(Frames)
    /\ DOMAIN KernelDirs = {k \in 0 .. HALF - 1 : k * (ENTRIES * ENTRIES) < TOP}
    /\ IsInjective(Named) /\ IsInjective(KernelDirs)
    /\ Range(Named) \cap Range(KernelDirs) = {}
    /\ Range(Named) \cup Range(KernelDirs) \subseteq Memory \ Frames
    /\ KERNEL_VMA \in Address /\ KernelCode \in Address /\ Index(KernelCode, 3) >= HALF

\* Calls as vmm.c is called: neither for nothing nor, where an address is meant,
\* for address 0; areas are marked as used; bytes and pages fit the word.
ASSUME CallsAssumption ==
    /\ Counts \subseteq 1 .. WORD - PAGE /\ Addresses \subseteq Address \ {0}
    /\ Flags \subseteq SUBSET RegionFlags /\ \A fl \in Flags : "used" \in fl
    /\ Stored \subseteq Frames
    /\ \A x \in Mixes : x.calls \subseteq STRING /\ x.max \in Nat

VARIABLES
    mix,      \* the mix of calls
    mem,      \* the words of each page
    avail,    \* pages the allocator has
    spaces,   \* the address spaces, by the page of their structure
    fate,     \* "runs"; "halted": a fault nobody handles;
              \* "breach": a page given to the allocator that it cannot take
    ops,
    done,     \* ghost: the last call
    mingled   \* ghost: pages of two spaces, or of a device, or naming frames, or
              \* under the kernel's own addresses

vars == <<mix, mem, avail, spaces, fate, ops, done, mingled>>

NULL == 0
FREE == {}                        \* REGION_FREE: the empty set of flags
Zero == [to |-> NULL, flags |-> {}]             \* an entry that is not present
Blank == [k \in 0 .. ENTRIES - 1 |-> Zero]
Present(e) == e.to # NULL

align_down(a) == a - (a % PAGE)
align_up(a) == align_down((a + PAGE - 1) % WORD)
PagesIn(bytes) == (bytes + PAGE - 1) \div PAGE

-----------------------------------------------------------------------------
(* A call at work: memory, what the allocator has, the region list of the   *)
(* space it is for, how it goes, and whether a page was asked for in vain.  *)

Idle == [mem |-> mem, avail |-> avail, regions |-> <<>>, fate |-> "runs",
         ran |-> FALSE, count |-> 0]
Start(as) == [Idle EXCEPT !.regions = spaces[as].regions]

Fresh(s) == Min(s.avail)

\* pmm_alloc_page and the memset after it.
Take(s) == [s EXCEPT !.avail = @ \ {Fresh(s)}, !.mem[Fresh(s)] = Blank]
RanOut(s) == [s EXCEPT !.ran = TRUE]

\* pmm_free_page writes its list's link into the page: at an address with the
\* no-execute bit, which is not canonical, the processor faults.
FreePage(s, p) ==
    CASE s.fate # "runs" -> s
      [] s.fate = "runs" /\ "nx" \in p.flags -> [s EXCEPT !.fate = "halted"]
      [] s.fate = "runs" /\ "nx" \notin p.flags /\ p.to \notin Frames \ s.avail ->
            [s EXCEPT !.fate = "breach"]
      [] OTHER -> [s EXCEPT !.avail = @ \cup {p.to}]
FreeFrame(s, f) == FreePage(s, [to |-> f, flags |-> {}])

\* Table of level l of the space, or NULL; a large page ends the walk.
Sub(e) == IF "huge" \in e.flags THEN NULL ELSE e.to
TableAt(m, pml4, a, l) ==
    LET t2 == Sub(m[pml4][Index(a, 3)])
        t1 == IF t2 = NULL THEN NULL ELSE Sub(m[t2][Index(a, 2)])
    IN CASE l = 3 -> pml4 [] l = 2 -> t2 [] l = 1 -> t1

\* Page k of a large page.
Piece(e, k) == [to |-> e.to - (e.to % ENTRIES) + k, flags |-> e.flags \ {"huge"}]

\* virt_to_phys: the entry, no-execute bit and all; Zero for 0.
virt_to_phys(m, pml4, a) ==
    LET t2 == TableAt(m, pml4, a, 2)
        t1 == TableAt(m, pml4, a, 1)
    IN IF t2 = NULL THEN Zero
       ELSE IF "huge" \in m[t2][Index(a, 2)].flags THEN Piece(m[t2][Index(a, 2)], Index(a, 1))
       ELSE IF t1 = NULL THEN Zero ELSE m[t1][Index(a, 1)]

\* split_2mb_page: a table of the same pages takes the large page's place.
split_2mb_page(s, t, k) ==
    LET e == s.mem[t][k]
        pieces == [j \in 0 .. ENTRIES - 1 |-> Piece([e EXCEPT !.flags = @ \ {"nx"}], j)]
    IN IF s.avail = {} THEN RanOut(s)
       ELSE [s EXCEPT !.avail = @ \ {Fresh(s)}, !.mem[Fresh(s)] = pieces,
                      !.mem[t][k] = [to |-> Fresh(s), flags |-> {"w"} \cup (e.flags \cap {"u"})]]

\* get_or_create_pt, one level of it: the table below the one of level l on the way
\* to a is there, or made; when it cannot be had nothing else is written.
Descend(s, pml4, a, l, flags) ==
    LET t == TableAt(s.mem, pml4, a, l)
        k == Index(a, l)
    IN IF t = NULL THEN s
       ELSE IF l = 2 /\ "huge" \in s.mem[t][k].flags THEN split_2mb_page(s, t, k)
       ELSE IF Present(s.mem[t][k]) THEN s
       ELSE IF s.avail = {} THEN RanOut(s)
       ELSE [Take(s) EXCEPT
                !.mem[t][k] = [to |-> Fresh(s), flags |-> {"w"} \cup (flags \cap {"u"})]]

\* paging_map_page: no caller looks at what it returns.
Map(s, pml4, a, to, flags) ==
    LET d == Descend(Descend(s, pml4, a, 3, flags), pml4, a, 2, flags)
        t == TableAt(d.mem, pml4, a, 1)
    IN IF t = NULL THEN d
       ELSE [d EXCEPT !.mem[t][Index(a, 1)] = [to |-> to, flags |-> flags]]

Unmap(s, pml4, a) ==
    LET t == TableAt(s.mem, pml4, a, 1) IN
    IF t = NULL THEN s ELSE [s EXCEPT !.mem[t][Index(a, 1)] = Zero]

\* A loop: Step for 0, 1, ... n - 1.
Loop(Step(_, _), s, n) ==
    LET at[k \in 0 .. n] == IF k = 0 THEN s ELSE Step(at[k - 1], k - 1) IN at[n]

\* The first n pages from a on, in order.
PageOf(a, k) == (a + k * PAGE) % WORD
Run(a, n) == {PageOf(a, k) : k \in 0 .. n - 1}
Each(Step(_, _), s, a, n) == Loop(LAMBDA t, k : Step(t, PageOf(a, k)), s, n)

\* A bug: the page is freed and stays mapped.
DropMapped(s, pml4, a) ==
    LET p == virt_to_phys(s.mem, pml4, a) IN IF Present(p) THEN FreePage(s, p) ELSE s

\* Translate, unmap, free: of pages that are mapped.
Drop(s, pml4, a) ==
    LET p == virt_to_phys(s.mem, pml4, a) IN
    IF Present(p) THEN FreePage(Unmap(s, pml4, a), p) ELSE s

\* A bug: what was mapped before a page was missing stays.
NoRollback(s, pml4, a) == s

DropPages(s, pml4, a, n) == Each(LAMBDA t, v : Drop(t, pml4, v), s, a, n)

\* The rollback after s.count pages from a on.
Rollback(s, pml4, a) == DropPages(s, pml4, a, s.count)

\* Pages, zeroed and mapped one by one; the first that cannot be had is the last.
BackPage(s, pml4, v, flags) ==
    IF s.avail = {} THEN RanOut(s)
    ELSE [Map(Take(s), pml4, v, Fresh(s), flags) EXCEPT !.count = @ + 1]
Back(s, pml4, a, n, flags) == Each(LAMBDA t, v : BackPage(t, pml4, v, flags), s, a, n)

PageFlags(flags) ==
    (IF "write" \in flags THEN {"w"} ELSE {}) \cup
    (IF "user" \in flags THEN {"u"} ELSE {}) \cup
    (IF "exec" \in flags THEN {} ELSE {"nx"})

-----------------------------------------------------------------------------
(* Regions *)

Region(a, b, flags, at) == [start |-> a, end |-> b, flags |-> flags, at |-> at]

\* vmm_find_free_region_aligned: an address, or 0.
vmm_find_free_region(regions, size) ==
    LET i == SelectInSeq(regions, LAMBDA r :
                 r.flags = FREE /\ align_up(r.start) + align_up(size) <= r.end)
    IN IF i = 0 THEN NULL ELSE align_up(regions[i].start)

\* vmm_find_region: the position of the first region that holds a, or 0.
vmm_find_region(regions, a) ==
    SelectInSeq(regions, LAMBDA r : r.start <= a /\ a < r.end)

\* vmm_create_region: in front of the first that does not start before it.
vmm_create_region(s, a, b, flags) ==
    LET i == SelectInSeq(s.regions, LAMBDA r : r.start >= a)
        at == IF i = 0 THEN Len(s.regions) + 1 ELSE i
    IN IF a >= b THEN s
       ELSE IF s.avail = {} THEN RanOut(s)
       ELSE [Take(s) EXCEPT
                !.regions = InsertAt(@, at, Region(a, b, flags, Fresh(s)))]

\* The end of vmm_alloc_pages_at: the part a .. b - 1 of a free region gets flags.
Occupy(s, a, b, flags) ==
    LET i == SelectInSeq(s.regions, LAMBDA r : r.flags = FREE /\ r.start <= a /\ a < r.end)
        r == s.regions[i]
        cut == [s EXCEPT !.regions[i].end = a]
        front == vmm_create_region(s, a, b, flags)
    IN CASE i = 0 -> s
         [] i # 0 /\ r.start = a /\ r.end = b -> [s EXCEPT !.regions[i].flags = flags]
         [] i # 0 /\ r.start = a /\ r.end # b ->
                IF front.regions = s.regions THEN front
                ELSE [front EXCEPT !.regions[i + 1].start = b]
         [] i # 0 /\ r.start # a /\ r.end = b -> vmm_create_region(cut, a, b, flags)
         [] OTHER -> vmm_create_region(vmm_create_region(cut, a, b, flags), b, r.end, FREE)

\* A bug: of the two records, the one that stays in the list is freed.
AbsorbWrongRecord(s, i) ==
    [FreeFrame(s, s.regions[i].at) EXCEPT
        !.regions = RemoveAt([@ EXCEPT ![i].end = s.regions[i + 1].end], i + 1)]

\* Region i takes in its right neighbour, whose record is freed.
Absorb(s, i) ==
    [FreeFrame(s, s.regions[i + 1].at) EXCEPT
        !.regions = RemoveAt([@ EXCEPT ![i].end = s.regions[i + 1].end], i + 1)]

\* A bug: a neighbour is merged whether it is free or not.
ReleaseAll(s, i) ==
    LET f == [s EXCEPT !.regions[i].flags = FREE] IN
    IF i < Len(f.regions) THEN Absorb(f, i) ELSE f

\* The end of vmm_free_pages: region i is free, and one with free neighbours.
Release(s, i) ==
    LET f == [s EXCEPT !.regions[i].flags = FREE]
        left == i > 1 /\ f.regions[i - 1].flags = FREE
        m == IF left THEN Absorb(f, i - 1) ELSE f
        j == IF left THEN i - 1 ELSE i
    IN IF j < Len(m.regions) /\ m.regions[j + 1].flags = FREE THEN Absorb(m, j) ELSE m

-----------------------------------------------------------------------------
(* Address spaces *)

\* A space of its own: the first page for the structure, the next for the PML4,
\* a third for the one free region; without that, there are no regions.
NewSpace(pml4, regions) ==
    [pml4 |-> pml4, regions |-> regions,
     heap_start |-> USER_SPACE_START, heap_end |-> USER_SPACE_START,
     stack_start |-> 0, stack_end |-> 0, plain |-> TRUE, short |-> FALSE]

UpperHalf(c) == [k \in 0 .. ENTRIES - 1 |-> IF k >= HALF THEN c[k] ELSE Zero]

\* vmm_create_address_space, in memory s; as is NULL when there are no pages.
Created(s) ==
    LET as == Fresh(s)  s1 == Take(s)
        pml4 == Fresh(s1)  s2 == Take(s1)
        s3 == [s2 EXCEPT !.mem[pml4] = UpperHalf(s.mem[KernelPml4])]
    IN IF Cardinality(s.avail) < 2 THEN [as |-> NULL, s |-> RanOut(s), space |-> <<>>]
       ELSE IF s3.avail = {}
         THEN [as |-> as, s |-> RanOut(s3), space |-> NewSpace(pml4, <<>>)]
       ELSE [as |-> as, s |-> Take(s3), space |-> NewSpace(pml4,
                <<Region(USER_SPACE_START, USER_SPACE_END, FREE, Fresh(s3))>>)]

\* Free what entry k of table t leads to, as Do does for one entry.
OneEntry(s, t, k, Do(_, _)) ==
    LET e == s.mem[t][k] IN
    IF ~Present(e) THEN s
    ELSE [(IF "huge" \in e.flags THEN FreePage(s, e) ELSE Do(s, e)) EXCEPT !.mem[t][k] = Zero]
EachEntry(s, t, n, Do(_, _)) == Loop(LAMBDA x, k : OneEntry(x, t, k, Do), s, n)

\* free_page_table_level on level 1 takes the page it finds for a table: what
\* its words name is freed as well.  With a no-execute bit the page is not to
\* be read.
FreeLeaf(s, e) ==
    IF "nx" \in e.flags THEN FreePage(s, e)
    ELSE FreePage(EachEntry(s, e.to, ENTRIES, FreePage), e)

\* A bug: the table itself is kept.
FreeBelowTable1(s, e) == EachEntry(s, e.to, ENTRIES, FreeLeaf)

FreeTable1(s, e) == FreeFrame(EachEntry(s, e.to, ENTRIES, FreeLeaf), e.to)
FreeTable2(s, e) == FreeFrame(EachEntry(s, e.to, ENTRIES, FreeTable1), e.to)

\* vmm_destroy_address_space, in memory s, up to the list of spaces: the tables
\* of the lower half, the PML4, the region records, the structure.  ref_count is
\* 1 in every space and leads to the end of it.
FreeRecords(s, regions) ==
    Loop(LAMBDA x, k : FreeFrame(x, regions[k + 1].at), s, Len(regions))
Destroyed(s, as, space) ==
    LET tables == EachEntry(s, space.pml4, HALF, FreeTable2)
    IN FreeFrame(FreeRecords(FreeFrame(tables, space.pml4), space.regions), as)

\* The loop of vmm_clone_address_space: copies of the tables below the PML4, and
\* of nothing that they lead to.
CopyTable(s, from, to, k) ==
    LET e == s.mem[from][k] IN
    IF s.ran \/ ~Present(e) THEN s
    ELSE IF s.avail = {} THEN RanOut(s)
    ELSE [s EXCEPT !.avail = @ \ {Fresh(s)},
                   !.mem[Fresh(s)] = s.mem[e.to],
                   !.mem[to][k] = [e EXCEPT !.to = Fresh(s)]]
CopyTables(s, from, to) == Loop(LAMBDA x, k : CopyTable(x, from, to, k), s, HALF)

-----------------------------------------------------------------------------
(* The kernel's tables as paging_init leaves them: memory by large pages at  *)
(* its own addresses, and the loader's page at KERNEL_VMA by a small one.    *)

Table(to) == [to |-> to, flags |-> {"w"}]
BootPml4 == [k \in 0 .. ENTRIES - 1 |->
    IF k \in DOMAIN KernelDirs THEN Table(KernelDirs[k])
    ELSE IF k = Index(KernelCode, 3) THEN Table(HighDir) ELSE Zero]
BootDir(k) == [j \in 0 .. ENTRIES - 1 |->
    LET page == (k * ENTRIES + j) * ENTRIES
    IN IF page < TOP THEN [to |-> page, flags |-> {"w", "huge"}] ELSE Zero]

BootMem ==
    [f \in Memory |->
        CASE f = KernelPml4 -> BootPml4
          [] f \in Range(KernelDirs) ->
                 BootDir(CHOOSE k \in DOMAIN KernelDirs : KernelDirs[k] = f)
          [] f = HighDir -> [Blank EXCEPT ![Index(KernelCode, 2)] = Table(HighTable)]
          [] f = HighTable -> [Blank EXCEPT ![Index(KernelCode, 1)] = [to |-> Code, flags |-> {}]]
          [] OTHER -> Blank]

\* Is an address one that paging_init mapped: in the kernel's space, where memory
\* is, in all spaces, where the kernel is?
LargeAt(m, pml4, a) ==
    LET t == TableAt(m, pml4, a, 2) IN t # NULL /\ "huge" \in m[t][Index(a, 2)].flags
KernelsOwn(as, a) ==
    \/ as = Kernel /\ LargeAt(BootMem, KernelPml4, a)
    \/ \A l \in 1 .. 3 : Index(a, l) = Index(KernelCode, l)

-----------------------------------------------------------------------------
(* Calls.  Two ghosts of a space: it is plain while it is used for nothing   *)
(* but areas that vmm_alloc_pages chose, named from end to end; it is short  *)
(* when a call for it succeeded although memory ran out on the way.          *)

\* A call ends: the machine goes on with s, or nothing matters any more.
Commit(s, newSpaces, op, as, ok, a, n) ==
    /\ fate = "runs" /\ ops < mix.max /\ ops' = ops + 1 /\ UNCHANGED mix
    /\ fate' = s.fate
    /\ done' = [op |-> op, as |-> as, ok |-> ok, addr |-> a, pages |-> n, ran |-> s.ran]
    /\ IF s.fate = "runs"
         THEN mem' = s.mem /\ avail' = s.avail /\ spaces' = newSpaces
         ELSE UNCHANGED <<mem, avail, spaces>>

\* A call in the space as, that changes this space alone.
With(as, space) == [q \in DOMAIN spaces \cup {as} |-> IF q = as THEN space ELSE spaces[q]]
Within(op, as, s, space, ok, a, n) ==
    Commit(s, With(as, [space EXCEPT !.regions = s.regions,
                                     !.short = @ \/ (ok /\ s.ran)]),
           op, as, ok, a, n)

Refused(op, as) == Within(op, as, Start(as), spaces[as], FALSE, 0, 0)

\* Is a .. a + n pages an area in use, from its first page to its last?
Whole(as, a, n) ==
    \E i \in DOMAIN spaces[as].regions :
        LET r == spaces[as].regions[i] IN
        r.flags # FREE /\ r.start = a /\ r.end = a + n * PAGE

OfWhole(as, a, n) == [spaces[as] EXCEPT !.plain = @ /\ Whole(as, a, n)]
Mixed(as) == [spaces[as] EXCEPT !.plain = FALSE]

\* No call looks whether the addresses it is given are the kernel's own.
Minded ==
    mingled' = (mingled \/ \E v \in Run(done'.addr, done'.pages) : KernelsOwn(done'.as, v))

Create ==
    LET c == Created(Idle) IN
    /\ Commit(c.s, IF c.as = NULL THEN spaces ELSE With(c.as, c.space),
              "create", c.as, c.as # NULL, 0, 0)
    /\ UNCHANGED mingled

\* vmm_clone_address_space of a program's space.  When a copy cannot be made the
\* new space is destroyed, and what its tables lead to with it.
Clone(src) ==
    LET c == Created(Idle)
        t == CopyTables([c.s EXCEPT !.ran = FALSE], spaces[src].pml4, c.space.pml4)
        clone == [spaces[src] EXCEPT !.pml4 = c.space.pml4, !.regions = c.space.regions,
                                     !.plain = FALSE]
    IN /\ src # Kernel
       /\ IF c.as = NULL
            THEN Commit(c.s, spaces, "clone", src, FALSE, 0, 0)
            ELSE IF t.ran
            THEN Commit(Destroyed(t, c.as, c.space), spaces, "clone", src, FALSE, 0, 0)
            ELSE Commit(t, With(c.as, clone), "clone", src, TRUE, 0, 0)
       /\ mingled' = TRUE

\* The kernel's space is not destroyed, nor one that is loaded.
Destroy(as) ==
    /\ as # Kernel
    /\ Commit(Destroyed(Start(as), as, spaces[as]),
              [q \in DOMAIN spaces \ {as} |-> spaces[q]], "destroy", as, TRUE, 0, 0)
    /\ UNCHANGED mingled

\* vmm_switch: the kernel runs on, in the new space, if its code is there.
Switch(as) ==
    LET code == virt_to_phys(mem, spaces[as].pml4, Code * PAGE) IN
    /\ Commit([Idle EXCEPT !.fate = IF code.to = Code THEN "runs" ELSE "halted"], spaces,
              "switch", as, TRUE, 0, 0)
    /\ UNCHANGED mingled

\* vmm_alloc_pages_at: at 0, wherever there is room (vmm_alloc_pages); elsewhere,
\* unless the address lies in a region: a free one has not a flag REGION_FREE.
Alloc(as, addr, count, flags) ==
    LET pml4 == spaces[as].pml4
        n == PagesIn(count)
        virt == IF addr = 0 THEN vmm_find_free_region(spaces[as].regions, n * PAGE)
                            ELSE align_down(addr)
        taken == addr # 0 /\ vmm_find_region(spaces[as].regions, virt) # 0
        s == Back(Start(as), pml4, virt, n, PageFlags(flags))
        space == IF addr = 0 THEN spaces[as] ELSE Mixed(as)
    IN /\ IF virt = 0 \/ taken THEN Refused("alloc", as)
          ELSE IF s.count < n
            THEN Within("alloc", as, Rollback(s, pml4, virt), space, FALSE, virt, n)
            ELSE Within("alloc", as, Occupy(s, virt, virt + n * PAGE, flags), space,
                        TRUE, virt, n)
       /\ Minded

\* vmm_free_pages: the region that holds addr becomes free as a whole.
Free(as, addr, count) ==
    LET n == PagesIn(count)
        s == DropPages(Start(as), spaces[as].pml4, addr, n)
        i == vmm_find_region(s.regions, addr)
    IN /\ Within("free", as, IF i = 0 THEN s ELSE Release(s, i), OfWhole(as, addr, n),
                 TRUE, addr, n)
       /\ Minded

\* A bug: any end will do.
AnyEnd(space, end) == FALSE

BelowHeap(space, end) == end < space.heap_start

\* vmm_brk, and vmm_sbrk, whose sum may wrap around.  When memory runs out the
\* pages stay where they are, above the end of the heap.
Brk(as, end) ==
    LET sp == spaces[as]
        new == align_up(end)
        up == IF new > sp.heap_end THEN (new - sp.heap_end) \div PAGE ELSE 0
        down == IF new < sp.heap_end THEN (sp.heap_end - new) \div PAGE ELSE 0
        s == IF up > 0 THEN Back(Start(as), sp.pml4, sp.heap_end, up, {"w", "u"})
             ELSE DropPages(Start(as), sp.pml4, new, down)
    IN /\ IF BelowHeap(sp, new) THEN Refused("brk", as)
          ELSE IF s.count < up THEN Within("brk", as, s, Mixed(as), FALSE, sp.heap_end, up)
          ELSE Within("brk", as, s, [Mixed(as) EXCEPT !.heap_end = new], TRUE,
                      IF up > 0 THEN sp.heap_end ELSE new, up + down)
       /\ Minded

Sbrk(as, increment) == Brk(as, (spaces[as].heap_end + increment) % WORD)

SetupStack(as, top, size) ==
    LET sp == spaces[as]
        high == align_down(top)
        n == align_up(size) \div PAGE
        low == (high - align_up(size)) % WORD
        s == Back(Start(as), sp.pml4, low, n, {"w", "u", "nx"})
    IN /\ IF s.count < n
            THEN Within("stack", as, Rollback(s, sp.pml4, low), Mixed(as), FALSE, low, n)
            ELSE Within("stack", as,
                        vmm_create_region(s, low, high, {"used", "stack", "read", "write"}),
                        [Mixed(as) EXCEPT !.stack_start = low, !.stack_end = high],
                        TRUE, low, n)
       /\ Minded

\* vmm_handle_page_fault and vmm_expand_stack: one page at the address, which
\* becomes the lower end of the stack.  What kind of fault it was is not asked.
PageFault(as, addr) ==
    LET sp == spaces[as]
        page == align_down(addr)
        s == Back(Start(as), sp.pml4, page, 1, {"w", "u", "nx"})
    IN /\ IF sp.stack_end = 0 \/ addr >= sp.stack_start
             \/ addr < (sp.stack_end - MAX_STACK) % WORD \/ sp.stack_start = 0
             \/ (sp.stack_end - addr) % WORD > MAX_STACK
            THEN Refused("fault", as)
            ELSE IF s.count < 1 THEN Within("fault", as, s, sp, FALSE, page, 1)
            ELSE Within("fault", as, s, [sp EXCEPT !.stack_start = page], TRUE, page, 1)
       /\ Minded

\* vmm_map_physical of the device's page: the free region it is put in stays.
MapPhysical(as, flags) ==
    LET virt == vmm_find_free_region(spaces[as].regions, PAGE)
        s == Map(Start(as), spaces[as].pml4, virt, Device, PageFlags(flags) \ {"nx"})
    IN /\ IF virt = 0 THEN Refused("mmap", as)
          ELSE Within("mmap", as, vmm_create_region(s, virt, virt + PAGE, flags \cup {"mmap"}),
                      Mixed(as), TRUE, virt, 1)
       /\ mingled' = TRUE

UnmapEach(s, pml4, a, n) == Each(LAMBDA t, v : Unmap(t, pml4, v), s, a, n)

\* vmm_unmap: the pages are not freed, and the region is free as a whole.
UnmapPages(as, addr, size) ==
    LET virt == align_down(addr)
        n == align_up(size) \div PAGE
        s == UnmapEach(Start(as), spaces[as].pml4, virt, n)
        i == vmm_find_region(s.regions, virt)
    IN /\ Within("unmap", as, IF i = 0 THEN s ELSE [s EXCEPT !.regions[i].flags = FREE],
                 Mixed(as), TRUE, virt, n)
       /\ Minded

Reprotect(s, pml4, a, flags) ==
    LET p == virt_to_phys(s.mem, pml4, a) IN
    IF Present(p) THEN Map(Unmap(s, pml4, a), pml4, a, p.to, flags) ELSE s

ReprotectEach(s, pml4, a, n, flags) ==
    Each(LAMBDA t, v : Reprotect(t, pml4, v, flags), s, a, n)

Protect(as, addr, size, flags) ==
    LET virt == align_down(addr)
        n == align_up(size) \div PAGE
        s == ReprotectEach(Start(as), spaces[as].pml4, virt, n, PageFlags(flags))
        i == vmm_find_region(s.regions, virt)
    IN /\ Within("protect", as,
                 IF i = 0 THEN s
                 ELSE [s EXCEPT !.regions[i].flags = (@ \ {"read", "write", "exec"}) \cup flags],
                 OfWhole(as, virt, n), TRUE, virt, n)
       /\ Minded

\* A program writes a word into a page of its own; it reads like an entry.
Store(as, addr, f) ==
    LET p == virt_to_phys(mem, spaces[as].pml4, addr) IN
    /\ as # Kernel /\ Present(p) /\ "w" \in p.flags /\ p.to \in Frames
    /\ Commit([Idle EXCEPT !.mem[p.to][0] = [to |-> f, flags |-> {}]], spaces,
              "store", as, TRUE, 0, 0)
    /\ mingled' = TRUE

-----------------------------------------------------------------------------

\* vmm_init.  The region made by init_virtual_memory_manager is in no space's list.
Init ==
    /\ mix \in Mixes
    /\ mem = BootMem
    /\ \E n \in Memories : avail = {f \in Frames : Cardinality({g \in Frames : g < f}) < n}
    /\ spaces = [q \in {Kernel} |->
           [NewSpace(KernelPml4, <<>>) EXCEPT
                !.heap_start = KERNEL_HEAP_START, !.heap_end = KERNEL_HEAP_START]]
    /\ fate = "runs" /\ ops = 0 /\ mingled = FALSE
    /\ done = [op |-> "none", as |-> NULL, ok |-> FALSE, addr |-> 0, pages |-> 0, ran |-> FALSE]

\* Of the kinds of call in the mix, on a space that it names.
May(call, as) ==
    /\ call \in mix.calls
    /\ IF as = Kernel THEN "kernel" \in mix.calls ELSE "user" \in mix.calls

Next ==
    \/ "create" \in mix.calls /\ Create
    \/ \E as \in DOMAIN spaces :
           \/ May("clone", as) /\ Clone(as)
           \/ May("destroy", as) /\ Destroy(as)
           \/ May("switch", as) /\ Switch(as)
           \/ \E n \in Counts : May("brk", as) /\ (Sbrk(as, n) \/ Sbrk(as, -n))
           \/ \E fl \in Flags :
                  \/ May("mmap", as) /\ MapPhysical(as, fl)
                  \/ \E n \in Counts : May("alloc", as) /\ Alloc(as, 0, n, fl)
           \/ \E a \in Addresses :
                  \/ May("brk", as) /\ Brk(as, a)
                  \/ May("fault", as) /\ PageFault(as, a)
                  \/ \E f \in Stored : May("store", as) /\ Store(as, a, f)
                  \/ \E n \in Counts :
                         \/ May("free", as) /\ Free(as, a, n)
                         \/ May("stack", as) /\ SetupStack(as, a, n)
                         \/ May("unmap", as) /\ UnmapPages(as, a, n)
                         \/ \E fl \in Flags :
                                \/ May("allocAt", as) /\ Alloc(as, a, n, fl)
                                \/ May("protect", as) /\ Protect(as, a, n, fl)

Spec == Init /\ [][Next]_vars

-----------------------------------------------------------------------------
(* Properties *)

Entries == [to : 0 .. TOP - 1, flags : SUBSET {"w", "u", "nx", "huge"}]
Regions == [start : Address, end : Address, flags : SUBSET RegionFlags, at : Frames]
Spaces == [pml4 : Frames \cup {KernelPml4}, regions : Seq(Regions),
           heap_start : Address, heap_end : Address, stack_start : Address,
           stack_end : Address, plain : BOOLEAN, short : BOOLEAN]

\* Every variable has a value of its kind; structures and tables are frames.
TypeOK ==
    /\ mem \in [Memory -> [0 .. ENTRIES - 1 -> Entries]]
    /\ avail \subseteq Frames
    /\ Kernel \in DOMAIN spaces /\ DOMAIN spaces \subseteq Frames \cup {Kernel}
    /\ spaces \in [DOMAIN spaces -> Spaces]
    /\ \A as \in DOMAIN spaces : /\ spaces[as].heap_start <= spaces[as].heap_end
                                 /\ spaces[as].pml4 = KernelPml4 <=> as = Kernel
    /\ fate \in {"runs", "halted", "breach"} /\ ops \in 0 .. mix.max /\ mix \in Mixes

\* Those of the entries ks of a table, as <<table, index>>, that lead to a page, and
\* the entries of the tables they lead to.
Filled(t, ks) ==
    {<<t, k>> : k \in {j \in ks : Present(mem[t][j]) /\ "huge" \notin mem[t][j].flags}}
Target(c) == mem[c[1]][c[2]].to
Under(cells) == UNION {Filled(Target(c), 0 .. ENTRIES - 1) : c \in cells}

\* All entries of a space: of its lower half; of the kernel's, both.
Cells(as) ==
    LET c3 == Filled(spaces[as].pml4,
                     0 .. (IF as = Kernel THEN ENTRIES ELSE HALF) - 1)
        c2 == Under(c3)
    IN {c \in c3 \cup c2 \cup Under(c2) : Target(c) \in Frames}

\* The pages a space holds besides, numbered: structure, PML4, region records.
Own(as) ==
    {<<as, i, spaces[as].regions[i].at>> : i \in DOMAIN spaces[as].regions} \cup
    (IF as = Kernel THEN {} ELSE {<<as, -1, as>>, <<as, 0, spaces[as].pml4>>})

AllCells == UNION {Cells(as) : as \in DOMAIN spaces}
AllOwn == UNION {Own(as) : as \in DOMAIN spaces}
InUse == {Target(c) : c \in AllCells} \cup {o[3] : o \in AllOwn}

\* Whatever the calls, and wherever memory runs out in them: a frame has one use,
\* as a structure, a table, a region record or a mapped page of one space, and it
\* is not one the allocator will hand out.  Clones, device pages, data that names
\* frames and calls for the kernel's own addresses are the exceptions.
OneUse ==
    ~mingled /\ fate = "runs" =>
        /\ Cardinality(InUse) = Cardinality(AllCells) + Cardinality(AllOwn)
        /\ InUse \cap avail = {}

\* Regions of a plain space lie in the user's part, in order, apart, and no two
\* free ones meet in the list: cutting and merging keep it so, whichever record
\* could not be had.
AreasApart ==
    \A as \in DOMAIN spaces \ {Kernel} : spaces[as].plain =>
        LET rs == spaces[as].regions IN
        \A i \in DOMAIN rs :
            /\ USER_SPACE_START <= rs[i].start /\ rs[i].start < rs[i].end
            /\ rs[i].end <= USER_SPACE_END
            /\ i + 1 \in DOMAIN rs =>
                   /\ rs[i].end <= rs[i + 1].start
                   /\ {rs[i].flags, rs[i + 1].flags} # {FREE}

\* The lower half of a plain space maps what its regions say is in use, no more
\* and no less, unless memory ran out in a call that succeeded all the same, or
\* a clone shares its tables.
AreasBacked ==
    \A as \in DOMAIN spaces \ {Kernel} :
      spaces[as].plain /\ ~spaces[as].short /\ ~mingled =>
        \A page \in 0 .. HALF * (ENTRIES * ENTRIES) - 1 :
            Present(virt_to_phys(mem, spaces[as].pml4, page * PAGE)) <=>
                \E i \in DOMAIN spaces[as].regions :
                    LET r == spaces[as].regions[i] IN
                    r.flags # FREE /\ r.start <= page * PAGE /\ page * PAGE < r.end

\* Plain spaces' areas lie apart, and the page tables map just the areas in use:
\* vmm_alloc_pages_at and vmm_free_pages keep list and tables in step.
AreasTrue == AreasApart /\ AreasBacked

\* Was a page of the call's span mapped before it?
Overlaid ==
    \E v \in Run(done'.addr, done'.pages) :
        Present(virt_to_phys(mem, spaces[done'.as].pml4, v))

\* All entries of a space, whoever shares them, and the frames that are reached.
Reach(as) ==
    LET c3 == Filled(spaces[as].pml4, 0 .. ENTRIES - 1)
        c2 == Under(c3)
    IN c3 \cup c2 \cup Under(c2)
Reached == {Target(c) : c \in UNION {Reach(as) : as \in DOMAIN spaces}} \cup {o[3] : o \in AllOwn}

\* Tables of a program's own in the kernel's half.
OwnAbove(as) ==
    \E k \in HALF .. ENTRIES - 1 :
        LET e == mem[spaces[as].pml4][k] IN Present(e) /\ e # mem[KernelPml4][k]

\* A frame goes missing, reached from no space and not with the allocator, only when
\* memory ran out in the call, when a page is unmapped without being freed, when one
\* is mapped over another (by a heap and an area that meet, or a fault on a page
\* that was there), or when a space is destroyed that has pages in the kernel's half.
LossesExplained ==
    [][~mingled' /\ fate' = "runs" =>
          \/ Frames \ (avail \cup Reached)' \subseteq Frames \ (avail \cup Reached)
          \/ done'.ran
          \/ done'.op = "unmap"
          \/ done'.op \in {"alloc", "brk", "stack", "fault"} /\ Overlaid
          \/ done'.op = "destroy" /\ OwnAbove(done'.as)]_vars

NoExecuteMapped(as) ==
    \E c \in Reach(as) : "nx" \in mem[c[1]][c[2]].flags

\* Without clones, device pages, data that names frames, and calls for addresses that
\* paging_init mapped, no call gives the allocator what it cannot take, and the machine
\* stops in the kernel only where a page without execute right is given back, or at
\* the switch to a space that is not the kernel's.
StopsExplained ==
    [][~mingled' =>
         /\ fate' # "breach"
         /\ fate' = "halted" =>
               \/ done'.op = "switch" /\ done'.as # Kernel
               \/ done'.op \in {"free", "brk", "destroy"} /\ NoExecuteMapped(done'.as)
               \/ done'.op \in {"alloc", "stack"} /\ ~done'.ok /\ done'.ran]_vars

\* A call that fails for want of memory leaves what the space maps as it was, but
\* for vmm_brk; one that succeeds without having met that want maps all that it
\* was asked for.
CallsHonest ==
    [][fate' = "runs" /\ ~mingled /\ done'.op \in {"alloc", "brk", "stack", "fault"} =>
          LET as == done'.as
              Maps(m, v) == virt_to_phys(m, spaces[as].pml4, v)
          IN /\ ~done'.ok /\ done'.op # "brk" /\ ~Overlaid =>
                    \A page \in 0 .. SpacePages - 1 :
                        Maps(mem', page * PAGE) = Maps(mem, page * PAGE)
             /\ done'.ok /\ ~done'.ran /\ spaces'[as].heap_end >= spaces[as].heap_end =>
                    \A v \in Run(done'.addr, done'.pages) : Present(Maps(mem', v))]_vars

=============================================================================
