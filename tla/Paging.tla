------------------------------- MODULE Paging -------------------------------
(***************************************************************************)
(* The page tables (paging.c): four levels of tables of ENTRIES entries,   *)
(* an entry being empty, a table of the level below, or a page; a page on  *)
(* level 2 or 3 is a large one.  Tables come from the page allocator and   *)
(* are shared between address spaces in the upper half only.  The          *)
(* processor walks the tables that CR3 names and caches what it finds.     *)
(*                                                                         *)
(* Addresses, virtual and physical, are page numbers; level 4 is the PML4, *)
(* 3 the PDPT, 2 the PD and 1 the PT.  The frames of tables have names of  *)
(* their own.  Rights are sets: "exec" is a clear no-execute bit, "cache"  *)
(* a clear cache-disable bit.  paging_map_range and its kin are loops over *)
(* the calls modelled here.                                                *)
(***************************************************************************)
EXTENDS Integers, Sequences, FiniteSets, FiniteSetsExt

CONSTANTS ENTRIES,       \* entries of a table: 512
          LOW,           \* the pages of the first 4 GB
          Mmio,          \* of these, the APICs' block
          Frames,        \* page frames of the page allocator
          Machines,      \* memory map, frame buffer, frames: see MachineAssumption
          Virts,         \* the pages callers name, and the
          Targets,       \* physical pages they map them to,
          FlagSets,      \* and the rights they ask for
          MaxOps         \* bound: calls after paging_init

\* Pages under an entry of level l.
Span == <<1, ENTRIES, ENTRIES * ENTRIES, ENTRIES * ENTRIES * ENTRIES,
          ENTRIES * ENTRIES * ENTRIES * ENTRIES>>
Page == 0 .. Span[5] - 1
Level == 1 .. 4
Upper == (Span[5] \div 2) .. (Span[5] - 1)
Rights == {"write", "user", "exec", "cache"}
KERNEL_VMA == Span[5] - (LOW \div 2)            \* the top 2 GB

ASSUME GeometryAssumption ==
    /\ ENTRIES \in Nat \ {0} /\ ENTRIES % 2 = 0
    /\ LOW \in 1 .. (Span[5] \div 2) /\ LOW % (2 * Span[2]) = 0
    /\ Mmio \subseteq 0 .. LOW - 1
    /\ Frames \subseteq Nat \ {0} /\ IsFiniteSet(Frames)
    /\ MaxOps \in Nat

\* A region of the map: its type, its first page, and how many.
MachineAssumption ==
    \A m \in Machines :
        /\ m.frames \subseteq Frames
        /\ m.fb \in Nat /\ m.fbPages \in Nat \ {0} /\ m.rip \in 0 .. LOW - 1
        /\ m.regions \in Seq([type : {"code", "data", "other"}, base : Nat, pages : Nat])

ASSUME CallersAssumption ==
    /\ MachineAssumption
    /\ Virts \subseteq Page /\ Targets \subseteq Nat
    /\ FlagSets \subseteq SUBSET Rights

VARIABLES
    machine,
    table,        \* what the frames hold when they are tables; none at NULL
    free,         \* frames of the page allocator
    kernel_pml4,  \* g_kernel_paging.pml4
    spaces,       \* the PML4s callers got
    cr3,          \* NULL: the firmware's tables
    tlb,          \* what the processor has cached
    pc, next,     \* paging_init: the place of the last of its map calls
    ops,          \* calls made since
    done,         \* the last call and its result
    remapped,     \* ghost: pages mapped anew over a mapping, and not flushed
    orphaned      \* ghost: tables known to be lost

vars == <<machine, table, free, kernel_pml4, spaces, cr3, tlb, pc, next, ops,
          done, remapped, orphaned>>

NULL == 0
Row == Frames \cup {NULL}
Empty == [kind |-> "none", to |-> NULL, sub |-> NULL, flags |-> {}]
Blank == [k \in 0 .. ENTRIES - 1 |-> Empty]

\* to is a page, sub a table; that of an entry for a page is NULL.
PageEntry(p, flags) == [kind |-> "page", to |-> p, sub |-> NULL, flags |-> flags]

\* An entry for a table allows everything but access by users, unless asked.
TableEntry(f, flags) ==
    [kind |-> "table", to |-> NULL, sub |-> f,
     flags |-> {"write", "exec", "cache"} \cup (flags \cap {"user"})]

-----------------------------------------------------------------------------
(* Reading the tables *)

Index(v, l) == (v \div Span[l]) % ENTRIES
Base(v, l) == (v \div Span[l]) * Span[l]

\* The entry of each level on the way to v.  Under no table there is none.
Entry4(tab, root, v) == tab[root][Index(v, 4)]
Entry3(tab, root, v) == tab[Entry4(tab, root, v).sub][Index(v, 3)]
Entry2(tab, root, v) == tab[Entry3(tab, root, v).sub][Index(v, 2)]

\* get_table, level by level: the table of level l on the way to v, or NULL.
Table(tab, root, v, l) ==
    CASE l = 4 -> root
      [] l = 3 -> Entry4(tab, root, v).sub
      [] l = 2 -> Entry3(tab, root, v).sub
      [] l = 1 -> Entry2(tab, root, v).sub

Unmapped == [to |-> NULL, flags |-> {}, level |-> 0]

Leaf(e, v, l, flags) ==
    [to |-> e.to + (v % Span[l]), flags |-> e.flags \cap flags, level |-> l]

\* The processor's walk: a right holds when every level grants it.
Walk(tab, root, v) ==
    LET e4 == tab[root][Index(v, 4)]
        e3 == tab[e4.sub][Index(v, 3)]
        e2 == tab[e3.sub][Index(v, 2)]
        e1 == tab[e2.sub][Index(v, 1)]
    IN IF e3.kind = "page" THEN Leaf(e3, v, 3, e4.flags)
       ELSE IF e2.kind = "page" THEN Leaf(e2, v, 2, e3.flags \cap e4.flags)
       ELSE IF e1.kind = "page" THEN Leaf(e1, v, 1, e2.flags \cap e3.flags \cap e4.flags)
       ELSE Unmapped

paging_is_mapped(tab, root, v) == Walk(tab, root, v) # Unmapped

-----------------------------------------------------------------------------
(* Writing the tables *)

\* Where an operation is: what it made of tables and frames, and the table it
\* has reached (NULL: it gives up).
At(tab, fr, t) == [table |-> tab, free |-> fr, at |-> t]

\* A fresh table with contents c in entry k of table t.  Any frame will do.
Link(s, k, flags, c) ==
    LET f == CHOOSE x \in s.free : TRUE IN
    At([s.table EXCEPT ![s.at][k] = TableEntry(f, flags), ![f] = c],
       s.free \ {f}, f)

\* A bug: every page is the first one.
SplitToFirst(s, k) ==
    LET old == s.table[s.at][k] IN
    Link(s, k, old.flags,
         [j \in 0 .. ENTRIES - 1 |-> PageEntry(old.to, old.flags \cup {"exec"})])

\* split_2mb_page: the pages keep their rights but for the no-execute bit,
\* which is not among the twelve flags that are copied.
Split(s, k) ==
    LET old == s.table[s.at][k] IN
    Link(s, k, old.flags,
         [j \in 0 .. ENTRIES - 1 |-> PageEntry(old.to + j, old.flags \cup {"exec"})])

\* get_or_create_table of entry v of the table of level l reached; a large page
\* ends the way unless it can be split.
Descend(s, v, l, flags) ==
    IF s.at = NULL THEN s
    ELSE LET k == Index(v, l)  e == s.table[s.at][k] IN
         IF e.kind = "table" THEN At(s.table, s.free, e.sub)
         ELSE IF s.free = {} \/ (e.kind = "page" /\ l > 2) THEN At(s.table, s.free, NULL)
         ELSE IF e.kind = "page" THEN Split(s, k)
         ELSE Link(s, k, flags, Blank)

\* The way to the table of level l that holds the entry of v, made if need be.
Reach(root, v, l, flags) ==
    LET to3 == Descend(At(table, free, root), v, 4, flags)
        to2 == Descend(to3, v, 3, flags)
        to1 == Descend(to2, v, 2, flags)
    IN CASE l = 3 -> to3 [] l = 2 -> to2 [] l = 1 -> to1

-----------------------------------------------------------------------------
(* Calls *)

Failed == [op |-> "none", ok |-> FALSE]

\* A call that names the span of l's entry of v in the space of root.
Call(op, root, v, l, p, flags) ==
    [op |-> op, ok |-> TRUE, root |-> root, virt |-> Base(v, l),
     pages |-> Span[l], phys |-> p, flags |-> flags]

Refused == done' = Failed /\ UNCHANGED <<table, free, tlb, remapped, orphaned>>

\* Pages of the span that are mapped already, and not as they will be.
Overlaid(span, tab) ==
    {w \in span : cr3 # NULL /\ Walk(table, cr3, w) \notin {Unmapped, Walk(tab, cr3, w)}}

\* A bug: the page is written without looking whether there is a table.
MapUnchecked(root, v, p, l, flags) ==
    LET s == Reach(root, v, l, flags) IN
    /\ table' = [s.table EXCEPT ![s.at][Index(v, l)] = PageEntry(p, flags)]
    /\ free' = s.free
    /\ done' = Call("map", root, v, l, p, flags)
    /\ UNCHANGED <<tlb, remapped, orphaned>>

\* paging_map_page (l = 1), paging_map_2mb (2), paging_map_1gb (3): what the
\* entry held before is not looked at, and nothing is flushed.
Map(root, v, p, l, flags) ==
    LET s == Reach(root, v, l, flags)
        span == v .. v + Span[l] - 1
    IN IF v % Span[l] # 0 \/ p % Span[l] # 0 THEN Refused
       ELSE IF s.at = NULL
         THEN /\ table' = s.table /\ free' = s.free
              /\ done' = Failed
              /\ UNCHANGED <<tlb, remapped, orphaned>>
         ELSE /\ table' = [s.table EXCEPT ![s.at][Index(v, l)] = PageEntry(p, flags)]
              /\ free' = s.free
              /\ done' = Call("map", root, v, l, p, flags)
              /\ remapped' = remapped \cup Overlaid(span, table')
              /\ orphaned' = orphaned \cup
                     ({Table(s.table, root, w, k) : w \in span, k \in 1 .. l - 1} \ {NULL})
              /\ UNCHANGED tlb

\* A bug: the cached translation stays.
NoInvlpg(v) == UNCHANGED <<tlb, remapped>>

invlpg(v) ==
    /\ tlb' = {e \in tlb : v \notin e.base .. e.base + Span[e.level] - 1}
    /\ remapped' = remapped \ {v}

\* Replace the entry of level l for v, in the table t that holds it.
Rewrite(t, v, l, e) ==
    /\ table' = [table EXCEPT ![t][Index(v, l)] = e]
    /\ invlpg(v)
    /\ UNCHANGED <<free, orphaned>>

\* paging_unmap_page (l = 1) and paging_unmap_2mb (2).
Unmap(root, v, l) ==
    LET t == Table(table, root, v, l) IN
    IF t # NULL /\ table[t][Index(v, l)].kind = "page"
      THEN /\ Rewrite(t, v, l, Empty)
           /\ done' = Call("unmap", root, v, l, NULL, {})
      ELSE Refused

\* paging_set_flags: on a large page, all of it gets the new rights.
SetFlags(root, v, flags) ==
    LET w == Walk(table, root, v)
        t == Table(table, root, v, w.level)
    IN IF w # Unmapped
         THEN /\ Rewrite(t, v, w.level,
                         PageEntry(table[t][Index(v, w.level)].to, flags))
              /\ done' = Call("protect", root, v, w.level, NULL, flags)
         ELSE Refused

Roots == spaces \cup ({kernel_pml4} \ {NULL})

\* paging_create_address_space: the kernel's entries of the upper half, as they
\* are now.
Create ==
    LET f == CHOOSE x \in free : TRUE IN
    IF free = {} THEN Refused /\ UNCHANGED spaces
    ELSE /\ table' = [table EXCEPT ![f] =
                [k \in 0 .. ENTRIES - 1 |->
                    IF kernel_pml4 # NULL /\ k >= ENTRIES \div 2
                      THEN table[kernel_pml4][k] ELSE Empty]]
         /\ free' = free \ {f}
         /\ spaces' = spaces \cup {f}
         /\ done' = [op |-> "create", ok |-> TRUE, root |-> kernel_pml4, new |-> f]
         /\ UNCHANGED <<tlb, remapped, orphaned>>

\* The tables of a space, as <<level, first page>>, and the order in which
\* clone_table gets to them: down before on.
Nodes(root) ==
    {n \in Level \X Page : n[2] % Span[n[1] + 1] = 0 /\ Table(table, root, n[2], n[1]) # NULL}

Before(m, n) == m[2] < n[2] \/ (m[2] = n[2] /\ m[1] > n[1])

\* clone_table: copies of the first of the tables, as many as there are frames;
\* a table that gets none is left out of the copy, and so is what is below.
Clone(root) ==
    LET nodes == Nodes(root)
        Rank(n) == Cardinality({m \in nodes : Before(m, n)})
        copied == {n \in nodes : Rank(n) < Cardinality(free)}
        Copy(n) == CHOOSE f \in free : Cardinality({g \in free : g < f}) = Rank(n)
        CopyOfEntry(n, k) ==
            LET e == table[Table(table, root, n[2], n[1])][k]
                sub == <<n[1] - 1, n[2] + k * Span[n[1]]>>
            IN IF e.kind # "table" THEN e
               ELSE IF sub \in copied THEN [e EXCEPT !.sub = Copy(sub)] ELSE Empty
        new == Copy(<<4, 0>>)
    IN IF free = {} THEN Refused /\ UNCHANGED spaces
       ELSE /\ table' = [f \in Row |->
                IF \E n \in copied : Copy(n) = f
                  THEN LET n == CHOOSE m \in copied : Copy(m) = f IN
                       [k \in 0 .. ENTRIES - 1 |-> CopyOfEntry(n, k)]
                  ELSE table[f]]
            /\ free' = free \ {Copy(n) : n \in copied}
            /\ spaces' = spaces \cup {new}
            /\ done' = [op |-> "clone", ok |-> TRUE, root |-> root, new |-> new,
                        complete |-> copied = nodes]
            /\ UNCHANGED <<tlb, remapped, orphaned>>

\* A bug: the tables of the last level are forgotten.
BelowButLast(root, pages) ==
    {Table(table, root, v, l) : v \in pages, l \in 2 .. 3} \ {NULL}

\* The tables below the PML4 on the way to some page of pages.
Below(root, pages) ==
    {Table(table, root, v, l) : v \in pages, l \in 1 .. 3} \ {NULL}

\* A bug: the upper half is freed as well.
DestroyAll(root) ==
    LET gone == {root} \cup Below(root, Page) IN
    /\ root # cr3
    /\ free' = free \cup gone
    /\ table' = [f \in Row |-> IF f \in gone THEN Blank ELSE table[f]]
    /\ spaces' = spaces \ {root}
    /\ done' = [op |-> "destroy", ok |-> TRUE, root |-> root]
    /\ UNCHANGED <<tlb, remapped, orphaned>>

\* paging_destroy_address_space: the tables of the lower half and the PML4.  Of
\* the upper half, tables of its own are lost.  Callers destroy a space that is
\* not loaded.
Destroy(root) ==
    LET gone == {root} \cup Below(root, Page \ Upper) IN
    /\ root # cr3
    /\ free' = free \cup gone
    /\ table' = [f \in Row |-> IF f \in gone THEN Blank ELSE table[f]]
    /\ spaces' = spaces \ {root}
    /\ orphaned' = orphaned \cup
           (Below(root, Upper) \ UNION {Below(r, Upper) : r \in Roots \ {root}})
    /\ done' = [op |-> "destroy", ok |-> TRUE, root |-> root]
    /\ UNCHANGED <<tlb, remapped>>

\* Loading CR3 empties the cache.
load_cr3(root) == cr3' = root /\ tlb' = {} /\ remapped' = {}

\* The processor caches a translation; one is kept at a time.
Fill(v) ==
    LET w == Walk(table, cr3, v) IN
    /\ cr3 # NULL /\ w # Unmapped
    /\ tlb' = {[base |-> Base(v, w.level), level |-> w.level,
                to |-> w.to - (v % Span[w.level]), flags |-> w.flags]}
    /\ UNCHANGED <<machine, table, free, kernel_pml4, spaces, cr3, pc, next, ops,
                   done, remapped, orphaned>>

-----------------------------------------------------------------------------
(* paging_init *)

\* A call has its place in the order: its step, the region, and which it is of these.
MapCall(place, l, v, p, flags) ==
    [place |-> place, level |-> l, virt |-> v % Span[5], phys |-> p, flags |-> flags]
Earlier(p, q) ==
    p[1] < q[1] \/ (p[1] = q[1] /\ (p[2] < q[2] \/ (p[2] = q[2] /\ p[3] < q[3])))

\* A bug: a large page that is needed in part is left out.
LargePagesWhole(a, b) ==
    [k \in 1 .. (b - Base(a, 2)) \div Span[2] |-> Base(a, 2) + (k - 1) * Span[2]]

\* The large pages from the one that holds a on, as far as b.
LargePages(a, b) ==
    [k \in 1 .. (b + Span[2] - 1 - Base(a, 2)) \div Span[2] |-> Base(a, 2) + (k - 1) * Span[2]]

\* They are mapped onto themselves, those in uncached without caching.
Identities(step, pages, uncached) ==
    {MapCall(<<step, 0, k>>, 2, pages[k], pages[k],
             {"write", "exec"} \cup IF pages[k] \in uncached THEN {} ELSE {"cache"})
        : k \in DOMAIN pages}

Step1 == Identities(1, LargePages(0, LOW), Mmio)
Step2 == IF machine.fb < LOW THEN {}
         ELSE Identities(2, LargePages(machine.fb, machine.fb + machine.fbPages), Page)

\* The loader's regions, page by page, at KERNEL_VMA plus their physical address.
HigherHalf(n, region) ==
    IF region.type = "other" THEN {}
    ELSE {MapCall(<<3, n, k>>, 1, KERNEL_VMA + region.base + k - 1, region.base + k - 1,
                  IF region.type = "code" THEN {"exec", "cache"}
                                          ELSE {"write", "exec", "cache"})
             : k \in 1 .. region.pages}
Step3 == UNION {HigherHalf(n, machine.regions[n]) : n \in DOMAIN machine.regions}

max_phys == Max({0} \cup {machine.regions[k].base + machine.regions[k].pages :
                             k \in DOMAIN machine.regions})
Step4 == IF max_phys > LOW THEN Identities(4, LargePages(LOW, max_phys), {}) ELSE {}

\* The calls that are left.
BootCalls == {c \in Step1 \cup Step2 \cup Step3 \cup Step4 : Earlier(next, c.place)}

Init ==
    /\ machine \in Machines
    /\ table = [f \in Row |-> Blank]
    /\ free = machine.frames
    /\ kernel_pml4 = NULL /\ spaces = {}
    /\ cr3 = NULL /\ tlb = {}
    /\ pc = "init" /\ next = <<0, 0, 0>> /\ ops = 0
    /\ done = Failed
    /\ remapped = {} /\ orphaned = {}

\* Without a page for the PML4 the kernel goes on with the firmware's tables.
InitPml4 ==
    /\ pc = "init"
    /\ IF free = {}
         THEN pc' = "ready" /\ UNCHANGED <<free, kernel_pml4, done>>
         ELSE LET f == CHOOSE x \in free : TRUE IN
              /\ free' = free \ {f}
              /\ kernel_pml4' = f
              /\ done' = [op |-> "start", ok |-> TRUE, new |-> f]
              /\ pc' = "map"
    /\ UNCHANGED <<machine, table, spaces, cr3, tlb, next, ops, remapped, orphaned>>

\* Steps 1 to 4: whether a call succeeds is not looked at.
BootMap ==
    /\ pc = "map"
    /\ \E c \in BootCalls :
          /\ \A d \in BootCalls : ~Earlier(d.place, c.place)
          /\ Map(kernel_pml4, c.virt, c.phys, c.level, c.flags)
          /\ next' = c.place
    /\ UNCHANGED <<machine, kernel_pml4, spaces, cr3, pc, ops>>

Verified ==
    /\ paging_is_mapped(table, kernel_pml4, machine.fb)
    /\ paging_is_mapped(table, kernel_pml4, machine.rip)

\* Steps 5 and 6: unless the frame buffer and the code are mapped, the kernel
\* goes on with the firmware's tables.
Activate ==
    /\ pc = "map" /\ BootCalls = {}
    /\ IF Verified THEN load_cr3(kernel_pml4) ELSE UNCHANGED <<cr3, tlb, remapped>>
    /\ pc' = "ready"
    /\ UNCHANGED <<machine, table, free, kernel_pml4, spaces, next, ops, done, orphaned>>

-----------------------------------------------------------------------------

\* A call made once paging_init is over.
Calls ==
    /\ pc = "ready" /\ ops < MaxOps
    /\ ops' = ops + 1
    /\ UNCHANGED <<machine, kernel_pml4, pc, next>>

MapPage == \E r \in Roots, v \in Virts, p \in Targets, fl \in FlagSets :
    Calls /\ Map(r, v, p, 1, fl) /\ UNCHANGED <<spaces, cr3>>
MapLarge == \E r \in Roots, v \in Virts, p \in Targets, l \in {2, 3}, fl \in FlagSets :
    Calls /\ Map(r, v, p, l, fl) /\ UNCHANGED <<spaces, cr3>>
UnmapPage == \E r \in Roots, v \in Virts :
    Calls /\ Unmap(r, v, 1) /\ UNCHANGED <<spaces, cr3>>
UnmapLarge == \E r \in Roots, v \in Virts :
    Calls /\ Unmap(r, v, 2) /\ UNCHANGED <<spaces, cr3>>
Protect == \E r \in Roots, v \in Virts, fl \in FlagSets :
    Calls /\ SetFlags(r, v, fl) /\ UNCHANGED <<spaces, cr3>>
CreateSpace == Calls /\ Create /\ UNCHANGED cr3
CloneSpace == \E r \in Roots : Calls /\ Clone(r) /\ UNCHANGED cr3
DestroySpace == \E r \in spaces : Calls /\ Destroy(r) /\ UNCHANGED cr3
Switch == \E r \in Roots :
    Calls /\ load_cr3(r) /\ UNCHANGED <<table, free, spaces, done, orphaned>>

Next ==
    \/ InitPml4 \/ BootMap \/ Activate
    \/ MapPage \/ MapLarge \/ UnmapPage \/ UnmapLarge \/ Protect
    \/ CreateSpace \/ CloneSpace \/ DestroySpace \/ Switch
    \/ \E v \in Virts : Fill(v)

Spec == Init /\ [][Next]_vars

-----------------------------------------------------------------------------
(* Properties *)

\* Every variable has a value of its kind; tables and CR3 name frames.
TypeOK ==
    /\ machine \in Machines
    /\ table \in [Row -> [0 .. ENTRIES - 1 ->
                     [kind : {"none", "table", "page"}, to : Nat,
                      sub : Row, flags : SUBSET Rights]]]
    /\ table[NULL] = Blank
    /\ free \subseteq Frames /\ spaces \subseteq Frames
    /\ {kernel_pml4, cr3} \subseteq Row
    /\ pc \in {"init", "map", "ready"} /\ next \in Nat \X Nat \X Nat /\ ops \in 0 .. MaxOps
    /\ remapped \subseteq Page /\ orphaned \subseteq Frames

\* The tables form trees: none is free, and none is reached by two ways, unless
\* from two spaces at the same place of the upper half (get_or_create_table,
\* the copied entries of paging_create_address_space, clone_table, free_table).
TablesSound ==
    LET places == UNION {{<<r, n, Table(table, r, n[2], n[1])>> : n \in Nodes(r)} : r \in Roots}
    IN /\ \A a \in places : a[3] \notin free
       /\ \A a, b \in places : a[3] = b[3] =>
              /\ a[2] = b[2]
              /\ a[1] = b[1] \/ (a[2][2] \in Upper /\ a[2][1] < 4)

\* A frame is free, in use by a space, or one of the tables that the code is
\* known to lose: below an entry overwritten with a large page, or of the upper
\* half of a space that was destroyed, clone or not, when no other shares it.
\* Nothing else leaks, however calls fail.
NoLeak ==
    machine.frames \subseteq
        free \cup orphaned \cup Roots \cup UNION {Below(r, Page) : r \in Roots}

\* What the processor has cached, it would find again, with those rights at
\* least: unmapping, new rights, splitting and destroying leave nothing stale.
\* Pages that were mapped over a mapping are the exception.
TlbCoherent ==
    \A e \in tlb : \A v \in (e.base .. e.base + Span[e.level] - 1) \ remapped :
        LET w == Walk(table, cr3, v) IN
        /\ w # Unmapped
        /\ w.to = e.to + (v - e.base)
        /\ e.flags \subseteq w.flags

Identity(p) ==
    LET w == Walk(table, kernel_pml4, p) IN w # Unmapped /\ w.to = p /\ "write" \in w.flags

\* When paging_init loads its tables and memory has not run out, the first 4 GB,
\* all memory the firmware reports, and the frame buffer are where they were, the
\* APICs' registers are not cached, and the loader's pages are in the higher half.
ActivationComplete ==
    [][cr3 = NULL /\ cr3' # NULL /\ free # {} =>
          /\ \A p \in 0 .. LOW - 1 : Identity(p)
          /\ \A p \in LOW .. max_phys - 1 : Identity(p)
          /\ \A p \in machine.fb .. machine.fb + machine.fbPages - 1 : Identity(p)
          /\ \A p \in Mmio : "cache" \notin Walk(table, kernel_pml4, p).flags
          /\ \A k \in DOMAIN machine.regions : machine.regions[k].type # "other" =>
                 \A p \in machine.regions[k].base ..
                            machine.regions[k].base + machine.regions[k].pages - 1 :
                     Walk(table, kernel_pml4, (KERNEL_VMA + p) % Span[5]).to = p]_vars

\* Address spaces are what AddressSpaces promises: a call changes what it names,
\* in the space it names, and the lower half of a space is its own.
Promise == INSTANCE AddressSpaces WITH
    space <- [r \in Roots |-> [v \in Page |-> Walk(table, r, v)]], NoSpace <- NULL
ImplementsAddressSpaces == Promise!Spec

=============================================================================
