-------------------------------- MODULE PMM --------------------------------
(***************************************************************************)
(* The physical page allocator (pmm.c) over the parsed memory map.         *)
(*                                                                         *)
(* Free pages form a LIFO list threaded through the pages themselves: the  *)
(* first word of a free page holds the address of the next free page, 0    *)
(* ends the list, and 0 is also the address of the first page, which is    *)
(* therefore never pushed.  A page that has been handed out belongs to its *)
(* holder (page tables, heap, address spaces), who writes what it likes in *)
(* it, the link word included.                                             *)
(***************************************************************************)
EXTENDS MemoryMap, FiniteSets

CONSTANTS Clients,   \* the parts of the kernel that hold pages
          Words      \* the values they write

ASSUME WordsAssumption == Words \subseteq Page /\ Words # {}

VARIABLES
    next,          \* the first word of every page
    i, p,          \* pmm_init's loop counters: region and page in the region
    free_list, total_pages, free_pages, used_pages,   \* g_pmm
    held,          \* the pages each client holds
    result         \* what the last pmm_alloc_page returned

pmmVars == <<next, i, p, free_list, total_pages, free_pages, used_pages>>
clientVars == <<held, result>>
vars == <<pc, mapVars, pmmVars, clientVars>>

Held == UNION {held[c] : c \in Clients}

Init ==
    /\ MapInit
    /\ next \in [Page -> Words]
    /\ i = 0 /\ p = 0
    /\ free_list = NULL
    /\ total_pages = 0 /\ free_pages = 0 /\ used_pages = 0
    /\ held = [c \in Clients |-> {}]
    /\ result = NULL

-----------------------------------------------------------------------------
(* pmm_init *)

\* One iteration of the first loop: every region counts, whatever its type.
CountRegion ==
    /\ pc = "pmm_total"
    /\ i < count
    /\ total_pages' = total_pages + regions[i].pages
    /\ i' = i + 1
    /\ UNCHANGED <<pc, mapVars, next, p, free_list, free_pages, used_pages,
                   clientVars>>

TotalDone ==
    /\ pc = "pmm_total"
    /\ i = count
    /\ pc' = "pmm_push"
    /\ i' = 0
    /\ UNCHANGED <<mapVars, next, p, free_list, total_pages, free_pages,
                   used_pages, clientVars>>

\* The second loop is at a page of a conventional region.
AtPage ==
    /\ pc = "pmm_push"
    /\ i < count
    /\ regions[i].type = EfiConventionalMemory
    /\ p < regions[i].pages

page_addr == regions[i].base + p

\* A bug: the node ends the list instead of leading it.
PushLosingRest(node) ==
    /\ next' = [next EXCEPT ![node] = NULL]
    /\ free_list' = node
    /\ free_pages' = free_pages + 1

\* Link node in at the head of the list.
Push(node) ==
    /\ next' = [next EXCEPT ![node] = free_list]
    /\ free_list' = node
    /\ free_pages' = free_pages + 1

\* A bug: the null page is pushed like any other.
PushNullToo ==
    /\ AtPage
    /\ Push(page_addr)
    /\ p' = p + 1
    /\ UNCHANGED <<pc, mapVars, i, total_pages, used_pages, clientVars>>

PushPage ==
    /\ AtPage
    /\ page_addr # NULL
    /\ Push(page_addr)
    /\ p' = p + 1
    /\ UNCHANGED <<pc, mapVars, i, total_pages, used_pages, clientVars>>

SkipNullPage ==
    /\ AtPage
    /\ page_addr = NULL
    /\ used_pages' = used_pages + 1
    /\ p' = p + 1
    /\ UNCHANGED <<pc, mapVars, next, i, free_list, total_pages, free_pages,
                   clientVars>>

NextRegion ==
    /\ pc = "pmm_push"
    /\ i < count
    /\ regions[i].type = EfiConventionalMemory => p = regions[i].pages
    /\ i' = i + 1
    /\ p' = 0
    /\ UNCHANGED <<pc, mapVars, next, free_list, total_pages, free_pages,
                   used_pages, clientVars>>

InitDone ==
    /\ pc = "pmm_push"
    /\ i = count
    /\ pc' = "running"
    /\ UNCHANGED <<mapVars, pmmVars, clientVars>>

-----------------------------------------------------------------------------
(* The operations and their callers *)

\* The head of the list goes to client c, and rest is the list's new head.
Take(c, rest) ==
    /\ pc = "running"
    /\ free_list' = rest
    /\ free_pages' = free_pages - 1
    /\ used_pages' = used_pages + 1
    /\ result' = free_list
    /\ held' = [held EXCEPT ![c] = @ \cup {free_list}]
    /\ UNCHANGED <<pc, mapVars, next, i, p, total_pages>>

\* Two bugs: the empty list is not tested; the head stays where it was.
AllocUnguarded(c) == Take(c, next[free_list])
AllocKeepsHead(c) == free_list # NULL /\ Take(c, free_list)

\* pmm_alloc_page, called by client c.
AllocPage(c) ==
    /\ free_list # NULL
    /\ Take(c, next[free_list])

AllocFails ==
    /\ pc = "running"
    /\ free_list = NULL
    /\ result' = NULL
    /\ UNCHANGED <<pc, mapVars, pmmVars, held>>

GiveBack(c, page, used) ==
    /\ pc = "running"
    /\ Push(page)
    /\ used_pages' = used
    /\ held' = [held EXCEPT ![c] = @ \ {page}]
    /\ UNCHANGED <<pc, mapVars, i, p, total_pages, result>>

\* Two bugs: a caller frees a page it does not hold; used_pages is left alone.
FreeUnheld(c, page) == GiveBack(c, page, used_pages - 1)
FreeUncounted(c, page) == page \in held[c] /\ GiveBack(c, page, used_pages)

\* pmm_free_page of a page its caller holds: the code checks nothing itself.
FreePage(c, page) ==
    /\ page \in held[c]
    /\ GiveBack(c, page, used_pages - 1)

\* A client writes the first word of a page it holds.
ClientWrite(c, page, w) ==
    /\ pc = "running"
    /\ page \in held[c]
    /\ next' = [next EXCEPT ![page] = w]
    /\ UNCHANGED <<pc, mapVars, i, p, free_list, total_pages, free_pages,
                   used_pages, clientVars>>

InitNext ==
    \/ CountRegion \/ TotalDone \/ PushPage \/ SkipNullPage
    \/ NextRegion \/ InitDone

ClientNext ==
    \/ AllocFails
    \/ \E c \in Clients : AllocPage(c)
    \/ \E c \in Clients, page \in Page : FreePage(c, page)
    \/ \E c \in Clients, page \in Page, w \in Words : ClientWrite(c, page, w)

Next == (MapNext /\ UNCHANGED <<pmmVars, clientVars>>) \/ InitNext \/ ClientNext

Spec == Init /\ [][Next]_vars

-----------------------------------------------------------------------------
(* What the pages are *)

\* The usable frames of region k: conventional memory but for the null page.
Usable(k) ==
    IF regions[k].type = EfiConventionalMemory THEN Frames(regions[k]) \ {NULL} ELSE {}

\* The frames of the region under the cursor that the loop has passed.
Passed == {regions[i].base + k : k \in 0 .. p - 1} \ {NULL}

\* The pages pmm_init has given to the allocator so far.
Managed ==
    IF pc \notin {"pmm_push", "running"} THEN {}
    ELSE (UNION {Usable(k) : k \in 0 .. i - 1}) \cup Passed

FreePages == Managed \ Held

-----------------------------------------------------------------------------
(* Properties *)

TypeOK ==
    /\ pc \in {"get_size", "allocate_pool", "get_map", "parse",
               "pmm_total", "pmm_push", "running"}
    /\ firmware \in FirmwareMaps
    /\ mmp \in [map : BOOLEAN, desc : FirmwareMaps \cup {<<>>}]
    /\ capacity \in Nat /\ desc_counter \in Nat /\ count \in Nat
    /\ regions \in [0 .. MaxRegions - 1 -> Descriptor]
    /\ total_memory \in Nat /\ free_memory \in Nat
    /\ next \in [Page -> Page]
    /\ i \in Nat /\ p \in Nat
    /\ free_list \in Page /\ result \in Page
    /\ total_pages \in Nat /\ free_pages \in Nat /\ used_pages \in Int
    /\ held \in [Clients -> SUBSET Page]

\* s reads a list of n nodes along its links: it starts at head, repeats no
\* node, holds exactly the nodes of S, and its last link is NULL.
IsList(s, n, S, head, link) ==
    /\ \A k, l \in 1 .. n : k # l => s[k] # s[l]
    /\ S = {s[k] : k \in 1 .. n}
    /\ head = IF n = 0 THEN NULL ELSE s[1]
    /\ \A k \in 1 .. n : link[s[k]] = IF k = n THEN NULL ELSE s[k + 1]

\* The list threaded through the pages is sound at every moment, whatever the
\* clients wrote in the pages they hold: no free page is lost, no page is on
\* the list twice or while it is held, and free_pages is its length.
FreeListSound ==
    \E s \in [1 .. free_pages -> FreePages] :
        IsList(s, free_pages, FreePages, free_list, next)

\* No page is held by two clients, and every held page is usable memory.
NoPageShared ==
    /\ Held \subseteq Managed
    /\ \A c, d \in Clients : c # d => held[c] \cap held[d] = {}

\* The counters of g_pmm and of g_memory_map tell the truth: pages in use are
\* those held and the null page, and free and used pages together are what the
\* memory map calls free.
CountersTrue ==
    pc = "running" =>
        /\ used_pages = Cardinality(Held)
              + Cardinality({k \in 0 .. count - 1 :
                     /\ regions[k].type = EfiConventionalMemory
                     /\ NULL \in Frames(regions[k])})
        /\ free_pages + used_pages = free_memory
        /\ total_pages = total_memory

\* What a client keeps in a page changes only when that client writes it: no
\* allocation, release or other client's write touches a page that is held.
ContentsPrivate ==
    [][\A c \in Clients : \A page \in held[c] \cap held'[c] :
         next'[page] # next[page] => \E w \in Words : ClientWrite(c, page, w)]_vars

\* The allocator implements PageAllocator: the pages threaded on its list are
\* the available ones, and the list is empty only when no page is available.
Abstract == INSTANCE PageAllocator
    WITH Pages <- Page, NoPage <- NULL, avail <- FreePages

ImplementsPageAllocator == Abstract!Spec

=============================================================================
