# Mini-User-OS: a TLA+ model

Mini-User-OS is a small x86-64 kernel that starts as a UEFI application, takes
the machine over from the firmware and ends in an idle loop with a timer and a
keyboard. These modules model its code, under `src/`, and say what is checked of
it with TLC and proved of it with TLAPS. Paths below are relative to `src/`.

## The system

| Part | Code | State | Operations | Talks to |
|---|---|---|---|---|
| Memory map capture | `src/Initialize/saveMemoryMap.c` | `mmp` | `SaveMemoryMap` | firmware |
| Memory map parser | `src/MemoryManager/uefiMapParser.c` | `g_memory_map` | `ParseMemoryMap` | reads `mmp` |
| Page allocator | `src/MemoryManager/pmm.c` | `g_pmm`, a list threaded through free pages | `pmm_init`, `pmm_alloc_page`, `pmm_free_page` | reads `g_memory_map`; called by heap, page tables, VMM |
| Page tables | `src/MemoryManager/paging.c` | `kernel_pml4` and the tables | map, unmap, set flags, clone, free, `paging_init` | page allocator, CPU (CR3, TLB) |
| VMM | `src/MemoryManager/vmm.c` | address spaces, their region lists | alloc, free, brk, stack, map, protect, clone, switch | page tables, page allocator, heap |
| Heap | `src/MemoryManager/heap.c` | blocks from `HEAP_START` on | `heap_init`, `kmalloc`, `kcalloc`, `krealloc`, `kfree` | page tables, page allocator |
| Interrupts | `src/Tables/idt.c` | `idt`, `handlers` | gates, registration, `interrupt_common_handler` | CPU; calls the drivers |
| APIC | `src/Root/apic.c` | local and I/O APIC registers | `apic_init` and its parts, end of interrupt | CPU, controller |
| Keyboard | `src/Drivers/keyboard.c`, `keyboard_init` in `apic.c` | ring buffer, modifiers | handler, `try_get_key`, `keyboard_clear_buffer` | controller, APIC |
| Timer | `src/Drivers/timer.c` | `timer_ticks`, the APIC timer | three calibrations, `timer_init`, handler | APIC, PIT, console |
| Console | `src/Initialize/baseConsole.c` | cursor, colours | `console_putchar` and the prints | graphics; called from everywhere, the timer's handler included |
| Graphics | `src/Initialize/baseGraphic.c` | mode, frame buffer | modes, drawing | firmware (GOP) |
| ACPI, SMBIOS | `src/Initialize/systemTables.c` | `SystemTables` | search of tables | firmware tables |
| GDT, TSS | `src/Tables/gdt.c` | the tables | written once | CPU |
| Boot | `src/kernel.c`, `src/main.c`, `src/Root/uefiSetting.c` | - | the order of all of the above | all |

One processor runs one flow of control, and interrupt handlers interrupt it from
`interrupts_enable` (`src/main.c:101`) on, behind interrupt gates: a handler is
not interrupted itself. So there are two sources of difficulty.

*Data structures laid out in raw memory*: the page allocator's list lives in the
pages it manages, the heap's headers lie between the objects, page tables are
pages. A mistake shows many calls later and elsewhere. What makes these parts
correct: a page has one holder, blocks tile the heap, an object's bytes are its
owner's, a translation is what was mapped last; allocation that fails is noticed.

*Order*: between firmware and kernel at boot, between the hardware's interrupts
and the flow they interrupt, between two accesses to state that a handler shares.
What makes these parts correct: the map used is the firmware's last one, no
interrupt is lost or left unfinished, keys come in order, a shared structure is
consistent whenever a handler looks.

`PROJECT.json` lists every component with what is modelled of it, and the
hazards, each at its line.

## Modules

| Module | Models | State and actions |
|---|---|---|
| `MemoryMap` | `SaveMemoryMap`, `ParseMemoryMap` | `mmp`, `regions`, `count`, ...; one action per firmware call and per descriptor |
| `PMM` (EXTENDS `MemoryMap`) | `pmm.c` and those who hold pages | the first word of every page (`next`), `g_pmm`'s fields; one action per iteration of `pmm_init`'s loops, per allocation, release, and write by a holder |
| `PageAllocator` | what the page allocator promises | available pages, each client's pages |
| `Heap` | `heap.c` | `hdr` (headers by address), `heap_current_size`; a call is a run of actions, one per loop iteration, over the locals `current`, `size`, `new_size` |
| `ObjectStore` | what the heap promises | the set of live objects |
| `Keyboard` | `keyboard.c`, the path of IRQ1 in `apic.c`, the boot steps of `main.c` that matter to it | ring buffer and modifiers, I/O APIC mask, APIC request and in-service bits, controller's output buffer; the handler is one action, the main flow one action per access to shared state |
| `KeyQueue` | what the driver promises its reader | a bounded queue that drops what does not fit |
| `Paging` | `paging.c` and the processor's use of the tables | the tables (`table`), free frames, PML4s, CR3, cached translations; `paging_init` is one action per map call, each later call an action |
| `AddressSpaces` | what page tables promise | a partial function from pages to mappings for each space, and the last call |
| `VMM` | `vmm.c` over the page tables and the page allocator's promise | memory word by word (`mem`), the allocator's pages (`avail`), `spaces` with their region lists; a call is one action |
| `Console` | `baseConsole.c`, `interrupt_common_handler` and the gates of `idt.c`, the timer's handler, the APIC's priorities | cursor and pixels (`con`), the main flow's place (`main`), requests and what is in service; the main flow has one action per access to what handlers share, a handler is one action |
| `SystemTables` | `systemTables.c` | operators only: searches and walks over tables that are laid out word by word and byte by byte |
| `Boot` (EXTENDS `SystemTables`) | `kernel.c`, `main.c`, `uefiSetting.c`, `gdt.c`, `idt.c`, the calibrations of `timer.c`, the choice of a mode in `baseGraphic.c` | the machine `m`, the next step `at`, the processor's tables, the APIC's timer, the memory map's key; one action per step of the boot and one per exception |
| `MCPMM`, `MCPaging`, `MCVMM`, `MCConsole`, `MCBoot` | | values for the runs |
| `PMM_proofs`, `Heap_proofs`, `Keyboard_proofs`, `Paging_proofs`, `VMM_proofs`, `Console_proofs`, `Boot_proofs` | | the inductive invariant of the module named, and the theorems that follow from it |
| `VMM_areas` (EXTENDS `VMM_proofs`) | | that the areas in a space's list are what its tables map |

Bodies named "a bug" next to a definition are variants of it as a programmer
might get it wrong; no specification uses them. Putting one in the place of the
definition it varies must break the property `PROJECT.json` names, and does.

### MemoryMap and PMM

`GetMapSize`, `AllocatePool` and `GetMap` are `SaveMemoryMap`. The pool allocation
may change the map the firmware would report (`firmware'` is any of
`FirmwareMaps`) and the code allows for it with a larger buffer (`Slack`); if the
second query still fails, the function frees the buffer and returns an empty map.
Frames are page numbers, addresses are page numbers as well, and `NULL` is frame 0,
as it is in the code. Assumed, not checked by the code: descriptors do not overlap
(`FirmwareAssumption`), and a map fits in the 128 entries of the parser's table
(`FirmwareFits`, a hazard of its own). Nor is any shorter than `EFI_MEMORY_DESCRIPTOR`,
which `ParseMemoryMap` checks.

The list of free pages is the function `next`, which holders of pages overwrite
with arbitrary words (`ClientWrite`): a page that is on the list and held at the
same time shows as a corrupted list. The sets `held` are the callers': an allocator
without checks is correct only for callers that free what they hold, so `FreePage`
asks for it. Heap and page tables do that; where `vmm.c` does not, `VMM` says so.

### Heap

`Kmalloc`, `Kcalloc`, `Krealloc` and `Kfree` begin a call, and the actions that
follow run it: `ScanNext`/`ScanFits` are `kmalloc`'s loop with `split_block`;
`Expand`, `FindLast`, `Link`, `Merge`, `GrowMergeDone`, `Grown` its growth up to the
recursive call; `FreeMergeBegin`, `Merge`, `FreeNext` the walk of `kfree`.
`krealloc` is `kmalloc`, a copy, and `kfree`. Contents are one number per object:
`good`, the bytes at its front that hold what the operation promises (zeros after
`kcalloc`, the old contents after `krealloc`). `frames` counts the page allocator's
pages. A growth takes one for each heap page and one for each page table that
`paging_map_page` finds missing on the way to it (`FramesNeeded`: three levels of
tables of `TABLE` entries, from `HEAP_START` on, where tables of all levels begin).
`heap.c` looks neither at the allocator's answer nor at `paging_map_page`'s, so a page
for which either is missing ends up in frame 0 or nowhere; it is in `unbacked`. With
the first such page the model stops, as what an access to it does is not known.

Nothing interrupts a call, as no handler allocates; the steps are there for the
loops' termination, for the states in mid-call that the proof needs, and for the
call depth. Callers free and resize live objects only, so `magic` is always intact
and the checks against double frees are not modelled.

### Keyboard

`Type`, `Load` and `RaiseIrq` are hardware. The controller's output buffer keeps
its byte after it was read; a byte that enters it while the controller's interrupt
is enabled sets the request bit of the vector unless the I/O APIC entry is masked.
The boot sequence is there because it shares all of this: it unmasks IRQ1, reads
and drops bytes, takes whatever byte comes first for the controller's
configuration, another one for the keyboard's acknowledgement, resets the driver
and only then lets interrupts through. `KeyboardDriverHandler` is atomic (interrupt
gate), and reads port 0x60 whether or not the buffer is full, as the code does.
`try_get_key` and `keyboard_clear_buffer` are cut between their accesses to the
indices and the slot. The order of these accesses is taken to be the program's:
the indices are `volatile`, the slots are not.

Ghosts: every byte has an identity, `taken` holds those read during boot, `drained`
those of them that the two loops threw away (the others were taken for answers), and
`lost` counts the keys that `buffer_push` dropped.

### Paging

Four levels as in the code, with `ENTRIES` entries to a table. An entry is empty, a
table or a page; rights are sets. Frames of tables and mapped physical pages are
different kinds of numbers: no property needs a page to be both. `pmm_alloc_page` is
the choice of a free frame, which `PMM` justifies, and which frame it is makes no
difference to a definition. `Reach` is the way down that makes missing tables
(`get_or_create_table`, `get_or_create_pt` with `split_2mb_page`); when frames run
out, what was made stays. `Walk` is the processor's: a right must be granted on all
levels. A PML4 or table that was freed is blank, and whoever still names it fails
`TablesSound`.

`clone_table` is recursive; `Clone` says what it amounts to: tables are copied in
the order of a walk down before on, as long as frames last: table number n of that
order (`Rank`) gets frame number n of those that are free (`Copy`). `free_table` is the set
of tables below (`Below`); that no table is freed twice is the part of `TablesSound`
that no two ways lead to one.

`paging_init` makes map calls in its steps 1 to 4, and ignores their results. A
call carries its place in the order (step, region, which of these); `BootCalls` is
the set of those after the last one made (`next`, `Earlier`), and `BootMap` makes
the first of them. Then come the verification and the load of CR3. Wherever it returns
early the kernel goes on with the firmware's tables (`cr3` is `NULL`), and callers
may call. They do not destroy the space that is loaded.

`Fill` caches a translation. One is enough, as coherence is about each by itself.
`remapped` are pages that were mapped over a mapping since the last flush: the code
flushes nothing there, as callers unmap first. `orphaned` are the tables that the
code is known to lose: those below an entry that a large page replaces, and the
upper half of a space, clone or not, that is destroyed while no other shares it
(`paging_destroy_address_space` frees the lower half only, which is right for spaces
that share the kernel's tables).

What the model shows of the code besides: a page mapped for users below a table that
was made for the kernel is not accessible to users (`AsAsked` allows fewer rights),
and a split drops the no-execute bit (`Kept` allows it).

### VMM

A call of `vmm.c` is one action: nothing else runs in it, and the order of the
steps inside is kept by the operators it is made of, which hand on the state `s` of
the call (memory, allocator, region list, how it goes, whether a page was asked for
in vain). So memory can run out at every `pmm_alloc_page` of every call. `Back` is
the loop that takes, clears and maps pages, `Rollback` and `Drop` the loops that undo
and free, `Occupy` and `Release` the ends of `vmm_alloc_pages_at` and
`vmm_free_pages` that cut and merge regions. Each loop of the code is `Loop`, the
function of the state after its first turns, with the body as its argument. Three
levels of tables stand for four.
Memory is the pages 1 to `TOP - 1`, of which the allocator's are `Frames`; a device's
page, the kernel's structure, the loader's page that the kernel runs in (`Code`) and the
kernel's tables are others (`FramesAssumption`).

The kernel's tables are what `paging_init` leaves (`BootMem`): memory at its own
addresses by large pages, in the directories `KernelDirs`, and the loader's pages once
more from `KERNEL_VMA` on, by small pages, in a directory and a table of their own
(`HighDir`, `HighTable`), which every created space shares. One loader's page stands for
all, and the pages of the kernel's first heap, which `heap_init` maps, are left out. A
map call at a large page splits it (`split_2mb_page`): it takes a frame for the table,
fills it with the pieces and puts it in the large page's place, and when there is no
frame maps nothing. Page 0 counts as no page, as the address 0 that `virt_to_phys`
returns for it does.

Pages are words, because the code takes pages for what they are not:
`free_page_table_level` goes one level too deep and frees what the words of a mapped
page name (`FreeLeaf`), which `Store` lets a program write. `virt_to_phys` returns an
entry with its no-execute bit, and an address with that bit is not canonical: freeing
it stops the machine (`fate` is `halted`). A page given to the allocator that it has
already, or that was never its, is a `breach`. Behind either nothing is modelled.

Each way in which the code loses a frame or stops is named in `LossesExplained` and
`StopsExplained`; outside of those the invariants hold. No call checks that an address
is the user's: pages that a program's space maps in the kernel's half are lost with
the space (`OwnAbove`; `vmm_destroy_address_space` frees the lower half). A call for an
address that `paging_init` mapped (`KernelsOwn`: all memory in the kernel's space, the
loader's pages in every space) frees or remaps pages that are in use, directly or after
the split of a large page, and is one of the exceptions (`mingled`, by `Minded`). So is
a clone, which copies the tables
right below its PML4 and shares all that they lead to: what one space frees, the other
goes on using. `plain` spaces are those used
through `vmm_alloc_pages`, `vmm_free_pages` and `vmm_protect` of whole areas only: the
other calls do not keep list and tables in step (`vmm_map_physical` and
`vmm_setup_stack` leave the free region they lie in, `vmm_free_pages` of a part frees
the region). A `vmm_alloc_pages_at` with an address ends it even when it fails: it asks
for the region of the first page only, so from below the user's part it can map over the
pages of an area in use, and when memory runs out it unmaps and frees what it
finds there. Callers do not destroy the kernel's space or the one that is loaded.

### Console

`Begin` and the actions under `Printing` are `console_putchar` and `console_clear` in
the main flow, cut where a handler can see or change the cursor: `x + 1` is read
(`ReadX`), stored (`StoreX`), and compared after that. A handler runs behind an
interrupt gate, so its printing is the operator `console_putchar`, one step. The
screen is a frame buffer of cells: `DrawChar` clips nothing, `scroll_up` counts in
lines of `Width` although the buffer's lines may be longer (`stride`), two pixels at
a time. No back buffer is ever created, so drawing goes to the frame buffer.

`irr` and `isr` are the APIC's request and in-service sets. The timer and channel 0
of the PIT, which IRQ0 brings, share a vector. `Leftovers` are requests of the
firmware's devices that are still pending when the kernel enables interrupts; a
vector beyond the 48 gates makes an exception, whose handler prints and halts.

Ghosts: `sheet` is the same text on endless paper; `disturbed` says that a handler
printed while the main flow was printing, after which the text on the screen is
anybody's guess, but not the cursor's place.

### SystemTables and Boot

The machine `m` is a record of what the firmware and the hardware are like: modes,
tables, memory map, clocks, whether a call fails. `Delivered` is the processor's way
through the IDT, the GDT and the TSS that are loaded at that moment, so that a
non-maskable interrupt or a machine check may come between any two steps.
`SaveMemoryMap` and `ExitBootServices` are about the key of the map alone (the map
itself is in `MemoryMap`), `InitMemory` is the memory set-up in one step (`PMM`,
`Paging`, `VMM`, `Heap`), and so is the keyboard's (`Keyboard`). `ClearBss` zeroes from
`__bss_start` to `__bss_end`; the symbols come from the linker, so whether what
`efi_main` left is in between is a property of the machine (`bss`).

Clocks count in the 10 ms that a calibration waits, and scaled: `ONES` is the 32-bit
count, `PER_SECOND` the factor 100. `timer` is the mode the firmware left in the
APIC's timer entry: in the TSC-deadline mode, which `lapic_init` leaves, the counter
does not count. A channel of the PIT counts, stands still (`stuck`), or ends its loop
early (`high`): channel 0 when a first reading is too large, channel 2 when bit 5 of
port 0x61 reads set at the first poll, as on a machine without a PIT. `ClockTrue`
lists the machines on which such a count is believed; there are no others.

`FatesExplained`, `ClockTrue` and `FirmwareDealings` name what the model shows of the
code: the CPUID leaf 0x15 is read without asking for the highest leaf; the firmware
learns virtual addresses only if `ExitBootServices` succeeded; runtime memory
of type MMIO gets no virtual address, as descriptors are chosen by type and not by
attribute; an XSDT without the table hides the RSDT, and the roots' own checksums
are not looked at; the list of memory devices goes to the end marker whatever the
table's length.

## Runs

| Run | Bounds | Shows |
|---|---|---|
| `pmm` | 4 frames, 5 firmware maps of up to 3 descriptors, 2 clients, 3 words | boot from the first firmware call to a running allocator; list, counters, holders and contents; `PageAllocator` is implemented |
| `heap` | word 2, header 4, page 8, first heap 16, requests 1 and 5 (kcalloc 2), 3 objects, page tables of 2 entries, 12 frames: 6 heap pages and 6 tables | every mix of calls, with splits that do and do not fit, merges over one and two neighbours, growth next to a free and a used block |
| `heap_exhausted` | 7 frames: 3 heap pages and 4 tables; callers do not stop | growth without pages: **violates** `HeapIsBacked` |
| `heap_calloc` | as `heap`, kcalloc of 3 | a size that is no multiple of the word: **violates** `ContentsAsPromised` |
| `keyboard` | ring of 3 slots, Shift and a letter, 3 typed bytes and 2 answers | bytes at every moment of boot and after; a full ring; wrap-around; clearing |
| `keyboard_clear` | ring of 4, a letter | a key between the two resets: **violates** `LostOnlyWhenFull` |
| `keyboard_drained` | ring of 3, all keys, 2 typed bytes | a key that a drain loop threw away read again: **violates** `DrainedAreGone` |
| `paging` | 2 entries to a table, 16 pages, 14 frames; 5 machines; any 4 calls on pages 0 and 8 | `paging_init` with enough, little and no memory; sharing, splitting, replacing, cloning with and without enough frames, destroying; cached translations |
| `vmm` | 64 pages of 4 words, 5, 8 or 14 frames, up to two spaces; five mixes of 3 to 5 calls | every call with memory running out at every step; what a frame is used for, areas against tables, failed calls undone |
| `console` | 2 lines of 4 characters, a frame buffer without and with padding; texts of up to 3 characters from any place; 2 timer interrupts of which the second prints, 1 key, 1 spurious | printing cut by handlers at every access; scrolling, tabs, erasing, clearing; interrupts that come together, early or without a gate |
| `boot` | 411 machines; one change of the firmware's map, two exceptions of each kind | each failure of each step, exceptions between all of them, every combination of clocks, tables with good, bad and missing parts |
| `paging_high_loader` | one machine | the kernel loaded at 2 GB: **violates** `ActivationComplete` |

Why the bounds suffice. *pmm*: the maps are chosen so that page 0 is usable, not
usable, alone in its region; regions are adjacent, apart, empty, of other types; with
three usable pages every order of releases permutes the list. *heap*: a block and
both its neighbours are the most an operation touches; three objects of two sizes
and the rest of a growth give every pattern of free and used among them. The proofs
lift both to all sizes. *keyboard*: three presses fill a ring that holds two keys,
and go round it; properties compare at most two keys. *paging*: with two entries there
is one other page in every table, on every level, and one in each half of a space;
four calls create a space, map in it, clone it and destroy one of the two. *vmm*: areas of
one and of two pages, freed in any order, give every cut and merge of a region with
its neighbours; 5 frames are a space and two more, 8 run out in the middle of most
calls, and 14 are enough for some mixes. The addresses that
calls name are the user's first pages and last, which in the kernel's space are large pages of
memory, and one in the kernel's half, of which one page more is the kernel's code. A mix holds the calls that meet in a region list or a table.
*console*: the second timer interrupt prints, at any access of the main flow, with
the cursor anywhere, the last column of the last line included; the padded buffer differs in stride and
has a rest at its end. *boot*: a machine differs from a good one in one group of
features (screen, firmware, clocks, tables), in all combinations within the group,
and the groups meet only in the order of steps.

The five violations are disagreements of the code with its own comments, quoted in
`PROJECT.json`: the heap maps page frame 0, or nothing, when there are no pages; `kcalloc` leaves
up to seven bytes uncleared; `keyboard_clear_buffer` makes the handler take an empty
buffer for a full one; a byte that was cleared out of the controller comes back as a
key; the higher half of a kernel that was loaded at 2 GB wraps around into the identity
mapping. With `EnoughMemory` the run `heap` makes no call that would need missing pages,
and there `HeapIsBacked` holds; with word-sized `kcalloc`s `ContentsAsPromised` does.

Fairness. Weakly fair are the steps of a call once begun (`Heap`), those of the boot sequence,
the controller's delivery of a byte and the processor's of a pending interrupt
(`Keyboard`), the steps of a print once begun, the taking of an interrupt that is
allowed and the end of the boot that allows them (`Console`): one processor runs one
flow, which waits for nobody in these. No caller has to call, no user to type, no
reader to read, no timer to expire, no one to print. `EverythingServed` depends on
each handler's end of interrupt: without it no request of that class is taken again.
`BytesAreRead` is what the edge-triggered interrupt
puts at risk: it holds because the drain loops run after IRQ1 is unmasked, and a byte
that comes between the last of them and `sti` leaves its request pending.

## Proofs

`tlapm` checks them for every value of the constants that the named assumptions
allow. A theorem names the property it states; where a property holds under a
hypothesis only, the theorem carries it.

*Page allocator* (`PMM_proofs`). `IInv` is `TypeOK`, what the boot phases know of map
and table (`TableInv`), where `pmm_init`'s cursor is (`CursorInv`), `NoPageShared` and
`FreeListSound`. None is inductive alone: a pushed page is new because the regions
before the cursor do not overlap it, which is the table's part; a released page is
off the list because it was held, which is the holders'. The list is an existential:
a sequence that reads the links from the head and lists exactly the free pages. Three
lemmas say what a push, a pop and a write elsewhere do to it (`ListPush`, `ListPop`,
`ListFrame`). From `IInv` follow the theorems on type, list, holders, table, contents
and `Implementation`, the refinement of `PageAllocator`. `CountersAreTrue` adds
`CounterInv`: two functions with the running sums of the regions' pages exist, the
loops of `pmm_init` follow them (`SumInv`), and what is used are the pages held and
the null pages skipped (`UsedInv`, by cardinalities).

*Heap* (`Heap_proofs`). The invariant adds to `Tiling` and `ObjectsHaveBlocks` what
holds inside calls: the unlinked block of a growth, the sizes being even multiples of
the word, that a growth is large enough for the request with the header of a split,
how far `kfree`'s walk has merged, and that at most one pair of free neighbours exists
and where. Tiling is stated without induction over the list: each block's link is the
next greater header address, and the block ends there. So an absorbed or inserted
header is a local change. `EveryPageBacked` is `HeapIsBacked` where `EnoughMemory`:
its invariant says that whoever is still scanning either meets a block that fits or
has the frames to grow, tables included (`BackedInv`). `ContentsKept` is `ContentsAsPromised` where
callers of `kcalloc` ask for whole words (`WholeTotals`): all blocks are whole words
then (`WordsInv`), so nothing of the request is left uncleared. `heap_exhausted` and
`heap_calloc` are what happens without the two hypotheses.

*Keyboard* (`Keyboard_proofs`). The keys in the buffer are a sequence read around the
ring, and the lemmas of the first part say what a slot more or less does to it, with
the wrap-around. `InOrder` is not inductive: a byte must be younger than all that is in
the ring (`FreshInv`), hence bytes ordered on the line and at the controller
(`LineInv`), hence a request without a byte only after a drain (`StaleInv`); and a
reader between its accesses keeps its slot (`ReaderInv`), also in
`keyboard_clear_buffer`, where the tail is still behind. `ModifierInv` follows each
Shift key's last byte from the wire to the driver. `RefinesKeyQueue` maps the ring to
a queue of `SIZE - 1` keys: the handler puts or drops, the two steps of a pop look and
take, those of a clearing begin and end it, the rest stutters.

*Page tables* (`Paging_proofs`). The first lemmas are arithmetic:
the pages under an entry of a level, and that two pages are under the same entry or
under none. A way is a page, a level, and the table a walk down meets there. The
invariant (`PInv`) is `Sound`: no two ways but the shared ones lead to one table, and none
to a free frame; `LeakInv`; and `CachedInv`,
which is stated not for what is cached but for all pages under it, as a split makes
one walk into many. `Reach` is a sequence of edits of one entry, each of which links a
blank frame or splits a page; for each it is shown that trees stay trees, no frame is
lost, and no walk changes except as `Finer` allows. That is what the calls that map and
unmap need; those that make spaces need that trees can be joined (`Joining`), and
`DestroySpace` that they can be cut. For `clone_table` there are two more facts: the
order `Before` of tables numbers them without gaps as long as there are frames, by
counting; and a table is copied only when the ones above it are, so what is made is a
tree wherever the frames end. `ImplementsPromise` takes the effects on walks from there and
shows each action to be a step of `AddressSpaces` or to leave all walks alone.

*Virtual memory manager* (`VMM_proofs`, `VMM_areas`). A loop is a recursive function, so a property of
its end is that of its turns by the least turn that breaks it (`Along`, `Iteration`);
`Types` needs no more. `OneUse` counts, and is not inductive. The invariant
(`UseInv`) says that a use of every page exists: table of level 3, 2 or 1, mapped page,
structure or record, free, or somebody else's. It is right for memory (`Pages`) if an
entry leads one level down (`Below`), what is large `paging_init` made, in the directories
of the kernel's own PML4 (`Large`), two
entries lead to one frame only where spaces share the kernel's tables (`Once`), and a mapped
page is blank (`Empty`): `free_page_table_level` reads mapped pages as tables, and frees
nothing there just because they are. `Held` ties the uses to the structures, records and
level 3 tables of `spaces`, `Separate` keeps these apart. Of a call in progress the same is
said of its state: `Kept` while it walks tables, with the pages it has taken and not yet
mapped (`Unled`), `Sound` with its list of regions, `Torn` while a space is destroyed, when
the entry that led to a table under destruction still names it. Each operator of `VMM` is
shown to keep these at addresses not under a large page (`Low`), so that nothing is split
(`LargeIsLow`); that is every address in a program's space, and in the kernel's those of a
call that is not mingled (`Clear4K`, `Safe`). An action then follows; `UseIsOne` does the counting.
`AreasLieApart` is about the lists alone: `Lined` says that a list is in order, and
where two free regions may still meet in it, as they do between the steps of `Release`.
`AreasAreTrue` adds the tables. What a space maps is the set of its low pages whose walk
ends in a present entry (`View`). It is right to look at this only because a frame has
one use: a write to a table, a frame that the allocator hands out or a table that is
linked changes the view of one space, and of that by one page (`LeafView`, `FreeView`,
`LinkView`), since one way leads through a table (`OneWay`). That takes the uses of
`FramesAreShared`, and that no frame holds a large page and that the lower half of a
program's PML4 leads to frames (`Tame`). The invariant (`BackInv`) says, while nothing is
mingled, that of a plain space, without a stack and with areas that start with a page,
the view is what the areas cover (`InAreas`). Through a call it is `Seen` that the views
of the other spaces are what they were (`Passes`), and that of its own follows the
loops: `Filling` while pages are mapped in, the same backwards in `Rollback`, nothing in
`vmm_protect`, which unmaps and maps again. `Booked` lists are those in which a record
was put, cut or merged, and the areas (`Areas`) change by the pair of bounds that was
named. A destroyed space loses entries in its own tables only (`Pared`, `Tree`), and a
new one begins with an empty lower half (`Bare`). `AreasBacked` follows from `BackInv`
while the machine runs, and stays when it has stopped.

*Console* (`Console_proofs`). The first invariant is about the cursor alone: where in
its code the main flow may find it off the screen and what its register is worth
although a handler has moved the cursor meanwhile. `StraysAreTheTimers` is an action property
from it. For `ScreenIsTrue` the main flow's place says what is still to be done
(`Pending`): that, applied to the pixels now, shows the sheet. So each access only has
to do the first part of it, and a handler between two characters a whole
`console_putchar`.

*Boot* (`Boot_proofs`). The invariant ties the processor's tables to the place in the
boot (`TablesInv`), reports to exceptions that came (`ReportsInv`), the saved key to the
changes since (`MapInv`), each kind of end to its reasons (`FateInv`) and the
APIC's timer to the calibrations tried (`ClockInv`). It depends on reading
the gates, segments and the TSS as the processor does (`Delivered`); the best mode is
found by the least-number principle, not by induction over the loop.

Only TLC checks:

- liveness (termination of heap calls, `BytesAreRead`, `EverythingServed`), as the
  prover has neither fairness nor ENABLED;
- `ActivationComplete` of `Paging`, which is about all calls of `paging_init` at once: an
  induction over their order, and false on some machines (`paging_high_loader`);
- of `VMM`, `LossesExplained` (which counts what goes missing in a step),
  `StopsExplained` and `CallsHonest`;
- `FirmwareDealings` of `Boot`, which is about what the recursive functions of
  `SystemTables` find.

## Not modelled, and what is left

- Lines, shapes, images and scaled text of `baseGraphic.c`, and its back buffer, which
  nothing creates: pixel arithmetic without a caller in the boot. Of the file, the
  choice and setting of a mode, `DrawChar` and `FillScreen` are modelled.
- Formatting of numbers, colours, and the printing of what was found or counted
  (`console_print*`, `heap_print_stats`, `vmm_dump`): no property is about wording.
- Instruction wrappers (`Root/io.h`, CPU access): one instruction each, whose effect is in
  the modules that call them.
- Register writes of `apic.c` that no modelled source can see (masking of the PIC, the
  thermal and performance entries), cache attributes of pages, and the commands of
  `keyboard_init` whose answers are dropped.
- A firmware map of more than 128 descriptors, sizes near 2^64, and a controller that
  never answers: excluded by named assumptions, and listed as hazards.
- The build.

The models of the parts are not composed with one another beyond what they assume of
each other: `PMM` starts from `MemoryMap`'s result, `Heap`, `Paging` and `VMM` use what
`PageAllocator` promises, `Console` the gates that `Boot` loads.

Left to prove: `ActivationComplete` on machines whose loader regions lie below 2 GB,
`LostOnlyWhenFull` on a keyboard whose buffer nobody clears, and the three action
properties of `VMM`.
