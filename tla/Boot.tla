------------------------------- MODULE Boot --------------------------------
(***************************************************************************)
(* From efi_main (kernel.c) to the end of kernel_main (main.c): the        *)
(* firmware's screen, memory map, tables and farewell, then the kernel's   *)
(* GDT and TSS (gdt.c), IDT (idt.c), APIC (apic.c) and clock (timer.c).    *)
(* Memory set-up and the keyboard are one step each: PMM, Paging, VMM,     *)
(* Heap and Keyboard have their details.                                   *)
(*                                                                         *)
(* The processor runs this alone; what comes from outside are the          *)
(* firmware's own doings while it lives, non-maskable interrupts and       *)
(* machine checks, at any moment.  The time of a clock is counted in the   *)
(* 10 ms the calibrations wait.                                            *)
(***************************************************************************)
EXTENDS SystemTables

CONSTANTS Machines,         \* the machines, with their firmware
          PreferredWidth, PreferredHeight,
          ONES,             \* the largest count of the APIC's timer: 2^32 - 1
          PER_SECOND, frequency,  \* 100 times 10 ms, and the interrupts a second
          TIMEOUT,          \* how long channel 0 of the PIT is polled
          FALLBACK,         \* 1875000
          MaxChanges,       \* bound: changes of the firmware's memory map
          MaxExceptions     \* bound: NMIs, and machine checks

ASSUME BootAssumption ==
    /\ {ONES, PER_SECOND, frequency, TIMEOUT, FALLBACK} \subseteq Nat \ {0}
    /\ \A m \in Machines :
          /\ m.modes \in Seq([width : Nat \ {0}, height : Nat \ {0}, ok : BOOLEAN, blt : BOOLEAN])
          /\ m.mode \in DOMAIN m.modes
          /\ {m.setmode, m.pool, m.apic} \subseteq BOOLEAN
          /\ m.timer \in {"masked", "periodic", "deadline"}
          /\ m.tsc \in {"crystal", "other_leaf", "none"}
          /\ {m.ch0, m.ch2} \subseteq {"counts", "high", "stuck"}
          /\ m.rate \in 1 .. ONES - 1 /\ m.rate * PER_SECOND <= ONES /\ m.few \in 0 .. m.rate - 1

VARIABLES
    m,              \* the machine
    at,             \* the next step of the boot
    mode,           \* the graphics mode in use, or 0: the zeroed Graphics
    tables,         \* what SystemTablesInitialize found
    key, mmp,       \* the map key: the firmware's, and the saved one (0: no map)
    exited,         \* ExitBootServices succeeded
    gdt, tss, idt,  \* the kernel's tables
    cpu,            \* whose tables the processor uses
    lapic,          \* lapic_base is set; the timer's entry
    ticks_per_10ms, initial_count,
    virtual,        \* descriptors of the memory map given a virtual address
    fate,           \* "runs", or how that ended
    came, reports,  \* exceptions that came, and those the kernel reported, with the stack
    changes         \* of the memory map: before and after it was saved

vars == <<m, at, mode, tables, key, mmp, exited, gdt, tss, idt, cpu, lapic,
          ticks_per_10ms, initial_count, virtual, fate, came, reports, changes>>

NMI == 2
DOUBLE_FAULT == 8
PAGE_FAULT == 14
MACHINE_CHECK == 18

KERNEL_CODE == 1                \* the selectors, as indices
KERNEL_DATA == 2
TSS_SELECTOR == 5

-----------------------------------------------------------------------------
(* Exceptions *)

gdt_create_entry(access, flags) == [access |-> access, flags |-> flags]
Empty == gdt_create_entry({}, {})

IsCode64(s) ==
    s \in DOMAIN gdt /\ {"present", "codedata", "executable"} \subseteq gdt[s].access
                     /\ "long" \in gdt[s].flags

\* An exception goes through the gate that is loaded, if its code segment is in
\* the GDT that is loaded, onto the stack the gate asks for, if there is a TSS.
\* Where this fails, what follows fails as well, and the machine resets.
Delivered(v) ==
    LET stack == IF idt[v].ist = 0 THEN "current"
                 ELSE IF cpu.tr = TSS_SELECTOR THEN tss[idt[v].ist] ELSE "none"
    IN  IF cpu.idtr = "firmware"
          THEN /\ fate' = IF cpu.gdtr = "firmware" \/ IsCode64(m.firmware_cs)
                            THEN "firmware" ELSE "reset"
               /\ UNCHANGED reports
        ELSE IF IsCode64(idt[v].selector) /\ stack # "none"
          THEN fate' = "reported" /\ reports' = reports \cup {<<v, stack>>}
        ELSE fate' = "reset" /\ UNCHANGED reports

\* The handler of interrupt_common_handler reports an exception and never returns:
\* further NMIs stay blocked, and a second machine check resets the machine.
ExceptionComes(v) ==
    /\ fate \in {"runs", "reported"} /\ came[v] < MaxExceptions
    /\ v = NMI => \A r \in reports : r[1] # NMI
    /\ came' = [came EXCEPT ![v] = @ + 1]
    /\ IF v = MACHINE_CHECK /\ \E r \in reports : r[1] = v
         THEN fate' = "reset" /\ UNCHANGED reports
         ELSE Delivered(v)
    /\ UNCHANGED <<m, at, mode, tables, key, mmp, exited, gdt, tss, idt, cpu, lapic,
                   ticks_per_10ms, initial_count, virtual, changes>>

-----------------------------------------------------------------------------
(* efi_main *)

Step(from, to) == at = from /\ fate = "runs" /\ at' = to /\ UNCHANGED <<m, came, changes>>
Runs == UNCHANGED <<fate, reports>>
Ends(how) == fate' = how /\ UNCHANGED reports

screenVars == mode
firmwareVars == <<tables, key, mmp, exited, virtual>>
tableVars == <<gdt, tss, idt, cpu>>
clockVars == <<lapic, ticks_per_10ms, initial_count>>

InitGop ==
    /\ Step("gop", "mode")
    /\ IF m.gop THEN Runs ELSE Ends("stopped")
    /\ UNCHANGED <<screenVars, firmwareVars, tableVars, clockVars>>

\* The first mode of the preferred size, or the first of the largest, or the one in use.
FindBestMode(modes) ==
    LET usable == {i \in DOMAIN modes : modes[i].ok /\ ~modes[i].blt}
        exact == {i \in usable : /\ modes[i].width = PreferredWidth
                                 /\ modes[i].height = PreferredHeight}
        Score(i) == modes[i].width * modes[i].height
        best == {i \in usable : Score(i) > 0 /\ \A j \in usable : Score(j) <= Score(i)}
    IN  IF exact # {} THEN Min(exact) ELSE IF best # {} THEN Min(best) ELSE m.mode

\* If the firmware refuses the mode, Graphics stays as it is: zero.
SetGraphicsMode ==
    /\ Step("mode", "draw")
    /\ mode' = IF m.setmode THEN FindBestMode(m.modes) ELSE 0
    /\ Runs /\ UNCHANGED <<firmwareVars, tableVars, clockVars>>

\* The first text: without a frame buffer it goes anywhere.
DrawStringCentered ==
    /\ Step("draw", "map")
    /\ IF mode # 0 /\ ~m.modes[mode].blt THEN Runs ELSE Ends("wild")
    /\ UNCHANGED <<screenVars, firmwareVars, tableVars, clockVars>>

\* The allocation changes the firmware's map; the key is the one after it.
SaveMemoryMap ==
    /\ Step("map", "tables")
    /\ key' = key + 1
    /\ mmp' = IF m.pool THEN key' ELSE 0
    /\ Runs /\ UNCHANGED <<screenVars, tables, exited, virtual, tableVars, clockVars>>

ReadTables ==
    /\ Step("tables", "exit")
    /\ tables' = SystemTablesInitialize(m.config)
    /\ Runs /\ UNCHANGED <<screenVars, key, mmp, exited, virtual, tableVars, clockVars>>

\* Nobody looks at the status.
ExitBootServices ==
    /\ Step("exit", "kernel_main")
    /\ exited' = (mmp = key)
    /\ Runs /\ UNCHANGED <<screenVars, tables, key, mmp, virtual, tableVars, clockVars>>

\* The firmware's own events, until the kernel turns the interrupts off.
FirmwareAllocates ==
    /\ at \in {"gop", "mode", "draw", "map", "tables", "exit"} /\ fate = "runs"
    /\ changes.early + changes.late < MaxChanges
    /\ changes' = IF at \in {"tables", "exit"} THEN [changes EXCEPT !.late = @ + 1]
                  ELSE [changes EXCEPT !.early = @ + 1]
    /\ key' = key + 1
    /\ UNCHANGED <<m, at, mode, tables, mmp, exited, gdt, tss, idt, cpu, lapic,
                   ticks_per_10ms, initial_count, virtual, fate, came, reports>>

-----------------------------------------------------------------------------
(* kernel_main *)

\* Interrupts off, the kernel's stack, and zeros from __bss_start to __bss_end:
\* whether Graphics and mmp are in between is up to the linker.
ClearBss ==
    /\ Step("kernel_main", "gdt")
    /\ IF m.bss THEN Ends("wild") ELSE Runs
    /\ UNCHANGED <<screenVars, firmwareVars, tableVars, clockVars>>

\* A bug: no stack for machine checks.
tss_init_two == [i \in 1 .. 7 |-> IF i <= 2 THEN <<"ist_stack1", "ist_stack2">>[i] ELSE "none"]

tss_init ==
    [i \in 1 .. 7 |->
        IF i <= 3 THEN <<"ist_stack1", "ist_stack2", "ist_stack3">>[i] ELSE "none"]

\* The descriptor takes two slots.
gdt_create_tss_entry(table, index) ==
    [table EXCEPT ![index] = gdt_create_entry({"present", "tss_available"}, {})]

Segments ==
    LET data == {"present", "codedata", "rw"}
        code == data \cup {"executable"}
    IN  [i \in 0 .. 6 |->
            CASE i = 1 -> gdt_create_entry(code, {"long", "granularity"})
              [] i = 2 -> gdt_create_entry(data, {"granularity"})
              [] i = 3 -> gdt_create_entry(code \cup {"ring3"}, {"long", "granularity"})
              [] i = 4 -> gdt_create_entry(data \cup {"ring3"}, {"granularity"})
              [] OTHER -> Empty]

\* The tables are made and the GDT loaded,
gdt_load ==
    /\ Step("gdt", "segments")
    /\ tss' = tss_init
    /\ gdt' = gdt_create_tss_entry(Segments, 5)
    /\ cpu' = [cpu EXCEPT !.gdtr = "kernel"]
    /\ Runs /\ UNCHANGED <<screenVars, firmwareVars, idt, clockVars>>

\* then the segment registers, which must find their descriptors,
SegmentRegisters ==
    /\ Step("segments", "tr")
    /\ IF /\ IsCode64(KERNEL_CODE)
          /\ {"present", "codedata", "rw"} \subseteq gdt[KERNEL_DATA].access
         THEN Runs ELSE Ends("reset")
    /\ UNCHANGED <<screenVars, firmwareVars, tableVars, clockVars>>

\* and the task register.
tss_load ==
    /\ Step("tr", "idt")
    /\ IF "tss_available" \in gdt[TSS_SELECTOR].access
         THEN cpu' = [cpu EXCEPT !.tr = TSS_SELECTOR] /\ Runs
         ELSE UNCHANGED cpu /\ Ends("reset")
    /\ UNCHANGED <<screenVars, firmwareVars, gdt, tss, idt, clockVars>>

idt_set_gate(ist) == [selector |-> KERNEL_CODE, ist |-> ist]

idt_init ==
    /\ Step("idt", "memory")
    /\ idt' = [v \in 0 .. 47 |->
                  idt_set_gate(CASE v = DOUBLE_FAULT -> 1 [] v = NMI -> 2
                                 [] v = MACHINE_CHECK -> 3 [] OTHER -> 0)]
    /\ cpu' = [cpu EXCEPT !.idtr = "kernel"]
    /\ Runs /\ UNCHANGED <<screenVars, firmwareVars, gdt, tss, clockVars>>

\* ParseMemoryMap to heap_init.  Without a map there is no page: paging_init
\* leaves the firmware's page tables, heap_init takes address 0 for a table of its
\* own, and then writes to a heap that is not there.
InitMemory ==
    /\ Step("memory", "virtual")
    /\ IF mmp # 0 THEN Runs ELSE Ends("wild") \/ Delivered(PAGE_FAULT)
    /\ UNCHANGED <<screenVars, firmwareVars, tableVars, clockVars>>

\* Descriptors are chosen by their types.  The firmware takes no addresses before
\* its farewell, and nobody looks at that status either.
UefiVirtualMapSettingUp ==
    /\ Step("virtual", "apic")
    /\ virtual' = {i \in DOMAIN m.map : exited /\ m.map[i].type \in
                                          {"RuntimeCode", "RuntimeData", "ACPIReclaim"}}
    /\ Runs /\ UNCHANGED <<screenVars, tables, key, mmp, exited, tableVars, clockVars>>

\* The failure is not looked at.  The timer's entry stays the firmware's.
apic_init ==
    /\ Step("apic", "calibrate")
    /\ lapic' = [lapic EXCEPT !.base = m.apic]
    /\ Runs /\ UNCHANGED <<screenVars, firmwareVars, tableVars, ticks_per_10ms, initial_count>>

-----------------------------------------------------------------------------
(* The clock.  The counter is started at ONES and goes down to 0, except in *)
(* the mode in which it does not count: there it reads 0.                   *)

Counted(elapsed) == IF lapic.timer = "deadline" \/ elapsed > ONES THEN ONES ELSE elapsed
Masked == [lapic EXCEPT !.timer = "masked"]

\* CPUID's leaf 0x15; asked for a leaf it has not, the processor may answer
\* with another one's words, whose frequency makes the wait a short one.
calibrate_via_tsc ==
    CASE m.tsc = "crystal" -> Counted(m.rate)
      [] m.tsc = "other_leaf" -> Counted(m.few)
      [] m.tsc = "none" -> 0

\* A bug: after the timeout the count is taken all the same.
calibrate_via_pit_ch2_on ==
    Counted(CASE m.ch2 = "counts" -> m.rate [] m.ch2 = "high" -> m.few
              [] m.ch2 = "stuck" -> m.rate * TIMEOUT)

\* The loop ends when the channel's output reads high: after 10 ms, or at the first
\* look where it is high already or there is no such port and all bits read as
\* ones; an output that stays low runs into the timeout, which says so.
calibrate_via_pit_ch2 ==
    CASE m.ch2 = "counts" -> Counted(m.rate)
      [] m.ch2 = "high" -> Counted(m.few)
      [] m.ch2 = "stuck" -> 0

\* The loop ends at the first reading that is larger than the one before: after
\* 10 ms, or at once where an older count, or nothing, is read.  A counter that
\* stands still runs into the timeout, which leaves timeout at -1, not at 0.
calibrate_via_pit_ch0 ==
    CASE m.ch0 = "counts" -> Counted(m.rate)
      [] m.ch0 = "high" -> Counted(m.few)
      [] m.ch0 = "stuck" -> Counted(m.rate * TIMEOUT)

\* calibrate_apic_timer tries one after the other; each that uses the timer masks it.
Calibrate(from, ticks, next) ==
    /\ Step(from, IF ticks > 0 THEN "start" ELSE next)
    /\ ticks_per_10ms' = IF ticks = 0 /\ next = "start" THEN FALLBACK ELSE ticks
    /\ UNCHANGED <<screenVars, firmwareVars, tableVars, initial_count>>

CalibrateTsc ==
    /\ Calibrate("calibrate", calibrate_via_tsc, "ch2")
    /\ lapic' = IF m.tsc = "none" THEN lapic ELSE Masked
    /\ IF lapic.base \/ m.tsc = "none" THEN Runs ELSE Ends("wild")
CalibrateCh2 ==
    /\ Calibrate("ch2", calibrate_via_pit_ch2, "ch0")
    /\ lapic' = Masked
    /\ IF lapic.base THEN Runs ELSE Ends("wild")
CalibrateCh0 == Calibrate("ch0", calibrate_via_pit_ch0, "start") /\ lapic' = Masked /\ Runs

\* The product has 32 bits.
timer_init ==
    /\ Step("start", "interrupts_enable")
    /\ LET count == ((ticks_per_10ms * PER_SECOND) % (ONES + 1)) \div frequency IN
       initial_count' = IF count = 0 THEN 1 ELSE count
    /\ lapic' = [lapic EXCEPT !.timer = "periodic"]
    /\ Runs /\ UNCHANGED <<screenVars, firmwareVars, tableVars, ticks_per_10ms>>

interrupts_enable ==
    /\ Step("interrupts_enable", "booted")
    /\ Runs /\ UNCHANGED <<screenVars, firmwareVars, tableVars, clockVars>>

-----------------------------------------------------------------------------

Init ==
    /\ m \in Machines
    /\ at = "gop" /\ mode = 0 /\ fate = "runs" /\ reports = {}
    /\ tables = SystemTablesInitialize(<<>>)
    /\ key = 1 /\ mmp = 0 /\ exited = FALSE /\ virtual = {}
    /\ gdt = [i \in 0 .. 6 |-> Empty]
    /\ tss = [i \in 1 .. 7 |-> "none"]
    /\ idt = [v \in 0 .. 47 |-> [selector |-> 0, ist |-> 0]]
    /\ cpu = [gdtr |-> "firmware", tr |-> 0, idtr |-> "firmware"]
    /\ lapic = [base |-> FALSE, timer |-> m.timer]
    /\ ticks_per_10ms = 0 /\ initial_count = 0
    /\ came = [v \in {NMI, MACHINE_CHECK} |-> 0]
    /\ changes = [early |-> 0, late |-> 0]

Next ==
    \/ InitGop \/ SetGraphicsMode \/ DrawStringCentered \/ SaveMemoryMap \/ ReadTables
    \/ ExitBootServices \/ FirmwareAllocates
    \/ ClearBss \/ gdt_load \/ SegmentRegisters \/ tss_load \/ idt_init \/ InitMemory
    \/ UefiVirtualMapSettingUp \/ apic_init
    \/ CalibrateTsc \/ CalibrateCh2 \/ CalibrateCh0 \/ timer_init \/ interrupts_enable
    \/ \E v \in {NMI, MACHINE_CHECK} : ExceptionComes(v)

Spec == Init /\ [][Next]_vars

-----------------------------------------------------------------------------
(* Properties *)

EfiMain == {"gop", "mode", "draw", "map", "tables", "exit"}
Drawable(i) == m.modes[i].ok /\ ~m.modes[i].blt

\* Nothing ends the boot but what must.  A non-maskable interrupt or a machine
\* check resets the machine only between the loading of the kernel's GDT and of
\* its IDT, and a machine check during the report of another; otherwise it is
\* reported, by the firmware until then, and by the kernel on a stack that no
\* other exception's report uses.  The kernel writes where it should not only
\* without a screen, without a memory map, without an APIC, or if the bss it
\* clears holds what the firmware's part of the boot left there.  And it has the
\* machine for itself unless the firmware changed its memory map after
\* SaveMemoryMap, or that failed.
FatesExplained ==
    /\ fate = "reset" => \/ /\ cpu.gdtr = "kernel" /\ cpu.idtr = "firmware"
                            /\ m.firmware_cs # KERNEL_CODE
                         \/ came[MACHINE_CHECK] > 1
    /\ fate = "firmware" => cpu.idtr = "firmware"
    /\ fate = "reported" /\ (\A v \in DOMAIN came : came[v] = 0) => ~m.pool
    /\ \A r, s \in reports : r[2] = s[2] => r[1] = s[1]
    /\ \A r \in reports : r[1] \in {NMI, MACHINE_CHECK} => r[2] # "current"
    /\ fate = "wild" => \/ ~m.setmode \/ \A i \in DOMAIN m.modes : ~Drawable(i)
                        \/ ~m.pool \/ m.bss \/ ~m.apic
    /\ at \notin EfiMain => (exited <=> m.pool /\ changes.late = 0)

\* The timer that is started interrupts as often as was asked for, on every
\* machine but those on which a calibration believes a clock that is none: CPUID
\* answers with another leaf; the firmware left the timer in the mode that does
\* not count, which lapic_init leaves; channel 2's output is high before it has
\* counted; or channel 0 is the last that is left and does not count down.
ClockTrue ==
    initial_count # 0 =>
        \/ initial_count = Max({1, (m.rate * PER_SECOND) \div frequency})
        \/ m.tsc = "other_leaf" /\ (m.few > 0 \/ m.timer = "deadline")
        \/ m.timer = "deadline" /\ (m.tsc # "none" \/ m.ch2 # "stuck")
        \/ m.tsc # "crystal" /\ m.ch2 = "high" /\ m.few > 0
        \/ m.tsc # "crystal" /\ m.ch2 # "counts" /\ m.ch0 # "counts"

\* The processors that are on, of the entries before one without a length.
Processors ==
    {i \in DOMAIN m.entries :
        /\ m.entries[i].type \in {LOCAL_APIC, LOCAL_X2APIC} /\ m.entries[i].on
        /\ \A j \in 1 .. i : m.entries[j].length > 0}

\* Where a structure starts, and whether a search gets that far.
Position(i) == 1 + Len(SmbiosLayout(SubSeq(m.structures, 1, i - 1)))
Reached(i) == \A j \in 1 .. i - 1 : m.structures[j].type # END_OF_TABLE
First(type) ==
    LET S == {i \in DOMAIN m.structures : m.structures[i].type = type /\ Reached(i)} IN
    IF S = {} THEN NoHeader ELSE Position(Min(S))

AcpiTrue ==
    /\ tables.madt # NULL =>
          /\ tables.rsdp # NULL /\ AcpiValidateChecksum(tables.rsdp.sum20)
          /\ AcpiValidateChecksum(tables.madt.sum) /\ tables.madt.signature = "APIC"
          /\ AcpiGetProcessorCount(tables.madt) = Max({1, Cardinality(Processors)})
    /\ m.acpi => tables.madt # NULL

SmbiosTrue ==
    tables.smbios # NULL =>
        /\ \A type \in {0, 1, MEMORY_DEVICE, END_OF_TABLE} :
              SmbiosFindStructure(tables.smbios, type) = First(type)
        /\ (\E i \in DOMAIN m.structures : m.structures[i].type = END_OF_TABLE) =>
              MemoryDevices(tables.smbios) =
                  {Position(i) : i \in {j \in DOMAIN m.structures :
                                          m.structures[j].type = MEMORY_DEVICE /\ Reached(j)}}
        /\ \A i \in DOMAIN m.structures : \A k \in 0 .. Len(m.structures[i].strings) + 2 :
              SmbiosGetString(tables.smbios.ram, Position(i), k) =
                  IF k \in DOMAIN m.structures[i].strings
                    THEN m.structures[i].strings[k] ELSE <<>>

\* What the boot takes from the firmware's tables is what is in them: an intact
\* MADT where the root in use has one, as many processors as are on, whatever
\* other entries lie between theirs, and SMBIOS structures and strings found by
\* counting zeros exactly where the firmware put them.  And if its farewell
\* succeeded the firmware learns the new address of every region it goes on using,
\* save device memory.
FirmwareDealings ==
    /\ at \notin {"gop", "mode", "draw", "map", "tables"} => AcpiTrue /\ SmbiosTrue
    /\ exited /\ at \notin {"kernel_main", "gdt", "segments", "tr", "idt", "memory", "virtual"} =>
          \A i \in DOMAIN m.map : m.map[i].runtime => i \in virtual \/ m.map[i].type = "MMIO"

=============================================================================
