----------------------------- MODULE Boot_proofs -----------------------------
(***************************************************************************)
(* Nothing ends the boot but what must, and the clock that is started is   *)
(* the one asked for, on every machine that is what the assumption of Boot *)
(* says, whenever exceptions come and the firmware's map changes.          *)
(***************************************************************************)
EXTENDS Boot, WellFoundedInduction, TLAPS

-----------------------------------------------------------------------------
(* The invariant.  The processor's tables follow the place in the boot, and *)
(* what ends the boot at a place is kept with it.                           *)

BeforeMap == {"gop", "mode", "draw", "map"}
Unloaded == {"kernel_main", "gdt"} \cup EfiMain
IdtLoaded == {"memory", "virtual", "apic", "calibrate", "ch2", "ch0", "start",
              "interrupts_enable", "booted"}
TssLoaded == IdtLoaded \cup {"idt"}
GdtLoaded == TssLoaded \cup {"segments", "tr"}

KernelGdt == gdt_create_tss_entry(Segments, 5)
KernelIdt ==
    [v \in 0 .. 47 |->
        idt_set_gate(CASE v = DOUBLE_FAULT -> 1 [] v = NMI -> 2
                       [] v = MACHINE_CHECK -> 3 [] OTHER -> 0)]

\* What the processor uses of the kernel's tables, and that they are in place.
TablesInv ==
    /\ at \in Unloaded \cup GdtLoaded
    /\ cpu = [gdtr |-> IF at \in GdtLoaded THEN "kernel" ELSE "firmware",
              tr |-> IF at \in TssLoaded THEN TSS_SELECTOR ELSE 0,
              idtr |-> IF at \in IdtLoaded THEN "kernel" ELSE "firmware"]
    /\ at \in GdtLoaded => gdt = KernelGdt /\ tss = tss_init
    /\ at \in IdtLoaded => idt = KernelIdt

\* Every report has its own stack, and was asked for by an exception.
ReportsInv ==
    /\ came \in [{NMI, MACHINE_CHECK} -> Nat]
    /\ reports \subseteq {<<NMI, "ist_stack2">>, <<MACHINE_CHECK, "ist_stack3">>,
                          <<PAGE_FAULT, "current">>}
    /\ \A r \in reports : r[1] \in {NMI, MACHINE_CHECK} => came[r[1]] > 0

\* The saved key is as far behind the firmware's as its map has changed since.
MapInv ==
    /\ key \in Nat \ {0} /\ changes \in [early : Nat, late : Nat]
    /\ at \in BeforeMap => changes.late = 0
    /\ at \notin BeforeMap => (mmp = 0 <=> ~m.pool)
    /\ at \in {"tables", "exit"} /\ m.pool => key = mmp + changes.late /\ mmp \in Nat
    /\ at \notin EfiMain => (exited <=> m.pool /\ changes.late = 0)

NoScreen == ~m.setmode \/ \A i \in DOMAIN m.modes : ~Drawable(i)

\* What ended the boot.
FateInv ==
    /\ fate = "reset" => \/ /\ cpu.gdtr = "kernel" /\ cpu.idtr = "firmware"
                            /\ m.firmware_cs # KERNEL_CODE
                         \/ came[MACHINE_CHECK] > 1
    /\ fate = "firmware" => cpu.idtr = "firmware"
    /\ fate = "reported" => /\ cpu.idtr = "kernel"
                            /\ ~m.pool \/ came[NMI] > 0 \/ came[MACHINE_CHECK] > 0
    /\ fate = "wild" => NoScreen \/ ~m.pool \/ m.bss \/ ~m.apic
    /\ at = "draw" /\ (mode = 0 \/ m.modes[mode].blt) => NoScreen

\* A calibration that believes a clock that is none.
Deceived ==
    \/ m.tsc = "other_leaf" /\ (m.few > 0 \/ m.timer = "deadline")
    \/ m.timer = "deadline" /\ (m.tsc # "none" \/ m.ch2 # "stuck")
    \/ m.tsc # "crystal" /\ m.ch2 = "high" /\ m.few > 0
    \/ m.tsc # "crystal" /\ m.ch2 # "counts" /\ m.ch0 # "counts"

\* What the calibrations have left each other.
ClockInv ==
    /\ lapic = [base |-> lapic.base, timer |-> lapic.timer]
    /\ at \in Unloaded \cup {"segments", "tr", "idt", "memory", "virtual", "apic", "calibrate"}
          => lapic.timer = m.timer
    /\ at \in {"calibrate", "ch2", "ch0"} => lapic.base = m.apic
    /\ at = "ch2" => /\ m.tsc # "crystal"
                     /\ lapic.timer = IF m.tsc = "none" THEN m.timer ELSE "masked"
    /\ at = "ch0" => m.tsc # "crystal" /\ m.ch2 # "counts" /\ lapic.timer = "masked"
    /\ at = "start" => ticks_per_10ms = m.rate \/ Deceived
    /\ at \notin {"interrupts_enable", "booted"} => initial_count = 0
    /\ at \in {"interrupts_enable", "booted"} =>
          initial_count = Max({1, (m.rate * PER_SECOND) \div frequency}) \/ Deceived

BInv == m \in Machines /\ TablesInv /\ ReportsInv /\ MapInv /\ FateInv /\ ClockInv

-----------------------------------------------------------------------------
(* Least and greatest *)

LEMMA NatMin ==
    ASSUME NEW S \in SUBSET Nat, S # {}
    PROVE  Min(S) \in S /\ \A y \in S : Min(S) <= y
<1> DEFINE R == OpToRel(<, Nat)
<1>1. IsWellFoundedOn(R, Nat)
  BY NatLessThanWellFounded
<1>2. \A x, y \in Nat : y < x => <<y, x>> \in R
  BY DEF OpToRel
<1> HIDE DEF R
<1>3. \E x \in S : \A y \in S : ~(<<y, x>> \in R)
  BY <1>1, WFMin
<1>4. \E x \in S : \A y \in S : x <= y
  <2>1. PICK x \in S : \A y \in S : ~(<<y, x>> \in R)
    BY <1>3
  <2>2. ASSUME NEW y \in S
        PROVE  x <= y
    <3>1. x \in Nat /\ y \in Nat
      OBVIOUS
    <3>2. ~(y < x)
      BY <1>2, <2>1, <3>1
    <3> QED
      BY <3>1, <3>2
  <2> QED
    BY <2>2
<1> QED
  BY <1>4 DEF Min

LEMMA SeqFacts ==
    ASSUME NEW S, NEW s \in Seq(S)
    PROVE  /\ \E n \in Nat : DOMAIN s = 1 .. n
           /\ \A k \in DOMAIN s : k \in Nat \ {0} /\ s[k] \in S
OBVIOUS

\* Of finitely many numbers one is the greatest.
LEMMA GreatestExists ==
    ASSUME NEW n \in Nat, NEW S \in SUBSET (1 .. n), S # {}, NEW f \in [S -> Nat]
    PROVE  \E k \in S : \A j \in S : f[j] <= f[k]
<1> DEFINE Upto(l) == {k \in S : k <= l}
           Has(l) == \E k \in Upto(l) : \A j \in Upto(l) : f[j] <= f[k]
           Bad == {l \in 0 .. n : Upto(l) # {} /\ ~Has(l)}
<1>0. \A k \in S : k \in Nat /\ 1 <= k /\ k <= n /\ f[k] \in Nat
  OBVIOUS
<1>1. ASSUME Bad # {}
      PROVE  FALSE
  <2>1. PICK l \in Bad : \A i \in Bad : l <= i
    <3>1. Bad \in SUBSET Nat
      OBVIOUS
    <3> HIDE DEF Bad
    <3> QED
      BY <1>1, <3>1, NatMin
  <2>2. l \in Nat /\ l <= n /\ Upto(l) # {} /\ ~Has(l) /\ l # 0
    <3>1. l \in 0 .. n /\ Upto(l) # {} /\ ~Has(l)
      OBVIOUS
    <3> HIDE DEF Has
    <3>2. Upto(0) = {}
      <4>1. ASSUME NEW k \in Upto(0)
            PROVE  FALSE
        <5>1. k \in S /\ k <= 0
          OBVIOUS
        <5> HIDE DEF Upto
        <5> QED
          BY <1>0, <5>1
      <4> HIDE DEF Upto
      <4> QED
        BY <4>1
    <3> HIDE DEF Upto
    <3> QED
      BY <3>1, <3>2
  <2>3. l - 1 \in 0 .. n /\ l - 1 \notin Bad
    BY <2>1, <2>2
  <2>4. Upto(l - 1) = {} \/ Has(l - 1)
    BY <2>3
  <2>5. \A k \in S : k \in Upto(l) <=> k \in Upto(l - 1) \/ k = l
    BY <1>0, <2>2
  <2>6. l \in S
    <3>1. l \notin S => Upto(l) = Upto(l - 1)
      BY <2>5
    <3> QED
      BY <2>2, <2>4, <3>1
  <2>7. CASE Upto(l - 1) = {}
    <3>1. Upto(l) = {l}
      BY <2>5, <2>6, <2>7
    <3> QED
      BY <1>0, <2>2, <2>6, <3>1
  <2>8. CASE Has(l - 1)
    <3>1. PICK k \in Upto(l - 1) : \A j \in Upto(l - 1) : f[j] <= f[k]
      BY <2>8
    <3> HIDE DEF Upto
    <3>2. k \in S /\ Upto(l) \subseteq S /\ k \in Upto(l) /\ l \in Upto(l)
      BY <2>5, <2>6 DEF Upto
    <3>3. \A j \in Upto(l) : j = l \/ j \in Upto(l - 1)
      BY <2>5, <3>2
    <3>4. CASE f[k] <= f[l]
      BY <1>0, <2>2, <3>1, <3>2, <3>3, <3>4
    <3>5. CASE ~(f[k] <= f[l])
      BY <1>0, <2>2, <3>1, <3>2, <3>3, <3>5
    <3> QED
      BY <3>4, <3>5
  <2> QED
    BY <2>4, <2>7, <2>8
<1>2. Upto(n) = S /\ n \in 0 .. n
  <2>1. \A k : k \in Upto(n) <=> k \in S
    BY <1>0
  <2> HIDE DEF Upto
  <2> QED
    BY <2>1
<1>3. n \notin Bad
  BY <1>1
<1> QED
  BY <1>2, <1>3

LEMMA MaxOfTwo ==
    ASSUME NEW a \in Int, NEW b \in Int
    PROVE  Max({a, b}) = IF a >= b THEN a ELSE b
<1> DEFINE c == IF a >= b THEN a ELSE b
<1>1. c \in {a, b} /\ \A y \in {a, b} : c >= y
  OBVIOUS
<1>2. \A x \in {a, b} : (\A y \in {a, b} : x >= y) => x = c
  OBVIOUS
<1> HIDE DEF c
<1>3. Max({a, b}) = c
  BY <1>1, <1>2 DEF Max
<1> QED
  BY <1>3 DEF c

LEMMA Numbers ==
    /\ {ONES, PER_SECOND, frequency, TIMEOUT, FALLBACK} \subseteq Nat \ {0}
    /\ ONES \in Nat \ {0} /\ PER_SECOND \in Nat \ {0} /\ frequency \in Nat \ {0}
BY BootAssumption

LEMMA MachineFacts ==
    ASSUME m \in Machines
    PROVE  /\ m.modes \in Seq([width : Nat \ {0}, height : Nat \ {0}, ok : BOOLEAN, blt : BOOLEAN])
           /\ m.mode \in DOMAIN m.modes
           /\ m.setmode \in BOOLEAN /\ m.pool \in BOOLEAN
           /\ m.apic \in BOOLEAN
           /\ m.timer \in {"masked", "periodic", "deadline"}
           /\ m.tsc \in {"crystal", "other_leaf", "none"}
           /\ m.ch0 \in {"counts", "high", "stuck"} /\ m.ch2 \in {"counts", "high", "stuck"}
           /\ m.rate \in Nat \ {0} /\ m.rate <= ONES /\ m.few \in Nat /\ m.few <= m.rate
           /\ m.rate * PER_SECOND <= ONES
<1>1. /\ m.modes \in Seq([width : Nat \ {0}, height : Nat \ {0}, ok : BOOLEAN, blt : BOOLEAN])
      /\ m.mode \in DOMAIN m.modes
      /\ {m.setmode, m.pool, m.apic} \subseteq BOOLEAN
      /\ m.timer \in {"masked", "periodic", "deadline"}
      /\ m.tsc \in {"crystal", "other_leaf", "none"}
      /\ {m.ch0, m.ch2} \subseteq {"counts", "high", "stuck"}
      /\ m.rate \in 1 .. ONES - 1 /\ m.rate * PER_SECOND <= ONES /\ m.few \in 0 .. m.rate - 1
  BY BootAssumption, Zenon
<1>2. /\ m.setmode \in BOOLEAN /\ m.pool \in BOOLEAN
      /\ m.apic \in BOOLEAN
  BY <1>1
<1>3. ONES \in Nat
  BY Numbers
<1>4. m.rate \in Nat \ {0} /\ m.rate <= ONES /\ m.few \in Nat /\ m.few <= m.rate
  <2>1. m.rate \in 1 .. ONES - 1 /\ m.few \in 0 .. m.rate - 1
    BY <1>1, Zenon
  <2>2. m.rate \in Nat \ {0} /\ m.rate <= ONES
    BY <2>1, <1>3
  <2> QED
    BY <2>1, <2>2
<1> QED
  BY <1>1, <1>2, <1>4

-----------------------------------------------------------------------------
(* The kernel's tables *)

Words == {"present", "codedata", "rw", "executable", "ring3", "long", "granularity",
          "tss_available"}

\* The kernel's segments are what their users need.
LEMMA KernelGdtFacts ==
    /\ DOMAIN KernelGdt = 0 .. 6
    /\ {"present", "codedata", "rw", "executable"} \subseteq KernelGdt[KERNEL_CODE].access
    /\ "long" \in KernelGdt[KERNEL_CODE].flags
    /\ {"present", "codedata", "rw"} \subseteq KernelGdt[KERNEL_DATA].access
    /\ "tss_available" \in KernelGdt[TSS_SELECTOR].access
<1>1. \A table \in [0 .. 6 -> [access : SUBSET Words, flags : SUBSET Words]] :
          LET g == gdt_create_tss_entry(table, 5)
          IN  /\ DOMAIN g = 0 .. 6 /\ g[1] = table[1] /\ g[2] = table[2]
              /\ g[5] = gdt_create_entry({"present", "tss_available"}, {})
  BY DEF gdt_create_tss_entry
<1>2. /\ Segments \in [0 .. 6 -> [access : SUBSET Words, flags : SUBSET Words]]
      /\ {"present", "codedata", "rw", "executable"} \subseteq Segments[1].access
      /\ "long" \in Segments[1].flags
      /\ {"present", "codedata", "rw"} \subseteq Segments[2].access
  <2> DEFINE data == {"present", "codedata", "rw"}
             code == data \cup {"executable"}
             E(a, f) == gdt_create_entry(a, f)
             entry(i) == CASE i = 1 -> E(code, {"long", "granularity"})
                           [] i = 2 -> E(data, {"granularity"})
                           [] i = 3 -> E(code \cup {"ring3"}, {"long", "granularity"})
                           [] i = 4 -> E(data \cup {"ring3"}, {"granularity"})
                           [] OTHER -> Empty
  <2>1. Segments = [i \in 0 .. 6 |-> entry(i)]
    BY DEF Segments
  <2>2. \A a, f \in SUBSET Words :
            /\ E(a, f) \in [access : SUBSET Words, flags : SUBSET Words]
            /\ E(a, f).access = a /\ E(a, f).flags = f
    BY DEF gdt_create_entry
  <2>3. Empty \in [access : SUBSET Words, flags : SUBSET Words]
    BY DEF Empty, gdt_create_entry
  <2>4. /\ data \in SUBSET Words /\ code \in SUBSET Words
        /\ code \cup {"ring3"} \in SUBSET Words /\ data \cup {"ring3"} \in SUBSET Words
        /\ {"long", "granularity"} \in SUBSET Words /\ {"granularity"} \in SUBSET Words
    BY DEF Words
  <2> HIDE DEF E
  <2>5. \A i \in 0 .. 6 : entry(i) \in [access : SUBSET Words, flags : SUBSET Words]
    <3> DEFINE W == [access : SUBSET Words, flags : SUBSET Words]
    <3>1. /\ E(code, {"long", "granularity"}) \in W /\ E(data, {"granularity"}) \in W
          /\ E(code \cup {"ring3"}, {"long", "granularity"}) \in W
          /\ E(data \cup {"ring3"}, {"granularity"}) \in W /\ Empty \in W
      BY <2>2, <2>3, <2>4
    <3> HIDE DEF W, data, code
    <3> QED
      BY <3>1 DEF W
  <2>6. entry(1) = E(code, {"long", "granularity"}) /\ entry(2) = E(data, {"granularity"})
    OBVIOUS
  <2> HIDE DEF entry
  <2>7. Segments[1] = entry(1) /\ Segments[2] = entry(2)
    BY <2>1
  <2>8. /\ Segments[1].access = code /\ Segments[1].flags = {"long", "granularity"}
        /\ Segments[2].access = data
    <3> HIDE DEF data, code
    <3>1. /\ E(code, {"long", "granularity"}).access = code
          /\ E(code, {"long", "granularity"}).flags = {"long", "granularity"}
          /\ E(data, {"granularity"}).access = data
      BY <2>2, <2>4
    <3> QED
      BY <3>1, <2>6, <2>7
  <2> QED
    BY <2>1, <2>5, <2>8
<1> QED
  BY <1>1, <1>2 DEF KernelGdt, KERNEL_CODE, KERNEL_DATA, TSS_SELECTOR, gdt_create_entry

\* Each of the two exceptions has a stack of its own in the TSS.
LEMMA KernelIdtFacts ==
    /\ \A v \in {NMI, MACHINE_CHECK, PAGE_FAULT} : KernelIdt[v].selector = KERNEL_CODE
    /\ KernelIdt[NMI].ist = 2 /\ KernelIdt[MACHINE_CHECK].ist = 3 /\ KernelIdt[PAGE_FAULT].ist = 0
    /\ tss_init[2] = "ist_stack2" /\ tss_init[3] = "ist_stack3"
BY DEF KernelIdt, idt_set_gate, tss_init, NMI, MACHINE_CHECK, PAGE_FAULT, DOUBLE_FAULT

\* An exception, by the tables in use.
LEMMA DeliveredFacts ==
    ASSUME m \in Machines, TablesInv, NEW v \in {NMI, MACHINE_CHECK, PAGE_FAULT}, Delivered(v)
    PROVE  \/ /\ cpu.idtr = "firmware" /\ fate' = "firmware" /\ reports' = reports
           \/ /\ cpu.idtr = "firmware" /\ cpu.gdtr = "kernel" /\ m.firmware_cs # KERNEL_CODE
              /\ fate' = "reset" /\ reports' = reports
           \/ /\ cpu.idtr = "kernel" /\ fate' = "reported"
              /\ reports' = reports \cup
                    {<<v, CASE v = NMI -> "ist_stack2" [] v = MACHINE_CHECK -> "ist_stack3"
                            [] OTHER -> "current">>}
<1>1. cpu = [gdtr |-> IF at \in GdtLoaded THEN "kernel" ELSE "firmware",
             tr |-> IF at \in TssLoaded THEN TSS_SELECTOR ELSE 0,
             idtr |-> IF at \in IdtLoaded THEN "kernel" ELSE "firmware"]
  BY DEF TablesInv
<1>2. gdt = KernelGdt => IsCode64(KERNEL_CODE)
  BY KernelGdtFacts DEF IsCode64, KERNEL_CODE
<1>3. CASE cpu.idtr = "firmware"
  <2>1. fate' = (IF cpu.gdtr = "firmware" \/ IsCode64(m.firmware_cs) THEN "firmware" ELSE "reset")
        /\ reports' = reports
    BY <1>3 DEF Delivered
  <2>2. cpu.gdtr # "firmware" => cpu.gdtr = "kernel" /\ gdt = KernelGdt
    BY <1>1 DEF TablesInv
  <2> QED
    BY <1>2, <1>3, <2>1, <2>2
<1>4. CASE cpu.idtr # "firmware"
  <2> DEFINE stack == IF idt[v].ist = 0 THEN "current"
                      ELSE IF cpu.tr = TSS_SELECTOR THEN tss[idt[v].ist] ELSE "none"
  <2>1. at \in IdtLoaded /\ cpu.idtr = "kernel"
    BY <1>1, <1>4
  <2>2. at \in TssLoaded /\ at \in GdtLoaded
    BY <2>1 DEF TssLoaded, GdtLoaded
  <2>3. cpu.tr = TSS_SELECTOR /\ gdt = KernelGdt /\ tss = tss_init /\ idt = KernelIdt
    BY <1>1, <2>1, <2>2 DEF TablesInv
  <2>4. /\ idt[v].selector = KERNEL_CODE
        /\ stack = CASE v = NMI -> "ist_stack2" [] v = MACHINE_CHECK -> "ist_stack3"
                     [] OTHER -> "current"
    BY <2>3, KernelIdtFacts DEF NMI, MACHINE_CHECK, PAGE_FAULT
  <2>5. IsCode64(idt[v].selector) /\ stack # "none"
    BY <1>2, <2>3, <2>4
  <2>6. fate' = "reported" /\ reports' = reports \cup {<<v, stack>>}
    BY <1>4, <2>5 DEF Delivered
  <2> QED
    BY <2>1, <2>4, <2>6
<1> QED
  BY <1>3, <1>4

-----------------------------------------------------------------------------
(* The steps *)

EfiStep ==
    \/ InitGop \/ SetGraphicsMode \/ DrawStringCentered \/ SaveMemoryMap \/ ReadTables
    \/ ExitBootServices
LateStep ==
    \/ InitMemory \/ UefiVirtualMapSettingUp \/ apic_init
    \/ CalibrateTsc \/ CalibrateCh2 \/ CalibrateCh0 \/ timer_init \/ interrupts_enable
Comes == \E v \in {NMI, MACHINE_CHECK} : ExceptionComes(v)

LEMMA SameMachine == Next => m' = m
BY DEF Next, InitGop, SetGraphicsMode, DrawStringCentered, SaveMemoryMap, ReadTables,
       ExitBootServices, FirmwareAllocates, ClearBss, gdt_load, SegmentRegisters, tss_load,
       idt_init, InitMemory, UefiVirtualMapSettingUp, apic_init, CalibrateTsc, CalibrateCh2,
       CalibrateCh0, Calibrate, timer_init, interrupts_enable, Step, ExceptionComes

\* The processor's tables are loaded one after the other.
LEMMA TablesStep ==
    ASSUME TablesInv, Next
    PROVE  TablesInv'
<1> USE DEF Unloaded, EfiMain, GdtLoaded, TssLoaded, IdtLoaded
<1>0. cpu = [gdtr |-> IF at \in GdtLoaded THEN "kernel" ELSE "firmware",
             tr |-> IF at \in TssLoaded THEN TSS_SELECTOR ELSE 0,
             idtr |-> IF at \in IdtLoaded THEN "kernel" ELSE "firmware"]
  BY DEF TablesInv
<1>1. ASSUME UNCHANGED <<cpu, gdt, tss, idt>>, at' \in Unloaded \cup GdtLoaded,
             at' \in GdtLoaded <=> at \in GdtLoaded,
             at' \in TssLoaded <=> at \in TssLoaded,
             at' \in IdtLoaded <=> at \in IdtLoaded
      PROVE  TablesInv'
  <2> HIDE DEF Unloaded, EfiMain, GdtLoaded, TssLoaded, IdtLoaded
  <2> QED
    BY <1>1 DEF TablesInv
<1>2. CASE EfiStep \/ ClearBss
  BY <1>1, <1>2 DEF EfiStep, InitGop, SetGraphicsMode, DrawStringCentered, SaveMemoryMap,
                    ReadTables, ExitBootServices, ClearBss, Step, tableVars
<1>3. CASE gdt_load
  <2>1. /\ at = "gdt" /\ at' = "segments" /\ tss' = tss_init /\ gdt' = KernelGdt
        /\ cpu' = [cpu EXCEPT !.gdtr = "kernel"] /\ idt' = idt
    BY <1>3 DEF gdt_load, Step, KernelGdt
  <2> QED
    BY <1>0, <2>1 DEF TablesInv
<1>4. CASE SegmentRegisters
  BY <1>1, <1>4 DEF SegmentRegisters, Step, tableVars
<1>5. CASE tss_load
  <2>1. at = "tr" /\ at' = "idt" /\ UNCHANGED <<gdt, tss, idt>>
    BY <1>5 DEF tss_load, Step
  <2>2. gdt = KernelGdt /\ tss = tss_init
    BY <2>1 DEF TablesInv
  <2>3. cpu' = [cpu EXCEPT !.tr = TSS_SELECTOR]
    BY <1>5, <2>2, KernelGdtFacts DEF tss_load
  <2> QED
    BY <1>0, <2>1, <2>2, <2>3 DEF TablesInv
<1>6. CASE idt_init
  <2>1. /\ at = "idt" /\ at' = "memory" /\ idt' = KernelIdt
        /\ cpu' = [cpu EXCEPT !.idtr = "kernel"] /\ UNCHANGED <<gdt, tss>>
    BY <1>6 DEF idt_init, Step, KernelIdt
  <2> QED
    BY <1>0, <2>1 DEF TablesInv
<1>7. CASE LateStep
  <2>1. UNCHANGED <<cpu, gdt, tss, idt>>
    BY <1>7 DEF LateStep, InitMemory, UefiVirtualMapSettingUp, apic_init, CalibrateTsc,
                CalibrateCh2, CalibrateCh0, Calibrate, timer_init, interrupts_enable, tableVars
  <2>2. at \in IdtLoaded /\ at' \in IdtLoaded
    BY <1>7 DEF LateStep, InitMemory, UefiVirtualMapSettingUp, apic_init, CalibrateTsc,
                CalibrateCh2, CalibrateCh0, Calibrate, timer_init, interrupts_enable, Step
  <2> QED
    BY <1>1, <2>1, <2>2
<1>8. CASE FirmwareAllocates \/ Comes
  <2>1. UNCHANGED <<at, cpu, gdt, tss, idt>>
    BY <1>8 DEF FirmwareAllocates, Comes, ExceptionComes
  <2> QED
    BY <2>1 DEF TablesInv
<1> QED
  BY <1>2, <1>3, <1>4, <1>5, <1>6, <1>7, <1>8 DEF Next, EfiStep, LateStep, Comes

\* Only memory's lack and exceptions are reported.
LEMMA ReportsStep ==
    ASSUME m \in Machines, TablesInv, ReportsInv, Next
    PROVE  ReportsInv'
<1>1. CASE Comes
  <2>1. PICK v \in {NMI, MACHINE_CHECK} : ExceptionComes(v)
    BY <1>1 DEF Comes
  <2>2. came' = [came EXCEPT ![v] = @ + 1]
    BY <2>1 DEF ExceptionComes
  <2>3. /\ came' \in [{NMI, MACHINE_CHECK} -> Nat] /\ came'[v] > 0
        /\ \A w \in {NMI, MACHINE_CHECK} : came[w] > 0 => came'[w] > 0
    BY <2>2 DEF ReportsInv
  <2>4. reports' = reports \/ Delivered(v)
    BY <2>1 DEF ExceptionComes
  <2>5. \/ reports' = reports
        \/ reports' = reports \cup
              {<<v, CASE v = NMI -> "ist_stack2" [] v = MACHINE_CHECK -> "ist_stack3"
                      [] OTHER -> "current">>}
    BY <2>4, DeliveredFacts
  <2> QED
    BY <2>3, <2>5 DEF ReportsInv, NMI, MACHINE_CHECK, PAGE_FAULT
<1>2. CASE InitMemory
  <2>1. came' = came /\ (reports' = reports \/ Delivered(PAGE_FAULT))
    BY <1>2 DEF InitMemory, Step, Runs, Ends
  <2>2. reports' = reports \/ reports' = reports \cup {<<PAGE_FAULT, "current">>}
    BY <2>1, DeliveredFacts DEF NMI, MACHINE_CHECK, PAGE_FAULT
  <2> QED
    BY <2>1, <2>2 DEF ReportsInv, NMI, MACHINE_CHECK, PAGE_FAULT
<1>3. CASE ~Comes /\ ~InitMemory
  <2>1. came' = came /\ reports' = reports
    BY <1>3 DEF Next, Comes, InitGop, SetGraphicsMode, DrawStringCentered, SaveMemoryMap,
                ReadTables, ExitBootServices, FirmwareAllocates, ClearBss, gdt_load,
                SegmentRegisters, tss_load, idt_init, UefiVirtualMapSettingUp, apic_init,
                CalibrateTsc, CalibrateCh2, CalibrateCh0, Calibrate, timer_init,
                interrupts_enable, Step, Runs, Ends
  <2> QED
    BY <2>1 DEF ReportsInv
<1> QED
  BY <1>1, <1>2, <1>3

\* The firmware's map changes, and the key with it.
LEMMA MapStep ==
    ASSUME m \in Machines, TablesInv, MapInv, Next
    PROVE  MapInv'
<1> USE DEF BeforeMap, EfiMain
<1>0. m.pool \in BOOLEAN
  BY MachineFacts
<1>1. CASE InitGop \/ SetGraphicsMode \/ DrawStringCentered
  <2>1. /\ UNCHANGED <<m, key, mmp, exited, changes>> /\ at \in BeforeMap /\ at' \in BeforeMap
    BY <1>1 DEF InitGop, SetGraphicsMode, DrawStringCentered, Step, firmwareVars
  <2> QED
    BY <2>1 DEF MapInv
<1>2. CASE SaveMemoryMap
  <2>1. /\ UNCHANGED <<m, exited, changes>> /\ at = "map" /\ at' = "tables"
        /\ key' = key + 1 /\ mmp' = IF m.pool THEN key' ELSE 0
    BY <1>2 DEF SaveMemoryMap, Step
  <2> QED
    BY <1>0, <2>1 DEF MapInv
<1>3. CASE ReadTables
  <2>1. /\ UNCHANGED <<m, key, mmp, exited, changes>> /\ at = "tables" /\ at' = "exit"
    BY <1>3 DEF ReadTables, Step
  <2> QED
    BY <2>1 DEF MapInv
<1>4. CASE ExitBootServices
  <2>1. /\ UNCHANGED <<m, key, mmp, changes>> /\ at = "exit" /\ at' = "kernel_main"
        /\ exited' = (mmp = key)
    BY <1>4 DEF ExitBootServices, Step
  <2>2. mmp = key <=> m.pool /\ changes.late = 0
    <3>1. /\ key \in Nat \ {0} /\ changes.late \in Nat /\ (mmp = 0 <=> ~m.pool)
          /\ m.pool => key = mmp + changes.late /\ mmp \in Nat
      BY <2>1 DEF MapInv
    <3> QED
      BY <1>0, <3>1
  <2>3. exited' <=> m.pool /\ changes.late = 0
    BY <2>1, <2>2
  <2> QED
    BY <2>1, <2>3 DEF MapInv
<1>5. CASE FirmwareAllocates
  <2>1. /\ UNCHANGED <<m, at, mmp, exited>> /\ at \in EfiMain /\ key' = key + 1
        /\ changes' = IF at \in {"tables", "exit"} THEN [changes EXCEPT !.late = @ + 1]
                      ELSE [changes EXCEPT !.early = @ + 1]
    BY <1>5 DEF FirmwareAllocates
  <2>2. /\ changes' \in [early : Nat, late : Nat]
        /\ changes'.late = IF at \in {"tables", "exit"} THEN changes.late + 1 ELSE changes.late
    BY <2>1 DEF MapInv
  <2> QED
    BY <2>1, <2>2 DEF MapInv
<1>6. CASE ClearBss \/ gdt_load \/ SegmentRegisters \/ tss_load \/ idt_init \/ LateStep
  <2>1. UNCHANGED <<m, key, mmp, exited, changes>>
    BY <1>6 DEF ClearBss, gdt_load, SegmentRegisters, tss_load, idt_init, LateStep, InitMemory,
                UefiVirtualMapSettingUp, apic_init, CalibrateTsc, CalibrateCh2, CalibrateCh0,
                Calibrate, timer_init, interrupts_enable, Step, firmwareVars
  <2>2. at \notin EfiMain /\ at' \notin EfiMain
    BY <1>6 DEF ClearBss, gdt_load, SegmentRegisters, tss_load, idt_init, LateStep, InitMemory,
                UefiVirtualMapSettingUp, apic_init, CalibrateTsc, CalibrateCh2, CalibrateCh0,
                Calibrate, timer_init, interrupts_enable, Step
  <2> QED
    BY <2>1, <2>2 DEF MapInv
<1>7. CASE Comes
  BY <1>7 DEF Comes, ExceptionComes, MapInv
<1> QED
  BY <1>1, <1>2, <1>3, <1>4, <1>5, <1>6, <1>7 DEF Next, LateStep, Comes

\* The mode in use has a frame buffer that can be drawn in, if there is one.
LEMMA BestModeDrawable ==
    ASSUME m \in Machines, NEW i, i = FindBestMode(m.modes), i = 0 \/ m.modes[i].blt
    PROVE  \A j \in DOMAIN m.modes : ~Drawable(j)
<1> DEFINE modes == m.modes
           usable == {k \in DOMAIN modes : modes[k].ok /\ ~modes[k].blt}
           exact == {k \in usable : /\ modes[k].width = PreferredWidth
                                    /\ modes[k].height = PreferredHeight}
           Score(k) == modes[k].width * modes[k].height
           best == {k \in usable : Score(k) > 0 /\ \A j \in usable : Score(j) <= Score(k)}
<1>0. /\ \E n \in Nat : DOMAIN modes = 1 .. n
      /\ DOMAIN modes \subseteq Nat \ {0}
      /\ \A k \in DOMAIN modes : modes[k].width \in Nat \ {0} /\ modes[k].height \in Nat \ {0}
  <2> DEFINE R == [width : Nat \ {0}, height : Nat \ {0}, ok : BOOLEAN, blt : BOOLEAN]
  <2>1. modes \in Seq(R)
    BY MachineFacts
  <2>2. \A r \in R : r.width \in Nat \ {0} /\ r.height \in Nat \ {0}
    OBVIOUS
  <2> HIDE DEF R, modes
  <2> QED
    BY <2>1, <2>2, SeqFacts
<1>1. i = IF exact # {} THEN Min(exact) ELSE IF best # {} THEN Min(best) ELSE m.mode
  BY DEF FindBestMode
<1>2. SUFFICES ASSUME usable # {}
               PROVE  FALSE
  BY DEF Drawable
<1>3. i \notin usable
  BY <1>0
<1>4. exact \in SUBSET Nat /\ exact \subseteq usable /\ best \in SUBSET Nat /\ best \subseteq usable
  BY <1>0
<1>5. best # {}
  <2> DEFINE f == [k \in usable |-> Score(k)]
  <2>1. \A k \in usable : Score(k) \in Nat /\ Score(k) > 0
    <3>1. \A a, b \in Nat \ {0} : a * b \in Nat /\ a * b > 0
      OBVIOUS
    <3> QED
      BY <1>0, <3>1
  <2>2. PICK n \in Nat : DOMAIN modes = 1 .. n
    BY <1>0
  <2>3. usable \in SUBSET (1 .. n) /\ f \in [usable -> Nat]
    BY <2>1, <2>2
  <2> HIDE DEF usable, Score
  <2>4. PICK k \in usable : \A j \in usable : f[j] <= f[k]
    <3> HIDE DEF f
    <3> QED
      BY <1>2, <2>3, GreatestExists
  <2>5. k \in best
    BY <2>1, <2>4
  <2> QED
    BY <2>5
<1>6. exact # {} => Min(exact) \in exact
  BY <1>4, NatMin
<1>7. Min(best) \in best
  BY <1>4, <1>5, NatMin
<1> HIDE DEF exact, best, usable
<1> QED
  BY <1>1, <1>3, <1>4, <1>5, <1>6, <1>7

\* What ends the boot ends it for its reason, and nothing goes on after it.
LEMMA FateStep ==
    ASSUME m \in Machines, TablesInv, ReportsInv, MapInv, FateInv, ClockInv, Next
    PROVE  FateInv'
<1>0. /\ m.setmode \in BOOLEAN /\ m.pool \in BOOLEAN /\ m.apic \in BOOLEAN
      /\ m' = m
  <2>1. m' = m
    BY SameMachine
  <2> QED
    BY <2>1, MachineFacts
<1>1. NoScreen' <=> NoScreen
  BY <1>0 DEF NoScreen, Drawable
\* A step that goes on.
<1>2. ASSUME fate = "runs", fate' = "runs", at' # "draw"
      PROVE  FateInv'
  BY <1>2 DEF FateInv
<1>3. CASE InitGop
  <2>1. at' = "mode" /\ fate' \in {"runs", "stopped"}
    BY <1>3 DEF InitGop, Step, Runs, Ends
  <2> QED
    BY <2>1 DEF FateInv
<1>4. CASE SetGraphicsMode
  <2>1. /\ fate' = "runs" /\ at' = "draw"
        /\ mode' = IF m.setmode THEN FindBestMode(m.modes) ELSE 0
    BY <1>4 DEF SetGraphicsMode, Step, Runs
  <2>2. ASSUME mode' = 0 \/ m.modes[mode'].blt
        PROVE  NoScreen
    <3>1. CASE m.setmode
      <4>1. mode' = FindBestMode(m.modes)
        BY <2>1, <3>1
      <4> QED
        BY <2>2, <4>1, BestModeDrawable DEF NoScreen
    <3>2. CASE ~m.setmode
      BY <3>2 DEF NoScreen
    <3> QED
      BY <3>1, <3>2
  <2> QED
    BY <1>0, <1>1, <2>1, <2>2 DEF FateInv
<1>5. CASE DrawStringCentered
  <2>1. at = "draw" /\ at' = "map"
    BY <1>5 DEF DrawStringCentered, Step
  <2>2. fate' = "runs" \/ (fate' = "wild" /\ (mode = 0 \/ m.modes[mode].blt))
    BY <1>5 DEF DrawStringCentered, Step, Runs, Ends
  <2>3. fate' = "wild" => NoScreen
    BY <2>1, <2>2 DEF FateInv
  <2> QED
    BY <1>1, <2>1, <2>2, <2>3 DEF FateInv
<1>6. CASE \/ SaveMemoryMap \/ ReadTables \/ ExitBootServices \/ gdt_load \/ idt_init
           \/ UefiVirtualMapSettingUp \/ apic_init \/ CalibrateCh0 \/ timer_init
           \/ interrupts_enable
  <2>1. fate = "runs" /\ fate' = "runs" /\ at' # "draw"
    BY <1>6 DEF SaveMemoryMap, ReadTables, ExitBootServices, gdt_load, idt_init,
                UefiVirtualMapSettingUp, apic_init, CalibrateCh0, Calibrate, timer_init,
                interrupts_enable, Step, Runs
  <2> QED
    BY <1>2, <2>1
<1>7. CASE FirmwareAllocates
  <2>1. fate = "runs" /\ fate' = "runs" /\ UNCHANGED <<at, mode>>
    BY <1>7 DEF FirmwareAllocates
  <2> QED
    BY <1>0, <1>1, <2>1 DEF FateInv
<1>8. CASE ClearBss
  <2>1. at' = "gdt" /\ fate = "runs" /\ (fate' = "runs" \/ (fate' = "wild" /\ m.bss))
    BY <1>8 DEF ClearBss, Step, Runs, Ends
  <2> QED
    BY <1>0, <2>1 DEF FateInv
<1>9. CASE SegmentRegisters
  <2>1. at = "segments" /\ at' = "tr" /\ fate = "runs"
    BY <1>9 DEF SegmentRegisters, Step
  <2>2. gdt = KernelGdt
    BY <2>1 DEF TablesInv, GdtLoaded
  <2>3. fate' = "runs"
    BY <1>9, <2>1, <2>2, KernelGdtFacts DEF SegmentRegisters, IsCode64, Runs, KERNEL_CODE
  <2> QED
    BY <1>2, <2>1, <2>3
<1>10. CASE tss_load
  <2>1. at = "tr" /\ at' = "idt" /\ fate = "runs"
    BY <1>10 DEF tss_load, Step
  <2>2. gdt = KernelGdt
    BY <2>1 DEF TablesInv, GdtLoaded
  <2>3. fate' = "runs"
    BY <1>10, <2>1, <2>2, KernelGdtFacts DEF tss_load, Runs
  <2> QED
    BY <1>2, <2>1, <2>3
<1>11. CASE InitMemory
  <2>1. at = "memory" /\ at' = "virtual" /\ fate = "runs" /\ UNCHANGED <<cpu, came>>
    BY <1>11 DEF InitMemory, Step, tableVars
  <2>2. cpu.idtr = "kernel"
    BY <2>1 DEF TablesInv, IdtLoaded
  <2>3. \/ fate' = "runs"
        \/ mmp = 0 /\ fate' = "wild"
        \/ mmp = 0 /\ Delivered(PAGE_FAULT)
    BY <1>11, <2>1 DEF InitMemory, Runs, Ends
  <2>4. mmp = 0 => ~m.pool
    BY <2>1 DEF MapInv, BeforeMap
  <2>5. Delivered(PAGE_FAULT) => fate' = "reported"
    BY <2>2, DeliveredFacts
  <2> QED
    BY <1>0, <2>1, <2>2, <2>3, <2>4, <2>5 DEF FateInv
<1>12. CASE CalibrateTsc \/ CalibrateCh2
  <2>1. /\ at \in {"calibrate", "ch2"} /\ at' # "draw" /\ fate = "runs"
        /\ fate' = "runs" \/ (fate' = "wild" /\ ~lapic.base)
    BY <1>12 DEF CalibrateTsc, CalibrateCh2, Calibrate, Step, Runs, Ends
  <2>2. ~lapic.base => ~m.apic
    BY <2>1 DEF ClockInv
  <2> QED
    BY <1>0, <2>1, <2>2 DEF FateInv
<1>13. CASE Comes
  <2>1. PICK v \in {NMI, MACHINE_CHECK} : ExceptionComes(v)
    BY <1>13 DEF Comes
  <2>2. /\ fate \in {"runs", "reported"} /\ UNCHANGED <<at, mode, cpu>>
        /\ came' = [came EXCEPT ![v] = @ + 1]
        /\ \/ v = MACHINE_CHECK /\ (\E r \in reports : r[1] = v) /\ fate' = "reset"
           \/ Delivered(v)
    BY <2>1 DEF ExceptionComes
  <2>3. /\ came' \in [{NMI, MACHINE_CHECK} -> Nat] /\ came'[v] = came[v] + 1 /\ came'[v] > 0
        /\ \A w \in {NMI, MACHINE_CHECK} : came'[w] >= came[w]
        /\ \A w \in {NMI, MACHINE_CHECK} : came[w] \in Nat
    BY <2>2 DEF ReportsInv
  <2>4. v = MACHINE_CHECK /\ (\E r \in reports : r[1] = v) => came'[MACHINE_CHECK] > 1
    BY <2>3 DEF ReportsInv
  <2>5. Delivered(v) =>
            \/ cpu.idtr = "firmware" /\ fate' = "firmware"
            \/ /\ cpu.idtr = "firmware" /\ cpu.gdtr = "kernel"
               /\ m.firmware_cs # KERNEL_CODE /\ fate' = "reset"
            \/ cpu.idtr = "kernel" /\ fate' = "reported"
    BY DeliveredFacts
  <2>6. came'[NMI] > 0 \/ came'[MACHINE_CHECK] > 0
    BY <2>3
  <2> QED
    BY <1>0, <1>1, <2>2, <2>4, <2>5, <2>6 DEF FateInv
<1> QED
  BY <1>3, <1>4, <1>5, <1>6, <1>7, <1>8, <1>9, <1>10, <1>11, <1>12, <1>13 DEF Next, Comes

\* What a calibration counts when the timer counts.
LEMMA CountedFacts ==
    ASSUME m \in Machines
    PROVE  /\ lapic.timer # "deadline" => Counted(m.rate) = m.rate /\ Counted(m.few) = m.few
           /\ Counted(m.rate) \in Nat \ {0}
           /\ Counted(m.few) > 0 => m.few > 0 \/ lapic.timer = "deadline"
<1>1. /\ m.rate \in Nat \ {0} /\ m.rate <= ONES /\ m.few \in Nat /\ m.few <= m.rate
      /\ ONES \in Nat \ {0}
  BY MachineFacts, Numbers
<1> QED
  BY <1>1 DEF Counted

\* Each calibration gives the right count, or fails and leaves the next one to try, or
\* believes what it should not.
LEMMA ClockStep ==
    ASSUME m \in Machines, TablesInv, ClockInv, Next
    PROVE  ClockInv'
<1> USE DEF Unloaded, EfiMain
<1>0. /\ m.timer \in {"masked", "periodic", "deadline"}
      /\ m.tsc \in {"crystal", "other_leaf", "none"} /\ m.ch2 \in {"counts", "high", "stuck"}
      /\ m.ch0 \in {"counts", "high", "stuck"} /\ m.rate \in Nat \ {0} /\ m.few \in Nat
  BY MachineFacts
<1>1. lapic = [base |-> lapic.base, timer |-> lapic.timer] /\ m' = m
  <2>1. m' = m
    BY SameMachine
  <2> QED
    BY <2>1 DEF ClockInv
<1>2. (Deceived' <=> Deceived) /\ Masked = [base |-> lapic.base, timer |-> "masked"]
  BY <1>1 DEF Deceived, Masked
<1>3. ASSUME UNCHANGED <<lapic, ticks_per_10ms, initial_count>>,
             \/ at \in Unloaded \cup {"segments", "tr", "idt", "memory", "virtual"} /\
                at' \in Unloaded \cup {"segments", "tr", "idt", "memory", "virtual", "apic"}
             \/ at' = at
             \/ at = "interrupts_enable" /\ at' = "booted"
      PROVE  ClockInv'
  BY <1>1, <1>2, <1>3 DEF ClockInv
<1>4. CASE EfiStep \/ ClearBss \/ gdt_load \/ SegmentRegisters \/ tss_load \/ idt_init
  <2>1. UNCHANGED <<lapic, ticks_per_10ms, initial_count>>
    BY <1>4 DEF EfiStep, InitGop, SetGraphicsMode, DrawStringCentered, SaveMemoryMap,
                ReadTables, ExitBootServices, ClearBss, gdt_load, SegmentRegisters, tss_load,
                idt_init, clockVars
  <2>2. /\ at \in Unloaded \cup {"segments", "tr", "idt", "memory", "virtual"}
        /\ at' \in Unloaded \cup {"segments", "tr", "idt", "memory", "virtual", "apic"}
    BY <1>4 DEF EfiStep, InitGop, SetGraphicsMode, DrawStringCentered, SaveMemoryMap,
                ReadTables, ExitBootServices, ClearBss, gdt_load, SegmentRegisters, tss_load,
                idt_init, Step
  <2> QED
    BY <1>3, <2>1, <2>2
<1>5. CASE InitMemory \/ UefiVirtualMapSettingUp \/ interrupts_enable
  <2>1. UNCHANGED <<lapic, ticks_per_10ms, initial_count>>
    BY <1>5 DEF InitMemory, UefiVirtualMapSettingUp, interrupts_enable, clockVars
  <2>2. \/ at = "memory" /\ at' = "virtual"
        \/ at = "virtual" /\ at' = "apic"
        \/ at = "interrupts_enable" /\ at' = "booted"
    BY <1>5 DEF InitMemory, UefiVirtualMapSettingUp, interrupts_enable, Step
  <2> QED
    BY <1>3, <2>1, <2>2
<1>6. CASE FirmwareAllocates \/ Comes
  <2>1. UNCHANGED <<at, lapic, ticks_per_10ms, initial_count>>
    BY <1>6 DEF FirmwareAllocates, Comes, ExceptionComes
  <2> QED
    BY <1>3, <2>1
<1>7. CASE apic_init
  <2>1. /\ at = "apic" /\ at' = "calibrate" /\ lapic' = [lapic EXCEPT !.base = m.apic]
        /\ UNCHANGED <<ticks_per_10ms, initial_count>>
    BY <1>7 DEF apic_init, Step
  <2>2. lapic' = [base |-> m.apic, timer |-> lapic.timer]
    BY <1>1, <2>1
  <2> QED
    BY <1>1, <2>1, <2>2 DEF ClockInv
<1>8. CASE CalibrateTsc
  <2> DEFINE ticks == calibrate_via_tsc
  <2>1. /\ at = "calibrate" /\ at' = IF ticks > 0 THEN "start" ELSE "ch2"
        /\ ticks_per_10ms' = ticks /\ initial_count' = initial_count
        /\ lapic' = IF m.tsc = "none" THEN lapic ELSE Masked
    BY <1>8 DEF CalibrateTsc, Calibrate, Step
  <2>2. lapic.timer = m.timer /\ lapic.base = m.apic /\ initial_count = 0
    BY <2>1 DEF ClockInv
  <2>3. /\ m.tsc = "crystal" => ticks = Counted(m.rate)
        /\ m.tsc = "other_leaf" => ticks = Counted(m.few)
        /\ m.tsc = "none" => ticks = 0
    BY DEF calibrate_via_tsc
  <2>4. ticks > 0 => ticks = m.rate \/ Deceived
    BY <1>0, <2>2, <2>3, CountedFacts DEF Deceived
  <2>5. m.tsc = "crystal" => ticks > 0
    BY <2>3, CountedFacts
  <2> HIDE DEF ticks
  <2> QED
    BY <1>0, <1>1, <1>2, <2>1, <2>2, <2>4, <2>5 DEF ClockInv
<1>9. CASE CalibrateCh2
  <2> DEFINE ticks == calibrate_via_pit_ch2
  <2>1. /\ at = "ch2" /\ at' = IF ticks > 0 THEN "start" ELSE "ch0"
        /\ ticks_per_10ms' = ticks /\ initial_count' = initial_count /\ lapic' = Masked
    BY <1>9 DEF CalibrateCh2, Calibrate, Step
  <2>2. /\ m.tsc # "crystal" /\ lapic.base = m.apic /\ initial_count = 0
        /\ lapic.timer = IF m.tsc = "none" THEN m.timer ELSE "masked"
    BY <2>1 DEF ClockInv
  <2>3. /\ m.ch2 = "counts" => ticks = Counted(m.rate)
        /\ m.ch2 = "high" => ticks = Counted(m.few)
        /\ m.ch2 = "stuck" => ticks = 0
    BY DEF calibrate_via_pit_ch2
  <2>4. ticks > 0 => ticks = m.rate \/ Deceived
    BY <1>0, <2>2, <2>3, CountedFacts DEF Deceived
  <2>5. ~(ticks > 0) => m.ch2 # "counts"
    BY <2>3, CountedFacts
  <2> HIDE DEF ticks
  <2> QED
    BY <1>0, <1>1, <1>2, <2>1, <2>2, <2>4, <2>5 DEF ClockInv
<1>10. CASE CalibrateCh0
  <2> DEFINE ticks == calibrate_via_pit_ch0
  <2>1. /\ at = "ch0" /\ at' = "start" /\ lapic' = Masked /\ initial_count' = initial_count
        /\ ticks_per_10ms' = IF ticks = 0 THEN FALLBACK ELSE ticks
    BY <1>10 DEF CalibrateCh0, Calibrate, Step
  <2>2. m.tsc # "crystal" /\ m.ch2 # "counts" /\ lapic.timer = "masked" /\ initial_count = 0
    BY <2>1 DEF ClockInv
  <2>3. m.ch0 = "counts" => ticks = m.rate
    BY <2>2, CountedFacts DEF calibrate_via_pit_ch0
  <2>4. ticks_per_10ms' = m.rate \/ Deceived
    BY <1>0, <2>1, <2>2, <2>3 DEF Deceived
  <2> HIDE DEF ticks
  <2> QED
    BY <1>1, <1>2, <2>1, <2>2, <2>4 DEF ClockInv
<1>11. CASE timer_init
  <2> DEFINE count == ((ticks_per_10ms * PER_SECOND) % (ONES + 1)) \div frequency
             right == (m.rate * PER_SECOND) \div frequency
  <2>1. /\ at = "start" /\ at' = "interrupts_enable"
        /\ initial_count' = IF count = 0 THEN 1 ELSE count
        /\ lapic' = [lapic EXCEPT !.timer = "periodic"]
    BY <1>11 DEF timer_init, Step
  <2>2. ticks_per_10ms = m.rate \/ Deceived
    BY <2>1 DEF ClockInv
  <2>3. ticks_per_10ms = m.rate => initial_count' = Max({1, right})
    <3>1. ASSUME ticks_per_10ms = m.rate
          PROVE  count = right /\ right \in Nat
      <4> DEFINE p == m.rate * PER_SECOND
      <4>1. p \in Nat /\ p <= ONES /\ ONES \in Nat /\ frequency \in Nat \ {0}
        <5>1. p <= ONES
          BY MachineFacts
        <5> QED
          BY <1>0, <5>1, Numbers
      <4>2. count = (p % (ONES + 1)) \div frequency
        BY <3>1
      <4> HIDE DEF p
      <4>3. p % (ONES + 1) = p /\ p \div frequency \in Nat
        BY <4>1
      <4> QED
        BY <4>2, <4>3 DEF p
    <3> HIDE DEF count, right
    <3>2. right \in Nat => Max({1, right}) = IF 1 >= right THEN 1 ELSE right
      BY MaxOfTwo
    <3> QED
      BY <2>1, <3>1, <3>2
  <2>4. lapic' = [base |-> lapic.base, timer |-> "periodic"]
    BY <1>1, <2>1
  <2>5. initial_count' = Max({1, (m'.rate * PER_SECOND) \div frequency}) \/ Deceived'
    BY <1>1, <1>2, <2>2, <2>3
  <2> HIDE DEF count, right
  <2> QED
    BY <2>1, <2>4, <2>5 DEF ClockInv
<1> QED
  BY <1>4, <1>5, <1>6, <1>7, <1>8, <1>9, <1>10, <1>11 DEF Next, EfiStep, Comes

-----------------------------------------------------------------------------

LEMMA InitBInv == Init => BInv
<1> SUFFICES ASSUME Init
             PROVE  BInv
  OBVIOUS
<1> USE DEF Init, Unloaded, EfiMain, GdtLoaded, TssLoaded, IdtLoaded, BeforeMap
<1>1. TablesInv
  BY DEF TablesInv
<1>2. ReportsInv
  BY DEF ReportsInv
<1>3. MapInv
  BY DEF MapInv
<1>4. FateInv
  BY DEF FateInv
<1>5. ClockInv
  BY DEF ClockInv
<1> QED
  BY <1>1, <1>2, <1>3, <1>4, <1>5 DEF BInv

LEMMA NextBInv == BInv /\ [Next]_vars => BInv'
<1> SUFFICES ASSUME BInv, [Next]_vars
             PROVE  BInv'
  OBVIOUS
<1>0. m \in Machines /\ TablesInv /\ ReportsInv /\ MapInv /\ FateInv /\ ClockInv
  BY DEF BInv
<1>1. CASE Next
  <2>1. m' = m
    BY <1>1, SameMachine
  <2> QED
    BY <1>0, <1>1, <2>1, TablesStep, ReportsStep, MapStep, FateStep, ClockStep DEF BInv
<1>2. CASE UNCHANGED vars
  BY <1>0, <1>2 DEF vars, BInv, TablesInv, ReportsInv, MapInv, FateInv, ClockInv, NoScreen,
                    Drawable, Deceived
<1> QED
  BY <1>1, <1>2

THEOREM Invariance == Spec => []BInv
BY InitBInv, NextBInv, PTL DEF Spec

\* The boot ends only for the reasons there are, whenever exceptions come; reports do
\* not share a stack; and the firmware's farewell fails only for a late change.
THEOREM FatesAreExplained == Spec => []FatesExplained
<1>1. BInv => FatesExplained
  <2> SUFFICES ASSUME BInv
               PROVE  FatesExplained
    OBVIOUS
  <2>1. \A r, s \in reports : r[2] = s[2] => r[1] = s[1]
    BY DEF BInv, ReportsInv
  <2>2. \A r \in reports : r[1] \in {NMI, MACHINE_CHECK} => r[2] # "current"
    BY DEF BInv, ReportsInv, NMI, MACHINE_CHECK, PAGE_FAULT
  <2>3. fate = "reported" /\ (\A v \in DOMAIN came : came[v] = 0) => ~m.pool
    BY DEF BInv, ReportsInv, FateInv
  <2>4. fate = "wild" => \/ ~m.setmode \/ \A i \in DOMAIN m.modes : ~Drawable(i)
                         \/ ~m.pool \/ m.bss \/ ~m.apic
    BY DEF BInv, FateInv, NoScreen
  <2>5. /\ fate = "reset" => \/ /\ cpu.gdtr = "kernel" /\ cpu.idtr = "firmware"
                                /\ m.firmware_cs # KERNEL_CODE
                             \/ came[MACHINE_CHECK] > 1
        /\ fate = "firmware" => cpu.idtr = "firmware"
    BY DEF BInv, FateInv
  <2>6. at \notin EfiMain => (exited <=> m.pool /\ changes.late = 0)
    BY DEF BInv, MapInv
  <2> QED
    BY <2>1, <2>2, <2>3, <2>4, <2>5, <2>6 DEF FatesExplained
<1> QED
  BY Invariance, <1>1, PTL

\* The timer that is started interrupts as often as was asked for, unless a calibration
\* believed a clock that is none.
THEOREM ClockIsTrue == Spec => []ClockTrue
<1>1. BInv => ClockTrue
  BY DEF BInv, TablesInv, ClockInv, ClockTrue, Deceived
<1> QED
  BY Invariance, <1>1, PTL

=============================================================================
