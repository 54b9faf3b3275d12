------------------------------- MODULE MCBoot -------------------------------
(* A good machine, and machines that differ from it in their screen, their     *)
(* firmware, their tables, or their clocks.                                    *)
EXTENDS Boot

Mode(w, h, ok, blt) == [width |-> w, height |-> h, ok |-> ok, blt |-> blt]
Region(type, runtime) == [type |-> type, runtime |-> runtime]

Entry(type, length, on) == [type |-> type, length |-> length, on |-> on]
Table(signature, sum, body) == [signature |-> signature, sum |-> sum, body |-> body]
Madt(entries, sum) == Table("APIC", sum, MadtLayout(entries))
Root(tabs) == [entries |-> tabs]
Rsdp(sum20, sum, revision, xsdt, rsdt) ==
    [signature |-> "RSD PTR ", sum20 |-> sum20, sum |-> sum, revision |-> revision,
     xsdt |-> xsdt, rsdt |-> rsdt]
Config(guid, table) == [guid |-> guid, table |-> table]

String(type, length, strings) == [type |-> type, length |-> length, strings |-> strings]
Marker == String(END_OF_TABLE, 2, <<>>)
Bios == String(0, 3, <<<<1>>, <<2, 3>>>>)
System == String(1, 4, <<>>)
Memory == String(MEMORY_DEVICE, 2, <<<<4>>>>)
Smbios(structures, more) ==
    LET ram == SmbiosLayout(structures) IN
    [ram |-> ram \o [i \in 1 .. more |-> 0], length |-> Len(ram) + more]

Pair == <<Entry(LOCAL_APIC, 2, TRUE), Entry(1, 3, FALSE), Entry(LOCAL_APIC, 2, FALSE),
          Entry(LOCAL_X2APIC, 4, TRUE)>>
Good(entries) ==
    Rsdp(256, 512, 2, Root(<<Table("FACP", 0, <<>>), Madt(entries, 256)>>), NULL)

Firmware(config, acpi, entries, structures) ==
    [config |-> config, acpi |-> acpi, entries |-> entries, structures |-> structures]
With(m0, f) == [x \in DOMAIN m0 |-> IF x \in DOMAIN f THEN f[x] ELSE m0[x]]

Base ==
    [gop |-> TRUE, modes |-> <<Mode(3, 2, TRUE, FALSE), Mode(2, 1, TRUE, FALSE)>>,
     mode |-> 1, setmode |-> TRUE, firmware_cs |-> 7, pool |-> TRUE, bss |-> FALSE,
     config |-> <<Config("acpi20", Good(Pair)), Config("smbios3", Smbios(<<Bios, Marker>>, 2))>>,
     acpi |-> TRUE, entries |-> Pair, structures |-> <<Bios, Marker>>,
     map |-> <<Region("Conventional", FALSE), Region("RuntimeCode", TRUE),
               Region("RuntimeData", TRUE), Region("MMIO", TRUE)>>,
     apic |-> TRUE, timer |-> "periodic", rate |-> 20, few |-> 1,
     tsc |-> "none", ch2 |-> "counts", ch0 |-> "counts"]

Screens ==
    {[Base EXCEPT !.modes = l, !.mode = 2, !.setmode = s, !.gop = g] :
        l \in {<<Mode(3, 3, TRUE, TRUE), Mode(1, 1, TRUE, FALSE), Mode(2, 2, TRUE, FALSE)>>,
               <<Mode(2, 1, FALSE, FALSE), Mode(2, 1, TRUE, TRUE)>>,
               <<Mode(3, 2, TRUE, FALSE), Mode(2, 1, TRUE, FALSE)>>},
        s \in BOOLEAN, g \in BOOLEAN}

Firmwares ==
    {[Base EXCEPT !.firmware_cs = c, !.pool = p, !.bss = b, !.apic = a] :
        c \in {1, 7}, p \in BOOLEAN, b \in BOOLEAN, a \in BOOLEAN}

Clocks ==
    {[Base EXCEPT !.timer = t, !.rate = r, !.few = f, !.tsc = c, !.ch2 = two, !.ch0 = zero] :
        t \in {"masked", "periodic", "deadline"}, r \in {20, 50}, f \in {0, 1},
        c \in {"crystal", "other_leaf", "none"},
        two \in {"counts", "high", "stuck"}, zero \in {"counts", "high", "stuck"}}

Entries ==
    {<<a, b, c>> : a \in {Entry(LOCAL_APIC, 2, TRUE), Entry(LOCAL_X2APIC, 4, TRUE)},
                   b \in {Entry(1, 3, TRUE), Entry(5, 0, FALSE), Entry(LOCAL_APIC, 2, FALSE)},
                   c \in {Entry(LOCAL_X2APIC, 4, TRUE), Entry(LOCAL_X2APIC, 4, FALSE),
                          Entry(LOCAL_APIC, 2, TRUE)}}

\* Roots with a good MADT behind a bad one, and without one; pointers that hide another.
Acpis ==
    {Firmware(<<Config("acpi20", Good(e))>>, TRUE, e, <<>>) : e \in Entries}
    \cup {Firmware(c, TRUE, Pair, <<>>) : c \in {
             <<Config("acpi10", Rsdp(0, 1, 0, NULL, Root(<<NULL, Madt(Pair, 0)>>)))>>,
             <<Config("acpi20", Rsdp(0, 0, 2, Root(<<Madt(<<>>, 1), Madt(Pair, 512)>>), NULL))>>,
             <<Config("acpi10", Rsdp(1, 0, 0, NULL, NULL)), Config("acpi20", Good(Pair))>>}}
    \cup {Firmware(c, FALSE, Pair, <<>>) : c \in {
             <<Config("acpi20", Rsdp(0, 1, 2, NULL, NULL)),
               Config("acpi10", Rsdp(0, 0, 0, NULL, Root(<<Madt(Pair, 0)>>)))>>,
             <<Config("acpi20", Rsdp(0, 0, 2, Root(<<Madt(Pair, 3)>>), Root(<<Madt(Pair, 0)>>)))>>,
             <<>>}}

Structures ==
    {<<a, b>> : a \in {Bios, System, Memory}, b \in {Bios, System, Memory, Marker}}
Smbioses ==
    {Firmware(<<Config("smbios", Smbios(s, 0))>>, FALSE, Pair, s) : s \in Structures}
    \cup {Firmware(<<Config("smbios", Smbios(<<System>>, 0)),
                     Config("smbios3", Smbios(Append(s, Marker), n))>>, FALSE, Pair,
                   Append(s, Marker)) : s \in Structures, n \in {0, 3}}

MCMachines ==
    Screens \cup Firmwares \cup Clocks \cup {With(Base, f) : f \in Acpis \cup Smbioses}
=============================================================================
