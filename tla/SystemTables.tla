--------------------------- MODULE SystemTables ----------------------------
(***************************************************************************)
(* What systemTables.c reads in the firmware's tables: the ACPI root       *)
(* pointer, a table by its signature, the processors of the MADT, and the  *)
(* structures and strings of the SMBIOS table.                             *)
(*                                                                         *)
(* The firmware is a list of configuration tables.  The MADT's body is a   *)
(* sequence of 4-byte words and the SMBIOS table one of bytes, as both are *)
(* walked with pointers; a signature, and the sum of a table's bytes, are  *)
(* values.                                                                 *)
(***************************************************************************)
EXTENDS Integers, Sequences, FiniteSets, FiniteSetsExt, SequencesExt

NULL == [null |-> TRUE]
NoHeader == 0                   \* the null pointer among the positions of a table

LOCAL_APIC == 0
LOCAL_X2APIC == 9
END_OF_TABLE == 127
MEMORY_DEVICE == 17

-----------------------------------------------------------------------------
(* The tables as the firmware lays them out.  A MADT's entry has its flags in *)
(* the second word, or in the third if it is of the newer kind.               *)

MadtEntry(e) ==
    LET flags == IF e.on THEN 1 ELSE 0 IN
    [w \in 1 .. Max({e.length, 1}) |-> [type |-> IF w = 1 THEN e.type ELSE 0,
                                       length |-> IF w = 1 THEN e.length ELSE 0,
                                       flags |-> IF w = (IF e.type = LOCAL_X2APIC THEN 3 ELSE 2)
                                                   THEN flags ELSE 0]]
MadtLayout(entries) == FlattenSeq([i \in DOMAIN entries |-> MadtEntry(entries[i])])

Structure(s) ==
    <<s.type, s.length>> \o [i \in 1 .. s.length - 2 |-> 0]
    \o FlattenSeq([k \in DOMAIN s.strings |-> Append(s.strings[k], 0)])
    \o IF s.strings = <<>> THEN <<0, 0>> ELSE <<0>>
SmbiosLayout(structures) ==
    FlattenSeq([i \in DOMAIN structures |-> Structure(structures[i])])

-----------------------------------------------------------------------------
(* ACPI *)

CompareSignature(sig1, sig2) == sig1 = sig2

\* The bytes are added up in eight bits.
AcpiValidateChecksum(sum) == sum % 256 = 0

\* The first entry with the GUID.
FindConfigTable(config, guid) ==
    LET found == {i \in DOMAIN config : config[i].guid = guid} IN
    IF found = {} THEN NULL ELSE config[Min(found)].table

\* The new pointer hides the old one, a bad one too.
AcpiGetRSDP(config) ==
    LET new == FindConfigTable(config, "acpi20")
        rsdp == IF new = NULL THEN FindConfigTable(config, "acpi10") ELSE new
    IN  IF /\ rsdp # NULL
           /\ CompareSignature(rsdp.signature, "RSD PTR ")
           /\ AcpiValidateChecksum(rsdp.sum20)
           /\ rsdp.revision >= 2 => AcpiValidateChecksum(rsdp.sum)
          THEN rsdp ELSE NULL

\* The first good table in the XSDT, or in the RSDT if there is no XSDT.
AcpiFindTable(xsdt, rsdt, signature) ==
    LET root == IF xsdt # NULL THEN xsdt ELSE rsdt
        good == {i \in DOMAIN root.entries :
                    /\ root.entries[i] # NULL
                    /\ CompareSignature(root.entries[i].signature, signature)
                    /\ AcpiValidateChecksum(root.entries[i].sum)}
    IN  IF root = NULL \/ good = {} THEN NULL ELSE root.entries[Min(good)]

\* The flags of an entry at word p: whether the processor is on.
Enabled(body, p) ==
    \/ body[p].type = LOCAL_APIC /\ body[p + 1].flags % 2 = 1
    \/ body[p].type = LOCAL_X2APIC /\ body[p + 2].flags % 2 = 1

\* A bug: the old entries only.
CountLocalApics(madt) ==
    LET body == madt.body
        count[p \in 1 .. Len(body) + 255] ==
            IF p > Len(body) \/ body[p].length = 0 THEN 0
            ELSE (IF body[p].type = LOCAL_APIC /\ Enabled(body, p) THEN 1 ELSE 0)
                 + count[p + body[p].length]
    IN  IF madt = NULL \/ count[1] = 0 THEN 1 ELSE count[1]

\* An entry of length 0 ends the walk.
AcpiGetProcessorCount(madt) ==
    LET body == madt.body
        count[p \in 1 .. Len(body) + 255] ==
            IF p > Len(body) \/ body[p].length = 0 THEN 0
            ELSE (IF Enabled(body, p) THEN 1 ELSE 0) + count[p + body[p].length]
    IN  IF madt = NULL \/ count[1] = 0 THEN 1 ELSE count[1]

-----------------------------------------------------------------------------
(* SMBIOS: a structure is its type, its length, the rest of its formatted *)
(* part, and its strings, each with a zero, and one zero more, or two.     *)

\* Past the formatted part, to the byte after the next two zeros.
SmbiosGetNext(ram, header) ==
    Min({p \in header + ram[header + 1] .. Len(ram) - 1 : ram[p] = 0 /\ ram[p + 1] = 0}) + 2

\* The first structure of the type, up to the end marker or the table's end.
SmbiosFindStructure(smbios, type) ==
    LET ram == smbios.ram
        find[p \in 1 .. Len(ram) + 1] ==
            IF p > smbios.length THEN NoHeader
            ELSE IF ram[p] = type THEN p
            ELSE IF ram[p] = END_OF_TABLE THEN NoHeader
            ELSE find[SmbiosGetNext(ram, p)]
    IN  IF smbios = NULL THEN NoHeader ELSE find[1]

StringAt(ram, p) == SubSeq(ram, p, Min({q \in p .. Len(ram) : ram[q] = 0}) - 1)

\* From each string over its zero to the next one; none is left at a second zero.
SmbiosGetString(ram, header, index) ==
    LET str[i \in 1 .. index] ==
            IF i = 1 THEN header + ram[header + 1]
            ELSE IF ram[str[i - 1]] = 0 /\ i > 2 THEN str[i - 1]
            ELSE Min({p \in str[i - 1] .. Len(ram) : ram[p] = 0}) + 1
    IN  IF header = NoHeader \/ index = 0 THEN <<>> ELSE StringAt(ram, str[index])

\* The headers console_printSMBIOSInfo lists: it goes to the end marker, whatever
\* the table's length.
MemoryDevices(smbios) ==
    LET ram == smbios.ram
        list[p \in 1 .. Len(ram)] ==
            IF ram[p] = END_OF_TABLE THEN {}
            ELSE (IF ram[p] = MEMORY_DEVICE THEN {p} ELSE {}) \cup list[SmbiosGetNext(ram, p)]
        first == SmbiosFindStructure(smbios, MEMORY_DEVICE)
    IN  IF first = NoHeader THEN {} ELSE list[first]

-----------------------------------------------------------------------------

\* The roots of an old pointer are the RSDT alone.
SystemTablesInitialize(config) ==
    LET rsdp == AcpiGetRSDP(config)
        xsdt == IF rsdp # NULL /\ rsdp.revision >= 2 THEN rsdp.xsdt ELSE NULL
        rsdt == IF rsdp # NULL THEN rsdp.rsdt ELSE NULL
        smbios3 == FindConfigTable(config, "smbios3")
    IN  [rsdp |-> rsdp,
         madt |-> AcpiFindTable(xsdt, rsdt, "APIC"),
         smbios |-> IF smbios3 # NULL THEN smbios3 ELSE FindConfigTable(config, "smbios")]

=============================================================================
