----------------------------- MODULE MemoryMap -----------------------------
(***************************************************************************)
(* The kernel's copy of the firmware memory map.                           *)
(*                                                                         *)
(* SaveMemoryMap (saveMemoryMap.c) asks the firmware for the map's size,   *)
(* allocates a pool buffer with some slack, which itself changes the       *)
(* firmware's map, and asks again; ParseMemoryMap (uefiMapParser.c) copies *)
(* the saved descriptors one by one into the fixed table g_memory_map.     *)
(* Addresses and sizes are in pages of 4096 bytes, the unit of every       *)
(* descriptor.  The kernel is single-threaded here (interrupts are off),   *)
(* so the firmware is the only other actor.                                *)
(***************************************************************************)
EXTENDS Integers, Sequences

CONSTANTS MaxPage,       \* the last page frame of physical memory
          MaxRegions,    \* MAX_MEMORY_REGIONS
          Slack,         \* descriptors that fit in the 4096 spare bytes
          FirmwareMaps   \* the maps the firmware may report

EfiConventionalMemory == 7
NULL == 0

Page == 0 .. MaxPage
Descriptor == [base : Nat, pages : Nat, type : Nat]

\* The page frames a descriptor covers.
Frames(d) == {d.base + k : k \in 0 .. d.pages - 1}

ASSUME ConstantsAssumption ==
    MaxPage \in Nat /\ MaxRegions \in Nat \ {0} /\ Slack \in Nat

\* What UEFI promises of a map: descriptors do not overlap.
ASSUME FirmwareAssumption ==
    \A m \in FirmwareMaps :
        /\ m \in Seq(Descriptor)
        /\ \A k \in 1 .. Len(m) : Frames(m[k]) \subseteq Page
        /\ \A k, l \in 1 .. Len(m) : k # l => Frames(m[k]) \cap Frames(m[l]) = {}

\* ParseMemoryMap does not compare its counter with MAX_MEMORY_REGIONS: that a
\* map fits in the table is assumed of the machine, not ensured by the code.
ASSUME FirmwareFits ==
    \A m \in FirmwareMaps : Len(m) <= MaxRegions

VARIABLES
    pc,            \* where the boot sequence is
    firmware,      \* the map the firmware would report now
    capacity,      \* descriptors the pool buffer can hold
    mmp,           \* the saved map: is there a buffer, and its descriptors
    desc_counter,  \* ParseMemoryMap's loop counter
    regions, count, total_memory, free_memory   \* g_memory_map

mapVars == <<firmware, capacity, mmp, desc_counter,
             regions, count, total_memory, free_memory>>

NoMap == [map |-> FALSE, desc |-> <<>>]
NoRegion == [base |-> 0, pages |-> 0, type |-> 0]

MapInit ==
    /\ pc = "get_size"
    /\ firmware \in FirmwareMaps
    /\ capacity = 0
    /\ mmp = NoMap
    /\ desc_counter = 0
    /\ regions = [k \in 0 .. MaxRegions - 1 |-> NoRegion]
    /\ count = 0 /\ total_memory = 0 /\ free_memory = 0

-----------------------------------------------------------------------------

\* The first GetMemoryMap: only the size, or an unexpected status.
GetMapSize ==
    /\ pc = "get_size"
    /\ \/ capacity' = Len(firmware) + Slack /\ pc' = "allocate_pool"
       \/ capacity' = 0 /\ pc' = "parse"
    /\ UNCHANGED <<firmware, mmp, desc_counter, regions, count,
                   total_memory, free_memory>>

\* AllocatePool fails, or succeeds and leaves the firmware with another map.
AllocatePool ==
    /\ pc = "allocate_pool"
    /\ \/ pc' = "parse" /\ UNCHANGED firmware
       \/ pc' = "get_map" /\ firmware' \in FirmwareMaps
    /\ UNCHANGED <<capacity, mmp, desc_counter, regions, count,
                   total_memory, free_memory>>

\* A bug: the status of the second call is not looked at.
GetMapIgnoringStatus ==
    /\ pc = "get_map"
    /\ mmp' = [map |-> TRUE, desc |-> SubSeq(firmware, 1,
                  IF capacity < Len(firmware) THEN capacity ELSE Len(firmware))]
    /\ pc' = "parse"
    /\ UNCHANGED <<firmware, capacity, desc_counter, regions, count,
                   total_memory, free_memory>>

\* The second GetMemoryMap fills the buffer, or fails when the map outgrew it.
GetMap ==
    /\ pc = "get_map"
    /\ mmp' = IF Len(firmware) <= capacity
                THEN [map |-> TRUE, desc |-> firmware]
                ELSE NoMap
    /\ pc' = "parse"
    /\ UNCHANGED <<firmware, capacity, desc_counter, regions, count,
                   total_memory, free_memory>>

\* One iteration of ParseMemoryMap's loop.  Storing at an index outside the
\* table leaves the table as it is: what lies behind it is not modelled.
ParseDescriptor ==
    /\ pc = "parse"
    /\ mmp.map
    /\ desc_counter < Len(mmp.desc)
    /\ LET desc == mmp.desc[desc_counter + 1]
       IN  /\ total_memory' = total_memory + desc.pages
           /\ free_memory' = IF desc.type = EfiConventionalMemory
                               THEN free_memory + desc.pages
                               ELSE free_memory
           /\ regions' = [regions EXCEPT ![count] = desc]
    /\ count' = count + 1
    /\ desc_counter' = desc_counter + 1
    /\ UNCHANGED <<pc, firmware, capacity, mmp>>

\* ParseMemoryMap returns: there is no map, it is empty, or the loop is over.  Its
\* check of the descriptors' size never ends it: UEFI lets descriptors be longer
\* than EFI_MEMORY_DESCRIPTOR, not shorter.
ParseDone ==
    /\ pc = "parse"
    /\ ~mmp.map \/ desc_counter = Len(mmp.desc)
    /\ pc' = "pmm_total"
    /\ UNCHANGED mapVars

MapNext == GetMapSize \/ AllocatePool \/ GetMap \/ ParseDescriptor \/ ParseDone

-----------------------------------------------------------------------------

\* Once parsed, the table is exactly the map the firmware last reported, in its
\* order, whatever the firmware's map was when its size was asked for; without
\* a saved map the table stays empty and the allocator gets no memory.
TableIsFirmwareMap ==
    pc \notin {"get_size", "allocate_pool", "get_map", "parse"} =>
        /\ count <= MaxRegions
        /\ [k \in 1 .. count |-> regions[k - 1]] = mmp.desc
        /\ mmp.map => mmp.desc = firmware

=============================================================================
