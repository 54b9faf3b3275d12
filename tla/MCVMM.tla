------------------------------- MODULE MCVMM -------------------------------
(* Arguments for the model checking of VMM: 64 pages of 4 words and 2 bytes, *)
(* half of them the user's; 24 pages of memory, of them 16 the kernel's code,    *)
(* which is at page 48 of the address space as well.                         *)
EXTENDS VMM

MCDirs == [k \in {0, 1} |-> IF k = 0 THEN 19 ELSE 22]

MCFrames == 1 .. 14
MCMemories == {5, 8, 14}
MCCounts == {1, 3}                 \* one page in part; a page and a part
MCAddresses == {8, 10, 12, 63, 94}   \* 94: in the kernel's half, right below its code
MCFlags == {{"used", "read", "write"}, {"used", "read", "write", "exec"}}

Mix(calls, n) == [calls |-> calls, max |-> n]

\* Areas, their neighbours and their rights; heap and stack; two spaces; the kernel's;
\* a space with pages in the kernel's half.
MCMixes ==
    {Mix({"user", "create", "alloc", "free", "protect"}, 5),
     Mix({"user", "create", "alloc", "brk", "stack", "fault", "unmap"}, 4),
     Mix({"user", "create", "alloc", "mmap", "clone", "destroy", "store"}, 5),
     Mix({"kernel", "allocAt", "brk", "free", "switch"}, 3),
     Mix({"user", "create", "allocAt", "free", "stack", "switch", "destroy"}, 3)}
=============================================================================
