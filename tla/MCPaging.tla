------------------------------ MODULE MCPaging ------------------------------
(* Machines and calls for the model checking of Paging: two entries to a   *)
(* table, so 16 pages, 8 of them in the lower half; the first 4 GB are     *)
(* pages 0 to 3, and the higher half of the kernel pages 14 and 15.        *)
EXTENDS Paging

MCMmio == {2, 3}
MCFrames == 1 .. 14
Region(t, b, n) == [type |-> t, base |-> b, pages |-> n]
MCFlagSets == {{"user", "cache"}}
MCVirts == {0, 8}
MCTargets == {4}

\* Memory above 4 GB and the frame buffer between; the frame buffer above all;
\* too little memory for all tables, and for the first.
MCMachines ==
    {[regions |-> <<Region("code", 0, 1), Region("data", 1, 1), Region("other", 4, 1)>>,
      fb |-> 3, fbPages |-> 1, rip |-> 0, frames |-> 1 .. 14],
     [regions |-> <<Region("other", 0, 1), Region("code", 1, 1)>>,
      fb |-> 5, fbPages |-> 2, rip |-> 1, frames |-> 1 .. 9]}
    \cup {[regions |-> <<Region("code", 0, 1), Region("other", 3, 2)>>,
           fb |-> 4, fbPages |-> 1, rip |-> 0, frames |-> 1 .. n] : n \in {0, 2, 5}}

\* The loader put the kernel at 2 GB.
MCHighLoader ==
    {[regions |-> <<Region("other", 0, 2), Region("data", 2, 1), Region("code", 3, 1)>>,
      fb |-> 4, fbPages |-> 1, rip |-> 3, frames |-> MCFrames]}

=============================================================================
