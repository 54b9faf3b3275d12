---------------------------- MODULE ObjectStore ----------------------------
(***************************************************************************)
(* What kmalloc, kcalloc, krealloc and kfree promise their callers: memory *)
(* objects at addresses of their own.  No two live objects share a byte,   *)
(* and an object stays where it is until its owner frees or resizes it.    *)
(***************************************************************************)
EXTENDS Naturals

VARIABLE live   \* the objects: where each begins, and how many bytes it has

Bytes(o) == o.ptr .. o.ptr + o.size - 1

\* o shares no byte with the objects of S.
Apart(o, S) == \A q \in S : Bytes(o) \cap Bytes(q) = {}

Init == live = {}

Allocate(o) == Apart(o, live) /\ live' = live \cup {o}

Free(o) == o \in live /\ live' = live \ {o}

\* Resizing takes the old object away and puts one apart from the others.
Resize(o, new) ==
    /\ o \in live
    /\ Apart(new, live \ {o})
    /\ live' = (live \ {o}) \cup {new}

\* The object of a step, read off the step itself.
Next ==
    \/ \E o \in live' : Allocate(o)
    \/ \E o \in live : Free(o)
    \/ \E o \in live, new \in live' : Resize(o, new)

Spec == Init /\ [][Next]_live

=============================================================================
