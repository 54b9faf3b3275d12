--------------------------- MODULE AddressSpaces ---------------------------
(***************************************************************************)
(* What page tables promise, without tables: each address space is a       *)
(* partial function from pages to mappings, and a call changes the pages   *)
(* it names in the space it names.  The upper half belongs to the kernel:  *)
(* a change there may show in other spaces, as the same change.  The lower *)
(* half of a space is its own.                                             *)
(***************************************************************************)
EXTENDS Integers

CONSTANTS Page,       \* virtual pages
          Upper,      \* those of the upper half
          Unmapped,
          NoSpace

VARIABLES space,      \* the mapping of each live space
          done        \* the last call: its arguments and what it returned

Span(d) == d.virt .. d.virt + d.pages - 1

\* A call that succeeds may be given fewer rights than it asked for, never more.
\* Pages that are not named keep their target and their rights; they may become
\* executable (a large page that is split loses its no-execute bit).
AsAsked(d, v, m) ==
    m # Unmapped /\ m.to = d.phys + (v - d.virt) /\ m.flags \subseteq d.flags

Kept(m, n) ==
    \/ n = m
    \/ /\ m # Unmapped /\ n # Unmapped
       /\ n.to = m.to
       /\ n.flags \in {m.flags, m.flags \cup {"exec"}}

\* What a call on another space may do to a space: nothing, or in the upper half
\* what it does to the space that it names.
Isolated(old, new, named) ==
    \/ new = old
    \/ \A v \in Page : new[v] = old[v] \/ (v \in Upper /\ new[v] = named[v])

\* A call changes the pages it names: from m to n, as Effect says.
Change(op, Effect(_, _, _)) ==
    LET d == done'  old == space[d.root]  new == space'[d.root] IN
    /\ d.op = op /\ d.ok
    /\ DOMAIN space' = DOMAIN space /\ d.root \in DOMAIN space
    /\ \A v \in Span(d) : Effect(v, old[v], new[v])
    /\ \A v \in Page \ Span(d) : Kept(old[v], new[v])
    /\ \A q \in DOMAIN space \ {d.root} : Isolated(space[q], space'[q], new)

Map == Change("map", LAMBDA v, m, n : AsAsked(done', v, n))

Unmap == Change("unmap", LAMBDA v, m, n : n = Unmapped)

\* New rights for pages that stay where they are.
Protect ==
    Change("protect", LAMBDA v, m, n :
        /\ m # Unmapped /\ n # Unmapped
        /\ n.to = m.to /\ n.flags \subseteq done'.flags)

Appears(s) == DOMAIN space' = DOMAIN space \cup {s} /\ s \notin DOMAIN space
Others(s) == \A q \in DOMAIN space \ {s} : space'[q] = space[q]

\* A new space is empty below; above, it is the kernel's, or empty.
Create ==
    LET d == done' IN
    /\ d.op = "create" /\ d.ok
    /\ Appears(d.new) /\ Others(d.new)
    /\ \A v \in Page :
           space'[d.new][v] = IF v \in Upper /\ d.root # NoSpace
                                THEN space[d.root][v] ELSE Unmapped

\* A clone maps what its source maps; pages may be missing when memory ran out.
Clone ==
    LET d == done' IN
    /\ d.op = "clone" /\ d.ok
    /\ Appears(d.new) /\ Others(d.new)
    /\ \A v \in Page : space'[d.new][v] \in {space[d.root][v], Unmapped}
    /\ d.complete => space'[d.new] = space[d.root]

Destroy ==
    LET d == done' IN
    /\ d.op = "destroy" /\ d.ok
    /\ DOMAIN space' = DOMAIN space \ {d.root}
    /\ Others(d.root)

\* The first space is the kernel's, and has nothing in it.
Start ==
    LET d == done' IN
    /\ d.op = "start"
    /\ Appears(d.new) /\ Others(d.new)
    /\ \A v \in Page : space'[d.new][v] = Unmapped

Fail == ~done'.ok /\ space' = space

Init == DOMAIN space = {} /\ ~done.ok

Next == Start \/ Map \/ Unmap \/ Protect \/ Create \/ Clone \/ Destroy \/ Fail

\* Steps that change neither space nor the last call are nobody's business; the
\* same call made twice is seen as one.
Spec == Init /\ [][Next]_<<space, done>>

=============================================================================
