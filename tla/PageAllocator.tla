--------------------------- MODULE PageAllocator ---------------------------
(***************************************************************************)
(* What a physical page allocator promises, without its data structure: a  *)
(* set of available pages, and for each client the pages it holds.  Pages  *)
(* are given to the allocator at boot; a page is handed to one client at a *)
(* time, and an allocation fails only when no page is available.           *)
(***************************************************************************)
CONSTANTS Pages, Clients, NoPage

VARIABLES avail,    \* pages that can be handed out
          held,     \* the pages each client holds
          result    \* what the last allocation returned

AllHeld == UNION {held[c] : c \in Clients}

Init ==
    /\ avail = {}
    /\ held = [c \in Clients |-> {}]
    /\ result = NoPage

Donate(p) ==
    /\ p \notin avail \cup AllHeld
    /\ avail' = avail \cup {p}
    /\ UNCHANGED <<held, result>>

Allocate(c, p) ==
    /\ p \in avail
    /\ avail' = avail \ {p}
    /\ held' = [held EXCEPT ![c] = @ \cup {p}]
    /\ result' = p

AllocateFails ==
    /\ avail = {}
    /\ result' = NoPage
    /\ UNCHANGED <<avail, held>>

Release(c, p) ==
    /\ p \in held[c]
    /\ avail' = avail \cup {p}
    /\ held' = [held EXCEPT ![c] = @ \ {p}]
    /\ UNCHANGED result

Next ==
    \/ \E p \in Pages : Donate(p)
    \/ \E c \in Clients, p \in Pages : Allocate(c, p) \/ Release(c, p)
    \/ AllocateFails

Spec == Init /\ [][Next]_<<avail, held, result>>

=============================================================================
