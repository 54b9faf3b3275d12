------------------------------ MODULE KeyQueue ------------------------------
(***************************************************************************)
(* What the keyboard driver promises its reader: a bounded queue of keys.  *)
(* Keys arrive at any time and are read in that order, each once; a key    *)
(* that finds the queue full is lost; the reader may throw all keys away,  *)
(* and loses those that arrive in the meantime or not.                     *)
(***************************************************************************)
EXTENDS Naturals, Sequences

CONSTANTS Keys, Capacity

VARIABLES queue,      \* the keys that can be read
          got,        \* the key the reader is looking at
          clearing,   \* the reader is throwing the keys away
          lost        \* how many keys were lost

Init == queue = <<>> /\ ~clearing /\ lost = 0

Arrive(k) ==
    /\ Len(queue) < Capacity
    /\ queue' = Append(queue, k)
    /\ UNCHANGED <<got, clearing, lost>>

Lose ==
    /\ Len(queue) = Capacity \/ clearing
    /\ lost' = lost + 1
    /\ UNCHANGED <<queue, got, clearing>>

\* The reader looks at the oldest key, then takes it off the queue.
Look ==
    /\ queue # <<>>
    /\ got' = Head(queue)
    /\ UNCHANGED <<queue, clearing, lost>>

Take ==
    /\ queue # <<>> /\ got = Head(queue)
    /\ queue' = Tail(queue)
    /\ UNCHANGED <<got, clearing, lost>>

ClearBegin == clearing' /\ queue' = <<>> /\ UNCHANGED <<got, lost>>

ClearEnd == clearing /\ ~clearing' /\ UNCHANGED <<queue, got, lost>>

Next == Lose \/ Look \/ Take \/ ClearBegin \/ ClearEnd \/ (\E k \in Keys : Arrive(k))

Spec == Init /\ [][Next]_<<queue, got, clearing, lost>>

=============================================================================
