--------------------------- MODULE CollectionPool ---------------------------
(***************************************************************************)
(* What the scheduler promises the rest of the exporter, whatever its      *)
(* threads do: a bucket is collected once at a time, and a collection      *)
(* starts only on a free slot, which it gives back when it ends.           *)
(***************************************************************************)
EXTENDS Integers

CONSTANTS Buckets, Size

VARIABLES
    active,   \* the buckets being collected
    free      \* the slots nothing uses

Init == active = {} /\ free = Size

Start(b) ==
    /\ b \in Buckets \ active
    /\ free > 0
    /\ active' = active \cup {b}
    /\ free' = free - 1

End(b) ==
    /\ b \in active
    /\ active' = active \ {b}
    /\ free' = free + 1

Next == \E b \in Buckets : Start(b) \/ End(b)

Spec == Init /\ [][Next]_<<active, free>>

=============================================================================
