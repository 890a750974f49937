---------------------------- MODULE WatchedFleet ----------------------------
(***************************************************************************)
(* What a Fleet promises those that walk it, the scheduler, the refresher, *)
(* a scrape and /readyz: the monitors of one plan, all of them or none.    *)
(* A bucket whose entry stays keeps its monitor; one whose entry changed   *)
(* gets a monitor nobody has seen.                                         *)
(***************************************************************************)
EXTENDS Naturals

CONSTANTS
    Keys,     \* the keys of the buckets
    Entries,  \* what an entry may say
    None,     \* no entry
    Plans     \* the entry of each key

VARIABLES
    asked,    \* the plan last asked for
    walked    \* the monitors, by key: how many were built before, and the entry

Named == {k \in Keys : asked[k] # None}

Init ==
    /\ asked \in Plans
    /\ walked = [k \in Named |-> [number |-> 1, entry |-> asked[k]]]

Ask == asked' \in Plans /\ UNCHANGED walked

Keeps(k) == k \in DOMAIN walked /\ walked[k].entry = asked[k]

Apply ==
    /\ UNCHANGED asked
    /\ walked' \in [Named -> [number : Nat, entry : Entries]]
    /\ \A k \in Named :
          IF Keeps(k) THEN walked'[k] = walked[k]
          ELSE /\ walked'[k].entry = asked[k]
               /\ k \in DOMAIN walked => walked'[k].number > walked[k].number

Next == Ask \/ Apply

Spec == Init /\ [][Next]_<<asked, walked>>

=============================================================================
