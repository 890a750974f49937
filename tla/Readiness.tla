----------------------------- MODULE Readiness -----------------------------
(***************************************************************************)
(* handler.py ReadinessHandler: one /readyz request reads the buckets one  *)
(* after the other, while their probes publish, a Secret is repointed or   *)
(* cannot be used any more, and a reload stops buckets.                    *)
(*                                                                         *)
(* Each bucket has the probes it was given in turn, numbered.              *)
(***************************************************************************)
EXTENDS Integers

CONSTANTS
    Keys,        \* the buckets a configuration may have
    MaxGiven,    \* bound: probes of one bucket
    MaxUpdates   \* bound: results published and changes of the fleet

ASSUME ReadinessAssumption == Keys # {} /\ MaxGiven \in Nat \ {0} /\ MaxUpdates \in Nat

VARIABLES
    fleet,       \* the buckets watched
    configured,  \* whether each has a view
    probe,       \* the probe it has, 0 for None
    given,       \* the probes it was given so far
    repointing,  \* whether its lock is held to repoint it
    reach,       \* what each of its probes published last
    updates,
    asking,      \* where the request is
    held,        \* the bucket it is reading, and the probe it took of it
    asked,       \* the buckets it is about
    left,        \* those still to read
    entries,     \* what it read, "none" before
    status,      \* its answer
    wasFailing,  \* history: the buckets that were failing, at some point of it
    wasFine      \* and those that were not

monitors == <<fleet, configured, probe, given, repointing, reach, updates>>
request == <<asking, held, asked, left, entries, status>>
readyVars == <<monitors, request, wasFailing, wasFine>>

Given == 1 .. MaxGiven
States == {"unconfigured", "unknown", "unreachable", "reachable"}

ReadyTypeOK ==
    /\ fleet \subseteq Keys /\ asked \subseteq Keys /\ left \subseteq asked
    /\ configured \in [Keys -> BOOLEAN] /\ probe \in [Keys -> {0} \cup Given]
    /\ given \in [Keys -> 0 .. MaxGiven]
    /\ repointing \in [Keys -> BOOLEAN]
    /\ reach \in [Keys -> [Given -> {"unknown", "unreachable", "reachable"}]]
    /\ updates \in 0 .. MaxUpdates
    /\ asking \in {"idle", "next", "result", "done"}
    /\ held \in Keys \X ({0} \cup Given)
    /\ entries \in [Keys -> States \cup {"none"}]
    /\ status \in {200, 503}
    /\ wasFailing \subseteq asked /\ wasFine \subseteq asked

AnyKey == CHOOSE k \in Keys : TRUE

ReadyInit ==
    /\ fleet \in SUBSET Keys
    /\ configured \in [Keys -> BOOLEAN]
    /\ probe = [k \in Keys |-> IF configured[k] THEN 1 ELSE 0] /\ given = probe
    /\ repointing = [k \in Keys |-> FALSE]
    /\ reach = [k \in Keys |-> [g \in Given |-> "unknown"]]
    /\ updates = 0
    /\ asking = "idle" /\ held = <<AnyKey, 0>>
    /\ asked = {} /\ left = {} /\ entries = [k \in Keys |-> "none"] /\ status = 200
    /\ wasFailing = {} /\ wasFine = {}

Failing == {"unreachable", "unconfigured"}

\* BucketMonitor.readiness: what a bucket shows, at one instant.
StateOf(k) ==
    IF ~configured[k] THEN "unconfigured"
    ELSE IF probe[k] = 0 THEN "unknown" ELSE reach[k][probe[k]]

\* A bucket being repointed shows nothing until its lock is released.
Observed ==
    /\ wasFailing' = wasFailing \cup
          {k \in asked' : ~repointing'[k] /\ StateOf(k)' \in {"unreachable", "unconfigured"}}
    /\ wasFine' = wasFine \cup
          {k \in asked' : ~repointing'[k] /\ StateOf(k)' \in {"unknown", "reachable"}}

Update == updates < MaxUpdates /\ updates' = updates + 1

-----------------------------------------------------------------------------
(* The buckets.                                                            *)

\* The Secret names another bucket: the view and the probe go, then new ones come
\* (or the clients cannot be built).
Unconfigure(k) ==
    /\ k \in fleet /\ ~repointing[k] /\ Update
    /\ repointing' = [repointing EXCEPT ![k] = TRUE]
    /\ configured' = [configured EXCEPT ![k] = FALSE] /\ probe' = [probe EXCEPT ![k] = 0]
    /\ UNCHANGED <<fleet, given, reach, request>> /\ Observed

Reconfigure(k) ==
    /\ repointing[k]
    /\ repointing' = [repointing EXCEPT ![k] = FALSE]
    /\ \/ /\ given[k] < MaxGiven
          /\ given' = [given EXCEPT ![k] = @ + 1]
          /\ configured' = [configured EXCEPT ![k] = TRUE]
          /\ probe' = [probe EXCEPT ![k] = given[k] + 1]
       \/ UNCHANGED <<given, configured, probe>>
    /\ UNCHANGED <<fleet, reach, updates, request>> /\ Observed

\* A probe publishes; one that was replaced may still end its check.
PublishReach(k) ==
    /\ Update
    /\ \E g \in 1 .. given[k], r \in {"unreachable", "reachable"} :
          /\ r # reach[k][g]
          /\ reach' = [reach EXCEPT ![k][g] = r]
          /\ wasFailing' = IF k \in asked /\ r = "unreachable"
                           THEN wasFailing \cup {k} ELSE wasFailing
          /\ wasFine' = IF k \in asked /\ r = "reachable"
                        THEN wasFine \cup {k} ELSE wasFine
    /\ UNCHANGED <<fleet, configured, probe, given, repointing, request>>

\* A reload stops a bucket: the thread of its probe is told to end, but a request that
\* holds the bucket still finds its view and its probe, with what it published last.
Leave(k) ==
    /\ k \in fleet /\ ~repointing[k] /\ Update
    /\ fleet' = fleet \ {k}
    /\ UNCHANGED <<configured, probe, given, repointing, reach, request>> /\ Observed

-----------------------------------------------------------------------------
(* The request.                                                            *)

Ask ==
    /\ asking = "idle" /\ asking' = "next"
    /\ asked' = fleet /\ left' = fleet
    /\ UNCHANGED <<monitors, held, entries, status>>
    /\ Observed

\* Under the bucket's lock: no view, no probe, or the probe to read.
TakeProbe ==
    /\ asking = "next"
    /\ \E k \in left :
          /\ ~repointing[k]
          /\ left' = left \ {k}
          /\ IF configured[k] /\ probe[k] # 0
             THEN held' = <<k, probe[k]>> /\ asking' = "result" /\ UNCHANGED entries
             ELSE /\ entries' = [entries EXCEPT ![k] = StateOf(k)]
                  /\ UNCHANGED <<held, asking>>
    /\ UNCHANGED <<monitors, asked, status, wasFailing, wasFine>>

\* probe_state, without it.
ReadProbe ==
    /\ asking = "result" /\ asking' = "next"
    /\ entries' = [entries EXCEPT ![held[1]] = reach[held[1]][held[2]]]
    /\ UNCHANGED <<monitors, held, asked, left, status, wasFailing, wasFine>>

\* Mutant: one failing bucket is enough.
AnswerAny ==
    /\ asking = "next" /\ left = {} /\ asking' = "done"
    /\ status' = IF \E k \in asked : entries[k] \in Failing THEN 503 ELSE 200
    /\ UNCHANGED <<monitors, held, asked, left, entries, wasFailing, wasFine>>

Answer ==
    /\ asking = "next" /\ left = {} /\ asking' = "done"
    /\ status' = IF asked # {} /\ \A k \in asked : entries[k] \in Failing
                 THEN 503 ELSE 200
    /\ UNCHANGED <<monitors, held, asked, left, entries, wasFailing, wasFine>>

AskAgain ==
    /\ asking = "done" /\ asking' = "idle"
    /\ asked' = {} /\ left' = {} /\ entries' = [k \in Keys |-> "none"] /\ status' = 200
    /\ held' = <<AnyKey, 0>>
    /\ wasFailing' = {} /\ wasFine' = {}
    /\ UNCHANGED monitors

-----------------------------------------------------------------------------

ReadyNext ==
    \/ \E k \in Keys : Unconfigure(k) \/ Reconfigure(k) \/ PublishReach(k) \/ Leave(k)
    \/ Ask \/ TakeProbe \/ ReadProbe \/ Answer \/ AskAgain

ReadySpec == ReadyInit /\ [][ReadyNext]_readyVars

-----------------------------------------------------------------------------
(* Property.                                                               *)

\* handler.py:210 "503 only when every bucket fails": the buckets are read one after
\* the other, yet no pod is taken out of service unless each of its buckets was seen
\* failing while the request ran, and one whose buckets all fail throughout is.
ReadyIsTrue ==
    asking = "done" =>
        /\ status = 503 => asked # {} /\ asked \subseteq wasFailing
        /\ status = 200 => asked = {} \/ wasFine # {}

=============================================================================
