----------------------------- MODULE FleetApply -----------------------------
(***************************************************************************)
(* Fleet.apply, step by step: the monitors it builds before the fleet has  *)
(* them, the swap, the monitors it stops afterwards and the endpoint       *)
(* checks it brings in line.  The threads that call it do so under the     *)
(* Discoverer's lock (apc # "idle"); what to watch is their input, see     *)
(* Discovery.  A monitor is its key and how many were built for that key   *)
(* before; an entry is told from another by its endpoint.                  *)
(***************************************************************************)
EXTENDS Integers

CONSTANTS
    Keys,            \* the keys of the buckets
    Endpoints,       \* the endpoints an entry may name
    None,            \* no entry
    Plans,           \* what may be watched: the endpoint of each entry
    ThreadsMayFail,  \* whether a thread may not be started
    MaxBuilt         \* bound: monitors built for a key

Monitors == Keys \X (1 .. MaxBuilt)

ASSUME FleetAssumption ==
    /\ None \notin Endpoints \cup Monitors
    /\ Plans \subseteq [Keys -> Endpoints \cup {None}]
    /\ ThreadsMayFail \in BOOLEAN
    /\ MaxBuilt \in Nat \ {0}

VARIABLES
    fleet,      \* _monitors: the number of the monitor of a key, 0 without
    built,      \* how many monitors were built for a key
    endpoint,   \* monitor.endpoint
    probing,    \* the monitors whose probe runs
    stopped,    \* monitor.stopped
    checkers,   \* EndpointRegistry._checkers
    apc,        \* where apply is
    wanted,     \* the specs it was given: the endpoint of an entry
    building,   \* the keys whose monitor it has yet to build
    retired,    \* the monitors it has yet to stop
    whole,      \* history: the last apply did not raise
    abandoned   \* history: the monitors built by one that did

monitorVars == <<fleet, built, endpoint, probing, stopped>>
applyVars == <<apc, wanted, building, retired, whole, abandoned>>
fleetVars == <<monitorVars, checkers, applyVars>>

FleetTypes ==
    /\ fleet \in [Keys -> 0 .. MaxBuilt] /\ built \in [Keys -> 0 .. MaxBuilt]
    /\ endpoint \in [Monitors -> Endpoints \cup {None}]
    /\ probing \subseteq Monitors /\ stopped \subseteq Monitors
    /\ checkers \subseteq Endpoints
    /\ apc \in {"idle", "build", "stop"}
    /\ wanted \in Plans
    /\ building \subseteq Keys /\ retired \subseteq Monitors
    /\ whole \in BOOLEAN /\ abandoned \subseteq Monitors

\* Iterating the fleet.
InFleet == {<<k, fleet[k]>> : k \in {key \in Keys : fleet[key] # 0}}

\* Fleet.endpoints.
Watched == {endpoint[m] : m \in InFleet}

\* What apply has to build: an added entry, or one whose fingerprint changed.
Changed(k, specs) ==
    /\ specs[k] # None
    /\ fleet[k] # 0 => endpoint[<<k, fleet[k]>>] # specs[k]

Started == {<<k, built[k]>> : k \in {key \in Keys \ building : Changed(key, wanted)}}

-----------------------------------------------------------------------------

\* The first monitors were built and read, their endpoints synced.
FleetInit ==
    /\ wanted \in Plans
    /\ fleet = [k \in Keys |-> IF wanted[k] = None THEN 0 ELSE 1]
    /\ built = fleet
    /\ endpoint = [m \in Monitors |-> IF m[2] = 1 THEN wanted[m[1]] ELSE None]
    /\ probing \in SUBSET InFleet
    /\ stopped = {}
    /\ checkers = Watched
    /\ apc = "idle" /\ building = {} /\ retired = {}
    /\ whole = TRUE /\ abandoned = {}

\* apply compares the specs with its copy of the fleet: no other thread changes
\* the fleet meanwhile.
ApplyBegins ==
    /\ apc = "idle" /\ apc' = "build"
    /\ wanted' \in Plans
    /\ building' = {k \in Keys : Changed(k, wanted')}
    /\ \A k \in building' : built[k] < MaxBuilt
    /\ UNCHANGED <<monitorVars, checkers, retired, whole, abandoned>>

\* make_monitor and its first refresh, which starts the probe when the Secret
\* can be read and the source be detected.  Nobody else has the monitor yet.
Build(k) ==
    /\ apc = "build" /\ k \in building
    /\ building' = building \ {k}
    /\ built' = [built EXCEPT ![k] = @ + 1]
    /\ endpoint' = [endpoint EXCEPT ![<<k, built'[k]>>] = wanted[k]]
    /\ \/ probing' = probing \cup {<<k, built'[k]>>}
       \/ UNCHANGED probing
    /\ UNCHANGED <<fleet, stopped, checkers, apc, wanted, retired, whole, abandoned>>

\* A thread that cannot be started, the probe's or a checker's, raises out of
\* apply, whose caller logs it: what was built is held by nobody.
Raises ==
    /\ ThreadsMayFail
    /\ apc' = "idle" /\ whole' = FALSE

BuildRaises ==
    /\ apc = "build" /\ building # {}
    /\ Raises
    /\ building' = {} /\ abandoned' = abandoned \cup Started
    /\ UNCHANGED <<monitorVars, checkers, wanted, retired>>

\* Mutant: what was added is stopped with what changed.
SwapStopsAdded ==
    /\ apc = "build" /\ building = {} /\ apc' = "stop"
    /\ fleet' = [k \in Keys |-> IF wanted[k] = None THEN 0
                                ELSE IF Changed(k, wanted) THEN built[k] ELSE fleet[k]]
    /\ retired' = {<<k, fleet[k]>> : k \in {key \in Keys : fleet'[key] # fleet[key]}}
    /\ UNCHANGED <<built, endpoint, probing, stopped, checkers, wanted, building,
                   whole, abandoned>>

\* Under the fleet's lock: the removed go, the started come.
Swap ==
    /\ apc = "build" /\ building = {} /\ apc' = "stop"
    /\ fleet' = [k \in Keys |-> IF wanted[k] = None THEN 0
                                ELSE IF Changed(k, wanted) THEN built[k] ELSE fleet[k]]
    /\ retired' = InFleet \ InFleet'
    /\ UNCHANGED <<built, endpoint, probing, stopped, checkers, wanted, building,
                   whole, abandoned>>

\* BucketMonitor.stop of a removed or replaced monitor.
Stop(m) ==
    /\ apc = "stop" /\ m \in retired
    /\ retired' = retired \ {m}
    /\ stopped' = stopped \cup {m}
    /\ probing' = probing \ {m}
    /\ UNCHANGED <<fleet, built, endpoint, checkers, apc, wanted, building, whole,
                   abandoned>>

\* Mutant: the endpoints nobody names any more stay.
SyncAdds ==
    /\ apc = "stop" /\ retired = {}
    /\ checkers' = checkers \cup Watched
    /\ apc' = "idle" /\ whole' = TRUE
    /\ UNCHANGED <<monitorVars, wanted, building, retired, abandoned>>

\* EndpointRegistry.sync, and apply returns.
Sync ==
    /\ apc = "stop" /\ retired = {}
    /\ checkers' = Watched
    /\ apc' = "idle" /\ whole' = TRUE
    /\ UNCHANGED <<monitorVars, wanted, building, retired, abandoned>>

\* sync has stopped the checkers of the endpoints that went when one cannot be
\* started, and started some others.
SyncRaises ==
    /\ apc = "stop" /\ retired = {} /\ Watched \ checkers # {}
    /\ Raises
    /\ \E more \in SUBSET (Watched \ checkers) :
          /\ more # Watched \ checkers
          /\ checkers' = (checkers \cap Watched) \cup more
    /\ UNCHANGED <<monitorVars, wanted, building, retired, abandoned>>

\* The steps of an apply that has begun.
ApplyStep ==
    \/ \E k \in Keys : Build(k)
    \/ BuildRaises \/ Swap
    \/ \E m \in Monitors : Stop(m)
    \/ Sync \/ SyncRaises

-----------------------------------------------------------------------------
(* Properties.                                                             *)

\* The monitors out of the fleet that an apply has yet to swap in, or to stop.
InApply == IF apc = "build" THEN Started ELSE retired

\* fleet.py:72 "Watch exactly these buckets": at every point of an apply, whoever
\* reads the monitors meanwhile, no monitor of the fleet was stopped, and a probe
\* that runs belongs to the fleet or to the apply in progress; only an apply that
\* raised leaves probes behind.
OneWatcher ==
    /\ InFleet \cap stopped = {}
    /\ probing \subseteq InFleet \cup InApply \cup abandoned

\* endpoints.py:491 "Check exactly these endpoints": once an apply has returned,
\* the fleet is what was asked for and the endpoints checked are those of its
\* buckets, even after one that raised half way before it.
AppliedWhole ==
    apc = "idle" /\ whole =>
        /\ \A k \in Keys : ~Changed(k, wanted) /\ (wanted[k] = None => fleet[k] = 0)
        /\ checkers = Watched

\* The monitors as those that walk the fleet see them.
Walked ==
    [k \in {key \in Keys : fleet[key] # 0} |->
        [number |-> fleet[k], entry |-> endpoint[<<k, fleet[k]>>]]]

Walks == INSTANCE WatchedFleet
            WITH Entries <- Endpoints, asked <- wanted, walked <- Walked

\* fleet.py:5 "a reload that adds or removes buckets never changes a list under
\* someone's feet": for its readers an apply of many steps is one, or none when it
\* raises, as Discovery takes it.
FleetImplemented == Walks!Spec

=============================================================================
