-------------------------- MODULE SourceSelection --------------------------
(***************************************************************************)
(* selection.py, SourceSelector, with the detection it runs                *)
(* (sources.resolve, BucketMonitor._detect) and the collections it counts, *)
(* for a bucket that has a probe.  It reads the probe's result, and a      *)
(* detection replaces the probe's client.  The threads that collect and    *)
(* that rotate the key do so under the monitor's lock: dpc # "idle" stands *)
(* for it.                                                                 *)
(***************************************************************************)
EXTENDS ConnectivityProbe, Sequences

CONSTANTS
    Candidates,    \* the constant-cost sources, in the order of SOURCES
    Wishes,        \* the values `source` may have in the configuration
    MaxFailures,   \* max_failures
    Redetects,     \* whether redetect_interval is above zero
    GrantsDiffer,  \* whether a new key may be granted other calls
    MaxRotations,  \* bound: keys after the first
    MaxFaults      \* bound: clients that cannot be built

Listing == "list"
AUTO == "auto"
Cheap == {Candidates[i] : i \in DOMAIN Candidates}

ASSUME SelectionAssumption ==
    /\ Candidates \in Seq(STRING) /\ {Listing, AUTO} \cap Cheap = {}
    /\ Wishes \subseteq STRING
    /\ MaxFailures \in Nat \ {0}
    /\ {Redetects, GrantsDiffer} \subseteq BOOLEAN
    /\ MaxRotations \in Nat /\ MaxFaults \in Nat

VARIABLES
    available,   \* outside: the candidates whose probe passes and that answer
    key,         \* the calls granted to the credentials in force
    rotations, faults,
    requested,   \* _requested
    source,      \* source.name
    failures,    \* _failures
    elapsed,     \* redetect_seconds have passed since _detected_at
    cpc, ok,     \* the collection, and whether it succeeded
    dpc, index, found  \* the detection, the candidate it is at, what it found

outsideVars == <<available, rotations, faults>>
detectVars == <<dpc, index, found>>
selectVars == <<requested, source, failures, elapsed>>
vars == <<reachable, probeVars, outsideVars, key, selectVars, cpc, ok, detectVars>>

\* resolve: the sources whose probe is asked; the listing when none answers.
Asked(wish) ==
    IF wish \in Cheap THEN <<wish>>
    ELSE IF wish = Listing THEN <<>>
    ELSE Candidates

TypeOK ==
    /\ ProbeTypes
    /\ available \subseteq Cheap /\ key \in Grants
    /\ rotations \in 0 .. MaxRotations /\ faults \in 0 .. MaxFaults
    /\ requested \in Wishes /\ source \in Cheap \cup {Listing}
    /\ failures \in 0 .. MaxFailures - 1 /\ elapsed \in BOOLEAN
    /\ cpc \in {"idle", "fetched"} /\ ok \in BOOLEAN
    /\ dpc \in {"idle", "build", "ask", "found", "reset"}
    /\ index \in 1 .. Len(Candidates) + 1 /\ found \in Cheap \cup {Listing}

\* A detection has run (BucketMonitor._start).
Init ==
    /\ ProbeInit
    /\ available \in SUBSET Cheap
    /\ key \in Grants /\ client = key
    /\ rotations = 0 /\ faults = 0
    /\ requested \in Wishes
    /\ LET asked == Asked(requested)
           answers == {i \in DOMAIN asked : asked[i] \in available}
       IN  IF answers = {} THEN source = Listing
           ELSE \E i \in answers :
                   source = asked[i] /\ \A j \in answers : i <= j
    /\ failures = 0 /\ elapsed = FALSE
    /\ cpc = "idle" /\ ok = FALSE
    /\ dpc = "idle" /\ index = 1 /\ found = Listing

OnFallback == source = Listing /\ requested # Listing

BucketUnreachable == reach = "down"

-----------------------------------------------------------------------------
(* Outside the selector.                                                   *)

\* A provider's extension appears or goes, with its endpoint or its rights.
ExtensionBlips ==
    /\ \E s \in Cheap : available' = IF s \in available THEN available \ {s}
                                                       ELSE available \cup {s}
    /\ UNCHANGED <<reachable, probeVars, rotations, faults, key, selectVars,
                   cpc, ok, detectVars>>

Blip ==
    /\ BucketBlips
    /\ UNCHANGED <<outsideVars, key, selectVars, cpc, ok, detectVars>>

Probe ==
    /\ ProbeStep
    /\ UNCHANGED <<outsideVars, key, selectVars, cpc, ok, detectVars>>

\* redetect_interval is longer than a check and a detection together.
PeriodPasses ==
    /\ ~elapsed /\ ppc = "idle" /\ dpc = "idle"
    /\ elapsed' = TRUE
    /\ UNCHANGED <<reachable, probeVars, outsideVars, key, requested, source,
                   failures, cpc, ok, detectVars>>

-----------------------------------------------------------------------------
(* _redetect: under the monitor's lock, one step per request.              *)

DetectionBegins ==
    /\ dpc = "idle"
    /\ dpc' = "build"
    /\ elapsed' = FALSE
    /\ UNCHANGED <<index, found>>

NoDetection == UNCHANGED <<elapsed, detectVars>>

\* BucketMonitor._detect rebuilds the client first; when that raises the
\* source is kept.
Build ==
    /\ dpc = "build"
    /\ \/ dpc' = "ask" /\ index' = 1 /\ UNCHANGED faults
       \/ /\ faults < MaxFaults /\ faults' = faults + 1
          /\ dpc' = "idle" /\ UNCHANGED index
    /\ UNCHANGED <<reachable, probeVars, available, rotations, key, selectVars,
                   cpc, ok, found>>

Ask ==
    /\ dpc = "ask"
    /\ LET asked == Asked(requested)
       IN  IF index > Len(asked) THEN dpc' = "found" /\ found' = Listing /\ UNCHANGED index
           ELSE IF asked[index] \in available
           THEN dpc' = "found" /\ found' = asked[index] /\ UNCHANGED index
           ELSE index' = index + 1 /\ UNCHANGED <<dpc, found>>
    /\ UNCHANGED <<reachable, probeVars, outsideVars, key, selectVars, cpc, ok>>

\* The detection returns: the selector takes what it found.
Adopt ==
    /\ source' = found
    /\ dpc' = "idle" /\ index' = 1 /\ found' = Listing
    /\ UNCHANGED <<requested, failures, elapsed>>

\* The probe gets a client of its own, or keeps the one it has.
Found ==
    /\ dpc = "found"
    /\ \/ /\ SetClient(key)
          /\ dpc' = "reset"
          /\ UNCHANGED <<faults, selectVars, index, found>>
       \/ /\ faults < MaxFaults /\ faults' = faults + 1
          /\ Adopt
          /\ UNCHANGED <<reachable, probeVars>>
    /\ UNCHANGED <<available, rotations, key, cpc, ok>>

Reset ==
    /\ dpc = "reset"
    /\ ResetMethod
    /\ Adopt
    /\ UNCHANGED <<outsideVars, key, cpc, ok>>

Detect == Build \/ Ask \/ Found \/ Reset

\* BucketMonitor._rotate, by the refresher: a new key, redetect().
Rotate ==
    /\ rotations < MaxRotations /\ rotations' = rotations + 1
    /\ key' \in IF GrantsDiffer THEN Grants ELSE {key}
    /\ failures' = 0
    /\ DetectionBegins
    /\ UNCHANGED <<reachable, probeVars, available, faults, requested, source, cpc, ok>>

-----------------------------------------------------------------------------
(* A collection, and record().                                             *)

\* collect() takes the source under the lock; the listing needs its call.
Fetch ==
    /\ cpc = "idle" /\ dpc = "idle"
    /\ cpc' = "fetched"
    /\ ok' = IF source = Listing THEN reachable /\ "ListObjectsV2" \in key
                                 ELSE source \in available
    /\ UNCHANGED <<reachable, probeVars, outsideVars, key, selectVars, detectVars>>

Records ==
    /\ cpc = "fetched" /\ dpc = "idle"
    /\ cpc' = "idle" /\ ok' = FALSE
    /\ UNCHANGED <<reachable, probeVars, outsideVars, key, requested, source>>

\* Mutant: a success is the end of it, on the fallback as elsewhere.
SuccessIsEnough ==
    /\ Records /\ ok
    /\ failures' = 0
    /\ NoDetection

RecordSuccess ==
    /\ Records /\ ok
    /\ failures' = 0
    /\ IF OnFallback /\ Redetects /\ elapsed THEN DetectionBegins ELSE NoDetection

\* Mutant: the run of failures is not counted from zero again.
CountsOn ==
    /\ Records /\ ~ok
    /\ failures' = failures + 1
    /\ IF failures + 1 < MaxFailures \/ BucketUnreachable THEN NoDetection ELSE DetectionBegins

RecordFailure ==
    /\ Records /\ ~ok
    /\ IF failures + 1 < MaxFailures
       THEN failures' = failures + 1 /\ NoDetection
       ELSE /\ failures' = 0
            /\ IF BucketUnreachable THEN NoDetection ELSE DetectionBegins

Collection == Fetch \/ RecordSuccess \/ RecordFailure

-----------------------------------------------------------------------------

Next ==
    \/ ExtensionBlips \/ Blip \/ Probe \/ PeriodPasses
    \/ Detect \/ Rotate \/ Collection

Spec == Init /\ [][Next]_vars

\* The probe, the collections and a detection that has begun go on, and time
\* passes.
FairSpec ==
    /\ Spec
    /\ WF_vars(Probe) /\ WF_vars(Collection) /\ WF_vars(Detect)
    /\ SF_vars(PeriodPasses)

-----------------------------------------------------------------------------
(* Properties.                                                             *)

Steady(answering) == reachable /\ available = answering

\* A bucket that answers for good is reported reachable for good, whatever the
\* outages, the rotations and the detections before.
ReachesAgain ==
    \A answering \in SUBSET Cheap : <>[]Steady(answering) => <>[](reach = "up")

Usable(answering) == answering \cap {Asked(requested)[i] : i \in DOMAIN Asked(requested)}

\* README.md:61 "neither can leave the exporter on the listing for good": once
\* the bucket and the extensions are steady, the source in use is one that was
\* asked for and answers, and the listing only when there is none.
SettlesOnWorking ==
    \A answering \in SUBSET Cheap :
        <>[]Steady(answering) =>
            <>[](IF Usable(answering) = {} THEN source = Listing
                 ELSE source \in Usable(answering))

=============================================================================
