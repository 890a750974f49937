--------------------------- MODULE BucketMetrics ---------------------------
(***************************************************************************)
(* metrics.py and BucketMonitor.rows: what one scrape of /metrics tells of *)
(* a bucket, while a collection publishes, the probe of the bucket checks  *)
(* and its Secret is repointed at another bucket.                          *)
(*                                                                         *)
(* A view is what stands for one bucket of the Secret (the collector and   *)
(* its probe), and views are numbered.  A counter stands for the set of    *)
(* what it counted: pairs of a check and an attempt.                       *)
(***************************************************************************)
EXTENDS UsageSources, S3Errors, FiniteSets

CONSTANTS
    Cases,           \* answers of storage systems, and what they say
    Failures,        \* ways a probe's request fails, and why
    MaxViews,        \* bound: buckets the Secret names in turn
    MaxCollections,  \* bound: collections
    MaxProbes        \* bound: checks of the probes of any two views together

ASSUME MetricsAssumption ==
    /\ MaxViews \in Nat \ {0} /\ MaxCollections \in Nat /\ MaxProbes \in Nat
    /\ \A f \in Failures : f.truth \in ErrorReasons

VARIABLES
    view,        \* monitor.view, 0 for None
    built,       \* the views built so far
    locked,      \* whether the monitor's lock is held to repoint it
    collecting,  \* the view a collection was started for, 0 when none runs
    snapshots,   \* what each view's collector publishes
    told,        \* history: what the storage told the collections of each view
    probing,     \* where each view's probe is, and what its attempts met
    checks,      \* the checks it began
    errors,      \* _errors_total of each
    results,     \* _result of each
    at,          \* where the scrape is
    scrape       \* what it read, and what was already told when it began

buckets == <<view, built, locked>>
collections == <<collecting, snapshots, told>>
probes == <<probing, checks, errors, results>>
metricsVars == <<buckets, collections, probes, at, scrape>>

Views == 1 .. MaxViews
Attempts == (1 .. MaxProbes) \X {1, 2}

\* A Snapshot: the figures it serves, and whether the last collection succeeded.
Snapshot(usage, healthy) == [usage |-> usage, healthy |-> healthy]

\* A ProbeResult: its check (0 before the first), and the true reasons of the
\* failures of its attempts.
ProbeResult(check, up, truths) == [check |-> check, up |-> up, truths |-> truths]

NoProbe == ProbeResult(0, FALSE, <<>>)
NotCounted == [r \in ErrorReasons |-> {}]
NoScrape ==
    [view |-> 0, before |-> 0, snapshot |-> Snapshot(Unavailable, FALSE),
     result |-> NoProbe, errors |-> NotCounted, configured |-> FALSE]

Figures == {Unavailable} \cup {c.truth : c \in Cases}
Snapshots == [usage : Figures \cup {Usage(0, 0, Missing)}, healthy : BOOLEAN]
Truths == {<<>>} \cup {<<r>> : r \in ErrorReasons} \cup ErrorReasons \X ErrorReasons
Results == [check : 0 .. MaxProbes, up : BOOLEAN, truths : Truths]
Counts == [ErrorReasons -> SUBSET Attempts]

MetricsTypeOK ==
    /\ view \in 0 .. built /\ built \in 0 .. MaxViews /\ locked \in BOOLEAN
    /\ collecting \in 0 .. built
    /\ snapshots \in [Views -> Snapshots]
    /\ \A v \in Views : told[v] \in Seq(Figures) /\ Len(told[v]) <= MaxCollections
    /\ probing \in [Views -> [at : {"idle", "attempt", "publish"}, truths : Truths]]
    /\ checks \in [Views -> 0 .. MaxProbes]
    /\ errors \in [Views -> Counts]
    /\ results \in [Views -> Results]
    /\ at \in {"idle", "snapshot", "result", "errors", "count", "done"}
    /\ scrape.view \in 0 .. built /\ scrape.before \in 0 .. MaxCollections
    /\ scrape.snapshot \in Snapshots /\ scrape.result \in Results
    /\ scrape.errors \in Counts /\ scrape.configured \in BOOLEAN

MetricsInit ==
    /\ view = 0 /\ built = 0 /\ locked = FALSE
    /\ collecting = 0
    /\ snapshots = [v \in Views |-> Snapshot(Unavailable, FALSE)]
    /\ told = [v \in Views |-> <<>>]
    /\ probing = [v \in Views |-> [at |-> "idle", truths |-> <<>>]]
    /\ checks = [v \in Views |-> 0]
    /\ errors = [v \in Views |-> NotCounted]
    /\ results = [v \in Views |-> NoProbe]
    /\ at = "idle" /\ scrape = NoScrape

-----------------------------------------------------------------------------
(* The monitor, under its lock: the view of the old bucket goes first, then *)
(* the new one is built, or cannot be.                                      *)

Unset ==
    /\ ~locked /\ locked' = TRUE
    /\ view' = 0
    /\ UNCHANGED <<built, collections, probes, at, scrape>>

Build ==
    /\ locked /\ locked' = FALSE
    /\ \/ built < MaxViews /\ built' = built + 1 /\ view' = built'
       \/ UNCHANGED <<built, view>>
    /\ UNCHANGED <<collections, probes, at, scrape>>

-----------------------------------------------------------------------------
(* collect_once, on a worker: it publishes on the view it was started for.  *)

Done(v) == Len(told[v])

CollectBegins ==
    /\ collecting = 0 /\ ~locked /\ view # 0
    /\ \A v \in Views : Done(v) < MaxCollections
    /\ collecting' = view
    /\ UNCHANGED <<buckets, snapshots, told, probes, at, scrape>>

\* Mutant: a collection that fails drops the figures.
PublishedZero(usage, previous) ==
    IF usage = Unavailable THEN Snapshot(Unavailable, FALSE) ELSE Snapshot(usage, TRUE)

\* A failure keeps the figures of the collection before.
Published(usage, previous) ==
    IF usage = Unavailable THEN Snapshot(previous.usage, FALSE) ELSE Snapshot(usage, TRUE)

CollectEnds ==
    /\ collecting # 0 /\ collecting' = 0
    /\ \E c \in Cases :
          LET usage == Fetch(c.source, c.answer, c.bucket, c.today)
          IN  /\ snapshots' = [snapshots EXCEPT ![collecting] = Published(usage, @)]
              /\ told' = [told EXCEPT ![collecting] = Append(@, c.truth)]
    /\ UNCHANGED <<buckets, probes, at, scrape>>

-----------------------------------------------------------------------------
(* check_once of a view's probe.  One that was replaced ends its check.     *)

ProbeBegins(v) ==
    /\ v = view /\ probing[v].at = "idle"
    /\ checks[v] < MaxProbes /\ \A w \in Views \ {v} : checks[v] + checks[w] < MaxProbes
    /\ checks' = [checks EXCEPT ![v] = @ + 1]
    /\ probing' = [probing EXCEPT ![v] = [at |-> "attempt", truths |-> <<>>]]
    /\ UNCHANGED <<buckets, collections, errors, results, at, scrape>>

AttemptPasses(v) ==
    /\ probing[v].at = "attempt"
    /\ probing' = [probing EXCEPT ![v].at = "publish"]
    /\ UNCHANGED <<buckets, collections, checks, errors, results, at, scrape>>

\* Mutant: only a failure that is not retried is counted.
LastAttemptFails(v) ==
    /\ probing[v].at = "attempt"
    /\ \E f \in Failures :
          LET truths == Append(probing[v].truths, f.truth)
              tried == Len(truths)
          IN  /\ errors' = IF tried < 2 THEN errors ELSE [errors EXCEPT
                    ![v][Classify(f.graph, f.raised)] = @ \cup {<<checks[v], tried>>}]
              /\ probing' = [probing EXCEPT ![v] =
                    [at |-> IF tried < 2 THEN "attempt" ELSE "publish",
                     truths |-> truths]]
    /\ UNCHANGED <<buckets, collections, checks, results, at, scrape>>

\* Counted by reason, then tried again at once, twice in all.
AttemptFails(v) ==
    /\ probing[v].at = "attempt"
    /\ \E f \in Failures :
          LET truths == Append(probing[v].truths, f.truth)
              tried == Len(truths)
          IN  /\ errors' = [errors EXCEPT
                    ![v][Classify(f.graph, f.raised)] = @ \cup {<<checks[v], tried>>}]
              /\ probing' = [probing EXCEPT ![v] =
                    [at |-> IF tried < 2 THEN "attempt" ELSE "publish",
                     truths |-> truths]]
    /\ UNCHANGED <<buckets, collections, checks, results, at, scrape>>

PublishProbe(v) ==
    /\ probing[v].at = "publish"
    /\ results' = [results EXCEPT
          ![v] = ProbeResult(checks[v], Len(probing[v].truths) < 2, probing[v].truths)]
    /\ probing' = [probing EXCEPT ![v] = [at |-> "idle", truths |-> <<>>]]
    /\ UNCHANGED <<buckets, collections, checks, errors, at, scrape>>

Probe(v) == ProbeBegins(v) \/ AttemptPasses(v) \/ AttemptFails(v) \/ PublishProbe(v)

-----------------------------------------------------------------------------
(* The scrape: ExporterCollector.collect asks for the rows of the bucket.   *)

writers == <<buckets, collections, probes>>

\* The view is read under the monitor's lock, what it shows is not.
ReadView ==
    /\ at = "idle" /\ ~locked
    /\ at' = IF view = 0 THEN "count" ELSE "snapshot"
    /\ scrape' = [NoScrape EXCEPT
          !.view = view, !.before = IF view = 0 THEN 0 ELSE Done(view)]
    /\ UNCHANGED writers

\* The figures served: zeros as long as no collection succeeded.
Served(snapshot) ==
    Snapshot(IF snapshot.usage = Unavailable THEN Usage(0, 0, Missing) ELSE snapshot.usage,
             snapshot.healthy)

ReadSnapshot ==
    /\ at = "snapshot" /\ at' = "result"
    /\ scrape' = [scrape EXCEPT !.snapshot = Served(snapshots[scrape.view])]
    /\ UNCHANGED writers

ReadResult ==
    /\ at = "result" /\ at' = "errors"
    /\ scrape' = [scrape EXCEPT !.result = results[scrape.view]]
    /\ UNCHANGED writers

ReadErrors ==
    /\ at = "errors" /\ at' = "count"
    /\ scrape' = [scrape EXCEPT !.errors = errors[scrape.view]]
    /\ UNCHANGED writers

\* monitor.configured, read once more and without the lock.
Count ==
    /\ at = "count" /\ at' = "done"
    /\ scrape' = [scrape EXCEPT !.configured = (view # 0)]
    /\ UNCHANGED writers

ScrapeAgain ==
    /\ at = "done" /\ at' = "idle"
    /\ scrape' = NoScrape
    /\ UNCHANGED writers

-----------------------------------------------------------------------------

Repoint == Unset \/ Build

Collect == CollectBegins \/ CollectEnds

Probes == \E v \in Views : Probe(v)

Scrape == ReadView \/ ReadSnapshot \/ ReadResult \/ ReadErrors \/ Count \/ ScrapeAgain

MetricsNext == Repoint \/ Collect \/ Probes \/ Scrape

MetricsSpec == MetricsInit /\ [][MetricsNext]_metricsVars

-----------------------------------------------------------------------------
(* Properties.                                                             *)

\* What a bucket's scrape ought to show after these collections.
Succeeded(outcomes) == {i \in DOMAIN outcomes : outcomes[i] # Unavailable}
NewestOf(indices) == CHOOSE i \in indices : \A j \in indices : j <= i
After(outcomes) ==
    Snapshot(IF Succeeded(outcomes) = {} THEN Usage(0, 0, Missing)
             ELSE outcomes[NewestOf(Succeeded(outcomes))],
             outcomes # <<>> /\ Last(outcomes) # Unavailable)

\* metrics.py:100 "One consistent view of the bucket": size, count and status of a
\* scrape are those of its bucket after one collection, the last one told when the
\* scrape began or a later one, and are what the storage system said; a failed
\* collection (monitor.py:74) leaves the figures and shows in the status.
FiguresAreTold ==
    at = "done" /\ scrape.view # 0 =>
        \E n \in scrape.before .. Done(scrape.view) :
            scrape.snapshot = After(SubSeq(told[scrape.view], 1, n))

\* probe.py:98 "Every failed attempt, retried or not, by where it failed": a scrape
\* that shows the bucket unreachable shows each attempt of that check counted, under
\* its true reason, however many errors wrap it and wherever the scrape fell.
OutageIsCounted ==
    at = "done" /\ scrape.view # 0 /\ scrape.result.check # 0 /\ ~scrape.result.up =>
        \A n \in {1, 2} :
            <<scrape.result.check, n>> \in scrape.errors[scrape.result.truths[n]]

=============================================================================
