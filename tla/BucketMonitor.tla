--------------------------- MODULE BucketMonitor ---------------------------
(***************************************************************************)
(* monitor.py, BucketMonitor: one bucket, driven by several threads.       *)
(*                                                                         *)
(*   - readers (the credentials refresher, the discoverer) call            *)
(*     refresh_credentials: they read the Secret without the monitor's     *)
(*     lock, then act on what they read under it;                          *)
(*   - a worker of the pool collects: it takes what it needs under the     *)
(*     lock, fetches and publishes outside it, and records the outcome     *)
(*     under it;                                                           *)
(*   - the probe of each view runs on its own thread;                      *)
(*   - a reload stops the monitor.                                         *)
(*                                                                         *)
(* A critical section is one action.  The selector is selection.py's       *)
(* SourceSelector; which source a detection settles on is left out, what   *)
(* matters here is the credentials its client was built from.              *)
(***************************************************************************)
EXTENDS Integers, FiniteSets

CONSTANTS
    Readers,      \* the threads that refresh the credentials
    Buckets,      \* the bucket names a Secret may hold
    None,         \* Python's None
    MaxVersion,   \* bound: how many contents the Secret has in turn
    MaxViews,     \* bound: how many times the bucket is started
    MaxFaults,    \* bound: clients or detections that fail
    MaxGaps,      \* bound: how often MIN_REFRESH_GAP_SECONDS pass
    MaxFailures,  \* max_failures
    Collects,     \* whether the bucket is collected, or only probed
    Probed,       \* whether connectivity_interval is set
    ThreadsMayFail, \* whether the interpreter may refuse a thread
    StorageMayFail \* whether a call with an accepted key may fail

Versions == 1 .. MaxVersion
Views == 1 .. MaxViews
NoView == 0

\* ResolvedCredentials: a bucket, and the key of one content of the Secret.
Creds == [bucket : Buckets, version : Versions]

ASSUME MonitorAssumption ==
    /\ None \notin Buckets \cup Creds
    /\ MaxVersion \in Nat \ {0} /\ MaxViews \in Nat \ {0}
    /\ MaxFaults \in Nat /\ MaxGaps \in Nat /\ MaxFailures \in Nat \ {0}
    /\ Collects \in BOOLEAN /\ Probed \in BOOLEAN
    /\ ThreadsMayFail \in BOOLEAN /\ StorageMayFail \in BOOLEAN

VARIABLES
    \* Outside the exporter.
    secret,       \* what resolving the credentials reads
    readable,     \* whether it can be read
    accepted,     \* the keys S3 accepts
    gaps,         \* gaps that passed so far
    faults,       \* clients and detections that failed so far
    \* refresh_credentials, per reader.
    rpc, got,
    \* The monitor's fields, changed under its lock.
    credentials, error, view, due, source, failures, effective, probeStop, stopped,
    \* Read and written without it.
    needsRefresh,
    recent,       \* less than MIN_REFRESH_GAP_SECONDS since _last_refresh
    \* The views published so far, and their probes.
    views,        \* how many
    labelled,     \* the bucket each is labelled with
    figures,      \* the bucket its figures were measured on, None before any
    healthy,      \* whether its last collection succeeded
    interval,     \* its interval_seconds: "base", or "long" after slow ones
    probing,      \* those whose probe runs, and was not told to stop
    probeClient,  \* the credentials the probe's client was built from
    reach,        \* the probe's last result: "unknown", "up" or "down"
    \* The collection.
    cpc, cview, csource, cok

secretVars == <<secret, readable, accepted, gaps>>
readerVars == <<rpc, got>>
stateVars == <<credentials, error, view, due, source, failures, effective,
               probeStop, stopped>>
viewVars == <<views, labelled, figures, healthy, interval>>
probeVars == <<probing, probeClient, reach>>
collectVars == <<cpc, cview, csource, cok>>
vars == <<secret, readable, accepted, gaps, faults, rpc, got, credentials, error,
          view, due, source, failures, effective, probeStop, stopped,
          needsRefresh, recent, views, labelled, figures, healthy, interval,
          probing, probeClient, reach, cpc, cview, csource, cok>>

OutsideTypes ==
    /\ secret \in Creds /\ readable \in BOOLEAN /\ accepted \in SUBSET Versions
    /\ gaps \in 0 .. MaxGaps /\ faults \in 0 .. MaxFaults

ReaderTypes ==
    /\ rpc \in [Readers -> {"idle", "resolve", "apply"}]
    /\ got \in [Readers -> Creds \cup {None}]
    /\ needsRefresh \in BOOLEAN /\ recent \in BOOLEAN

StateTypes ==
    /\ credentials \in Creds \cup {None} /\ error \in BOOLEAN
    /\ view \in Views \cup {NoView} /\ due \in BOOLEAN
    /\ source \in Creds \cup {None}
    /\ failures \in 0 .. MaxFailures - 1
    /\ effective \in {"base", "long"}
    /\ probeStop \in Views \cup {NoView} /\ stopped \in BOOLEAN

ViewTypes ==
    /\ views \in Views \cup {NoView}
    /\ labelled \in [Views -> Buckets \cup {None}]
    /\ figures \in [Views -> Buckets \cup {None}]
    /\ healthy \in [Views -> BOOLEAN]
    /\ interval \in [Views -> {"base", "long"}]

ProbeTypes ==
    /\ probing \in SUBSET Views
    /\ probeClient \in [Views -> Creds \cup {None}]
    /\ reach \in [Views -> {"unknown", "up", "down"}]

CollectTypes ==
    /\ cpc \in {"idle", "submitted", "fetch", "publish", "record"}
    /\ cview \in Views \cup {NoView} /\ csource \in Creds \cup {None}
    /\ cok \in BOOLEAN

TypeOK ==
    /\ OutsideTypes /\ ReaderTypes /\ StateTypes
    /\ ViewTypes /\ ProbeTypes /\ CollectTypes

-----------------------------------------------------------------------------

Init ==
    /\ secret \in {c \in Creds : c.version = 1}
    /\ readable \in BOOLEAN
    /\ accepted = {1}
    /\ gaps = 0 /\ faults = 0
    /\ rpc = [r \in Readers |-> "idle"]
    /\ got = [r \in Readers |-> None]
    /\ credentials = None /\ error = FALSE /\ view = NoView /\ due = FALSE
    /\ source = None /\ failures = 0 /\ effective = "base"
    /\ probeStop = NoView /\ stopped = FALSE
    /\ needsRefresh = FALSE /\ recent = FALSE
    /\ views = 0
    /\ labelled = [v \in Views |-> None]
    /\ figures = [v \in Views |-> None]
    /\ healthy = [v \in Views |-> FALSE]
    /\ interval = [v \in Views |-> "base"]
    /\ probing = {}
    /\ probeClient = [v \in Views |-> None]
    /\ reach = [v \in Views |-> "unknown"]
    /\ cpc = "idle" /\ cview = NoView /\ csource = None /\ cok = FALSE

-----------------------------------------------------------------------------
(* Outside the exporter.                                                   *)

\* The Secret gets a new key, and perhaps another bucket.
Rotate ==
    /\ secret.version < MaxVersion
    /\ \E b \in Buckets : secret' = [bucket |-> b, version |-> secret.version + 1]
    /\ accepted' = accepted \cup {secret'.version}
    /\ UNCHANGED <<readable, gaps, faults, readerVars, stateVars, needsRefresh,
                   recent, viewVars, probeVars, collectVars>>

\* The administrator revokes an older key.
Revoke ==
    /\ \E k \in accepted \ {secret.version} : accepted' = accepted \ {k}
    /\ UNCHANGED <<secret, readable, gaps, faults, readerVars, stateVars,
                   needsRefresh, recent, viewVars, probeVars, collectVars>>

\* The Kubernetes API stops answering, or answers again.
Blip ==
    /\ readable' = ~readable
    /\ UNCHANGED <<secret, accepted, gaps, faults, readerVars, stateVars,
                   needsRefresh, recent, viewVars, probeVars, collectVars>>

MinRefreshGapPasses ==
    /\ recent /\ recent' = FALSE
    /\ gaps < MaxGaps /\ gaps' = gaps + 1
    /\ UNCHANGED <<secret, readable, accepted, faults, readerVars, stateVars, needsRefresh,
                   viewVars, probeVars, collectVars>>

-----------------------------------------------------------------------------
(* _on_s3_error: called by the collection and the probe on a failed call   *)
(* made with the key of c; a rejected key asks for a refresh, once a gap.  *)

OnS3Error(c) ==
    needsRefresh' = (needsRefresh \/ (c.version \notin accepted /\ ~recent))

\* A call made with the credentials c succeeds only if S3 accepts them; it may
\* fail although it does.
CallOutcomes(c) ==
    {ok \in BOOLEAN : IF c.version \in accepted THEN ok \/ StorageMayFail ELSE ~ok}

-----------------------------------------------------------------------------
(* Detection.  It builds a client for the source and one for the probe,    *)
(* from the credentials in force.                                          *)

\* _detect, from the second time on: the source takes a client of c; the probe
\* takes its own, or keeps the one it has when that one cannot be built.
Detected(c) ==
    /\ source' = c
    /\ \/ /\ probeClient' = IF Probed THEN [probeClient EXCEPT ![view] = c]
                                    ELSE probeClient
          /\ UNCHANGED faults
       \/ /\ Probed /\ faults < MaxFaults
          /\ faults' = faults + 1
          /\ UNCHANGED probeClient

\* It raises: the selector keeps the source it has, and the probe its client.
DetectionRaises ==
    /\ faults < MaxFaults
    /\ faults' = faults + 1
    /\ UNCHANGED <<source, probeClient>>

\* SourceSelector._redetect.
Redetect(c) == Detected(c) \/ DetectionRaises

-----------------------------------------------------------------------------
(* refresh_credentials.                                                    *)

RefreshBegins(r) ==
    /\ rpc[r] = "idle" /\ ~stopped
    /\ rpc' = [rpc EXCEPT ![r] = "resolve"]
    /\ recent' = TRUE
    /\ UNCHANGED <<secretVars, faults, got, stateVars, needsRefresh, viewVars,
                   probeVars, collectVars>>

\* credentials.resolve(), without the lock.
Resolve(r) ==
    /\ rpc[r] = "resolve"
    /\ rpc' = [rpc EXCEPT ![r] = "apply"]
    /\ got' = [got EXCEPT ![r] = IF readable THEN secret ELSE None]
    /\ UNCHANGED <<secretVars, faults, stateVars, needsRefresh, recent,
                   viewVars, probeVars, collectVars>>

Returned(r) ==
    /\ rpc[r] = "apply"
    /\ rpc' = [rpc EXCEPT ![r] = "idle"]
    /\ got' = [got EXCEPT ![r] = None]
    /\ UNCHANGED <<secretVars, recent, collectVars, stopped, effective>>

\* The bucket that is watched, through the credentials in hand.
Watches(b) == credentials # None /\ credentials.bucket = b

\* _unreadable: the credentials in hand are kept.
Unreadable(r) ==
    /\ Returned(r) /\ got[r] = None
    /\ error' = TRUE
    /\ needsRefresh' = FALSE
    /\ UNCHANGED <<faults, credentials, view, due, source, failures, probeStop,
                   viewVars, probeVars>>

\* Removed by a reload while the Secret was being read.
TooLate(r) ==
    /\ Returned(r) /\ got[r] # None /\ stopped
    /\ UNCHANGED <<faults, credentials, error, view, due, source, failures,
                   probeStop, needsRefresh, viewVars, probeVars>>

\* Neither the bucket nor the key changed.
Unchanged(r) ==
    /\ Returned(r) /\ got[r] # None /\ ~stopped
    /\ got[r] = credentials
    /\ error' = FALSE
    /\ needsRefresh' = FALSE
    /\ UNCHANGED <<faults, credentials, view, due, source, failures, probeStop,
                   viewVars, probeVars>>

\* Mutant: the credentials are replaced, and the clients are not rebuilt.
RotateOnly(r) ==
    /\ Returned(r) /\ got[r] # None /\ ~stopped
    /\ Watches(got[r].bucket) /\ got[r] # credentials
    /\ credentials' = got[r]
    /\ error' = FALSE
    /\ needsRefresh' = FALSE
    /\ UNCHANGED <<faults, source, failures, view, due, probeStop, viewVars,
                   probeVars>>

\* _rotate: another key of the same bucket.
RotateKey(r) ==
    /\ Returned(r) /\ got[r] # None /\ ~stopped
    /\ Watches(got[r].bucket) /\ got[r] # credentials
    /\ credentials' = got[r]
    /\ error' = FALSE
    /\ needsRefresh' = FALSE
    /\ failures' = 0
    /\ Redetect(got[r])
    /\ UNCHANGED <<view, due, probeStop, viewVars, probing, reach>>

\* Mutant: what a reload did while the Secret was being read is not looked at.
StartsThoughStopped(r) ==
    /\ Returned(r) /\ got[r] # None
    /\ ~Watches(got[r].bucket)
    /\ needsRefresh' = FALSE

\* No credentials yet, or those of another bucket: whatever ran is stopped.
StartsOver(r) ==
    /\ Returned(r) /\ got[r] # None /\ ~stopped
    /\ ~Watches(got[r].bucket)
    /\ needsRefresh' = FALSE

\* Mutant: a repoint leaves the probe of the old bucket running.
LeakProbe == probing

\* _stop_probe sets an event.  The thread ends at it, or after the check it is in, which
\* is left out: that one publishes to a view that is not collected any more, and may set
\* needs_refresh, which no step here waits for.  Scrapes read it: see BucketMetrics.
StillProbing == IF credentials = None THEN probing ELSE probing \ {probeStop}

\* Mutant: a failed start takes the credentials back, and keeps the view.
StartHalfFails(r) ==
    /\ StartsOver(r)
    /\ faults < MaxFaults /\ faults' = faults + 1
    /\ credentials' = None /\ error' = TRUE
    /\ probing' = StillProbing
    /\ probeStop' = IF credentials = None THEN probeStop ELSE NoView
    /\ UNCHANGED <<view, due, source, failures, viewVars, probeClient, reach>>

\* _start, when the client or the first detection fails: unconfigured as a whole.
StartFails(r) ==
    /\ StartsOver(r)
    /\ faults < MaxFaults /\ faults' = faults + 1
    /\ credentials' = None /\ error' = TRUE /\ view' = NoView
    /\ probing' = StillProbing
    /\ probeStop' = IF credentials = None THEN probeStop ELSE NoView
    /\ UNCHANGED <<due, source, failures, viewVars, probeClient, reach>>

\* Mutant: the selector of the bucket watched before is kept.
PublishOnOldSource(c) ==
    LET v == views + 1
    IN  /\ views < MaxViews
        /\ views' = v /\ view' = v
        /\ credentials' = c /\ error' = FALSE
        /\ source' = (IF source = None THEN c ELSE source) /\ failures' = 0
        /\ labelled' = [labelled EXCEPT ![v] = c.bucket]
        /\ interval' = [interval EXCEPT ![v] = effective]
        /\ probeClient' = IF Probed THEN [probeClient EXCEPT ![v] = c] ELSE probeClient
        /\ UNCHANGED <<figures, healthy, reach, faults>>

\* _start up to the view: a selector on c, and a view that shows no figures.
Publish(c) ==
    LET v == views + 1
    IN  /\ views < MaxViews
        /\ views' = v /\ view' = v
        /\ credentials' = c /\ error' = FALSE
        /\ source' = c /\ failures' = 0
        /\ labelled' = [labelled EXCEPT ![v] = c.bucket]
        /\ interval' = [interval EXCEPT ![v] = effective]
        /\ probeClient' = IF Probed THEN [probeClient EXCEPT ![v] = c] ELSE probeClient
        /\ UNCHANGED <<figures, healthy, reach, faults>>

\* _start as a whole: the probe runs and a collection is due.
Start(r) ==
    /\ StartsOver(r)
    /\ Publish(got[r])
    /\ due' = TRUE
    /\ probing' = StillProbing \cup (IF Probed THEN {view'} ELSE {})
    /\ probeStop' = IF Probed THEN view' ELSE NoView

\* The probe's thread cannot be started: the exception leaves what was
\* published, no probe runs, and no due time is set.
StartRaises(r) ==
    /\ ThreadsMayFail /\ Probed
    /\ StartsOver(r)
    /\ Publish(got[r])
    /\ probing' = StillProbing
    /\ probeStop' = view'
    /\ UNCHANGED due

Apply(r) ==
    \/ Unreadable(r) \/ TooLate(r) \/ Unchanged(r) \/ RotateKey(r)
    \/ StartFails(r) \/ Start(r) \/ StartRaises(r)

-----------------------------------------------------------------------------
(* The collection.                                                         *)

\* The scheduler finds the monitor collectable, and nothing runs on it.
Submit ==
    /\ cpc = "idle"
    /\ ~stopped /\ view # NoView /\ Collects /\ due
    /\ cpc' = "submitted"
    /\ UNCHANGED <<secretVars, faults, readerVars, stateVars, needsRefresh,
                   recent, viewVars, probeVars, cview, csource, cok>>

\* collect() takes the view and the source under the lock, if there is a view.
CollectBegins ==
    /\ cpc = "submitted"
    /\ IF view = NoView
       THEN cpc' = "idle" /\ UNCHANGED <<cview, csource>>
       ELSE cpc' = "fetch" /\ cview' = view /\ csource' = source
    /\ UNCHANGED <<secretVars, faults, readerVars, stateVars, needsRefresh,
                   recent, viewVars, probeVars, cok>>

\* Mutant: the source is read again once the lock is released.
FetchFromCurrent ==
    /\ cpc = "fetch"
    /\ cpc' = "publish"
    /\ csource' = source
    /\ cok' \in CallOutcomes(source)
    /\ IF cok' THEN UNCHANGED needsRefresh ELSE OnS3Error(source)
    /\ UNCHANGED <<secretVars, faults, readerVars, stateVars, recent, viewVars,
                   probeVars, cview>>

\* collect_once: the fetch, and on_error when it fails.
Fetch ==
    /\ cpc = "fetch"
    /\ cpc' = "publish"
    /\ cok' \in CallOutcomes(csource)
    /\ IF cok' THEN UNCHANGED needsRefresh ELSE OnS3Error(csource)
    /\ UNCHANGED <<secretVars, faults, readerVars, stateVars, recent, viewVars,
                   probeVars, cview, csource>>

\* collect_once: the snapshot; a failure keeps the figures.
PublishFigures ==
    /\ cpc = "publish"
    /\ cpc' = "record"
    /\ healthy' = [healthy EXCEPT ![cview] = cok]
    /\ figures' = [figures EXCEPT ![cview] = IF cok THEN csource.bucket ELSE @]
    /\ UNCHANGED <<secretVars, faults, readerVars, stateVars, needsRefresh,
                   recent, views, labelled, interval, probeVars, cview,
                   csource, cok>>

CollectReturns ==
    /\ cpc = "record"
    /\ cpc' = "idle" /\ cview' = NoView /\ csource' = None /\ cok' = FALSE
    /\ UNCHANGED <<secretVars, readerVars, needsRefresh, recent, views,
                   labelled, figures, healthy, probing, reach,
                   credentials, error, view, due, probeStop, stopped>>

\* The monitor was stopped, or watches another view: nothing is recorded.
Superseded ==
    /\ CollectReturns
    /\ stopped \/ cview # view
    /\ UNCHANGED <<faults, source, failures, effective, interval, probeClient>>

\* A success: the listing fallback may be left, the interval follows the duration.
RecordSuccess ==
    /\ CollectReturns
    /\ ~stopped /\ cview = view /\ cok
    /\ failures' = 0
    /\ effective' \in {"base", "long"}
    /\ interval' = [interval EXCEPT ![view] = effective']
    /\ Redetect(credentials) \/ UNCHANGED <<faults, source, probeClient>>

\* Mutant: the failures are counted on after a detection.
CountOnAfterFailures ==
    /\ CollectReturns
    /\ ~stopped /\ cview = view /\ ~cok
    /\ UNCHANGED <<effective, interval>>
    /\ failures' = failures + 1
    /\ IF failures' < MaxFailures \/ (Probed /\ reach[view] = "down")
       THEN UNCHANGED <<faults, source, probeClient>>
       ELSE Redetect(credentials)

\* A failure: detect again at the max_failures-th in a row, unless the probe
\* says that the bucket cannot be reached.
RecordFailure ==
    /\ CollectReturns
    /\ ~stopped /\ cview = view /\ ~cok
    /\ UNCHANGED <<effective, interval>>
    /\ IF failures + 1 < MaxFailures
       THEN failures' = failures + 1 /\ UNCHANGED <<faults, source, probeClient>>
       ELSE /\ failures' = 0
            /\ IF Probed /\ reach[view] = "down"
               THEN UNCHANGED <<faults, source, probeClient>>
               ELSE Redetect(credentials)

-----------------------------------------------------------------------------
(* The probe's thread, and the reload.                                     *)

ProbeChecks(v) ==
    /\ v \in probing
    /\ \E up \in CallOutcomes(probeClient[v]) :
          /\ reach' = [reach EXCEPT ![v] = IF up THEN "up" ELSE "down"]
          /\ IF up THEN UNCHANGED needsRefresh ELSE OnS3Error(probeClient[v])
    /\ UNCHANGED <<secretVars, faults, readerVars, stateVars, recent, viewVars,
                   probing, probeClient, collectVars>>

Stop ==
    /\ ~stopped
    /\ stopped' = TRUE
    /\ probing' = probing \ {probeStop}
    /\ probeStop' = NoView
    /\ UNCHANGED <<secretVars, faults, readerVars, credentials, error, view,
                   due, source, failures, effective, needsRefresh, recent,
                   viewVars, probeClient, reach, collectVars>>

-----------------------------------------------------------------------------

Reader(r) == RefreshBegins(r) \/ Resolve(r) \/ Apply(r)

Worker ==
    \/ Submit \/ CollectBegins \/ Fetch \/ PublishFigures
    \/ Superseded \/ RecordSuccess \/ RecordFailure

Next ==
    \/ Rotate \/ Revoke \/ Blip \/ MinRefreshGapPasses
    \/ \E r \in Readers : Reader(r)
    \/ Worker
    \/ \E v \in Views : ProbeChecks(v)
    \/ Stop

Spec == Init /\ [][Next]_vars

\* Every thread keeps running: the readers have a period, a collection is
\* always due again, the probe has its interval, time passes.
FairSpec ==
    /\ Spec
    /\ \A r \in Readers : WF_vars(Reader(r))
    /\ WF_vars(Worker)
    /\ \A v \in Views : WF_vars(ProbeChecks(v))
    /\ WF_vars(MinRefreshGapPasses)

-----------------------------------------------------------------------------
(* Properties.                                                             *)

\* A published view stands for a whole start: credentials, a source and a label
\* of one bucket, and a due time; credentials without a view are never kept.
ViewIsWhole ==
    /\ view = NoView <=> credentials = None
    /\ view # NoView =>
        /\ due
        /\ labelled[view] = credentials.bucket
        /\ source.bucket = credentials.bucket

\* One probe runs for a watched bucket, none for a stopped one: whatever the
\* order of repoints, failed starts and stops, no probe is leaked.
OneProbe == probing = IF Probed /\ view # NoView /\ ~stopped THEN {view} ELSE {}

\* The figures a view shows were measured on the bucket it is labelled with,
\* even when a collection outlives a repoint.
FiguresAreOfTheBucket == \A v \in Views : figures[v] \in {None, labelled[v]}

\* Nothing starts again after a stop: no view, no probe, no new collection.
StoppedForGood ==
    [][stopped => stopped' /\ views' = views /\ probing' \subseteq probing
                  /\ (cpc = "idle" => cpc' = "idle")]_vars

\* While the Secret can be read and the bucket is watched, the newest key ends
\* up in the source and the probe, whatever was in flight when it changed.
NewestKeyIsUsed ==
    <>[](readable /\ ~stopped) =>
        <>[](credentials = secret /\ source = secret
             /\ (Probed => probeClient[view] = secret))

\* discovery.py:444 "the bucket takes the new key now": once taken, the older
\* key does not come back.
KeyNeverRollsBack ==
    [][credentials # None /\ credentials' # None
          => credentials'.version >= credentials.version]_vars

\* selection.py:79 "try again at the next occasion": once S3 takes nothing but
\* the newest key, a source left on an older one is detected again.
OldKeyIsLeft ==
    <>[](readable /\ ~stopped /\ accepted = {secret.version})
        => []<>(view # NoView => source = credentials)

=============================================================================
