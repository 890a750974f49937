# Verification of the S3 exporter

The exporter (`src/exporter/`) watches a set of S3 buckets: it reads each
bucket's credentials, measures its usage from one of several sources, probes
its connectivity, checks the endpoints, discovers buckets from Kubernetes
Secrets, and applies a changed configuration without restarting. Almost all of
its difficulty is that these are separate threads over shared monitors.

## 1. Inventory

| Part | Source | State it keeps | Operations | What makes it correct |
|---|---|---|---|---|
| Bucket monitor | `monitor.py` | credentials, error, view, probe, selector, source, next due time, `needs_refresh`, `stopped`, under one re-entrant lock | `refresh_credentials`, `collect`, `stop`, `rows`, `readiness` | all or nothing: a view only with credentials, one live probe, figures of the bucket it names; a rotated key reaches the clients; nothing published after a stop |
| Collection scheduler | `scheduler.py:28` | running flags, count, wake event | `step`, `_run`, `wake`, `shutdown` | bounded pool, most overdue first, no lost wake-up, every due bucket collected |
| Credentials refresher | `scheduler.py:123` | request event, deadline | `request`, `run`, `refresh_all` | a rejected key is read again at once, every key periodically |
| Source selector | `selection.py`, `sources/` | source, failures, time of the last detection | `record`, `redetect`, `sources.resolve` | a fallback on the listing is not permanent; a bucket that is down does not cost the source |
| Connectivity probe | `probe.py` | call, result, client | `check_once`, `set_client`, `run_until` | the result is that of the last check and of one call; a rebuilt client decides again |
| Endpoint checks | `endpoints.py` | result of the last check, failures by phase, TLS context, one checker per endpoint | `check_once`, `rows`, `sync`, `stop` | one checker per watched endpoint; each phase's error where it happened, counted before it shows; no connection left open |
| Fleet | `fleet.py` | monitors by key | `apply`, iteration, `stop` | exactly the wanted buckets, only what changed touched, one probe per bucket |
| Discovery | `discovery.py` | listings, values, digests, plan | `refresh`, `desired`, `run_once`, `relist_for`, `set_plan` | explicit entry wins, a failed list drops nothing, a rotated Secret is read again |
| Configuration reload | `config.py`, `__init__.py` | digests applied and rejected, request | `check_once`, `run` | the last good configuration in force, each content applied or rejected once |
| Bucket plan and credentials | `buckets.py`, `credentials.py` | none | `parse_plan`, `fingerprint`, `resolve` | each entry has its own buckets; what keeps its fingerprint reads the same values |
| Kubernetes client | `kube.py` | none | `read_secret`, `list_secrets` page by page | a list is whole or fails; one undecodable Secret hides no other |
| Start and command line | `__init__.py` | none of its own | `parse_configuration`, `main`, `check_config` | what stops a start, what a reload refuses and what `--check-config` reports agree |
| Errors, clients | `errors.py`, `clients.py` | none | `classify`, `describe`, `is_credentials_error`, `probe_timeout_for` | the reason is that of the failure behind the wrappers |
| Handlers, metrics | `handler.py`, `metrics.py` | none | `/readyz`, rows of a scrape | a scrape read field by field is consistent enough to alert on; a readiness answer is true of some moment |

Threads: the main thread, the scheduler's thread and its workers, the
refresher, one probe per bucket, one checker per endpoint, the reloader, the
discoverer, and the HTTP threads that scrape. They share the monitors (one lock
each), the fleet's map (a lock), the discoverer's listings (a lock held during
Kubernetes calls) and the scheduler's events.

The hard behaviour, by kind: interleavings of these threads on state that is
partly locked and partly not; reads made before a lock and used under it; steps
that fail half way (a client, a detection, a thread, a plan); wake-ups and
requests set and cleared by different threads; and what must happen in the end
(a due bucket collected, a rotated key taken, an outage left behind).
`PROJECT.json` lists each hazard at its line, with the property that covers it.

Nothing is persisted: a restart is an `Init`, so no crash recovery is modelled.

## 2. Plan

| Step | Modules | Composes | State |
|---|---|---|---|
| 1 | `CollectionScheduler`, `CollectionPool` (what it promises), `SchedulerTurns` | monitors as the scheduler sees them | done, proved |
| 2 | `BucketMonitor` | selector and probe reduced to their clients | done, proved |
| 3 | `Discovery` | `Discoverer`, listings, `Fleet.apply`, refresher's relist | done, proved |
| 4 | `ConfigReloader`, `ReloadedDocuments` (extends it) | `main`'s start, reloader, applier | done, proved |
| 5 | `ConnectivityProbe`, `SourceSelection` (extends it) | probe, detection, collections' outcomes | done, types and the probe proved |
| 6 | `FleetApply`, `WatchedFleet` (what it promises its readers), `CredentialsRefresher` (extends the first) | `apply` step by step, that fails half way; the endpoints' `sync`; `needs_refresh`, the request, the deadline | done, proved |
| 7 | `EndpointCheck` | a checker, its thread and a scrape | done, proved |
| 8 | `SecretListing` | one selector's list, page by page | done, proved |
| 9 | `UsageSources`, `S3Errors`, `BucketMetrics` (extends both) | a view's collections and probe, and the scrape that reads them field by field | done, proved |
| 10 | `Readiness` | a `/readyz` request over the fleet | done, proved |
| 11 | `BucketPlan`, `Startup` (extends it) | documents, for `ReloadedDocuments` | done, what a reload relies on proved |

Left to prove: that the sources read every answer as it was meant (`AnswersKnown`), a
hypothesis of two theorems.
Configurations are few and each asks several questions of one instance; a new
component shares an instance where it can.

## 3. The modules and the code

A step is one access to state another thread can see. A critical section of a
lock is one action, unless it calls the network while it holds it and another
thread reads what it writes without the lock. Data are what the properties tell
apart: a key is a version, a content of the file is what it makes the exporter
do, a duration is short or long.

### CollectionScheduler, CollectionPool, SchedulerTurns

`now` is `time.monotonic()` in units of the shortest sleep. `spc` is where the
scheduler's thread is in `run`/`step`: `Look` reads the clock, the monitors and
their due times (they change meanwhile: `seen` is what the sort used), the
submissions are one by one, and then the wait, whose end (`WaitReturns`) and the
`clear` are two steps. `wpc` is where a thread of the executor is: it takes a
call, the collection ends or raises, `finally` accounts under the lock, and the
wake follows outside it. A view is published before its due time is set
(`DueSet`), as `_start` does. `announce` is a reader's pass that owes a
`wake()`. `CollectionPool` is the promise: at most so many at once, one
per bucket. `SchedulerTurns` adds the history `ahead` (which buckets had
a turn while another waited).

### BucketMonitor

A reader (refresher or discoverer) goes idle, resolve, apply: the Secret is read
without the lock, the rest is one action under it, with `_start`, `_rotate` and
`_unreadable` as its disjuncts and the failures of the client, of the detection,
of the probe's client and of the threads as choices. Each start makes a new
view, with its label, its interval and its probe. `probing` are the views whose probe
was not told to stop: what the thread of an old one still does, until it sees its
event, is on a view nothing shows any more, and is left out here (`BucketMetrics` and
`Readiness` let it publish late). A collection takes view and source under the lock,
publishes its figures outside, and records its outcome under it. `source` and `probeClient`
are the credentials their clients were built from.

### Discovery

`holder` is the thread that has the Discoverer's lock; under it each list of a
selector is a step (`List`), and `Apply` computes `desired()` and
`Fleet.apply()`, as no other thread changes the fleet meanwhile. A listing is
its selector with the time it was made, so that one deleted and made again is
another object. The refresher tells what to list again without the lock (`FindStale`)
and `RelistFor` takes it, when a reload may have changed the plan. `Reread`,
`RefreshStale` and `RefreshAll` are refreshes without the lock. A Secret's annotations
and a plan's entries count as the setting they give; a change of a Secret's labels or
annotations may leave its values as they are, which its digest does not see.

### ConfigReloader, ReloadedDocuments

A content of `collector.yml` is a record: does it parse, are its entries valid,
does an exporter start with it, has it `buckets:`, which entries, which settings
only a restart applies; the record stands for its digest. `regime` is what the
exporter runs under: with a period or on signals alone, and whether applying a
plan may fail half way. `ReloadedDocuments` gets the contents from documents, by
`ParseConfiguration`, `BucketPlanOf` and `Starts`: a content is worth what the
code makes of it. `Load` and `StartedWithFile` are the two reads of
the start, then `Wakes`, `Clear`, `Read`, `Apply` are the reloader's thread, and
`Sighup` and `Edit` come at any point. `plan` is what the Discoverer was last
given.

### BucketPlan, Startup

The pure part of the configuration. `ParseConfiguration` merges a document's
items and the environment, `ParsePlan` makes of each entry a spec or a rule, at
its place in the file, or refuses the whole (`EntryHonoured`, `Distinct`),
`Fingerprint` is what a reload compares, `Resolve` what reading the credentials
of a spec gives, `DiscoveredSpec` the spec of a Secret found, with its
annotations. `Starts` has the conditions `main` exits on, `CheckConfig` those of
`--check-config`. Texts are names: what the code does to them
(`strip().lower()`, a default for an empty one) is kept, their characters are
not.

### ConnectivityProbe, SourceSelection

`ppc` is where `check_once` is: the test of `_method`, the request, the
write of `_method` and the publication are steps, so that `set_client`, whose
two writes hold no lock, falls between any two of them. A key is the set of
calls it is granted. `SourceSelection` adds `record` and `redetect`, the
detection one request at a time (`Build`, `Ask`, `Found`, `Reset`: `dpc # "idle"`
is the monitor's lock, which every other user of the selector takes), and
collections whose outcome the outside decides. `disturbed` is a history
variable: the failures and new clients a check met.

### FleetApply, WatchedFleet, CredentialsRefresher

`apc` is where `apply` is, under the Discoverer's lock: a monitor is built and
read at a time (`Build`), then the swap, the stops one by one (`retired` is what
`current` still holds of them), then `Sync`. `BuildRaises` and `SyncRaises` are
the threads that cannot be started: `abandoned` and `whole` are the histories
they leave. `WatchedFleet` is what those that walk a fleet are promised: a step
brings in all the monitors of a plan, and a bucket whose entry stays keeps its
own; `Walked` maps the many steps to it. `rpc` is where
`CredentialsRefresher.run` is, from the wait to the end of a pass: `Clear`,
`Snapshot` and `Look` are separate, as a thread that rejects a key sets the flag
and then the request in between (`Flag`, `Request`). Two threads of a monitor may
call S3, its probe and a collection (`Askers`), and each may be between the two. A read
is `ReadBegins` and one of its ends; what it does to the bucket is `BucketMonitor`'s. `RelistFor`
takes the lock and applies. `recent` is `MIN_REFRESH_GAP_SECONDS`, which a read
does not outlast; `unread` is a history: rejected while in the fleet, not read
since. What a stopped monitor still asks for is left out, and so are the reads the
discovery makes of what changed (`_reread`): they are in `Discovery`, and two readers of
one monitor in `BucketMonitor`.

### EndpointCheck

`pc` is the phase `check_once` is in; `Context` and `Close` are steps of their
own, as one fails a phase with the connection still open and the other ends it
whichever way the check went. `Fail` counts, `Publish` replaces `_result` later,
and a scrape reads the result and then the counters (`Rows`), at any point. What a
check measures stands for its number, so that a figure says which check it is
of; `reached` is the history it is compared with. `Drop` is the stop event the
registry sets.

### SecretListing

`StartList`, `PageRead` and `PageFailed` are `list_secrets`, `Install` what
`refresh` does under its lock with a list that succeeded; a token is the place in the
order of names where a page ended. The Secrets change
between two pages; Kubernetes serves the later pages from the state of the first
(`served`), which is external, as is the refusal of a token too old. `Decoded` and
`ReadSecret` are the two ways values are read, `ValuesOf` what a monitor gets.

### UsageSources, S3Errors, BucketMetrics

`UsageSources` has what each source makes of an answer (`Fetch`): a MinIO age is in
nanoseconds, or in seconds where it is small (`AgeToSeconds`), and a negative one says
nothing of when; nor does an end of R2's window that cannot be parsed (`WindowEnd`). A
number that is not finite, or a document whose `result` is none, makes the whole answer
unavailable. `S3Errors` has the
graph of an exception with its causes and contexts, and what `Chain` and
`Classify` make of it. In `BucketMetrics` a collection publishes the figures of one
answer on the view it was started for (`CollectEnds`), a probe counts each attempt
(`AttemptFails`) before it publishes its check (`PublishProbe`), and `Unset` and
`Build` replace the view. The scrape takes the view under the lock (`ReadView`), then
the snapshot, the result and the counters without it, in the order of `rows()`.
`told` is the history of what the storage said, in the storage's words, which the
figures are compared with.

### Readiness

`Ask` is the copy of the fleet, `TakeProbe` the part of `readiness()` under the
lock of a bucket, `ReadProbe` what is read of its probe outside, `Answer` the
status. Meanwhile probes publish, Secrets are repointed (`Unconfigure`,
`Reconfigure`) and a reload stops buckets (`Leave`), whose last result a request in
progress may still read. `wasFailing` and `wasFine` are
histories of one request.

## 4. What the runs show

`MC*.tla` give the definitions TLC needs; the `.cfg` the values. State
counts are distinct states.

| Run | Instance | Shows |
|---|---|---|
| `SchedulerSafety` | 3 monitors, 2 workers, collections that raise, 1.3 M | one run per bucket, no lost wake-up, no second turn ahead of a bucket that waits, and the scheduler implements `CollectionPool` (at most so many at once) |
| `SchedulerLiveness` | 2 monitors, 1 worker | a due bucket is collected, even behind one that raises for a while |
| `MonitorSafety` | 2 readers, 2 buckets, 2 contents, 2 views, 1 failure, 2.2 M | figures are of the bucket they are labelled with, a view is whole, one probe per watched bucket, nothing after a stop |
| `MonitorNewestKey` | 2 readers, 2 contents, 4 views, threads that cannot be started | the newest key ends up in the source and the probe |
| `DiscoverySafety` | 2 Secrets, 3 plans, 2 changes, 1 reload, 2.7 M | the fleet follows the plan and the lists, a rotation is taken at once, an outage drops nothing |
| `DiscoveryArrives` | the same plans, keys that S3 rejects | every watched bucket ends up with the values of its Secret |
| `ReloadSafety` | 7 documents, the file missing or unreadable; with a period, or on signals alone with plans that fail half way; 22 K | both metrics tell the truth, a rejection changes nothing, a file that stays is dealt with, a SIGHUP is never lost, each entry of the file in force has its own buckets in the plan |
| `SelectionReturns` | 2 candidates, `auto` and an explicit wish, 1 rotation, 1 failure | one fault is no outage; after any outages the probe says "up" and the source in use is one that works |
| `RejectionRead` | 2 buckets, 3 plans, 2 monitors per key, 1 rejection in either thread of a monitor, threads that cannot be started; 557 K | no monitor of the fleet is stopped, no probe runs out of it, an apply that returns is whole, a rejected key is read again |
| `Scrapes` | an endpoint (3 checks, both schemes), a listing (2 Secrets, a page each, 2 changes), a bucket's figures (2 views, 2 collections of 12 answers) and probe (2 checks, 3 failures), a `/readyz` over 2 buckets; 532 K | an endpoint or a bucket shown down has its failures counted, a phase keeps its figure, a list is whole, figures are what one collection was told, a 503 is true |
| `DiscoveryReplaced`, `MonitorRollback` | the smallest that show them | the findings below |

Why the bounds are enough. Three monitors on two workers make every combination
of running, waiting and about to start, and two clock values tell due from not
yet due; due times are compared, never added up. For a monitor, the races are
between two readers and one collection, over an old and a new content: a third
content repeats the pair. Four views allow two failed starts and two repoints.
For the discovery, one reload and two changes put a change before, during and
after it. Two candidates tell order from choice; one rotation and one failure
are each enough to land at every point of a check and of a detection, and
outages and extensions come and go without a bound. The three plans replace a
bucket, drop it and bring it back, around one that stays on the shared endpoint;
with two rejections (`MaxRejections = 2`, 6.6 M states) its safety properties
hold as well, and they are proved for any number. Contents of the file cover
each branch of the applier and the way back from it. The documents are the
branches of the applier: entries of each kind, the same with another setting, an
entry listed twice, no `buckets:`, a setting no start accepts, and no YAML at
all. In `Scrapes` the five subjects share no variable, but for the figures and
the probe, which share the view: a behaviour explores one of them with the
others at rest (`subject`), and the sum of the instances replaces their product.
Two pages put a change and a failure before, between and after them; two views
put a repoint before, in and after a scrape; two attempts are what a check has.
Deadlock is checked in every run but `Scrapes`, where a dropped checker ends and
counted checks, collections and updates run out: nothing waits for anything
there. Symmetry is used in safety runs only.

Pure functions are checked by `ASSUME`s of `MC` modules, which TLC evaluates at the
start of a run. `MCScrapes`: each failure is classified as it was, down to the bound
of a chain and not beyond, and a bare 403 rejects no credential. `MCConfigReloader`:
two contents differ in what a restart applies exactly when `restart_keys` says so;
entries with one fingerprint read the same values, whatever the Secret or the
environment holds; a Secret found has the key and settings of the entry that
would name it; each kind of bad entry is refused; a reload and `--check-config`
accept a setting that no start does (below); naming one proxy header keeps the other
three; a check fits in its interval from four seconds on. The headers and the
intervals are also proved, for any of them (`ConfigReloaderProofs`). The fingerprint
tells nothing of the listing a bucket's values are read from, so that a monitor it keeps
may read from one that is gone: that is the finding of `DiscoveryReplaced`.

### Fairness and timing

- Scheduler: its threads run, the clock ticks, and `SF` on the end of a
  collection: every S3 call has a timeout, and `collect_once` handles what S3
  answers, so a collection does not raise for ever. It may raise any finite
  number of times.
- Monitor: readers have a period, the probe its interval, a due collection is
  taken by the scheduler (which the scheduler's run shows).
- Discovery: `discovery_interval` and `credentials_refresh_interval` above zero
  (`0` turns them off), lists have a timeout. `SF`, because the lock is
  contended.
- Reloader: its thread runs, and its period comes where it has one; signals and
  edits have no fairness.
- Scrapes: safety only, no fairness.
- Refresher: threads go on and the lock is got in the end; the deadline has no
  fairness, so that a rejection does not count on it.
- Selection: probe, collections and a detection go on; `redetect_interval`
  (3600 s by default) passes in the end, and is longer than a check and a
  detection together. Without that, detections could meet every check twice, and
  keep the probe "down".

## 5. What is proved

For every value of the constants, by `tlapm`:

| Module | Theorems | From |
|---|---|---|
| `CollectionSchedulerProofs` | types, `PoolBounded`, `OneRunPerMonitor`, `NoLostWake`, `PoolImplemented` (refinement), `NoSecondTurnAhead` | the assumption on constants only |
| `BucketMonitorProofs` | types, `FiguresAreOfTheBucket`, `StoppedForGood`, `ClientsFollow`; `ViewIsWhole` and `OneProbe`; `KeyNeverRollsBack` | the assumption on constants only; the next two when threads can be started (`~ThreadsMayFail`); the last with one reader (`OneReader`): with two it is false, see `MonitorRollback` |
| `DiscoveryProofs` | types, `FleetFollows`, `OutageDropsNothing`; `RotationTakenNow` | the assumption on constants only; the last when a plan has at most one selector (`OneSelector`) and S3 rejects nothing (`~Rejects`): it is false otherwise, see the findings |
| `ConfigReloaderProofs` | types, `SuccessIsInForce`, `RestartIsTold`, `RejectionKeepsPlan` | `Orderly`: the file stays as it is while the exporter starts, and the first file parses; the last needs no assumption. Where plans may fail half way (`regime.mayRaise`) `SuccessIsInForce` and `RejectionKeepsPlan` claim nothing |
| `ConfigReloaderProofs`, of `ReloadedDocuments` | `EveryEntryIsWatched`; timeouts (`CheckFits`), headers (`HeadersNotNamed`) | `DocumentsAssumption`: the contents are those of documents, and two documents with the same entries differ in no setting a reload applies; it does not need `Orderly`, and the two others need no assumption |
| `CredentialsRefresherProofs` | types, `OneWatcher`, `AppliedWhole`, `NoLostRejection`, `FleetImplemented` (refinement) | the assumptions on constants only |
| `SourceSelectionProofs` | types, `OneFaultIsNoOutage` | the second when all keys are granted the same calls (`~GrantsDiffer`) |
| `EndpointCheckProofs` | types, `DownIsCounted`, `PhaseKeepsItsFigure`, `NoConnectionLeft` | the assumption on constants only |
| `ScrapesProofs`, of `Readiness` | types, `ReadyIsTrue` | the assumption on constants only |
| `ScrapesProofs`, of `BucketMetrics` | `OutageIsCounted`; `FiguresAreTold` | the first when failures are classified as what they were (`FailuresKnown`), the second when answers are read as they were meant (`AnswersKnown`): two facts about pure functions. `MCScrapes` checks the first by its `ASSUME`, the second by the run: an answer read otherwise breaks `FiguresAreTold` |
| `ScrapesProofs`, of `S3Errors` | the chain of an exception (`ChainIsBounded`), a name that did not resolve is told as such, and each failure has a reason that is counted (`NameNotFoundIsTold`) | what an exception wraps is another or nothing, in circles or not; the resolver's error is at most `MaxChain` deep |
| `ScrapesProofs`, of `SecretListing` | types, `ListingIsWhole` | the assumption on constants only |
| `ScrapesProofs`, of `MCScrapes` | the types of all five subjects (`ScrapesTypeOK`) | `FailuresKnown`, `AnswersKnown` |

The arguments:

- *Scheduler.* `PoolBounded` is not inductive: a step has chosen a batch it will
  submit later. `BatchFits` says that the count and the batch together fit the
  workers, which the lock keeps true as no worker can account for its end in
  between; `CountIsRunning` ties the count to the flags, `JobMatchesPc` and
  `OneRunPerMonitor` the flags to the threads. The refinement follows: only
  setting and clearing a flag moves the pool's state. `NoLostWake` is about due
  buckets; `Awake` says of every bucket at rest, due or not, that its due time cut
  the wait in progress, unless a wake-up is on its way, and that a monitor that
  starts without one will announce itself. For the turns, `TurnsInOrder` says that a
  bucket that had its turn while another waits is due after it (or still has its
  collection to end), and that no batch holds the first without the second.
- *Monitor.* A collection in flight holds a view, and its source is of the
  bucket that view is labelled with (`Collecting`): so its figures are of that
  bucket although the monitor has moved on. `Matches` ties label, source and
  credentials of the current view; `ProbeIsHeld` says the probes that run are
  those whose event the monitor holds. Of `NewestKeyIsUsed` the safety half is proved:
  `ClientsFollow`, that until a client or a detection fails the source and the probe
  use the credentials in force. With one reader these never get older, as what it
  brings is no older than what is in hand (`NothingOlder`); two readers bring what
  they read in either order.
- *Discovery.* `FleetFollows` is about a free lock, and nothing that `desired()`
  reads changes while it is free. Under it `Accounted` says of a found bucket
  that it is still in a list, or that a list made since the lock was taken
  succeeded without it: what `Apply` then drops was really gone. `RotationTakenNow`
  needs more: `InStep` says that a found bucket has the values its listing holds, or
  is in the set to be read again, or has its change noted under the lock; `ToList`
  that what the discovery has yet to list held every found bucket, `Dated` that a
  listing a reload adds is newer than any a bucket reads from, and `NoRejection`
  that the refresher has only its periodic pass.
- *Reloader.* `Verdict` relates the digests, the entries in force and
  what waits for a restart in each place of the thread. `EveryEntryIsWatched` needs
  less: the entries in force are always those of some document that was accepted
  (`FromDocument`), and for any document that is accepted the plan has what each
  entry asks for (`PlanWatches`), as the code reads an entry alone, at its place.
- *Fleet.* A monitor that is built has a number never given before (`Placed`,
  `Numbered`), so the swap brings in nobody who was stopped; what the refresher
  holds is in the fleet, retired or stopped (`HeldKnown`), so a read that ends
  late starts nobody's probe. The refinement is that only the swap changes what the
  fleet's readers walk, and that it brings in the whole plan (`SwapBrings`): a
  failure before it leaves them the plan before, one after it the plan asked for.
  For the rejections, `Pending` says where each
  unread one is: not flagged yet, flagged with the request or the look to come,
  or in the pass.
- *Probe.* Each failed attempt is paid by a disturbance of its own (`Accounted`),
  because a settled call is one the client may make (`Granted`).
- *Endpoints.* `DownIsCounted` compares two reads of a scrape. `Counting` says that a
  failure is counted from the moment it is known until it shows, in the check, in the
  result and in what the scrape holds of it; counters only grow. For the figures,
  `Measured` says in each phase which of the check's durations are of the check and
  which are still those of the result; for the connections, `Connections` says
  where there is none.
- *Readiness.* The answer is about no single instant. `SeenNow` says that what a
  bucket shows now is in the history, `SeenHeld` that what the probe in hand
  published is, although its bucket may have lost it since, and `SeenRead` that every
  entry read is. A probe that is replaced may still publish, and the request may
  still read it: this is why the history takes what any probe publishes.
- *Metrics.* A scrape reads figures, result and counters apart. `CheckCounted` says
  that the failures of a check are counted before it shows, `Shown` that a result is
  covered by counters read at the same time or later. For the figures, `Serves` says
  that a collector serves what it was told, `ToldOf` that the scrape holds what one of
  the collections since it began left, and `AfterOneMore` that one more collection
  changes what ought to show as it changes the snapshot.
- *Errors.* The loop of `chain()` has a bound, so what it computes is `MaxChain - 1`
  times the same step (`ChainSteps`), and `FoundIn` is what a step keeps: each error is
  wrapped by the one before, none comes twice, and a chain shorter than its bound has
  nothing more to find. So no path of wrappers leaves it (`WrappedIsFound`).
- *Listing.* `ListingInv` says that the pages read so far are those of the state the
  first was served from, up to the token, and that what is installed is the whole
  of such a state.

Only model-checked: all liveness (`DueIsCollected`, `NewestKeyIsUsed`,
`RotationArrives`, `SighupIsHonoured`, `FileIsDealtWith`, `ReachesAgain`,
`SettlesOnWorking`, `RejectionIsRead`), which the prover does not reach; and the pure
functions a theorem takes as a hypothesis, on the samples of `MCScrapes`:
`FailuresKnown` and `AnswersKnown` compare them with what the sample was meant to say.
Every invariant and every action property of the runs is
proved, with the hypotheses above. `FleetImplemented` is proved and in no run: TLC
agrees on the instance of `RejectionRead`, and `AppliedWhole`
and `OneWatcher` are the parts of it that run asks about. `ClientsFollow` is proved
and in no run as well: TLC agrees on the instance of `MonitorSafety`, where it
would not hold without its premise that nothing failed.

## 6. Findings

Two runs show the code at odds with what its comments promise:

- `DiscoveryReplaced` (`discovery.py:376`, against `:367-368`). A reload replaces
  a selector by another that finds the same Secret. The fingerprint does not say
  which listing a bucket's values come from, so the monitor is kept, with a
  listing nobody refreshes any more: no rotation reaches it.
- `MonitorRollback` (`monitor.py:228`, against `discovery.py:444-445`). A refresher
  that read the Secret before a rotation applies the old key after the
  discoverer applied the new one.

Others were met on the way. They have no run of their own; each can be had from
the modules as they are, by the constant or the property named, or reads off the
code:

- `__init__.py:505` reads the file again after the first listing, so an
  edit in between is recorded as applied and never is, against `config.py:62`
  "The file as it is now is the configuration in force."
  (`ReloadSafety` with `EditsDuringStart = TRUE`: `SuccessIsInForce`.)
- `discovery.py:458` installs the plan before it is applied: a plan that fails
  half way is in force and rejected at once, against `config.py:8`.
  (`RejectionKeepsPlan` says nothing where `regime.mayRaise`; without that
  exception `ReloadSafety` violates it.)
- `__init__.py:144`: a file that is not a configuration starts the exporter with
  the defaults, against `config.py:8-9` "At startup an invalid file stops the
  exporter".
- `monitor.py:347` keeps the new credentials before it rebuilds the clients. When
  that fails, later refreshes see no change; once the old key is revoked the
  probe, which has it too, says "down", and `record` waits for the bucket to be
  back, against `selection.py:79-80` "try again at the next occasion".
  (`BucketMonitor` with one reader, one bucket, `MaxFaults = 1`, `StorageMayFail`
  and `ThreadsMayFail` FALSE: `OldKeyIsLeft`.)
- `fleet.py:92`: a thread that cannot be started raises out of `apply`, and the
  probes of the monitors it had built run on, held by nobody: each later attempt
  may add some, against `fleet.py:76` "never half-applied". (`RejectionRead`
  keeps them in `abandoned`; without it, `OneWatcher` is violated.)
- `scheduler.py:171`: a monitor that `apply` builds may be rejected before the
  swap, when what follows takes longer than `MIN_REFRESH_GAP_SECONDS`: its request
  finds it in no fleet. Its next rejection asks again, a gap later.
- `probe.py:178`: HeadBucket was answered to the old client, `set_client` resets
  `_method`, and then the check writes it: the new client keeps a call its key
  may not be granted, and the bucket is "down" for good, against
  `probe.py:132` "re-deciding which call to use". The source is then never
  detected again either.
  (`SelectionReturns` with `GrantsDiffer = TRUE`: `ReachesAgain`.)
- `discovery.py:476` drops the keys its lists saw change. Only buckets S3
  rejected are read again; the others wait for the next refresh, and no list will
  see their change again, against `README.md:231` "is read again at once".
  (`DiscoverySafety` with `Rejects = TRUE`: `RotationTakenNow`.)
- With two selectors, a bucket that moves from one to the other keeps the listing
  it was found by, as above.
  (`DiscoverySafety` with `Plans <- OverlappingPlans`: `RotationTakenNow`.) This is
  why the discovery's safety run has plans of one selector; `FleetFollows` and
  `OutageDropsNothing` are proved for any plan.
- `monitor.py:305`: a bucket "watched from scratch" (`monitor.py:237`) keeps the
  `effective_interval` that the slow collections of the bucket before it gave.
- `monitor.py:335`: a probe's thread that cannot be started raises out of
  `refresh_credentials`, "Never raises" (`monitor.py:215`), and leaves a view
  without a due time. (`MonitorSafety` with `ThreadsMayFail = TRUE`:
  `ViewIsWhole`.)
- `scheduler.py:118-120` does not wait for a listing in progress, but
  `sys.exit` (`__init__.py:116`) joins the executor's threads at the
  interpreter's exit: SIGTERM is held for as long as the listing takes. The
  scheduler's `Exit` waits for the threads, as the interpreter does.
- `__init__.py:246` checks the entries of a new content, not the settings of a start:
  `interval: 0` in the multi-bucket mode is accepted by a reload and by
  `--check-config`, and stops the next start, against `README.md:386-388`
  "anything that would stop the exporter at startup". In the single-bucket mode
  `--check-config` also passes without `OPENSHIFT_NAMESPACE`, which a start requires. (`MCConfigReloader`: `ReloadIsNotStart`.)
- `endpoints.py:214`: a CA bundle that cannot be loaded publishes a handshake of 0 s,
  against `endpoints.py:101-103` "a zero would read as an instant connection".
  (`PhaseKeepsItsFigure` has it as its exception.)
- `endpoints.py:254-256` reads the certificate outside a phase: what `getpeercert` or
  `cert_time_to_seconds` raise is caught by nobody in `check_once`, "Never raises"
  (`endpoints.py:237`).
- `endpoints.py:512`: after `stop()`, a reload in progress may still `sync`, and start
  checkers nothing stops. They are daemon threads of a process that ends.
- `discovery.py:381`, `monitor.py:465` and `:486`: `rows()` and `readiness()` wait for
  locks held through Kubernetes calls and detections, against `README.md:612` "only
  reads a frozen result from memory" and `fleet.py:90-91` "must not hold up a scrape".
- `monitor.py:543-547` reads `configured`, `bucket` and `source_name` after the rows and
  without the lock: during a repoint the info row may have an empty name, and the
  counts of `buckets` disagree with the rows beside them. (`Count`, in
  `BucketMetrics`.)
- Two monitors of one `(bucket_namespace, name)` are one series: the last of them
  wins, and `README.md:890` "the same bucket name in two namespaces stays two rows"
  does not cover two Secrets for one bucket.
- `buckets.py:165` accepts `interval: .nan` in an entry, as no comparison with it
  holds: the bucket is never due. As an annotation it is refused.
- `clients.py:30`: with an interval of 1 to 3 s, four timeouts of 1 s do not fit, against
  "a probe must never still be running when the next one is due".
  (`CheckFitsInItsInterval` starts at 4 s for this reason.)
- `__init__.py:452`: `max_concurrent_collections: 0.5` is above zero and then the
  integer 0: the executor refuses it with a traceback. A negative
  `connectivity_interval` or `config_reload_interval` makes a wait that never waits.

## 7. What is not modelled

- The requests behind a detection (`supports` and `probe` of `sources/*.py`): each
  candidate is asked one question, whose answer is a choice.
- The clocks of the loops: a deadline comes or does not. This leaves out
  `discovery.py:486`, where the deadline in force before a reload still counts.
- The HTTP request of the Kubernetes client, its token and its TLS: an answer is a
  page, or one of the ways it fails.
- The labels, names and grouping of metrics; what `/readyz` says beside its status and
  the state of each bucket; the access log, `/healthz`, the servers; the construction
  of boto3 clients: formatting, input and output.
- The end of the process, beside the scheduler's: the stops of the fleet, of the
  endpoints and of the servers happen while daemon threads still run, and nothing
  they do is seen again.
- Images, deployment files, dashboards, `versioneer`: not the program.
- Durations and periods are compared, not measured: an interval is short or
  long, a gap has passed or not.
