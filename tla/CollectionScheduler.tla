------------------------ MODULE CollectionScheduler ------------------------
(***************************************************************************)
(* scheduler.py, CollectionScheduler: one thread looks for the buckets     *)
(* whose collection is due and hands them, the most overdue first, to a    *)
(* pool of at most MaxWorkers threads.  The buckets themselves change      *)
(* under the scheduler's feet: a refresh or a reload publishes or drops    *)
(* their view, and a collection that ends sets its next due time.          *)
(*                                                                         *)
(* One step of a thread is one access to state another thread can see:     *)
(* the scheduler's lock is held from Look to Sleep (no worker can account  *)
(* for its end meanwhile), the monitors' fields are read without a lock.   *)
(* The time unit is the shortest sleep of the scheduler (0.05 s).          *)
(***************************************************************************)
EXTENDS Integers, FiniteSets

CONSTANTS
    Monitors,    \* the BucketMonitors of the fleet
    Workers,     \* the threads of the executor
    Idle,        \* what a thread that collects nothing collects
    Delays,      \* what a collection may add to the clock: interval or retry
    Spreads,     \* what a start may add to the clock: 0, or a random share
    MaxSleep,    \* MAX_SLEEP_SECONDS
    Horizon,     \* bound: the clock stops there, and every sleep ends
    MaxStarts,   \* bound: how often a refresh or a reload publishes a view
    MayRaise     \* whether collect() may raise, which _run provides for

ASSUME SchedulerAssumption ==
    /\ IsFiniteSet(Monitors)
    /\ IsFiniteSet(Workers) /\ Workers # {}
    /\ Idle \notin Monitors
    /\ Delays \in SUBSET (Nat \ {0})
    /\ Spreads \in SUBSET Nat
    /\ MaxSleep \in Nat \ {0}
    /\ Horizon \in Nat
    /\ MaxStarts \in Nat
    /\ MayRaise \in BOOLEAN

MaxWorkers == Cardinality(Workers)

NoDue == -1                       \* next_due is None: never started

VARIABLES
    now,          \* time.monotonic()
    \* The monitors, as the scheduler sees them.
    configured,   \* their view is published (and they are not stopped)
    nextDue,      \* their next_due
    starting,     \* those whose _start published the view, next_due still old
    stale,        \* the view their running collection took is not theirs any more
    running,      \* their running flag
    \* The scheduler.
    count,        \* _running
    wake,         \* the _wake event
    spc,          \* where its thread is
    snow,         \* the clock it read when its step began
    seen,         \* next_due of each monitor as its sort read them
    batch,        \* what is left to hand to the executor in this step
    asleepAt,     \* when its wait began
    wakeAt,       \* when its wait times out
    \* The executor.
    queued,       \* submitted and not taken by a thread yet
    job,          \* the monitor each thread collects
    wpc,          \* where each thread is
    \* The other threads of the process.
    starts,       \* views published so far
    announce,     \* a refresh or a reload owes the scheduler a wake()
    stop,         \* the STOP event
    closed,       \* the executor was shut down
    exited        \* the process is gone

schedVars == <<count, wake, spc, snow, seen, batch, asleepAt, wakeAt>>
monitorVars == <<configured, nextDue, starting, stale, starts>>
poolVars == <<queued, job, wpc>>
processVars == <<announce, stop, closed, exited>>
vars == <<now, configured, nextDue, starting, stale, running, count, wake,
          spc, snow, seen, batch, asleepAt, wakeAt, queued, job, wpc,
          starts, announce, stop, closed, exited>>

Time == 0 .. Horizon
DueTime == -1 .. Horizon + 1

TypeOK ==
    /\ now \in Time
    /\ configured \in [Monitors -> BOOLEAN]
    /\ nextDue \in [Monitors -> DueTime]
    /\ starting \in SUBSET Monitors
    /\ stale \in [Monitors -> BOOLEAN]
    /\ running \in [Monitors -> BOOLEAN]
    /\ count \in Nat
    /\ wake \in BOOLEAN
    /\ spc \in {"top", "submit", "wait", "clear", "done", "dead"}
    /\ snow \in Time
    /\ seen \in [Monitors -> DueTime]
    /\ batch \in SUBSET Monitors
    /\ asleepAt \in Time
    /\ wakeAt \in 0 .. Horizon + MaxSleep
    /\ queued \in SUBSET Monitors
    /\ job \in [Workers -> Monitors \cup {Idle}]
    /\ wpc \in [Workers -> {"idle", "collect", "finally", "wake"}]
    /\ starts \in 0 .. MaxStarts
    /\ announce \in BOOLEAN
    /\ stop \in BOOLEAN
    /\ closed \in BOOLEAN
    /\ exited \in BOOLEAN

-----------------------------------------------------------------------------

Least(a, b) == IF a < b THEN a ELSE b
Most(a, b) == IF a < b THEN b ELSE a

\* A due time beyond the horizon is never reached: one value stands for all.
DueIn(d) == Least(now + d, Horizon + 1)

Collectable(m) == configured[m] /\ nextDue[m] # NoDue

\* Mutant: a collection in progress does not keep its bucket from being due.
DueAtThoughRunning(t) == {m \in Monitors : Collectable(m) /\ nextDue[m] <= t}

\* What step() finds due at time t.
DueAt(t) == {m \in Monitors : Collectable(m) /\ ~running[m] /\ nextDue[m] <= t}

\* Mutant: the due monitors are cut without being sorted.
AnyDue(due, slots) ==
    {chosen \in SUBSET due : Cardinality(chosen) = Least(slots, Cardinality(due))}

\* The first `slots` of the due monitors sorted by next_due (ties either way).
MostOverdue(due, slots) ==
    {chosen \in SUBSET due :
        /\ Cardinality(chosen) = Least(slots, Cardinality(due))
        /\ \A m \in chosen, n \in due \ chosen : nextDue[m] <= nextDue[n]}

Init ==
    /\ now = 0
    /\ configured \in [Monitors -> BOOLEAN]
    /\ nextDue = [m \in Monitors |-> IF configured[m] THEN 0 ELSE NoDue]
    /\ starting = {}
    /\ stale = [m \in Monitors |-> FALSE]
    /\ running = [m \in Monitors |-> FALSE]
    /\ count = 0
    /\ wake = FALSE
    /\ spc = "top"
    /\ snow = 0
    /\ seen = [m \in Monitors |-> NoDue]
    /\ batch = {}
    /\ asleepAt = 0
    /\ wakeAt = 0
    /\ queued = {}
    /\ job = [w \in Workers |-> Idle]
    /\ wpc = [w \in Workers |-> "idle"]
    /\ starts = 0
    /\ announce = FALSE
    /\ stop = FALSE
    /\ closed = FALSE
    /\ exited = FALSE

-----------------------------------------------------------------------------
(* The scheduler's thread: run() and step().                               *)

\* Mutant: the workers in use are not subtracted.
LookPastBusy ==
    /\ ~exited
    /\ spc = "top"
    /\ spc' = IF stop THEN "done" ELSE "submit"
    /\ snow' = now /\ seen' = nextDue
    /\ batch' \in MostOverdue(DueAt(now), MaxWorkers)
    /\ UNCHANGED <<now, monitorVars, running, count, wake, asleepAt, wakeAt,
                   poolVars, processVars>>

\* `while not stop`; the clock is read, the lock taken, and what is due is
\* sorted and cut to the free workers.
Look ==
    /\ ~exited
    /\ spc = "top"
    /\ IF stop
       THEN spc' = "done" /\ UNCHANGED <<snow, seen, batch>>
       ELSE /\ spc' = "submit"
            /\ snow' = now
            /\ seen' = nextDue
            /\ batch' \in MostOverdue(DueAt(now), Most(0, MaxWorkers - count))
    /\ UNCHANGED <<now, monitorVars, running, count, wake, asleepAt, wakeAt,
                   poolVars, processVars>>

\* Mutant: the collection is submitted and not counted.
SubmitUncounted(m) ==
    /\ ~exited
    /\ spc = "submit" /\ m \in batch /\ ~closed
    /\ running' = [running EXCEPT ![m] = TRUE]
    /\ batch' = batch \ {m}
    /\ queued' = queued \cup {m}
    /\ UNCHANGED <<now, monitorVars, count, wake, spc, snow, seen, asleepAt,
                   wakeAt, job, wpc, processVars>>

\* One iteration of the loop: the flag and the count first, then submit(),
\* which raises once the executor is shut down and ends the thread.
Submit(m) ==
    /\ ~exited
    /\ spc = "submit"
    /\ m \in batch
    /\ \A n \in batch : seen[m] <= seen[n]
    /\ running' = [running EXCEPT ![m] = TRUE]
    /\ count' = count + 1
    /\ IF closed
       THEN /\ spc' = "dead"
            /\ batch' = {}
            /\ UNCHANGED queued
       ELSE /\ batch' = batch \ {m}
            /\ queued' = queued \cup {m}
            /\ UNCHANGED spc
    /\ UNCHANGED <<now, monitorVars, wake, snow, seen, asleepAt, wakeAt,
                   job, wpc, processVars>>

\* How long step() says to sleep: until the soonest of what does not run is
\* due, counted from the clock it read first, between the two bounds.
SleepFor ==
    LET upcoming == {nextDue[m] : m \in {n \in Monitors : Collectable(n) /\ ~running[n]}}
        soonest == {t \in upcoming : \A u \in upcoming : t <= u}
    IN  IF upcoming = {} THEN {MaxSleep}
        ELSE {Least(MaxSleep, Most(1, t - snow)) : t \in soonest}

\* The lock is released and the wait begins.
Sleep ==
    /\ ~exited
    /\ spc = "submit"
    /\ batch = {}
    /\ spc' = "wait"
    /\ asleepAt' = now
    /\ \E delay \in SleepFor : wakeAt' = now + delay
    /\ seen' = [m \in Monitors |-> NoDue]              \* read no more
    /\ UNCHANGED <<now, monitorVars, running, count, wake, snow, batch,
                   poolVars, processVars>>

\* The event is set or the time is over; past the bound of the clock, any time is.
WaitReturns ==
    /\ ~exited
    /\ spc = "wait"
    /\ wake \/ now >= wakeAt \/ now = Horizon
    /\ spc' = "clear"
    /\ snow' = 0 /\ asleepAt' = 0 /\ wakeAt' = 0       \* read no more
    /\ UNCHANGED <<now, monitorVars, running, count, wake, seen, batch,
                   poolVars, processVars>>

Clear ==
    /\ ~exited
    /\ spc = "clear"
    /\ wake' = FALSE
    /\ spc' = "top"
    /\ UNCHANGED <<now, monitorVars, running, count, snow, seen, batch,
                   asleepAt, wakeAt, poolVars, processVars>>

-----------------------------------------------------------------------------
(* A thread of the executor: _run(), and what collect() does to the        *)
(* scheduler's view of the monitor.                                        *)

\* The thread takes a submitted call, and collect() takes the monitor's view
\* under the monitor's lock, which a start in progress holds.
Take(w, m) ==
    /\ ~exited
    /\ wpc[w] = "idle"
    /\ m \in queued \ starting
    /\ queued' = queued \ {m}
    /\ job' = [job EXCEPT ![w] = m]
    /\ wpc' = [wpc EXCEPT ![w] = "collect"]
    /\ stale' = [stale EXCEPT ![m] = ~configured[m]]
    /\ UNCHANGED <<now, configured, nextDue, starting, starts, running, schedVars,
                   processVars>>

\* collect() returns: it sets the next due time, unless its view is no longer
\* the monitor's.
CollectEnds(w) ==
    /\ ~exited
    /\ wpc[w] = "collect"
    /\ job[w] \notin starting
    /\ wpc' = [wpc EXCEPT ![w] = "finally"]
    /\ IF stale[job[w]]
       THEN UNCHANGED nextDue
       ELSE \E d \in Delays : nextDue' = [nextDue EXCEPT ![job[w]] = DueIn(d)]
    /\ UNCHANGED <<now, configured, starting, stale, starts, running, schedVars,
                   queued, job, processVars>>

\* collect() raises: the next due time stays where it was.
CollectRaises(w) ==
    /\ ~exited
    /\ MayRaise
    /\ wpc[w] = "collect"
    /\ wpc' = [wpc EXCEPT ![w] = "finally"]
    /\ UNCHANGED <<now, monitorVars, running, schedVars, queued, job,
                   processVars>>

SchedulerLocked == spc = "submit"

\* Mutant: the end of a collection is not subtracted.
FinallyUncounted(w) ==
    /\ ~exited
    /\ wpc[w] = "finally" /\ ~SchedulerLocked
    /\ running' = [running EXCEPT ![job[w]] = FALSE]
    /\ job' = [job EXCEPT ![w] = Idle]
    /\ wpc' = [wpc EXCEPT ![w] = "wake"]
    /\ UNCHANGED <<now, monitorVars, count, wake, spc, snow, seen, batch,
                   asleepAt, wakeAt, queued, processVars>>

\* _run's finally: the flag and the count, under the scheduler's lock.
Finally(w) ==
    /\ ~exited
    /\ wpc[w] = "finally"
    /\ ~SchedulerLocked
    /\ running' = [running EXCEPT ![job[w]] = FALSE]
    /\ count' = count - 1
    /\ job' = [job EXCEPT ![w] = Idle]
    /\ wpc' = [wpc EXCEPT ![w] = "wake"]
    /\ UNCHANGED <<now, monitorVars, wake, spc, snow, seen, batch, asleepAt,
                   wakeAt, queued, processVars>>

\* Mutant: the end of a collection does not wake the scheduler.
EndQuietly(w) ==
    /\ ~exited
    /\ wpc[w] = "wake"
    /\ wpc' = [wpc EXCEPT ![w] = "idle"]
    /\ UNCHANGED <<now, monitorVars, running, schedVars, queued, job, processVars>>

WakeAfterRun(w) ==
    /\ ~exited
    /\ wpc[w] = "wake"
    /\ wake' = TRUE
    /\ wpc' = [wpc EXCEPT ![w] = "idle"]
    /\ UNCHANGED <<now, monitorVars, running, count, spc, snow, seen, batch,
                   asleepAt, wakeAt, queued, job, processVars>>

-----------------------------------------------------------------------------
(* The refresher, the reloader and the discoverer, as far as the scheduler *)
(* sees them.                                                              *)

\* A repoint or a stop: the monitor has no view (or is stopped).
ViewLost(m) ==
    /\ ~exited
    /\ configured[m]
    /\ m \notin starting
    /\ configured' = [configured EXCEPT ![m] = FALSE]
    /\ stale' = [stale EXCEPT ![m] = TRUE]
    /\ UNCHANGED <<now, nextDue, starting, starts, running, schedVars, poolVars,
                   processVars>>

\* _start publishes a view; the due time of the bucket watched before, if
\* any, is still there.
ViewSet(m) ==
    /\ ~exited
    /\ ~configured[m]
    /\ starts < MaxStarts
    /\ starts' = starts + 1
    /\ configured' = [configured EXCEPT ![m] = TRUE]
    /\ starting' = starting \cup {m}
    /\ announce' = TRUE
    /\ UNCHANGED <<now, nextDue, stale, running, schedVars, poolVars, stop,
                   closed, exited>>

\* _start sets the due time and gives up the monitor's lock.
DueSet(m) ==
    /\ ~exited
    /\ m \in starting
    /\ \E d \in Spreads : nextDue' = [nextDue EXCEPT ![m] = DueIn(d)]
    /\ starting' = starting \ {m}
    /\ UNCHANGED <<now, configured, stale, starts, running, schedVars, poolVars,
                   processVars>>

\* The pass ends: on_change is the scheduler's wake().
PassEnds ==
    /\ ~exited
    /\ wake' = TRUE
    /\ announce' = (starting # {})
    /\ UNCHANGED <<now, monitorVars, running, count, spc, snow, seen, batch,
                   asleepAt, wakeAt, poolVars, stop, closed, exited>>

\* SIGTERM.
Signal ==
    /\ ~exited
    /\ ~stop
    /\ stop' = TRUE
    /\ UNCHANGED <<now, monitorVars, running, schedVars, poolVars, announce,
                   closed, exited>>

\* The main thread leaves its wait: shutdown(wait=False, cancel_futures=True).
Shutdown ==
    /\ ~exited
    /\ stop /\ ~closed
    /\ closed' = TRUE
    /\ wake' = TRUE
    /\ queued' = {}
    /\ UNCHANGED <<now, monitorVars, running, count, spc, snow, seen, batch,
                   asleepAt, wakeAt, job, wpc, announce, stop, exited>>

\* sys.exit(): the interpreter joins the executor's threads before it ends.
Exit ==
    /\ closed /\ ~exited
    /\ \A w \in Workers : wpc[w] = "idle"
    /\ exited' = TRUE
    /\ UNCHANGED <<now, monitorVars, running, schedVars, poolVars, announce,
                   stop, closed>>

Tick ==
    /\ ~exited
    /\ now < Horizon
    /\ now' = now + 1
    /\ UNCHANGED <<monitorVars, running, schedVars, poolVars, processVars>>

SchedulerStep ==
    Look \/ (\E m \in Monitors : Submit(m)) \/ Sleep \/ WaitReturns \/ Clear

WorkerStep(w) ==
    \/ \E m \in Monitors : Take(w, m)
    \/ CollectEnds(w) \/ CollectRaises(w) \/ Finally(w) \/ WakeAfterRun(w)

Others ==
    \/ \E m \in Monitors : ViewLost(m) \/ ViewSet(m) \/ DueSet(m)
    \/ PassEnds \/ Signal \/ Shutdown \/ Exit

Gone == exited /\ UNCHANGED vars

Next ==
    \/ SchedulerStep
    \/ \E w \in Workers : WorkerStep(w)
    \/ Others
    \/ Tick
    \/ Gone

Spec == Init /\ [][Next]_vars

\* The threads run, a lock that keeps being released is eventually taken, and
\* the pass that changed a monitor reaches its end; time passes.  Nothing says
\* that a signal comes.
FairSpec ==
    /\ Spec
    /\ WF_vars(SchedulerStep)
    /\ \A w \in Workers :
          /\ WF_vars(\E m \in Monitors : Take(w, m))
          /\ SF_vars(Finally(w))
          /\ WF_vars(WakeAfterRun(w))
    /\ \A m \in Monitors : WF_vars(DueSet(m))
    /\ WF_vars(announce /\ PassEnds)
    /\ WF_vars(Tick)
    /\ WF_vars(Shutdown)
    /\ WF_vars(Exit)
    \* Collections end, since every S3 call carries a timeout, and they do not
    \* raise for ever: collect_once handles what S3 answers.
    /\ \A w \in Workers : SF_vars(CollectEnds(w))

-----------------------------------------------------------------------------
(* Properties.                                                             *)

\* The count the pool is limited by is the number of monitors that run.
CountIsRunning == count = Cardinality({m \in Monitors : running[m]})

\* What the step still has to hand over fits the free workers, and only the
\* scheduler, while it holds its lock, has a batch of monitors at rest.
BatchFits ==
    /\ count + Cardinality(batch) <= MaxWorkers
    /\ \A m \in batch : ~running[m]
    /\ spc # "submit" => batch = {}

\* A thread holds a monitor from taking it to accounting for its end.
JobMatchesPc ==
    \A w \in Workers : job[w] = Idle <=> wpc[w] \in {"idle", "wake"}

\* Never more collections than workers (max_concurrent_collections), in every
\* interleaving of the steps with the workers that end.
PoolBounded == count <= MaxWorkers

\* A monitor that runs has one run, queued or on one thread: its figures are
\* never collected twice at the same time, and the flag never outlives it.
\* (Once the executor is shut down the flags of cancelled calls stay.)
OneRunPerMonitor ==
    /\ \A m \in Monitors :
          /\ m \in queued => running[m] /\ \A w \in Workers : job[w] # m
          /\ running[m] /\ ~closed => m \in queued \/ \E w \in Workers : job[w] = m
    /\ \A w \in Workers :
          /\ job[w] # Idle => running[job[w]]
          /\ \A v \in Workers : v # w /\ job[v] # Idle => job[v] # job[w]

\* The inductive invariant: the accounting above is not inductive alone.
IInv == TypeOK /\ CountIsRunning /\ BatchFits /\ JobMatchesPc /\ OneRunPerMonitor

\* The scheduler implements the pool: its active buckets are those that run.
Pool == INSTANCE CollectionPool WITH
            Buckets <- Monitors, Size <- MaxWorkers,
            active <- {m \in Monitors : running[m]},
            free <- MaxWorkers - count

PoolImplemented == Pool!Spec

Pending ==
    \/ wake \/ announce \/ stop
    \/ \E w \in Workers : wpc[w] = "wake"

\* While the thread sleeps with a worker free, a bucket that is due has a
\* wake-up on its way, or the sleep was cut to its due time (or to the
\* shortest sleep): no set-then-clear loses the news of a bucket.
NoLostWake ==
    spc = "wait" /\ ~Pending =>
        \A m \in DueAt(now) :
            count < MaxWorkers =>
                wakeAt <= Most(nextDue[m], snow + 1) + (asleepAt - snow)

\* A due bucket is collected, ceases to be due or the process stops.
DueIsCollected ==
    \A m \in Monitors : m \in DueAt(now) /\ ~stop ~> m \notin DueAt(now) \/ stop

=============================================================================
