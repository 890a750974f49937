---------------------- MODULE CollectionSchedulerProofs ----------------------
(***************************************************************************)
(* What CollectionScheduler's accounting guarantees for every set of       *)
(* monitors and workers.  The argument: a step chooses its batch to fit    *)
(* the free workers and only the scheduler adds to the count, while the    *)
(* lock keeps the workers from accounting; a thread holds its monitor from *)
(* taking it to accounting for its end, so the flag, the count and the     *)
(* runs move together.  Turns: a bucket that had its turn is due after     *)
(* those that waited for it, so no batch takes it without them.            *)
(***************************************************************************)
EXTENDS SchedulerTurns, FiniteSetTheorems, TLAPS

\* The monitors that run.
Active == {m \in Monitors : running[m]}

LEMMA MaxWorkersNat == MaxWorkers \in Nat
BY SchedulerAssumption, FS_CardinalityType DEF MaxWorkers

LEMMA SubsetFinite ==
    ASSUME NEW S \in SUBSET Monitors
    PROVE  IsFiniteSet(S) /\ Cardinality(S) \in Nat
BY SchedulerAssumption, FS_Subset, FS_CardinalityType

\* A due time the model computes is one of its due times.
LEMMA DueInType == ASSUME now \in Time, NEW d \in Nat PROVE DueIn(d) \in DueTime
BY SchedulerAssumption DEF DueIn, Least, Time, DueTime

\* The scheduler never chooses more than the free workers.
LEMMA MostOverdueFits ==
    ASSUME NEW due \in SUBSET Monitors, NEW slots \in Nat,
           NEW chosen \in MostOverdue(due, slots)
    PROVE  chosen \subseteq due /\ Cardinality(chosen) <= slots
<1>1. Cardinality(due) \in Nat
  BY SubsetFinite
<1>. QED BY <1>1 DEF MostOverdue, Least

-----------------------------------------------------------------------------
(* Types.                                                                  *)

LEMMA InitTypeOK == Init => TypeOK
<1>. SUFFICES ASSUME Init PROVE TypeOK
  OBVIOUS
<1>1. 0 \in Time /\ 0 \in DueTime /\ NoDue \in DueTime
  BY SchedulerAssumption DEF Time, DueTime, NoDue
<1>2. nextDue \in [Monitors -> DueTime]
  BY <1>1 DEF Init
<1>3. seen \in [Monitors -> DueTime]
  BY <1>1 DEF Init
<1>4. starts \in 0 .. MaxStarts
  BY SchedulerAssumption DEF Init
<1>5. wakeAt \in 0 .. Horizon + MaxSleep
  BY SchedulerAssumption DEF Init
<1>. QED BY <1>1, <1>2, <1>3, <1>4, <1>5 DEF Init, TypeOK

LEMMA SchedulerTypeOK == TypeOK /\ SchedulerStep => TypeOK'
<1>. SUFFICES ASSUME TypeOK, SchedulerStep PROVE TypeOK'
  OBVIOUS
<1>. USE DEF TypeOK, processVars, poolVars, monitorVars
<1>1. CASE Look
  <2>1. DueAt(now) \in SUBSET Monitors
    BY DEF DueAt
  <2>2. batch' \in SUBSET Monitors
    BY <1>1, <2>1 DEF Look, MostOverdue
  <2>. QED BY <1>1, <2>2 DEF Look
<1>2. ASSUME NEW m \in Monitors, Submit(m) PROVE TypeOK'
  BY <1>2 DEF Submit
<1>3. CASE Sleep
  <2>1. \A delay \in SleepFor : delay \in 0 .. MaxSleep
    <3>1. \A t \in DueTime : Least(MaxSleep, Most(1, t - snow)) \in 0 .. MaxSleep
      BY SchedulerAssumption DEF Least, Most, Time, DueTime
    <3>2. \A m \in Monitors : nextDue[m] \in DueTime
      OBVIOUS
    <3>3. MaxSleep \in 0 .. MaxSleep
      BY SchedulerAssumption
    <3>. QED BY <3>1, <3>2, <3>3 DEF SleepFor
  <2>2. wakeAt' \in 0 .. Horizon + MaxSleep
    BY <1>3, <2>1, SchedulerAssumption DEF Sleep, Time
  <2>3. seen' \in [Monitors -> DueTime]
    BY <1>3, SchedulerAssumption DEF Sleep, NoDue, DueTime
  <2>. QED BY <1>3, <2>2, <2>3 DEF Sleep
<1>4. CASE WaitReturns
  <2>1. wakeAt' \in 0 .. Horizon + MaxSleep
    BY <1>4, SchedulerAssumption DEF WaitReturns
  <2>. QED BY <2>1, <1>4, SchedulerAssumption DEF WaitReturns, Time
<1>5. CASE Clear
  BY <1>5 DEF Clear
<1>. QED BY <1>1, <1>2, <1>3, <1>4, <1>5 DEF SchedulerStep

\* The monitor a thread accounts for runs, so the count it takes one from is
\* not zero, and stays the number of those that run.
LEMMA FinallyAccounts ==
    ASSUME IInv, NEW w \in Workers, Finally(w)
    PROVE  /\ count' \in Nat
           /\ CountIsRunning'
           /\ count' = count - 1
           /\ job[w] \in Monitors
<1>. DEFINE m == job[w]
<1>1. m \in Monitors /\ running[m]
  BY DEF IInv, TypeOK, JobMatchesPc, OneRunPerMonitor, Finally
<1>2. IsFiniteSet(Active) /\ m \in Active
  BY <1>1, SubsetFinite DEF Active
<1>3. Active' = Active \ {m}
  BY <1>1 DEF IInv, TypeOK, Finally, Active
<1>4. Cardinality(Active \ {m}) = Cardinality(Active) - 1
  BY <1>2, FS_RemoveElement
<1>5. count = Cardinality(Active) /\ Cardinality(Active \ {m}) \in Nat
  BY SubsetFinite DEF IInv, CountIsRunning, Active
<1>6. count' = count - 1
  BY DEF Finally
<1>7. Cardinality({n \in Monitors : running'[n]}) = count - 1
  BY <1>3, <1>4, <1>5 DEF Active
<1>. QED BY <1>1, <1>4, <1>5, <1>6, <1>7 DEF CountIsRunning

LEMMA WorkerTypeOK ==
    ASSUME IInv, NEW w \in Workers, WorkerStep(w)
    PROVE  TypeOK'
<1>. USE DEF TypeOK, schedVars, processVars, monitorVars
<1>0. TypeOK
  BY DEF IInv
<1>1. ASSUME NEW m \in Monitors, Take(w, m) PROVE TypeOK'
  BY <1>0, <1>1 DEF Take
<1>2. CASE CollectEnds(w)
  <2>1. nextDue' \in [Monitors -> DueTime]
    <3>1. ASSUME NEW d \in Delays,
                 nextDue' = [nextDue EXCEPT ![job[w]] = DueIn(d)]
          PROVE  nextDue' \in [Monitors -> DueTime]
      BY <1>0, <3>1, DueInType, SchedulerAssumption
    <3>. QED BY <1>0, <1>2, <3>1 DEF CollectEnds
  <2>. QED BY <1>0, <1>2, <2>1 DEF CollectEnds
<1>3. CASE CollectRaises(w)
  BY <1>0, <1>3 DEF CollectRaises
<1>4. CASE Finally(w)
  BY <1>0, <1>4, FinallyAccounts DEF Finally
<1>5. CASE WakeAfterRun(w)
  BY <1>0, <1>5 DEF WakeAfterRun
<1>. QED BY <1>1, <1>2, <1>3, <1>4, <1>5 DEF WorkerStep

LEMMA OthersTypeOK ==
    ASSUME TypeOK, Others \/ Tick \/ UNCHANGED vars
    PROVE  TypeOK'
<1>. USE DEF TypeOK, schedVars, processVars, monitorVars, poolVars
<1>1. ASSUME NEW m \in Monitors, ViewLost(m) PROVE TypeOK'
  BY <1>1 DEF ViewLost
<1>2. ASSUME NEW m \in Monitors, ViewSet(m) PROVE TypeOK'
  BY <1>2, SchedulerAssumption DEF ViewSet
<1>3. ASSUME NEW m \in Monitors, DueSet(m) PROVE TypeOK'
  <2>1. PICK d \in Spreads : nextDue' = [nextDue EXCEPT ![m] = DueIn(d)]
    BY <1>3 DEF DueSet
  <2>2. nextDue' \in [Monitors -> DueTime]
    BY <2>1, DueInType, SchedulerAssumption
  <2>. QED BY <1>3, <2>2 DEF DueSet
<1>4. CASE PassEnds
  BY <1>4 DEF PassEnds
<1>5. CASE Signal \/ Shutdown \/ Exit
  BY <1>5 DEF Signal, Shutdown, Exit
<1>6. CASE Tick
  BY <1>6, SchedulerAssumption DEF Tick, Time
<1>7. CASE UNCHANGED vars
  BY <1>7 DEF vars
<1>. QED BY <1>1, <1>2, <1>3, <1>4, <1>5, <1>6, <1>7 DEF Others

-----------------------------------------------------------------------------
(* The accounting.                                                         *)

\* Everything the accounting speaks of but the types.
Accounting == CountIsRunning /\ BatchFits /\ JobMatchesPc /\ OneRunPerMonitor

accountVars == <<running, count, batch, spc, queued, job, wpc, closed>>

LEMMA AccountingFrame == Accounting /\ UNCHANGED accountVars => Accounting'
BY DEF Accounting, accountVars, CountIsRunning, BatchFits, JobMatchesPc,
       OneRunPerMonitor

LEMMA InitAccounting == Init => Accounting
<1>. SUFFICES ASSUME Init PROVE Accounting
  OBVIOUS
<1>1. {m \in Monitors : running[m]} = {} /\ batch = {} /\ count = 0
  BY DEF Init
<1>2. Cardinality({}) = 0
  BY FS_EmptySet
<1>3. CountIsRunning /\ BatchFits
  BY <1>1, <1>2, MaxWorkersNat DEF CountIsRunning, BatchFits, Init
<1>4. JobMatchesPc /\ OneRunPerMonitor
  BY DEF JobMatchesPc, OneRunPerMonitor, Init
<1>. QED BY <1>3, <1>4 DEF Accounting

LEMMA LookAccounting == IInv /\ Look => Accounting'
<1>. SUFFICES ASSUME IInv, Look, ~stop PROVE Accounting'
  <2>1. ASSUME IInv, Look, stop PROVE Accounting'
    <3>1. batch = {} /\ batch' = batch
      BY <2>1 DEF IInv, BatchFits, Look
    <3>. QED BY <2>1, <3>1 DEF IInv, Look, CountIsRunning, BatchFits,
                JobMatchesPc, OneRunPerMonitor, Accounting, poolVars, processVars
  <2>. QED BY <2>1
<1>. DEFINE slots == Most(0, MaxWorkers - count)
<1>1. count \in Nat /\ count <= MaxWorkers /\ slots = MaxWorkers - count /\ slots \in Nat
  <2>1. batch = {}
    BY DEF IInv, BatchFits, Look
  <2>2. Cardinality(batch) = 0
    BY <2>1, FS_EmptySet
  <2>. QED BY <2>2, MaxWorkersNat DEF IInv, TypeOK, BatchFits, Most
<1>2. DueAt(now) \in SUBSET Monitors
  BY DEF DueAt
<1>3. batch' \in MostOverdue(DueAt(now), slots)
  BY DEF Look
<1>4. batch' \subseteq DueAt(now) /\ Cardinality(batch') <= slots
  BY <1>1, <1>2, <1>3, MostOverdueFits
<1>5. Cardinality(batch') \in Nat
  BY <1>2, <1>4, SubsetFinite
<1>6. UNCHANGED <<running, count, queued, job, wpc, closed>> /\ spc' = "submit"
  BY DEF Look, poolVars, processVars
<1>7. BatchFits'
  <2>1. count' + Cardinality(batch') <= MaxWorkers
    BY <1>1, <1>4, <1>5, <1>6, MaxWorkersNat
  <2>2. \A m \in batch' : ~running'[m]
    BY <1>4, <1>6 DEF DueAt
  <2>. QED BY <1>6, <2>1, <2>2 DEF BatchFits, MaxWorkers
<1>. QED BY <1>6, <1>7 DEF IInv, Accounting, CountIsRunning, JobMatchesPc, OneRunPerMonitor

LEMMA SubmitAccounting ==
    ASSUME IInv, NEW m \in Monitors, Submit(m)
    PROVE  Accounting'
<1>1. ~running[m] /\ m \in batch /\ m \notin queued /\ \A w \in Workers : job[w] # m
  BY SchedulerAssumption DEF IInv, TypeOK, BatchFits, OneRunPerMonitor, Submit
<1>2. CountIsRunning'
  <2>1. Active' = Active \cup {m} /\ m \notin Active
    BY <1>1 DEF IInv, TypeOK, Submit, Active
  <2>2. Cardinality(Active \cup {m}) = Cardinality(Active) + 1
    BY <2>1, SubsetFinite, FS_AddElement DEF Active
  <2>. QED BY <2>1, <2>2 DEF IInv, CountIsRunning, Submit, Active
<1>3. BatchFits'
  <2>1. IsFiniteSet(batch) /\ Cardinality(batch) \in Nat
    BY SubsetFinite DEF IInv, TypeOK
  <2>2. Cardinality(batch \ {m}) = Cardinality(batch) - 1
    BY <1>1, <2>1, FS_RemoveElement
  <2>3. Cardinality({}) = 0 /\ Cardinality(batch) >= 1
    <3>1. Cardinality(batch \ {m}) \in Nat
      BY SubsetFinite DEF IInv, TypeOK
    <3>. QED BY <2>1, <2>2, <3>1, FS_EmptySet
  <2>4. count' + Cardinality(batch') <= MaxWorkers
    <3>1. count' = count + 1 /\ (batch' = {} \/ batch' = batch \ {m})
      BY DEF Submit
    <3>2. count \in Nat /\ count + Cardinality(batch) <= MaxWorkers
      BY DEF IInv, TypeOK, BatchFits
    <3>3. CASE batch' = {}
      <4>1. Cardinality(batch') = 0
        BY <3>3, FS_EmptySet
      <4>. QED BY <2>1, <2>3, <3>1, <3>2, <4>1, MaxWorkersNat
    <3>4. CASE batch' = batch \ {m}
      BY <2>1, <2>2, <3>1, <3>2, <3>4, MaxWorkersNat
    <3>. QED BY <3>1, <3>3, <3>4
  <2>5. \A n \in batch' : ~running'[n]
    BY DEF IInv, TypeOK, BatchFits, Submit
  <2>6. spc' # "submit" => batch' = {}
    BY DEF Submit
  <2>. QED BY <2>4, <2>5, <2>6 DEF BatchFits, MaxWorkers
<1>4. JobMatchesPc'
  BY DEF IInv, JobMatchesPc, Submit
<1>5. OneRunPerMonitor'
  BY <1>1 DEF IInv, TypeOK, OneRunPerMonitor, Submit, processVars
<1>. QED BY <1>2, <1>3, <1>4, <1>5 DEF Accounting

\* The rest of the scheduler's thread disturbs none of it.
LEMMA SchedulerRestAccounting == IInv /\ (Sleep \/ WaitReturns \/ Clear) => Accounting'
<1>. SUFFICES ASSUME IInv, Sleep \/ WaitReturns \/ Clear PROVE Accounting'
  OBVIOUS
<1>1. /\ UNCHANGED <<running, count, batch, queued, job, wpc, closed>>
      /\ batch = {}
  BY DEF IInv, BatchFits, Sleep, WaitReturns, Clear, poolVars, processVars
<1>2. CountIsRunning' /\ BatchFits'
  BY <1>1 DEF IInv, CountIsRunning, BatchFits
<1>3. JobMatchesPc' /\ OneRunPerMonitor'
  BY <1>1 DEF IInv, JobMatchesPc, OneRunPerMonitor
<1>. QED BY <1>2, <1>3 DEF Accounting

LEMMA TakeAccounting ==
    ASSUME IInv, NEW w \in Workers, NEW m \in Monitors, Take(w, m)
    PROVE  Accounting'
<1>1. UNCHANGED <<running, count, batch, spc, closed>>
  BY DEF Take, schedVars, processVars
<1>2. CountIsRunning' /\ BatchFits'
  BY <1>1 DEF IInv, CountIsRunning, BatchFits
<1>3. JobMatchesPc'
  BY SchedulerAssumption DEF IInv, TypeOK, JobMatchesPc, Take
<1>4. OneRunPerMonitor'
  <2>1. running[m] /\ \A v \in Workers : job[v] # m
    BY DEF IInv, OneRunPerMonitor, Take
  <2>2. queued' = queued \ {m} /\ job' = [job EXCEPT ![w] = m] /\ job[w] = Idle
    BY DEF IInv, JobMatchesPc, Take
  <2>. QED BY <1>1, <2>1, <2>2, SchedulerAssumption DEF IInv, TypeOK, OneRunPerMonitor
<1>. QED BY <1>2, <1>3, <1>4 DEF Accounting

LEMMA FinallyAccounting ==
    ASSUME IInv, NEW w \in Workers, Finally(w)
    PROVE  Accounting'
<1>1. CountIsRunning' /\ count' = count - 1 /\ job[w] \in Monitors /\ count' \in Nat
  BY FinallyAccounts
<1>2. batch = {} /\ batch' = {} /\ spc' = spc
  BY DEF IInv, BatchFits, Finally, SchedulerLocked
<1>3. BatchFits'
  <2>1. count' + Cardinality({}) <= MaxWorkers
    BY <1>1, <1>2, FS_EmptySet, MaxWorkersNat DEF IInv, TypeOK, BatchFits
  <2>. QED BY <1>2, <2>1 DEF BatchFits, MaxWorkers
<1>4. JobMatchesPc'
  BY DEF IInv, TypeOK, JobMatchesPc, Finally
<1>5. OneRunPerMonitor'
  BY <1>1, SchedulerAssumption DEF IInv, TypeOK, OneRunPerMonitor, Finally, processVars
<1>. QED BY <1>1, <1>3, <1>4, <1>5 DEF Accounting

LEMMA WorkerRestAccounting ==
    ASSUME IInv, NEW w \in Workers,
           CollectEnds(w) \/ CollectRaises(w) \/ WakeAfterRun(w)
    PROVE  Accounting'
<1>1. UNCHANGED <<running, count, batch, spc, queued, job, closed>>
  BY DEF CollectEnds, CollectRaises, WakeAfterRun, schedVars, processVars
<1>2. JobMatchesPc'
  BY DEF IInv, TypeOK, JobMatchesPc, CollectEnds, CollectRaises, WakeAfterRun
<1>. QED BY <1>1, <1>2 DEF IInv, Accounting, CountIsRunning, BatchFits, OneRunPerMonitor

\* A shutdown forgets the queued calls: their flags stay, and the executor is
\* closed.
LEMMA ShutdownAccounting == IInv /\ Shutdown => Accounting'
BY DEF IInv, Accounting, Shutdown, CountIsRunning, BatchFits, JobMatchesPc,
       OneRunPerMonitor

LEMMA OthersAccounting == IInv /\ (Others \/ Tick \/ UNCHANGED vars) => Accounting'
<1>. SUFFICES ASSUME IInv, Others \/ Tick \/ UNCHANGED vars PROVE Accounting'
  OBVIOUS
<1>. USE DEF schedVars, poolVars, processVars, accountVars
<1>1. CASE Shutdown
  BY <1>1, ShutdownAccounting
<1>2. ASSUME NEW m \in Monitors, ViewLost(m) \/ ViewSet(m) \/ DueSet(m)
      PROVE  UNCHANGED accountVars
  BY <1>2 DEF ViewLost, ViewSet, DueSet
<1>3. CASE PassEnds \/ Signal \/ Exit \/ Tick \/ UNCHANGED vars
  BY <1>3, AccountingFrame DEF PassEnds, Signal, Exit, Tick, vars, IInv, Accounting
<1>. QED BY <1>1, <1>2, <1>3, AccountingFrame DEF Others, IInv, Accounting

-----------------------------------------------------------------------------

\* The accounting invariant is inductive.
LEMMA NextIInv == IInv /\ [Next]_vars => IInv'
<1>. SUFFICES ASSUME IInv, [Next]_vars PROVE IInv'
  OBVIOUS
<1>1. CASE SchedulerStep
  BY <1>1, SchedulerTypeOK, LookAccounting, SubmitAccounting, SchedulerRestAccounting
     DEF SchedulerStep, IInv, Accounting
<1>2. ASSUME NEW w \in Workers, WorkerStep(w) PROVE IInv'
  BY <1>2, WorkerTypeOK, TakeAccounting, FinallyAccounting, WorkerRestAccounting
     DEF WorkerStep, IInv, Accounting
<1>3. CASE Others \/ Tick \/ UNCHANGED vars
  BY <1>3, OthersTypeOK, OthersAccounting DEF IInv, Accounting
<1>. QED BY <1>1, <1>2, <1>3 DEF Next, Gone

\* The inductive invariant holds in every state of the specification.
THEOREM SchedulerInvariant == Spec => []IInv
<1>1. Init => IInv
  BY InitTypeOK, InitAccounting DEF IInv, Accounting
<1>. QED BY <1>1, NextIInv, PTL DEF Spec

\* Types are respected whatever the sets of monitors and workers.
THEOREM SchedulerTypes == Spec => []TypeOK
BY SchedulerInvariant, PTL DEF IInv

\* max_concurrent_collections is never exceeded, in any interleaving of the
\* scheduler's steps with the ends of the collections (scheduler.py:78-81, 98-100).
THEOREM SchedulerPoolBounded == Spec => []PoolBounded
<1>1. IInv => PoolBounded
  <2>. SUFFICES ASSUME IInv PROVE PoolBounded
    OBVIOUS
  <2>1. Cardinality(batch) \in Nat
    BY SubsetFinite DEF IInv, TypeOK
  <2>. QED BY <2>1, MaxWorkersNat DEF IInv, TypeOK, BatchFits, PoolBounded
<1>. QED BY <1>1, SchedulerInvariant, PTL

\* No bucket is collected by two threads, or queued while it runs.
THEOREM SchedulerOneRun == Spec => []OneRunPerMonitor
BY SchedulerInvariant, PTL DEF IInv

\* The scheduler implements the bounded pool.
THEOREM SchedulerIsAPool == Spec => PoolImplemented
<1>. DEFINE active == {m \in Monitors : running[m]}
            free == MaxWorkers - count
<1>1. Init => Pool!Init
  BY MaxWorkersNat DEF Init, Pool!Init
<1>2. IInv /\ IInv' /\ [Next]_vars => [Pool!Next]_<<active, free>>
  <2>. SUFFICES ASSUME IInv, IInv', [Next]_vars PROVE [Pool!Next]_<<active, free>>
    OBVIOUS
  <2>0. /\ count \in Nat /\ count' \in Nat
        /\ MaxWorkers' = MaxWorkers
    BY DEF IInv, TypeOK, MaxWorkers
  <2>1. ASSUME NEW m \in Monitors, Submit(m) PROVE Pool!Start(m)
    <3>1. m \in Monitors \ active /\ active' = active \cup {m}
      BY <2>1 DEF IInv, TypeOK, BatchFits, Submit
    <3>2. count' = count + 1
      BY <2>1 DEF Submit
    <3>3. count' <= MaxWorkers
      <4>1. Cardinality(batch') \in Nat
        BY SubsetFinite DEF IInv, TypeOK
      <4>. QED BY <2>0, <4>1, MaxWorkersNat DEF IInv, BatchFits
    <3>4. free > 0 /\ free' = free - 1
      BY <2>0, <3>2, <3>3, MaxWorkersNat
    <3>. QED BY <3>1, <3>4 DEF Pool!Start
  <2>2. ASSUME NEW w \in Workers, Finally(w), NEW b \in Monitors, b = job[w]
        PROVE  Pool!End(b)
    <3>1. b \in active
      BY <2>2 DEF IInv, TypeOK, JobMatchesPc, OneRunPerMonitor, Finally
    <3>2. active' = active \ {b}
      BY <2>2, <3>1 DEF IInv, TypeOK, Finally
    <3>3. free' = free + 1
      BY <2>0, <2>2, MaxWorkersNat DEF Finally
    <3>. QED BY <3>1, <3>2, <3>3 DEF Pool!End
  <2>3. ASSUME UNCHANGED <<running, count>> PROVE UNCHANGED <<active, free>>
    BY <2>0, <2>3
  <2>4. CASE SchedulerStep
    <3>1. Look \/ Sleep \/ WaitReturns \/ Clear => UNCHANGED <<running, count>>
      BY DEF Look, Sleep, WaitReturns, Clear
    <3>2. ASSUME NEW m \in Monitors, Submit(m) PROVE Pool!Next
      BY <2>1, <3>2 DEF Pool!Next
    <3>. QED BY <2>3, <2>4, <3>1, <3>2 DEF SchedulerStep
  <2>5. ASSUME NEW w \in Workers, WorkerStep(w) PROVE [Pool!Next]_<<active, free>>
    <3>1. ASSUME NEW m \in Monitors, Take(w, m) PROVE UNCHANGED <<running, count>>
      BY <3>1 DEF Take, schedVars
    <3>2. CollectEnds(w) \/ CollectRaises(w) \/ WakeAfterRun(w)
             => UNCHANGED <<running, count>>
      BY DEF CollectEnds, CollectRaises, WakeAfterRun, schedVars
    <3>3. CASE Finally(w)
      <4>1. PICK b \in Monitors : b = job[w]
        BY <3>3, FinallyAccounts
      <4>2. Pool!End(b)
        BY <2>2, <3>3, <4>1
      <4>. QED BY <4>2 DEF Pool!Next
    <3>4. CASE UNCHANGED <<running, count>>
      BY <2>3, <3>4
    <3>. QED BY <2>5, <3>1, <3>2, <3>3, <3>4 DEF WorkerStep
  <2>6. CASE Others \/ Tick \/ UNCHANGED vars
    <3>1. ASSUME NEW m \in Monitors, ViewLost(m) \/ ViewSet(m) \/ DueSet(m)
          PROVE  UNCHANGED <<running, count>>
      BY <3>1 DEF ViewLost, ViewSet, DueSet, schedVars
    <3>2. PassEnds \/ Signal \/ Shutdown \/ Exit \/ Tick \/ UNCHANGED vars
             => UNCHANGED <<running, count>>
      BY DEF PassEnds, Signal, Shutdown, Exit, Tick, vars, schedVars
    <3>. QED BY <2>3, <2>6, <3>1, <3>2 DEF Others
  <2>. QED BY <2>4, <2>5, <2>6 DEF Next, Gone
<1>. QED BY <1>1, <1>2, SchedulerInvariant, PTL DEF Spec, PoolImplemented, Pool!Spec

-----------------------------------------------------------------------------
(* No lost wake-up.                                                        *)

\* The wait was cut to the bucket's due time, or to the shortest sleep.
Cut(m) == wakeAt <= Most(nextDue[m], snow + 1) + (asleepAt - snow)

\* Every bucket at rest, due or not, cut the wait unless a wake-up is on its way; a
\* start that has not set its due time yet is one that will announce itself.
Awake ==
    /\ starting # {} => announce
    /\ spc = "wait" /\ ~Pending =>
          \A m \in Monitors : Collectable(m) /\ ~running[m] => Cut(m)

wakeVars == <<configured, nextDue, running, wake, spc, snow, asleepAt, wakeAt, wpc, starting,
              announce, stop>>

LEMMA AwakeFrame == ASSUME Awake, UNCHANGED wakeVars PROVE Awake'
BY DEF Awake, wakeVars, Pending, Collectable, Cut

\* What keeps the waiting thread's reckoning: less buckets at rest, no wake-up taken back.
LEMMA AwakeKept ==
    ASSUME Awake, spc' = "wait" => spc = "wait",
           UNCHANGED <<snow, asleepAt, wakeAt>>,
           starting' # {} => announce',
           Pending => Pending',
           \A m \in Monitors :
               Collectable(m)' /\ ~running'[m] =>
                   Pending' \/ (Collectable(m) /\ ~running[m] /\ nextDue'[m] = nextDue[m])
    PROVE  Awake'
BY DEF Awake, Cut

LEMMA SleepAwake == ASSUME IInv, Awake, Sleep PROVE Awake'
<1>1. /\ snow \in Nat /\ now \in Nat /\ asleepAt' = now /\ snow' = snow
      /\ UNCHANGED <<configured, nextDue, running, starting, announce>>
  BY SchedulerAssumption DEF Sleep, IInv, TypeOK, Time, monitorVars, processVars
<1>2. PICK delay \in SleepFor : wakeAt' = now + delay
  BY DEF Sleep
<1>3. ASSUME NEW m \in Monitors, Collectable(m), ~running[m] PROVE Cut(m)'
  <2>1. nextDue[m] \in {nextDue[k] : k \in {n \in Monitors : Collectable(n) /\ ~running[n]}}
    BY <1>3
  <2>2. PICK t \in DueTime : t <= nextDue[m] /\ delay = Least(MaxSleep, Most(1, t - snow))
    BY <1>2, <2>1 DEF SleepFor, IInv, TypeOK
  <2>3. nextDue[m] \in Int /\ t \in Int /\ MaxSleep \in Int
    BY <2>2, SchedulerAssumption DEF IInv, TypeOK, DueTime
  <2>4. delay <= Most(1, nextDue[m] - snow)
    BY <1>1, <2>2, <2>3 DEF Least, Most
  <2>5. delay \in Int
    BY <1>1, <2>2, <2>3 DEF Least, Most
  <2>6. now + delay <= Most(nextDue[m], snow + 1) + (now - snow)
    BY <1>1, <2>3, <2>4, <2>5 DEF Most
  <2>. QED BY <1>1, <1>2, <2>6 DEF Cut
<1>. QED BY <1>1, <1>3 DEF Awake, Collectable

LEMMA SchedulerAwake == ASSUME IInv, Awake, SchedulerStep PROVE Awake'
<1>1. spc' # "wait" /\ UNCHANGED <<starting, announce>> => Awake'
  BY DEF Awake
<1>2. CASE Look
  BY <1>1, <1>2 DEF Look, monitorVars, processVars
<1>3. ASSUME NEW m \in Monitors, Submit(m) PROVE Awake'
  BY <1>1, <1>3 DEF Submit, monitorVars, processVars
<1>4. CASE WaitReturns \/ Clear
  BY <1>1, <1>4 DEF WaitReturns, Clear, monitorVars, processVars
<1>. QED BY <1>2, <1>3, <1>4, SleepAwake DEF SchedulerStep

LEMMA WorkerAwake == ASSUME IInv, Awake, NEW w \in Workers, WorkerStep(w) PROVE Awake'
<1>. USE DEF schedVars, monitorVars, processVars
<1>0. wpc \in [Workers -> {"idle", "collect", "finally", "wake"}]
  BY DEF IInv, TypeOK
<1>1. ASSUME NEW m \in Monitors, Take(w, m) PROVE Awake'
  <2>1. wpc[w] = "idle" /\ wpc' = [wpc EXCEPT ![w] = "collect"]
    BY <1>1 DEF Take
  <2>2. Pending <=> Pending'
    BY <1>0, <1>1, <2>1 DEF Take, Pending
  <2>. QED BY <1>1, <2>2 DEF Take, Awake, Cut, Collectable
<1>2. CASE CollectEnds(w)
  <2>1. wpc[w] = "collect" /\ wpc' = [wpc EXCEPT ![w] = "finally"]
    BY <1>2 DEF CollectEnds
  <2>2. Pending <=> Pending'
    BY <1>0, <1>2, <2>1 DEF CollectEnds, Pending
  <2>3. job[w] \in Monitors /\ running[job[w]]
    BY <2>1 DEF IInv, TypeOK, JobMatchesPc, OneRunPerMonitor
  <2>4. \A m \in Monitors : ~running[m] => nextDue'[m] = nextDue[m]
    BY <1>2, <2>3 DEF CollectEnds, IInv, TypeOK
  <2>5. \A m \in Monitors : Collectable(m)' /\ ~running'[m] => Collectable(m) /\ ~running[m]
    BY <1>2, <2>4 DEF CollectEnds, Collectable
  <2>. QED BY <1>2, <2>2, <2>4, <2>5, AwakeKept DEF CollectEnds, Awake
<1>3. CASE CollectRaises(w)
  <2>1. wpc[w] = "collect" /\ wpc' = [wpc EXCEPT ![w] = "finally"]
    BY <1>3 DEF CollectRaises
  <2>2. Pending <=> Pending'
    BY <1>0, <1>3, <2>1 DEF CollectRaises, Pending
  <2>. QED BY <1>3, <2>2 DEF CollectRaises, Awake, Cut, Collectable
<1>4. CASE Finally(w)
  <2>1. wpc'[w] = "wake"
    BY <1>0, <1>4 DEF Finally
  <2>. QED BY <1>4, <2>1 DEF Finally, Awake, Pending
<1>5. CASE WakeAfterRun(w)
  BY <1>5 DEF WakeAfterRun, Awake, Pending
<1>. QED BY <1>1, <1>2, <1>3, <1>4, <1>5 DEF WorkerStep

LEMMA OthersAwake == ASSUME IInv, Awake, Others \/ Tick \/ UNCHANGED vars PROVE Awake'
<1>. USE DEF schedVars, poolVars, monitorVars, processVars
<1>1. ASSUME NEW m \in Monitors, ViewLost(m) PROVE Awake'
  <2>1. \A n \in Monitors : configured'[n] => configured[n]
    BY <1>1 DEF ViewLost, IInv, TypeOK
  <2>2. Pending <=> Pending'
    BY <1>1 DEF ViewLost, Pending
  <2>. QED BY <1>1, <2>1, <2>2 DEF ViewLost, Awake, Cut, Collectable
<1>2. ASSUME NEW m \in Monitors, ViewSet(m) PROVE Awake'
  BY <1>2 DEF ViewSet, Awake, Pending
<1>3. ASSUME NEW m \in Monitors, DueSet(m) PROVE Awake'
  <2>1. announce'
    BY <1>3 DEF DueSet, Awake
  <2>. QED BY <1>3, <2>1 DEF Awake, Pending
<1>4. CASE PassEnds
  BY <1>4 DEF PassEnds, Awake, Pending
<1>5. CASE Signal
  BY <1>5 DEF Signal, Awake, Pending
<1>6. CASE Shutdown
  BY <1>6 DEF Shutdown, Awake, Pending
<1>7. CASE Exit \/ Tick \/ UNCHANGED vars
  BY <1>7, AwakeFrame DEF Exit, Tick, vars, wakeVars
<1>. QED BY <1>1, <1>2, <1>3, <1>4, <1>5, <1>6, <1>7 DEF Others

\* scheduler.py:101 the wake-up after a run comes outside the lock, and the scheduler
\* clears the event after its wait: in any interleaving of the two, with any number of
\* buckets, workers, starts and due times, no news of a due bucket is lost.
THEOREM SchedulerNoLostWake == Spec => []NoLostWake
<1>1. Init => Awake
  BY DEF Init, Awake
<1>2. IInv /\ Awake /\ [Next]_vars => Awake'
  BY SchedulerAwake, WorkerAwake, OthersAwake DEF Next, Gone
<1>3. Awake => NoLostWake
  BY DEF Awake, NoLostWake, DueAt, Cut
<1>. QED BY <1>1, <1>2, <1>3, SchedulerInvariant, PTL DEF Spec

-----------------------------------------------------------------------------
(* Turns.                                                                  *)

\* What a step leaves in the history.
LEMMA AheadStep ==
    ASSUME TurnsInOrder, TurnsNext
    PROVE  /\ ahead' \in [Monitors -> SUBSET Monitors]
           /\ \A m \in Monitors : \A o \in ahead'[m] :
                 /\ m \in (DueAt(now) \ starting)' /\ o \notin starting' /\ ~NoTurn(o)
                 /\ o \in ahead[m] \/ (Waits(m) /\ Started(o))
BY DEF TurnsInOrder, TurnsNext

\* A step that starts nobody, moves no due time of a bucket with a turn and no batch.
LEMMA TurnsKept ==
    ASSUME TurnsInOrder, TurnsNext, \A o \in Monitors : ~Started(o),
           \A m \in Monitors : \A o \in ahead[m] \cap ahead'[m] :
               /\ InTurn(o) \/ nextDue[m] < nextDue[o]
                  => InTurn(o)' \/ nextDue'[m] < nextDue'[o]
               /\ o \in batch' => m \in batch'
    PROVE  TurnsInOrder'
BY AheadStep DEF TurnsInOrder

LEMMA LookTurns == ASSUME IInv, TurnsInOrder, TurnsNext, Look PROVE TurnsInOrder'
<1>1. UNCHANGED <<now, nextDue, running, job, wpc, starting, configured>>
  BY DEF Look, monitorVars, poolVars
<1>2. \A o \in Monitors : ~Started(o)
  BY <1>1 DEF Started
<1>3. \A m \in Monitors : nextDue[m] \in Int
  BY SchedulerAssumption DEF IInv, TypeOK, DueTime
<1>4. ASSUME NEW m \in Monitors, NEW o \in ahead[m], o \in batch'
      PROVE  m \in batch'
  <2>1. CASE batch' = batch
    BY <1>4, <2>1 DEF TurnsInOrder
  <2>2. CASE batch' \in MostOverdue(DueAt(now), Most(0, MaxWorkers - count))
    <3>1. batch' \subseteq DueAt(now)
      BY <2>2 DEF MostOverdue
    <3>2. \A c \in batch', n \in DueAt(now) \ batch' : nextDue[c] <= nextDue[n]
      BY <2>2 DEF MostOverdue
    <3>3. ~running[o] /\ o \in Monitors
      BY <1>4, <3>1 DEF DueAt
    <3>4. nextDue[m] < nextDue[o] /\ m \in DueAt(now)
      BY <3>3 DEF TurnsInOrder, InTurn
    <3>. QED BY <1>3, <1>4, <3>2, <3>3, <3>4
  <2>. QED BY <2>1, <2>2 DEF Look
<1>5. \A o \in Monitors : InTurn(o) => InTurn(o)'
  BY <1>1 DEF InTurn
<1>6. \A m \in Monitors : ahead[m] \subseteq Monitors
  BY DEF TurnsInOrder
<1>7. ASSUME NEW m \in Monitors, NEW o \in ahead[m] \cap ahead'[m]
      PROVE  /\ InTurn(o) \/ nextDue[m] < nextDue[o]
                => InTurn(o)' \/ nextDue'[m] < nextDue'[o]
             /\ o \in batch' => m \in batch'
  BY <1>1, <1>4, <1>5, <1>6, <1>7
<1>. QED BY <1>2, <1>7, TurnsKept

LEMMA SubmitTurns ==
    ASSUME IInv, TurnsInOrder, TurnsNext, NEW s \in Monitors, Submit(s)
    PROVE  TurnsInOrder'
<1>1. /\ UNCHANGED <<now, nextDue, job, wpc, starting, configured>>
      /\ s \in batch /\ running' = [running EXCEPT ![s] = TRUE]
      /\ batch' \subseteq batch \ {s}
      /\ batch' = {} \/ batch' = batch \ {s}
  BY DEF Submit, monitorVars, processVars
<1>2. ~running[s] /\ \A w \in Workers : job[w] # s
  BY <1>1, SchedulerAssumption DEF IInv, BatchFits, OneRunPerMonitor
<1>3. \A o \in Monitors : Started(o) <=> o = s
  BY <1>1, <1>2 DEF Started, IInv, TypeOK
<1>4. InTurn(s)'
  BY <1>1, <1>2 DEF InTurn, IInv, TypeOK
<1>5. ASSUME NEW m \in Monitors, NEW o \in ahead'[m]
      PROVE  /\ InTurn(o)' \/ nextDue'[m] < nextDue'[o]
             /\ o \in batch' => m \in batch'
  <2>1. m # s
    <3>1. m \in (DueAt(now))'
      BY <1>5, AheadStep
    <3>2. ~running'[m]
      BY <3>1 DEF DueAt
    <3>. QED BY <1>1, <3>2 DEF IInv, TypeOK
  <2>2. CASE o = s
    BY <1>1, <1>4, <2>2
  <2>3. CASE o # s
    <3>1. o \in ahead[m] /\ o \in Monitors
      BY <1>3, <1>5, <2>3, AheadStep
    <3>2. InTurn(o) => InTurn(o)'
      BY <1>1, <2>3, <3>1 DEF InTurn, IInv, TypeOK
    <3>. QED BY <1>1, <2>1, <2>3, <3>1, <3>2 DEF TurnsInOrder
  <2>. QED BY <2>2, <2>3
<1>. QED BY <1>5, AheadStep DEF TurnsInOrder

LEMMA SchedulerRestTurns ==
    ASSUME IInv, TurnsInOrder, TurnsNext, Sleep \/ WaitReturns \/ Clear
    PROVE  TurnsInOrder'
<1>1. UNCHANGED <<nextDue, running, job, wpc, batch>>
  BY DEF Sleep, WaitReturns, Clear, monitorVars, poolVars
<1>. QED BY <1>1, TurnsKept DEF Started, InTurn, TurnsInOrder

\* A collection that ends leaves its bucket due after now, or it had no turn.
LEMMA EndTurns ==
    ASSUME IInv, TurnsInOrder, TurnsNext, NEW w \in Workers, CollectEnds(w) \/ CollectRaises(w)
    PROVE  TurnsInOrder'
<1>1. /\ UNCHANGED <<now, running, job, batch, starting, configured>>
      /\ wpc[w] = "collect" /\ wpc' = [wpc EXCEPT ![w] = "finally"]
  BY DEF CollectEnds, CollectRaises, schedVars, monitorVars
<1>2. job[w] \in Monitors /\ running[job[w]]
  BY <1>1 DEF IInv, TypeOK, JobMatchesPc, OneRunPerMonitor
<1>3. \A m \in Monitors : m # job[w] => nextDue'[m] = nextDue[m]
  BY <1>2 DEF CollectEnds, CollectRaises, monitorVars, IInv, TypeOK
<1>4. TypeOK'
  <2>1. IInv'
    BY NextIInv DEF TurnsNext
  <2>. QED BY <2>1 DEF IInv
<1>5. ASSUME NEW m \in Monitors, NEW o \in ahead[m] \cap ahead'[m],
             InTurn(o) \/ nextDue[m] < nextDue[o]
      PROVE  InTurn(o)' \/ nextDue'[m] < nextDue'[o]
  <2>1. m \in DueAt(now) /\ m # job[w] /\ nextDue[m] <= now /\ o \in Monitors
    BY <1>2 DEF TurnsInOrder, DueAt
  <2>2. CASE o = job[w]
    <3>1. ~NoTurn(o) /\ wpc'[w] = "finally"
      BY <1>1, AheadStep DEF IInv, TypeOK
    <3>2. ~(nextDue'[o] <= now)
      BY <1>1, <2>2, <3>1 DEF NoTurn
    <3>3. nextDue'[m] = nextDue[m]
      BY <1>3, <2>1
    <3>4. nextDue'[o] \in Int /\ nextDue[m] \in Int /\ now \in Int
      BY <1>4, <2>1, SchedulerAssumption DEF IInv, TypeOK, DueTime, Time
    <3>. QED BY <2>1, <3>2, <3>3, <3>4
  <2>3. CASE o # job[w]
    <3>1. InTurn(o) => InTurn(o)'
      BY <1>1, <2>3 DEF InTurn, IInv, TypeOK
    <3>2. nextDue'[m] = nextDue[m] /\ nextDue'[o] = nextDue[o]
      BY <1>3, <2>1, <2>3
    <3>. QED BY <1>5, <3>1, <3>2
  <2>. QED BY <2>2, <2>3
<1>6. \A m \in Monitors : \A o \in ahead[m] : o \in batch' => m \in batch'
  BY <1>1 DEF TurnsInOrder
<1>7. \A o \in Monitors : ~Started(o)
  BY <1>1 DEF Started
<1>. QED BY <1>5, <1>6, <1>7, TurnsKept

LEMMA WorkerTurns ==
    ASSUME IInv, TurnsInOrder, TurnsNext, NEW w \in Workers, WorkerStep(w)
    PROVE  TurnsInOrder'
<1>1. ASSUME NEW m \in Monitors, Take(w, m) PROVE TurnsInOrder'
  <2>1. UNCHANGED <<nextDue, running, batch>>
        /\ job' = [job EXCEPT ![w] = m] /\ wpc' = [wpc EXCEPT ![w] = "collect"]
    BY <1>1 DEF Take, schedVars
  <2>2. \A o \in Monitors : InTurn(o) => InTurn(o)'
    BY <2>1 DEF InTurn, IInv, TypeOK
  <2>. QED BY <2>1, <2>2, TurnsKept DEF Started, TurnsInOrder
<1>2. CASE Finally(w)
  <2>1. /\ UNCHANGED <<nextDue, batch>> /\ wpc[w] = "finally"
        /\ running' = [running EXCEPT ![job[w]] = FALSE]
        /\ job' = [job EXCEPT ![w] = Idle] /\ wpc' = [wpc EXCEPT ![w] = "wake"]
    BY <1>2 DEF Finally, monitorVars
  <2>2. ASSUME NEW o \in Monitors, InTurn(o) PROVE InTurn(o)'
    <3>1. o # job[w] /\ job[w] \in Monitors /\ o # Idle
      BY <2>1, <2>2, SchedulerAssumption DEF InTurn, IInv, TypeOK, JobMatchesPc
    <3>. QED BY <2>1, <2>2, <3>1 DEF InTurn, IInv, TypeOK
  <2>3. \A o \in Monitors : ~Started(o)
    BY <2>1 DEF Started, IInv, TypeOK
  <2>. QED BY <2>1, <2>2, <2>3, TurnsKept DEF TurnsInOrder
<1>3. CASE WakeAfterRun(w)
  <2>1. /\ UNCHANGED <<nextDue, batch, running, job>> /\ wpc[w] = "wake"
        /\ wpc' = [wpc EXCEPT ![w] = "idle"]
    BY <1>3 DEF WakeAfterRun, monitorVars
  <2>2. \A o \in Monitors : InTurn(o) => InTurn(o)'
    BY <2>1, SchedulerAssumption DEF InTurn, IInv, TypeOK, JobMatchesPc
  <2>. QED BY <2>1, <2>2, TurnsKept DEF Started, TurnsInOrder
<1>. QED BY <1>1, <1>2, <1>3, EndTurns DEF WorkerStep

LEMMA OthersTurns ==
    ASSUME IInv, TurnsInOrder, TurnsNext, Others \/ Tick \/ Gone
    PROVE  TurnsInOrder'
<1>. USE DEF schedVars, poolVars, monitorVars, processVars
<1>1. UNCHANGED <<running, job, wpc, batch>>
  BY DEF Others, ViewLost, ViewSet, DueSet, PassEnds, Signal, Shutdown, Exit, Tick, Gone, vars
<1>2. ASSUME NEW m \in Monitors, NEW o \in ahead[m]
      PROVE  nextDue'[m] = nextDue[m] /\ nextDue'[o] = nextDue[o]
  <2>1. m \notin starting /\ o \notin starting /\ o \in Monitors
    BY DEF TurnsInOrder
  <2>2. ASSUME NEW n \in Monitors, DueSet(n)
        PROVE  \A k \in Monitors \ starting : nextDue'[k] = nextDue[k]
    BY <2>2 DEF DueSet, IInv, TypeOK
  <2>. QED BY <2>1, <2>2
      DEF Others, ViewLost, ViewSet, PassEnds, Signal, Shutdown, Exit, Tick, Gone, vars
<1>. QED BY <1>1, <1>2, TurnsKept DEF Started, InTurn, TurnsInOrder

\* For any number of buckets, workers and due times, and whatever starts, raises or is
\* repointed meanwhile: while a bucket waits overdue, no other has two turns ahead of it.
THEOREM SchedulerNoSecondTurn == TurnsSpec => NoSecondTurnAhead
<1>1. TurnsInit => TurnsInOrder
  BY DEF TurnsInit, TurnsInOrder
<1>2. IInv /\ TurnsInOrder /\ [TurnsNext]_turnsVars => TurnsInOrder'
  <2>. SUFFICES ASSUME IInv, TurnsInOrder, [TurnsNext]_turnsVars PROVE TurnsInOrder'
    OBVIOUS
  <2>1. CASE UNCHANGED turnsVars
    BY <2>1 DEF turnsVars, vars, TurnsInOrder, InTurn, DueAt, Collectable
  <2>2. CASE TurnsNext
    <3>1. Next
      BY <2>2 DEF TurnsNext
    <3>. QED BY <2>2, <3>1, LookTurns, SubmitTurns, SchedulerRestTurns, WorkerTurns, OthersTurns
         DEF Next, SchedulerStep
  <2>. QED BY <2>1, <2>2
<1>3. TurnsSpec => Spec
  <2>1. TurnsInit => Init
    BY DEF TurnsInit
  <2>2. [TurnsNext]_turnsVars => [Next]_vars
    BY DEF TurnsNext, turnsVars
  <2>. QED BY <2>1, <2>2, PTL DEF TurnsSpec, Spec
<1>4. ASSUME IInv, TurnsInOrder, TurnsNext, NEW m \in Monitors, NEW o \in Monitors,
             Started(o), Waits(m)
      PROVE  o \notin ahead[m]
  <2>1. o \in batch
    <3>1. ~running[o] /\ running'[o]
      BY <1>4 DEF Started
    <3>2. PICK s \in Monitors : Submit(s)
      <4>1. ASSUME NEW w \in Workers, Finally(w) PROVE running'[o] => running[o]
        BY <4>1 DEF Finally, IInv, TypeOK
      <4>. QED BY <1>4, <3>1, <4>1 DEF TurnsNext, Next, SchedulerStep, WorkerStep, Others, Gone,
             Look, Sleep, WaitReturns, Clear, Take, CollectEnds, CollectRaises, WakeAfterRun,
             ViewLost, ViewSet, DueSet, PassEnds, Signal, Shutdown, Exit, Tick, vars
    <3>. QED BY <3>1, <3>2 DEF Submit, IInv, TypeOK
  <2>. QED BY <1>4, <2>1 DEF Waits, TurnsInOrder
<1>5. IInv /\ TurnsInOrder /\ [TurnsNext]_turnsVars =>
          [\A m, o \in Monitors : Started(o) /\ Waits(m) => o \notin ahead[m]]_turnsVars
  BY <1>4
<1>. QED BY <1>1, <1>2, <1>3, <1>5, SchedulerInvariant, PTL DEF TurnsSpec, NoSecondTurnAhead

=============================================================================
