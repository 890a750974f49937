--------------------------- MODULE SchedulerTurns ---------------------------
(***************************************************************************)
(* CollectionScheduler with a history variable: the monitors started ahead *)
(* of each monitor while it waits overdue.                                 *)
(***************************************************************************)
EXTENDS CollectionScheduler

VARIABLE ahead

turnsVars == <<vars, ahead>>

Started(m) == ~running[m] /\ running'[m]

\* m waits: due, not running, and this step of the scheduler will not start it.
Waits(m) == m \in DueAt(now) \ (batch \cup starting)

TurnsInit == Init /\ ahead = [m \in Monitors |-> {}]

\* Its collection ends and leaves it due as before (it raised, or its outcome
\* was of a view that is gone): it has had no turn.
NoTurn(m) ==
    \E w \in Workers :
        job[w] = m /\ wpc[w] = "collect" /\ wpc'[w] = "finally" /\ nextDue'[m] <= now

\* A monitor watched from scratch is counted from scratch.
TurnsNext ==
    /\ Next
    /\ ahead' = [m \in Monitors |->
          IF m \notin (DueAt(now) \ starting)' THEN {}
          ELSE (ahead[m] \cup {o \in Monitors : Waits(m) /\ Started(o)})
               \ (starting' \cup {o \in Monitors : NoTurn(o)})]

TurnsSpec == TurnsInit /\ [][TurnsNext]_turnsVars

\* While a bucket waits overdue no other bucket is collected twice ahead of it
\* (scheduler.py:78): the most overdue first, and a bucket's next turn is after now.
NoSecondTurnAhead ==
    [][\A m, o \in Monitors : Started(o) /\ Waits(m) => o \notin ahead[m]]_turnsVars

\* Its collection has yet to end, or was cancelled.
InTurn(o) == running[o] /\ \A w \in Workers : job[w] = o => wpc[w] = "collect"

\* Why: a bucket that had its turn is due after all that waited for it, and no
\* batch takes it without them.
TurnsInOrder ==
    /\ ahead \in [Monitors -> SUBSET Monitors]
    /\ \A m \in Monitors : \A o \in ahead[m] :
          /\ m \in DueAt(now) \ starting /\ o \notin starting
          /\ InTurn(o) \/ nextDue[m] < nextDue[o]
          /\ o \in batch => m \in batch

=============================================================================
