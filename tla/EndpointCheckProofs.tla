------------------------ MODULE EndpointCheckProofs ------------------------
(***************************************************************************)
(* What EndpointCheck guarantees for any number of checks and any schemes: *)
(* its states are well typed, a scrape that shows an endpoint down shows   *)
(* the failure counted, every phase keeps its last figure, and no check    *)
(* leaves a connection open.                                               *)
(***************************************************************************)
EXTENDS EndpointCheck, TLAPS

-----------------------------------------------------------------------------
(* Types.                                                                  *)

LEMMA InitEndpointTypes == EndpointInit => EndpointTypeOK
<1>. SUFFICES ASSUME EndpointInit PROVE EndpointTypeOK
  OBVIOUS
<1>1. 0 \in 0 .. MaxChecks /\ 0 \in Durations
  BY EndpointAssumption DEF Durations, Zero
<1>2. NoResult \in EndpointResults
  BY <1>1 DEF NoResult, EndpointResults, Never, Nothing
<1>3. NotTimed \in [Phases -> Durations] /\ NotTimed \in [Phases -> 0 .. MaxChecks]
  BY <1>1 DEF NotTimed, Never
<1>4. NoFailures \in [Phases -> SUBSET (1 .. MaxChecks)]
  BY DEF NoFailures
<1>. QED BY <1>1, <1>2, <1>3, <1>4 DEF EndpointInit, EndpointTypeOK, Never, Nothing

\* What an attempt and its two ends leave.
LEMMA AttemptTypes ==
    ASSUME EndpointTypeOK, NEW p \in Phases, Attempt(p), check \in 1 .. MaxChecks
    PROVE  /\ timings' \in [Phases -> Durations]
           /\ reached' \in [Phases -> 0 .. MaxChecks]
<1>1. check \in Durations /\ check \in 0 .. MaxChecks
  BY EndpointAssumption DEF Durations, Zero
<1>. QED BY <1>1 DEF EndpointTypeOK, Attempt

LEMMA FailTypes ==
    ASSUME EndpointTypeOK, NEW p \in Phases, Fail(p), check \in 1 .. MaxChecks
    PROVE  /\ failed' \in Phases /\ pc' = "close"
           /\ failures' \in [Phases -> SUBSET (1 .. MaxChecks)]
BY DEF EndpointTypeOK, Fail

\* A check that runs has a number.
Running == pc \in Phases \cup {"context", "close", "publish"} => check \in 1 .. MaxChecks

Typed == EndpointTypeOK /\ Running

LEMMA InitTyped == EndpointInit => Typed
BY InitEndpointTypes DEF EndpointInit, Typed, Running, Phases

LEMMA TimedType ==
    ASSUME EndpointTypeOK
    PROVE  Timed \in [Phases -> Durations]
BY DEF EndpointTypeOK, Timed, EndpointResults

LEMMA StepTyped == Typed /\ [EndpointNext]_endpointVars => Typed'
<1>. SUFFICES ASSUME Typed, [EndpointNext]_endpointVars PROVE Typed'
  OBVIOUS
<1>. USE DEF Typed, Running
<1>1. ASSUME Drop PROVE Typed'
  BY <1>1 DEF Drop, EndpointTypeOK, checking, shown
<1>2. ASSUME Begin PROVE Typed'
  <2>1. check' \in 1 .. MaxChecks /\ check' \in 0 .. MaxChecks
    BY <1>2, EndpointAssumption DEF Begin, EndpointTypeOK
  <2>2. found' \in [addresses : 0 .. MaxChecks, cert : 0 .. MaxChecks]
    BY <1>2 DEF Begin, EndpointTypeOK, EndpointResults
  <2>3. timings' \in [Phases -> Durations]
    BY <1>2, EndpointAssumption DEF Begin, NotTimed, Never, Durations, Zero
  <2>. QED BY <1>2, <2>1, <2>2, <2>3 DEF Begin, EndpointTypeOK, Phases, shown
<1>3. ASSUME End PROVE Typed'
  BY <1>3 DEF End, EndpointTypeOK, Phases, checking, shown
<1>4. ASSUME Resolve PROVE Typed'
  <2>1. check \in 1 .. MaxChecks /\ "dns" \in Phases /\ Attempt("dns")
    BY <1>4 DEF Resolve, Phases
  <2>2. timings' \in [Phases -> Durations] /\ reached' \in [Phases -> 0 .. MaxChecks]
    BY <2>1, AttemptTypes
  <2>3. CASE Fail("dns") /\ UNCHANGED found
    BY <1>4, <2>1, <2>2, <2>3, FailTypes DEF Resolve, EndpointTypeOK, shown
  <2>4. CASE Pass("tcp") /\ found' = [found EXCEPT !.addresses = check]
    BY <1>4, <2>1, <2>2, <2>4 DEF Resolve, Pass, EndpointTypeOK, Phases, shown
  <2>. QED BY <1>4, <2>3, <2>4 DEF Resolve
<1>5. ASSUME Connect PROVE Typed'
  <2>1. check \in 1 .. MaxChecks /\ "tcp" \in Phases /\ Attempt("tcp")
    BY <1>5 DEF Connect, Phases
  <2>2. timings' \in [Phases -> Durations] /\ reached' \in [Phases -> 0 .. MaxChecks]
    BY <2>1, AttemptTypes
  <2>3. CASE Fail("tcp") /\ UNCHANGED sock
    BY <1>5, <2>1, <2>2, <2>3, FailTypes DEF Connect, EndpointTypeOK, shown
  <2>4. CASE Pass(IF scheme = "https" THEN "context" ELSE "close") /\ sock' = "plain"
    BY <1>5, <2>1, <2>2, <2>4 DEF Connect, Pass, EndpointTypeOK, Phases, shown
  <2>. QED BY <1>5, <2>3, <2>4 DEF Connect
<1>6. ASSUME Context PROVE Typed'
  <2>1. check \in 1 .. MaxChecks /\ "tls" \in Phases
    BY <1>6 DEF Context, Phases
  <2>2. CASE Pass("tls") /\ context' = TRUE /\ UNCHANGED timings
    BY <1>6, <2>1, <2>2 DEF Context, Pass, EndpointTypeOK, Phases, shown
  <2>3. CASE /\ Fail("tls") /\ timings' = [timings EXCEPT !["tls"] = Zero]
             /\ UNCHANGED context
    <3>1. Zero \in Durations
      BY EndpointAssumption DEF Durations, Zero
    <3>2. timings' \in [Phases -> Durations]
      BY <2>3, <3>1 DEF EndpointTypeOK
    <3>. QED BY <1>6, <2>1, <2>3, <3>2, FailTypes DEF Context, EndpointTypeOK, shown
  <2>. QED BY <1>6, <2>2, <2>3 DEF Context
<1>7. ASSUME Handshake PROVE Typed'
  <2>1. check \in 1 .. MaxChecks /\ "tls" \in Phases /\ Attempt("tls")
    BY <1>7 DEF Handshake, Phases
  <2>2. timings' \in [Phases -> Durations] /\ reached' \in [Phases -> 0 .. MaxChecks]
    BY <2>1, AttemptTypes
  <2>3. CASE Fail("tls") /\ sock' = "none" /\ UNCHANGED found
    BY <1>7, <2>1, <2>2, <2>3, FailTypes DEF Handshake, EndpointTypeOK, shown
  <2>4. CASE /\ Pass("close") /\ sock' = "tls"
             /\ \E cert \in {found.cert, check} : found' = [found EXCEPT !.cert = cert]
    <3>1. found' \in [addresses : 0 .. MaxChecks, cert : 0 .. MaxChecks]
      BY <2>1, <2>4 DEF EndpointTypeOK
    <3>. QED BY <1>7, <2>1, <2>2, <2>4, <3>1 DEF Handshake, Pass, EndpointTypeOK, shown
  <2>. QED BY <1>7, <2>3, <2>4 DEF Handshake
<1>8. ASSUME Close PROVE Typed'
  BY <1>8 DEF Close, EndpointTypeOK, shown
<1>9. ASSUME Publish PROVE Typed'
  <2>1. check \in 0 .. MaxChecks /\ Timed \in [Phases -> Durations]
    BY TimedType DEF EndpointTypeOK
  <2>2. Outcome(Timed) \in EndpointResults
    BY <2>1 DEF Outcome, EndpointResults, EndpointTypeOK
  <2>. QED BY <1>9, <2>2 DEF Publish, EndpointTypeOK, Phases, checking, shown
<1>10. ASSUME Rows \/ RowsAgain PROVE Typed'
  <2>1. seen' \in [result : EndpointResults, failures : [Phases -> SUBSET (1 .. MaxChecks)]]
    <3>1. NoResult \in EndpointResults
      BY EndpointAssumption DEF NoResult, EndpointResults, Never, Nothing, Durations, Zero
    <3>. QED BY <1>10, <3>1 DEF Rows, RowsAgain, NoFailures, EndpointTypeOK
  <2>. QED BY <1>10, <2>1 DEF Rows, RowsAgain, EndpointTypeOK, checking
<1>11. ASSUME UNCHANGED endpointVars PROVE Typed'
  BY <1>11 DEF endpointVars, checking, shown, EndpointTypeOK
<1>. QED
  BY <1>1, <1>2, <1>3, <1>4, <1>5, <1>6, <1>7, <1>8, <1>9, <1>10, <1>11
  DEF EndpointNext, Thread

LEMMA EndpointTyped == EndpointSpec => []Typed
BY InitTyped, StepTyped, PTL DEF EndpointSpec

\* Every state is well typed: what is published of a check is of a check that began.
THEOREM EndpointTypes == EndpointSpec => []EndpointTypeOK
<1>1. Typed => EndpointTypeOK
  BY DEF Typed
<1>. QED BY <1>1, EndpointTyped, PTL

-----------------------------------------------------------------------------
(* A failure is counted before it is published, and a scrape reads the     *)
(* result before the counters, which only grow.                            *)

\* A result that shows a failure, against these counters.
CountedIn(r, counters) ==
    r.of # Never => /\ r.up <=> r.failed = Nothing
                    /\ ~r.up => r.of \in counters[r.failed]

Counting ==
    /\ failed # Nothing => check \in failures[failed]
    /\ CountedIn(result, failures)
    /\ rows # "idle" => CountedIn(seen.result, failures)
    /\ rows = "done" => CountedIn(seen.result, seen.failures)

CountInv == Typed /\ Counting

\* The counters only grow, by the check under way.
LEMMA CountersGrow ==
    ASSUME Typed, [EndpointNext]_endpointVars, NEW p \in Phases
    PROVE  failures[p] \subseteq failures'[p]
<1>. USE DEF Typed, EndpointTypeOK
<1>1. CASE UNCHANGED failures
  BY <1>1
<1>2. CASE \E q \in Phases : Fail(q)
  BY <1>2 DEF Fail
<1>3. UNCHANGED failures \/ \E q \in Phases : Fail(q)
  BY DEF EndpointNext, Thread, Drop, Begin, End, Resolve, Connect, Context, Handshake,
         Close, Publish, Rows, RowsAgain, Pass, endpointVars, Phases
<1>. QED BY <1>1, <1>2, <1>3

LEMMA StillCounted ==
    ASSUME Typed, [EndpointNext]_endpointVars, NEW r \in EndpointResults, CountedIn(r, failures)
    PROVE  CountedIn(r, failures')
<1>1. r.up \/ r.of = Never \/ r.failed \in Phases
  BY DEF CountedIn, EndpointResults
<1>. QED BY <1>1, CountersGrow DEF CountedIn

LEMMA InitCounting == EndpointInit => Counting
BY DEF EndpointInit, Counting, CountedIn, NoResult

LEMMA StepCounting == CountInv /\ [EndpointNext]_endpointVars => CountInv'
<1>. SUFFICES ASSUME CountInv, [EndpointNext]_endpointVars PROVE CountInv'
  OBVIOUS
<1>1. Typed /\ Typed'
  BY StepTyped DEF CountInv
<1>2. Counting
  BY DEF CountInv
<1>3. failed' # Nothing => check' \in failures'[failed']
  <2>1. CASE UNCHANGED <<failed, check>>
    <3>1. failed # Nothing => failed \in Phases
      BY <1>1 DEF Typed, EndpointTypeOK
    <3>. QED BY <1>1, <1>2, <2>1, <3>1, CountersGrow DEF Counting
  <2>2. CASE \E q \in Phases : Fail(q) /\ UNCHANGED check
    BY <1>1, <2>2 DEF Fail, Typed, EndpointTypeOK
  <2>3. CASE Begin
    BY <2>3 DEF Begin
  <2>4. UNCHANGED <<failed, check>> \/ Begin \/ \E q \in Phases : Fail(q) /\ UNCHANGED check
    BY DEF EndpointNext, Thread, Drop, End, Resolve, Connect, Context, Handshake, Close,
           Publish, Rows, RowsAgain, Pass, endpointVars, Phases, checking
  <2>. QED BY <2>1, <2>2, <2>3, <2>4
<1>4. CountedIn(result', failures')
  <2>1. CASE UNCHANGED result
    <3>1. result \in EndpointResults
      BY <1>1 DEF Typed, EndpointTypeOK
    <3>. QED BY <1>1, <1>2, <2>1, <3>1, StillCounted DEF Counting
  <2>2. CASE Publish
    BY <1>2, <2>2 DEF Publish, Outcome, Counting, CountedIn, checking
  <2>3. UNCHANGED result \/ Publish
    BY DEF EndpointNext, Thread, Drop, Begin, End, Resolve, Connect, Context, Handshake,
           Close, Rows, RowsAgain, endpointVars
  <2>. QED BY <2>1, <2>2, <2>3
<1>5. /\ rows' # "idle" => CountedIn(seen'.result, failures')
      /\ rows' = "done" => CountedIn(seen'.result, seen'.failures)
  <2>1. CASE UNCHANGED shown
    <3>1. seen.result \in EndpointResults
      BY <1>1 DEF Typed, EndpointTypeOK
    <3>2. seen' = seen /\ rows' = rows
      BY <2>1 DEF shown
    <3>. QED BY <1>1, <1>2, <3>1, <3>2, StillCounted DEF Counting
  <2>2. CASE rows = "idle" /\ Rows
    <3>1. /\ rows' = "result" /\ seen' = [seen EXCEPT !.result = result]
          /\ failures' = failures
      BY <2>2 DEF Rows
    <3>2. seen'.result = result
      BY <1>1, <3>1 DEF Typed, EndpointTypeOK
    <3>. QED BY <1>2, <3>1, <3>2 DEF Counting
  <2>3. CASE rows = "result" /\ Rows
    <3>1. /\ rows' = "done" /\ seen' = [seen EXCEPT !.failures = failures]
          /\ failures' = failures
      BY <2>3 DEF Rows
    <3>2. seen'.result = seen.result /\ seen'.failures = failures
      BY <1>1, <3>1 DEF Typed, EndpointTypeOK
    <3>3. CountedIn(seen.result, failures)
      BY <1>2, <2>3 DEF Counting
    <3>. QED BY <3>1, <3>2, <3>3
  <2>4. CASE RowsAgain
    BY <2>4 DEF RowsAgain
  <2>5. UNCHANGED shown \/ Rows \/ RowsAgain
    BY DEF EndpointNext, Thread, Drop, Begin, End, Resolve, Connect, Context, Handshake,
           Close, Publish, endpointVars
  <2>6. Rows => rows \in {"idle", "result"}
    BY DEF Rows
  <2>. QED BY <2>1, <2>2, <2>3, <2>4, <2>5, <2>6
<1>. QED BY <1>1, <1>3, <1>4, <1>5 DEF CountInv, Counting

\* An endpoint is never shown down with its failure not counted, for any number of
\* checks and however the scrapes interleave with them.
THEOREM EndpointDownIsCounted == EndpointSpec => []DownIsCounted
<1>1. EndpointInit => CountInv
  BY InitTyped, InitCounting DEF CountInv
<1>2. CountInv => DownIsCounted
  BY DEF CountInv, Counting, CountedIn, DownIsCounted
<1>. QED BY <1>1, <1>2, StepCounting, PTL DEF EndpointSpec

-----------------------------------------------------------------------------
(* What a phase shows.                                                     *)

\* A duration shown of a phase is of the last check that reached it.
OfLastReached(p, seconds) ==
    \/ seconds = reached[p]
    \/ p = "tls" /\ reached[p] = Never /\ seconds = Zero

Measured ==
    /\ pc \in {"wait", "ended"} => \A p \in Phases : OfLastReached(p, result.seconds[p])
    /\ pc \notin {"wait", "ended"} => \A p \in Phases : OfLastReached(p, Timed[p])
    /\ ~context => reached["tls"] = Never
    /\ pc = "tls" => context

FigureInv == Typed /\ Measured

LEMMA InitFigures == EndpointInit => Measured
BY DEF EndpointInit, Measured, OfLastReached, NoResult, NotTimed, Phases

\* A phase that was just attempted is timed as this check, the others as before.
LEMMA AttemptFigures ==
    ASSUME Typed, NEW p \in Phases, Attempt(p), UNCHANGED <<result, check>>,
           check \in 1 .. MaxChecks,
           \A q \in Phases : OfLastReached(q, Timed[q])
    PROVE  /\ \A q \in Phases : OfLastReached(q, Timed[q])'
           /\ \A q \in Phases \ {p} : reached'[q] = reached[q]
<1>1. /\ timings' = [timings EXCEPT ![p] = check]
      /\ reached' = [reached EXCEPT ![p] = check]
  BY DEF Attempt
<1>2. check # Never
  BY DEF Never
<1>3. ASSUME NEW q \in Phases
      PROVE  /\ OfLastReached(q, Timed[q])'
             /\ q # p => reached'[q] = reached[q]
  <2>1. Timed'[q] = IF timings'[q] = Never THEN result.seconds[q] ELSE timings'[q]
    BY DEF Timed
  <2>2. CASE q = p
    BY <1>1, <1>2, <2>1, <2>2 DEF Typed, EndpointTypeOK, OfLastReached
  <2>3. CASE q # p
    <3>1. timings'[q] = timings[q] /\ reached'[q] = reached[q]
      BY <1>1, <2>3 DEF Typed, EndpointTypeOK
    <3>2. Timed'[q] = Timed[q]
      BY <2>1, <3>1 DEF Timed
    <3>. QED BY <3>1, <3>2 DEF OfLastReached
  <2>. QED BY <2>2, <2>3
<1>. QED BY <1>3

LEMMA StepFigures == FigureInv /\ [EndpointNext]_endpointVars => FigureInv'
<1>. SUFFICES ASSUME FigureInv, [EndpointNext]_endpointVars PROVE FigureInv'
  OBVIOUS
<1>1. Typed /\ Typed' /\ Measured
  BY StepTyped DEF FigureInv
<1>2. ASSUME Drop \/ End \/ Rows \/ RowsAgain \/ UNCHANGED endpointVars PROVE Measured'
  <2>1. /\ UNCHANGED <<timings, reached, context, result>>
        /\ pc' = pc \/ (pc = "wait" /\ pc' = "ended")
    BY <1>2 DEF Drop, End, Rows, RowsAgain, endpointVars, checking
  <2>2. Timed' = Timed
    BY <2>1 DEF Timed
  <2>. QED BY <1>1, <2>1, <2>2 DEF Measured, OfLastReached
<1>3. ASSUME Begin PROVE Measured'
  <2>1. /\ pc = "wait" /\ pc' = "dns" /\ timings' = NotTimed
        /\ UNCHANGED <<result, reached, context>>
    BY <1>3 DEF Begin
  <2>2. \A p \in Phases : Timed'[p] = result.seconds[p]
    BY <2>1 DEF Timed, NotTimed
  <2>. QED BY <1>1, <2>1, <2>2 DEF Measured, OfLastReached
<1>4. ASSUME Resolve \/ Connect PROVE Measured'
  <2>1. PICK p \in {"dns", "tcp"} :
          /\ Attempt(p) /\ UNCHANGED <<check, result, context>>
          /\ pc = p /\ pc' \in {"tcp", "context", "close"}
    BY <1>4 DEF Resolve, Connect, Pass, Fail
  <2>2. check \in 1 .. MaxChecks /\ p \in Phases
    BY <1>1, <2>1 DEF Typed, Running, Phases
  <2>3. \A q \in Phases : OfLastReached(q, Timed[q])
    BY <1>1, <2>1 DEF Measured
  <2>4. /\ \A q \in Phases : OfLastReached(q, Timed[q])'
        /\ \A q \in Phases \ {p} : reached'[q] = reached[q]
    BY <1>1, <2>1, <2>2, <2>3, AttemptFigures
  <2>5. reached'["tls"] = reached["tls"]
    BY <2>1, <2>4 DEF Phases
  <2>. QED BY <1>1, <2>1, <2>4, <2>5 DEF Measured
<1>5. ASSUME Context PROVE Measured'
  <2>1. /\ pc = "context" /\ UNCHANGED <<result, reached>>
    BY <1>5 DEF Context
  <2>2. CASE Pass("tls") /\ context' = TRUE /\ UNCHANGED timings
    <3>1. Timed' = Timed
      BY <2>1, <2>2 DEF Timed
    <3>. QED BY <1>1, <2>1, <2>2, <3>1 DEF Measured, OfLastReached, Pass
  <2>3. CASE /\ ~context /\ Fail("tls")
             /\ timings' = [timings EXCEPT !["tls"] = Zero] /\ UNCHANGED context
    <3>1. Zero # Never
      BY EndpointAssumption DEF Zero, Never
    <3>2. Timed' = [Timed EXCEPT !["tls"] = Zero]
      BY <1>1, <2>1, <2>3, <3>1 DEF Timed, Typed, EndpointTypeOK, Phases
    <3>3. reached["tls"] = Never
      BY <1>1, <2>3 DEF Measured
    <3>4. ASSUME NEW p \in Phases PROVE OfLastReached(p, Timed[p])'
      <4>1. OfLastReached(p, Timed[p])
        BY <1>1, <2>1 DEF Measured
      <4>2. p # "tls" => Timed'[p] = Timed[p]
        BY <3>2 DEF Timed
      <4>3. Timed'["tls"] = Zero
        BY <3>2 DEF Timed, Phases
      <4>. QED BY <2>1, <3>3, <4>1, <4>2, <4>3 DEF OfLastReached
    <3>. QED BY <2>1, <2>3, <3>3, <3>4 DEF Measured, Fail
  <2>. QED BY <1>5, <2>2, <2>3 DEF Context
<1>6. ASSUME Handshake PROVE Measured'
  <2>1. /\ Attempt("tls") /\ UNCHANGED <<check, result, context>>
        /\ pc = "tls" /\ pc' = "close"
    BY <1>6 DEF Handshake, Pass, Fail
  <2>2. check \in 1 .. MaxChecks /\ "tls" \in Phases /\ context
    BY <1>1, <2>1 DEF Typed, Running, Phases, Measured
  <2>3. \A q \in Phases : OfLastReached(q, Timed[q])
    BY <1>1, <2>1 DEF Measured
  <2>4. \A q \in Phases : OfLastReached(q, Timed[q])'
    BY <1>1, <2>1, <2>2, <2>3, AttemptFigures
  <2>. QED BY <2>1, <2>2, <2>4 DEF Measured
<1>7. ASSUME Close PROVE Measured'
  <2>1. pc = "close" /\ pc' = "publish" /\ UNCHANGED <<timings, reached, context, result>>
    BY <1>7 DEF Close
  <2>2. Timed' = Timed
    BY <2>1 DEF Timed
  <2>. QED BY <1>1, <2>1, <2>2 DEF Measured, OfLastReached
<1>8. ASSUME Publish PROVE Measured'
  <2>1. pc = "publish" /\ pc' = "wait" /\ UNCHANGED <<reached, context>>
        /\ result'.seconds = Timed
    BY <1>8 DEF Publish, Outcome, checking
  <2>. QED BY <1>1, <2>1 DEF Measured, OfLastReached
<1>. QED
  BY <1>1, <1>2, <1>3, <1>4, <1>5, <1>6, <1>7, <1>8 DEF FigureInv, EndpointNext, Thread

\* What is published of a phase is what the last check that reached it measured, but
\* for the handshake of a bundle that never loaded.
THEOREM EndpointPhaseKeepsItsFigure == EndpointSpec => []PhaseKeepsItsFigure
<1>1. EndpointInit => FigureInv
  BY InitTyped, InitFigures DEF FigureInv
<1>2. FigureInv => PhaseKeepsItsFigure
  BY DEF FigureInv, Measured, OfLastReached, PhaseKeepsItsFigure
<1>. QED BY <1>1, <1>2, StepFigures, PTL DEF EndpointSpec

-----------------------------------------------------------------------------
(* Connections.                                                            *)

\* No connection before the second phase, and none after close.
Connections == pc \in {"wait", "dns", "tcp", "publish", "ended"} => sock = "none"

\* Whichever way a check ends (a name unknown, no address that answers, a bundle that
\* does not load, a handshake refused, a registry that dropped the checker meanwhile),
\* no connection is left open.
THEOREM EndpointNoConnectionLeft == EndpointSpec => []NoConnectionLeft
<1>1. EndpointInit => Connections
  BY DEF EndpointInit, Connections
<1>2. Connections /\ [EndpointNext]_endpointVars => Connections'
  BY DEF Connections, EndpointNext, Thread, Drop, Begin, End, Resolve, Connect, Context,
         Handshake, Close, Publish, Rows, RowsAgain, Pass, Fail, endpointVars, checking
<1>3. Connections => NoConnectionLeft
  BY DEF Connections, NoConnectionLeft
<1>. QED BY <1>1, <1>2, <1>3, PTL DEF EndpointSpec

=============================================================================
