--------------------------- MODULE EndpointCheck ---------------------------
(***************************************************************************)
(* endpoints.py: one endpoint checked on a thread of its own, phase by     *)
(* phase, by a checker the registry may drop at any point, while a scrape  *)
(* reads its figures.  What a check measures (a duration, the addresses, a *)
(* certificate's end) stands for the number of the check; a counter stands *)
(* for the set of the checks it counted.                                   *)
(***************************************************************************)
EXTENDS Naturals

CONSTANTS
    MaxChecks,  \* bound: checks of one checker
    Schemes     \* the schemes an endpoint may have, among "http" and "https"

ASSUME EndpointAssumption ==
    MaxChecks \in Nat /\ Schemes \subseteq {"http", "https"}

Never == 0  \* no check: nothing measured yet
Zero == MaxChecks + 1  \* the duration 0.0, which no check measured

VARIABLES
    scheme,    \* of the endpoint
    pc,        \* where the thread is
    dropped,   \* the registry's stop event for this checker
    check,     \* the check under way, or the last one
    timings,   \* the phases this check timed so far, and as what
    found,     \* addresses and certificate, as this check leaves them
    failed,    \* the phase that failed in this check, if any
    sock,      \* the connection the check holds
    context,   \* whether the TLS context is built
    failures,  \* _failures_total
    result,    \* _result
    reached,   \* history: the last check that attempted each phase
    rows,      \* where the scrape is
    seen       \* what it read

checking == <<check, timings, found, failed, sock, context, reached>>
shown == <<rows, seen>>
endpointVars == <<scheme, pc, dropped, checking, failures, result, shown>>

Phases == {"dns", "tcp", "tls"}
Nothing == "none"

Durations == 0 .. Zero
EndpointResults ==
    [up : BOOLEAN, of : 0 .. MaxChecks, failed : Phases \cup {Nothing},
     addresses : 0 .. MaxChecks, cert : 0 .. MaxChecks, seconds : [Phases -> Durations]]

EndpointTypeOK ==
    /\ scheme \in Schemes
    /\ pc \in Phases \cup {"wait", "context", "close", "publish", "ended"}
    /\ dropped \in BOOLEAN /\ context \in BOOLEAN
    /\ check \in 0 .. MaxChecks
    /\ timings \in [Phases -> Durations]
    /\ found \in [addresses : 0 .. MaxChecks, cert : 0 .. MaxChecks]
    /\ failed \in Phases \cup {Nothing}
    /\ sock \in {"none", "plain", "tls"}
    /\ failures \in [Phases -> SUBSET (1 .. MaxChecks)]
    /\ result \in EndpointResults
    /\ reached \in [Phases -> 0 .. MaxChecks]
    /\ rows \in {"idle", "result", "done"}
    /\ seen \in [result : EndpointResults, failures : [Phases -> SUBSET (1 .. MaxChecks)]]

NoResult ==
    [up |-> FALSE, of |-> Never, failed |-> Nothing, addresses |-> Never,
     cert |-> Never, seconds |-> [p \in Phases |-> Never]]

NotTimed == [p \in Phases |-> Never]
NoFailures == [p \in Phases |-> {}]

EndpointInit ==
    /\ scheme \in Schemes
    /\ pc = "wait" /\ dropped = FALSE /\ check = Never
    /\ timings = NotTimed /\ found = [addresses |-> Never, cert |-> Never]
    /\ failed = Nothing /\ sock = "none" /\ context = FALSE
    /\ failures = NoFailures /\ result = NoResult /\ reached = NotTimed
    /\ rows = "idle" /\ seen = [result |-> NoResult, failures |-> NoFailures]

-----------------------------------------------------------------------------
(* The registry: sync drops a checker it no longer wants, stop all of them. *)

Drop ==
    /\ ~dropped /\ dropped' = TRUE
    /\ UNCHANGED <<scheme, pc, checking, failures, result, shown>>

-----------------------------------------------------------------------------
(* run_until and check_once.                                               *)

Begin ==
    /\ pc = "wait" /\ ~dropped /\ check < MaxChecks
    /\ pc' = "dns" /\ check' = check + 1
    /\ timings' = NotTimed /\ failed' = Nothing
    /\ found' = [addresses |-> result.addresses, cert |-> result.cert]
    /\ UNCHANGED <<scheme, dropped, sock, context, reached, failures, result, shown>>

End ==
    /\ pc = "wait" /\ dropped /\ pc' = "ended"
    /\ UNCHANGED <<scheme, dropped, checking, failures, result, shown>>

\* _phase: an attempt is timed whether it passes or fails.
Attempt(p) == timings' = [timings EXCEPT ![p] = check] /\ reached' = [reached EXCEPT ![p] = check]

\* The failure is counted before anything is published.
Fail(p) ==
    /\ failed' = p /\ pc' = "close"
    /\ failures' = [failures EXCEPT ![p] = @ \cup {check}]

Pass(next) == pc' = next /\ UNCHANGED <<failed, failures>>

Resolve ==
    /\ pc = "dns" /\ Attempt("dns")
    /\ \/ Pass("tcp") /\ found' = [found EXCEPT !.addresses = check]
       \/ Fail("dns") /\ UNCHANGED found
    /\ UNCHANGED <<scheme, dropped, check, sock, context, result, shown>>

\* _connect closes the socket of every address that did not answer.
Connect ==
    /\ pc = "tcp" /\ Attempt("tcp")
    /\ \/ Pass(IF scheme = "https" THEN "context" ELSE "close") /\ sock' = "plain"
       \/ Fail("tcp") /\ UNCHANGED sock
    /\ UNCHANGED <<scheme, dropped, check, found, context, result, shown>>

\* _context: built once; a CA bundle that cannot be loaded fails the phase, as
\* one that took no time, with the connection still the check's.
Context ==
    /\ pc = "context"
    /\ \/ Pass("tls") /\ context' = TRUE /\ UNCHANGED timings
       \/ /\ ~context /\ Fail("tls")
          /\ timings' = [timings EXCEPT !["tls"] = Zero]
          /\ UNCHANGED context
    /\ UNCHANGED <<scheme, dropped, check, found, sock, reached, result, shown>>

\* wrap_socket takes the connection over, and closes it when it fails.
Handshake ==
    /\ pc = "tls" /\ Attempt("tls")
    /\ \/ /\ Pass("close") /\ sock' = "tls"
          /\ \E cert \in {found.cert, check} : found' = [found EXCEPT !.cert = cert]
       \/ Fail("tls") /\ sock' = "none" /\ UNCHANGED found
    /\ UNCHANGED <<scheme, dropped, check, context, result, shown>>

Close ==
    /\ pc = "close" /\ pc' = "publish"
    /\ sock' = "none"
    /\ UNCHANGED <<scheme, dropped, check, timings, found, failed, context, reached,
                   failures, result, shown>>

Outcome(seconds) ==
    [up |-> failed = Nothing, of |-> check, failed |-> failed,
     addresses |-> found.addresses, cert |-> found.cert, seconds |-> seconds]

\* replace(previous, ...): a phase this check did not time keeps its duration.
Timed == [p \in Phases |-> IF timings[p] = Never THEN result.seconds[p] ELSE timings[p]]

\* Mutant: the result is built from nothing.
PublishFresh ==
    /\ pc = "publish" /\ pc' = "wait"
    /\ result' = Outcome(timings)
    /\ UNCHANGED <<scheme, dropped, checking, failures, shown>>

Publish ==
    /\ pc = "publish" /\ pc' = "wait"
    /\ result' = Outcome(Timed)
    /\ UNCHANGED <<scheme, dropped, checking, failures, shown>>

Thread ==
    \/ Begin \/ End
    \/ Resolve \/ Connect \/ Context \/ Handshake
    \/ Close \/ Publish

-----------------------------------------------------------------------------
(* rows, in the thread of a scrape: the result, then the counters.         *)

\* Mutant: the counters, then the result.
RowsReversed ==
    /\ \/ /\ rows = "idle" /\ rows' = "result"
          /\ seen' = [seen EXCEPT !.failures = failures]
       \/ /\ rows = "result" /\ rows' = "done"
          /\ seen' = [seen EXCEPT !.result = result]
    /\ UNCHANGED <<scheme, pc, dropped, checking, failures, result>>

Rows ==
    /\ \/ /\ rows = "idle" /\ rows' = "result"
          /\ seen' = [seen EXCEPT !.result = result]
       \/ /\ rows = "result" /\ rows' = "done"
          /\ seen' = [seen EXCEPT !.failures = failures]
    /\ UNCHANGED <<scheme, pc, dropped, checking, failures, result>>

\* The next scrape.
RowsAgain ==
    /\ rows = "done" /\ rows' = "idle"
    /\ seen' = [result |-> NoResult, failures |-> NoFailures]
    /\ UNCHANGED <<scheme, pc, dropped, checking, failures, result>>

-----------------------------------------------------------------------------

EndpointNext == Drop \/ Thread \/ Rows \/ RowsAgain

EndpointSpec == EndpointInit /\ [][EndpointNext]_endpointVars

-----------------------------------------------------------------------------
(* Properties.                                                             *)

\* endpoints.py:369 a scrape that shows an endpoint down at a phase shows that
\* failure counted too, however the check and the scrape interleave: an alert on
\* the counters sees every outage the gauge showed.
DownIsCounted ==
    rows = "done" /\ seen.result.of # Never /\ ~seen.result.up =>
        seen.result.of \in seen.failures[seen.result.failed]

\* endpoints.py:269 whichever way a check ends, it leaves no connection open: one
\* leak a cycle would exhaust the files of the process.
NoConnectionLeft == pc \in {"wait", "publish", "ended"} => sock = "none"

\* endpoints.py:89 what is published of a phase is what the last check that
\* reached it measured; but for a CA bundle that cannot be loaded, which shows as a
\* handshake of 0 s as long as there was none.
PhaseKeepsItsFigure ==
    pc = "wait" =>
        \A p \in Phases : \/ result.seconds[p] = reached[p]
                          \/ /\ p = "tls" /\ reached[p] = Never
                             /\ result.seconds[p] = Zero

=============================================================================
