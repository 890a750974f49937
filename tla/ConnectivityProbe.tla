------------------------- MODULE ConnectivityProbe -------------------------
(***************************************************************************)
(* probe.py, ConnectivityProbe: one check after the other on a thread of   *)
(* its own, while a detection may replace the client under it.             *)
(*                                                                         *)
(* Which requests succeed is decided by whether the bucket can be reached  *)
(* and by the calls the client's key is granted.  A check takes one step   *)
(* per read or write of what set_client writes.                            *)
(***************************************************************************)
EXTENDS Integers

CONSTANTS
    None,     \* Python's None
    Grants    \* what a key may be granted: sets of calls, never empty

Calls == {"HeadBucket", "ListObjectsV2"}

ASSUME ProbeAssumption ==
    /\ None \notin Calls
    /\ Grants \subseteq (SUBSET Calls) \ {{}}

VARIABLES
    reachable,   \* outside the exporter: whether the bucket answers
    client,      \* _client: the calls its key is granted
    method,      \* _method
    ppc,         \* where the check is
    attempts,    \* the attempts the check has begun
    verdict,     \* what it will publish
    reach,       \* _result: "unknown" before the first check, "up" or "down"
    disturbed    \* history: the failures of the bucket and the replacements of
                 \* the client this check met, up to two

checkVars == <<ppc, attempts, verdict>>
probeVars == <<client, method, checkVars, reach, disturbed>>

\* Mutant: no retry.
OneAttempt == 1

MaxAttempts == 2

ProbeTypes ==
    /\ reachable \in BOOLEAN
    /\ client \in Grants
    /\ method \in Calls \cup {None}
    /\ ppc \in {"idle", "attempt", "head", "granted", "denied", "call", "publish"}
    /\ attempts \in 0 .. MaxAttempts
    /\ verdict \in {"none", "up", "down"}
    /\ ppc = "publish" => verdict # "none"
    /\ reach \in {"unknown", "up", "down"}
    /\ disturbed \in 0 .. 2

ProbeInit ==
    /\ reachable \in BOOLEAN
    /\ method = None
    /\ ppc = "idle" /\ attempts = 0 /\ verdict = "none"
    /\ reach = "unknown" /\ disturbed = 0

-----------------------------------------------------------------------------
(* The bucket stops answering, or answers again.                           *)

BucketBlips ==
    /\ reachable' = ~reachable
    /\ UNCHANGED probeVars

Once(n) == IF n < 2 THEN n + 1 ELSE n

-----------------------------------------------------------------------------
(* A check.                                                                *)

CheckBegins ==
    /\ ppc = "idle"
    /\ ppc' = "attempt"
    /\ attempts' = 1
    /\ UNCHANGED <<reachable, client, method, verdict, reach, disturbed>>

\* The attempt passed; the check is over.
Passes ==
    /\ ppc' = "publish" /\ verdict' = "up"
    /\ UNCHANGED <<attempts, disturbed>>

\* It failed: one more at once, or the outage is published.
AttemptFails ==
    /\ IF attempts < MaxAttempts
       THEN attempts' = attempts + 1 /\ ppc' = "attempt" /\ UNCHANGED verdict
       ELSE ppc' = "publish" /\ verdict' = "down" /\ UNCHANGED attempts
    /\ disturbed' = IF reachable THEN disturbed ELSE Once(disturbed)

\* _attempt: has a call been settled?
Attempt ==
    /\ ppc = "attempt"
    /\ ppc' = IF method = None THEN "head" ELSE "call"
    /\ UNCHANGED <<reachable, client, method, attempts, verdict, reach, disturbed>>

\* HeadBucket is answered, denied (_FORBIDDEN_CODES) or fails.
AskHead ==
    /\ ppc = "head"
    /\ IF reachable
       THEN /\ ppc' = IF "HeadBucket" \in client THEN "granted" ELSE "denied"
            /\ UNCHANGED <<attempts, verdict, disturbed>>
       ELSE AttemptFails
    /\ UNCHANGED <<reachable, client, method, reach>>

SettleOnHead ==
    /\ ppc = "granted"
    /\ method' = "HeadBucket"
    /\ Passes
    /\ UNCHANGED <<reachable, client, reach>>

FallBack ==
    /\ ppc = "denied"
    /\ method' = "ListObjectsV2"
    /\ ppc' = "call"
    /\ UNCHANGED <<reachable, client, attempts, verdict, reach, disturbed>>

\* self._method(): a call of None when set_client came between.
Call ==
    /\ ppc = "call"
    /\ IF reachable /\ method \in client THEN Passes ELSE AttemptFails
    /\ UNCHANGED <<reachable, client, method, reach>>

\* Mutant: the result of a check that ends an outage is logged, and not kept.
RecoveryNotKept ==
    /\ ppc = "publish"
    /\ reach' = IF reach = "down" THEN reach ELSE verdict
    /\ ppc' = "idle" /\ attempts' = 0 /\ verdict' = "none" /\ disturbed' = 0
    /\ UNCHANGED <<reachable, client, method>>

Publish ==
    /\ ppc = "publish"
    /\ reach' = verdict
    /\ ppc' = "idle" /\ attempts' = 0 /\ verdict' = "none" /\ disturbed' = 0
    /\ UNCHANGED <<reachable, client, method>>

ProbeStep ==
    \/ CheckBegins \/ Attempt \/ AskHead \/ SettleOnHead \/ FallBack \/ Call
    \/ Publish

-----------------------------------------------------------------------------
(* set_client, by the thread that detects: two writes, without a lock.     *)

SetClient(c) ==
    /\ client' = c
    /\ UNCHANGED <<reachable, method, checkVars, reach, disturbed>>

ResetMethod ==
    /\ method' = None
    /\ disturbed' = IF ppc = "idle" THEN 0 ELSE Once(disturbed)
    /\ UNCHANGED <<reachable, client, checkVars, reach>>

-----------------------------------------------------------------------------
(* Properties, of a probe whose keys are all granted the same calls.       *)

\* probe.py:42 "One immediate retry": a dead connection, or a rotation that
\* lands in the middle of a check, is not published as an outage on its own.
OneFaultIsNoOutage == ppc = "publish" /\ verdict = "down" => disturbed >= 2

=============================================================================
