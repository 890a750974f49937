------------------------ MODULE CredentialsRefresher ------------------------
(***************************************************************************)
(* scheduler.py, CredentialsRefresher, and the monitors that ask it to     *)
(* read their Secret again: a key that S3 rejected is flagged, then        *)
(* requested (BucketMonitor._on_s3_error), by the probe's thread or a      *)
(* collection's; the refresher clears the request, reads the flags, has    *)
(* the Secrets listed again (relist_for, which applies) and reads them.    *)
(* All of it while the Discoverer applies what it finds (FleetApply).      *)
(*                                                                         *)
(* Whether a monitor asks again depends on the time since its last read:   *)
(* `recent` says it is below MIN_REFRESH_GAP_SECONDS.  Reading a Secret    *)
(* takes less than that.                                                   *)
(***************************************************************************)
EXTENDS FleetApply

CONSTANT MaxRejections  \* bound: rejections that ask

ASSUME RefresherAssumption == MaxRejections \in Nat

VARIABLES
    rejections,
    recent,     \* monitors whose _last_refresh is not yet long ago
    needs,      \* needs_refresh
    asking,     \* where _on_s3_error is, in a thread of a monitor
    requested,  \* _requested
    rpc,        \* where the refresher is
    look,       \* monitors whose flag it has yet to read
    todo,       \* monitors it will read: `stale`, then those of the pass
    reading,    \* the one it is reading
    unread      \* history: rejected in the fleet, and not read since

\* The threads that call S3 for a monitor.
Askers == {"probe", "collection"}

askVars == <<needs, asking, requested>>
passVars == <<rpc, look, todo, reading>>
vars == <<fleetVars, recent, rejections, askVars, passVars, unread>>

TypeOK ==
    /\ FleetTypes
    /\ rejections \in 0 .. MaxRejections
    /\ recent \subseteq Monitors /\ needs \subseteq Monitors
    /\ asking \in [Monitors \X Askers -> {"no", "flag", "request"}]
    /\ requested \in BOOLEAN
    /\ rpc \in {"wait", "clear", "snapshot", "look", "relist", "apply", "stale", "all"}
    /\ look \subseteq Monitors /\ todo \subseteq Monitors
    /\ reading \in Monitors \cup {None}
    /\ unread \subseteq Monitors

Init ==
    /\ FleetInit
    /\ rejections = 0 /\ recent = {} /\ needs = {} /\ requested = FALSE
    /\ asking = [a \in Monitors \X Askers |-> "no"]
    /\ rpc = "wait" /\ look = {} /\ todo = {} /\ reading = None
    /\ unread = {}

-----------------------------------------------------------------------------
(* The fleet changes.                                                      *)

\* The discovery or the reloader takes the Discoverer's lock.
DiscovererApplies ==
    /\ ApplyBegins
    /\ UNCHANGED <<rejections, recent, askVars, passVars, unread>>

\* A monitor that is built was read just now; one that was stopped asks no more.
Applies ==
    /\ ApplyStep
    /\ rpc' = IF rpc = "apply" /\ apc' = "idle" THEN "stale" ELSE rpc
    /\ recent' = (recent \cup {m \in Monitors : m[2] = built'[m[1]] /\ m[2] # built[m[1]]})
                    \ stopped'
    /\ unread' = unread \cap InFleet'
    /\ UNCHANGED <<rejections, askVars, look, todo, reading>>

-----------------------------------------------------------------------------
(* _on_s3_error, in the threads of a monitor.                              *)

GapPasses(m) ==
    /\ m \in recent /\ m # reading
    /\ recent' = recent \ {m}
    /\ UNCHANGED <<fleetVars, rejections, askVars, passVars, unread>>

\* S3 rejects the key, and the last read is long ago.  A collection needs no probe:
\* any monitor of the fleet may have one running. What a stopped monitor still asks for
\* is left out.
Rejected(m, t) ==
    /\ m \in (IF t = "probe" THEN probing ELSE InFleet) \ recent
    /\ asking[<<m, t>>] = "no"
    /\ rejections < MaxRejections /\ rejections' = rejections + 1
    /\ asking' = [asking EXCEPT ![<<m, t>>] = "flag"]
    /\ unread' = IF m \in InFleet THEN unread \cup {m} ELSE unread
    /\ UNCHANGED <<fleetVars, recent, needs, requested, passVars>>

\* Mutant: the request comes before the flag.
RequestFirst(m, t) ==
    /\ asking[<<m, t>>] = "flag"
    /\ asking' = [asking EXCEPT ![<<m, t>>] = "request"]
    /\ requested' = TRUE
    /\ UNCHANGED <<fleetVars, rejections, recent, needs, passVars, unread>>

Flag(m, t) ==
    /\ asking[<<m, t>>] = "flag"
    /\ asking' = [asking EXCEPT ![<<m, t>>] = "request"]
    /\ needs' = needs \cup {m}
    /\ UNCHANGED <<fleetVars, rejections, recent, requested, passVars, unread>>

Request(m, t) ==
    /\ asking[<<m, t>>] = "request"
    /\ asking' = [asking EXCEPT ![<<m, t>>] = "no"]
    /\ requested' = TRUE
    /\ UNCHANGED <<fleetVars, rejections, recent, needs, passVars, unread>>

-----------------------------------------------------------------------------
(* The refresher's thread.                                                 *)

Refreshing == UNCHANGED <<fleetVars, rejections, recent, needs, asking, reading, unread>>

\* The wait returns: it was asked.
Wakes ==
    /\ rpc = "wait" /\ requested
    /\ rpc' = "clear"
    /\ Refreshing /\ UNCHANGED <<requested, look, todo>>

\* Or its deadline has come: every bucket.
Expires ==
    /\ rpc = "wait" /\ ~requested
    /\ rpc' = "all" /\ todo' = InFleet
    /\ Refreshing /\ UNCHANGED <<requested, look>>

Clear ==
    /\ rpc = "clear" /\ rpc' = "snapshot"
    /\ requested' = FALSE
    /\ Refreshing /\ UNCHANGED <<look, todo>>

Snapshot ==
    /\ rpc = "snapshot" /\ rpc' = "look"
    /\ look' = InFleet
    /\ Refreshing /\ UNCHANGED <<requested, todo>>

Look(m) ==
    /\ rpc = "look" /\ m \in look
    /\ look' = look \ {m}
    /\ todo' = IF m \in needs THEN todo \cup {m} ELSE todo
    /\ Refreshing /\ UNCHANGED <<requested, rpc>>

\* The Secrets of those that were found by a selector are listed first.
Looked ==
    /\ rpc = "look" /\ look = {}
    /\ rpc' \in IF todo = {} THEN {"stale"} ELSE {"relist", "stale"}
    /\ Refreshing /\ UNCHANGED <<requested, look, todo>>

\* relist_for takes the lock; what it found is applied.
RelistFor ==
    /\ rpc = "relist" /\ rpc' = "apply"
    /\ ApplyBegins
    /\ UNCHANGED <<rejections, recent, askVars, look, todo, reading, unread>>

InPass == rpc \in {"stale", "all"}

\* refresh_credentials of the next monitor: one that was stopped is left alone.
ReadBegins(m) ==
    /\ InPass /\ reading = None /\ m \in todo
    /\ todo' = todo \ {m}
    /\ IF m \in stopped THEN UNCHANGED <<reading, recent>>
       ELSE reading' = m /\ recent' = recent \cup {m}
    /\ UNCHANGED <<fleetVars, rejections, askVars, rpc, look, unread>>

\* Mutant: a monitor stopped while its Secret was read is started all the same.
TakeAnyway ==
    /\ reading # None /\ reading' = None
    /\ needs' = needs \ {reading}
    /\ unread' = unread \ {reading}
    /\ \/ probing' = probing \cup {reading}
       \/ probing' = probing \ {reading}
    /\ UNCHANGED <<fleet, built, endpoint, stopped, checkers, applyVars, rejections,
                   recent, asking, requested, rpc, look, todo>>

\* What was read is applied under the monitor's lock; it may start the bucket,
\* or leave it unwatched, see BucketMonitor.
Take ==
    /\ reading # None /\ reading \notin stopped /\ reading' = None
    /\ needs' = needs \ {reading}
    /\ unread' = unread \ {reading}
    /\ \/ probing' = probing \cup {reading}
       \/ probing' = probing \ {reading}
    /\ UNCHANGED <<fleet, built, endpoint, stopped, checkers, applyVars, rejections,
                   recent, asking, requested, rpc, look, todo>>

\* Stopped while its Secret was read: nothing is applied.
TakeStopped ==
    /\ reading \in stopped /\ reading' = None
    /\ UNCHANGED <<fleetVars, rejections, recent, askVars, rpc, look, todo, unread>>

\* Mutant: what cannot be read is read again at once, until it can.
UnreadableRetries ==
    /\ reading # None /\ reading' = None
    /\ todo' = todo \cup {reading}
    /\ UNCHANGED <<fleetVars, rejections, recent, askVars, rpc, look, unread>>

\* The Secret cannot be read: the flag falls, the last credentials stay.
Unreadable ==
    /\ reading # None /\ reading' = None
    /\ needs' = needs \ {reading}
    /\ unread' = unread \ {reading}
    /\ UNCHANGED <<fleetVars, rejections, recent, asking, requested, rpc, look, todo>>

\* The pass is over; after that of the stale ones the deadline may have come.
PassEnds ==
    /\ InPass /\ reading = None /\ todo = {}
    /\ \/ rpc' = "wait" /\ UNCHANGED todo
       \/ rpc = "stale" /\ rpc' = "all" /\ todo' = InFleet
    /\ Refreshing /\ UNCHANGED <<requested, look>>

-----------------------------------------------------------------------------

Asks(m, t) == Flag(m, t) \/ Request(m, t)

Refresh ==
    \/ Wakes \/ Clear \/ Snapshot \/ Looked
    \/ \E m \in Monitors : Look(m) \/ ReadBegins(m)
    \/ Take \/ TakeStopped \/ Unreadable \/ PassEnds

Next ==
    \/ DiscovererApplies \/ Applies \/ RelistFor \/ Refresh \/ Expires
    \/ \E m \in Monitors : GapPasses(m)
    \/ \E m \in Monitors, t \in Askers : Rejected(m, t) \/ Asks(m, t)

Spec == Init /\ [][Next]_vars

\* Threads go on, and the lock is got in the end; the deadline may be far away.
FairSpec ==
    /\ Spec
    /\ WF_vars(Applies) /\ WF_vars(Refresh) /\ SF_vars(RelistFor)
    /\ WF_vars(\E m \in Monitors, t \in Askers : Asks(m, t))

-----------------------------------------------------------------------------
(* Properties.                                                             *)

\* scheduler.py:146 "read the Secrets flagged as stale now": a bucket whose key
\* was rejected, and whose Secret was not read since, is never forgotten: its
\* thread has yet to ask, or the refresher has yet to see the request, to read
\* the flags, or to read the Secret.
NoLostRejection ==
    \A m \in unread :
        \/ (\E t \in Askers : asking[<<m, t>>] # "no") \/ requested
        \/ rpc \in {"clear", "snapshot"}
        \/ rpc = "look" /\ m \in look
        \/ m \in todo \/ m = reading

Forgotten(k) == <<k, fleet[k]>> \in unread

\* And it is read again, or is watched no more, however far the deadline.
RejectionIsRead == \A k \in Keys : Forgotten(k) ~> ~Forgotten(k)

=============================================================================
