----------------------------- MODULE Discovery -----------------------------
(***************************************************************************)
(* discovery.py and fleet.py: the watched buckets, as those the            *)
(* configuration names plus those its selectors find.                      *)
(*                                                                         *)
(* Three threads change them through the Discoverer's lock: the discovery  *)
(* (run_once), the reloader (set_plan) and the credentials refresher       *)
(* (relist_for).  Under it they list selectors, one call to Kubernetes     *)
(* each, then bring the fleet in line.  The monitors' own refreshes take   *)
(* place without it.  One namespace: a Secret is its name, a rule is its   *)
(* selector, and a listing is the rule with the time it was made, which    *)
(* tells a listing from one of the same selector made later.               *)
(***************************************************************************)
EXTENDS Integers, FiniteSets, Sequences

CONSTANTS
    Names,       \* the Secrets of the namespace
    Rules,       \* the selectors a plan may hold
    None,        \* Python's None
    Plans,       \* the plans a file may give: [named, rules], see PlanOf
    Annotated,   \* what the annotations of a Secret may set
    Relabels,    \* whether the labels of a Secret change
    Rejects,     \* whether S3 rejects the keys that were rotated away
    MaxChanges,  \* bound: changes of the Secrets
    MaxReloads   \* bound: plans applied after the first

\* BucketPlan: the Secrets named by an entry, and the rules in the file's order
\* with the settings their buckets start from.
PlanOf(named, rules, defaults) == [named |-> named, rules |-> rules, defaults |-> defaults]

Settings == Annotated \cup {"default", "other", "named"}

\* A Secret: its labels as the rules they match, its values as a version, and
\* what its annotations set, "broken" when they cannot be honoured.
SecretContent ==
    [matches : SUBSET Rules, version : 1 .. MaxChanges + 1,
     annotation : Annotated \cup {None}]

\* A SecretDiscovery object.
Listings == Rules \X (0 .. MaxReloads)
NoListing == <<None, 0>>

\* A BucketSpec, for a key.
BucketSpec ==
    {spec \in [kind : {"named", "listed", "unusable"}, settings : Settings,
               listing : Listings \cup {NoListing}] :
        spec.kind = "listed" => spec.listing \in Listings}

\* A monitor with its spec, and the version of the values it last took.
Monitor ==
    {m \in [kind : {"named", "listed", "unusable"}, settings : Settings,
             listing : Listings \cup {NoListing},
             taken : 0 .. MaxChanges + 1, needsRefresh : BOOLEAN] :
        m.kind = "listed" => m.listing \in Listings}

ASSUME DiscoveryAssumption ==
    /\ None \notin Nat \cup Rules \cup Annotated \cup SecretContent
    /\ None \notin BucketSpec \cup Monitor
    /\ Plans # {} /\ IsFiniteSet(Names)
    /\ \A p \in Plans :
          /\ p.named \subseteq Names
          /\ p.rules \in Seq(Rules)
          /\ \A i, j \in DOMAIN p.rules : p.rules[i] = p.rules[j] => i = j
          /\ p.defaults \in [Rules -> {"default", "other"}]
    /\ MaxChanges \in Nat /\ MaxReloads \in Nat
    /\ Relabels \in BOOLEAN /\ Rejects \in BOOLEAN

VARIABLES
    cluster,     \* the Secrets as Kubernetes has them
    reachable,   \* whether the API answers
    changes, reloads,
    plan,
    current,     \* _listings: the time the listing of each rule was made, None without
    contents,    \* the Secrets each listing last found
    up,          \* whether its last list succeeded
    fleet,       \* the monitors
    holder,      \* the thread that holds the Discoverer's lock
    todo,        \* the rules it has yet to list, by their place in the file
    changed,     \* the keys whose values it saw change
    reread,      \* those run_once reads again, once it released the lock
    stale,       \* the monitors the refresher reads again
    relist       \* the rules it has listed again before, once it has the lock

clusterVars == <<cluster, reachable, changes>>
listVars == <<current, contents, up>>
planVars == <<plan, reloads>>
vars == <<cluster, reachable, changes, reloads, plan, current, contents, up, fleet,
          holder, todo, changed, reread, stale, relist>>

TypeOK ==
    /\ cluster \in [Names -> SecretContent \cup {None}]
    /\ reachable \in BOOLEAN /\ changes \in 0 .. MaxChanges
    /\ reloads \in 0 .. MaxReloads /\ plan \in Plans
    /\ current \in [Rules -> 0 .. MaxReloads \cup {None}]
    /\ contents \in [Listings -> [Names -> SecretContent \cup {None}]]
    /\ up \in [Listings -> BOOLEAN]
    /\ fleet \in [Names -> Monitor \cup {None}]
    /\ holder \in {"none", "discovery", "reloader", "refresher"}
    /\ todo \in SUBSET DOMAIN plan.rules
    /\ \A i \in DOMAIN plan.rules : current[plan.rules[i]] # None
    /\ changed \in SUBSET Names /\ reread \in SUBSET Names /\ stale \in SUBSET Names
    /\ relist \in SUBSET Rules

-----------------------------------------------------------------------------
(* The specs and their monitors.                                           *)

\* The listing of the rule at a place of the file.
ListingAt(i, p, cur) == <<p.rules[i], cur[p.rules[i]]>>

\* The rules that find a Secret.
Finders(n, p, cur, found) == {i \in DOMAIN p.rules : found[ListingAt(i, p, cur)][n] # None}

First(places) == CHOOSE i \in places : \A j \in places : i <= j

\* discovered_spec, for the rule at place i.
DiscoveredSpec(n, i, p, cur, found) ==
    LET listing == ListingAt(i, p, cur)
        annotation == found[listing][n].annotation
    IN  [kind |-> IF annotation = "broken" THEN "unusable" ELSE "listed",
         settings |-> IF annotation \in {None, "broken"} THEN p.defaults[p.rules[i]]
                      ELSE annotation,
         listing |-> listing]

\* Discoverer.desired: the entry wins over the rules, the first rule over others.
Desired(n, p, cur, found) ==
    IF n \in p.named
    THEN [kind |-> "named", settings |-> "named", listing |-> NoListing]
    ELSE IF Finders(n, p, cur, found) = {} THEN None
    ELSE DiscoveredSpec(n, First(Finders(n, p, cur, found)), p, cur, found)

\* BucketSpec.fingerprint, for one key: where the values are listed is not in it.
SameFingerprint(old, spec) == old.kind = spec.kind /\ old.settings = spec.settings

\* What resolving reads: 0 when it cannot.
ReadFrom(n, spec, found) ==
    IF spec.kind = "named"
    THEN IF reachable /\ cluster[n] # None THEN cluster[n].version ELSE 0
    ELSE IF spec.kind = "listed" /\ found[spec.listing][n] # None
    THEN found[spec.listing][n].version ELSE 0

\* refresh_credentials: what cannot be read leaves the credentials in hand.
Refreshed(n, m) ==
    LET read == ReadFrom(n, m, contents)
    IN  [m EXCEPT !.taken = IF read = 0 THEN @ ELSE read, !.needsRefresh = FALSE]

\* make_monitor, and the first refresh.
NewMonitor(n, spec, found) ==
    [kind |-> spec.kind, settings |-> spec.settings, listing |-> spec.listing,
     taken |-> ReadFrom(n, spec, found), needsRefresh |-> FALSE]

-----------------------------------------------------------------------------

\* After discover(): every selector listed once, the fleet made of what they
\* found, nothing running yet.
Init ==
    /\ reachable \in BOOLEAN
    /\ cluster \in [Names -> {None} \cup
                       {c \in SecretContent : c.version = 1 /\ c.annotation = None}]
    /\ changes = 0 /\ reloads = 0
    /\ plan \in Plans
    /\ current = [r \in Rules |->
                     IF \E i \in DOMAIN plan.rules : plan.rules[i] = r THEN 0 ELSE None]
    /\ up = [l \in Listings |-> reachable /\ current[l[1]] = 0 /\ l[2] = 0]
    /\ contents = [l \in Listings |-> [n \in Names |->
                     IF up[l] /\ cluster[n] # None /\ l[1] \in cluster[n].matches
                     THEN cluster[n] ELSE None]]
    /\ fleet = [n \in Names |->
                  IF Desired(n, plan, current, contents) = None THEN None
                  ELSE NewMonitor(n, Desired(n, plan, current, contents), contents)]
    /\ holder = "none" /\ todo = {} /\ changed = {} /\ reread = {} /\ stale = {} /\ relist = {}

-----------------------------------------------------------------------------
(* Kubernetes.                                                             *)

\* Somebody creates, deletes, rotates, annotates or relabels a Secret; its values are
\* others only after some of these.
SecretChanges ==
    /\ changes < MaxChanges /\ changes' = changes + 1
    /\ \E n \in Names, labels \in SUBSET Rules, annotation \in Annotated \cup {None} :
          LET c == [matches |-> labels, version |-> changes + 2, annotation |-> annotation]
          IN  /\ \/ cluster' = [cluster EXCEPT ![n] = c]
                 \/ /\ cluster[n] # None
                    /\ cluster' \in {[cluster EXCEPT ![n] = None],
                                     [cluster EXCEPT ![n] = [c EXCEPT !.version = cluster[n].version]]}
              /\ ~Relabels /\ cluster[n] # None => labels = cluster[n].matches
    /\ UNCHANGED <<reachable, planVars, listVars, fleet, holder, todo, changed,
                   reread, stale, relist>>

ApiBlips ==
    /\ reachable' = ~reachable
    /\ UNCHANGED <<cluster, changes, planVars, listVars, fleet, holder, todo,
                   changed, reread, stale, relist>>

-----------------------------------------------------------------------------
(* Under the lock.                                                         *)

\* run_once takes it: every listing of the plan.
RunOnce ==
    /\ holder = "none" /\ reread = {}
    /\ holder' = "discovery"
    /\ todo' = DOMAIN plan.rules
    /\ changed' = {}
    /\ UNCHANGED <<clusterVars, planVars, listVars, fleet, reread, stale, relist>>

\* Mutant: the listings of the rules that stay are not carried over.
SyncedForgetsKept(p, time) ==
    [r \in Rules |-> IF \A i \in DOMAIN p.rules : p.rules[i] # r THEN None
                     ELSE IF current[r] = None THEN time ELSE None]

\* _sync_listings: the time of the listing of each rule under a plan.
Synced(p, time) ==
    [r \in Rules |-> IF \A i \in DOMAIN p.rules : p.rules[i] # r THEN None
                     ELSE IF current[r] = None THEN time ELSE current[r]]

\* set_plan takes it: the new plan, and the listings it adds.
SetPlan ==
    /\ holder = "none"
    /\ reloads < MaxReloads /\ reloads' = reloads + 1
    /\ \E p \in Plans \ {plan} :
          /\ plan' = p
          /\ current' = Synced(p, reloads')
          /\ todo' = {i \in DOMAIN p.rules : current[p.rules[i]] = None}
    /\ holder' = "reloader"
    /\ changed' = {}
    /\ UNCHANGED <<clusterVars, contents, up, fleet, reread, stale, relist>>

\* The refresher is asked for the buckets whose key was rejected; which selectors to
\* list again it tells from their monitors, without the lock.
FindStale ==
    /\ holder # "refresher" /\ stale = {} /\ relist = {}
    /\ stale' = {n \in Names : fleet[n] # None /\ fleet[n].needsRefresh}
    /\ stale' # {}
    /\ relist' = {fleet[n].listing[1] : n \in {s \in stale' : fleet[s].kind = "listed"}}
    /\ UNCHANGED <<clusterVars, planVars, listVars, fleet, holder, todo, changed, reread>>

\* relist_for takes the lock: those of them that the plan in force still has.
RelistFor ==
    /\ holder = "none" /\ relist # {} /\ relist' = {}
    /\ holder' = "refresher"
    /\ todo' = {i \in DOMAIN plan.rules : plan.rules[i] \in relist}
    /\ changed' = {}
    /\ UNCHANGED <<clusterVars, planVars, listVars, fleet, reread, stale>>

\* Mutant: a list that fails has found nothing.
ListForgets ==
    /\ holder # "none" /\ todo # {}
    /\ todo' = todo \ {First(todo)}
    /\ LET l == ListingAt(First(todo), plan, current)
           found == [n \in Names |->
                       IF reachable /\ cluster[n] # None /\ l[1] \in cluster[n].matches
                       THEN cluster[n] ELSE None]
       IN  /\ contents' = [contents EXCEPT ![l] = found]
           /\ up' = [up EXCEPT ![l] = reachable]
           /\ changed' = changed \cup
                {n \in Names : /\ found[n] # None /\ contents[l][n] # None
                               /\ found[n].version # contents[l][n].version}
    /\ UNCHANGED <<clusterVars, planVars, current, fleet, holder, reread, stale, relist>>

\* Mutant: a list that finds the same Secrets is not stored.
ListNewNames ==
    /\ holder # "none" /\ todo # {}
    /\ todo' = todo \ {First(todo)}
    /\ LET l == ListingAt(First(todo), plan, current)
           found == [n \in Names |->
                       IF cluster[n] # None /\ l[1] \in cluster[n].matches
                       THEN cluster[n] ELSE None]
       IN  /\ contents' = IF reachable /\ \E n \in Names :
                                 (found[n] = None) # (contents[l][n] = None)
                          THEN [contents EXCEPT ![l] = found] ELSE contents
           /\ up' = [up EXCEPT ![l] = reachable]
    /\ UNCHANGED <<clusterVars, planVars, current, fleet, holder, changed, reread, stale,
                   relist>>

\* SecretDiscovery.refresh of the next listing: a list that fails changes nothing.
List ==
    /\ holder # "none" /\ todo # {}
    /\ todo' = todo \ {First(todo)}
    /\ LET l == ListingAt(First(todo), plan, current)
           found == [n \in Names |->
                       IF cluster[n] # None /\ l[1] \in cluster[n].matches
                       THEN cluster[n] ELSE None]
       IN  IF reachable
           THEN /\ contents' = [contents EXCEPT ![l] = found]
                /\ up' = [up EXCEPT ![l] = TRUE]
                /\ changed' = changed \cup
                     {n \in Names : /\ found[n] # None /\ contents[l][n] # None
                                    /\ found[n].version # contents[l][n].version}
           ELSE up' = [up EXCEPT ![l] = FALSE] /\ UNCHANGED <<contents, changed>>
    /\ UNCHANGED <<clusterVars, planVars, current, fleet, holder, reread, stale, relist>>

\* Mutant: a bucket that is watched already is left alone, whatever its entry.
ApplyAdded(n) ==
    LET spec == Desired(n, plan, current, contents)
    IN  IF spec = None THEN None
        ELSE IF fleet[n] # None THEN fleet[n]
        ELSE NewMonitor(n, spec, contents)

\* Fleet.apply: the monitor of an unchanged entry is kept.
Applied(n) ==
    LET spec == Desired(n, plan, current, contents)
    IN  IF spec = None THEN None
        ELSE IF fleet[n] # None /\ SameFingerprint(fleet[n], spec)
        THEN fleet[n]
        ELSE NewMonitor(n, spec, contents)

\* Mutant: the keys that changed are dropped by run_once as well.
ApplyForgets ==
    /\ holder # "none" /\ todo = {}
    /\ fleet' = [n \in Names |-> Applied(n)]
    /\ holder' = "none" /\ changed' = {}
    /\ UNCHANGED reread
    /\ stale' = {n \in stale : fleet'[n] = fleet[n]}
    /\ UNCHANGED <<clusterVars, planVars, listVars, todo, relist>>

\* The fleet is brought in line and the lock released.  Only run_once reads
\* again what changed; a monitor that was replaced is stopped, and not read.
Apply ==
    /\ holder # "none" /\ todo = {}
    /\ fleet' = [n \in Names |-> Applied(n)]
    /\ holder' = "none" /\ changed' = {}
    /\ reread' = IF holder = "discovery" THEN changed ELSE reread
    /\ stale' = {n \in stale : fleet'[n] = fleet[n]}
    /\ UNCHANGED <<clusterVars, planVars, listVars, todo, relist>>

-----------------------------------------------------------------------------
(* Without the lock.                                                       *)

\* _reread: the monitor of a changed key, if its bucket was found by a listing.
Reread(n) ==
    /\ n \in reread /\ holder # "discovery"
    /\ reread' = reread \ {n}
    /\ fleet' = IF fleet[n] # None /\ fleet[n].kind = "listed"
                THEN [fleet EXCEPT ![n] = Refreshed(n, @)] ELSE fleet
    /\ UNCHANGED <<clusterVars, planVars, listVars, holder, todo, changed, stale, relist>>

\* The refresher, once relist_for returned.
RefreshStale(n) ==
    /\ n \in stale /\ relist = {} /\ holder # "refresher"
    /\ stale' = stale \ {n}
    /\ fleet' = IF fleet[n] # None THEN [fleet EXCEPT ![n] = Refreshed(n, @)] ELSE fleet
    /\ UNCHANGED <<clusterVars, planVars, listVars, holder, todo, changed, reread, relist>>

\* The refresher's periodic pass.
RefreshAll(n) ==
    /\ holder # "refresher" /\ stale = {} /\ relist = {} /\ fleet[n] # None
    /\ fleet' = [fleet EXCEPT ![n] = Refreshed(n, @)]
    /\ UNCHANGED <<clusterVars, planVars, listVars, holder, todo, changed, reread, stale,
                   relist>>

\* S3 rejects a key that was rotated away.
Rejected(n) ==
    /\ Rejects /\ fleet[n] # None /\ fleet[n].taken # 0
    /\ cluster[n] # None => cluster[n].version # fleet[n].taken
    /\ fleet' = [fleet EXCEPT ![n].needsRefresh = TRUE]
    /\ UNCHANGED <<clusterVars, planVars, listVars, holder, todo, changed, reread, stale,
                   relist>>

-----------------------------------------------------------------------------

Locked == List \/ Apply

Next ==
    \/ SecretChanges \/ ApiBlips
    \/ RunOnce \/ SetPlan \/ FindStale \/ RelistFor
    \/ Locked
    \/ \E n \in Names : Reread(n) \/ RefreshStale(n) \/ RefreshAll(n) \/ Rejected(n)

Spec == Init /\ [][Next]_vars

\* The discovery and the refresher have a period, and a thread that holds the
\* lock releases it: a list has a timeout.
FairSpec ==
    /\ Spec
    /\ SF_vars(RunOnce) /\ SF_vars(\E n \in Names : Reread(n)) /\ WF_vars(Locked)
    /\ SF_vars(RelistFor \/ \E n \in Names : RefreshStale(n))
    /\ \A n \in Names : SF_vars(RefreshAll(n))

-----------------------------------------------------------------------------
(* Properties.                                                             *)

\* A monitor watches what a spec says, or both are absent.
IsFor(monitor, spec) ==
    IF spec = None THEN monitor = None
    ELSE monitor # None /\ SameFingerprint(monitor, spec)

\* Whenever nobody holds the lock, the fleet is what the plan in force and the
\* last lists call for, whichever of the three threads came last.
FleetFollows ==
    holder = "none" =>
        \A n \in Names :
            IsFor(fleet[n], Desired(n, plan, current, contents))

DropsWhatIsGone ==
    \A n \in Names :
        /\ fleet[n] # None /\ fleet[n].kind # "named" /\ fleet'[n] = None
        /\ holder # "reloader"
        => \E i \in DOMAIN plan.rules :
              /\ up[ListingAt(i, plan, current)]
              /\ contents[ListingAt(i, plan, current)][n] = None

\* An outage empties nothing: but for a reload, a found bucket is dropped only
\* when the last list of one of the selectors succeeded without it.
OutageDropsNothing == [][DropsWhatIsGone]_vars

\* README.md:231 "a rotated key -- is read again at once": once the threads are
\* at rest, a found bucket has taken the values its listing holds.
RotationTakenNow ==
    holder = "none" /\ reread = {} /\ stale = {} =>
        \A n \in Names :
            fleet[n] # None /\ fleet[n].kind = "listed"
                /\ contents[fleet[n].listing][n] # None
            => fleet[n].taken = contents[fleet[n].listing][n].version

\* In the end, a bucket that is watched has taken what its Secret holds.
RotationArrives ==
    <>[]reachable =>
        <>[](\A n \in Names :
                fleet[n] # None /\ fleet[n].kind # "unusable" /\ cluster[n] # None
                => fleet[n].taken = cluster[n].version)

=============================================================================
