-------------------------- MODULE DiscoveryProofs --------------------------
(***************************************************************************)
(* Theorems about Discovery, for any namespace, selectors and plans: its   *)
(* states are well typed, the fleet is what the plan and the last lists    *)
(* call for whenever the lock is free, an outage drops no bucket, and,     *)
(* with one selector and no rejection, rotated keys are always taken.      *)
(***************************************************************************)
EXTENDS Discovery, WellFoundedInduction, TLAPS

-----------------------------------------------------------------------------
(* Lemmas about the operators.                                             *)

\* A set of places that is not empty has a first one.
LEMMA FirstIsOne ==
    ASSUME NEW places \in SUBSET Nat, places # {}
    PROVE  First(places) \in places
<1> DEFINE less == {ss \in Nat \X Nat : ss[1] < ss[2]}
<1>1. IsWellFoundedOn(less, Nat)
    BY NatLessThanWellFounded DEF OpToRel
<1>2. \E x \in places : \A y \in places : <<y, x>> \notin less
    <2> HIDE DEF less
    <2> QED BY <1>1, WFMin
<1>3. PICK x \in places : \A y \in places : <<y, x>> \notin less
    BY <1>2
<1>4. ASSUME NEW y \in places
      PROVE  x <= y
    <2>1. x \in Nat /\ y \in Nat
        OBVIOUS
    <2>2. y < x => <<y, x>> \in less
        BY <2>1
    <2> HIDE DEF less
    <2> QED BY <1>3, <2>1, <2>2
<1> QED BY <1>4 DEF First

\* What a plan is made of.
LEMMA PlanTypes ==
    ASSUME NEW p \in Plans
    PROVE  /\ p.named \subseteq Names
           /\ p.rules \in Seq(Rules) /\ DOMAIN p.rules \subseteq Nat
           /\ \A i, j \in DOMAIN p.rules : p.rules[i] = p.rules[j] => i = j
           /\ p.defaults \in [Rules -> {"default", "other"}]
BY DiscoveryAssumption

\* The listing of a rule that has one.
LEMMA ListingAtType ==
    ASSUME NEW p \in Plans, NEW i \in DOMAIN p.rules,
           NEW cur \in [Rules -> 0 .. MaxReloads \cup {None}],
           cur[p.rules[i]] # None
    PROVE  ListingAt(i, p, cur) \in Listings
<1>1. p.rules[i] \in Rules
    BY PlanTypes
<1>2. cur[p.rules[i]] \in 0 .. MaxReloads
    BY <1>1
<1> QED BY <1>1, <1>2 DEF ListingAt, Listings

\* The lists: which listing each rule reads, and what each found.
ListTypes(p, cur, found) ==
    /\ cur \in [Rules -> 0 .. MaxReloads \cup {None}]
    /\ \A i \in DOMAIN p.rules : cur[p.rules[i]] # None
    /\ found \in [Listings -> [Names -> SecretContent \cup {None}]]

\* What a bucket is to be watched by is a spec, or nothing when neither an entry
\* nor a rule has it.
LEMMA DesiredType ==
    ASSUME NEW n \in Names, NEW p \in Plans, NEW cur, NEW found,
           ListTypes(p, cur, found)
    PROVE  /\ Desired(n, p, cur, found) \in BucketSpec \cup {None}
           /\ Desired(n, p, cur, found) = None => Finders(n, p, cur, found) = {}
<1> DEFINE finders == Finders(n, p, cur, found)
<1>0. \A spec \in BucketSpec : spec # None
    BY DiscoveryAssumption
<1>1. CASE n \in p.named
    BY <1>0, <1>1 DEF Desired, BucketSpec, Settings
<1>2. CASE n \notin p.named /\ finders = {}
    BY <1>2 DEF Desired
<1>3. CASE n \notin p.named /\ finders # {}
    <2> DEFINE i == First(finders)
               listing == ListingAt(i, p, cur)
    <2>1. finders \in SUBSET Nat
        BY PlanTypes DEF Finders
    <2>2. i \in finders
        BY <2>1, <1>3, FirstIsOne
    <2>3. i \in DOMAIN p.rules /\ found[listing][n] # None
        BY <2>2 DEF Finders
    <2>4. listing \in Listings
        BY <2>3, ListingAtType DEF ListTypes
    <2>5. found[listing][n] \in SecretContent
        BY <2>3, <2>4 DEF ListTypes
    <2>6. found[listing][n].annotation \in Annotated \cup {None}
        BY <2>5 DEF SecretContent
    <2>7. p.defaults[p.rules[i]] \in {"default", "other"}
        BY <2>3, PlanTypes
    <2>8. Desired(n, p, cur, found) = DiscoveredSpec(n, i, p, cur, found)
        BY <1>3 DEF Desired
    <2> HIDE DEF i
    <2> QED BY <1>0, <2>4, <2>6, <2>7, <2>8 DEF DiscoveredSpec, BucketSpec, Settings
<1> QED BY <1>1, <1>2, <1>3

-----------------------------------------------------------------------------
(* The inductive invariant.                                                *)

\* While the discovery or the refresher holds the lock, every found bucket is
\* still in a list, or gone from one that succeeded since the lock was taken.
Accounted ==
    holder \in {"discovery", "refresher"} =>
        \A n \in Names :
            fleet[n] # None /\ fleet[n].kind # "named" =>
                \E i \in DOMAIN plan.rules :
                    \/ contents[ListingAt(i, plan, current)][n] # None
                    \/ i \notin todo /\ up[ListingAt(i, plan, current)]

Inv == TypeOK /\ FleetFollows /\ Accounted

\* A monitor made for a spec.
LEMMA NewMonitorFits ==
    ASSUME cluster \in [Names -> SecretContent \cup {None}],
           NEW n \in Names, NEW spec \in BucketSpec,
           NEW found \in [Listings -> [Names -> SecretContent \cup {None}]]
    PROVE  /\ NewMonitor(n, spec, found) \in Monitor
           /\ NewMonitor(n, spec, found) # None
           /\ IsFor(NewMonitor(n, spec, found), spec)
<1>1. MaxChanges \in Nat
    BY DiscoveryAssumption
<1>2. ASSUME NEW c \in SecretContent
      PROVE  c.version \in 0 .. MaxChanges + 1
    BY <1>1, <1>2 DEF SecretContent
<1>3. cluster[n] \in SecretContent \cup {None}
    OBVIOUS
<1>4. spec.kind = "listed" /\ found[spec.listing][n] # None
          => found[spec.listing][n] \in SecretContent
    BY DEF BucketSpec
<1>5. ReadFrom(n, spec, found) \in 0 .. MaxChanges + 1
    BY <1>1, <1>2, <1>3, <1>4 DEF ReadFrom
<1>6. NewMonitor(n, spec, found) \in Monitor
    BY <1>5 DEF NewMonitor, Monitor, BucketSpec
<1>7. NewMonitor(n, spec, found) # None
    BY <1>6, DiscoveryAssumption
<1>8. spec # None
    BY DiscoveryAssumption
<1> QED BY <1>6, <1>7, <1>8 DEF IsFor, SameFingerprint, NewMonitor

-----------------------------------------------------------------------------
(* The initial states.                                                     *)

\* The fleet the first lists call for is typed and follows the plan.
LEMMA InitFollows ==
    ASSUME Init
    PROVE  Inv
<1>1. MaxChanges \in Nat /\ MaxReloads \in Nat
    BY DiscoveryAssumption
<1>2. plan \in Plans /\ plan.rules \in Seq(Rules)
    BY PlanTypes DEF Init
<1>3. cluster \in [Names -> SecretContent \cup {None}]
    BY DEF Init
<1>4. 0 \in 0 .. MaxReloads /\ 0 \in 0 .. MaxChanges
    BY <1>1
<1>5. current \in [Rules -> 0 .. MaxReloads \cup {None}]
    BY <1>4 DEF Init
<1>6. ASSUME NEW i \in DOMAIN plan.rules
      PROVE  current[plan.rules[i]] # None
    <2>1. plan.rules[i] \in Rules
        BY <1>2
    <2>2. current[plan.rules[i]] = 0
        BY <2>1, <1>6 DEF Init
    <2>3. 0 # None
        BY DiscoveryAssumption
    <2> QED BY <2>2, <2>3
<1>7. contents \in [Listings -> [Names -> SecretContent \cup {None}]]
    BY <1>3 DEF Init
<1>8. ListTypes(plan, current, contents)
    BY <1>5, <1>6, <1>7 DEF ListTypes
<1>9. up \in [Listings -> BOOLEAN]
    BY DEF Init
<1>10. ASSUME NEW n \in Names
       PROVE  /\ fleet[n] \in Monitor \cup {None}
              /\ IsFor(fleet[n], Desired(n, plan, current, contents))
    <2> DEFINE spec == Desired(n, plan, current, contents)
    <2>1. spec \in BucketSpec \cup {None}
        BY <1>2, <1>8, DesiredType
    <2>2. fleet[n] = IF spec = None THEN None ELSE NewMonitor(n, spec, contents)
        BY DEF Init
    <2>3. fleet[n] \in Monitor \cup {None} /\ IsFor(fleet[n], spec)
        <3> HIDE DEF spec
        <3> QED BY <1>3, <1>7, <2>1, <2>2, NewMonitorFits DEF IsFor
    <2> QED BY <2>3
<1>11. fleet \in [Names -> Monitor \cup {None}]
    BY <1>10 DEF Init
<1>12. TypeOK
    BY <1>1, <1>2, <1>3, <1>4, <1>5, <1>6, <1>7, <1>9, <1>11 DEF Init, TypeOK
<1>13. FleetFollows
    BY <1>10 DEF FleetFollows
<1>14. Accounted
    BY DEF Init, Accounted
<1> QED BY <1>12, <1>13, <1>14 DEF Inv

-----------------------------------------------------------------------------
(* The steps.                                                              *)

\* A step that leaves the plan, the lists and the lock, and every monitor to
\* its entry, keeps the fleet in line.
LEMMA SameWatchKeeps ==
    ASSUME FleetFollows, Accounted,
           UNCHANGED <<plan, current, contents, up, holder, todo>>,
           \A n \in Names : /\ fleet[n] = None <=> fleet'[n] = None
                            /\ fleet[n] # None => SameFingerprint(fleet'[n], fleet[n])
    PROVE  FleetFollows' /\ Accounted'
<1>1. FleetFollows'
    BY DEF FleetFollows, IsFor, SameFingerprint
<1>2. Accounted'
    BY DEF Accounted, SameFingerprint
<1> QED BY <1>1, <1>2

\* Whatever happens to the Secrets and the API.
LEMMA OutsideKeeps ==
    ASSUME Inv, SecretChanges \/ ApiBlips
    PROVE  Inv'
<1> USE DEF Inv
<1>1. FleetFollows' /\ Accounted'
    BY SameWatchKeeps DEF SecretChanges, ApiBlips, listVars, planVars, SameFingerprint
<1>2. ASSUME SecretChanges
      PROVE  TypeOK'
    <2>1. changes \in Nat /\ MaxChanges \in Nat /\ changes < MaxChanges
        BY <1>2, DiscoveryAssumption DEF SecretChanges, TypeOK
    <2>2. changes' \in 0 .. MaxChanges
        BY <1>2, <2>1 DEF SecretChanges
    <2>3. changes + 2 \in 1 .. MaxChanges + 1
        BY <2>1
    <2>4. cluster' \in [Names -> SecretContent \cup {None}]
        BY <1>2, <2>3 DEF SecretChanges, TypeOK, SecretContent
    <2> QED BY <1>2, <2>2, <2>4 DEF SecretChanges, TypeOK, listVars, planVars
<1>3. ASSUME ApiBlips
      PROVE  TypeOK'
    BY <1>3 DEF ApiBlips, TypeOK, listVars, planVars
<1> QED BY <1>1, <1>2, <1>3

\* A monitor that is refreshed or rejected is the same monitor.
LEMMA RefreshedFits ==
    ASSUME TypeOK, NEW n \in Names, fleet[n] # None
    PROVE  /\ Refreshed(n, fleet[n]) \in Monitor
           /\ SameFingerprint(Refreshed(n, fleet[n]), fleet[n])
<1>1. fleet[n] \in Monitor /\ MaxChanges \in Nat
    BY DiscoveryAssumption DEF TypeOK
<1>2. ASSUME NEW c \in SecretContent
      PROVE  c.version \in 0 .. MaxChanges + 1
    BY <1>1, <1>2 DEF SecretContent
<1>3. ReadFrom(n, fleet[n], contents) \in 0 .. MaxChanges + 1
    BY <1>1, <1>2 DEF ReadFrom, TypeOK, Monitor
<1> QED BY <1>1, <1>3 DEF Refreshed, Monitor, SameFingerprint

\* What happens to a monitor without the lock leaves it to its entry.
LEMMA SameMonitors ==
    ASSUME TypeOK, NEW n \in Names,
           Reread(n) \/ RefreshStale(n) \/ RefreshAll(n) \/ Rejected(n)
    PROVE  /\ fleet' \in [Names -> Monitor \cup {None}]
           /\ \A k \in Names : /\ fleet[k] = None <=> fleet'[k] = None
                               /\ fleet[k] # None => SameFingerprint(fleet'[k], fleet[k])
<1>0. \A m \in Monitor : m # None
    BY DiscoveryAssumption
<1>1. \/ fleet' = fleet
      \/ /\ fleet[n] # None
         /\ \E m \in Monitor : /\ SameFingerprint(m, fleet[n])
                              /\ fleet' = [fleet EXCEPT ![n] = m]
    <2>1. CASE Rejected(n)
        <3> DEFINE m == [fleet[n] EXCEPT !.needsRefresh = TRUE]
        <3>1. fleet[n] \in Monitor
            BY <2>1 DEF Rejected, TypeOK
        <3>2. m \in Monitor /\ SameFingerprint(m, fleet[n])
            BY <3>1 DEF Monitor, SameFingerprint
        <3>3. fleet' = [fleet EXCEPT ![n] = m]
            BY <2>1 DEF Rejected
        <3> QED BY <2>1, <3>2, <3>3 DEF Rejected
    <2>2. CASE Reread(n) \/ RefreshStale(n) \/ RefreshAll(n)
        <3>1. \/ fleet' = fleet
              \/ /\ fleet[n] # None
                 /\ fleet' = [fleet EXCEPT ![n] = Refreshed(n, fleet[n])]
            BY <2>2 DEF Reread, RefreshStale, RefreshAll
        <3> QED BY <3>1, RefreshedFits
    <2> QED BY <2>1, <2>2
<1>2. fleet \in [Names -> Monitor \cup {None}]
    BY DEF TypeOK
<1> QED BY <1>0, <1>1, <1>2 DEF SameFingerprint

LEMMA UnlockedKeeps ==
    ASSUME Inv, NEW n \in Names,
           Reread(n) \/ RefreshStale(n) \/ RefreshAll(n) \/ Rejected(n)
    PROVE  Inv'
<1> USE DEF Inv
<1>2. /\ fleet' \in [Names -> Monitor \cup {None}]
      /\ \A k \in Names : /\ fleet[k] = None <=> fleet'[k] = None
                          /\ fleet[k] # None => SameFingerprint(fleet'[k], fleet[k])
    BY SameMonitors
<1>3. UNCHANGED <<clusterVars, planVars, listVars, holder, todo, changed>>
    BY DEF Reread, RefreshStale, RefreshAll, Rejected
<1>4. reread' \in SUBSET Names /\ stale' \in SUBSET Names /\ relist' \in SUBSET Rules
    BY DEF Reread, RefreshStale, RefreshAll, Rejected, TypeOK
<1>5. TypeOK'
    BY <1>2, <1>3, <1>4 DEF TypeOK, clusterVars, planVars, listVars
<1>6. FleetFollows' /\ Accounted'
    BY <1>2, <1>3, SameWatchKeeps DEF planVars, listVars
<1> QED BY <1>5, <1>6

\* Taking the lock: the reloader changes what the fleet should be, the other
\* two find it in line.
LEMMA TakenKeeps ==
    ASSUME Inv, RunOnce \/ SetPlan \/ FindStale \/ RelistFor
    PROVE  Inv'
<1> USE DEF Inv
<1>1. ASSUME RunOnce
      PROVE  TypeOK'
    BY <1>1 DEF RunOnce, TypeOK, clusterVars, planVars, listVars
<1>2. ASSUME RelistFor
      PROVE  TypeOK'
    BY <1>2 DEF RelistFor, TypeOK, clusterVars, planVars, listVars
<1>3. ASSUME SetPlan
      PROVE  TypeOK'
    <2>1. reloads' \in 0 .. MaxReloads
        BY <1>3, DiscoveryAssumption DEF SetPlan, TypeOK
    <2>2. reloads' # None
        BY <2>1, DiscoveryAssumption
    <2>3. PICK p \in Plans : /\ plan' = p /\ current' = Synced(p, reloads')
                             /\ todo' = {i \in DOMAIN p.rules : current[p.rules[i]] = None}
        BY <1>3 DEF SetPlan
    <2>4. current' \in [Rules -> 0 .. MaxReloads \cup {None}]
        BY <2>1, <2>3 DEF Synced, TypeOK
    <2>5. ASSUME NEW i \in DOMAIN p.rules
          PROVE  current'[p.rules[i]] # None
        <3>1. p.rules[i] \in Rules
            BY PlanTypes
        <3> QED BY <2>2, <2>3, <3>1 DEF Synced
    <2> QED BY <1>3, <2>1, <2>3, <2>4, <2>5 DEF SetPlan, TypeOK, clusterVars
<1>4. ASSUME FindStale
      PROVE  TypeOK'
    <2>1. ASSUME NEW n \in Names, fleet[n] # None, fleet[n].kind = "listed"
          PROVE  fleet[n].listing[1] \in Rules
        BY <2>1 DEF TypeOK, Monitor, Listings
    <2>2. relist' \in SUBSET Rules
        BY <1>4, <2>1 DEF FindStale
    <2> QED BY <1>4, <2>2 DEF FindStale, TypeOK, clusterVars, planVars, listVars
<1>5. ASSUME RunOnce \/ RelistFor
      PROVE  FleetFollows' /\ Accounted'
    <2>1. holder = "none" /\ UNCHANGED <<plan, current, contents, up, fleet>>
        BY <1>5 DEF RunOnce, RelistFor, planVars, listVars
    <2>2. FleetFollows'
        BY <2>1 DEF FleetFollows
    <2>3. ASSUME NEW n \in Names, fleet[n] # None, fleet[n].kind # "named"
          PROVE  \E i \in DOMAIN plan.rules : contents[ListingAt(i, plan, current)][n] # None
        <3>1. Finders(n, plan, current, contents) # {}
            BY <2>1, <2>3 DEF FleetFollows, IsFor, SameFingerprint, Desired
        <3> QED BY <3>1 DEF Finders
    <2>4. Accounted'
        BY <2>1, <2>3 DEF Accounted
    <2> QED BY <2>2, <2>4
<1>6. ASSUME SetPlan
      PROVE  FleetFollows' /\ Accounted'
    BY <1>6 DEF SetPlan, FleetFollows, Accounted
<1>7. ASSUME FindStale
      PROVE  FleetFollows' /\ Accounted'
    BY <1>7, SameWatchKeeps DEF FindStale, planVars, listVars, SameFingerprint
<1> QED BY <1>1, <1>2, <1>3, <1>4, <1>5, <1>6, <1>7

\* A list under the lock.
LEMMA ListKeeps ==
    ASSUME Inv, List
    PROVE  Inv'
<1> USE DEF Inv
<1> DEFINE first == First(todo)
           l == ListingAt(first, plan, current)
           found == [n \in Names |->
                       IF cluster[n] # None /\ l[1] \in cluster[n].matches
                       THEN cluster[n] ELSE None]
<1>1. plan \in Plans /\ todo \in SUBSET DOMAIN plan.rules /\ todo # {}
    BY DEF List, TypeOK
<1>2. first \in todo
    BY <1>1, PlanTypes, FirstIsOne
<1>3. l \in Listings
    BY <1>1, <1>2, ListingAtType DEF TypeOK
<1>4. found \in [Names -> SecretContent \cup {None}]
    BY DEF TypeOK
<1>5. /\ todo' = todo \ {first}
      /\ UNCHANGED <<clusterVars, planVars, current, fleet, holder, reread, stale, relist>>
      /\ IF reachable
         THEN /\ contents' = [contents EXCEPT ![l] = found]
              /\ up' = [up EXCEPT ![l] = TRUE]
              /\ changed' = changed \cup
                   {n \in Names : /\ found[n] # None /\ contents[l][n] # None
                                  /\ found[n].version # contents[l][n].version}
         ELSE up' = [up EXCEPT ![l] = FALSE] /\ UNCHANGED <<contents, changed>>
    BY DEF List
<1>6. holder # "none"
    BY DEF List
<1>7. ASSUME NEW i \in DOMAIN plan.rules, i # first
      PROVE  ListingAt(i, plan, current) # l
    BY <1>1, <1>2, <1>7, PlanTypes DEF ListingAt
<1> HIDE DEF found, l, first
<1>8. TypeOK'
    BY <1>3, <1>4, <1>5 DEF TypeOK, clusterVars, planVars
<1>9. FleetFollows'
    BY <1>5, <1>6 DEF FleetFollows
<1>10. Accounted'
    <2> SUFFICES ASSUME holder \in {"discovery", "refresher"},
                        NEW n \in Names, fleet[n] # None, fleet[n].kind # "named"
                 PROVE  \E i \in DOMAIN plan.rules :
                           \/ contents'[ListingAt(i, plan, current)][n] # None
                           \/ i \notin todo' /\ up'[ListingAt(i, plan, current)]
        BY <1>5 DEF Accounted, planVars
    <2>1. PICK i \in DOMAIN plan.rules :
              \/ contents[ListingAt(i, plan, current)][n] # None
              \/ i \notin todo /\ up[ListingAt(i, plan, current)]
        BY DEF Accounted
    <2>2. CASE i # first
        <3>1. ListingAt(i, plan, current) # l
            BY <1>7, <2>2
        <3>2. ListingAt(i, plan, current) \in Listings
            BY <1>1, ListingAtType DEF TypeOK
        <3>3. /\ contents'[ListingAt(i, plan, current)] = contents[ListingAt(i, plan, current)]
              /\ up'[ListingAt(i, plan, current)] = up[ListingAt(i, plan, current)]
            BY <1>5, <3>1, <3>2 DEF TypeOK
        <3> QED BY <1>5, <2>1, <3>3
    <2>3. CASE i = first /\ reachable
        <3>1. up'[l] /\ first \notin todo'
            BY <1>3, <1>5, <2>3 DEF TypeOK
        <3> QED BY <2>3, <3>1 DEF l
    <2>4. CASE i = first /\ ~reachable
        <3>1. contents' = contents /\ contents[ListingAt(i, plan, current)][n] # None
            BY <1>2, <1>5, <2>1, <2>4
        <3> QED BY <3>1
    <2> QED BY <2>2, <2>3, <2>4
<1> QED BY <1>8, <1>9, <1>10

\* Bringing the fleet in line.
LEMMA ApplyKeeps ==
    ASSUME Inv, Apply
    PROVE  Inv'
<1> USE DEF Inv
<1>1. plan \in Plans /\ ListTypes(plan, current, contents)
    BY DEF TypeOK, ListTypes
<1>2. UNCHANGED <<clusterVars, planVars, listVars, todo>> /\ holder' = "none"
    BY DEF Apply
<1>3. ASSUME NEW n \in Names
      PROVE  /\ fleet'[n] \in Monitor \cup {None}
             /\ IsFor(fleet'[n], Desired(n, plan, current, contents))
    <2> DEFINE spec == Desired(n, plan, current, contents)
    <2>1. spec \in BucketSpec \cup {None}
        BY <1>1, DesiredType
    <2>2. fleet'[n] = IF spec = None THEN None
                      ELSE IF fleet[n] # None /\ SameFingerprint(fleet[n], spec)
                      THEN fleet[n] ELSE NewMonitor(n, spec, contents)
        BY DEF Apply, Applied
    <2>3. fleet'[n] \in Monitor \cup {None} /\ IsFor(fleet'[n], spec)
        <3> HIDE DEF spec
        <3> QED BY <2>1, <2>2, NewMonitorFits DEF IsFor, TypeOK
    <2> QED BY <2>3
<1>4. fleet' \in [Names -> Monitor \cup {None}]
    BY <1>3 DEF Apply
<1>5. TypeOK'
    BY <1>2, <1>4 DEF Apply, TypeOK, clusterVars, planVars, listVars
<1>6. FleetFollows'
    BY <1>2, <1>3 DEF FleetFollows, planVars, listVars
<1>7. Accounted'
    BY <1>2 DEF Accounted
<1> QED BY <1>5, <1>6, <1>7

LEMMA StepKeeps ==
    ASSUME Inv, [Next]_vars
    PROVE  Inv'
<1>1. ASSUME UNCHANGED vars
      PROVE  Inv'
    BY <1>1 DEF Inv, TypeOK, FleetFollows, Accounted, vars
<1> QED BY <1>1, OutsideKeeps, TakenKeeps, ListKeeps, ApplyKeeps, UnlockedKeeps DEF Next, Locked

-----------------------------------------------------------------------------
(* The theorems.                                                           *)

\* The invariant holds throughout, and with it what it is made of.
THEOREM DiscoveryInvariant == Spec => []Inv
<1>1. Init => Inv
    BY InitFollows
<1>2. Inv /\ [Next]_vars => Inv'
    BY StepKeeps
<1> QED BY <1>1, <1>2, PTL DEF Spec

\* Every state is well typed, and every rule of the plan has its listing, which
\* listings() and desired() look up without a default.
THEOREM DiscoveryTypes == Spec => []TypeOK
<1>1. Inv => TypeOK
    BY DEF Inv
<1> QED BY <1>1, DiscoveryInvariant, PTL

\* Whichever of the discovery, the reloader and the refresher came last, the
\* fleet is what the plan in force and the last lists call for.
THEOREM DiscoveryFleetFollows == Spec => []FleetFollows
<1>1. Inv => FleetFollows
    BY DEF Inv
<1> QED BY <1>1, DiscoveryInvariant, PTL

\* A failed list empties nothing: but for a reload, a found bucket is dropped
\* only when the last list of one of the selectors succeeded without it.
THEOREM DiscoveryOutageDropsNothing == Spec => OutageDropsNothing
<1>1. ASSUME Inv, [Next]_vars, NEW n \in Names,
             fleet[n] # None, fleet[n].kind # "named", fleet'[n] = None,
             holder # "reloader"
      PROVE  \E i \in DOMAIN plan.rules :
                /\ up[ListingAt(i, plan, current)]
                /\ contents[ListingAt(i, plan, current)][n] = None
    <2> DEFINE spec == Desired(n, plan, current, contents)
    <2>1. TypeOK /\ Accounted
        BY <1>1 DEF Inv
    <2>2. Apply
        <3>1. ASSUME NEW k \in Names, Reread(k) \/ RefreshStale(k) \/ RefreshAll(k) \/ Rejected(k)
              PROVE  fleet'[n] # None
            BY <1>1, <2>1, <3>1, SameMonitors
        <3> QED BY <1>1, <3>1 DEF Next, Locked, List, RunOnce, SetPlan, FindStale, RelistFor,
                SecretChanges, ApiBlips, vars
    <2>3. spec \in BucketSpec \cup {None}
        BY <2>1, DesiredType DEF ListTypes, TypeOK
    <2>4. fleet'[n] = IF spec = None THEN None
                      ELSE IF fleet[n] # None /\ SameFingerprint(fleet[n], spec)
                      THEN fleet[n] ELSE NewMonitor(n, spec, contents)
        BY <2>2 DEF Apply, Applied
    <2>5. spec = None
        <3> HIDE DEF spec
        <3> QED BY <1>1, <2>1, <2>3, <2>4, NewMonitorFits DEF TypeOK
    <2>6. \A i \in DOMAIN plan.rules : contents[ListingAt(i, plan, current)][n] = None
        BY <2>1, <2>5, DesiredType DEF ListTypes, TypeOK, Finders
    <2>7. holder \in {"discovery", "refresher"} /\ todo = {}
        BY <1>1, <2>1, <2>2 DEF Apply, TypeOK
    <2>8. PICK i \in DOMAIN plan.rules :
              \/ contents[ListingAt(i, plan, current)][n] # None
              \/ i \notin todo /\ up[ListingAt(i, plan, current)]
        BY <1>1, <2>1, <2>7 DEF Accounted
    <2> QED BY <2>6, <2>8
<1>2. Inv /\ [Next]_vars => [DropsWhatIsGone]_vars
    BY <1>1 DEF DropsWhatIsGone
<1> QED BY <1>2, DiscoveryInvariant, PTL DEF Spec, OutageDropsNothing

-----------------------------------------------------------------------------
(* Rotated keys, for plans of one selector and no rejections (with either, *)
(* the property does not hold).                                            *)

OneSelector == \A p \in Plans : Len(p.rules) <= 1

Found(n) == fleet[n] # None /\ fleet[n].kind = "listed"

\* A found bucket has the values its listing holds, or is to be read again.
InStep ==
    \A n \in Names :
        Found(n) /\ contents[fleet[n].listing][n] # None =>
            \/ fleet[n].taken = contents[fleet[n].listing][n].version
            \/ n \in reread
            \/ holder = "discovery" /\ n \in changed

\* The refresher has nothing to do but its periodic pass.
NoRejection ==
    /\ stale = {} /\ relist = {} /\ holder # "refresher"
    /\ \A n \in Names : fleet[n] # None => ~fleet[n].needsRefresh
    /\ holder = "discovery" => reread = {}

\* The listing a reload adds is newer than those the monitors read from.
Dated ==
    /\ \A r \in Rules : current[r] # None => current[r] <= reloads
    /\ \A n \in Names : Found(n) => fleet[n].listing[2] <= reloads
    /\ holder = "reloader" =>
          /\ \A n \in Names : Found(n) => fleet[n].listing[2] < reloads
          /\ \A i \in todo : current[plan.rules[i]] = reloads

\* What the discovery has yet to list held every found bucket when it was last listed.
ToList ==
    holder = "discovery" =>
        \A i \in todo, n \in Names :
            Found(n) => contents[ListingAt(i, plan, current)][n] # None

TakenInv == InStep /\ NoRejection /\ Dated /\ ToList

LEMMA OnlyPlace ==
    ASSUME OneSelector, NEW p \in Plans, NEW i \in DOMAIN p.rules, NEW j \in DOMAIN p.rules
    PROVE  i = j
<1>1. p.rules \in Seq(Rules) /\ Len(p.rules) <= 1
    BY PlanTypes DEF OneSelector
<1>2. Len(p.rules) \in Nat /\ DOMAIN p.rules = 1 .. Len(p.rules)
    BY <1>1
<1> QED BY <1>1, <1>2

\* A monitor that reads again from its listing.
LEMMA RefreshedTakes ==
    ASSUME TypeOK, NEW n \in Names, fleet[n] # None
    PROVE  LET m == Refreshed(n, fleet[n])
           IN  /\ m.kind = fleet[n].kind /\ m.listing = fleet[n].listing /\ ~m.needsRefresh
               /\ Found(n) /\ contents[fleet[n].listing][n] # None =>
                      m.taken = contents[fleet[n].listing][n].version
<1>1. fleet[n] \in Monitor
    BY DEF TypeOK
<1>2. Found(n) /\ contents[fleet[n].listing][n] # None =>
          contents[fleet[n].listing][n] \in SecretContent
    BY <1>1 DEF TypeOK, Monitor, Found
<1>3. \A c \in SecretContent : c.version \in 1 .. MaxChanges + 1 /\ c.version # 0
    BY DiscoveryAssumption DEF SecretContent
<1>4. Found(n) /\ contents[fleet[n].listing][n] # None =>
          /\ ReadFrom(n, fleet[n], contents) = contents[fleet[n].listing][n].version
          /\ ReadFrom(n, fleet[n], contents) # 0
    BY <1>2, <1>3 DEF ReadFrom, Found
<1> QED BY <1>1, <1>4 DEF Refreshed, Monitor

\* A monitor made for a bucket a listing found.
LEMMA NewMonitorTakes ==
    ASSUME NEW p \in Plans, NEW cur, NEW found, ListTypes(p, cur, found), NEW n \in Names,
           Desired(n, p, cur, found) # None
    PROVE  LET m == NewMonitor(n, Desired(n, p, cur, found), found)
           IN  /\ ~m.needsRefresh
               /\ m.kind = "listed" =>
                     /\ \E i \in DOMAIN p.rules : m.listing = ListingAt(i, p, cur)
                     /\ m.taken = found[m.listing][n].version
<1> DEFINE i == First(Finders(n, p, cur, found))
           spec == Desired(n, p, cur, found)
<1>1. CASE n \in p.named
    BY <1>1 DEF Desired, NewMonitor
<1>2. CASE n \notin p.named
    <2>1. Finders(n, p, cur, found) # {} /\ spec = DiscoveredSpec(n, i, p, cur, found)
        BY <1>2 DEF Desired
    <2>2. Finders(n, p, cur, found) \in SUBSET Nat
        BY PlanTypes DEF Finders
    <2>3. i \in DOMAIN p.rules /\ found[ListingAt(i, p, cur)][n] # None
        BY <2>1, <2>2, FirstIsOne DEF Finders
    <2>4. spec.listing = ListingAt(i, p, cur)
        BY <2>1 DEF DiscoveredSpec
    <2> HIDE DEF i, spec
    <2>5. spec.kind = "listed" => ReadFrom(n, spec, found) = found[spec.listing][n].version
        BY <2>3, <2>4 DEF ReadFrom
    <2> QED BY <2>3, <2>4, <2>5 DEF NewMonitor, spec
<1> QED BY <1>1, <1>2

LEMMA InitTaken == ASSUME Init PROVE TakenInv
<1>1. Inv /\ TypeOK /\ plan \in Plans /\ ListTypes(plan, current, contents)
    BY InitFollows DEF Inv, TypeOK, ListTypes
<1>2. \A r \in Rules : current[r] # None => current[r] = 0
    BY DEF Init
<1>3. ASSUME NEW n \in Names
      PROVE  /\ fleet[n] # None => ~fleet[n].needsRefresh
             /\ Found(n) => /\ fleet[n].taken = contents[fleet[n].listing][n].version
                            /\ fleet[n].listing[2] = 0
    <2>1. CASE fleet[n] = None
        BY <2>1 DEF Found
    <2>2. CASE fleet[n] # None
        <3> DEFINE spec == Desired(n, plan, current, contents)
        <3>1. spec # None /\ fleet[n] = NewMonitor(n, spec, contents)
            BY <2>2 DEF Init
        <3>2. /\ ~fleet[n].needsRefresh
              /\ Found(n) => /\ \E i \in DOMAIN plan.rules : fleet[n].listing = ListingAt(i, plan, current)
                             /\ fleet[n].taken = contents[fleet[n].listing][n].version
            BY <1>1, <3>1, NewMonitorTakes DEF Found
        <3>3. \A i \in DOMAIN plan.rules : ListingAt(i, plan, current)[2] = 0
            BY <1>1, <1>2, PlanTypes DEF ListingAt, TypeOK
        <3> QED BY <3>2, <3>3
    <2> QED BY <2>1, <2>2
<1>4. holder = "none" /\ reloads = 0 /\ todo = {} /\ stale = {} /\ relist = {} /\ reread = {} /\ changed = {}
    BY DEF Init
<1>5. InStep /\ NoRejection
    BY <1>3, <1>4 DEF InStep, NoRejection
<1>6. Dated
    BY <1>2, <1>3, <1>4 DEF Dated
<1>7. ToList
    BY <1>4 DEF ToList
<1> QED BY <1>5, <1>6, <1>7 DEF TakenInv

\* Taking the lock.
LEMMA LockTaken ==
    ASSUME OneSelector, Inv, TakenInv, RunOnce \/ SetPlan \/ FindStale \/ RelistFor
    PROVE  TakenInv'
<1> USE DEF Inv, TakenInv
<1>1. ASSUME RunOnce PROVE TakenInv'
    <2>1. /\ holder = "none" /\ reread = {} /\ holder' = "discovery"
          /\ todo' = DOMAIN plan.rules
          /\ UNCHANGED <<plan, reloads, current, contents, fleet, reread, stale, relist>>
        BY <1>1 DEF RunOnce, planVars, listVars
    <2>2. InStep' /\ NoRejection' /\ Dated'
        BY <2>1 DEF InStep, NoRejection, Dated, Found
    <2>3. ASSUME NEW i \in DOMAIN plan.rules, NEW n \in Names, Found(n)
          PROVE  contents[ListingAt(i, plan, current)][n] # None
        <3>1. Finders(n, plan, current, contents) # {}
            BY <2>1, <2>3 DEF FleetFollows, IsFor, SameFingerprint, Desired, Found
        <3>2. PICK j \in DOMAIN plan.rules : contents[ListingAt(j, plan, current)][n] # None
            BY <3>1 DEF Finders
        <3> QED BY <3>2, OnlyPlace DEF TypeOK
    <2>4. ToList'
        BY <2>1, <2>3 DEF ToList, Found
    <2> QED BY <2>2, <2>4
<1>2. ASSUME SetPlan PROVE TakenInv'
    <2>1. /\ holder = "none" /\ holder' = "reloader" /\ reloads' = reloads + 1
          /\ UNCHANGED <<contents, fleet, reread, stale, relist>>
        BY <1>2 DEF SetPlan
    <2>2. PICK p \in Plans : /\ plan' = p /\ current' = Synced(p, reloads')
                             /\ todo' = {i \in DOMAIN p.rules : current[p.rules[i]] = None}
        BY <1>2 DEF SetPlan
    <2>3. InStep' /\ NoRejection' /\ ToList'
        BY <2>1 DEF InStep, NoRejection, ToList, Found
    <2>4. reloads \in Nat /\ \A r \in Rules : current[r] # None => current[r] \in Nat
        BY DiscoveryAssumption DEF TypeOK
    <2>5. \A n \in Names : Found(n) => fleet[n].listing[2] \in Nat
        BY DiscoveryAssumption DEF Found, TypeOK, Monitor, Listings
    <2>6. \A r \in Rules : current'[r] # None => current'[r] <= reloads'
        BY <2>1, <2>2, <2>4 DEF Synced, Dated
    <2>7. \A n \in Names : Found(n) => fleet[n].listing[2] < reloads'
        BY <2>1, <2>4, <2>5 DEF Dated
    <2>8. \A i \in todo' : current'[p.rules[i]] = reloads'
        BY <2>2, PlanTypes DEF Synced
    <2> QED BY <2>1, <2>2, <2>3, <2>4, <2>5, <2>6, <2>7, <2>8 DEF Dated, Found
<1>3. ~FindStale /\ ~RelistFor
    BY DEF FindStale, RelistFor, NoRejection
<1> QED BY <1>1, <1>2, <1>3

\* A list: what it changes of a found bucket's values, it notes.
LEMMA ListTaken ==
    ASSUME OneSelector, Inv, TakenInv, List
    PROVE  TakenInv'
<1> USE DEF Inv, TakenInv
<1>1. PICK first : first = First(todo)
    OBVIOUS
<1>2. first \in todo /\ first \in DOMAIN plan.rules /\ plan \in Plans
    BY <1>1, PlanTypes, FirstIsOne DEF List, TypeOK
<1>3. PICK l \in Listings : l = ListingAt(first, plan, current)
    BY <1>2, ListingAtType DEF TypeOK
<1>4. PICK found \in [Names -> SecretContent \cup {None}] :
          found = [n \in Names |-> IF cluster[n] # None /\ l[1] \in cluster[n].matches
                                   THEN cluster[n] ELSE None]
    BY DEF TypeOK
<1>5. /\ todo' = todo \ {first} /\ holder # "none"
      /\ UNCHANGED <<plan, reloads, current, fleet, holder, reread, stale, relist>>
      /\ \/ /\ contents' = [contents EXCEPT ![l] = found]
            /\ changed' = changed \cup
                 {n \in Names : /\ found[n] # None /\ contents[l][n] # None
                                /\ found[n].version # contents[l][n].version}
         \/ UNCHANGED <<contents, changed>>
    BY <1>1, <1>3, <1>4 DEF List, planVars
<1>6. NoRejection' /\ Dated'
    BY <1>5 DEF NoRejection, Dated, Found
<1>7. ToList'
    <2>1. todo' = {}
        BY <1>2, <1>5, OnlyPlace DEF TypeOK
    <2> QED BY <2>1 DEF ToList
<1>8. ASSUME NEW n \in Names, Found(n), fleet[n].listing = l, holder = "discovery"
      PROVE  contents[l][n] # None
    BY <1>2, <1>3, <1>8 DEF ToList
<1>9. ASSUME NEW n \in Names, Found(n), fleet[n].listing = l
      PROVE  holder = "discovery"
    <2>1. CASE holder = "reloader"
        <3>1. l[2] = reloads /\ l[2] < reloads
            BY <1>2, <1>3, <1>9, <2>1 DEF Dated, ListingAt
        <3>2. reloads \in Nat
            BY DiscoveryAssumption DEF TypeOK
        <3> QED BY <3>1, <3>2
    <2> QED BY <1>5, <2>1 DEF NoRejection, TypeOK
<1>10. ASSUME NEW n \in Names, Found(n), contents'[fleet[n].listing][n] # None
       PROVE  \/ fleet[n].taken = contents'[fleet[n].listing][n].version
              \/ n \in reread
              \/ holder = "discovery" /\ n \in changed'
    <2>1. fleet[n].listing \in Listings
        BY <1>10 DEF Found, TypeOK, Monitor
    <2>2. CASE contents' = contents
        <3>1. changed \subseteq changed'
            BY <1>5
        <3> QED BY <1>10, <2>2, <3>1 DEF InStep
    <2>3. CASE contents' # contents /\ fleet[n].listing # l
        <3>1. contents'[fleet[n].listing] = contents[fleet[n].listing] /\ changed \subseteq changed'
            BY <1>5, <2>1, <2>3 DEF TypeOK
        <3> QED BY <1>10, <3>1 DEF InStep
    <2>4. CASE contents' # contents /\ fleet[n].listing = l
        <3>1. /\ contents'[l] = found /\ holder = "discovery" /\ contents[l][n] # None
              /\ changed' = changed \cup
                   {k \in Names : /\ found[k] # None /\ contents[l][k] # None
                                  /\ found[k].version # contents[l][k].version}
            BY <1>3, <1>5, <1>8, <1>9, <1>10, <2>4 DEF TypeOK
        <3> QED BY <1>10, <2>4, <3>1 DEF InStep
    <2> QED BY <1>5, <2>2, <2>3, <2>4
<1>11. InStep'
    BY <1>5, <1>10 DEF InStep, Found
<1> QED BY <1>6, <1>7, <1>11

\* The fleet brought in line: the discovery keeps what it saw change to read it again.
LEMMA ApplyTaken ==
    ASSUME Inv, TakenInv, Apply
    PROVE  TakenInv'
<1> USE DEF Inv, TakenInv
<1>1. plan \in Plans /\ ListTypes(plan, current, contents)
    BY DEF TypeOK, ListTypes
<1>2. /\ holder' = "none" /\ UNCHANGED <<plan, reloads, current, contents, todo>>
      /\ reread' = (IF holder = "discovery" THEN changed ELSE reread) /\ stale' = {} /\ relist' = {}
    BY DEF Apply, NoRejection, planVars, listVars
<1>3. holder = "discovery" => reread = {}
    BY DEF NoRejection
<1>4. ASSUME NEW n \in Names, fleet'[n] # None
      PROVE  \/ fleet'[n] = fleet[n]
             \/ /\ ~fleet'[n].needsRefresh
                /\ fleet'[n].kind = "listed" =>
                      /\ \E i \in DOMAIN plan.rules : fleet'[n].listing = ListingAt(i, plan, current)
                      /\ fleet'[n].taken = contents[fleet'[n].listing][n].version
    <2> DEFINE spec == Desired(n, plan, current, contents)
    <2>1. fleet'[n] = IF spec = None THEN None
                      ELSE IF fleet[n] # None /\ SameFingerprint(fleet[n], spec)
                      THEN fleet[n] ELSE NewMonitor(n, spec, contents)
        BY DEF Apply, Applied
    <2>2. \/ fleet'[n] = fleet[n]
          \/ fleet'[n] = NewMonitor(n, spec, contents) /\ spec # None
        BY <1>4, <2>1
    <2> QED BY <1>1, <2>2, NewMonitorTakes
<1>5. InStep'
    <2> SUFFICES ASSUME NEW n \in Names, Found(n)', contents[fleet'[n].listing][n] # None
                 PROVE  \/ fleet'[n].taken = contents[fleet'[n].listing][n].version
                        \/ n \in reread'
        BY <1>2 DEF InStep
    <2>1. CASE fleet'[n] = fleet[n]
        BY <1>2, <1>3, <2>1 DEF InStep, Found
    <2>2. CASE fleet'[n] # fleet[n]
        BY <1>4, <2>2 DEF Found
    <2> QED BY <2>1, <2>2
<1>6. NoRejection'
    BY <1>2, <1>4 DEF NoRejection
<1>7. Dated'
    <2>1. ASSUME NEW n \in Names, Found(n)' PROVE fleet'[n].listing[2] <= reloads
        <3>1. CASE fleet'[n] = fleet[n]
            BY <2>1, <3>1 DEF Dated, Found
        <3>2. CASE fleet'[n] # fleet[n]
            <4>1. PICK i \in DOMAIN plan.rules : fleet'[n].listing = ListingAt(i, plan, current)
                BY <1>4, <2>1, <3>2 DEF Found
            <4>2. plan.rules[i] \in Rules /\ current[plan.rules[i]] # None
                BY <1>1, PlanTypes DEF TypeOK
            <4> QED BY <4>1, <4>2 DEF Dated, ListingAt
        <3> QED BY <3>1, <3>2
    <2> QED BY <1>2, <2>1 DEF Dated
<1>8. ToList'
    BY <1>2 DEF ToList
<1> QED BY <1>5, <1>6, <1>7, <1>8

\* A refresh takes what its listing holds.
LEMMA UnlockedTaken ==
    ASSUME ~Rejects, Inv, TakenInv, NEW k \in Names,
           Reread(k) \/ RefreshStale(k) \/ RefreshAll(k) \/ Rejected(k)
    PROVE  TakenInv'
<1> USE DEF Inv, TakenInv
<1>1. Reread(k) \/ RefreshAll(k)
    BY DEF Rejected, RefreshStale, NoRejection
<1>2. UNCHANGED <<plan, reloads, current, contents, holder, todo, changed, stale, relist>>
      /\ reread' \in {reread, reread \ {k}} /\ (Reread(k) => holder # "discovery")
    BY <1>1 DEF Reread, RefreshAll, planVars, listVars
<1>3. \/ /\ fleet[k] # None /\ fleet' = [fleet EXCEPT ![k] = Refreshed(k, fleet[k])]
      \/ fleet' = fleet /\ ~Found(k)
    BY <1>1 DEF Reread, RefreshAll, Found
<1>4. ASSUME NEW n \in Names, n # k PROVE fleet'[n] = fleet[n]
    BY <1>3, <1>4 DEF TypeOK
<1>5. /\ fleet'[k] # None => fleet[k] # None /\ ~fleet'[k].needsRefresh
      /\ Found(k)' => /\ Found(k) /\ fleet'[k].listing = fleet[k].listing
                      /\ contents[fleet[k].listing][k] # None =>
                             fleet'[k].taken = contents[fleet[k].listing][k].version
    <2>1. CASE fleet' = fleet /\ ~Found(k)
        BY <2>1 DEF Found, NoRejection
    <2>2. CASE fleet[k] # None /\ fleet' = [fleet EXCEPT ![k] = Refreshed(k, fleet[k])]
        <3>1. fleet'[k] = Refreshed(k, fleet[k])
            BY <2>2 DEF TypeOK
        <3> QED BY <2>2, <3>1, RefreshedTakes DEF Found
    <2> QED BY <1>3, <2>1, <2>2
<1>6. InStep'
    BY <1>2, <1>4, <1>5 DEF InStep, Found
<1>7. NoRejection' /\ Dated' /\ ToList'
    BY <1>2, <1>4, <1>5 DEF NoRejection, Dated, ToList, Found
<1> QED BY <1>6, <1>7

\* For any Secrets and changes, reloads between plans of one selector each, and any
\* interleaving of the threads: once they are at rest, a found bucket has taken the
\* values that its listing holds, although only the discovery reads what changed.
THEOREM DiscoveryRotationTaken ==
    ASSUME OneSelector, ~Rejects PROVE Spec => []RotationTakenNow
<1>1. Init => TakenInv
    BY InitTaken
<1>2. Inv /\ TakenInv /\ [Next]_vars => TakenInv'
    <2> SUFFICES ASSUME Inv, TakenInv, [Next]_vars PROVE TakenInv'
        OBVIOUS
    <2>1. CASE SecretChanges \/ ApiBlips \/ UNCHANGED vars
        <3>1. UNCHANGED <<plan, reloads, current, contents, fleet, holder, todo, changed, reread, stale, relist>>
            BY <2>1 DEF SecretChanges, ApiBlips, vars, planVars, listVars
        <3> QED BY <3>1 DEF TakenInv, InStep, NoRejection, Dated, ToList, Found
    <2> QED BY <2>1, LockTaken, ListTaken, ApplyTaken, UnlockedTaken DEF Next, Locked
<1>3. TakenInv => RotationTakenNow
    BY DEF TakenInv, InStep, Found, RotationTakenNow
<1> QED BY <1>1, <1>2, <1>3, DiscoveryInvariant, PTL DEF Spec

=============================================================================
