--------------------- MODULE CredentialsRefresherProofs ---------------------
(***************************************************************************)
(* What CredentialsRefresher and FleetApply guarantee for any keys,        *)
(* endpoints and plans.  The argument: a monitor built by an apply is new  *)
(* (its number was never given), so the swap can only bring in monitors    *)
(* nobody stopped, and what it takes out is kept in `retired` until it is  *)
(* stopped; whatever the refresher holds is in the fleet, retired, or      *)
(* stopped already.  And only the swap changes what the fleet shows, a     *)
(* whole plan at once: FleetApply implements WatchedFleet.                 *)
(***************************************************************************)
EXTENDS CredentialsRefresher, TLAPS

\* What is true of the fleet and of an apply at each of its steps.
Placed ==
    /\ \A k \in Keys : fleet[k] <= built[k]
    /\ \A k \in Keys : fleet[k] # 0 => endpoint[<<k, fleet[k]>>] \in Endpoints
    /\ apc = "build" =>
          \A k \in Keys :
             IF k \in building THEN built[k] < MaxBuilt /\ Changed(k, wanted)
             ELSE Changed(k, wanted) =>
                     /\ fleet[k] < built[k]
                     /\ endpoint[<<k, built[k]>>] = wanted[k]
    /\ apc # "build" => building = {}
    /\ apc = "stop" => \A k \in Keys : ~Changed(k, wanted) /\ (wanted[k] = None => fleet[k] = 0)
    /\ apc # "stop" => retired = {}

\* Monitors have numbers that were given; the retired are out of the fleet.
Numbered ==
    /\ \A m \in stopped \cup retired : m[2] <= built[m[1]]
    /\ Started \cap stopped = {} \/ apc # "build"
    /\ retired \cap InFleet = {}

\* What the refresher holds: in the fleet, or on its way out.
Held == look \cup todo \cup (IF reading = None THEN {} ELSE {reading})

HeldKnown == Held \subseteq InFleet \cup retired \cup stopped

FleetInv == TypeOK /\ Placed /\ Numbered /\ HeldKnown /\ OneWatcher /\ AppliedWhole

-----------------------------------------------------------------------------

LEMMA Pointwise ==
    ASSUME FleetTypes, NEW k \in Keys
    PROVE  /\ fleet[k] \in Int /\ built[k] \in Int /\ MaxBuilt \in Int
           /\ 0 <= fleet[k] /\ fleet[k] <= MaxBuilt
           /\ 0 <= built[k] /\ built[k] <= MaxBuilt
           /\ wanted[k] \in Endpoints \cup {None}
BY FleetAssumption DEF FleetTypes

LEMMA NumberGiven ==
    ASSUME NEW k \in Keys, NEW n \in Int, 1 <= n, n <= MaxBuilt
    PROVE  <<k, n>> \in Monitors
BY FleetAssumption DEF Monitors

LEMMA InFleetFacts ==
    ASSUME TypeOK
    PROVE  /\ InFleet \subseteq Monitors
           /\ \A k \in Keys, n \in 1 .. MaxBuilt : <<k, n>> \in InFleet <=> fleet[k] = n
           /\ \A m \in Monitors : m[1] \in Keys /\ m[2] \in 1 .. MaxBuilt /\ m = <<m[1], m[2]>>
<1>. USE FleetAssumption DEF TypeOK, FleetTypes, InFleet, Monitors
<1>1. \A k \in Keys : fleet[k] \in 0 .. MaxBuilt
  OBVIOUS
<1>2. InFleet \subseteq Monitors
  BY <1>1
<1>3. \A k \in Keys, n \in 1 .. MaxBuilt : <<k, n>> \in InFleet <=> fleet[k] = n
  BY <1>1
<1>. QED BY <1>2, <1>3

\* The monitors of an apply that has begun, by their keys.
LEMMA StartedFacts ==
    ASSUME TypeOK, Placed, apc = "build"
    PROVE  /\ Started \subseteq Monitors
           /\ \A k \in Keys, n \in 1 .. MaxBuilt :
                 <<k, n>> \in Started <=> k \notin building /\ Changed(k, wanted) /\ n = built[k]
<1>1. ASSUME NEW k \in Keys \ building, Changed(k, wanted)
      PROVE  built[k] \in 1 .. MaxBuilt
  <2>1. fleet[k] < built[k]
    BY <1>1 DEF Placed
  <2>2. FleetTypes
    BY DEF TypeOK
  <2>. QED BY <2>1, <2>2, Pointwise
<1>. QED BY <1>1 DEF Started, Monitors

LEMMA InitFleetInv == Init => FleetInv
<1>. SUFFICES ASSUME Init PROVE FleetInv
  OBVIOUS
<1>. USE FleetAssumption, RefresherAssumption DEF Init, FleetInit
<1>1. \A k \in Keys : wanted[k] \in Endpoints \cup {None}
  OBVIOUS
<1>2. \A k \in Keys : fleet[k] = IF wanted[k] = None THEN 0 ELSE 1
  OBVIOUS
<1>3. \A m \in InFleet : m \in Monitors /\ endpoint[m] \in Endpoints
  <2>1. ASSUME NEW k \in Keys, fleet[k] # 0
        PROVE  <<k, fleet[k]>> \in Monitors /\ endpoint[<<k, fleet[k]>>] \in Endpoints
    <3>1. fleet[k] = 1 /\ wanted[k] \in Endpoints
      BY <1>1, <1>2, <2>1
    <3>2. <<k, 1>> \in Monitors
      BY NumberGiven
    <3>3. endpoint[<<k, 1>>] = wanted[k]
      BY <3>2
    <3>. QED BY <3>1, <3>2, <3>3
  <2>. HIDE DEF Init, FleetInit
  <2>. QED BY <2>1, Zenon DEF InFleet
<1>4. TypeOK
  <2>1. fleet \in [Keys -> 0 .. MaxBuilt]
    BY <1>2
  <2>2. endpoint \in [Monitors -> Endpoints \cup {None}]
    BY <1>1 DEF Monitors
  <2>3. Watched \subseteq Endpoints /\ probing \subseteq Monitors
    BY <1>3 DEF Watched
  <2>4. FleetTypes
    BY <2>1, <2>2, <2>3 DEF FleetTypes
  <2>5. /\ rejections = 0 /\ recent = {} /\ needs = {} /\ requested = FALSE
        /\ asking \in [Monitors \X Askers -> {"no", "flag", "request"}]
        /\ rpc = "wait" /\ look = {} /\ todo = {} /\ reading = None /\ unread = {}
    <3>. HIDE DEF FleetInit
    <3>. QED OBVIOUS
  <2>6. 0 \in 0 .. MaxRejections
    OBVIOUS
  <2>. HIDE DEF FleetInit, Init
  <2>. QED BY <2>4, <2>5, <2>6, Zenon DEF TypeOK
<1>5. \A k \in Keys : fleet[k] # 0 => endpoint[<<k, fleet[k]>>] = wanted[k]
  BY <1>2 DEF Monitors
<1>6. Placed
  BY <1>1, <1>2, <1>5 DEF Placed
<1>7. Numbered /\ HeldKnown
  BY DEF Numbered, HeldKnown, Held
<1>8. OneWatcher
  BY DEF OneWatcher
<1>9. AppliedWhole
  BY <1>2, <1>5 DEF AppliedWhole, Changed
<1>. QED BY <1>4, <1>6, <1>7, <1>8, <1>9 DEF FleetInv

-----------------------------------------------------------------------------
(* The steps of an apply.                                                  *)

\* What a step of the Discoverer's threads leaves to show.
FleetPart == FleetTypes /\ Placed /\ Numbered /\ OneWatcher /\ AppliedWhole

LEMMA ApplyBeginsInv ==
    ASSUME FleetInv, ApplyBegins
    PROVE  FleetPart' /\ InFleet' = InFleet /\ retired' = retired /\ stopped' = stopped
<1>. USE FleetAssumption DEF FleetInv, ApplyBegins, monitorVars
<1>1. InFleet' = InFleet /\ retired' = retired /\ stopped' = stopped
  BY DEF InFleet
<1>2. \A k \in Keys : Changed(k, wanted)' = Changed(k, wanted')
  BY DEF Changed
<1>3. FleetTypes'
  BY DEF TypeOK, FleetTypes
<1>4. Placed'
  BY <1>2 DEF Placed, TypeOK, FleetTypes
<1>5. Started' = {}
  BY <1>2 DEF Started
<1>6. Numbered'
  BY <1>1, <1>5 DEF Numbered
<1>7. OneWatcher'
  BY <1>1, <1>5 DEF OneWatcher, InApply, Placed
<1>8. AppliedWhole'
  BY DEF AppliedWhole
<1>. QED BY <1>1, <1>3, <1>4, <1>6, <1>7, <1>8 DEF FleetPart

LEMMA BuildInv ==
    ASSUME FleetInv, NEW k \in Keys, Build(k)
    PROVE  FleetPart' /\ InFleet' = InFleet /\ retired' = retired /\ stopped' = stopped
<1>. USE FleetAssumption DEF FleetInv, Build
<1>. DEFINE new == <<k, built[k] + 1>>
<1>0. TypeOK /\ FleetTypes /\ Placed /\ apc = "build"
  BY DEF TypeOK
<1>1. InFleet' = InFleet /\ retired' = retired /\ stopped' = stopped
  BY DEF InFleet
<1>2. built[k] \in 0 .. MaxBuilt - 1 /\ built'[k] = built[k] + 1 /\ new \in Monitors
  <2>1. built[k] < MaxBuilt
    BY <1>0 DEF Placed
  <2>2. built[k] \in Int /\ 0 <= built[k] /\ MaxBuilt \in Int
    BY <1>0, Pointwise
  <2>3. built'[k] = built[k] + 1
    BY <1>0 DEF FleetTypes
  <2>. QED BY <2>1, <2>2, <2>3, NumberGiven
<1>3. \A j \in Keys : j # k => built'[j] = built[j]
  BY <1>0 DEF FleetTypes
<1>4. \A m \in Monitors : endpoint'[m] = IF m = new THEN wanted[k] ELSE endpoint[m]
  BY <1>0, <1>2 DEF FleetTypes
<1>5. \A j \in Keys : fleet[j] # 0 => <<j, fleet[j]>> \in Monitors /\ <<j, fleet[j]>> # new
  BY <1>0, <1>2 DEF Placed, FleetTypes, Monitors
<1>6. \A j \in Keys : fleet[j] # 0 => endpoint'[<<j, fleet[j]>>] = endpoint[<<j, fleet[j]>>]
  BY <1>4, <1>5
<1>7. \A j \in Keys : Changed(j, wanted)' <=> Changed(j, wanted)
  BY <1>6 DEF Changed
<1>8. wanted[k] \in Endpoints
  BY <1>0 DEF Placed, Changed, FleetTypes
<1>9. FleetTypes'
  <2>1. built' \in [Keys -> 0 .. MaxBuilt]
    BY <1>0, <1>2, <1>3 DEF FleetTypes
  <2>2. endpoint' \in [Monitors -> Endpoints \cup {None}]
    BY <1>0, <1>2, <1>8 DEF FleetTypes
  <2>. QED BY <1>0, <1>2, <2>1, <2>2 DEF FleetTypes
<1>10. Placed'
  <2>1. \A j \in Keys : fleet[j] <= built'[j]
    BY <1>0, <1>2, <1>3 DEF Placed, FleetTypes
  <2>2. \A j \in Keys : fleet[j] # 0 => endpoint'[<<j, fleet[j]>>] \in Endpoints
    BY <1>0, <1>6 DEF Placed
  <2>3. ASSUME NEW j \in Keys, j \in building'
        PROVE  built'[j] < MaxBuilt /\ Changed(j, wanted)'
    BY <1>0, <1>3, <1>7, <2>3 DEF Placed
  <2>4. ASSUME NEW j \in Keys, j \notin building', Changed(j, wanted)'
        PROVE  fleet'[j] < built'[j] /\ endpoint'[<<j, built'[j]>>] = wanted'[j]
    <3>1. CASE j = k
      BY <1>0, <1>2, <1>4, <3>1 DEF Placed, FleetTypes
    <3>2. CASE j # k
      <4>1. fleet[j] < built[j] /\ endpoint[<<j, built[j]>>] = wanted[j]
        BY <1>0, <1>7, <2>4, <3>2 DEF Placed
      <4>2. <<j, built[j]>> \in Monitors /\ <<j, built[j]>> # new
        BY <1>0, <3>2, <4>1 DEF Monitors, FleetTypes
      <4>. QED BY <1>3, <1>4, <3>2, <4>1, <4>2
    <3>. QED BY <3>1, <3>2
  <2>. QED BY <1>0, <2>1, <2>2, <2>3, <2>4 DEF Placed
<1>11. Started' = Started \cup {new}
  <2>. DEFINE before == {j \in Keys \ building : Changed(j, wanted)}
              after == {j \in Keys \ building' : Changed(j, wanted)'}
  <2>1. after = before \cup {k} /\ k \notin before
    BY <1>0, <1>7 DEF Placed
  <2>2. \A j \in before : built'[j] = built[j]
    BY <1>3, <2>1
  <2>. HIDE DEF before, after
  <2>3. {<<j, built'[j]>> : j \in after} = {<<j, built[j]>> : j \in before} \cup {new}
    BY <1>2, <2>1, <2>2
  <2>. QED BY <2>3 DEF Started, before, after
<1>12. Numbered'
  <2>1. \A m \in stopped \cup retired : m \in Monitors /\ m[1] \in Keys
    BY <1>0 DEF FleetTypes, Monitors
  <2>2. \A m \in stopped \cup retired : m[2] <= built'[m[1]]
    BY <1>0, <1>2, <1>3, <2>1 DEF Numbered, FleetTypes, Monitors
  <2>3. new \notin stopped
    BY <1>2 DEF Numbered
  <2>. QED BY <1>0, <1>1, <1>11, <2>2, <2>3 DEF Numbered
<1>13. OneWatcher'
  BY <1>0, <1>1, <1>2, <1>11 DEF OneWatcher, InApply
<1>14. AppliedWhole'
  BY <1>0 DEF AppliedWhole
<1>. QED BY <1>1, <1>9, <1>10, <1>12, <1>13, <1>14 DEF FleetPart

LEMMA RaisesInv ==
    ASSUME FleetInv, BuildRaises \/ SyncRaises
    PROVE  FleetPart' /\ InFleet' = InFleet /\ retired' = retired /\ stopped' = stopped
<1>. USE DEF FleetInv, BuildRaises, SyncRaises, Raises, monitorVars
<1>1. InFleet' = InFleet /\ retired' = retired /\ stopped' = stopped /\ Watched' = Watched
  BY DEF InFleet, Watched
<1>2. TypeOK /\ FleetTypes /\ Placed
  BY DEF TypeOK
<1>3. retired = {}
  BY DEF Placed
<1>4. abandoned' \subseteq Monitors
  BY <1>2, StartedFacts DEF FleetTypes
<1>5. checkers' \subseteq Endpoints
  <2>1. Watched \subseteq Endpoints
    BY <1>2 DEF Watched, InFleet, Placed
  <2>. QED BY <1>2, <2>1 DEF FleetTypes
<1>6. FleetTypes'
  BY <1>2, <1>4, <1>5 DEF FleetTypes
<1>7. Placed'
  BY <1>2, <1>3 DEF Placed
<1>8. Numbered'
  BY <1>1 DEF Numbered
<1>9. OneWatcher'
  BY <1>1, <1>3 DEF OneWatcher, InApply
<1>10. AppliedWhole'
  BY DEF AppliedWhole
<1>. QED BY <1>1, <1>6, <1>7, <1>8, <1>9, <1>10 DEF FleetPart

\* The monitor each key has after the swap.
LEMMA SwapBrings ==
    ASSUME TypeOK, Placed, Swap, NEW k \in Keys
    PROVE  /\ 0 <= fleet'[k] /\ fleet'[k] <= built[k] /\ fleet'[k] \in Int
           /\ wanted[k] = None => fleet'[k] = 0
           /\ fleet'[k] # 0 => endpoint[<<k, fleet'[k]>>] = wanted[k]
           /\ fleet'[k] # 0 => <<k, fleet'[k]>> \in Started \cup InFleet
           /\ wanted[k] # None => fleet'[k] # 0
           /\ fleet'[k] # 0 => IF Changed(k, wanted) THEN fleet[k] < fleet'[k]
                               ELSE fleet'[k] = fleet[k]
<1>. USE DEF Swap
<1>0. FleetTypes /\ apc = "build"
  BY DEF TypeOK
<1>1. fleet'[k] = IF wanted[k] = None THEN 0
                  ELSE IF Changed(k, wanted) THEN built[k] ELSE fleet[k]
  BY <1>0
<1>2. /\ fleet[k] \in Int /\ built[k] \in Int /\ 0 <= fleet[k] /\ fleet[k] <= built[k]
      /\ 0 <= built[k]
  BY <1>0, Pointwise DEF Placed
<1>3. CASE wanted[k] = None
  BY <1>1, <1>2, <1>3
<1>4. CASE wanted[k] # None /\ Changed(k, wanted)
  <2>1. fleet[k] < built[k] /\ endpoint[<<k, built[k]>>] = wanted[k]
    BY <1>0, <1>4 DEF Placed
  <2>2. <<k, built[k]>> \in Started
    BY <1>4 DEF Started
  <2>. QED BY <1>1, <1>2, <1>4, <2>1, <2>2
<1>5. CASE wanted[k] # None /\ ~Changed(k, wanted)
  <2>1. fleet[k] # 0 /\ endpoint[<<k, fleet[k]>>] = wanted[k]
    BY <1>5 DEF Changed
  <2>2. <<k, fleet[k]>> \in InFleet
    BY <2>1 DEF InFleet
  <2>. QED BY <1>1, <1>2, <1>5, <2>1, <2>2
<1>. QED BY <1>3, <1>4, <1>5

LEMMA SwapInv ==
    ASSUME FleetInv, Swap
    PROVE  /\ FleetPart'
           /\ InFleet \subseteq InFleet' \cup retired' /\ retired = {} /\ stopped' = stopped
<1>. USE DEF FleetInv, Swap
<1>0. TypeOK /\ FleetTypes /\ Placed /\ apc = "build"
  BY DEF TypeOK
<1>1. \A k \in Keys : fleet'[k] = IF wanted[k] = None THEN 0
                                 ELSE IF Changed(k, wanted) THEN built[k] ELSE fleet[k]
  BY <1>0
<1>2. ASSUME NEW k \in Keys
      PROVE  /\ 0 <= fleet'[k] /\ fleet'[k] <= built[k] /\ fleet'[k] \in Int
             /\ wanted[k] = None => fleet'[k] = 0
             /\ fleet'[k] # 0 => endpoint[<<k, fleet'[k]>>] = wanted[k]
             /\ fleet'[k] # 0 => <<k, fleet'[k]>> \in Started \cup InFleet
             /\ wanted[k] # None => fleet'[k] # 0
  BY <1>0, SwapBrings
<1>3. FleetTypes'
  <2>1. \A k \in Keys : fleet'[k] \in 0 .. MaxBuilt
    BY <1>0, <1>2, Pointwise
  <2>2. fleet' \in [Keys -> 0 .. MaxBuilt]
    BY <2>1
  <2>3. retired' \subseteq Monitors
    BY <1>0, InFleetFacts
  <2>. QED BY <1>0, <2>2, <2>3 DEF FleetTypes
<1>4. Placed'
  <2>1. \A k \in Keys : wanted[k] \in Endpoints \cup {None}
    BY <1>0, Pointwise
  <2>2. \A k \in Keys : ~Changed(k, wanted)'
    BY <1>2 DEF Changed
  <2>. QED BY <1>0, <1>2, <2>1, <2>2 DEF Placed
<1>5. InFleet' \subseteq Started \cup InFleet
  BY <1>2 DEF InFleet
<1>6. Started \subseteq InFleet'
  <2>1. ASSUME NEW k \in Keys, Changed(k, wanted) PROVE <<k, built[k]>> \in InFleet'
    <3>1. fleet'[k] = built[k] /\ fleet'[k] # 0
      BY <1>1, <1>2, <2>1 DEF Changed
    <3>. QED BY <3>1 DEF InFleet
  <2>. QED BY <2>1 DEF Started
<1>7. Numbered'
  <2>1. \A m \in InFleet : m[2] <= built[m[1]]
    BY <1>0 DEF InFleet, Placed
  <2>. QED BY <1>0, <1>5, <2>1 DEF Numbered
<1>8. retired = {}
  BY <1>0 DEF Placed
<1>9. OneWatcher'
  BY <1>0, <1>5, <1>6 DEF OneWatcher, InApply, Numbered
<1>10. AppliedWhole'
  BY DEF AppliedWhole
<1>. QED BY <1>3, <1>4, <1>7, <1>8, <1>9, <1>10 DEF FleetPart

LEMMA StopInv ==
    ASSUME FleetInv, NEW m \in Monitors, Stop(m)
    PROVE  /\ FleetPart' /\ InFleet' = InFleet
           /\ retired' \cup stopped' = retired \cup stopped
<1>. USE DEF FleetInv, Stop
<1>0. TypeOK /\ FleetTypes /\ Placed
  BY DEF TypeOK
<1>1. InFleet' = InFleet
  BY DEF InFleet
<1>2. FleetTypes'
  BY <1>0 DEF FleetTypes
<1>3. Placed'
  BY <1>0 DEF Placed, Changed
<1>4. Numbered'
  BY <1>1 DEF Numbered
<1>5. OneWatcher'
  BY <1>1 DEF OneWatcher, InApply, Numbered
<1>6. AppliedWhole'
  BY DEF AppliedWhole
<1>. QED BY <1>1, <1>2, <1>3, <1>4, <1>5, <1>6 DEF FleetPart

LEMMA SyncInv ==
    ASSUME FleetInv, Sync
    PROVE  FleetPart' /\ InFleet' = InFleet /\ retired' = retired /\ stopped' = stopped
<1>. USE DEF FleetInv, Sync, monitorVars
<1>0. TypeOK /\ FleetTypes /\ Placed
  BY DEF TypeOK
<1>1. InFleet' = InFleet /\ retired' = retired /\ stopped' = stopped /\ Watched' = Watched
  BY DEF InFleet, Watched
<1>2. Watched \subseteq Endpoints
  BY <1>0 DEF Watched, InFleet, Placed
<1>3. FleetTypes'
  BY <1>0, <1>2 DEF FleetTypes
<1>4. Placed'
  BY <1>0 DEF Placed, Changed
<1>5. Numbered'
  BY <1>1 DEF Numbered
<1>6. OneWatcher'
  BY <1>1 DEF OneWatcher, InApply
<1>7. AppliedWhole'
  BY <1>0, <1>1 DEF AppliedWhole, Placed, Changed
<1>. QED BY <1>1, <1>3, <1>4, <1>5, <1>6, <1>7 DEF FleetPart

-----------------------------------------------------------------------------
(* The refresher's steps.                                                  *)

\* A monitor the refresher picks is known; one it lets go of is forgotten.
LEMMA StepFleetInv == FleetInv /\ [Next]_vars => FleetInv'
<1>. SUFFICES ASSUME FleetInv, [Next]_vars PROVE FleetInv'
  OBVIOUS
<1>0. TypeOK /\ FleetTypes /\ InFleet \subseteq Monitors
  BY InFleetFacts DEF FleetInv, TypeOK
<1>1. ASSUME FleetPart', InFleet \subseteq InFleet' \cup retired', 
             retired \cup stopped \subseteq retired' \cup stopped',
             UNCHANGED <<look, todo, reading>>, rpc' \in {rpc, "apply", "stale"},
             rejections' = rejections, recent' \subseteq recent \cup Monitors, UNCHANGED askVars,
             unread' \subseteq unread
      PROVE  FleetInv'
  <2>1. TypeOK'
    BY <1>0, <1>1 DEF TypeOK, FleetPart, askVars
  <2>2. Held' = Held
    BY <1>1 DEF Held
  <2>3. HeldKnown'
    BY <1>1, <2>2 DEF HeldKnown, FleetInv
  <2>. QED BY <1>1, <2>1, <2>3 DEF FleetInv, FleetPart
<1>2. ASSUME UNCHANGED fleetVars, TypeOK', Held' \subseteq Held \cup InFleet
      PROVE  FleetInv'
  <2>1. InFleet' = InFleet /\ retired' = retired /\ stopped' = stopped /\ Started' = Started
    BY <1>2 DEF InFleet, Started, Changed, fleetVars, monitorVars, applyVars
  <2>2. HeldKnown'
    BY <1>2, <2>1 DEF HeldKnown, FleetInv
  <2>3. Placed' /\ Numbered' /\ OneWatcher' /\ AppliedWhole'
    BY <1>2, <2>1 DEF FleetInv, Placed, Numbered, OneWatcher, InApply, AppliedWhole, Watched,
                      Changed, fleetVars, monitorVars, applyVars
  <2>. QED BY <1>2, <2>2, <2>3 DEF FleetInv
<1>3. CASE DiscovererApplies
  BY <1>1, <1>3, ApplyBeginsInv DEF DiscovererApplies, passVars, FleetInv
<1>4. CASE RelistFor
  BY <1>1, <1>4, ApplyBeginsInv DEF RelistFor, FleetInv
<1>5. CASE Applies
  <2>1. FleetPart' /\ InFleet \subseteq InFleet' \cup retired'
        /\ retired \cup stopped \subseteq retired' \cup stopped'
    <3>1. CASE \E k \in Keys : Build(k) BY <3>1, BuildInv
    <3>2. CASE BuildRaises \/ SyncRaises BY <3>2, RaisesInv
    <3>3. CASE Swap BY <3>3, SwapInv
    <3>4. CASE \E m \in Monitors : Stop(m) BY <3>4, StopInv
    <3>5. CASE Sync BY <3>5, SyncInv
    <3>. QED BY <1>5, <3>1, <3>2, <3>3, <3>4, <3>5 DEF Applies, ApplyStep
  <2>2. recent' \subseteq recent \cup Monitors /\ unread' \subseteq unread
    BY <1>5 DEF Applies
  <2>3. rpc' \in {rpc, "apply", "stale"} /\ UNCHANGED <<look, todo, reading, rejections, askVars>>
    BY <1>5 DEF Applies
  <2>. QED BY <1>1, <2>1, <2>2, <2>3
<1>6. ASSUME NEW m \in Monitors,
             GapPasses(m) \/ \E t \in Askers : Rejected(m, t) \/ Asks(m, t)
      PROVE  FleetInv'
  <2>1. UNCHANGED <<fleetVars, passVars>>
    BY <1>6 DEF GapPasses, Rejected, Asks, Flag, Request
  <2>2. TypeOK'
    <3>1. FleetTypes'
      BY <1>0, <2>1 DEF FleetTypes, fleetVars, monitorVars, applyVars
    <3>2. UNCHANGED passVars
      BY <2>1
    <3>3. CASE GapPasses(m)
      BY <1>0, <3>1, <3>2, <3>3 DEF TypeOK, GapPasses, askVars, passVars
    <3>4. ASSUME NEW t \in Askers, Rejected(m, t) PROVE TypeOK'
      BY <1>0, <3>1, <3>2, <3>4, RefresherAssumption DEF TypeOK, Rejected, passVars
    <3>5. ASSUME NEW t \in Askers, Flag(m, t) PROVE TypeOK'
      BY <1>0, <3>1, <3>2, <3>5 DEF TypeOK, Flag, passVars
    <3>6. ASSUME NEW t \in Askers, Request(m, t) PROVE TypeOK'
      BY <1>0, <3>1, <3>2, <3>6 DEF TypeOK, Request, passVars
    <3>. QED BY <1>6, <3>3, <3>4, <3>5, <3>6 DEF Asks
  <2>. QED BY <1>2, <2>1, <2>2 DEF Held, passVars
<1>7. CASE Wakes \/ Expires \/ Clear \/ Snapshot \/ Looked \/ PassEnds
  <2>. USE DEF Wakes, Expires, Clear, Snapshot, Looked, PassEnds, Refreshing
  <2>1. UNCHANGED <<fleetVars, rejections, recent, needs, asking, reading, unread>>
    BY <1>7
  <2>2. FleetTypes'
    BY <1>0, <2>1 DEF FleetTypes, fleetVars, monitorVars, applyVars
  <2>3. TypeOK'
    BY <1>0, <1>7, <2>1, <2>2 DEF TypeOK
  <2>4. Held' \subseteq Held \cup InFleet
    BY <1>7 DEF Held
  <2>. QED BY <1>2, <2>1, <2>3, <2>4
<1>8. ASSUME NEW m \in Monitors, Look(m) \/ ReadBegins(m)
      PROVE  FleetInv'
  <2>. USE DEF Look, ReadBegins, Refreshing, askVars
  <2>1. UNCHANGED fleetVars
    BY <1>8
  <2>2. FleetTypes'
    BY <1>0, <2>1 DEF FleetTypes, fleetVars, monitorVars, applyVars
  <2>3. TypeOK'
    BY <1>0, <1>8, <2>2 DEF TypeOK
  <2>4. Held' \subseteq Held
    BY <1>8 DEF Held
  <2>. QED BY <1>2, <2>1, <2>3, <2>4
<1>9. CASE TakeStopped \/ Unreadable
  <2>. USE DEF TakeStopped, Unreadable, askVars
  <2>1. UNCHANGED fleetVars
    BY <1>9
  <2>2. FleetTypes'
    BY <1>0, <2>1 DEF FleetTypes, fleetVars, monitorVars, applyVars
  <2>3. TypeOK'
    BY <1>0, <1>9, <2>2 DEF TypeOK
  <2>4. Held' \subseteq Held
    BY <1>9 DEF Held
  <2>. QED BY <1>2, <2>1, <2>3, <2>4
<1>10. CASE Take
  <2>. USE <1>10 DEF Take, applyVars
  <2>1. reading \in Monitors /\ reading \in InFleet \cup retired
    BY <1>0 DEF TypeOK, FleetInv, HeldKnown, Held
  <2>2. InFleet' = InFleet /\ Started' = Started /\ InApply' = InApply
    BY DEF InFleet, Started, Changed, InApply
  <2>3. FleetTypes'
    BY <1>0, <2>1 DEF FleetTypes
  <2>4. TypeOK'
    BY <1>0, <2>3 DEF TypeOK
  <2>5. Placed' /\ Numbered' /\ AppliedWhole'
    BY <2>2 DEF FleetInv, Placed, Numbered, AppliedWhole, Watched, Changed
  <2>6. retired \subseteq InApply
    BY DEF FleetInv, Placed, InApply
  <2>7. OneWatcher'
    BY <2>1, <2>2, <2>6 DEF FleetInv, OneWatcher
  <2>8. HeldKnown'
    BY <2>2 DEF FleetInv, HeldKnown, Held
  <2>. QED BY <2>4, <2>5, <2>7, <2>8 DEF FleetInv
<1>11. CASE UNCHANGED vars
  <2>1. TypeOK'
    BY <1>0, <1>11 DEF TypeOK, FleetTypes, vars, fleetVars, monitorVars, applyVars, askVars,
                       passVars
  <2>. QED BY <1>2, <1>11, <2>1 DEF Held, vars, passVars
<1>. QED BY <1>3, <1>4, <1>5, <1>6, <1>7, <1>8, <1>9, <1>10, <1>11 DEF Next, Refresh

\* Every reachable state of the fleet, of an apply and of the refresher is well
\* typed.
THEOREM RefresherTypes == Spec => []TypeOK
<1>1. FleetInv => TypeOK
  BY DEF FleetInv
<1>. QED BY <1>1, InitFleetInv, StepFleetInv, PTL DEF Spec

\* fleet.py:72: at every point of an apply no monitor of the fleet was stopped,
\* and no probe runs out of the fleet and of the apply, but those of an apply that
\* raised.
THEOREM FleetOneWatcher == Spec => []OneWatcher
<1>1. FleetInv => OneWatcher
  BY DEF FleetInv
<1>. QED BY <1>1, InitFleetInv, StepFleetInv, PTL DEF Spec

\* endpoints.py:491: once an apply has returned, the fleet and the endpoints
\* checked are what was asked for.
THEOREM FleetAppliedWhole == Spec => []AppliedWhole
<1>1. FleetInv => AppliedWhole
  BY DEF FleetInv
<1>. QED BY <1>1, InitFleetInv, StepFleetInv, PTL DEF Spec

-----------------------------------------------------------------------------
(* The requests.                                                           *)

\* An unread rejection, by where it is: not flagged yet; flagged, with a request
\* to come or the flags yet to be read; or among what the refresher will read.
Pending(m) ==
    \/ \E t \in Askers : asking[<<m, t>>] = "flag"
    \/ /\ m \in needs
       /\ \/ requested
          \/ \E t \in Askers : asking[<<m, t>>] = "request"
          \/ rpc \in {"clear", "snapshot"}
          \/ rpc = "look" /\ m \in look
    \/ m \in todo \/ m = reading

Unread == unread \subseteq InFleet /\ \A m \in unread : Pending(m)

IInv == FleetInv /\ Unread

LEMMA StepIInv == IInv /\ [Next]_vars => IInv'
<1>. SUFFICES ASSUME IInv, [Next]_vars PROVE Unread'
  BY StepFleetInv DEF IInv
<1>0. FleetInv /\ Unread /\ TypeOK
  BY DEF IInv, FleetInv
<1>1. unread \cap stopped = {}
  BY <1>0 DEF Unread, FleetInv, OneWatcher
<1>2. ASSUME UNCHANGED fleetVars PROVE InFleet' = InFleet
  BY <1>2 DEF fleetVars, monitorVars, InFleet
<1>3. None \notin unread
  BY <1>0, FleetAssumption DEF TypeOK
<1>4. CASE DiscovererApplies \/ RelistFor
  <2>1. InFleet' = InFleet
    BY <1>0, <1>4, ApplyBeginsInv DEF DiscovererApplies, RelistFor
  <2>2. UNCHANGED <<askVars, look, todo, reading, unread>> /\ (rpc' = rpc \/ rpc = "relist")
    BY <1>4 DEF DiscovererApplies, RelistFor, passVars
  <2>. QED BY <1>0, <2>1, <2>2 DEF Unread, Pending, askVars
<1>5. CASE Applies
  <2>1. unread' = unread \cap InFleet' /\ UNCHANGED <<askVars, look, todo, reading>>
        /\ (rpc' = rpc \/ rpc = "apply")
    BY <1>5 DEF Applies
  <2>. QED BY <1>0, <2>1 DEF Unread, Pending, askVars
<1>6. ASSUME NEW m \in Monitors, GapPasses(m) PROVE Unread'
  BY <1>0, <1>2, <1>6 DEF Unread, Pending, GapPasses, askVars, passVars
<1>7. ASSUME NEW m \in Monitors, NEW t \in Askers, Rejected(m, t) \/ Asks(m, t)
       PROVE  Unread'
  <2>. USE <1>0, <1>2 DEF Unread, Pending
  <2>1. CASE Rejected(m, t)
    BY <2>1 DEF Rejected, passVars, TypeOK
  <2>2. CASE Flag(m, t)
    BY <2>2 DEF Flag, passVars, TypeOK
  <2>3. CASE Request(m, t)
    BY <2>3 DEF Request, passVars, TypeOK
  <2>. QED BY <1>7, <2>1, <2>2, <2>3 DEF Asks
<1>8. CASE Wakes \/ Expires \/ Clear \/ Snapshot \/ Looked \/ PassEnds
  <2>. USE <1>0, <1>2 DEF Unread, Pending, Refreshing
  <2>1. CASE Wakes BY <2>1 DEF Wakes
  <2>2. CASE Expires BY <2>2 DEF Expires
  <2>3. CASE Clear BY <2>3 DEF Clear
  <2>4. CASE Snapshot BY <2>4 DEF Snapshot
  <2>5. CASE Looked BY <2>5 DEF Looked
  <2>6. CASE PassEnds BY <2>6 DEF PassEnds, InPass
  <2>. QED BY <1>8, <2>1, <2>2, <2>3, <2>4, <2>5, <2>6
<1>9. ASSUME NEW m \in Monitors, Look(m) \/ ReadBegins(m) PROVE Unread'
  <2>. USE <1>0, <1>1, <1>2 DEF Unread, Pending
  <2>1. CASE Look(m) BY <2>1 DEF Look, Refreshing
  <2>2. CASE ReadBegins(m) BY <1>3, <2>2 DEF ReadBegins, askVars, InPass
  <2>. QED BY <1>9, <2>1, <2>2
<1>10. CASE Take \/ TakeStopped \/ Unreadable
  <2>1. InFleet' = InFleet
    BY <1>10 DEF Take, TakeStopped, Unreadable, InFleet, fleetVars, monitorVars
  <2>2. UNCHANGED <<asking, requested, rpc, look, todo>>
    BY <1>10 DEF Take, TakeStopped, Unreadable, askVars
  <2>3. CASE Take \/ Unreadable
    <3>1. needs' = needs \ {reading} /\ unread' = unread \ {reading}
      BY <2>3 DEF Take, Unreadable
    <3>. QED BY <1>0, <2>1, <2>2, <3>1 DEF Unread, Pending
  <2>4. CASE TakeStopped
    <3>1. needs' = needs /\ unread' = unread /\ reading \notin unread
      BY <1>1, <2>4 DEF TakeStopped, askVars
    <3>. QED BY <1>0, <2>1, <2>2, <3>1 DEF Unread, Pending
  <2>. QED BY <1>10, <2>3, <2>4
<1>11. CASE UNCHANGED vars
  BY <1>0, <1>2, <1>11 DEF Unread, Pending, vars, askVars, passVars
<1>. QED BY <1>4, <1>5, <1>6, <1>7, <1>8, <1>9, <1>10, <1>11 DEF Next, Refresh

\* scheduler.py:146: a rejected key of a watched bucket is never forgotten between
\* the threads that ask and the refresher.
THEOREM RejectionNotLost == Spec => []NoLostRejection
<1>1. Init => IInv
  BY InitFleetInv DEF IInv, Init, Unread
<1>2. IInv => NoLostRejection
  BY DEF IInv, Unread, Pending, NoLostRejection
<1>. QED BY <1>1, <1>2, StepIInv, PTL DEF Spec

-----------------------------------------------------------------------------
(* The fleet as those that walk it see it.                                 *)

LEMMA WalkedIs ==
    ASSUME TypeOK, Placed
    PROVE  /\ DOMAIN Walked = {k \in Keys : fleet[k] # 0}
           /\ \A k \in DOMAIN Walked :
                 /\ Walked[k] = [number |-> fleet[k], entry |-> endpoint[<<k, fleet[k]>>]]
                 /\ Walked[k] \in [number : Nat, entry : Endpoints]
<1>1. \A k \in Keys : fleet[k] # 0 => fleet[k] \in Nat /\ endpoint[<<k, fleet[k]>>] \in Endpoints
  BY FleetAssumption DEF TypeOK, FleetTypes, Placed
<1>. QED BY <1>1 DEF Walked

\* The first monitors are one plan's.
LEMMA InitWalks == Init => Walks!Init
<1>. SUFFICES ASSUME Init PROVE Walks!Init
  OBVIOUS
<1>1. wanted \in Plans /\ \A k \in Keys : fleet[k] = IF wanted[k] = None THEN 0 ELSE 1
  BY FleetAssumption DEF Init, FleetInit
<1>2. {k \in Keys : fleet[k] # 0} = Walks!Named
  BY <1>1 DEF Walks!Named
<1>3. ASSUME NEW k \in Walks!Named
      PROVE  fleet[k] = 1 /\ endpoint[<<k, fleet[k]>>] = wanted[k]
  <2>1. k \in Keys /\ fleet[k] = 1 /\ <<k, 1>> \in Monitors
    BY <1>1, FleetAssumption DEF Walks!Named, Monitors
  <2>. QED BY <2>1 DEF Init, FleetInit
<1>. QED BY <1>1, <1>2, <1>3 DEF Walks!Init, Walked

\* The swap is the one step of an apply that they see: it brings in the whole plan.
LEMMA SwapWalks ==
    ASSUME FleetInv, Swap, TypeOK', Placed'
    PROVE  Walks!Apply
<1>1. TypeOK /\ Placed /\ wanted' = wanted /\ endpoint' = endpoint
  BY DEF FleetInv, Swap
<1>2. \A k \in Keys : wanted[k] # None <=> fleet'[k] # 0
  BY <1>1, SwapBrings
<1>3. DOMAIN Walked' = Walks!Named
  BY <1>2, WalkedIs DEF Walked, Walks!Named
<1>4. ASSUME NEW k \in Walks!Named
      PROVE  /\ Walked'[k] \in [number : Nat, entry : Endpoints]
             /\ IF Walks!Keeps(k) THEN Walked'[k] = Walked[k]
                ELSE /\ Walked'[k].entry = wanted[k]
                     /\ k \in DOMAIN Walked => Walked'[k].number > Walked[k].number
  <2>1. k \in Keys /\ k \in DOMAIN Walked' /\ wanted[k] # None /\ fleet'[k] # 0
    BY <1>2, <1>3 DEF Walks!Named
  <2>2. /\ Walked'[k] = [number |-> fleet'[k], entry |-> endpoint[<<k, fleet'[k]>>]]
        /\ fleet'[k] \in Nat /\ endpoint[<<k, fleet'[k]>>] \in Endpoints
    BY <1>1, <2>1, FleetAssumption DEF Walked, TypeOK, FleetTypes, Placed
  <2>3. k \in DOMAIN Walked <=> fleet[k] # 0
    BY <2>1 DEF Walked
  <2>4. k \in DOMAIN Walked =>
            Walked[k] = [number |-> fleet[k], entry |-> endpoint[<<k, fleet[k]>>]]
    BY DEF Walked
  <2>5. Walks!Keeps(k) <=> ~Changed(k, wanted)
    BY <2>1, <2>3, <2>4 DEF Walks!Keeps, Changed
  <2>6. fleet[k] \in Int /\ fleet'[k] \in Int /\ endpoint[<<k, fleet'[k]>>] = wanted[k]
        /\ IF Changed(k, wanted) THEN fleet[k] < fleet'[k] ELSE fleet'[k] = fleet[k]
    BY <1>1, <2>1, SwapBrings, Pointwise DEF TypeOK
  <2>7. CASE Changed(k, wanted)
    BY <2>2, <2>4, <2>5, <2>6, <2>7
  <2>8. CASE ~Changed(k, wanted)
    <3>1. k \in DOMAIN Walked
      BY <2>1, <2>3, <2>8 DEF Changed
    <3>. QED BY <2>2, <2>4, <2>5, <2>6, <2>8, <3>1
  <2>. QED BY <2>7, <2>8
<1>5. Walked' \in [Walks!Named -> [number : Nat, entry : Endpoints]]
  BY <1>3, <1>4 DEF Walked
<1>. QED BY <1>1, <1>4, <1>5 DEF Walks!Apply

\* Every other step leaves the fleet as it is seen, or asks for a plan.
LEMMA StepWalks ==
    ASSUME FleetInv, [Next]_vars, TypeOK', Placed'
    PROVE  [Walks!Next]_<<wanted, Walked>>
<1>0. TypeOK /\ FleetTypes /\ Placed
  BY DEF FleetInv, TypeOK
<1>1. CASE DiscovererApplies \/ RelistFor
  <2>1. wanted' \in Plans /\ UNCHANGED <<fleet, endpoint>>
    BY <1>1 DEF DiscovererApplies, RelistFor, ApplyBegins, monitorVars
  <2>. QED BY <2>1 DEF Walked, Walks!Next, Walks!Ask
<1>2. ASSUME UNCHANGED <<fleet, endpoint, wanted>> PROVE UNCHANGED <<wanted, Walked>>
  BY <1>2 DEF Walked
<1>3. CASE Applies
  <2>1. ASSUME NEW k \in Keys, Build(k) PROVE UNCHANGED <<wanted, Walked>>
    <3>1. FleetTypes /\ built[k] \in Int /\ UNCHANGED <<fleet, wanted>> /\ built'[k] = built[k] + 1
      BY <1>0, <2>1, Pointwise DEF Build, FleetTypes
    <3>2. \A j \in Keys : fleet[j] # 0 => <<j, fleet[j]>> \in Monitors /\ <<j, fleet[j]>> # <<k, built'[k]>>
      BY <1>0, <3>1, FleetAssumption DEF Placed, FleetTypes, Monitors
    <3>3. \A j \in Keys : fleet[j] # 0 => endpoint'[<<j, fleet[j]>>] = endpoint[<<j, fleet[j]>>]
      BY <1>0, <2>1, <3>2 DEF Build, FleetTypes
    <3>. QED BY <3>1, <3>3 DEF Walked
  <2>2. CASE BuildRaises \/ SyncRaises \/ Sync \/ \E m \in Monitors : Stop(m)
    BY <1>2, <2>2 DEF BuildRaises, SyncRaises, Raises, Sync, Stop, monitorVars
  <2>. QED BY <1>3, <2>1, <2>2, SwapWalks DEF Applies, ApplyStep, Walks!Next
<1>4. ASSUME NEW m \in Monitors,
             \/ GapPasses(m) \/ Look(m) \/ ReadBegins(m)
             \/ \E t \in Askers : Rejected(m, t) \/ Asks(m, t)
      PROVE  UNCHANGED <<fleet, endpoint, wanted>>
  BY <1>4 DEF GapPasses, Rejected, Asks, Flag, Request, Look, ReadBegins, Refreshing,
              fleetVars, monitorVars, applyVars
<1>5. CASE Wakes \/ Expires \/ Clear \/ Snapshot \/ Looked \/ PassEnds
  BY <1>2, <1>5 DEF Wakes, Expires, Clear, Snapshot, Looked, PassEnds, Refreshing,
                    fleetVars, monitorVars, applyVars
<1>6. CASE Take \/ TakeStopped \/ Unreadable \/ UNCHANGED vars
  BY <1>2, <1>6 DEF Take, TakeStopped, Unreadable, vars, fleetVars, monitorVars, applyVars
<1>. QED BY <1>1, <1>2, <1>3, <1>4, <1>5, <1>6 DEF Next, Refresh

\* fleet.py:5: for those that walk it, the fleet goes from the monitors of one plan to
\* those of another at once, and not at all when an apply raises before its swap.
THEOREM FleetIsWalkedWhole == Spec => FleetImplemented
<1>1. FleetInv => TypeOK /\ Placed
  BY DEF FleetInv
<1>2. FleetInv /\ TypeOK' /\ Placed' /\ [Next]_vars => [Walks!Next]_<<wanted, Walked>>
  BY StepWalks
<1>. QED BY <1>1, <1>2, InitFleetInv, InitWalks, StepFleetInv, PTL
        DEF Spec, FleetImplemented, Walks!Spec

=============================================================================
