----------------------- MODULE SourceSelectionProofs -----------------------
(***************************************************************************)
(* What SourceSelection guarantees for any list of candidates, any bound   *)
(* and any threshold.  The argument for the probe: as long as every key is *)
(* granted the same calls, a settled call is one the client may make, so   *)
(* an attempt that fails met an outage, or a client replaced since it      *)
(* looked; each of these is counted once, against the attempt it fails.    *)
(***************************************************************************)
EXTENDS SourceSelection, TLAPS

-----------------------------------------------------------------------------
(* Types.                                                                  *)

LEMMA AskedType ==
    ASSUME NEW wish \in Wishes, NEW i \in DOMAIN Asked(wish)
    PROVE  /\ Asked(wish)[i] \in Cheap
           /\ i \in 1 .. Len(Candidates)
<1>1. Candidates \in Seq(STRING) /\ Len(Candidates) \in Nat
  BY SelectionAssumption
<1>2. CASE wish \in Cheap
  <2>1. DOMAIN Candidates = 1 .. Len(Candidates)
    BY <1>1
  <2>2. Len(Candidates) >= 1
    BY <1>1, <1>2, <2>1 DEF Cheap
  <2>3. Asked(wish) = <<wish>> /\ i = 1
    BY <1>2 DEF Asked
  <2>. QED BY <1>1, <1>2, <2>2, <2>3
<1>3. CASE wish \notin Cheap /\ wish = Listing
  BY <1>3 DEF Asked
<1>4. CASE wish \notin Cheap /\ wish # Listing
  BY <1>1, <1>4 DEF Asked, Cheap
<1>. QED BY <1>2, <1>3, <1>4

LEMMA AskedLen ==
    ASSUME NEW wish \in Wishes
    PROVE  DOMAIN Asked(wish) = 1 .. Len(Asked(wish)) /\ Len(Asked(wish)) \in Nat
<1>1. CASE Asked(wish) = <<wish>> \/ Asked(wish) = <<>>
  BY <1>1
<1>2. CASE Asked(wish) = Candidates
  BY <1>2, SelectionAssumption
<1>. QED BY <1>1, <1>2 DEF Asked

LEMMA InitTypeOK == Init => TypeOK
<1>. SUFFICES ASSUME Init PROVE TypeOK
  OBVIOUS
<1>1. ProbeTypes
  BY DEF Init, ProbeInit, ProbeTypes, MaxAttempts
<1>2. source \in Cheap \cup {Listing}
  BY AskedType DEF Init
<1>3. 1 \in 1 .. Len(Candidates) + 1
  BY SelectionAssumption
<1>4. failures \in 0 .. MaxFailures - 1 /\ rotations \in 0 .. MaxRotations
      /\ faults \in 0 .. MaxFaults
  BY SelectionAssumption DEF Init
<1>. QED BY <1>1, <1>2, <1>3, <1>4 DEF Init, TypeOK

LEMMA StepTypeOK == TypeOK /\ [Next]_vars => TypeOK'
<1>. SUFFICES ASSUME TypeOK, [Next]_vars PROVE TypeOK'
  OBVIOUS
<1>. USE SelectionAssumption DEF TypeOK
<1>1. ASSUME ExtensionBlips PROVE TypeOK'
  BY <1>1 DEF ExtensionBlips, probeVars, checkVars, selectVars, detectVars, ProbeTypes
<1>2. ASSUME Blip PROVE TypeOK'
  BY <1>2 DEF Blip, BucketBlips, probeVars, checkVars, outsideVars, selectVars, detectVars,
              ProbeTypes
<1>3. ASSUME Probe PROVE TypeOK'
  <2>. USE DEF ProbeTypes, MaxAttempts, Calls
  <2>1. ProbeTypes'
    <3>1. CASE CheckBegins BY <3>1 DEF CheckBegins
    <3>2. CASE Attempt BY <3>2 DEF Attempt
    <3>3. CASE AskHead BY <3>3 DEF AskHead, AttemptFails, Once
    <3>4. CASE SettleOnHead BY <3>4 DEF SettleOnHead, Passes
    <3>5. CASE FallBack BY <3>5 DEF FallBack
    <3>6. CASE Call BY <3>6 DEF Call, Passes, AttemptFails, Once
    <3>7. CASE Publish BY <3>7 DEF Publish
    <3>. QED BY <1>3, <3>1, <3>2, <3>3, <3>4, <3>5, <3>6, <3>7 DEF Probe, ProbeStep
  <2>. QED BY <1>3, <2>1 DEF Probe, outsideVars, selectVars, detectVars
<1>4. ASSUME PeriodPasses PROVE TypeOK'
  BY <1>4 DEF PeriodPasses, probeVars, checkVars, outsideVars, detectVars, ProbeTypes
<1>5. ASSUME Build PROVE TypeOK'
  BY <1>5 DEF Build, probeVars, checkVars, selectVars, ProbeTypes
<1>6. ASSUME Ask PROVE TypeOK'
  <2>1. ProbeTypes'
    BY <1>6 DEF Ask, probeVars, checkVars, ProbeTypes
  <2>2. index' \in 1 .. Len(Candidates) + 1 /\ found' \in Cheap \cup {Listing}
    BY <1>6, AskedType, AskedLen DEF Ask
  <2>. QED BY <1>6, <2>1, <2>2 DEF Ask, outsideVars, selectVars
<1>7. ASSUME Found PROVE TypeOK'
  BY <1>7 DEF Found, SetClient, Adopt, probeVars, checkVars, selectVars, ProbeTypes
<1>8. ASSUME Reset PROVE TypeOK'
  BY <1>8 DEF Reset, ResetMethod, Adopt, Once, outsideVars, checkVars, ProbeTypes
<1>9. ASSUME Rotate PROVE TypeOK'
  <2>1. key' \in Grants
    BY <1>9 DEF Rotate
  <2>2. failures' \in 0 .. MaxFailures - 1 /\ rotations' \in 0 .. MaxRotations
    BY <1>9 DEF Rotate
  <2>3. ProbeTypes'
    BY <1>9 DEF Rotate, probeVars, checkVars, ProbeTypes
  <2>. QED BY <1>9, <2>1, <2>2, <2>3 DEF Rotate, DetectionBegins
<1>10. ASSUME Fetch PROVE TypeOK'
  <2>1. ok' \in BOOLEAN
    <3>1. (reachable /\ "ListObjectsV2" \in key) \in BOOLEAN /\ (source \in available) \in BOOLEAN
      OBVIOUS
    <3>2. CASE source = Listing
      BY <1>10, <3>1, <3>2, Zenon DEF Fetch
    <3>3. CASE source # Listing
      BY <1>10, <3>1, <3>3, Zenon DEF Fetch
    <3>. QED BY <3>2, <3>3
  <2>2. ProbeTypes'
    BY <1>10 DEF Fetch, probeVars, checkVars, ProbeTypes
  <2>. QED BY <1>10, <2>1, <2>2 DEF Fetch, outsideVars, selectVars, detectVars
<1>11. ASSUME RecordSuccess \/ RecordFailure PROVE TypeOK'
  <2>1. failures' \in 0 .. MaxFailures - 1
    BY <1>11 DEF RecordSuccess, RecordFailure
  <2>2. elapsed' \in BOOLEAN /\ dpc' \in {"idle", "build", "ask", "found", "reset"}
        /\ index' = index /\ found' = found
    BY <1>11 DEF RecordSuccess, RecordFailure, DetectionBegins, NoDetection, detectVars
  <2>3. Records
    BY <1>11 DEF RecordSuccess, RecordFailure
  <2>. QED BY <2>1, <2>2, <2>3 DEF Records, probeVars, checkVars, outsideVars, ProbeTypes
<1>12. ASSUME UNCHANGED vars PROVE TypeOK'
  BY <1>12 DEF vars, probeVars, checkVars, outsideVars, selectVars, detectVars, ProbeTypes
<1>. QED BY <1>1, <1>2, <1>3, <1>4, <1>5, <1>6, <1>7, <1>8, <1>9, <1>10, <1>11, <1>12
         DEF Next, Detect, Collection

\* Every reachable state is well typed: the run of failures stays below its
\* threshold and a detection never looks past the candidates.
THEOREM SelectionTypes == Spec => []TypeOK
BY InitTypeOK, StepTypeOK, PTL DEF Spec

-----------------------------------------------------------------------------
(* The probe.                                                              *)

\* The client's key is the one in force, and a settled call, or the answer a
\* check holds, is one it is granted.
Granted ==
    /\ client = key
    /\ method \in client \cup {None}
    /\ ppc = "granted" => "HeadBucket" \in client
    /\ ppc = "denied" => "ListObjectsV2" \in client

\* Each failed attempt met its own disturbance; so has an attempt whose call was
\* taken away before it made it.
Accounted ==
    /\ ppc \in {"attempt", "head", "granted", "denied", "call"} =>
          attempts >= 1 /\ disturbed >= attempts - 1
    /\ ppc = "call" /\ method = None => disturbed >= attempts
    /\ OneFaultIsNoOutage

IInv == TypeOK /\ Granted /\ Accounted

LEMMA InitIInv == Init => IInv
BY InitTypeOK DEF IInv, Granted, Accounted, OneFaultIsNoOutage, Init, ProbeInit

LEMMA StepIInv == ASSUME ~GrantsDiffer PROVE IInv /\ [Next]_vars => IInv'
<1>. SUFFICES ASSUME IInv, [Next]_vars PROVE Granted' /\ Accounted'
  BY StepTypeOK DEF IInv
<1>. USE ProbeAssumption DEF IInv
<1>0. ProbeTypes
  BY DEF TypeOK
<1>1. ASSUME UNCHANGED probeVars, UNCHANGED key PROVE Granted' /\ Accounted'
  BY <1>1 DEF Granted, Accounted, OneFaultIsNoOutage, probeVars, checkVars
<1>2. ASSUME Probe PROVE Granted' /\ Accounted'
  <2>. USE <1>0 DEF ProbeTypes, MaxAttempts, Calls, Granted, Accounted, OneFaultIsNoOutage
  <2>0. key' = key
    BY <1>2 DEF Probe
  <2>1. CASE CheckBegins BY <2>0, <2>1 DEF CheckBegins
  <2>2. CASE Attempt BY <2>0, <2>2 DEF Attempt
  <2>3. CASE AskHead BY <2>0, <2>3 DEF AskHead, AttemptFails, Once
  <2>4. CASE SettleOnHead BY <2>0, <2>4 DEF SettleOnHead, Passes
  <2>5. CASE FallBack BY <2>0, <2>5 DEF FallBack
  <2>6. CASE Call BY <2>0, <2>6 DEF Call, Passes, AttemptFails, Once
  <2>7. CASE Publish BY <2>0, <2>7 DEF Publish
  <2>. QED BY <1>2, <2>1, <2>2, <2>3, <2>4, <2>5, <2>6, <2>7 DEF Probe, ProbeStep
<1>3. ASSUME Found PROVE Granted' /\ Accounted'
  <2>1. CASE SetClient(key) /\ UNCHANGED key
    BY <2>1 DEF SetClient, checkVars, Granted, Accounted, OneFaultIsNoOutage
  <2>. QED BY <1>1, <1>3, <2>1 DEF Found
<1>4. ASSUME Reset PROVE Granted' /\ Accounted'
  BY <1>0, <1>4 DEF Reset, ResetMethod, Once, checkVars, ProbeTypes, MaxAttempts,
                    Granted, Accounted, OneFaultIsNoOutage
<1>5. ASSUME Rotate PROVE Granted' /\ Accounted'
  BY <1>1, <1>5 DEF Rotate
<1>6. ASSUME Blip PROVE Granted' /\ Accounted'
  BY <1>1, <1>6 DEF Blip, BucketBlips
<1>7. ASSUME ExtensionBlips \/ PeriodPasses \/ Build \/ Ask \/ Fetch PROVE Granted' /\ Accounted'
  BY <1>1, <1>7 DEF ExtensionBlips, PeriodPasses, Build, Ask, Fetch
<1>8. ASSUME RecordSuccess \/ RecordFailure PROVE Granted' /\ Accounted'
  BY <1>1, <1>8 DEF RecordSuccess, RecordFailure, Records
<1>9. ASSUME UNCHANGED vars PROVE Granted' /\ Accounted'
  BY <1>1, <1>9 DEF vars
<1>. QED BY <1>2, <1>3, <1>4, <1>5, <1>6, <1>7, <1>8, <1>9 DEF Next, Detect, Collection

\* probe.py:42 "One immediate retry": when every key is granted the same calls,
\* a single failure of the bucket, or a single replacement of the client, within
\* a check is never published as an outage.
THEOREM ProbeOneFault == ASSUME ~GrantsDiffer PROVE Spec => []OneFaultIsNoOutage
<1>1. IInv => OneFaultIsNoOutage
  BY DEF IInv, Accounted
<1>. QED BY <1>1, InitIInv, StepIInv, PTL DEF Spec

=============================================================================
