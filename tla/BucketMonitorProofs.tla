------------------------ MODULE BucketMonitorProofs ------------------------
(***************************************************************************)
(* What BucketMonitor keeps for every set of readers and buckets, and for  *)
(* every bound.  The argument: a view is published with the credentials,   *)
(* source and label of one bucket and replaced as a whole, a rotation      *)
(* stays on that bucket, and a collection works on the view and the source *)
(* it took together; so its figures fit the label of its view, whichever   *)
(* view is shown when they arrive.                                         *)
(* The clients follow the credentials until one of them cannot be built,   *)
(* and the credentials the Secret, with one reader.                        *)
(***************************************************************************)
EXTENDS BucketMonitor, TLAPS

\* The view that is shown, with what it was published with.
Matches ==
    /\ view = NoView <=> credentials = None
    /\ view <= views
    /\ view # NoView => source \in Creds /\ source.bucket = credentials.bucket
                        /\ labelled[view] = credentials.bucket

\* A collection holds a published view and a source of the bucket it is
\* labelled with; a view that is not published has no figures.
Collecting ==
    /\ cpc \in {"fetch", "publish", "record"} =>
        /\ cview \in 1 .. views
        /\ csource \in Creds /\ csource.bucket = labelled[cview]
    /\ \A v \in Views : v > views => figures[v] = None
    /\ FiguresAreOfTheBucket

IInv == TypeOK /\ Matches /\ Collecting

\* The probe that runs is the one probeStop would stop, and a shown view is due.
ProbeIsHeld ==
    /\ OneProbe
    /\ probeStop = IF Probed /\ view # NoView /\ ~stopped THEN view ELSE NoView
    /\ view # NoView => due

-----------------------------------------------------------------------------

LEMMA NoneIsNoCreds == None \notin Creds /\ None \notin Buckets
BY MonitorAssumption

LEMMA ViewsAreNumbers ==
    /\ Views \subseteq Nat /\ NoView \notin Views /\ NoView = 0
    /\ \A n \in Nat : n < MaxViews => n + 1 \in Views
    /\ \A n \in Views \cup {NoView} : n \in Nat /\ n <= MaxViews
BY MonitorAssumption DEF Views, NoView

LEMMA NoFailures == 0 \in 0 .. MaxFailures - 1
BY MonitorAssumption

LEMMA CredsFields ==
    ASSUME NEW c \in Creds
    PROVE  c.bucket \in Buckets /\ c.version \in Versions
BY DEF Creds

LEMMA InitIInv == Init => IInv
<1>. SUFFICES ASSUME Init PROVE IInv
  OBVIOUS
<1>. USE DEF Init
<1>1. secret \in Creds /\ 1 \in Versions
  BY MonitorAssumption DEF Versions
<1>2. TypeOK
  <2>1. OutsideTypes
    BY <1>1, MonitorAssumption DEF OutsideTypes
  <2>2. ReaderTypes
    BY DEF ReaderTypes
  <2>3. StateTypes
    BY NoFailures DEF StateTypes, NoView
  <2>4. ViewTypes /\ ProbeTypes
    BY DEF ViewTypes, ProbeTypes, NoView
  <2>5. CollectTypes
    BY DEF CollectTypes
  <2>. QED BY <2>1, <2>2, <2>3, <2>4, <2>5 DEF TypeOK
<1>3. Matches
  BY DEF Matches, NoView
<1>4. Collecting
  BY DEF Collecting, FiguresAreOfTheBucket
<1>. QED BY <1>2, <1>3, <1>4 DEF IInv

\* A detection leaves a source and a probe client of credentials in hand.
LEMMA RedetectTypes ==
    ASSUME TypeOK, NEW c \in Creds, Redetect(c)
    PROVE  /\ faults' \in 0 .. MaxFaults
           /\ source' \in {c, source}
           /\ probeClient' \in [Views -> Creds \cup {None}]
BY MonitorAssumption
   DEF TypeOK, OutsideTypes, ProbeTypes, Redetect, Detected, DetectionRaises

-----------------------------------------------------------------------------
(* The readers.                                                            *)

LEMMA ReaderKeeps == ASSUME IInv, NEW r \in Readers, Reader(r) PROVE IInv'
<1>. USE DEF secretVars, readerVars, stateVars, viewVars, probeVars, collectVars
<1>. USE DEF IInv, TypeOK, OutsideTypes, ReaderTypes, StateTypes, ViewTypes,
             ProbeTypes, CollectTypes
<1>1. CASE RefreshBegins(r)
  BY <1>1 DEF RefreshBegins, Matches, Collecting, FiguresAreOfTheBucket
<1>2. CASE Resolve(r)
  BY <1>2 DEF Resolve, Matches, Collecting, FiguresAreOfTheBucket
<1>3. CASE Unreadable(r) \/ TooLate(r) \/ Unchanged(r)
  <2>. USE DEF Unreadable, TooLate, Unchanged, Returned
  <2>1. TypeOK'
    <3>1. OutsideTypes' /\ StateTypes'
      BY <1>3, MonitorAssumption
    <3>2. ReaderTypes' /\ ViewTypes'
      BY <1>3
    <3>3. ProbeTypes' /\ CollectTypes'
      BY <1>3
    <3>. QED BY <3>1, <3>2, <3>3
  <2>2. Matches' /\ Collecting'
    BY <1>3 DEF Matches, Collecting, FiguresAreOfTheBucket
  <2>. QED BY <2>1, <2>2
<1>4. CASE RotateKey(r)
  <2>. DEFINE c == got[r]
  <2>1. /\ c \in Creds /\ c.bucket = credentials.bucket /\ credentials # None
        /\ credentials' = c
    BY <1>4 DEF RotateKey, Watches, Returned
  <2>2. /\ faults' \in 0 .. MaxFaults
        /\ source' \in {c, source}
        /\ probeClient' \in [Views -> Creds \cup {None}]
    BY <1>4, <2>1, RedetectTypes DEF RotateKey
  <2>3. TypeOK'
    <3>1. OutsideTypes' /\ StateTypes'
      BY <1>4, <2>1, <2>2, NoFailures DEF RotateKey, Returned
    <3>2. ReaderTypes' /\ ViewTypes'
      BY <1>4, <2>1, <2>2 DEF RotateKey, Returned
    <3>3. ProbeTypes' /\ CollectTypes'
      BY <1>4, <2>1, <2>2 DEF RotateKey, Returned
    <3>. QED BY <3>1, <3>2, <3>3
  <2>4. Matches'
    BY <1>4, <2>1, <2>2, NoneIsNoCreds DEF RotateKey, Returned, Matches
  <2>5. Collecting'
    BY <1>4 DEF RotateKey, Returned, Collecting, FiguresAreOfTheBucket
  <2>. QED BY <2>3, <2>4, <2>5
<1>5. CASE StartFails(r)
  <2>1. TypeOK'
    <3>. USE DEF StartFails, StartsOver, Returned, StillProbing
    <3>1. OutsideTypes' /\ StateTypes'
      BY <1>5, MonitorAssumption
    <3>2. ReaderTypes' /\ ViewTypes'
      BY <1>5
    <3>3. ProbeTypes' /\ CollectTypes'
      BY <1>5
    <3>. QED BY <3>1, <3>2, <3>3
  <2>2. Matches'
    BY <1>5, ViewsAreNumbers DEF StartFails, StartsOver, Returned, Matches
  <2>3. Collecting'
    BY <1>5 DEF StartFails, StartsOver, Returned, Collecting, FiguresAreOfTheBucket
  <2>. QED BY <2>1, <2>2, <2>3
<1>6. CASE Start(r) \/ StartRaises(r)
  <2>. DEFINE c == got[r]
              v == views + 1
  <2>1. c \in Creds /\ c # None /\ StartsOver(r) /\ Publish(c)
    BY <1>6, NoneIsNoCreds DEF Start, StartRaises, StartsOver, Returned
  <2>2. v \in Views /\ views' = v /\ view' = v /\ v # NoView /\ views \in Nat
    BY <2>1, ViewsAreNumbers DEF Publish
  <2>3. TypeOK'
    <3>. USE DEF Start, StartRaises, StartsOver, Returned, Publish, StillProbing
    <3>0. c.bucket \in Buckets
      BY <2>1, CredsFields
    <3>1. OutsideTypes' /\ StateTypes'
      BY <1>6, <2>1, <2>2, <3>0, NoFailures
    <3>2. ReaderTypes' /\ ViewTypes'
      BY <1>6, <2>1, <2>2, <3>0
    <3>3. ProbeTypes' /\ CollectTypes'
      BY <1>6, <2>1, <2>2, <3>0
    <3>. QED BY <3>1, <3>2, <3>3
  <2>4. Matches'
    BY <2>1, <2>2 DEF Publish, Matches
  <2>5. labelled' = [labelled EXCEPT ![v] = c.bucket] /\ figures' = figures
    BY <2>1 DEF Publish
  <2>6. UNCHANGED <<cpc, cview, csource>>
    BY <2>1 DEF StartsOver, Returned
  <2>7. Collecting'
    <3>1. ASSUME NEW w \in Views PROVE figures'[w] \in {None, labelled'[w]}
      BY <2>2, <2>5, ViewsAreNumbers DEF Collecting, FiguresAreOfTheBucket
    <3>2. cpc' \in {"fetch", "publish", "record"} =>
             cview' \in 1 .. views' /\ csource' \in Creds
             /\ csource'.bucket = labelled'[cview']
      BY <2>2, <2>5, <2>6, ViewsAreNumbers DEF Collecting
    <3>3. \A w \in Views : w > views' => figures'[w] = None
      BY <2>2, <2>5, ViewsAreNumbers DEF Collecting
    <3>. QED BY <3>1, <3>2, <3>3 DEF Collecting, FiguresAreOfTheBucket
  <2>. QED BY <2>3, <2>4, <2>7
<1>. QED BY <1>1, <1>2, <1>3, <1>4, <1>5, <1>6 DEF Reader, Apply

-----------------------------------------------------------------------------
(* The collection.                                                         *)

LEMMA WorkerKeeps == ASSUME IInv, Worker PROVE IInv'
<1>. USE DEF secretVars, readerVars, stateVars, viewVars, probeVars, collectVars
<1>. USE DEF IInv, TypeOK, OutsideTypes, ReaderTypes, StateTypes, ViewTypes,
             ProbeTypes, CollectTypes
<1>1. CASE Submit
  BY <1>1 DEF Submit, Matches, Collecting, FiguresAreOfTheBucket
<1>2. CASE CollectBegins
  <2>1. CASE view = NoView
    BY <1>2, <2>1 DEF CollectBegins, Matches, Collecting,
                      FiguresAreOfTheBucket
  <2>2. CASE view # NoView
    <3>1. view \in 1 .. views
      BY <2>2, ViewsAreNumbers DEF Matches
    <3>2. TypeOK'
      BY <1>2, <2>2 DEF CollectBegins
    <3>3. Matches'
      BY <1>2 DEF CollectBegins, Matches
    <3>4. Collecting'
      BY <1>2, <2>2, <3>1 DEF CollectBegins, Matches, Collecting,
                              FiguresAreOfTheBucket
    <3>. QED BY <3>2, <3>3, <3>4
  <2>. QED BY <2>1, <2>2
<1>3. CASE Fetch
  <2>1. cok' \in BOOLEAN /\ needsRefresh' \in BOOLEAN
    BY <1>3 DEF Fetch, CallOutcomes, OnS3Error
  <2>. QED BY <1>3, <2>1 DEF Fetch, Matches, Collecting,
                             FiguresAreOfTheBucket
<1>4. CASE PublishFigures
  <2>1. cview \in Views /\ cview \in 1 .. views /\ csource \in Creds
        /\ csource.bucket = labelled[cview]
    BY <1>4, ViewsAreNumbers DEF PublishFigures, Collecting, Views
  <2>2. /\ figures' \in [Views -> Buckets \cup {None}]
        /\ figures'[cview] \in {figures[cview], labelled[cview]}
        /\ \A w \in Views \ {cview} : figures'[w] = figures[w]
    BY <1>4, <2>1, CredsFields DEF PublishFigures
  <2>3. TypeOK'
    BY <1>4, <2>1, <2>2 DEF PublishFigures
  <2>4. Matches'
    BY <1>4 DEF PublishFigures, Matches
  <2>5. Collecting'
    <3>1. \A w \in Views : w > views => figures'[w] = None
      BY <2>1, <2>2, ViewsAreNumbers DEF Collecting
    <3>2. \A w \in Views : figures'[w] \in {None, labelled[w]}
      BY <2>1, <2>2 DEF Collecting, FiguresAreOfTheBucket
    <3>. QED BY <1>4, <2>1, <3>1, <3>2
             DEF PublishFigures, Collecting, FiguresAreOfTheBucket
  <2>. QED BY <2>3, <2>4, <2>5
<1>5. CASE Superseded
  <2>1. TypeOK'
    <3>1. OutsideTypes' /\ StateTypes'
      BY <1>5, MonitorAssumption DEF Superseded, CollectReturns
    <3>2. ReaderTypes' /\ ViewTypes'
      BY <1>5 DEF Superseded, CollectReturns
    <3>3. ProbeTypes' /\ CollectTypes'
      BY <1>5 DEF Superseded, CollectReturns
    <3>. QED BY <3>1, <3>2, <3>3
  <2>2. Matches' /\ Collecting'
    BY <1>5 DEF Superseded, CollectReturns, Matches, Collecting,
                FiguresAreOfTheBucket
  <2>. QED BY <2>1, <2>2
<1>6. CASE RecordSuccess \/ RecordFailure
  <2>1. /\ CollectReturns /\ cview = view /\ view \in Views
        /\ credentials \in Creds
    BY <1>6, ViewsAreNumbers DEF RecordSuccess, RecordFailure, CollectReturns,
       TypeOK, Matches, Collecting
  <2>2. Redetect(credentials) \/ UNCHANGED <<faults, source, probeClient>>
    BY <1>6 DEF RecordSuccess, RecordFailure
  <2>3. /\ faults' \in 0 .. MaxFaults
        /\ source' \in {credentials, source}
        /\ probeClient' \in [Views -> Creds \cup {None}]
    <3>1. CASE Redetect(credentials)
      BY <2>1, <3>1, RedetectTypes
    <3>2. CASE UNCHANGED <<faults, source, probeClient>>
      BY <3>2
    <3>. QED BY <2>2, <3>1, <3>2
  <2>4. /\ failures' \in 0 .. MaxFailures - 1
        /\ effective' \in {"base", "long"}
        /\ interval' \in [Views -> {"base", "long"}]
    BY <1>6, <2>1, MonitorAssumption DEF RecordSuccess, RecordFailure
  <2>5. TypeOK'
    <3>1. OutsideTypes' /\ StateTypes'
      BY <2>1, <2>3, <2>4, MonitorAssumption DEF CollectReturns
    <3>2. ReaderTypes' /\ ViewTypes'
      BY <2>1, <2>3, <2>4 DEF CollectReturns
    <3>3. ProbeTypes' /\ CollectTypes'
      BY <2>1, <2>3, <2>4 DEF CollectReturns
    <3>. QED BY <3>1, <3>2, <3>3
  <2>6. Matches'
    BY <2>1, <2>3 DEF CollectReturns, Matches
  <2>7. Collecting'
    BY <2>1 DEF CollectReturns, Collecting, FiguresAreOfTheBucket
  <2>. QED BY <2>5, <2>6, <2>7
<1>. QED BY <1>1, <1>2, <1>3, <1>4, <1>5, <1>6 DEF Worker

-----------------------------------------------------------------------------
(* The others.                                                             *)

LEMMA OthersKeep ==
    ASSUME IInv,
           \/ Rotate \/ Revoke \/ Blip \/ MinRefreshGapPasses \/ Stop
           \/ \E v \in Views : ProbeChecks(v)
           \/ UNCHANGED vars
    PROVE  IInv'
<1>. USE DEF secretVars, readerVars, stateVars, viewVars, probeVars, collectVars
<1>. USE DEF IInv, TypeOK, OutsideTypes, ReaderTypes, StateTypes, ViewTypes,
             ProbeTypes, CollectTypes
<1>1. Matches' /\ Collecting'
  BY DEF Rotate, Revoke, Blip, MinRefreshGapPasses, Stop, ProbeChecks, vars,
     Matches, Collecting, FiguresAreOfTheBucket
<1>2. TypeOK'
  <2>1. CASE Rotate
    <3>0. secret'.version \in Versions /\ secret' \in Creds
      <4>1. secret.version \in Nat /\ secret.version + 1 \in Versions
        BY <2>1, MonitorAssumption, CredsFields DEF Rotate, Versions
      <4>. QED BY <2>1, <4>1 DEF Rotate, Creds
    <3>. USE DEF Rotate
    <3>1. OutsideTypes' /\ StateTypes'
      BY <2>1, <3>0, MonitorAssumption
    <3>2. ReaderTypes' /\ ViewTypes'
      BY <2>1, <3>0
    <3>3. ProbeTypes' /\ CollectTypes'
      BY <2>1, <3>0
    <3>. QED BY <3>1, <3>2, <3>3
  <2>2. CASE Revoke \/ Blip \/ MinRefreshGapPasses \/ Stop
    <3>. USE DEF Revoke, Blip, MinRefreshGapPasses, Stop
    <3>1. OutsideTypes'
      <4>1. CASE Revoke \/ Blip
        BY <4>1
      <4>2. \/ gaps' \in 0 .. MaxGaps /\ UNCHANGED <<secret, readable, accepted, faults>>
            \/ Revoke \/ Blip
        BY <2>2, MonitorAssumption
      <4>. QED BY <4>1, <4>2
    <3>2. StateTypes'
      BY <2>2
    <3>3. ReaderTypes' /\ ViewTypes'
      BY <2>2
    <3>4. ProbeTypes' /\ CollectTypes'
      BY <2>2
    <3>. QED BY <3>1, <3>2, <3>3, <3>4
  <2>3. CASE \E v \in Views : ProbeChecks(v)
    <3>. USE DEF ProbeChecks, OnS3Error
    <3>1. OutsideTypes' /\ StateTypes'
      BY <2>3, MonitorAssumption
    <3>2. ReaderTypes' /\ ViewTypes'
      BY <2>3
    <3>3. ProbeTypes' /\ CollectTypes'
      BY <2>3
    <3>. QED BY <3>1, <3>2, <3>3
  <2>4. CASE UNCHANGED vars
    <3>1. OutsideTypes' /\ StateTypes'
      BY <2>4, MonitorAssumption DEF vars
    <3>2. ReaderTypes' /\ ViewTypes'
      BY <2>4 DEF vars
    <3>3. ProbeTypes' /\ CollectTypes'
      BY <2>4 DEF vars
    <3>. QED BY <3>1, <3>2, <3>3
  <2>. QED BY <2>1, <2>2, <2>3, <2>4
<1>. QED BY <1>1, <1>2

\* The invariant the others rest on.
THEOREM MonitorInvariant == Spec => []IInv
<1>1. IInv /\ [Next]_vars => IInv'
  BY ReaderKeeps, WorkerKeeps, OthersKeep DEF Next
<1>. QED BY <1>1, InitIInv, PTL DEF Spec

\* The fields of a monitor stay well typed (monitor.py:140-192).
THEOREM MonitorTypes == Spec => []TypeOK
BY MonitorInvariant, PTL DEF IInv

\* A view never shows figures measured on another bucket, although the
\* collection runs outside the lock and may outlive a repoint (monitor.py:426-441).
THEOREM MonitorFigures == Spec => []FiguresAreOfTheBucket
<1>1. IInv => FiguresAreOfTheBucket
  BY DEF IInv, Collecting
<1>. QED BY <1>1, MonitorInvariant, PTL

\* What keeps the probe is the start and the stop, and nothing else.
LEMMA ProbeKept ==
    ASSUME IInv, ProbeIsHeld, ~ThreadsMayFail, [Next]_vars
    PROVE  ProbeIsHeld'
<1>. USE DEF ProbeIsHeld, OneProbe
<1>1. ASSUME NEW r \in Readers, Start(r) PROVE ProbeIsHeld'
  <2>1. /\ view' \in Views /\ view' # NoView /\ ~stopped
        /\ got[r] # None /\ ~Watches(got[r].bucket)
    BY <1>1, ViewsAreNumbers DEF Start, StartsOver, Publish, Returned, IInv, TypeOK,
       ViewTypes
  <2>2. StillProbing = {}
    BY <2>1 DEF StillProbing, IInv, Matches
  <2>. QED BY <1>1, <2>1, <2>2 DEF Start, StartsOver, Returned
<1>2. ASSUME NEW r \in Readers, StartFails(r) PROVE ProbeIsHeld'
  <2>1. ~stopped /\ StillProbing = {}
    BY <1>2 DEF StartFails, StartsOver, Returned, StillProbing, IInv, Matches
  <2>. QED BY <1>2, <2>1 DEF StartFails, StartsOver, Returned, IInv, Matches
<1>3. CASE Stop
  <2>1. view # NoView => due'
    BY <1>3 DEF Stop
  <2>2. probing' = {}
    BY <1>3 DEF Stop
  <2>. QED BY <1>3, <2>1, <2>2 DEF Stop
<1>4. ASSUME UNCHANGED <<view, due, probeStop, stopped, probing>> PROVE ProbeIsHeld'
  BY <1>4
<1>5. ASSUME NEW r \in Readers,
             RefreshBegins(r) \/ Resolve(r) \/ Unreadable(r) \/ TooLate(r)
                \/ Unchanged(r) \/ RotateKey(r)
      PROVE  ProbeIsHeld'
  <2>1. UNCHANGED <<view, due, probeStop, stopped, probing>>
    BY <1>5 DEF RefreshBegins, Resolve, Unreadable, TooLate, Unchanged, RotateKey,
       Returned, stateVars, probeVars
  <2>. QED BY <1>4, <2>1
<1>6. CASE Worker
  <2>1. UNCHANGED <<view, due, probeStop, stopped, probing>>
    BY <1>6 DEF Worker, Submit, CollectBegins, Fetch, PublishFigures, Superseded,
       RecordSuccess, RecordFailure, CollectReturns, stateVars, probeVars
  <2>. QED BY <1>4, <2>1
<1>7. CASE Rotate \/ Revoke \/ Blip \/ MinRefreshGapPasses
           \/ (\E v \in Views : ProbeChecks(v)) \/ UNCHANGED vars
  <2>1. UNCHANGED <<view, due, probeStop, stopped, probing>>
    BY <1>7 DEF Rotate, Revoke, Blip, MinRefreshGapPasses, ProbeChecks, vars,
       stateVars, probeVars
  <2>. QED BY <1>4, <2>1
<1>8. ASSUME NEW r \in Readers PROVE ~StartRaises(r)
  BY DEF StartRaises
<1>. QED BY <1>1, <1>2, <1>3, <1>5, <1>6, <1>7, <1>8 DEF Next, Reader, Apply

LEMMA InitProbe == Init => ProbeIsHeld
BY DEF Init, ProbeIsHeld, OneProbe

\* As long as threads can be started, a monitor is started and taken down as a
\* whole, whatever failed on the way (monitor.py:233-343).
THEOREM MonitorIsWhole == ASSUME ~ThreadsMayFail PROVE Spec => []ViewIsWhole
<1>1. IInv /\ ProbeIsHeld /\ [Next]_vars => ProbeIsHeld'
  BY ProbeKept
<1>2. IInv /\ ProbeIsHeld => ViewIsWhole
  BY DEF IInv, Matches, ProbeIsHeld, ViewIsWhole
<1>. QED BY <1>1, <1>2, InitProbe, MonitorInvariant, PTL DEF Spec

\* No order of repoints, failed starts, rotations and stops leaks a probe or
\* leaves a watched bucket without one (monitor.py:242, 332-336, 414-422).
THEOREM MonitorHasOneProbe == ASSUME ~ThreadsMayFail PROVE Spec => []OneProbe
<1>1. IInv /\ ProbeIsHeld /\ [Next]_vars => ProbeIsHeld'
  BY ProbeKept
<1>2. ProbeIsHeld => OneProbe
  BY DEF ProbeIsHeld
<1>. QED BY <1>1, <1>2, InitProbe, MonitorInvariant, PTL DEF Spec

\* A reload's stop is final, even for a reader that was at the Secret and a
\* collection that was running (monitor.py:214-231, 419-441).
THEOREM MonitorStopsForGood == Spec => StoppedForGood
<1>. DEFINE Good == stopped => /\ stopped' /\ views' = views /\ probing' \subseteq probing
                               /\ (cpc = "idle" => cpc' = "idle")
<1>. USE DEF secretVars, readerVars, stateVars, viewVars, probeVars, collectVars
<1>1. ASSUME NEW r \in Readers, Reader(r) PROVE Good
  BY <1>1 DEF Reader, Apply, RefreshBegins, Resolve, Returned, Unreadable, TooLate,
     Unchanged, RotateKey, StartsOver, StartFails, Start, StartRaises
<1>2. ASSUME Worker PROVE Good
  <2>1. CASE Submit
    BY <2>1 DEF Submit
  <2>2. CASE Worker /\ ~Submit
    <3>1. UNCHANGED <<stopped, views, probing>> /\ cpc # "idle"
      BY <2>2 DEF Worker, CollectBegins, Fetch, PublishFigures, Superseded,
         RecordSuccess, RecordFailure, CollectReturns
    <3>. QED BY <3>1
  <2>. QED BY <1>2, <2>1, <2>2
<1>3. ASSUME Stop PROVE Good
  BY <1>3 DEF Stop
<1>4. ASSUME \/ Rotate \/ Revoke \/ Blip \/ MinRefreshGapPasses
             \/ \E v \in Views : ProbeChecks(v)
      PROVE  Good
  <2>1. UNCHANGED <<stopped, views, probing, cpc>>
    BY <1>4 DEF Rotate, Revoke, Blip, MinRefreshGapPasses, ProbeChecks
  <2>. QED BY <2>1
<1>5. Next => Good
  <2>. HIDE DEF Good
  <2>. QED BY <1>1, <1>2, <1>3, <1>4 DEF Next
<1>6. [Next]_vars => [Good]_vars
  BY <1>5
<1>. QED BY <1>6, PTL DEF Spec, StoppedForGood

-----------------------------------------------------------------------------
(* The newest key: what is proved of NewestKeyIsUsed, a step at a time.    *)

\* As long as no client and no detection has failed, the source and the probe of a shown
\* view use the credentials in force, whichever reader brought them and whatever was
\* collected or detected meanwhile (monitor.py:233-371, 443-500).
ClientsFollow ==
    faults = 0 /\ view # NoView =>
        source = credentials /\ (Probed => probeClient[view] = credentials)

LEMMA RedetectFollows ==
    ASSUME IInv, ClientsFollow, NEW c \in Creds, view \in Views, UNCHANGED view,
           credentials' = c, \/ Redetect(c)
                             \/ c = credentials /\ UNCHANGED <<faults, source, probeClient>>
    PROVE  ClientsFollow'
<1>1. faults \in Nat /\ probeClient \in [Views -> Creds \cup {None}]
  BY DEF IInv, TypeOK, OutsideTypes, ProbeTypes
<1>2. CASE Detected(c)
  BY <1>1, <1>2 DEF Detected, ClientsFollow
<1>3. CASE DetectionRaises
  BY <1>1, <1>3 DEF DetectionRaises, ClientsFollow
<1>4. CASE c = credentials /\ UNCHANGED <<faults, source, probeClient>>
  BY <1>4 DEF ClientsFollow
<1>. QED BY <1>2, <1>3, <1>4 DEF Redetect

LEMMA ClientsKept == ASSUME IInv, ClientsFollow, [Next]_vars PROVE ClientsFollow'
<1>. USE DEF secretVars, readerVars, stateVars, viewVars, probeVars, collectVars
<1>1. faults \in Nat /\ probeClient \in [Views -> Creds \cup {None}]
  BY DEF IInv, TypeOK, OutsideTypes, ProbeTypes
<1>2. ASSUME NEW r \in Readers, RotateKey(r) PROVE ClientsFollow'
  <2>1. got[r] \in Creds /\ credentials # None /\ view \in Views
    BY <1>2 DEF RotateKey, Watches, Returned, IInv, TypeOK, ReaderTypes, StateTypes, Matches
  <2>. QED BY <1>2, <2>1, RedetectFollows DEF RotateKey
<1>3. ASSUME NEW r \in Readers, StartFails(r) PROVE ClientsFollow'
  BY <1>3 DEF StartFails, ClientsFollow
<1>4. ASSUME NEW r \in Readers, Start(r) \/ StartRaises(r) PROVE ClientsFollow'
  <2>1. Publish(got[r])
    BY <1>4 DEF Start, StartRaises
  <2>2. view' \in Views
    BY <2>1, ViewsAreNumbers DEF Publish, IInv, TypeOK, ViewTypes
  <2>. QED BY <1>1, <2>1, <2>2 DEF Publish, ClientsFollow
<1>5. CASE RecordSuccess \/ RecordFailure
  <2>1. view \in Views /\ credentials \in Creds
    BY <1>5, ViewsAreNumbers DEF RecordSuccess, RecordFailure, CollectReturns, IInv, TypeOK,
       StateTypes, Matches, Collecting
  <2>2. UNCHANGED <<view, credentials>>
    BY <1>5 DEF RecordSuccess, RecordFailure, CollectReturns
  <2>3. Redetect(credentials) \/ UNCHANGED <<faults, source, probeClient>>
    BY <1>5 DEF RecordSuccess, RecordFailure
  <2>. QED BY <2>1, <2>2, <2>3, RedetectFollows
<1>6. ASSUME UNCHANGED <<faults, view, source, credentials, probeClient>> PROVE ClientsFollow'
  BY <1>6 DEF ClientsFollow
<1>7. ASSUME NEW r \in Readers,
             RefreshBegins(r) \/ Resolve(r) \/ Unreadable(r) \/ TooLate(r) \/ Unchanged(r)
      PROVE  ClientsFollow'
  BY <1>6, <1>7 DEF RefreshBegins, Resolve, Unreadable, TooLate, Unchanged, Returned
<1>8. CASE Submit \/ CollectBegins \/ Fetch \/ PublishFigures \/ Superseded
  BY <1>6, <1>8 DEF Submit, CollectBegins, Fetch, PublishFigures, Superseded, CollectReturns
<1>9. CASE Rotate \/ Revoke \/ Blip \/ MinRefreshGapPasses \/ Stop
           \/ (\E v \in Views : ProbeChecks(v)) \/ UNCHANGED vars
  BY <1>6, <1>9 DEF Rotate, Revoke, Blip, MinRefreshGapPasses, Stop, ProbeChecks, vars
<1>. QED BY <1>2, <1>3, <1>4, <1>5, <1>7, <1>8, <1>9 DEF Next, Reader, Apply, Worker

\* Until a client or a detection fails, no order of rotations, repoints, collections and
\* detections leaves the source or the probe on a key other than the one in force.
THEOREM MonitorClientsFollow == Spec => []ClientsFollow
<1>1. Init => ClientsFollow
  BY DEF Init, ClientsFollow
<1>2. IInv /\ ClientsFollow /\ [Next]_vars => ClientsFollow'
  BY ClientsKept
<1>. QED BY <1>1, <1>2, MonitorInvariant, PTL DEF Spec

OneReader == \A q, r \in Readers : q = r

\* What is in hand was read from the Secret, and what a reader brings is no older.
NothingOlder ==
    /\ credentials # None => credentials.version <= secret.version
    /\ \A r \in Readers : got[r] # None =>
          /\ rpc[r] = "apply"
          /\ got[r].version <= secret.version
          /\ credentials # None => credentials.version <= got[r].version

LEMMA OlderKept ==
    ASSUME OneReader, IInv, NothingOlder, [Next]_vars
    PROVE  /\ NothingOlder'
           /\ credentials # None /\ credentials' # None
                 => credentials'.version >= credentials.version
<1>. USE DEF secretVars, readerVars, stateVars, viewVars, probeVars, collectVars
<1>1. /\ secret \in Creds /\ credentials \in Creds \cup {None}
      /\ got \in [Readers -> Creds \cup {None}] /\ rpc \in [Readers -> {"idle", "resolve", "apply"}]
  BY DEF IInv, TypeOK, OutsideTypes, ReaderTypes, StateTypes
<1>2. \A c \in Creds : c.version \in Nat
  BY CredsFields DEF Versions
<1>3. ASSUME NEW r \in Readers, Resolve(r)
      PROVE  NothingOlder' /\ credentials' = credentials
  BY <1>1, <1>2, <1>3 DEF Resolve, NothingOlder, OneReader
<1>4. ASSUME NEW r \in Readers, Returned(r), credentials' \in {credentials, got[r], None}
      PROVE  /\ NothingOlder'
             /\ credentials # None /\ credentials' # None
                   => credentials'.version >= credentials.version
  <2>1. got'[r] = None /\ \A q \in Readers : q = r
    BY <1>1, <1>4 DEF Returned, OneReader
  <2>. QED BY <1>1, <1>2, <1>4, <2>1 DEF Returned, NothingOlder
<1>5. ASSUME NEW r \in Readers, Apply(r)
      PROVE  Returned(r) /\ credentials' \in {credentials, got[r], None}
  BY <1>5 DEF Apply, Unreadable, TooLate, Unchanged, RotateKey, StartsOver, StartFails, Start,
     StartRaises, Publish
<1>6. ASSUME NEW r \in Readers, RefreshBegins(r)
      PROVE  NothingOlder' /\ credentials' = credentials
  BY <1>1, <1>6 DEF RefreshBegins, NothingOlder
<1>7. CASE Rotate
  <2>1. secret'.version = secret.version + 1 /\ UNCHANGED <<credentials, got, rpc>>
    BY <1>7 DEF Rotate
  <2>. QED BY <1>1, <1>2, <2>1 DEF NothingOlder
<1>8. CASE \/ Worker \/ Revoke \/ Blip \/ MinRefreshGapPasses \/ Stop
           \/ (\E v \in Views : ProbeChecks(v)) \/ UNCHANGED vars
  <2>1. UNCHANGED <<credentials, got, rpc, secret>>
    BY <1>8 DEF Worker, Submit, CollectBegins, Fetch, PublishFigures, Superseded, RecordSuccess,
       RecordFailure, CollectReturns, Revoke, Blip, MinRefreshGapPasses, Stop, ProbeChecks, vars
  <2>. QED BY <1>1, <1>2, <2>1 DEF NothingOlder
<1>9. \A r \in Readers : credentials' = credentials /\ credentials \in Creds =>
          credentials'.version >= credentials.version
  BY <1>2
<1>. QED BY <1>1, <1>2, <1>3, <1>4, <1>5, <1>6, <1>7, <1>8 DEF Next, Reader

\* With one reader an older key never comes back (discovery.py:444-445): that it does is
\* due to the refresher and the discoverer reading the same Secret apart.
THEOREM MonitorOneReader == ASSUME OneReader PROVE Spec => KeyNeverRollsBack
<1>. DEFINE Older == credentials # None /\ credentials' # None
                        => credentials'.version >= credentials.version
<1>1. Init => NothingOlder
  BY DEF Init, NothingOlder
<1>2. IInv /\ NothingOlder /\ [Next]_vars => NothingOlder' /\ [Older]_vars
  BY OlderKept
<1>. QED BY <1>1, <1>2, MonitorInvariant, PTL DEF Spec, KeyNeverRollsBack

=============================================================================
