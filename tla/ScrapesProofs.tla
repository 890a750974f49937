--------------------------- MODULE ScrapesProofs ---------------------------
(***************************************************************************)
(* Theorems about what a request reads.  Readiness, for any buckets and    *)
(* any history of theirs: its states are well typed, and a request answers *)
(* 503 only when each of its buckets was seen failing while it ran.        *)
(* BucketMetrics, for any number of views, collections and checks: the     *)
(* figures of a scrape are of one collection of its bucket, and a bucket   *)
(* is shown unreachable only with both attempts counted.  S3Errors, for    *)
(* any errors that wrap each other: their chain is bounded and has what    *)
(* decides the reason.  SecretListing, for any Secrets and pages: a list   *)
(* is whole.  And the parts side by side as MCScrapes checks them.         *)
(***************************************************************************)
EXTENDS MCScrapes, EndpointCheckProofs, SequenceTheorems

-----------------------------------------------------------------------------
(* Readiness: types.                                                       *)

Reaches == {"unknown", "unreachable", "reachable"}

LEMMA StateOfType ==
    ASSUME ReadyTypeOK, NEW k \in Keys
    PROVE  StateOf(k) \in States
BY DEF ReadyTypeOK, StateOf, States

LEMMA InitReadyTypes == ReadyInit => ReadyTypeOK
<1>. SUFFICES ASSUME ReadyInit PROVE ReadyTypeOK
  OBVIOUS
<1>1. AnyKey \in Keys
  BY ReadinessAssumption DEF AnyKey
<1>2. 1 \in Given /\ 1 \in 0 .. MaxGiven /\ 0 \in 0 .. MaxGiven /\ 0 \in 0 .. MaxUpdates
  BY ReadinessAssumption DEF Given
<1>3. probe \in [Keys -> {0} \cup Given] /\ given \in [Keys -> 0 .. MaxGiven]
  BY <1>2 DEF ReadyInit
<1>. QED BY <1>1, <1>2, <1>3 DEF ReadyInit, ReadyTypeOK, States

\* The histories are of the buckets the request is about.
LEMMA ObservedTypes ==
    ASSUME Observed, wasFailing \subseteq asked, wasFine \subseteq asked, asked \subseteq asked'
    PROVE  wasFailing' \subseteq asked' /\ wasFine' \subseteq asked'
BY DEF Observed

\* Between two requests nothing is asked; a probe is read only when there is one.
Asked ==
    /\ asking = "idle" => asked = {}
    /\ asking = "result" => held[1] \in asked /\ held[2] \in Given

ReadyTyped == ReadyTypeOK /\ Asked

LEMMA InitReadyTyped == ReadyInit => ReadyTyped
BY InitReadyTypes DEF ReadyInit, ReadyTyped, Asked

LEMMA StepReadyTyped == ReadyTyped /\ [ReadyNext]_readyVars => ReadyTyped'
<1>. SUFFICES ASSUME ReadyTyped, [ReadyNext]_readyVars PROVE ReadyTyped'
  OBVIOUS
<1>. USE DEF ReadyTyped, Asked, ReadyTypeOK, request
<1>1. ASSUME NEW k \in Keys, Unconfigure(k) PROVE ReadyTyped'
  <2>1. wasFailing' \subseteq asked' /\ wasFine' \subseteq asked'
    BY <1>1, ObservedTypes DEF Unconfigure
  <2>2. updates' \in 0 .. MaxUpdates
    BY <1>1, ReadinessAssumption DEF Unconfigure, Update
  <2>. QED BY <1>1, <2>1, <2>2 DEF Unconfigure
<1>2. ASSUME NEW k \in Keys, Reconfigure(k) PROVE ReadyTyped'
  <2>1. wasFailing' \subseteq asked' /\ wasFine' \subseteq asked'
    BY <1>2, ObservedTypes DEF Reconfigure
  <2>2. /\ given' \in [Keys -> 0 .. MaxGiven] /\ configured' \in [Keys -> BOOLEAN]
        /\ probe' \in [Keys -> {0} \cup Given]
    <3>1. CASE UNCHANGED <<given, configured, probe>>
      BY <3>1
    <3>2. CASE /\ given[k] < MaxGiven
               /\ given' = [given EXCEPT ![k] = @ + 1]
               /\ configured' = [configured EXCEPT ![k] = TRUE]
               /\ probe' = [probe EXCEPT ![k] = given[k] + 1]
      <4>1. given[k] + 1 \in Given /\ given[k] + 1 \in 0 .. MaxGiven
        BY <3>2, ReadinessAssumption DEF Given
      <4>. QED BY <3>2, <4>1
    <3>. QED BY <1>2, <3>1, <3>2 DEF Reconfigure
  <2>. QED BY <1>2, <2>1, <2>2 DEF Reconfigure
<1>3. ASSUME NEW k \in Keys, PublishReach(k) PROVE ReadyTyped'
  <2>1. updates' \in 0 .. MaxUpdates
    BY <1>3, ReadinessAssumption DEF PublishReach, Update
  <2>2. PICK g \in 1 .. given[k], r \in {"unreachable", "reachable"} :
          /\ r # reach[k][g]
          /\ reach' = [reach EXCEPT ![k][g] = r]
          /\ wasFailing' = IF k \in asked /\ r = "unreachable"
                           THEN wasFailing \cup {k} ELSE wasFailing
          /\ wasFine' = IF k \in asked /\ r = "reachable"
                        THEN wasFine \cup {k} ELSE wasFine
    BY <1>3, Zenon DEF PublishReach
  <2>3. reach' \in [Keys -> [Given -> Reaches]]
    <3>0. reach[k] \in [Given -> Reaches] /\ r \in Reaches
      BY DEF Reaches
    <3>1. [reach[k] EXCEPT ![g] = r] \in [Given -> Reaches]
      BY <3>0
    <3>2. reach' = [reach EXCEPT ![k] = [reach[k] EXCEPT ![g] = r]]
      BY <2>2
    <3>. QED BY <3>1, <3>2 DEF Reaches
  <2>4. wasFailing' \subseteq asked /\ wasFine' \subseteq asked
    BY <2>2
  <2>. QED BY <1>3, <2>1, <2>3, <2>4 DEF PublishReach, Reaches
<1>4. ASSUME NEW k \in Keys, Leave(k) PROVE ReadyTyped'
  <2>1. wasFailing' \subseteq asked' /\ wasFine' \subseteq asked'
    BY <1>4, ObservedTypes DEF Leave
  <2>2. updates' \in 0 .. MaxUpdates
    BY <1>4, ReadinessAssumption DEF Leave, Update
  <2>. QED BY <1>4, <2>1, <2>2 DEF Leave
<1>5. ASSUME Ask PROVE ReadyTyped'
  <2>1. wasFailing' \subseteq asked' /\ wasFine' \subseteq asked'
    BY <1>5, ObservedTypes DEF Ask
  <2>. QED BY <1>5, <2>1 DEF Ask, monitors
<1>6. ASSUME TakeProbe PROVE ReadyTyped'
  <2>1. PICK k \in left :
          /\ left' = left \ {k}
          /\ IF configured[k] /\ probe[k] # 0
             THEN held' = <<k, probe[k]>> /\ asking' = "result" /\ UNCHANGED entries
             ELSE /\ entries' = [entries EXCEPT ![k] = StateOf(k)]
                  /\ UNCHANGED <<held, asking>>
    BY <1>6 DEF TakeProbe
  <2>2. k \in Keys /\ StateOf(k) \in States
    BY StateOfType
  <2>3. held' \in Keys \X ({0} \cup Given) /\ entries' \in [Keys -> States \cup {"none"}]
    BY <2>1, <2>2
  <2>4. asking' = "result" => held'[2] \in Given
    BY <1>6, <2>1, <2>2 DEF TakeProbe
  <2>. QED BY <1>6, <2>1, <2>3, <2>4 DEF TakeProbe, monitors
<1>7. ASSUME ReadProbe PROVE ReadyTyped'
  BY <1>7 DEF ReadProbe, monitors, States
<1>8. ASSUME Answer PROVE ReadyTyped'
  BY <1>8 DEF Answer, monitors
<1>9. ASSUME AskAgain PROVE ReadyTyped'
  <2>1. AnyKey \in Keys
    BY ReadinessAssumption DEF AnyKey
  <2>. QED BY <1>9, <2>1 DEF AskAgain, monitors, States
<1>10. ASSUME UNCHANGED readyVars PROVE ReadyTyped'
  BY <1>10 DEF readyVars, monitors
<1>. QED
  BY <1>1, <1>2, <1>3, <1>4, <1>5, <1>6, <1>7, <1>8, <1>9, <1>10 DEF ReadyNext

\* Every state is well typed: a request only reads probes that a bucket was given.
THEOREM ReadyTypes == ReadySpec => []ReadyTypeOK
<1>1. ReadyTyped => ReadyTypeOK
  BY DEF ReadyTyped
<1>. QED BY <1>1, InitReadyTyped, StepReadyTyped, PTL DEF ReadySpec

-----------------------------------------------------------------------------
(* Readiness: the answer.                                                  *)

\* A bucket in this state counts as seen failing, or as seen fine.
Seen(k, state) ==
    /\ state \in Failing => k \in wasFailing
    /\ state \in {"unknown", "reachable"} => k \in wasFine

\* What the buckets show, what was read of them, and the probe being read.
SeenNow == \A k \in asked : ~repointing[k] => Seen(k, StateOf(k))
SeenRead ==
    \A k \in asked \ left :
        (asking = "result" /\ k = held[1]) \/ (entries[k] \in States /\ Seen(k, entries[k]))
SeenHeld == asking = "result" => Seen(held[1], reach[held[1]][held[2]])

ReadyInv == ReadyTyped /\ SeenNow /\ SeenRead /\ SeenHeld /\ ReadyIsTrue

LEMMA SeenStays ==
    ASSUME NEW k, NEW state, Seen(k, state), wasFailing \subseteq wasFailing',
           wasFine \subseteq wasFine'
    PROVE  Seen(k, state)'
BY DEF Seen

\* A step of the buckets that leaves the request alone.
LEMMA RequestKept ==
    ASSUME ReadyInv, UNCHANGED request, wasFailing \subseteq wasFailing',
           wasFine \subseteq wasFine'
    PROVE  SeenRead' /\ ReadyIsTrue'
<1>1. UNCHANGED <<asking, held, asked, left, entries, status>>
  BY DEF request
<1>2. SeenRead'
  BY <1>1 DEF ReadyInv, SeenRead, Seen
<1>3. ReadyIsTrue'
  BY <1>1 DEF ReadyInv, ReadyIsTrue
<1>. QED BY <1>2, <1>3

\* One that is observed, and publishes nothing.
LEMMA ObservedKept ==
    ASSUME ReadyInv, ReadyTyped', UNCHANGED request, UNCHANGED reach, Observed
    PROVE  ReadyInv'
<1>1. wasFailing \subseteq wasFailing' /\ wasFine \subseteq wasFine'
  BY DEF Observed
<1>2. SeenRead' /\ ReadyIsTrue'
  BY <1>1, RequestKept
<1>3. SeenNow'
  BY DEF Observed, SeenNow, Seen, Failing
<1>4. SeenHeld'
  BY <1>1 DEF ReadyInv, SeenHeld, Seen, request
<1>. QED BY <1>2, <1>3, <1>4 DEF ReadyInv

LEMMA PublishSeen ==
    ASSUME ReadyInv, ReadyTyped', NEW k \in Keys, PublishReach(k)
    PROVE  ReadyInv'
<1>1. PICK g \in 1 .. given[k], r \in {"unreachable", "reachable"} :
        /\ r # reach[k][g]
        /\ reach' = [reach EXCEPT ![k][g] = r]
        /\ wasFailing' = IF k \in asked /\ r = "unreachable"
                         THEN wasFailing \cup {k} ELSE wasFailing
        /\ wasFine' = IF k \in asked /\ r = "reachable"
                      THEN wasFine \cup {k} ELSE wasFine
  BY DEF PublishReach
<1>2. wasFailing \subseteq wasFailing' /\ wasFine \subseteq wasFine'
  BY <1>1
<1>3. UNCHANGED request /\ UNCHANGED <<configured, probe, repointing>>
  BY DEF PublishReach
<1>4. SeenRead' /\ ReadyIsTrue'
  BY <1>2, <1>3, RequestKept
<1>5. ReadyTypeOK
  BY DEF ReadyInv, ReadyTyped
<1>6. ASSUME NEW j \in Keys, NEW h \in Given
      PROVE  reach'[j][h] = IF j = k /\ h = g THEN r ELSE reach[j][h]
  <2>1. reach' = [reach EXCEPT ![k] = [reach[k] EXCEPT ![g] = r]]
    BY <1>1
  <2>2. reach[k] \in [Given -> Reaches] /\ reach \in [Keys -> [Given -> Reaches]]
    BY <1>5 DEF ReadyTypeOK, Reaches
  <2>. QED BY <2>1, <2>2
<1>7. ASSUME NEW j \in asked, NEW h \in Given, Seen(j, reach[j][h])
      PROVE  Seen(j, reach[j][h])'
  <2>1. j \in Keys
    BY <1>5 DEF ReadyTypeOK
  <2>2. CASE j = k /\ h = g
    <3>1. reach'[j][h] = r
      BY <1>6, <2>1, <2>2
    <3>. QED BY <1>1, <2>2, <3>1 DEF Seen, Failing
  <2>3. CASE ~(j = k /\ h = g)
    <3>1. reach'[j][h] = reach[j][h]
      BY <1>6, <2>1, <2>3
    <3>. QED BY <1>2, <1>7, <3>1 DEF Seen
  <2>. QED BY <2>2, <2>3
<1>8. SeenNow'
  <2>1. SUFFICES ASSUME NEW j \in asked, ~repointing[j] PROVE Seen(j, StateOf(j))'
    BY <1>3 DEF SeenNow, request
  <2>2. j \in Keys /\ Seen(j, StateOf(j))
    BY <1>5, <2>1 DEF ReadyTypeOK, ReadyInv, SeenNow
  <2>3. CASE ~configured[j] \/ probe[j] = 0
    <3>1. StateOf(j)' = StateOf(j)
      BY <1>3, <2>3 DEF StateOf
    <3>. QED BY <1>2, <2>2, <3>1 DEF Seen
  <2>4. CASE configured[j] /\ probe[j] # 0
    <3>1. probe[j] \in Given
      BY <1>5, <2>2, <2>4 DEF ReadyTypeOK
    <3>2. StateOf(j) = reach[j][probe[j]] /\ StateOf(j)' = reach'[j][probe[j]]
      BY <1>3, <2>4 DEF StateOf
    <3>3. Seen(j, reach[j][probe[j]])
      BY <2>2, <3>2
    <3>. QED BY <1>3, <1>7, <3>1, <3>2, <3>3 DEF Seen
  <2>. QED BY <2>3, <2>4
<1>9. SeenHeld'
  <2>1. SUFFICES ASSUME asking = "result" PROVE Seen(held[1], reach[held[1]][held[2]])'
    BY <1>3 DEF SeenHeld, request
  <2>2. held[2] \in Given /\ held[1] \in Keys /\ Seen(held[1], reach[held[1]][held[2]])
    BY <1>5, <2>1 DEF ReadyInv, ReadyTyped, Asked, ReadyTypeOK, SeenHeld
  <2>3. CASE held[1] \in asked
    <3>1. held' = held
      BY <1>3 DEF request
    <3>. QED BY <1>7, <2>2, <2>3, <3>1 DEF Seen
  <2>4. CASE held[1] \notin asked
    <3>. QED BY <2>1, <2>4 DEF ReadyInv, ReadyTyped, Asked
  <2>. QED BY <2>3, <2>4
<1>. QED BY <1>4, <1>8, <1>9 DEF ReadyInv

\* Steps of the request that read nothing: it begins, it ends, it is over.
LEMMA AskSeen ==
    ASSUME ReadyInv, ReadyTyped', Ask \/ AskAgain
    PROVE  ReadyInv'
<1>1. SeenRead' /\ SeenHeld' /\ ReadyIsTrue'
  BY DEF Ask, AskAgain, SeenRead, SeenHeld, ReadyIsTrue
<1>2. SeenNow'
  <2>1. CASE Ask
    BY <2>1 DEF Ask, Observed, SeenNow, Seen, Failing
  <2>2. CASE AskAgain
    BY <2>2 DEF AskAgain, SeenNow
  <2>. QED BY <2>1, <2>2
<1>. QED BY <1>1, <1>2 DEF ReadyInv

LEMMA TakeProbeSeen ==
    ASSUME ReadyInv, ReadyTyped', TakeProbe
    PROVE  ReadyInv'
<1>1. PICK k \in left :
        /\ ~repointing[k]
        /\ left' = left \ {k}
        /\ IF configured[k] /\ probe[k] # 0
           THEN held' = <<k, probe[k]>> /\ asking' = "result" /\ UNCHANGED entries
           ELSE /\ entries' = [entries EXCEPT ![k] = StateOf(k)]
                /\ UNCHANGED <<held, asking>>
  BY DEF TakeProbe
<1>2. asking = "next" /\ UNCHANGED <<monitors, asked, status, wasFailing, wasFine>>
  BY DEF TakeProbe
<1>3. ReadyTypeOK /\ k \in asked /\ k \in Keys
  BY DEF ReadyInv, ReadyTyped, ReadyTypeOK
<1>4. Seen(k, StateOf(k)) /\ StateOf(k) \in States
  BY <1>1, <1>3, StateOfType DEF ReadyInv, SeenNow
<1>5. SeenNow'
  BY <1>2 DEF ReadyInv, SeenNow, Seen, StateOf, monitors
<1>6. \A j \in asked \ left : entries[j] \in States /\ Seen(j, entries[j])
  BY <1>2 DEF ReadyInv, SeenRead
<1>7. CASE configured[k] /\ probe[k] # 0
  <2>1. held' = <<k, probe[k]>> /\ asking' = "result" /\ entries' = entries
    BY <1>1, <1>7
  <2>2. SeenRead'
    BY <1>1, <1>2, <1>6, <2>1 DEF SeenRead, Seen
  <2>3. StateOf(k) = reach[k][probe[k]]
    BY <1>7 DEF StateOf
  <2>4. SeenHeld'
    BY <1>2, <1>4, <2>1, <2>3 DEF SeenHeld, Seen, monitors
  <2>5. ReadyIsTrue'
    BY <2>1 DEF ReadyIsTrue
  <2>. QED BY <1>5, <2>2, <2>4, <2>5 DEF ReadyInv
<1>8. CASE ~(configured[k] /\ probe[k] # 0)
  <2>1. /\ entries' = [entries EXCEPT ![k] = StateOf(k)]
        /\ held' = held /\ asking' = asking
    BY <1>1, <1>8
  <2>2. entries'[k] = StateOf(k) /\ \A j \in asked : j # k => entries'[j] = entries[j]
    BY <1>3, <2>1 DEF ReadyTypeOK
  <2>3. SeenRead'
    BY <1>1, <1>2, <1>4, <1>6, <2>2 DEF SeenRead, Seen
  <2>4. SeenHeld' /\ ReadyIsTrue'
    BY <1>2, <2>1 DEF SeenHeld, ReadyIsTrue
  <2>. QED BY <1>5, <2>3, <2>4 DEF ReadyInv
<1>. QED BY <1>7, <1>8

LEMMA ReadProbeSeen ==
    ASSUME ReadyInv, ReadyTyped', ReadProbe
    PROVE  ReadyInv'
<1>1. /\ asking = "result" /\ asking' = "next"
      /\ entries' = [entries EXCEPT ![held[1]] = reach[held[1]][held[2]]]
      /\ UNCHANGED <<monitors, held, asked, left, status, wasFailing, wasFine>>
  BY DEF ReadProbe
<1>2. ReadyTypeOK /\ held[1] \in Keys /\ held[2] \in Given
  BY <1>1 DEF ReadyInv, ReadyTyped, Asked, ReadyTypeOK
<1>3. reach[held[1]][held[2]] \in States /\ Seen(held[1], reach[held[1]][held[2]])
  BY <1>1, <1>2 DEF ReadyInv, SeenHeld, ReadyTypeOK, States
<1>4. /\ entries'[held[1]] = reach[held[1]][held[2]]
      /\ \A j \in asked : j # held[1] => entries'[j] = entries[j]
  BY <1>1, <1>2 DEF ReadyTypeOK
<1>5. SeenRead'
  BY <1>1, <1>3, <1>4 DEF ReadyInv, SeenRead, Seen
<1>6. SeenNow'
  BY <1>1 DEF ReadyInv, SeenNow, Seen, StateOf, monitors
<1>7. SeenHeld' /\ ReadyIsTrue'
  BY <1>1 DEF SeenHeld, ReadyIsTrue
<1>. QED BY <1>5, <1>6, <1>7 DEF ReadyInv

LEMMA AnswerSeen ==
    ASSUME ReadyInv, ReadyTyped', Answer
    PROVE  ReadyInv'
<1>1. /\ asking = "next" /\ left = {} /\ asking' = "done"
      /\ status' = IF asked # {} /\ \A k \in asked : entries[k] \in Failing
                   THEN 503 ELSE 200
      /\ UNCHANGED <<monitors, held, asked, left, entries, wasFailing, wasFine>>
  BY DEF Answer
<1>2. \A k \in asked : entries[k] \in States /\ Seen(k, entries[k])
  BY <1>1 DEF ReadyInv, SeenRead
<1>6. ReadyIsTrue'
  <2>1. CASE asked # {} /\ \A k \in asked : entries[k] \in Failing
    BY <1>1, <1>2, <2>1 DEF ReadyIsTrue, Seen
  <2>2. CASE asked # {} /\ \E k \in asked : entries[k] \notin Failing
    BY <1>1, <1>2, <2>2 DEF ReadyIsTrue, Seen, States, Failing
  <2>3. CASE asked = {}
    BY <1>1, <2>3 DEF ReadyIsTrue
  <2>. QED BY <2>1, <2>2, <2>3
<1>7. SeenRead' /\ SeenHeld'
  BY <1>1, <1>2 DEF SeenRead, SeenHeld, Seen
<1>8. SeenNow'
  BY <1>1 DEF ReadyInv, SeenNow, Seen, StateOf, monitors
<1>. QED BY <1>6, <1>7, <1>8 DEF ReadyInv

LEMMA InitReadyInv == ReadyInit => ReadyInv
BY InitReadyTyped DEF ReadyInit, ReadyInv, SeenNow, SeenRead, SeenHeld, ReadyIsTrue

LEMMA StepReadyInv == ReadyInv /\ [ReadyNext]_readyVars => ReadyInv'
<1>. SUFFICES ASSUME ReadyInv, [ReadyNext]_readyVars PROVE ReadyInv'
  OBVIOUS
<1>1. ReadyTyped'
  BY StepReadyTyped DEF ReadyInv
<1>2. ASSUME NEW k \in Keys, Unconfigure(k) \/ Reconfigure(k) \/ Leave(k) PROVE ReadyInv'
  <2>1. UNCHANGED request /\ UNCHANGED reach /\ Observed
    BY <1>2 DEF Unconfigure, Reconfigure, Leave
  <2>. QED BY <1>1, <2>1, ObservedKept
<1>3. ASSUME NEW k \in Keys, PublishReach(k) PROVE ReadyInv'
  BY <1>1, <1>3, PublishSeen
<1>4. ASSUME UNCHANGED readyVars PROVE ReadyInv'
  BY <1>1, <1>4 DEF readyVars, monitors, request, ReadyInv, SeenNow, SeenRead, SeenHeld,
                    ReadyIsTrue, Seen, StateOf
<1>. QED
  BY <1>1, <1>2, <1>3, <1>4, AskSeen, TakeProbeSeen, ReadProbeSeen, AnswerSeen DEF ReadyNext

\* However many buckets there are, and whatever their probes, their Secrets and reloads
\* do while a request reads them: it answers 503 only when each of them was seen failing
\* meanwhile, and never 200 when none was seen otherwise.
THEOREM ReadyTrue == ReadySpec => []ReadyIsTrue
<1>1. ReadyInv => ReadyIsTrue
  BY DEF ReadyInv
<1>. QED BY <1>1, InitReadyInv, StepReadyInv, PTL DEF ReadySpec

-----------------------------------------------------------------------------
(* S3Errors: the errors behind a failed call, for any that wrap each other.*)

\* The exceptions a graph holds: what one wraps is another of them, or nothing.
Closed(graph, Errors) == \A e \in Errors : Underlying(graph, e) \in Errors \cup {NoError}

\* Each is wrapped by the one before it, and none comes twice.
Wrapped(graph, links) ==
    /\ \A i \in 1 .. Len(links) - 1 : links[i + 1] = Underlying(graph, links[i])
    /\ \A i, j \in 1 .. Len(links) : links[i] = links[j] => i = j

\* There is nothing more to find: it wraps nothing, or one that was found.
Complete(graph, links) ==
    LET next == Underlying(graph, links[Len(links)])
    IN  next = NoError \/ \E i \in 1 .. Len(links) : links[i] = next

\* What n - 1 steps find from e.
FoundIn(graph, Errors, e, links, n) ==
    /\ links \in Seq(Errors) /\ Len(links) \in 1 .. n /\ links[1] = e
    /\ Wrapped(graph, links)
    /\ Len(links) = n \/ Complete(graph, links)

LEMMA FurtherFinds ==
    ASSUME NEW graph, NEW Errors, Closed(graph, Errors), NEW e \in Errors,
           NEW n \in Nat, NEW links, FoundIn(graph, Errors, e, links, n)
    PROVE  FoundIn(graph, Errors, e, Further(graph, links), n + 1)
<1> DEFINE next == Underlying(graph, links[Len(links)])
<1>1. /\ links \in Seq(Errors) /\ Len(links) \in Nat /\ Len(links) >= 1 /\ Len(links) <= n
      /\ DOMAIN links = 1 .. Len(links) /\ links[Len(links)] \in Errors
    BY DEF FoundIn
<1>2. CASE Complete(graph, links)
    <2>1. Further(graph, links) = links
        BY <1>1, <1>2 DEF Further, Complete
    <2> QED BY <1>1, <1>2, <2>1 DEF FoundIn
<1>3. CASE ~Complete(graph, links)
    <2>1. /\ next \in Errors /\ \A i \in 1 .. Len(links) : links[i] # next
          /\ Further(graph, links) = Append(links, next)
        BY <1>1, <1>3 DEF Further, Complete, Closed
    <2>2. Len(links) = n
        BY <1>3 DEF FoundIn
    <2> HIDE DEF next
    <2> DEFINE longer == Append(links, next)
    <2>3. /\ longer \in Seq(Errors) /\ Len(longer) = n + 1 /\ longer[n + 1] = next
          /\ \A i \in 1 .. n : longer[i] = links[i]
        BY <1>1, <2>1, <2>2
    <2> HIDE DEF longer
    <2>4. \A i \in 1 .. n : longer[i + 1] = Underlying(graph, longer[i])
        <3> SUFFICES ASSUME NEW i \in 1 .. n PROVE longer[i + 1] = Underlying(graph, longer[i])
            OBVIOUS
        <3>1. CASE i = n
            BY <2>2, <2>3, <3>1 DEF next
        <3>2. CASE i # n
            <4>1. i \in 1 .. Len(links) - 1 /\ i + 1 \in 1 .. n
                BY <2>2, <3>2
            <4> QED BY <2>3, <4>1 DEF FoundIn, Wrapped
        <3> QED BY <3>1, <3>2
    <2>5. \A i, j \in 1 .. n + 1 : longer[i] = longer[j] => i = j
        BY <2>1, <2>2, <2>3 DEF FoundIn, Wrapped
    <2>6. longer[1] = e
        BY <1>1, <2>2, <2>3 DEF FoundIn
    <2>7. Further(graph, links) = longer
        BY <2>1 DEF longer
    <2> QED BY <2>3, <2>4, <2>5, <2>6, <2>7 DEF FoundIn, Wrapped
<1> QED BY <1>2, <1>3

\* The chain as the loop builds it, a step at a time: MaxChain - 1 steps.
LEMMA ChainSteps ==
    ASSUME NEW graph, NEW e
    PROVE  LET F(links) == Further(graph, links)
           IN  Chain(graph, e) = F(F(F(F(F(F(F(<<e>>)))))))
<1> DEFINE F(links) == Further(graph, links)
           c1 == <<e>>  c2 == F(c1)  c3 == F(c2)  c4 == F(c3)
           c5 == F(c4)  c6 == F(c5)  c7 == F(c6)  c8 == F(c7)
           Loop(f) == [n \in 1 .. MaxChain |-> IF n = 1 THEN <<e>> ELSE F(f[n - 1])]
           chain == CHOOSE f : f = Loop(f)
           links == <<c1, c2, c3, c4, c5, c6, c7, c8>>
<1>1. Chain(graph, e) = chain[MaxChain]
    BY DEF Chain
<1> HIDE DEF F
<1>2. \A n \in 1 .. MaxChain : n \in {1, 2, 3, 4, 5, 6, 7, 8}
    BY DEF MaxChain
<1>3. \A n \in 1 .. MaxChain : links[n] = IF n = 1 THEN <<e>> ELSE F(links[n - 1])
    BY <1>2
<1>4. links = [n \in 1 .. MaxChain |-> links[n]]
    BY DEF MaxChain
<1>5. links = Loop(links)
    <2> HIDE DEF links
    <2> QED BY <1>3, <1>4
<1>6. chain = Loop(chain)
    BY <1>5
<1> HIDE DEF chain
<1>7. \A n \in 1 .. 8 : chain[n] = IF n = 1 THEN <<e>> ELSE F(chain[n - 1])
    BY <1>6 DEF MaxChain
<1>8. chain[1] = c1
    BY <1>7
<1>9. chain[2] = c2 
    BY <1>7, <1>8
<1>10. chain[3] = c3
    BY <1>7, <1>9
<1>11. chain[4] = c4
    BY <1>7, <1>10
<1>12. chain[5] = c5
    BY <1>7, <1>11
<1>13. chain[6] = c6
    BY <1>7, <1>12
<1>14. chain[7] = c7
    BY <1>7, <1>13
<1>15. chain[8] = c8
    BY <1>7, <1>14
<1> QED BY <1>1, <1>15 DEF F, MaxChain

\* For any exceptions, wrapped in any way, in circles too (errors.py:34 "bounded so a
\* chain that loops back on itself cannot hang the probe"): the chain starts with the one
\* raised, each wraps the next, none comes twice, there are at most MaxChain, and fewer
\* only when there is nothing more to find.
THEOREM ChainIsBounded ==
    ASSUME NEW graph, NEW Errors, Closed(graph, Errors), NEW e \in Errors
    PROVE  FoundIn(graph, Errors, e, Chain(graph, e), MaxChain)
<1> DEFINE F(links) == Further(graph, links)
           In(links, n) == FoundIn(graph, Errors, e, links, n)
<1>1. In(<<e>>, 1)
    BY DEF FoundIn, Wrapped
<1>2. \A n \in Nat : \A links : In(links, n) => In(F(links), n + 1)
    BY FurtherFinds
<1> HIDE DEF F, In
<1>3. In(F(F(F(<<e>>))), 4)
    <2>1. In(F(<<e>>), 2)
        BY <1>1, <1>2
    <2>2. In(F(F(<<e>>)), 3)
        BY <2>1, <1>2
    <2> QED BY <2>2, <1>2
<1>4. In(F(F(F(F(F(<<e>>))))), 6)
    <2>1. In(F(F(F(F(<<e>>)))), 5)
        BY <1>3, <1>2
    <2> QED BY <2>1, <1>2
<1>5. In(F(F(F(F(F(F(F(<<e>>))))))), 8)
    <2>1. In(F(F(F(F(F(F(<<e>>)))))), 7)
        BY <1>4, <1>2
    <2> QED BY <2>1, <1>2
<1> QED BY <1>5, ChainSteps DEF F, In, MaxChain

\* Each exception a wrapper leads to is in the chain, in its place, down to the bound.
LEMMA WrappedIsFound ==
    ASSUME NEW graph, NEW Errors, Closed(graph, Errors), NoError \notin Errors,
           NEW n \in 1 .. MaxChain, NEW path \in Seq(Errors), Len(path) = n, Wrapped(graph, path)
    PROVE  /\ n <= Len(Chain(graph, path[1]))
           /\ Chain(graph, path[1])[n] = path[n]
<1> DEFINE chain == Chain(graph, path[1])
           Same(i) == i <= n => i <= Len(chain) /\ chain[i] = path[i]
<1>1. n \in Nat /\ 1 <= n /\ n <= 8 /\ \A i \in 1 .. n : path[i] \in Errors
    BY DEF MaxChain
<1>2. FoundIn(graph, Errors, path[1], chain, 8)
    BY <1>1, ChainIsBounded DEF MaxChain
<1> HIDE DEF chain
<1>3. chain \in Seq(Errors) /\ Len(chain) \in Nat
    BY <1>2 DEF FoundIn
<1>4. Same(1)
    BY <1>2, <1>3 DEF FoundIn
<1>5. ASSUME NEW i \in 1 .. 7, \A j \in 1 .. i : Same(j) PROVE Same(i + 1)
    <2> SUFFICES ASSUME i + 1 <= n PROVE i + 1 <= Len(chain) /\ chain[i + 1] = path[i + 1]
        OBVIOUS
    <2>1. i <= Len(chain) /\ \A j \in 1 .. i : chain[j] = path[j]
        BY <1>5
    <2>2. /\ path[i + 1] = Underlying(graph, path[i]) /\ path[i + 1] \in Errors
          /\ \A j \in 1 .. i : path[j] # path[i + 1]
        BY <1>1 DEF Wrapped
    <2>3. i + 1 <= Len(chain)
        <3>1. CASE Len(chain) = i
            <4>1. chain[Len(chain)] = path[i] /\ ~Complete(graph, chain)
                BY <2>1, <2>2, <3>1 DEF Complete
            <4> QED BY <1>2, <3>1, <4>1 DEF FoundIn
        <3> QED BY <1>3, <2>1, <3>1
    <2>4. chain[i + 1] = Underlying(graph, chain[i])
        BY <1>2, <1>3, <2>3 DEF FoundIn, Wrapped
    <2> QED BY <2>1, <2>2, <2>3, <2>4
<1> HIDE DEF Same
<1>6. Same(1) /\ Same(2) /\ Same(3) /\ Same(4)
    <2>1. Same(2)
        BY <1>4, <1>5
    <2>2. Same(3)
        BY <1>4, <1>5, <2>1
    <2> QED BY <1>4, <1>5, <2>1, <2>2
<1>7. Same(5) /\ Same(6)
    <2>1. Same(5)
        BY <1>5, <1>6
    <2> QED BY <1>5, <1>6, <2>1
<1>8. Same(7) /\ Same(8)
    <2>1. Same(7)
        BY <1>5, <1>6, <1>7
    <2> QED BY <1>5, <1>6, <1>7, <2>1
<1>9. Same(n)
    BY <1>1, <1>6, <1>7, <1>8
<1> QED BY <1>1, <1>9 DEF Same, chain

\* A name that did not resolve is told as such, whatever wraps the resolver's error, up to
\* MaxChain deep (errors.py:34, 68-86); and any failure has a reason the metric counts.
THEOREM NameNotFoundIsTold ==
    ASSUME NEW graph, NEW Errors, Closed(graph, Errors), NoError \notin Errors,
           NEW path \in Seq(Errors), Len(path) \in 1 .. MaxChain, Wrapped(graph, path)
    PROVE  /\ IsDns(graph[path[Len(path)]]) => Classify(graph, path[1]) = "dns"
           /\ Classify(graph, path[1]) \in ErrorReasons
<1> DEFINE chain == Chain(graph, path[1])
           n == Len(path)
<1>1. n <= Len(chain) /\ chain[n] = path[n]
    BY WrappedIsFound
<1>2. chain \in Seq(Errors) /\ n \in 1 .. Len(chain)
    <2>1. path[1] \in Errors
        BY DEF MaxChain
    <2>2. chain \in Seq(Errors)
        BY <2>1, ChainIsBounded DEF FoundIn
    <2> QED BY <1>1, <2>2 DEF MaxChain
<1>3. graph[path[n]] \in Links(graph, path[1])
    <2> HIDE DEF chain, n
    <2>1. n \in DOMAIN chain
        BY <1>2
    <2> QED BY <1>1, <2>1 DEF Links, chain
<1>4. \A error : OfClass(error) \in ErrorReasons
    BY DEF OfClass, OfStatus, ErrorReasons
<1> QED BY <1>3, <1>4 DEF Classify, ErrorReasons

-----------------------------------------------------------------------------
(* BucketMetrics: the counters of a probe, in a scrape.                    *)

\* What the theorems on figures take from S3Errors and UsageSources: a failure is
\* classified as what it was, and an answer read as what the storage said.
FailuresKnown == \A f \in Failures : Classify(f.graph, f.raised) = f.truth
AnswersKnown == \A c \in Cases : Fetch(c.source, c.answer, c.bucket, c.today) = c.truth

Reasoned == {truths \in Seq(ErrorReasons) : Len(truths) <= 2}

ViewsTyped == built \in 0 .. MaxViews /\ view \in 0 .. built

ProbesTyped ==
    /\ ViewsTyped
    /\ probing \in [Views -> [at : {"idle", "attempt", "publish"}, truths : Reasoned]]
    /\ checks \in [Views -> Nat]
    /\ errors \in [Views -> [ErrorReasons -> SUBSET (Nat \X {1, 2})]]
    /\ results \in [Views -> [check : Nat, up : BOOLEAN, truths : Reasoned]]

ScrapeTyped ==
    /\ scrape = [view |-> scrape.view, before |-> scrape.before, snapshot |-> scrape.snapshot,
                 result |-> scrape.result, errors |-> scrape.errors,
                 configured |-> scrape.configured]
    /\ at \in {"idle", "snapshot", "result", "errors", "count", "done"}
    /\ at \in {"snapshot", "result", "errors"} => scrape.view \in Views
    /\ scrape.view \in {0} \cup Views

\* The attempts of the check under way are counted as they fail, and those of a result
\* that shows the bucket unreachable were two.
CheckCounted(v) ==
    /\ probing[v].at = "attempt" => Len(probing[v].truths) < 2
    /\ probing[v].at # "idle" =>
          \A n \in 1 .. Len(probing[v].truths) :
              <<checks[v], n>> \in errors[v][probing[v].truths[n]]

Shown(published, counts) ==
    published.check # 0 /\ ~published.up =>
        /\ published.truths \in Reasoned /\ Len(published.truths) = 2
        /\ \A n \in {1, 2} : <<published.check, n>> \in counts[published.truths[n]]

OutageInv ==
    /\ ProbesTyped /\ ScrapeTyped
    /\ \A v \in Views : CheckCounted(v) /\ Shown(results[v], errors[v])
    /\ at = "errors" => Shown(scrape.result, errors[scrape.view])
    /\ at \in {"count", "done"} /\ scrape.view # 0 => Shown(scrape.result, scrape.errors)

LEMMA InitOutage == MetricsInit => OutageInv
<1>. SUFFICES ASSUME MetricsInit PROVE OutageInv
  OBVIOUS
<1>1. <<>> \in Reasoned /\ Len(<<>>) = 0
  BY EmptySeq DEF Reasoned
<1>2. ViewsTyped
  BY MetricsAssumption DEF MetricsInit, ViewsTyped
<1>3. ProbesTyped
  BY <1>1, <1>2 DEF MetricsInit, ProbesTyped, NoProbe, NotCounted, ProbeResult
<1>4. ScrapeTyped
  BY DEF MetricsInit, ScrapeTyped, NoScrape
<1>5. \A v \in Views : CheckCounted(v) /\ Shown(results[v], errors[v])
  BY DEF MetricsInit, CheckCounted, Shown, NoProbe, ProbeResult
<1>. QED BY <1>3, <1>4, <1>5 DEF MetricsInit, OutageInv

\* The probes are at rest, or the scrape is.
LEMMA ScrapeKept ==
    ASSUME OutageInv, ProbesTyped', UNCHANGED <<at, scrape>>,
           \A v \in Views : CheckCounted(v)' /\ Shown(results[v], errors[v])',
           \A v \in Views, r \in ErrorReasons : errors[v][r] \subseteq errors'[v][r]
    PROVE  OutageInv'
<1>1. ScrapeTyped'
  BY DEF OutageInv, ScrapeTyped
<1>2. ASSUME at = "errors" PROVE Shown(scrape.result, errors'[scrape.view])
  <2>1. Shown(scrape.result, errors[scrape.view]) /\ scrape.view \in Views
    BY <1>2 DEF OutageInv, ScrapeTyped
  <2>2. ASSUME scrape.result.truths \in Reasoned, Len(scrape.result.truths) = 2, NEW n \in {1, 2}
        PROVE  scrape.result.truths[n] \in ErrorReasons
    BY <2>2, ElementOfSeq DEF Reasoned
  <2>. QED BY <2>1, <2>2 DEF Shown
<1>. QED BY <1>1, <1>2 DEF OutageInv

LEMMA ProbesKept ==
    ASSUME OutageInv, UNCHANGED <<built, view, probes>>, ScrapeTyped',
           at' = "errors" => Shown(scrape.result, errors[scrape.view])',
           at' \in {"count", "done"} /\ scrape'.view # 0 => Shown(scrape.result, scrape.errors)'
    PROVE  OutageInv'
BY DEF OutageInv, ProbesTyped, ViewsTyped, CheckCounted, Shown, probes

LEMMA ProbeOutage == ASSUME FailuresKnown, OutageInv, NEW v \in Views, Probe(v) PROVE OutageInv'
<1>. <<>> \in Reasoned /\ Len(<<>>) = 0
  BY EmptySeq DEF Reasoned
<1>0. /\ ProbesTyped /\ CheckCounted(v) /\ Shown(results[v], errors[v])
      /\ UNCHANGED <<view, built, at, scrape>>
  <2>1. UNCHANGED <<buckets, at, scrape>>
    BY DEF Probe, ProbeBegins, AttemptPasses, AttemptFails, PublishProbe
  <2>. QED BY <2>1 DEF OutageInv, buckets
<1>1. ViewsTyped'
  BY <1>0 DEF ProbesTyped, ViewsTyped
<1>2. CASE ProbeBegins(v)
  <2>0. /\ checks' = [checks EXCEPT ![v] = @ + 1]
        /\ probing' = [probing EXCEPT ![v] = [at |-> "attempt", truths |-> <<>>]]
        /\ UNCHANGED <<errors, results>>
    BY <1>2 DEF ProbeBegins
  <2>1. ProbesTyped'
    BY <1>0, <1>1, <2>0 DEF ProbesTyped
  <2>2. \A u \in Views : CheckCounted(u)' /\ Shown(results[u], errors[u])'
    <3>1. CheckCounted(v)'
      <4>1. probing'[v].truths = <<>> /\ Len(<<>>) = 0 /\ probing'[v].at = "attempt"
        BY <1>0, <2>0 DEF ProbesTyped
      <4>. QED BY <4>1 DEF CheckCounted
    <3>2. \A u \in Views \ {v} : CheckCounted(u)'
      BY <1>0, <2>0 DEF ProbesTyped, CheckCounted, OutageInv
    <3>3. \A u \in Views : Shown(results[u], errors[u])'
      BY <2>0 DEF OutageInv, Shown
    <3>. QED BY <3>1, <3>2, <3>3
  <2>. QED BY <1>0, <1>2, <2>1, <2>2, ScrapeKept DEF ProbeBegins
<1>3. CASE AttemptPasses(v)
  <2>1. ProbesTyped'
    BY <1>0, <1>1, <1>3 DEF ProbesTyped, AttemptPasses
  <2>2. \A u \in Views : CheckCounted(u)' /\ Shown(results[u], errors[u])'
    BY <1>0, <1>3 DEF ProbesTyped, AttemptPasses, CheckCounted, OutageInv, Shown
  <2>. QED BY <1>0, <1>3, <2>1, <2>2, ScrapeKept DEF AttemptPasses
<1>4. CASE AttemptFails(v)
  <2>1. PICK f \in Failures :
            LET truths == Append(probing[v].truths, f.truth)
                tried == Len(truths)
            IN  /\ errors' = [errors EXCEPT
                      ![v][Classify(f.graph, f.raised)] = @ \cup {<<checks[v], tried>>}]
                /\ probing' = [probing EXCEPT ![v] =
                      [at |-> IF tried < 2 THEN "attempt" ELSE "publish", truths |-> truths]]
    BY <1>4 DEF AttemptFails
  <2>. DEFINE before == probing[v].truths
              truths == Append(before, f.truth)
              tried == Len(truths)
  <2>2. /\ f.truth \in ErrorReasons /\ Classify(f.graph, f.raised) = f.truth
        /\ before \in Seq(ErrorReasons) /\ Len(before) \in {0, 1}
    <3>1. probing[v].at = "attempt" /\ before \in Reasoned /\ Len(before) < 2
      BY <1>0, <1>4 DEF AttemptFails, CheckCounted, ProbesTyped
    <3>2. before \in Seq(ErrorReasons)
      BY <3>1 DEF Reasoned
    <3>3. Len(before) \in Nat
      BY <3>2, LenProperties
    <3>4. f.truth \in ErrorReasons /\ Classify(f.graph, f.raised) = f.truth
      BY MetricsAssumption DEF FailuresKnown
    <3>5. Len(before) \in {0, 1}
      <4>1. \A n \in Nat : n < 2 => n \in {0, 1}
        OBVIOUS
      <4>. QED BY <3>1, <3>3, <4>1
    <3>. QED BY <3>2, <3>4, <3>5
  <2>3. /\ truths \in Reasoned /\ tried = Len(before) + 1 /\ truths[tried] = f.truth
        /\ \A n \in 1 .. Len(before) : truths[n] = before[n] /\ before[n] \in ErrorReasons
    BY <2>2, AppendProperties, ElementOfSeq DEF Reasoned
  <2>. HIDE DEF before, truths, tried
  <2>4. /\ errors' = [errors EXCEPT ![v][f.truth] = @ \cup {<<checks[v], tried>>}]
        /\ probing' = [probing EXCEPT ![v] =
              [at |-> IF tried < 2 THEN "attempt" ELSE "publish", truths |-> truths]]
        /\ UNCHANGED <<checks, results>>
    BY <1>4, <2>1, <2>2 DEF truths, tried, before, AttemptFails
  <2>5. /\ tried \in {1, 2} /\ <<checks[v], tried>> \in Nat \X {1, 2}
    <3>1. tried \in {1, 2}
      BY <2>2, <2>3
    <3>2. checks[v] \in Nat
      BY <1>0 DEF ProbesTyped
    <3>. QED BY <3>1, <3>2
  <2>6. /\ errors' \in [Views -> [ErrorReasons -> SUBSET (Nat \X {1, 2})]]
        /\ \A u \in Views, r \in ErrorReasons : errors[u][r] \subseteq errors'[u][r]
        /\ <<checks[v], tried>> \in errors'[v][f.truth]
    BY <1>0, <2>2, <2>4, <2>5 DEF ProbesTyped
  <2>7. ProbesTyped'
    BY <1>0, <1>1, <2>3, <2>4, <2>6 DEF ProbesTyped
  <2>8. CheckCounted(v)'
    <3>1. probing'[v].truths = truths
          /\ probing'[v].at = IF tried < 2 THEN "attempt" ELSE "publish"
      BY <1>0, <2>4 DEF ProbesTyped
    <3>2. \A n \in 1 .. Len(before) : <<checks[v], n>> \in errors[v][before[n]]
      BY <1>0, <1>4 DEF CheckCounted, AttemptFails, before
    <3>3. \A n \in 1 .. Len(before) : <<checks[v], n>> \in errors'[v][truths[n]]
      BY <2>3, <2>6, <3>2
    <3>4. \A n \in 1 .. tried : n \in 1 .. Len(before) \/ n = tried
      BY <2>2, <2>3
    <3>5. \A n \in 1 .. tried : <<checks[v], n>> \in errors'[v][truths[n]]
      BY <2>3, <2>6, <3>3, <3>4
    <3>. QED BY <2>4, <3>1, <3>5 DEF CheckCounted, tried
  <2>9. \A u \in Views \ {v} : CheckCounted(u)'
    BY <1>0, <2>2, <2>4 DEF OutageInv, CheckCounted, ProbesTyped
  <2>10. ASSUME NEW u \in Views PROVE Shown(results[u], errors[u])'
    <3>1. Shown(results[u], errors[u])
      BY DEF OutageInv
    <3>2. ASSUME results[u].truths \in Reasoned, Len(results[u].truths) = 2, NEW n \in {1, 2}
          PROVE  results[u].truths[n] \in ErrorReasons
      BY <3>2, ElementOfSeq DEF Reasoned
    <3>. QED BY <2>4, <2>6, <3>1, <3>2 DEF Shown
  <2>. QED BY <1>0, <2>6, <2>7, <2>8, <2>9, <2>10, ScrapeKept
<1>5. CASE PublishProbe(v)
  <2>1. ProbesTyped'
    BY <1>0, <1>1, <1>5 DEF ProbesTyped, PublishProbe, ProbeResult
  <2>2. Shown(results[v], errors[v])'
    <3>. DEFINE truths == probing[v].truths
    <3>1. results'[v] = [check |-> checks[v], up |-> Len(truths) < 2, truths |-> truths]
          /\ errors' = errors /\ probing[v].at = "publish"
      BY <1>0, <1>5 DEF ProbesTyped, PublishProbe, ProbeResult
    <3>2. truths \in Reasoned /\ Len(truths) \in Nat /\ Len(truths) <= 2
      BY <1>0, LenProperties DEF ProbesTyped, Reasoned
    <3>3. \A n \in 1 .. Len(truths) : <<checks[v], n>> \in errors[v][truths[n]]
      BY <1>0, <3>1 DEF CheckCounted
    <3>. HIDE DEF truths
    <3>4. ASSUME ~(Len(truths) < 2) PROVE Len(truths) = 2
      BY <3>2, <3>4
    <3>5. ASSUME Len(truths) = 2 PROVE \A n \in {1, 2} : <<checks[v], n>> \in errors[v][truths[n]]
      BY <3>3, <3>5
    <3>6. /\ results'[v].check = checks[v] /\ results'[v].up = (Len(truths) < 2)
          /\ results'[v].truths = truths
      BY <3>1
    <3>. QED BY <3>1, <3>2, <3>4, <3>5, <3>6 DEF Shown
  <2>3. \A u \in Views : CheckCounted(u)'
    BY <1>0, <1>5 DEF ProbesTyped, PublishProbe, CheckCounted, OutageInv
  <2>4. \A u \in Views \ {v} : Shown(results[u], errors[u])'
    BY <1>0, <1>5 DEF ProbesTyped, PublishProbe, OutageInv, Shown
  <2>. QED BY <1>0, <1>5, <2>1, <2>2, <2>3, <2>4, ScrapeKept DEF PublishProbe
<1>. QED BY <1>2, <1>3, <1>4, <1>5 DEF Probe

LEMMA ScrapeOutage == ASSUME OutageInv, Scrape PROVE OutageInv'
<1>1. UNCHANGED <<built, view, probes, errors, results>> /\ ScrapeTyped /\ ViewsTyped
  BY DEF OutageInv, ProbesTyped, Scrape, ReadView, ReadSnapshot, ReadResult, ReadErrors, Count,
         ScrapeAgain, writers, buckets, probes
<1>2. CASE ReadView
  <2>1. ScrapeTyped'
    <3>1. /\ view \in {0} \cup Views
          /\ at' = IF view = 0 THEN "count" ELSE "snapshot"
          /\ scrape' = [NoScrape EXCEPT
                !.view = view, !.before = IF view = 0 THEN 0 ELSE Done(view)]
      BY <1>1, <1>2, MetricsAssumption DEF ReadView, ViewsTyped, Views
    <3>. QED BY <3>1 DEF ScrapeTyped, NoScrape
  <2>2. at' # "errors" /\ at' # "done" /\ (at' = "count" => scrape'.view = 0)
    BY <1>2 DEF ReadView, NoScrape
  <2>. QED BY <1>1, <2>1, <2>2, ProbesKept
<1>3. CASE ReadSnapshot
  BY <1>1, <1>3, ProbesKept DEF ReadSnapshot, ScrapeTyped
<1>4. CASE ReadResult
  <2>1. ScrapeTyped' /\ scrape'.result = results[scrape.view] /\ scrape'.view = scrape.view
        /\ scrape.view \in Views /\ at' = "errors"
    BY <1>1, <1>4 DEF ReadResult, ScrapeTyped
  <2>. QED BY <1>1, <2>1, ProbesKept DEF OutageInv
<1>5. CASE ReadErrors
  <2>1. /\ ScrapeTyped' /\ at' = "count"
        /\ scrape'.errors = errors[scrape.view] /\ scrape'.result = scrape.result
        /\ Shown(scrape.result, errors[scrape.view])
    BY <1>1, <1>5 DEF ReadErrors, ScrapeTyped, OutageInv
  <2>. QED BY <1>1, <2>1, ProbesKept
<1>6. CASE Count
  <2>1. /\ ScrapeTyped' /\ at' = "done" /\ scrape'.errors = scrape.errors
        /\ scrape'.result = scrape.result /\ scrape'.view = scrape.view
    BY <1>1, <1>6 DEF Count, ScrapeTyped
  <2>. QED BY <1>1, <1>6, <2>1, ProbesKept DEF Count, OutageInv
<1>7. CASE ScrapeAgain
  <2>1. ScrapeTyped' /\ at' = "idle"
    BY <1>7 DEF ScrapeAgain, ScrapeTyped, NoScrape
  <2>. QED BY <1>1, <2>1, ProbesKept
<1>. QED BY <1>2, <1>3, <1>4, <1>5, <1>6, <1>7 DEF Scrape

LEMMA StepOutage == ASSUME FailuresKnown, OutageInv, [MetricsNext]_metricsVars PROVE OutageInv'
<1>1. ASSUME Repoint \/ Collect \/ UNCHANGED metricsVars PROVE OutageInv'
  <2>1. UNCHANGED <<probing, checks, errors, results, at, scrape>>
    BY <1>1 DEF Repoint, Unset, Build, Collect, CollectBegins, CollectEnds, metricsVars, probes
  <2>2. ViewsTyped'
    BY <1>1, MetricsAssumption DEF OutageInv, ProbesTyped, ViewsTyped, Repoint, Unset, Build,
        Collect, CollectBegins, CollectEnds, metricsVars, buckets
  <2>3. ProbesTyped'
    BY <2>1, <2>2 DEF OutageInv, ProbesTyped
  <2>4. \A v \in Views : CheckCounted(v)' /\ Shown(results[v], errors[v])'
    BY <2>1 DEF OutageInv, CheckCounted, Shown
  <2>. QED BY <2>1, <2>3, <2>4, ScrapeKept
<1>. QED BY <1>1, ProbeOutage, ScrapeOutage DEF MetricsNext, Probes

\* However many views a Secret gives a bucket in turn, checks its probes run and scrapes
\* read them: a scrape that shows a bucket unreachable shows both attempts counted.
THEOREM MetricsOutageIsCounted == ASSUME FailuresKnown PROVE MetricsSpec => []OutageIsCounted
<1>1. OutageInv => OutageIsCounted
  BY DEF OutageInv, Shown, OutageIsCounted, ScrapeTyped
<1>2. OutageInv /\ [MetricsNext]_metricsVars => OutageInv'
  BY StepOutage
<1>. QED BY <1>1, <1>2, InitOutage, PTL DEF MetricsSpec

-----------------------------------------------------------------------------
(* BucketMetrics: the figures of a bucket, in a scrape.                    *)

HasNewest(outcomes) ==
    Succeeded(outcomes) # {} => NewestOf(Succeeded(outcomes)) \in Succeeded(outcomes)

\* What a bucket ought to show after one more collection.
LEMMA AfterOneMore ==
    ASSUME NEW outcomes \in Seq(Figures), HasNewest(outcomes), NEW truth \in Figures
    PROVE  LET more == Append(outcomes, truth)
           IN  /\ HasNewest(more)
               /\ After(more) = IF truth = Unavailable
                                THEN Snapshot(After(outcomes).usage, FALSE)
                                ELSE Snapshot(truth, TRUE)
<1>. DEFINE more == Append(outcomes, truth)
            good == Succeeded(outcomes)
            n == Len(outcomes)
<1>1. /\ more \in Seq(Figures) /\ more # <<>> /\ Len(more) = n + 1 /\ more[n + 1] = truth
      /\ \A i \in 1 .. n : more[i] = outcomes[i]
  BY AppendProperties
<1>2. n \in Nat /\ DOMAIN outcomes = 1 .. n /\ DOMAIN more = 1 .. n + 1
  BY <1>1, LenProperties
<1>3. Last(more) = truth
  BY <1>1 DEF Last
<1>. HIDE DEF more, n
<1>4. good = {i \in 1 .. n : outcomes[i] # Unavailable}
  BY <1>2 DEF Succeeded
<1>5. Succeeded(more) = {i \in 1 .. n + 1 : more[i] # Unavailable}
  BY <1>2 DEF Succeeded
<1>6. CASE truth = Unavailable
  <2>1. Succeeded(more) = good
    BY <1>1, <1>2, <1>4, <1>5, <1>6
  <2>2. good # {} => more[NewestOf(good)] = outcomes[NewestOf(good)]
    BY <1>1, <1>4 DEF HasNewest
  <2>3. After(more) = Snapshot(After(outcomes).usage, FALSE)
    BY <1>1, <1>3, <1>6, <2>1, <2>2 DEF After, Snapshot
  <2>. QED BY <1>6, <2>1, <2>3 DEF HasNewest, more
<1>7. CASE truth # Unavailable
  <2>1. Succeeded(more) = good \cup {n + 1}
    BY <1>1, <1>2, <1>4, <1>5, <1>7
  <2>2. \A i \in good \cup {n + 1} : i <= n + 1 /\ (n + 1 <= i => i = n + 1)
    BY <1>2, <1>4
  <2>3. NewestOf(good \cup {n + 1}) = n + 1
    BY <2>2 DEF NewestOf
  <2>4. After(more) = Snapshot(truth, TRUE)
    BY <1>1, <1>3, <1>7, <2>1, <2>3 DEF After, Snapshot
  <2>. QED BY <1>7, <2>1, <2>3, <2>4 DEF HasNewest, more
<1>. QED BY <1>6, <1>7

LEMMA AfterEmpty == HasNewest(<<>>) /\ After(<<>>) = Snapshot(Usage(0, 0, Missing), FALSE)
<1>1. Succeeded(<<>>) = {}
  BY DEF Succeeded
<1>. QED BY <1>1 DEF HasNewest, After

\* What was told first stays when more is told.
LEMMA PrefixStays ==
    ASSUME NEW outcomes \in Seq(Figures), NEW truth \in Figures, NEW n \in 0 .. Len(outcomes)
    PROVE  SubSeq(Append(outcomes, truth), 1, n) = SubSeq(outcomes, 1, n)
<1>. DEFINE more == Append(outcomes, truth)
<1>1. /\ \A i \in 1 .. n : outcomes[i] \in Figures /\ more[i] \in Figures
      /\ \A i \in 1 .. n : more[i] = outcomes[i] /\ n \in Int
  BY AppendProperties, LenProperties, ElementOfSeq
<1>. HIDE DEF more
<1>2. /\ SubSeq(more, 1, n) \in Seq(Figures) /\ SubSeq(outcomes, 1, n) \in Seq(Figures)
      /\ Len(SubSeq(more, 1, n)) = Len(SubSeq(outcomes, 1, n))
      /\ Len(SubSeq(outcomes, 1, n)) = IF 1 <= n THEN n - 1 + 1 ELSE 0
      /\ \A i \in 1 .. n - 1 + 1 : SubSeq(more, 1, n)[i] = more[1 + i - 1]
      /\ \A i \in 1 .. n - 1 + 1 : SubSeq(outcomes, 1, n)[i] = outcomes[1 + i - 1]
  BY <1>1, SubSeqProperties
<1>3. \A i \in 1 .. Len(SubSeq(outcomes, 1, n)) :
          SubSeq(more, 1, n)[i] = SubSeq(outcomes, 1, n)[i]
  BY <1>1, <1>2
<1>4. SubSeq(more, 1, n) = SubSeq(outcomes, 1, n)
  BY <1>2, <1>3, SeqEqual
<1>. QED BY <1>4 DEF more

\* Each collector serves what it was told, and the scrape holds what it served at some
\* point since it began.
ToldOf(v, before, snapshot) ==
    /\ before \in Nat
    /\ \E n \in before .. Len(told[v]) : snapshot = After(SubSeq(told[v], 1, n))

Serves(v) == Served(snapshots[v]) = After(told[v]) /\ HasNewest(told[v])

FiguresInv ==
    /\ ViewsTyped /\ ScrapeTyped
    /\ collecting \in {0} \cup Views
    /\ told \in [Views -> Seq(Figures)]
    /\ snapshots = [v \in Views |-> snapshots[v]]
    /\ \A v \in Views : Serves(v)
    /\ at = "snapshot" => scrape.before \in 0 .. Len(told[scrape.view])
    /\ at \in {"result", "errors", "count", "done"} /\ scrape.view # 0 =>
          ToldOf(scrape.view, scrape.before, scrape.snapshot)

LEMMA InitTold == MetricsInit => FiguresInv
<1>. SUFFICES ASSUME MetricsInit PROVE FiguresInv
  OBVIOUS
<1>1. ViewsTyped /\ ScrapeTyped
  BY InitOutage DEF OutageInv, ProbesTyped
<1>2. told \in [Views -> Seq(Figures)]
  BY EmptySeq DEF MetricsInit
<1>3. \A v \in Views : Serves(v)
  <2>1. Served(Snapshot(Unavailable, FALSE)) = Snapshot(Usage(0, 0, Missing), FALSE)
    BY DEF Served, Snapshot
  <2>. QED BY <2>1, AfterEmpty DEF MetricsInit, Serves
<1>. QED BY <1>1, <1>2, <1>3 DEF MetricsInit, FiguresInv

\* A collection ends with the answer of the storage system.
LEMMA CollectionTold == ASSUME AnswersKnown, FiguresInv, CollectEnds PROVE FiguresInv'
<1>1. PICK v \in Views : v = collecting
  BY DEF CollectEnds, FiguresInv
<1>2. PICK c \in Cases :
          LET usage == Fetch(c.source, c.answer, c.bucket, c.today)
          IN  /\ snapshots' = [snapshots EXCEPT ![collecting] = Published(usage, @)]
              /\ told' = [told EXCEPT ![collecting] = Append(@, c.truth)]
  BY DEF CollectEnds
<1>3. PICK old : old = snapshots[v]
  OBVIOUS
<1>4. /\ v \in Views /\ collecting' = 0 /\ UNCHANGED <<view, built, at, scrape>>
      /\ c.truth \in Figures
      /\ snapshots' = [snapshots EXCEPT ![v] = Published(c.truth, old)]
      /\ told' = [told EXCEPT ![v] = Append(told[v], c.truth)]
  BY <1>1, <1>2, <1>3 DEF CollectEnds, FiguresInv, AnswersKnown, Figures, buckets
<1>5. told[v] \in Seq(Figures) /\ Served(old) = After(told[v]) /\ HasNewest(told[v])
  BY <1>1, <1>3 DEF FiguresInv, Serves
<1>6. /\ told'[v] = Append(told[v], c.truth) /\ snapshots'[v] = Published(c.truth, old)
      /\ \A u \in Views \ {v} : told'[u] = told[u] /\ snapshots'[u] = snapshots[u]
      /\ snapshots' = [u \in Views |-> snapshots'[u]]
  BY <1>4 DEF FiguresInv
<1>7. Append(told[v], c.truth) \in Seq(Figures) /\ Len(Append(told[v], c.truth)) = Len(told[v]) + 1
  BY <1>4, <1>5, AppendProperties
<1>8. told' \in [Views -> Seq(Figures)]
  BY <1>4, <1>7 DEF FiguresInv
<1>9. \A u \in Views : Serves(u)'
  <2>1. /\ HasNewest(told'[v])
        /\ After(told'[v]) = IF c.truth = Unavailable THEN Snapshot(After(told[v]).usage, FALSE)
                             ELSE Snapshot(c.truth, TRUE)
    BY <1>4, <1>5, <1>6, AfterOneMore
  <2>2. Served(Published(c.truth, old)) =
            IF c.truth = Unavailable THEN Snapshot(Served(old).usage, FALSE)
            ELSE Snapshot(c.truth, TRUE)
    BY DEF Served, Published, Snapshot
  <2>3. Serves(v)'
    BY <1>5, <1>6, <2>1, <2>2 DEF Serves
  <2>4. ASSUME NEW u \in Views, u # v PROVE Serves(u)'
    BY <1>6, <2>4 DEF FiguresInv, Serves
  <2>. QED BY <2>3, <2>4
<1>10. ASSUME NEW u \in Views
      PROVE  /\ Len(told[u]) \in Nat /\ Len(told'[u]) \in Nat /\ Len(told[u]) <= Len(told'[u])
             /\ \A n \in 0 .. Len(told[u]) : SubSeq(told'[u], 1, n) = SubSeq(told[u], 1, n)
  <2>1. told[u] \in Seq(Figures) /\ Len(told[u]) \in Nat
    BY LenProperties DEF FiguresInv
  <2>2. CASE u = v
    BY <1>4, <1>5, <1>6, <1>7, <2>1, <2>2, PrefixStays
  <2>3. CASE u # v
    BY <1>6, <2>1, <2>3
  <2>. QED BY <2>2, <2>3
<1>11. ASSUME NEW u \in Views, ToldOf(u, scrape.before, scrape.snapshot)
      PROVE  ToldOf(u, scrape.before, scrape.snapshot)'
  <2>1. PICK n \in scrape.before .. Len(told[u]) :
            scrape.snapshot = After(SubSeq(told[u], 1, n))
    BY <1>11 DEF ToldOf
  <2>2. scrape.before \in Nat
    BY <1>11 DEF ToldOf
  <2>3. n \in scrape.before .. Len(told'[u]) /\ n \in 0 .. Len(told[u])
    BY <1>10, <2>1, <2>2
  <2>4. scrape.snapshot = After(SubSeq(told'[u], 1, n))
    BY <1>10, <2>1, <2>3
  <2>. QED BY <1>4, <2>2, <2>3, <2>4 DEF ToldOf
<1>12. ASSUME NEW u \in Views, scrape.before \in 0 .. Len(told[u])
       PROVE  scrape.before \in 0 .. Len(told'[u])
  BY <1>10, <1>12
<1>13. ViewsTyped' /\ ScrapeTyped'
  BY <1>4 DEF FiguresInv, ViewsTyped, ScrapeTyped
<1>14. at = "snapshot" => scrape.before \in 0 .. Len(told'[scrape.view])
  BY <1>12 DEF FiguresInv, ScrapeTyped
<1>15. at \in {"result", "errors", "count", "done"} /\ scrape.view # 0 =>
           ToldOf(scrape.view, scrape.before, scrape.snapshot)'
  <2>1. SUFFICES ASSUME at \in {"result", "errors", "count", "done"}, scrape.view # 0
                 PROVE  ToldOf(scrape.view, scrape.before, scrape.snapshot)'
    OBVIOUS
  <2>2. ToldOf(scrape.view, scrape.before, scrape.snapshot)
    BY <2>1 DEF FiguresInv
  <2>3. PICK u \in Views : u = scrape.view
    BY <2>1 DEF FiguresInv, ScrapeTyped
  <2>4. ToldOf(u, scrape.before, scrape.snapshot)'
    BY <1>11, <2>2, <2>3
  <2>5. scrape'.view = u
    BY <1>4, <2>3
  <2>. QED BY <2>4, <2>5 DEF ToldOf
<1>. QED BY <1>4, <1>6, <1>8, <1>9, <1>13, <1>14, <1>15 DEF FiguresInv

LEMMA ScrapeTold == ASSUME FiguresInv, Scrape PROVE FiguresInv'
<1>1. UNCHANGED <<built, view, collecting, told, snapshots>>
  BY DEF Scrape, ReadView, ReadSnapshot, ReadResult, ReadErrors, Count, ScrapeAgain, writers,
         buckets, collections
<1>2. ViewsTyped' /\ (\A v \in Views : Serves(v)')
  BY <1>1 DEF FiguresInv, ViewsTyped, Serves
<1>3. \A v \in Views : told[v] \in Seq(Figures) /\ Len(told[v]) \in Nat
  BY LenProperties DEF FiguresInv
<1>4. SUFFICES /\ ScrapeTyped'
               /\ at' = "snapshot" => scrape'.before \in 0 .. Len(told[scrape'.view])
               /\ at' \in {"result", "errors", "count", "done"} /\ scrape'.view # 0 =>
                     ToldOf(scrape'.view, scrape'.before, scrape'.snapshot)
  BY <1>1, <1>2 DEF FiguresInv, ToldOf
<1>5. CASE ReadView
  <2>1. /\ view \in {0} \cup Views
        /\ at' = IF view = 0 THEN "count" ELSE "snapshot"
        /\ scrape' = [NoScrape EXCEPT
              !.view = view, !.before = IF view = 0 THEN 0 ELSE Done(view)]
    BY <1>5, MetricsAssumption DEF ReadView, ViewsTyped, Views, FiguresInv
  <2>2. ScrapeTyped' /\ scrape'.view = view
    BY <2>1 DEF ScrapeTyped, NoScrape
  <2>3. view # 0 => scrape'.before = Len(told[view]) /\ view \in Views
    BY <2>1 DEF NoScrape, Done
  <2>. QED BY <1>3, <2>1, <2>2, <2>3
<1>6. CASE ReadSnapshot
  <2>1. /\ at' = "result" /\ ScrapeTyped' /\ scrape.view \in Views
        /\ scrape'.view = scrape.view /\ scrape'.before = scrape.before
        /\ scrape'.snapshot = Served(snapshots[scrape.view])
        /\ scrape.before \in 0 .. Len(told[scrape.view])
    BY <1>6 DEF ReadSnapshot, FiguresInv, ScrapeTyped
  <2>2. SubSeq(told[scrape.view], 1, Len(told[scrape.view])) = told[scrape.view]
    BY <1>3, <2>1, SubSeqFull
  <2>3. Served(snapshots[scrape.view]) = After(told[scrape.view])
    BY <2>1 DEF FiguresInv, Serves
  <2>4. Len(told[scrape.view]) \in scrape.before .. Len(told[scrape.view])
        /\ scrape.before \in Nat
    BY <1>3, <2>1
  <2>5. ToldOf(scrape.view, scrape.before, Served(snapshots[scrape.view]))
    BY <2>2, <2>3, <2>4 DEF ToldOf
  <2>. QED BY <2>1, <2>5
<1>7. CASE ReadResult \/ ReadErrors \/ Count
  <2>1. /\ ScrapeTyped' /\ at' # "snapshot" /\ at \in {"result", "errors", "count"}
        /\ scrape'.view = scrape.view /\ scrape'.before = scrape.before
        /\ scrape'.snapshot = scrape.snapshot
    BY <1>7 DEF ReadResult, ReadErrors, Count, FiguresInv, ScrapeTyped
  <2>. QED BY <2>1 DEF FiguresInv
<1>8. CASE ScrapeAgain
  <2>1. ScrapeTyped' /\ at' = "idle"
    BY <1>8 DEF ScrapeAgain, ScrapeTyped, NoScrape
  <2>. QED BY <2>1
<1>. QED BY <1>5, <1>6, <1>7, <1>8 DEF Scrape

LEMMA StepTold == ASSUME AnswersKnown, FiguresInv, [MetricsNext]_metricsVars PROVE FiguresInv'
<1>1. ASSUME Repoint \/ CollectBegins \/ (\E v \in Views : Probe(v)) \/ UNCHANGED metricsVars
      PROVE  FiguresInv'
  <2>1. UNCHANGED <<told, snapshots, at, scrape>>
    BY <1>1 DEF Repoint, Unset, Build, CollectBegins, Probe, ProbeBegins, AttemptPasses,
        AttemptFails, PublishProbe, metricsVars, collections
  <2>2. ViewsTyped' /\ collecting' \in {0} \cup Views
    <3>1. CASE Repoint
      BY <3>1, MetricsAssumption
         DEF FiguresInv, ViewsTyped, Repoint, Unset, Build, collections
    <3>2. CASE CollectBegins
      BY <3>2, MetricsAssumption DEF FiguresInv, ViewsTyped, CollectBegins, buckets, Views
    <3>3. ASSUME NEW v \in Views, Probe(v)
          PROVE  ViewsTyped' /\ collecting' \in {0} \cup Views
      <4>1. UNCHANGED <<buckets, collections>>
        BY <3>3 DEF Probe, ProbeBegins, AttemptPasses, AttemptFails, PublishProbe
      <4>. QED BY <4>1 DEF FiguresInv, ViewsTyped, buckets, collections
    <3>4. CASE UNCHANGED metricsVars
      BY <3>4 DEF FiguresInv, ViewsTyped, metricsVars, buckets, collections
    <3>. QED BY <1>1, <3>1, <3>2, <3>3, <3>4
  <2>. QED BY <2>1, <2>2 DEF FiguresInv, ScrapeTyped, Serves, ToldOf
<1>. QED BY <1>1, CollectionTold, ScrapeTold DEF MetricsNext, Probes, Collect

\* However the collections, the repoints and the scrapes of a bucket interleave: what a
\* scrape shows of it is what one of its collections left, no older than the scrape.
THEOREM MetricsFiguresAreTold == ASSUME AnswersKnown PROVE MetricsSpec => []FiguresAreTold
<1>1. FiguresInv => FiguresAreTold
  BY DEF FiguresInv, FiguresAreTold, ToldOf, Done
<1>2. FiguresInv /\ [MetricsNext]_metricsVars => FiguresInv'
  BY StepTold
<1>. QED BY <1>1, <1>2, InitTold, PTL DEF MetricsSpec

-----------------------------------------------------------------------------
(* BucketMetrics: types.                                                   *)

LEMMA ReasonedTruths == \A truths \in Reasoned : truths \in Truths
<1>. SUFFICES ASSUME NEW truths \in Reasoned PROVE truths \in Truths
  OBVIOUS
<1>1. truths \in Seq(ErrorReasons) /\ Len(truths) \in {0, 1, 2}
  <2>1. truths \in Seq(ErrorReasons) /\ Len(truths) <= 2 /\ Len(truths) \in Nat
    BY LenProperties DEF Reasoned
  <2>2. \A n \in Nat : n <= 2 => n \in {0, 1, 2}
    OBVIOUS
  <2>. QED BY <2>1, <2>2
<1>2. truths = [i \in 1 .. Len(truths) |-> truths[i]]
      /\ \A i \in 1 .. Len(truths) : truths[i] \in ErrorReasons
  BY <1>1, LenProperties, ElementOfSeq
<1>3. CASE Len(truths) = 0
  BY <1>1, <1>3, EmptySeq DEF Truths
<1>4. CASE Len(truths) = 1
  <2>1. truths = <<truths[1]>> /\ truths[1] \in ErrorReasons
    BY <1>2, <1>4
  <2>. QED BY <2>1 DEF Truths
<1>5. CASE Len(truths) = 2
  <2>1. truths = <<truths[1], truths[2]>>
        /\ truths[1] \in ErrorReasons /\ truths[2] \in ErrorReasons
    BY <1>2, <1>5
  <2>. QED BY <2>1 DEF Truths
<1>. QED BY <1>1, <1>3, <1>4, <1>5

\* A collection that runs has room for its outcome.
CollectionRanges ==
    /\ locked \in BOOLEAN /\ collecting \in 0 .. built
    /\ snapshots \in [Views -> Snapshots]
    /\ \A v \in Views : Len(told[v]) <= MaxCollections
    /\ collecting # 0 => Len(told[collecting]) < MaxCollections

\* A probe that runs has begun a check.
ProbeRanges ==
    /\ checks \in [Views -> 0 .. MaxProbes]
    /\ \A v \in Views : probing[v].at # "idle" => checks[v] # 0
    /\ errors \in [Views -> Counts]
    /\ results \in [Views -> Results]

ScrapeRanges ==
    /\ scrape.view \in 0 .. built /\ scrape.before \in 0 .. MaxCollections
    /\ scrape.snapshot \in Snapshots /\ scrape.result \in Results
    /\ scrape.errors \in Counts /\ scrape.configured \in BOOLEAN

MetricsInv == OutageInv /\ FiguresInv /\ CollectionRanges /\ ProbeRanges /\ ScrapeRanges

LEMMA NothingTyped ==
    /\ NoProbe \in Results /\ NotCounted \in Counts
    /\ Snapshot(Unavailable, FALSE) \in Snapshots
    /\ NoScrape.view = 0 /\ NoScrape.before = 0 /\ NoScrape.configured \in BOOLEAN
    /\ NoScrape.snapshot \in Snapshots /\ NoScrape.result \in Results
    /\ NoScrape.errors \in Counts
BY MetricsAssumption
   DEF NoScrape, NoProbe, ProbeResult, Results, NotCounted, Counts, Snapshot, Snapshots, Figures, Truths

LEMMA InitMetrics == MetricsInit => MetricsInv
<1>. SUFFICES ASSUME MetricsInit PROVE MetricsInv
  OBVIOUS
<1>1. CollectionRanges
  <2>1. \A v \in Views : told[v] = <<>> /\ Len(<<>>) = 0
    BY DEF MetricsInit
  <2>2. snapshots \in [Views -> Snapshots]
    BY NothingTyped DEF MetricsInit
  <2>3. MaxCollections \in Nat
    BY MetricsAssumption
  <2>4. locked \in BOOLEAN /\ collecting = 0 /\ built = 0
    BY DEF MetricsInit
  <2>. QED BY <2>1, <2>2, <2>3, <2>4 DEF CollectionRanges
<1>2. ProbeRanges
  BY NothingTyped, MetricsAssumption DEF MetricsInit, ProbeRanges
<1>3. ScrapeRanges
  BY NothingTyped, MetricsAssumption DEF MetricsInit, ScrapeRanges
<1>. QED BY <1>1, <1>2, <1>3, InitOutage, InitTold DEF MetricsInv

LEMMA StepCollections ==
    ASSUME AnswersKnown, MetricsInv, [MetricsNext]_metricsVars PROVE CollectionRanges'
<1>. USE DEF MetricsInv, CollectionRanges
<1>1. built \in 0 .. MaxViews /\ view \in 0 .. built /\ MaxViews \in Nat
  BY MetricsAssumption DEF OutageInv, ProbesTyped, ViewsTyped
<1>2. CASE UNCHANGED <<locked, collections>> /\ built <= built' /\ built' \in Nat
  BY <1>1, <1>2 DEF collections
<1>3. CASE Repoint
  <2>1. (built' = built \/ built' = built + 1) /\ locked' \in BOOLEAN
    BY <1>3 DEF Repoint, Unset, Build
  <2>2. UNCHANGED collections
    BY <1>3 DEF Repoint, Unset, Build
  <2>. QED BY <1>1, <2>1, <2>2 DEF collections
<1>4. CASE CollectBegins
  <2>1. collecting' = view /\ view \in Views /\ Len(told[view]) < MaxCollections
    BY <1>1, <1>4 DEF CollectBegins, Done, Views
  <2>. QED BY <1>1, <1>4, <2>1 DEF CollectBegins, buckets
<1>5. CASE CollectEnds
  <2>1. PICK v \in Views : v = collecting
    BY <1>5 DEF CollectEnds, FiguresInv
  <2>2. PICK c \in Cases :
            LET usage == Fetch(c.source, c.answer, c.bucket, c.today)
            IN  /\ snapshots' = [snapshots EXCEPT ![collecting] = Published(usage, @)]
                /\ told' = [told EXCEPT ![collecting] = Append(@, c.truth)]
    BY <1>5 DEF CollectEnds
  <2>3. /\ snapshots' = [snapshots EXCEPT ![v] = Published(c.truth, snapshots[v])]
        /\ told' = [told EXCEPT ![v] = Append(told[v], c.truth)]
        /\ c.truth \in Figures /\ UNCHANGED <<built, locked>> /\ collecting' = 0
    BY <1>5, <2>1, <2>2 DEF CollectEnds, AnswersKnown, FiguresInv, Figures, buckets
  <2>4. Published(c.truth, snapshots[v]) \in Snapshots
    BY <2>3 DEF Published, Snapshot, Snapshots
  <2>5. told \in [Views -> Seq(Figures)] /\ Len(Append(told[v], c.truth)) = Len(told[v]) + 1
    BY <2>3, AppendProperties DEF FiguresInv
  <2>6. Len(told[v]) \in Nat /\ MaxCollections \in Nat /\ Len(told[v]) < MaxCollections
    BY <2>1, <2>5, <1>1, <1>5, LenProperties, MetricsAssumption DEF CollectEnds
  <2>7. \A u \in Views : Len(told'[u]) <= MaxCollections
    BY <2>3, <2>5, <2>6
  <2>. QED BY <1>1, <2>3, <2>4, <2>7
<1>6. ASSUME (\E v \in Views : Probe(v)) \/ Scrape \/ UNCHANGED metricsVars
      PROVE  UNCHANGED <<built, locked, collections>>
  BY <1>6 DEF Probe, ProbeBegins, AttemptPasses, AttemptFails, PublishProbe, Scrape, ReadView,
      ReadSnapshot, ReadResult, ReadErrors, Count, ScrapeAgain, writers, buckets, metricsVars
<1>. QED BY <1>1, <1>2, <1>3, <1>4, <1>5, <1>6 DEF MetricsNext, Probes, Collect

LEMMA StepProbes ==
    ASSUME FailuresKnown, MetricsInv, [MetricsNext]_metricsVars PROVE ProbeRanges'
<1>. USE DEF MetricsInv, ProbeRanges
<1>1. /\ MaxProbes \in Nat /\ ProbesTyped
      /\ probing = [u \in Views |-> probing[u]]
  BY MetricsAssumption DEF OutageInv, ProbesTyped
<1>2. CASE UNCHANGED <<probing, checks, errors, results>>
  BY <1>2
<1>3. ASSUME NEW v \in Views, ProbeBegins(v) PROVE ProbeRanges'
  <2>1. /\ checks' = [checks EXCEPT ![v] = @ + 1] /\ checks[v] < MaxProbes
        /\ probing' = [probing EXCEPT ![v] = [at |-> "attempt", truths |-> <<>>]]
        /\ UNCHANGED <<errors, results>>
    BY <1>3 DEF ProbeBegins
  <2>2. checks[v] + 1 \in 0 .. MaxProbes /\ checks[v] + 1 # 0
    BY <1>1, <2>1
  <2>. QED BY <1>1, <2>1, <2>2
<1>4. ASSUME NEW v \in Views, AttemptPasses(v) PROVE ProbeRanges'
  <2>1. UNCHANGED <<checks, errors, results>> /\ probing[v].at = "attempt"
        /\ probing' = [probing EXCEPT ![v].at = "publish"]
    BY <1>4 DEF AttemptPasses
  <2>. QED BY <1>1, <2>1
<1>5. ASSUME NEW v \in Views, AttemptFails(v) PROVE ProbeRanges'
  <2>1. PICK f \in Failures :
            LET truths == Append(probing[v].truths, f.truth)
                tried == Len(truths)
            IN  /\ errors' = [errors EXCEPT
                      ![v][Classify(f.graph, f.raised)] = @ \cup {<<checks[v], tried>>}]
                /\ probing' = [probing EXCEPT ![v] =
                      [at |-> IF tried < 2 THEN "attempt" ELSE "publish", truths |-> truths]]
    BY <1>5 DEF AttemptFails
  <2>2. PICK tried : tried = Len(Append(probing[v].truths, f.truth))
    OBVIOUS
  <2>3. f.truth \in ErrorReasons /\ Classify(f.graph, f.raised) = f.truth
    BY MetricsAssumption DEF FailuresKnown
  <2>4. tried \in {1, 2}
    <3>1. probing[v].truths \in Reasoned /\ Len(probing[v].truths) < 2
      BY <1>1, <1>5 DEF AttemptFails, OutageInv, CheckCounted, ProbesTyped
    <3>2. probing[v].truths \in Seq(ErrorReasons) /\ Len(probing[v].truths) \in Nat
      BY <3>1, LenProperties DEF Reasoned
    <3>3. tried = Len(probing[v].truths) + 1
      BY <2>2, <2>3, <3>2, AppendProperties
    <3>. QED BY <3>1, <3>2, <3>3
  <2>5. checks[v] \in 1 .. MaxProbes
    BY <1>1, <1>5 DEF AttemptFails
  <2>6. errors' = [errors EXCEPT ![v][f.truth] = @ \cup {<<checks[v], tried>>}]
        /\ UNCHANGED <<checks, results>>
    BY <1>5, <2>1, <2>2, <2>3 DEF AttemptFails
  <2>7. errors' \in [Views -> Counts]
    <3>1. errors[v] \in Counts
      OBVIOUS
    <3>2. [errors[v] EXCEPT ![f.truth] = @ \cup {<<checks[v], tried>>}] \in Counts
      BY <2>3, <2>4, <2>5, <3>1 DEF Counts, Attempts
    <3>. QED BY <2>6, <3>2
  <2>8. \A u \in Views : probing'[u].at # "idle" => checks'[u] # 0
    BY <1>1, <1>5, <2>1, <2>5, <2>6 DEF AttemptFails
  <2>. QED BY <2>6, <2>7, <2>8
<1>6. ASSUME NEW v \in Views, PublishProbe(v) PROVE ProbeRanges'
  <2>1. probing[v].truths \in Truths
    BY <1>1, ReasonedTruths DEF ProbesTyped
  <2>2. ProbeResult(checks[v], Len(probing[v].truths) < 2, probing[v].truths) \in Results
    BY <2>1 DEF ProbeResult, Results
  <2>. QED BY <1>1, <1>6, <2>2 DEF PublishProbe
<1>7. ASSUME Repoint \/ Collect \/ Scrape \/ UNCHANGED metricsVars
      PROVE  UNCHANGED <<probing, checks, errors, results>>
  BY <1>7 DEF Repoint, Unset, Build, Collect, CollectBegins, CollectEnds, Scrape, ReadView,
      ReadSnapshot, ReadResult, ReadErrors, Count, ScrapeAgain, writers, probes, metricsVars
<1>. QED BY <1>2, <1>3, <1>4, <1>5, <1>6, <1>7 DEF MetricsNext, Probes, Probe

LEMMA StepScrapes == ASSUME MetricsInv, [MetricsNext]_metricsVars PROVE ScrapeRanges'
<1>. USE DEF MetricsInv
<1>1. /\ ScrapeTyped /\ built \in 0 .. MaxViews /\ view \in 0 .. built /\ MaxViews \in Nat
      /\ MaxCollections \in Nat
  BY MetricsAssumption DEF OutageInv, ProbesTyped, ViewsTyped
<1>2. ASSUME Repoint \/ Collect \/ Probes \/ UNCHANGED metricsVars PROVE ScrapeRanges'
  <2>1. scrape' = scrape
    BY <1>2 DEF Repoint, Unset, Build, Collect, CollectBegins, CollectEnds, Probes, Probe,
        ProbeBegins, AttemptPasses, AttemptFails, PublishProbe, metricsVars
  <2>2. built <= built' /\ built' \in Nat
    BY <1>1, <1>2 DEF Repoint, Unset, Build, Collect, CollectBegins, CollectEnds, Probes, Probe,
        ProbeBegins, AttemptPasses, AttemptFails, PublishProbe, metricsVars, buckets
  <2>. QED BY <1>1, <2>1, <2>2 DEF ScrapeRanges
<1>3. ASSUME Scrape PROVE built' = built
  BY <1>3 DEF Scrape, ReadView, ReadSnapshot, ReadResult, ReadErrors, Count, ScrapeAgain,
      writers, buckets
<1>4. CASE ReadView
  <2>1. view # 0 => Done(view) \in 0 .. MaxCollections
    <3>1. view # 0 => view \in Views
      BY <1>1 DEF Views
    <3>. QED BY <1>1, <3>1, LenProperties DEF CollectionRanges, FiguresInv, Done
  <2>2. /\ scrape'.view = view /\ scrape'.before = IF view = 0 THEN 0 ELSE Done(view)
        /\ scrape'.snapshot = NoScrape.snapshot /\ scrape'.result = NoScrape.result
        /\ scrape'.errors = NoScrape.errors /\ scrape'.configured = NoScrape.configured
    BY <1>4 DEF ReadView, NoScrape
  <2>. QED BY <1>1, <1>3, <1>4, <2>1, <2>2, NothingTyped DEF Scrape, ScrapeRanges
<1>5. CASE ReadSnapshot
  <2>1. scrape.view \in Views
    BY <1>1, <1>5 DEF ReadSnapshot, ScrapeTyped
  <2>2. Served(snapshots[scrape.view]) \in Snapshots
    BY <2>1 DEF CollectionRanges, Served, Snapshot, Snapshots
  <2>. QED BY <1>1, <1>3, <1>5, <2>2 DEF Scrape, ReadSnapshot, ScrapeRanges, ScrapeTyped
<1>6. CASE ReadResult
  <2>1. results[scrape.view] \in Results
    BY <1>1, <1>6 DEF ReadResult, ScrapeTyped, ProbeRanges
  <2>. QED BY <1>1, <1>3, <1>6, <2>1 DEF Scrape, ReadResult, ScrapeRanges, ScrapeTyped
<1>7. CASE ReadErrors
  <2>1. errors[scrape.view] \in Counts
    BY <1>1, <1>7 DEF ReadErrors, ScrapeTyped, ProbeRanges
  <2>. QED BY <1>1, <1>3, <1>7, <2>1 DEF Scrape, ReadErrors, ScrapeRanges, ScrapeTyped
<1>8. CASE Count
  BY <1>1, <1>3, <1>8 DEF Scrape, Count, ScrapeRanges, ScrapeTyped
<1>9. CASE ScrapeAgain
  BY <1>1, <1>3, <1>9, NothingTyped DEF Scrape, ScrapeAgain, ScrapeRanges
<1>. QED BY <1>2, <1>4, <1>5, <1>6, <1>7, <1>8, <1>9 DEF MetricsNext, Scrape

\* With failures classified and answers read as they were meant, every state of a bucket's
\* views, probes and scrapes is well typed, for any number of views, checks and collections.
THEOREM MetricsTypes == ASSUME FailuresKnown, AnswersKnown PROVE MetricsSpec => []MetricsTypeOK
<1>1. MetricsInv /\ [MetricsNext]_metricsVars => MetricsInv'
  BY StepOutage, StepTold, StepCollections, StepProbes, StepScrapes DEF MetricsInv
<1>2. MetricsInv => MetricsTypeOK
  <2>. SUFFICES ASSUME MetricsInv PROVE MetricsTypeOK
    OBVIOUS
  <2>1. probing \in [Views -> [at : {"idle", "attempt", "publish"}, truths : Truths]]
    BY ReasonedTruths DEF MetricsInv, OutageInv, ProbesTyped
  <2>. QED BY <2>1 DEF MetricsInv, OutageInv, ProbesTyped, ViewsTyped, ScrapeTyped, FiguresInv,
           CollectionRanges, ProbeRanges, ScrapeRanges, MetricsTypeOK
<1>. QED BY <1>1, <1>2, InitMetrics, PTL DEF MetricsSpec

-----------------------------------------------------------------------------
(* SecretListing.                                                          *)

\* What pages served from one state of the Secrets hold, up to a place of their order.
ListOf(cluster, to) == [n \in Items(cluster, 0, to) |-> Decoded(cluster[n])]

\* The pages read so far are of the state the first was served from.
ListingInv ==
    /\ ListingTypeOK
    /\ phase = "listing" => page = ListOf(served, token)
    /\ phase = "listed" => page = ListOf(served, Len(Order))
    /\ secrets = ListOf(asOf, Len(Order))

LEMMA OrderFacts ==
    /\ Len(Order) \in Nat /\ DOMAIN Order = 1 .. Len(Order)
    /\ Names = {Order[i] : i \in 1 .. Len(Order)}
BY ListingAssumption, LenProperties DEF Names

LEMMA ListOfType ==
    ASSUME NEW cluster \in [Names -> Contents], NEW to \in 0 .. Len(Order)
    PROVE  /\ Items(cluster, 0, to) \subseteq Names /\ ListOf(cluster, to) \in Found
           /\ DOMAIN ListOf(cluster, to) = Items(cluster, 0, to)
           /\ \A n \in Items(cluster, 0, to) : ListOf(cluster, to)[n] = Decoded(cluster[n])
           /\ \A n \in Items(cluster, 0, to) : ListOf(cluster, to)[n].data \in Values \cup {Empty}
<1>1. Items(cluster, 0, to) \in SUBSET Names
  BY OrderFacts DEF Items
<1>2. \A n \in Items(cluster, 0, to) : cluster[n] \in Values \cup {Malformed}
  BY <1>1 DEF Items, Contents
<1>3. \A n \in Items(cluster, 0, to) :
          Decoded(cluster[n]) \in ListedSecrets /\ Decoded(cluster[n]).data \in Values \cup {Empty}
  BY <1>2 DEF Decoded, Listed, ListedSecrets
<1>4. ListOf(cluster, to) \in [Items(cluster, 0, to) -> ListedSecrets]
  BY <1>3 DEF ListOf
<1>. QED BY <1>1, <1>3, <1>4 DEF ListOf, Found

LEMMA InitListing == ListingInit => ListingInv
<1>. SUFFICES ASSUME ListingInit PROVE ListingInv
  OBVIOUS
<1>1. 0 \in 0 .. Len(Order) /\ Len(Order) \in 0 .. Len(Order) /\ 0 \in 0 .. MaxEdits
  BY OrderFacts, ListingAssumption
<1>2. asOf \in [Names -> Contents] /\ Items(asOf, 0, Len(Order)) = {}
  BY OrderFacts DEF ListingInit, Contents, Items
<1>3. secrets = ListOf(asOf, Len(Order)) /\ secrets \in Found /\ page = secrets
  BY <1>1, <1>2, ListOfType DEF ListingInit, NoNames, ListOf
<1>4. digests \in UNION {[S -> Values \cup {Empty}] : S \in SUBSET Names}
  <2>1. digests \in [{} -> Values \cup {Empty}]
    BY DEF ListingInit
  <2>. QED BY <2>1
<1>. QED BY <1>1, <1>2, <1>3, <1>4 DEF ListingInit, ListingInv, ListingTypeOK

\* One more page of the same state.
LEMMA PageListing == ASSUME ListingInv, PageRead PROVE ListingInv'
<1>. USE DEF ListingInv
<1>1. /\ phase = "listing" /\ served' = (IF token = 0 THEN secretsNow ELSE served)
      /\ NextPage(served') /\ UNCHANGED <<secretsNow, edits, installed>>
  BY DEF PageRead
<1>2. /\ served' \in [Names -> Contents] /\ token \in 0 .. Len(Order)
      /\ Items(served', 0, token) \subseteq Names
  BY <1>1, ListOfType DEF ListingTypeOK
<1>3. page = ListOf(served', token)
  <2>1. CASE token = 0
    <3>1. \A cluster : Items(cluster, 0, 0) = {}
      BY DEF Items
    <3>. QED BY <1>1, <2>1, <3>1 DEF ListOf
  <2>2. CASE token # 0
    BY <1>1, <2>2
  <2>. QED BY <2>1, <2>2
<1>4. PICK last \in token .. Len(Order) :
        LET new == Items(served', token, last)
            rest == Items(served', last, Len(Order))
        IN  /\ \/ /\ rest # {} /\ Cardinality(new) = PageSize /\ Order[last] \in new
                  /\ phase' = "listing"
               \/ /\ last = Len(Order) /\ Cardinality(new) <= PageSize
                  /\ phase' = "listed"
            /\ token' = last
            /\ page' = [n \in DOMAIN page \cup new |->
                            IF n \in new THEN Decoded(served'[n]) ELSE page[n]]
  BY <1>1 DEF NextPage
<1>5. last \in 0 .. Len(Order) /\ token \in Nat /\ last \in Nat /\ token <= last
  <2>1. token \in Nat /\ Len(Order) \in Nat
    BY <1>2, OrderFacts
  <2>. QED BY <2>1
<1>6. Items(served', 0, last) = Items(served', 0, token) \cup Items(served', token, last)
  <2>1. 0 + 1 .. last = (0 + 1 .. token) \cup (token + 1 .. last)
    BY <1>5
  <2>. QED BY <2>1 DEF Items
<1>7. page' = ListOf(served', last)
  <2>1. DOMAIN page = Items(served', 0, token)
        /\ \A n \in Items(served', 0, token) : page[n] = Decoded(served'[n])
    BY <1>2, <1>3, ListOfType
  <2>2. PICK new : new = Items(served', token, last)
    OBVIOUS
  <2>3. page' = [n \in DOMAIN page \cup new |-> IF n \in new THEN Decoded(served'[n]) ELSE page[n]]
    BY <1>4, <2>2
  <2>4. page' = [n \in Items(served', 0, last) |-> Decoded(served'[n])]
    BY <1>6, <2>1, <2>2, <2>3
  <2>. QED BY <2>4 DEF ListOf
<1>8. page' \in Found
  BY <1>2, <1>5, <1>7, ListOfType
<1>9. phase' = "listed" => last = Len(Order)
  BY <1>4
<1>10. token' = last /\ phase' \in {"listing", "listed"}
  BY <1>4
<1>11. UNCHANGED <<secretsNow, edits, secrets, digests, success, listError, counted,
                   changedNames, asOf>>
  BY <1>1 DEF installed
<1>. QED BY <1>2, <1>5, <1>7, <1>8, <1>9, <1>10, <1>11 DEF ListingTypeOK

LEMMA InstallListing == ASSUME ListingInv, Install PROVE ListingInv'
<1>. USE DEF ListingInv
<1>1. /\ phase = "listed" /\ phase' = "idle" /\ secrets' = page /\ asOf' = served
      /\ digests' = [n \in DOMAIN page |-> page[n].data]
      /\ UNCHANGED <<secretsNow, edits, served, token, page, counted>>
      /\ changedNames' \subseteq DOMAIN page /\ success' = TRUE /\ listError' = "none"
  BY DEF Install
<1>2. Len(Order) \in 0 .. Len(Order) /\ served \in [Names -> Contents]
  BY OrderFacts DEF ListingTypeOK
<1>3. page = ListOf(served, Len(Order))
  BY <1>1
<1>4. DOMAIN page \in SUBSET Names /\ \A n \in DOMAIN page : page[n].data \in Values \cup {Empty}
  BY <1>2, <1>3, ListOfType
<1>5. digests' \in [DOMAIN page -> Values \cup {Empty}]
  BY <1>1, <1>4
<1>6. digests' \in UNION {[S -> Values \cup {Empty}] : S \in SUBSET Names}
  BY <1>4, <1>5
<1>7. changedNames' \in SUBSET Names
  BY <1>1, <1>4
<1>. QED BY <1>1, <1>3, <1>6, <1>7 DEF ListingTypeOK

LEMMA StepListing == ListingInv /\ [ListingNext]_listingVars => ListingInv'
<1>. SUFFICES ASSUME ListingInv, [ListingNext]_listingVars PROVE ListingInv'
  OBVIOUS
<1>1. CASE EditSecret
  <2>1. edits' \in 0 .. MaxEdits
    BY <1>1, ListingAssumption DEF EditSecret, ListingInv, ListingTypeOK
  <2>2. secretsNow' \in [Names -> Contents] /\ UNCHANGED <<listing, installed>>
    BY <1>1 DEF EditSecret, ListingInv, ListingTypeOK
  <2>. QED BY <2>1, <2>2 DEF ListingInv, ListingTypeOK, listing, installed
<1>2. CASE StartList
  <2>1. NoNames = ListOf(served, 0) /\ 0 \in 0 .. Len(Order) /\ NoNames \in Found
    <3>1. Items(served, 0, 0) = {}
      BY DEF Items
    <3>2. 0 \in 0 .. Len(Order) /\ served \in [Names -> Contents]
      BY OrderFacts DEF ListingInv, ListingTypeOK
    <3>3. NoNames = ListOf(served, 0)
      BY <3>1 DEF NoNames, ListOf
    <3>. QED BY <3>2, <3>3, ListOfType
  <2>. QED BY <1>2, <2>1 DEF StartList, ListingInv, ListingTypeOK, installed
<1>3. CASE PageFailed
  <2>1. PICK answer \in Answers \ {"ok"} :
          /\ listError' = ListFailure(answer)
          /\ counted' = [counted EXCEPT ![ListFailure(answer)] = TRUE]
    BY <1>3 DEF PageFailed
  <2>2. ListFailure(answer) \in Reasons
    BY DEF ListFailure, Reasons
  <2>3. listError' \in Reasons \cup {"none"} /\ counted' \in [Reasons -> BOOLEAN]
    BY <2>1, <2>2 DEF ListingInv, ListingTypeOK
  <2>. QED BY <1>3, <2>3 DEF PageFailed, ListingInv, ListingTypeOK
<1>4. CASE UNCHANGED listingVars
  BY <1>4 DEF listingVars, listing, installed, ListingInv, ListingTypeOK
<1>. QED BY <1>1, <1>2, <1>3, <1>4, PageListing, InstallListing DEF ListingNext, Refresh

\* For any Secrets, page size and changes between two pages: what the monitors read is the
\* whole of what the Secrets were when the last list that succeeded began.
THEOREM ListingWhole == ListingSpec => [](ListingTypeOK /\ ListingIsWhole)
<1>1. ListingInv => ListingTypeOK /\ ListingIsWhole
  <2>. SUFFICES ASSUME ListingInv PROVE ListingIsWhole
    BY DEF ListingInv
  <2>1. Len(Order) \in 0 .. Len(Order) /\ asOf \in [Names -> Contents]
    BY OrderFacts DEF ListingInv, ListingTypeOK
  <2>2. Items(asOf, 0, Len(Order)) = {m \in Names : asOf[m] # Absent}
    BY OrderFacts DEF Items
  <2>3. /\ DOMAIN secrets = {m \in Names : asOf[m] # Absent}
        /\ \A n \in DOMAIN secrets : secrets[n] = Decoded(asOf[n])
    BY <2>1, <2>2, ListOfType DEF ListingInv
  <2>4. DiscoveryRows.secrets = Cardinality({m \in Names : asOf[m] # Absent})
    BY <2>3 DEF DiscoveryRows
  <2>5. ASSUME NEW n \in Names PROVE ValuesOf(n) = ReadSecret("ok", asOf[n])
    <3>1. CASE asOf[n] = Absent
      BY <2>3, <3>1 DEF ValuesOf, ReadSecret
    <3>2. CASE asOf[n] # Absent
      BY <2>3, <3>2 DEF ValuesOf, ReadSecret, Decoded, Listed
    <3>. QED BY <3>1, <3>2
  <2>. QED BY <2>3, <2>4, <2>5 DEF ListingIsWhole
<1>. QED BY <1>1, InitListing, StepListing, PTL DEF ListingSpec

-----------------------------------------------------------------------------
(* All that is read, side by side.                                         *)

\* Whichever part moves, the others are at rest: each keeps its own specification.
LEMMA PartsOfScrapes ==
    ScrapesSpec => EndpointSpec /\ ListingSpec /\ MetricsSpec /\ ReadySpec /\ [](subject \in Subjects)
<1>1. ScrapesInit => EndpointInit /\ ListingInit /\ MetricsInit /\ ReadyInit /\ subject \in Subjects
  BY DEF ScrapesInit
<1>2. [ScrapesNext]_<<subject, endpointVars, listingVars, metricsVars, readyVars>> =>
          /\ [EndpointNext]_endpointVars /\ [ListingNext]_listingVars
          /\ [MetricsNext]_metricsVars /\ [ReadyNext]_readyVars
          /\ subject \in Subjects => (subject \in Subjects)'
  BY DEF ScrapesNext, MetricsNext, endpointOnly, listingOnly, metricsOnly, readyOnly
<1>. QED BY <1>1, <1>2, PTL DEF ScrapesSpec, EndpointSpec, ListingSpec, MetricsSpec, ReadySpec

\* Every state of what requests read is well typed, for any endpoint, Secrets, buckets and
\* storage systems, given what the figures take from pure functions.
THEOREM ScrapesTypes == ASSUME FailuresKnown, AnswersKnown PROVE ScrapesSpec => []ScrapesTypeOK
<1>1. MetricsSpec => []MetricsTypeOK
  BY MetricsTypes
<1>. QED BY <1>1, PartsOfScrapes, EndpointTypes, ListingWhole, ReadyTypes, PTL DEF ScrapesTypeOK

=============================================================================
