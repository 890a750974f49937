------------------------ MODULE ConfigReloaderProofs ------------------------
(***************************************************************************)
(* Theorems about ConfigReloader, for any set of contents: its states are  *)
(* well typed, and, when the file is left alone while the exporter starts  *)
(* from one that parses, the metrics of the reload tell the truth; where   *)
(* no plan fails half way, a rejection changes nothing.  For any set of    *)
(* documents: every entry of the one in force has what it asks for.        *)
(***************************************************************************)
EXTENDS ReloadedDocuments, TLAPS

\* What a start and a reload need for their metrics to be true.
Orderly ==
    /\ ~EditsDuringStart
    /\ \A c \in StartFiles \cap Contents : c.parses

LEMMA DefaultsAre ==
    /\ Defaults.parses /\ Defaults.valid /\ ~Defaults.multi
BY DEF Defaults, Content

-----------------------------------------------------------------------------
(* Types.                                                                  *)

LEMMA InitTypes == Init => TypeOK
BY ReloaderAssumption DEF Init, TypeOK, Files, Entries

LEMMA StepTypes == TypeOK /\ [Next]_vars => TypeOK'
<1> SUFFICES ASSUME TypeOK, [Next]_vars
             PROVE  TypeOK'
    OBVIOUS
<1> USE DEF TypeOK, verdict
<1>1. ASSUME Edit
      PROVE  TypeOK'
    BY <1>1 DEF Edit
<1>2. ASSUME Sighup
      PROVE  TypeOK'
    BY <1>2 DEF Sighup
<1>3. ASSUME Load
      PROVE  TypeOK'
    BY <1>3 DEF Load, Loaded, Entries
<1>4. ASSUME StartedWithFile
      PROVE  TypeOK'
    BY <1>4 DEF StartedWithFile, DigestOf
<1>5. ASSUME Wakes \/ Clear
      PROVE  TypeOK'
    BY <1>5 DEF Wakes, Clear
<1>6. ASSUME Read
      PROVE  TypeOK'
    <2>1. CASE CannotRead \/ Gone
        BY <1>6, <2>1 DEF Read, CannotRead, Gone, Reject, Files
    <2>2. CASE BackInForce \/ IsNew
        BY <1>6, <2>2 DEF Read, BackInForce, IsNew, Files
    <2> QED BY <1>6, <2>1, <2>2 DEF Read
<1>7. ASSUME Apply
      PROVE  TypeOK'
    <2>1. content \in Contents /\ content.entries \in Entries
        BY <1>7 DEF Apply, Entries
    <2>2. CASE Invalid \/ Raises
        BY <1>7, <2>1, <2>2 DEF Apply, Invalid, Raises, Reject, Files
    <2>3. CASE OtherMode \/ SameMode
        BY <1>7, <2>1, <2>3 DEF Apply, OtherMode, SameMode, Accept, Pending, Files
    <2> QED BY <1>7, <2>2, <2>3 DEF Apply
<1>8. ASSUME UNCHANGED vars
      PROVE  TypeOK'
    BY <1>8 DEF vars
<1> QED BY <1>1, <1>2, <1>3, <1>4, <1>5, <1>6, <1>7, <1>8 DEF Next, Reload

\* Every state is well typed: a file that is gone or unreadable, in particular,
\* is never handed to apply.
THEOREM ReloaderTypes == Spec => []TypeOK
BY InitTypes, StepTypes, PTL DEF Spec

-----------------------------------------------------------------------------
(* The verdict.                                                            *)

\* Before the reloader runs: what was loaded is the file.
Starting ==
    pc \in {"start", "built"} =>
        /\ file \in StartFiles /\ content = file
        /\ applied = None /\ rejected = None /\ successful /\ restart = {}
        /\ pc = "built" => running = Loaded(file) /\ plan = running.entries

\* The entries in force are those of the content that counts as applied.
InForce ==
    ~regime.mayRaise /\ pc \notin {"start", "built", "exited"} =>
        /\ plan = EntriesOf(applied) \/ "buckets" \in restart
        /\ ~running.multi => plan = Defaults.entries

Restart ==
    applied # None =>
        /\ "fixed" \in restart <=> applied.fixed # running.fixed
        /\ "buckets" \in restart <=> applied.multi # running.multi

\* A success is of what was last read.
Success ==
    pc \notin {"start", "built", "exited"} =>
        /\ successful <=> rejected = None
        /\ pc # "apply" /\ successful => DigestOf(content) = applied

Verdict == Starting /\ InForce /\ Restart /\ Success

LEMMA InitVerdict == Init => Verdict
BY DEF Init, Verdict, Starting, InForce, Restart, Success

\* Reading the file.
LEMMA ReadVerdict ==
    ASSUME TypeOK, Verdict, Read
    PROVE  Verdict'
<1>1. /\ pc = "check" /\ pc' \in {"wait", "apply"} /\ content' = file
      /\ UNCHANGED <<regime, file, wake, running, plan, applied, restart>>
    BY DEF Read, CannotRead, BackInForce, Gone, IsNew, Reject, verdict
<1>2. Starting' /\ InForce' /\ Restart'
    BY <1>1 DEF Verdict, Starting, InForce, Restart
<1>3. \A f \in Files : f # None
    BY ReloaderAssumption
<1>4. Success'
    <2>1. CASE CannotRead \/ Gone
        BY <1>1, <1>3, <2>1 DEF CannotRead, Gone, Reject, verdict, Verdict, Success, Files
    <2>2. CASE BackInForce
        BY <1>1, <2>2 DEF BackInForce, Verdict, Success
    <2>3. CASE IsNew
        BY <1>1, <1>3, <2>3 DEF IsNew, verdict, Verdict, Success, Files
    <2> QED BY <2>1, <2>2, <2>3 DEF Read
<1> QED BY <1>2, <1>4 DEF Verdict

\* Applying a content, or rejecting it.
LEMMA ApplyVerdict ==
    ASSUME TypeOK, Verdict, Apply
    PROVE  Verdict'
<1>1. /\ pc = "apply" /\ pc' = "wait" /\ content \in Contents
      /\ UNCHANGED <<regime, file, wake, content, running>>
    BY DEF Apply, TypeOK
<1>2. content # None /\ EntriesOf(content) = content.entries /\ DigestOf(content) = content
    BY <1>1, ReloaderAssumption DEF EntriesOf, DigestOf, Files
<1>3. Starting'
    BY <1>1 DEF Starting
<1>4. CASE Invalid \/ Raises
    BY <1>1, <1>2, <1>3, <1>4 DEF Invalid, Raises, Reject, Verdict, InForce, Restart, Success
<1>5. CASE OtherMode
    <2>1. "fixed" \in Pending(content) <=> content.fixed # running.fixed
        BY DEF Pending
    <2>2. "buckets" \notin Pending(content)
        BY DEF Pending
    <2> QED BY <1>1, <1>2, <1>3, <1>5, <2>1, <2>2
            DEF OtherMode, Accept, Verdict, InForce, Restart, Success
<1>6. CASE SameMode
    <2>1. "fixed" \in Pending(content) <=> content.fixed # running.fixed
        BY DEF Pending
    <2>2. "buckets" \notin Pending(content)
        BY DEF Pending
    <2>3. ~regime.mayRaise =>
              plan' = content.entries /\ (~running.multi => plan' = Defaults.entries)
        BY <1>1, <1>6, ReloaderAssumption DEF SameMode, Verdict, InForce
    <2> QED BY <1>1, <1>2, <1>3, <1>6, <2>1, <2>2, <2>3
            DEF SameMode, Accept, Verdict, InForce, Restart, Success
<1> QED BY <1>4, <1>5, <1>6 DEF Apply

\* The start.
LEMMA StartVerdict ==
    ASSUME TypeOK, Verdict, Load \/ StartedWithFile, Orderly
    PROVE  Verdict'
<1>1. ASSUME Load
      PROVE  Verdict'
    BY <1>1 DEF Load, verdict, Verdict, Starting, InForce, Restart, Success
<1>2. ASSUME StartedWithFile
      PROVE  Verdict'
    <2>1. /\ pc = "built" /\ pc' = "wait" /\ content' = file /\ applied' = DigestOf(file)
          /\ UNCHANGED <<regime, file, wake, running, plan, rejected, successful, restart>>
          /\ file \in StartFiles /\ running = Loaded(file) /\ plan = running.entries
          /\ rejected = None /\ successful /\ restart = {}
        BY <1>2 DEF StartedWithFile, Verdict, Starting
    <2>2. CASE file \in Contents
        <3>1. running = file /\ file # None /\ applied' = file
            BY <2>1, <2>2, ReloaderAssumption DEF Loaded, Orderly, DigestOf, Files
        <3>2. plan = EntriesOf(file) /\ (~running.multi => plan = Defaults.entries)
            BY <2>1, <2>2, <3>1, ReloaderAssumption DEF EntriesOf
        <3> QED BY <2>1, <3>1, <3>2 DEF Verdict, Starting, InForce, Restart, Success
    <2>3. CASE file \notin Contents
        <3>1. running = Defaults /\ applied' = None /\ None \notin Contents
            BY <2>1, <2>3, ReloaderAssumption DEF Loaded, DigestOf, Files
        <3> QED BY <2>1, <3>1 DEF Verdict, Starting, InForce, Restart, Success, EntriesOf
    <2> QED BY <2>2, <2>3
<1> QED BY <1>1, <1>2

LEMMA StepVerdict ==
    ASSUME TypeOK, Verdict, [Next]_vars, Orderly
    PROVE  Verdict'
<1>1. ASSUME Edit
      PROVE  Verdict'
    BY <1>1 DEF Edit, verdict, Verdict, Starting, InForce, Restart, Success, Orderly
<1>2. ASSUME Sighup \/ Wakes \/ Clear
      PROVE  Verdict'
    BY <1>2 DEF Sighup, Wakes, Clear, verdict, Verdict, Starting, InForce, Restart, Success
<1>3. ASSUME UNCHANGED vars
      PROVE  Verdict'
    BY <1>3 DEF vars, verdict, Verdict, Starting, InForce, Restart, Success
<1> QED BY <1>1, <1>2, <1>3, ReadVerdict, ApplyVerdict, StartVerdict DEF Next, Reload

-----------------------------------------------------------------------------
(* The theorems.                                                           *)

\* The invariant the two metrics rest on: what the digests, the entries in force
\* and the settings that wait for a restart say of each other.
THEOREM ReloaderVerdict == ASSUME Orderly PROVE Spec => []Verdict
BY InitVerdict, StepVerdict, ReloaderTypes, PTL DEF Spec

\* config_last_reload_successful is 1 only when the entries last read are in
\* force or wait for a restart, whatever becomes of the file (config.py:79-135).
THEOREM ReloaderSuccess == ASSUME Orderly PROVE Spec => []SuccessIsInForce
<1>1. TypeOK /\ Verdict => SuccessIsInForce
    <2> SUFFICES ASSUME TypeOK, Verdict, ~regime.mayRaise, pc = "wait", successful
                 PROVE  plan = EntriesOf(content) \/ "buckets" \in restart
        BY DEF SuccessIsInForce
    <2>1. DigestOf(content) = applied
        BY DEF Verdict, Success
    <2>2. EntriesOf(applied) = EntriesOf(content)
        BY <2>1, ReloaderAssumption DEF EntriesOf, DigestOf, Files
    <2> QED BY <2>2 DEF Verdict, InForce
<1> QED BY <1>1, ReloaderVerdict, ReloaderTypes, PTL

\* config_restart_required tells of the settings that differ, and only of them.
THEOREM ReloaderRestart == ASSUME Orderly PROVE Spec => []RestartIsTold
<1>1. Verdict => RestartIsTold
    BY DEF Verdict, Restart, RestartIsTold
<1> QED BY <1>1, ReloaderVerdict, PTL

\* A content is rejected before anything of it is applied (__init__.py:246-259).
THEOREM ReloaderRejection == Spec => RejectionKeepsPlan
<1> DEFINE Kept == ~regime.mayRaise /\ rejected' \notin {rejected, None} => plan' = plan
<1>1. ASSUME [Next]_vars
      PROVE  [Kept]_vars
    BY <1>1 DEF Next, Reload, Edit, Sighup, Load, StartedWithFile, Wakes, Clear, Read,
        Apply, Invalid, OtherMode, SameMode, Raises, Accept, verdict, vars
<1> QED BY <1>1, PTL DEF Spec, RejectionKeepsPlan

-----------------------------------------------------------------------------
(* The documents.                                                          *)

\* A content that is applied, or that an exporter starts with, is an honoured document's.
LEMMA HonouredContent ==
    ASSUME NEW c \in Contents, c.parses, c.valid \/ c.starts, c.multi
    PROVE  \E d \in Documents : /\ d.entries = c.entries /\ SettingsOf(d) # Rejected
                               /\ PlanHonoured(SettingsOf(d), Env, Kube)
                               /\ MultiBucket(SettingsOf(d))
<1>1. PICK d \in Documents : c = ContentOf(d)
    BY DocumentsAssumption
<1>2. SettingsOf(d) # Rejected
    BY <1>1 DEF ContentOf, Content
<1>3. /\ c.entries = d.entries /\ MultiBucket(SettingsOf(d))
      /\ PlanHonoured(SettingsOf(d), Env, Kube) \/ Starts(SettingsOf(d), Env, Kube, TRUE)
    BY <1>1, <1>2 DEF ContentOf, Content
<1>4. PlanHonoured(SettingsOf(d), Env, Kube)
    BY <1>3 DEF Starts
<1> QED BY <1>2, <1>3, <1>4

\* Once started, the entries in force are those of an honoured document.
FromDocument ==
    pc \notin {"start", "exited"} /\ running.multi =>
        \E d \in Documents : /\ d.entries = plan /\ SettingsOf(d) # Rejected
                             /\ PlanHonoured(SettingsOf(d), Env, Kube)
                             /\ MultiBucket(SettingsOf(d))

LEMMA StepFromDocument ==
    ASSUME TypeOK, FromDocument, [Next]_vars
    PROVE  FromDocument'
<1>1. CASE Load
    <2> SUFFICES ASSUME pc' # "exited", running'.multi
                 PROVE  \E d \in Documents : /\ d.entries = plan' /\ SettingsOf(d) # Rejected
                                            /\ PlanHonoured(SettingsOf(d), Env, Kube)
                                            /\ MultiBucket(SettingsOf(d))
        BY DEF FromDocument
    <2>1. running' = Loaded(file) /\ plan' = running'.entries /\ running'.starts
        BY <1>1 DEF Load
    <2>2. file \in Contents /\ file.parses /\ running' = file
        BY <2>1, DefaultsAre DEF Loaded
    <2> QED BY <2>1, <2>2, HonouredContent
<1>2. CASE Apply
    <2>1. content \in Contents /\ pc = "apply" /\ running' = running
        BY <1>2 DEF Apply, TypeOK
    <2>2. \/ plan' = plan
          \/ running.multi => /\ plan' = content.entries
                              /\ content.parses /\ content.multi /\ content.valid
        BY <1>2 DEF Apply, Invalid, OtherMode, SameMode, Raises
    <2> QED BY <2>1, <2>2, HonouredContent DEF FromDocument
<1>3. CASE ~Load /\ ~Apply
    BY <1>3 DEF Next, Reload, Edit, Sighup, StartedWithFile, Wakes, Clear, Read, vars,
        FromDocument
<1> QED BY <1>1, <1>2, <1>3

\* The plan of settings whose entries are honoured.
LEMMA PlanWatches ==
    ASSUME NEW settings, MultiBucket(settings), BucketPlanOf(settings, Env, Kube) # Rejected
    PROVE  Watches(BucketPlanOf(settings, Env, Kube), settings.buckets)
<1> DEFINE entries == settings.buckets
           keys == KeysOf(settings.secret_keys, DefaultKeys)
           selecting == {i \in DOMAIN entries : entries[i].selector \notin Unset}
           places == UNION {{i} \X DOMAIN entries[i].namespace.names : i \in selecting}
           specs == [i \in DOMAIN entries \ selecting |-> SpecOf(entries[i], keys, Env, Kube)]
           rules == [at \in places |->
                        RuleOf(entries[at[1]], entries[at[1]].namespace.names[at[2]],
                               keys, Env)]
           inForce == BucketPlanOf(settings, Env, Kube)
<1>1. inForce.specs = specs /\ inForce.rules = rules /\ Distinct(specs, rules)
    BY DEF BucketPlanOf, ParsePlan
<1>2. \A i \in DOMAIN entries \ selecting : AskedFor(entries[i]) = {specs[i].key}
    BY DEF AskedFor, SpecOf, BucketSpec
<1>3. ASSUME NEW i \in selecting
      PROVE  AskedFor(entries[i]) = {rules[at].key : at \in {i} \X DOMAIN entries[i].namespace.names}
    <2> DEFINE names == entries[i].namespace.names
               key(ns) == <<"selector", ns, Stripped(entries[i].selector)>>
    <2>1. ASSUME NEW j \in DOMAIN names
          PROVE  rules[<<i, j>>].key = key(names[j])
        <3>1. <<i, j>> \in places /\ <<i, j>>[1] = i /\ <<i, j>>[2] = j
            OBVIOUS
        <3>2. rules[<<i, j>>] = RuleOf(entries[i], names[j], keys, Env)
            BY <3>1
        <3>3. RuleOf(entries[i], names[j], keys, Env).key = key(names[j])
            BY DEF RuleOf
        <3> HIDE DEF rules, key, names
        <3> QED BY <3>2, <3>3
    <2>2. AskedFor(entries[i]) = {key(names[j]) : j \in DOMAIN names}
        BY DEF AskedFor, ToSet
    <2>3. {i} \X DOMAIN names = {<<i, j>> : j \in DOMAIN names}
        OBVIOUS
    <2> HIDE DEF rules, key
    <2>4. {rules[at].key : at \in {<<i, j>> : j \in DOMAIN names}} = {key(names[j]) : j \in DOMAIN names}
        BY <2>1
    <2> QED BY <2>2, <2>3, <2>4
<1>4. \A i \in DOMAIN specs, at \in DOMAIN rules : specs[i].key # rules[at].key
    BY DEF SpecOf, BucketSpec, RuleOf
<1>5. DOMAIN specs = DOMAIN entries \ selecting /\ DOMAIN rules = places
    OBVIOUS
<1>6. selecting \subseteq DOMAIN entries
    OBVIOUS
<1> HIDE DEF specs, rules, selecting, entries
<1>7. /\ \A i, k \in DOMAIN specs : specs[i].key = specs[k].key => i = k
      /\ \A at, by \in DOMAIN rules : rules[at].key = rules[by].key => at = by
    BY <1>1 DEF Distinct, IsInjective
<1>8. ASSUME NEW i \in DOMAIN entries, NEW k \in DOMAIN entries, i # k
      PROVE  AskedFor(entries[i]) \cap AskedFor(entries[k]) = {}
    <2> SUFFICES ASSUME NEW key \in AskedFor(entries[i]), key \in AskedFor(entries[k])
                 PROVE  FALSE
        OBVIOUS
    <2>1. \A m \in selecting : key \in AskedFor(entries[m]) =>
              \E at \in places : at[1] = m /\ key = rules[at].key
        BY <1>3
    <2> HIDE DEF places
    <2>2. CASE i \in selecting /\ k \in selecting
        BY <1>5, <1>7, <1>8, <2>1, <2>2
    <2>3. CASE i \in selecting /\ k \notin selecting
        BY <1>2, <1>4, <1>5, <2>1, <2>3
    <2>4. CASE i \notin selecting /\ k \in selecting
        BY <1>2, <1>4, <1>5, <2>1, <2>4
    <2>5. CASE i \notin selecting /\ k \notin selecting
        BY <1>2, <1>5, <1>7, <1>8, <2>5
    <2> QED BY <2>2, <2>3, <2>4, <2>5
<1>9. {specs[i].key : i \in DOMAIN specs} \cup {rules[at].key : at \in DOMAIN rules}
      = UNION {AskedFor(entries[i]) : i \in DOMAIN entries}
    <2>1. {specs[i].key : i \in DOMAIN specs}
          = UNION {AskedFor(entries[i]) : i \in DOMAIN entries \ selecting}
        BY <1>2, <1>5, <1>6
    <2>2. {rules[at].key : at \in DOMAIN rules} = UNION {AskedFor(entries[i]) : i \in selecting}
        <3>1. \A at \in places : \E i \in selecting :
                  at \in {i} \X DOMAIN entries[i].namespace.names
            OBVIOUS
        <3>2. \A i \in selecting : {i} \X DOMAIN entries[i].namespace.names \subseteq places
            OBVIOUS
        <3> HIDE DEF places
        <3>3. ASSUME NEW at \in places
              PROVE  rules[at].key \in UNION {AskedFor(entries[i]) : i \in selecting}
            <4>1. PICK i \in selecting : at \in {i} \X DOMAIN entries[i].namespace.names
                BY <3>1
            <4> QED BY <1>3, <4>1
        <3>4. ASSUME NEW i \in selecting, NEW key \in AskedFor(entries[i])
              PROVE  \E at \in places : key = rules[at].key
            BY <1>3, <3>2
        <3> QED BY <1>5, <3>3, <3>4
    <2> QED BY <1>6, <2>1, <2>2
<1> QED BY <1>1, <1>8, <1>9 DEF Watches, entries

\* However the file was edited, rejected and put back, each entry in force has in the
\* plan the buckets or selectors it asks for, and shares none (buckets.py:226-358).
THEOREM ReloaderEntriesWatched == Spec => []EveryEntryIsWatched
<1>1. Init => FromDocument
    BY DEF Init, FromDocument
<1>2. TypeOK /\ FromDocument /\ [Next]_vars => FromDocument'
    BY StepFromDocument
<1>3. FromDocument => EveryEntryIsWatched
    <2> SUFFICES ASSUME FromDocument, pc = "wait", running.multi, NEW d \in Documents,
                        d.entries = plan, SettingsOf(d) # Rejected
                 PROVE  LET inForce == BucketPlanOf(SettingsOf(d), Env, Kube)
                        IN  inForce # Rejected /\ Watches(inForce, SettingsOf(d).buckets)
        BY DEF EveryEntryIsWatched
    <2>1. PICK c \in Documents : /\ c.entries = plan /\ SettingsOf(c) # Rejected
                                /\ PlanHonoured(SettingsOf(c), Env, Kube)
                                /\ MultiBucket(SettingsOf(c))
        BY DEF FromDocument
    <2>2. /\ SettingsOf(c).buckets = SettingsOf(d).buckets
          /\ SettingsOf(c).secret_keys = SettingsOf(d).secret_keys
          /\ SettingsOf(c).annotation_prefix = SettingsOf(d).annotation_prefix
        BY <2>1, DocumentsAssumption DEF ReloadableSettings
    <2>3. MultiBucket(SettingsOf(d))
        BY <2>1, <2>2 DEF MultiBucket
    <2>4. BucketPlanOf(SettingsOf(c), Env, Kube) = BucketPlanOf(SettingsOf(d), Env, Kube)
        BY <2>1, <2>2, <2>3 DEF BucketPlanOf, ParsePlan
    <2>5. BucketPlanOf(SettingsOf(d), Env, Kube) # Rejected
        BY <2>1, <2>4 DEF PlanHonoured
    <2> QED BY <2>3, <2>5, PlanWatches
<1> QED BY <1>1, <1>2, <1>3, ReloaderTypes, PTL DEF Spec

-----------------------------------------------------------------------------
(* What a document is worth.                                               *)

\* clients.py:30 "Two attempts of connect plus read, so four timeouts": a check ends
\* within its interval, unless that is below four seconds, and its timeout is never
\* less than a second nor more than the one configured.
THEOREM CheckFits ==
    ASSUME NEW configured \in Nat \ {0}, NEW interval \in Nat \ {0}
    PROVE  LET timeout == ProbeTimeoutFor(configured, interval)
           IN  /\ timeout \in 1 .. configured
               /\ interval >= 4 => 4 * timeout <= interval
<1>1. interval \div 4 \in Nat /\ 4 * (interval \div 4) <= interval
    OBVIOUS
<1>2. interval >= 4 => interval \div 4 >= 1
    OBVIOUS
<1> QED BY <1>1, <1>2 DEF ProbeTimeoutFor

\* handler.py:73 "naming one header does not silently blank the other three": a header
\* that neither the file nor the environment names is the default one, whichever others
\* they name.
THEOREM HeadersNotNamed ==
    ASSUME NEW written, NEW environ, NEW f \in ProxyFields, Given(environ, f) = Null,
           written \in {Bad, Null} \/ f \notin DOMAIN written
    PROVE  SetProxyHeaders(ProxyHeaders(written, environ))[f] = DefaultProxyHeaders[f]
<1> DEFINE named == {g \in ProxyFields : Given(environ, g) # Null}
           kept == IF written \in {Bad, Null} THEN {} ELSE DOMAIN written
           told == ProxyHeaders(written, environ)
<1>1. CASE named = {}
    BY <1>1 DEF ProxyHeaders, SetProxyHeaders
<1>2. CASE named # {}
    <2>1. told = [g \in named \cup kept |->
                     IF g \in named THEN Given(environ, g) ELSE written[g]]
        BY <1>2 DEF ProxyHeaders
    <2> HIDE DEF told
    <2> QED BY <2>1 DEF SetProxyHeaders, told
<1> QED BY <1>1, <1>2

=============================================================================
