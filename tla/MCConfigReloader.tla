-------------------------- MODULE MCConfigReloader --------------------------
(***************************************************************************)
(* ReloadedDocuments for TLC, over seven documents, and what BucketPlan    *)
(* and Startup make of one, over entries written in many ways.             *)
(***************************************************************************)
EXTENDS ReloadedDocuments

Pod == [namespace |-> "own"]

Region == <<"", "AWS_DEFAULT_REGION">> :> "r0"
SingleEnv ==
    Region @@ <<"", "OPENSHIFT_NAMESPACE">> :> "label" @@ <<"", "AWS_ACCESS_KEY_ID">> :> "key"
           @@ <<"", "AWS_SECRET_ACCESS_KEY">> :> "sec" @@ <<"", "S3_BUCKET_NAME">> :> "b0"
PodEnv == SingleEnv @@ <<"x", "AWS_ACCESS_KEY_ID">> :> "xkey"

Entry(fields) ==
    fields @@ [f \in {"secret", "env_prefix", "selector", "namespace", "name", "secret_keys",
                      "endpoint_url", "region", "interval", "collect", "source"} |-> Unwritten]
           @@ [unknownKey |-> FALSE]

Secret(name) == Entry([secret |-> name])
SecretIn(name, ns) == Entry([secret |-> name, namespace |-> Namespace(<<ns>>, FALSE)])
Selector(word, nss) ==
    Entry([selector |-> Written(word, TRUE), namespace |-> Namespace(nss, TRUE)])

\* A document of these items; what its entries and its other settings are called.
Document(entries, fixed, items) == [entries |-> entries, fixed |-> fixed, items |-> items]

PlanA == Document("a", "multi",
    <<[buckets |-> <<Secret("s"), Selector("app", <<"own", "other">>)>>]>>)
PlanB == Document("b", "multi",
    <<Bad, [buckets |-> <<SecretIn("s", "other"), Entry([env_prefix |-> "x"])>>]>>)
OtherSetting == Document("b", "other", PlanB.items \o <<[max_failures |-> 9]>>)
\* Two selectors that are one, once their blanks are gone.
ListedTwice == Document("twice", "multi",
    <<[buckets |-> <<Secret("s"), Selector("app", <<"own">>),
                     Entry([selector |-> Written("app", FALSE),
                            namespace |-> Namespace(<<"own">>, FALSE)])>>]>>)
\* `buckets:` with nothing under it.
NoBuckets == Document("environment", "single", <<[buckets |-> Null]>>)
ZeroInterval == Document("a", "zero", PlanA.items \o <<[interval |-> 0]>>)
NotYaml == Document("environment", "single", Bad)

EditedDocuments == {PlanA, PlanB, OtherSetting, ListedTwice, NoBuckets, ZeroInterval, NotYaml}

DocumentContents == {ContentOf(d) : d \in Documents}
AllContents == DocumentContents
Regime(periodic, mayRaise) == [periodic |-> periodic, mayRaise |-> mayRaise]
TwoRegimes == {Regime(TRUE, FALSE), Regime(FALSE, TRUE)}

GoodStarts == {ContentOf(PlanA), ContentOf(NoBuckets), ContentOf(ListedTwice), Missing}

-----------------------------------------------------------------------------
(* What a document is worth.                                               *)

\* Two contents have the same other settings when a restart has nothing to apply
\* (restart_keys), and a list with nothing under it, or no item at all, is what an
\* absent file gives.
ASSUME FixedIsRestartKeys ==
    LET parsed == {d \in Documents : d.items # Bad}
    IN  /\ \A c, d \in parsed :
              c.fixed = d.fixed <=> RestartKeys(SettingsOf(c), SettingsOf(d)) = {}
        /\ ContentOf(NoBuckets) = Defaults
        /\ ContentOf([NoBuckets EXCEPT !.items = <<>>]) = Defaults

Plan(items) == BucketPlanOf(ParseConfiguration(items, Env), Env, Kube)
PlanOfEntry(e) == Plan(<<[buckets |-> <<e>>]>>)

\* Entries that name one bucket, each written in several ways.
NamedEntries ==
    {[named EXCEPT !.name = name, !.secret_keys = keys, !.interval = interval] :
        named \in {Secret("s"), SecretIn("s", "own"), Entry([env_prefix |-> "x"])},
        name \in {Unwritten, Null, "bkt"},
        keys \in {Null, [bucket |-> "NAME"], [bucket |-> "S3_BUCKET_NAME"]},
        interval \in {Unwritten, 7}}

\* Values a Secret, or the environment, may hold: each field there or not.
Values ==
    {[v \in {<<p, f>> : p \in {"", "x"}, f \in fields} |-> v[1] \o v[2]] :
        fields \in SUBSET {"AWS_ACCESS_KEY_ID", "AWS_SECRET_ACCESS_KEY", "S3_BUCKET_NAME", "NAME"}}

\* buckets.py:75 "two specs with the same one watch the same bucket the same way":
\* two ways to write an entry with one fingerprint read the same credentials and have
\* the same settings, so a reload may leave the monitor alone.
ASSUME SameFingerprintSameBucket ==
    LET specs == {PlanOfEntry(e).specs[1] : e \in NamedEntries}
    IN  \A a, b \in specs :
            Fingerprint(a) = Fingerprint(b) =>
                /\ a.settings = b.settings
                /\ \A values \in Values :
                      Resolve(a.credentials, values) = Resolve(b.credentials, values)

\* An entry the plan refuses: each of these is the whole of a plan's list.
ASSUME RefusedEntries ==
    \A e \in {Entry([env_prefix |-> Null]), Entry([secret |-> "s", env_prefix |-> "x"]),
              Secret("not a name"), SecretIn("s", "not a name"),
              Selector("app", <<"own", "own">>), Selector(Null, <<"own">>),
              [Secret("s") EXCEPT !.collect = Null], [Secret("s") EXCEPT !.interval = 0],
              [Secret("s") EXCEPT !.source = Written("tape", TRUE)],
              [Secret("s") EXCEPT !.region = ""], [Secret("s") EXCEPT !.unknownKey = TRUE],
              [Secret("s") EXCEPT !.secret_keys = [bucket |-> ""]]} :
        PlanOfEntry(e) = Rejected

Rule == PlanOfEntry(Selector("app", <<"own">>)).rules[<<1, 1>>]
Annotation(a, word) == a :> Written(word, TRUE)

\* A Secret found by a selector has the key of the entry that would name it, and without
\* annotations its settings (Discoverer.desired drops the found one for the named one);
\* an annotation that cannot be honoured leaves the bucket there, with nothing to read.
ASSUME DiscoveredLikeNamed ==
    LET named == PlanOfEntry(Secret("s")).specs[1]
        Found(own) == DiscoveredSpec(Rule, <<>>, "s", own)
        wrong == {Annotation("interval", NaN), Annotation("interval", Bad),
                  Annotation("collect", "maybe"), Annotation("source", "tape"),
                  Annotation("region", Null), Annotation("intervall", 3)}
    IN  /\ Found(<<>>).key = named.key /\ Found(<<>>).settings = named.settings
        /\ \A values \in Values :
              /\ Resolve(Found(<<>>).credentials, values) = Resolve(named.credentials, values)
              /\ \A own \in wrong : Resolve(Found(own).credentials, values) = Null
        /\ \A own \in wrong : /\ Found(own).key = named.key
                              /\ Fingerprint(Found(own)) # Fingerprint(Found(<<>>))
        /\ Found(Annotation("interval", 3)).settings.interval = 3
        /\ ~Found(Annotation("collect", "false")).settings.collect

\* A reload honours, and --check-config passes, settings no exporter starts with
\* (src/README.md:386 has --check-config find what is wrong before a start).
ASSUME ReloadIsNotStart ==
    LET zero == ContentOf(ZeroInterval)
        specs == Plan(ZeroInterval.items).specs
        whole == [v \in {<<"", f>> : f \in {DefaultKeys[k] : k \in KeyFields}} |-> "value"]
    IN  /\ zero.valid /\ ~zero.starts
        /\ CheckConfig(specs, <<TRUE>>, [k \in {specs[1].key} |-> whole]) = 0
        /\ CheckConfig(specs, <<TRUE>>, [k \in {specs[1].key} |-> Null]) = 1
        /\ CheckConfig(specs, <<FALSE>>, [k \in {specs[1].key} |-> whole]) = 1

\* handler.py:73 "naming one header does not silently blank the other three": whichever
\* of the file and the environment names it.
ASSUME OneHeaderNamed ==
    \A f \in ProxyFields :
        \A headers \in {ProxyHeaders(f :> "Own", Env), ProxyHeaders(Bad, Env @@ <<"", f>> :> "Own"),
                        ProxyHeaders(f :> "Other", <<"", f>> :> "Own" @@ Env)} :
            \A g \in ProxyFields \ {f} :
                /\ SetProxyHeaders(headers)[g] = DefaultProxyHeaders[g]
                /\ SetProxyHeaders(headers)[f] \in {"Own", DefaultProxyHeaders[f]}

\* clients.py:30 "Two attempts of connect plus read, so four timeouts": they fit in the
\* interval, unless that is below four seconds.
ASSUME CheckFitsInItsInterval ==
    \A configured \in 1..30, interval \in 4..60 :
        4 * ProbeTimeoutFor(configured, interval) <= interval

=============================================================================
