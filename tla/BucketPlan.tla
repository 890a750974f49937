----------------------------- MODULE BucketPlan -----------------------------
(***************************************************************************)
(* buckets.py and credentials.py: the buckets a configuration names, the   *)
(* selectors whose Secrets are found later, and what reading a bucket's    *)
(* credentials gives; with discovery.py, the bucket a Secret found that    *)
(* way stands for.  A text is a name; an entry has every key, Unwritten    *)
(* where the file has none; a variable of the environment is a prefix and  *)
(* the rest of its name.                                                   *)
(***************************************************************************)
EXTENDS Integers, Sequences, FiniteSets, SequencesExt

CONSTANTS
    Unwritten,         \* a key that is not there
    Null,              \* one with no value; Python's None
    Bad,               \* a value of another type than it should be
    NaN,               \* the number that is none
    Rejected,          \* ConfigError
    ValidNamespaces,   \* the names Kubernetes accepts
    ValidSecretNames,
    KnownSources       \* the usage sources, and "auto"

Unset == {Unwritten, Null}

KeyFields == {"access_key", "secret_key", "bucket"}
DefaultKeys ==
    [f \in KeyFields |-> CASE f = "access_key" -> "AWS_ACCESS_KEY_ID"
                           [] f = "secret_key" -> "AWS_SECRET_ACCESS_KEY"
                           [] f = "bucket"     -> "S3_BUCKET_NAME"]

\* A text as it is written, blanks and capitals included or not (plain): its word is
\* what strip().lower() leaves, Null when that is nothing.
Written(word, plain) == [word |-> word, plain |-> plain]
Stripped(text) == text.word
AsWritten(text) == IF text.plain THEN text.word ELSE text

\* One namespace, or a list of them.
Namespace(names, list) == [names |-> names, list |-> list]

Environ(environ, prefix, name) ==
    IF <<prefix, name>> \in DOMAIN environ THEN environ[<<prefix, name>>] ELSE ""

OrNull(value) == IF value \in Unset THEN Null ELSE value
OrElse(value, default) == IF value \in Unset \cup {""} THEN default ELSE value

-----------------------------------------------------------------------------
(* The values of an entry.                                                 *)

MultiBucket(settings) == settings.buckets \notin Unset

KeysHonoured(value) ==
    value \in Unset \/ /\ value # Bad /\ DOMAIN value \subseteq KeyFields
                       /\ \A f \in DOMAIN value : value[f] \notin {Bad, ""}

KeysOf(value, base) ==
    [f \in KeyFields |-> IF value \in Unset THEN base[f]
                         ELSE IF f \in DOMAIN value THEN value[f] ELSE base[f]]

TextHonoured(value) == value \notin {Bad, ""}

\* No comparison with a NaN is true.
IntervalHonoured(value) == value \in Unset \cup {NaN} \/ (value # Bad /\ value > 0)

CollectHonoured(value) == value \in BOOLEAN \cup {Unwritten}
CollectOf(value) == IF value = Unwritten THEN TRUE ELSE value

SourceHonoured(value) ==
    value \in Unset \/ (value # Bad /\ Stripped(value) \in KnownSources)
SourceOf(value) == IF value \in Unset THEN Null ELSE Stripped(value)

NamespacesHonoured(value) ==
    /\ value \notin Unset \cup {Bad} /\ value.names # <<>>
    /\ ToSet(value.names) \subseteq ValidNamespaces
    /\ IsInjective(value.names)

-----------------------------------------------------------------------------
(* An entry.                                                               *)

EndpointOf(e, environ) == OrElse(e.endpoint_url, Environ(environ, "", "AWS_ENDPOINT_URL"))
RegionOf(e, environ) == OrElse(e.region, Environ(environ, "", "AWS_DEFAULT_REGION"))

\* The one namespace of a named entry; its default depends on what it names.
NamespaceOf(e, environ, kube) ==
    IF e.namespace \notin Unset THEN e.namespace.names[1]
    ELSE IF e.secret \notin Unset THEN kube.namespace
    ELSE Environ(environ, "", "OPENSHIFT_NAMESPACE")

SelectorHonoured(e, kube) ==
    /\ kube # Null
    /\ e.selector # Bad /\ Stripped(e.selector) # Null
    /\ e.name = Unwritten
    /\ NamespacesHonoured(e.namespace)

OneNamespace(e) ==
    e.namespace \in Unset \/ (e.namespace # Bad /\ ~e.namespace.list
                              /\ TextHonoured(e.namespace.names[1]))

SecretHonoured(e, environ, kube) ==
    /\ kube # Null
    /\ TextHonoured(e.name) /\ OneNamespace(e)
    /\ e.secret \in ValidSecretNames
    /\ NamespaceOf(e, environ, kube) \in ValidNamespaces

PrefixHonoured(e, environ, kube) ==
    /\ TextHonoured(e.name) /\ OneNamespace(e)
    /\ TextHonoured(e.env_prefix)
    /\ NamespaceOf(e, environ, kube) # ""

EntryHonoured(e, environ, kube) ==
    /\ e # Bad /\ ~e.unknownKey
    /\ Cardinality({f \in {"secret", "env_prefix", "selector"} : e[f] \notin Unset}) = 1
    /\ KeysHonoured(e.secret_keys)
    /\ TextHonoured(e.endpoint_url) /\ TextHonoured(e.region)
    /\ RegionOf(e, environ) # ""
    /\ IntervalHonoured(e.interval) /\ CollectHonoured(e.collect) /\ SourceHonoured(e.source)
    /\ \/ e.selector \notin Unset /\ SelectorHonoured(e, kube)
       \/ e.secret \notin Unset /\ SecretHonoured(e, environ, kube)
       \/ e.env_prefix \notin Unset /\ PrefixHonoured(e, environ, kube)

\* What a spec and a rule have in common.
Settings(e, environ) ==
    [endpoint |-> EndpointOf(e, environ), region |-> RegionOf(e, environ),
     interval |-> OrNull(e.interval), source |-> SourceOf(e.source),
     collect |-> CollectOf(e.collect)]

\* A CredentialSource: where it reads, the keys, the bucket's name when given, and
\* the listing it reads from or the reason it cannot be used.
Credentials(kind, where, keys, bucket, origin) ==
    [kind |-> kind, where |-> where, keys |-> keys, bucket |-> bucket, origin |-> origin]

BucketSpec(key, credentials, namespace, settings) ==
    [key |-> key, credentials |-> credentials, namespace |-> namespace,
     settings |-> settings]

\* The SelectorRule of one namespace of the entry.
RuleOf(e, namespace, keys, environ) ==
    [key |-> <<"selector", namespace, Stripped(e.selector)>>,
     namespace |-> namespace, selector |-> Stripped(e.selector),
     keys |-> KeysOf(e.secret_keys, keys), settings |-> Settings(e, environ)]

SpecOf(e, keys, environ, kube) ==
    LET namespace == NamespaceOf(e, environ, kube)
        key == IF e.secret \notin Unset THEN <<"secret", namespace, e.secret>>
               ELSE <<"env", e.env_prefix>>
    IN  BucketSpec(key, Credentials(key[1], Tail(key), KeysOf(e.secret_keys, keys),
                                    OrNull(e.name), Null),
                   namespace, Settings(e, environ))

-----------------------------------------------------------------------------
(* The plan.                                                               *)

PrefixSettingHonoured(prefix) == prefix \notin {Null, Bad, ""}

\* Mutant: a selector listed twice goes unnoticed.
DistinctSpecs(specs, rules) == IsInjective([i \in DOMAIN specs |-> specs[i].key])

\* No bucket and no selector is listed twice.
Distinct(specs, rules) ==
    /\ IsInjective([i \in DOMAIN specs |-> specs[i].key])
    /\ IsInjective([i \in DOMAIN rules |-> rules[i].key])

\* Specs and rules are at their place in the file: the entry's, and that of the
\* namespace in the entry.
ParsePlan(settings, environ, kube) ==
    LET keys == KeysOf(settings.secret_keys, DefaultKeys)
        entries == settings.buckets
        selecting == {i \in DOMAIN entries : entries[i].selector \notin Unset}
        specs == [i \in DOMAIN entries \ selecting |->
                     SpecOf(entries[i], keys, environ, kube)]
        rules == [at \in UNION {{i} \X DOMAIN entries[i].namespace.names : i \in selecting} |->
                     RuleOf(entries[at[1]], entries[at[1]].namespace.names[at[2]],
                            keys, environ)]
    IN  IF /\ KeysHonoured(settings.secret_keys)
           /\ PrefixSettingHonoured(settings.annotation_prefix)
           /\ entries \notin {Bad, <<>>}
           /\ \A i \in DOMAIN entries : EntryHonoured(entries[i], environ, kube)
           /\ Distinct(specs, rules)
        THEN [specs |-> specs, rules |-> rules, prefix |-> settings.annotation_prefix]
        ELSE Rejected

SingleBucketSpec(environ) ==
    BucketSpec(<<"env", "">>, Credentials("env", <<"">>, DefaultKeys, Null, Null),
          Environ(environ, "", "OPENSHIFT_NAMESPACE"),
          [endpoint |-> Environ(environ, "", "AWS_ENDPOINT_URL"),
           region |-> Environ(environ, "", "AWS_DEFAULT_REGION"),
           interval |-> Null, source |-> Null, collect |-> TRUE])

BucketPlanOf(settings, environ, kube) ==
    IF MultiBucket(settings) THEN ParsePlan(settings, environ, kube)
    ELSE [specs |-> <<SingleBucketSpec(environ)>>, rules |-> <<>>, prefix |-> Null]

-----------------------------------------------------------------------------
(* Credentials.                                                            *)

\* identity: the reason too, but not the listing.
Identity(c) ==
    <<c.kind, c.where, c.keys, c.bucket, IF c.kind = "unusable" THEN c.origin ELSE Null>>

Fingerprint(spec) == <<spec.key, Identity(spec.credentials), spec.namespace, spec.settings>>

\* resolve, from the environment or from a Secret's values, Null when unreadable.
Resolve(c, values) ==
    LET prefix == IF c.kind = "env" THEN c.where[1] ELSE ""
        wanted == IF c.bucket = Null THEN KeyFields ELSE {"access_key", "secret_key"}
        found == [f \in wanted |-> Environ(values, prefix, c.keys[f])]
    IN  IF c.kind = "unusable" THEN Null
        ELSE IF values = Null THEN Null
        ELSE IF \E f \in wanted : found[f] = "" THEN Null
        ELSE [access |-> found.access_key, secret |-> found.secret_key,
              bucket |-> IF c.bucket = Null THEN found.bucket ELSE c.bucket]

-----------------------------------------------------------------------------
(* The bucket a Secret found by a rule stands for.                         *)

Annotations ==
    {"interval", "collect", "endpoint-url", "region", "source", "bucket-name",
     "access-key-field", "secret-key-field", "bucket-field"}

KeyAnnotation ==
    [f \in KeyFields |-> CASE f = "access_key" -> "access-key-field"
                           [] f = "secret_key" -> "secret-key-field"
                           [] f = "bucket"     -> "bucket-field"]

\* What the annotation says, or the rule.
Own(own, annotation, default) ==
    IF annotation \in DOMAIN own THEN AsWritten(own[annotation]) ELSE default

AnnotationsHonoured(own, rule) ==
    /\ DOMAIN own \subseteq Annotations
    /\ \A a \in DOMAIN own : Stripped(own[a]) # Null
    /\ "interval" \in DOMAIN own => /\ Stripped(own["interval"]) \notin {Bad, NaN}
                                    /\ Stripped(own["interval"]) > 0
    /\ "collect" \in DOMAIN own => Stripped(own["collect"]) \in {"true", "false"}
    /\ "source" \in DOMAIN own => Stripped(own["source"]) \in KnownSources
    /\ Own(own, "region", rule.settings.region) # ""

SettingsFrom(own, rule) ==
    [endpoint |-> Own(own, "endpoint-url", rule.settings.endpoint),
     region |-> Own(own, "region", rule.settings.region),
     interval |-> IF "interval" \in DOMAIN own THEN Stripped(own["interval"])
                  ELSE rule.settings.interval,
     source |-> IF "source" \in DOMAIN own THEN Stripped(own["source"])
                ELSE rule.settings.source,
     collect |-> IF "collect" \in DOMAIN own THEN Stripped(own["collect"]) = "true"
                 ELSE rule.settings.collect]

DiscoveredSpec(rule, listing, name, own) ==
    LET key == <<"secret", rule.namespace, name>>
        where == <<rule.namespace, name>>
        keys == [f \in KeyFields |-> Own(own, KeyAnnotation[f], rule.keys[f])]
    IN  IF AnnotationsHonoured(own, rule)
        THEN BucketSpec(key, Credentials("listed", where, keys,
                                         Own(own, "bucket-name", Null), listing),
                        rule.namespace, SettingsFrom(own, rule))
        ELSE BucketSpec(key, Credentials("unusable", where, <<>>, Null, own),
                        rule.namespace, rule.settings)

=============================================================================
