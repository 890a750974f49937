------------------------------ MODULE Startup ------------------------------
(***************************************************************************)
(* __init__.py: the settings a collector.yml gives, what a reload asks of  *)
(* them, and what stops the start of an exporter.  A document is the list  *)
(* under `configuration`: an item is a mapping, or Bad and passed over.    *)
(***************************************************************************)
EXTENDS BucketPlan, TLC

CONSTANT Text  \* a text that is no number

DefaultProxyHeaders ==
    [via |-> "Via", vxid |-> "X-Transaction-Id", xff |-> "X-Forwarded-For",
     proto |-> "X-Forwarded-Proto"]
ProxyFields == DOMAIN DefaultProxyHeaders

DefaultSettings ==
    [interval |-> 5, source |-> "auto", sources |-> <<>>, max_failures |-> 3,
     connectivity_interval |-> 30, retry_interval |-> 300, redetect_interval |-> 3600,
     probe_timeout |-> 5, proxy_headers |-> DefaultProxyHeaders,
     max_concurrent_collections |-> 2, credentials_refresh |-> 300,
     config_reload_interval |-> 60, discovery_interval |-> 60,
     buckets |-> Unwritten, secret_keys |-> Unwritten, annotation_prefix |-> "s3-exporter"]

MultiBucketInterval == 60  \* DEFAULT_MULTI_BUCKET_INTERVAL_MINUTES

ReloadableSettings == {"buckets", "secret_keys", "annotation_prefix", "discovery_interval"}

\* A COLLECTOR_* variable.
Given(environ, name) == IF <<"", name>> \in DOMAIN environ THEN environ[<<"", name>>] ELSE Null

\* The environment names one header at a time, over the file's or over none.
ProxyHeaders(written, environ) ==
    LET named == {f \in ProxyFields : Given(environ, f) # Null}
        kept == IF written \in {Bad, Null} THEN {} ELSE DOMAIN written
    IN  IF named = {} THEN written
        ELSE [f \in named \cup kept |-> IF f \in named THEN Given(environ, f) ELSE written[f]]

\* set_proxy_headers: a field that is not named keeps its header.
SetProxyHeaders(headers) ==
    [f \in ProxyFields |->
        IF headers \in {Bad, Null} THEN DefaultProxyHeaders[f]
        ELSE IF f \notin DOMAIN headers THEN DefaultProxyHeaders[f]
        ELSE OrElse(headers[f], DefaultProxyHeaders[f])]

\* Items merged in order, the later ones over the earlier, then the environment.
ParseConfiguration(document, environ) ==
    LET items == SelectSeq(document, LAMBDA item : item # Bad)
        merged == FoldLeft(LAMBDA settings, item : item @@ settings, DefaultSettings, items)
        written == UNION {DOMAIN items[i] : i \in DOMAIN items}
        source == Given(environ, "COLLECTOR_SOURCE")
        period == Given(environ, "COLLECTOR_CONNECTIVITY_INTERVAL")
    IN  IF document = Bad THEN Rejected
        ELSE [merged EXCEPT
                !.interval = IF "interval" \notin written /\ MultiBucket(merged)
                             THEN MultiBucketInterval ELSE @,
                !.source = IF source = Null THEN @ ELSE source,
                !.connectivity_interval = IF period \in {Null, Text} THEN @ ELSE period,
                !.proxy_headers = ProxyHeaders(@, environ),
                !.sources = IF @ \in {Null, Bad} THEN <<>> ELSE @]

\* restart_keys: what differs, and only a restart applies; a key that is missing has
\* no value.
RestartKeys(running, read) ==
    LET Get(settings, k) == IF k \in DOMAIN settings THEN settings[k] ELSE Null
    IN  {k \in (DOMAIN running \cup DOMAIN read) \ ReloadableSettings :
            Get(running, k) # Get(read, k)}

-----------------------------------------------------------------------------
(* Settings that are numbers.                                              *)

NoNumber == {Null, Bad, Text}

\* No comparison with a NaN is true.
DiscoveryIntervalHonoured(value) ==
    value = NaN \/ (value \notin NoNumber /\ value >= 0)

PositiveNumber(value) == value \notin NoNumber \cup {NaN} /\ value > 0

\* int(), which raises.
WholeNumber(value) == value \notin NoNumber \cup {NaN}

\* A check is two attempts of two timeouts: it ends within its interval.
ProbeTimeoutFor(configured, interval) ==
    LET quarter == interval \div 4
        least == IF configured < quarter THEN configured ELSE quarter
    IN  IF interval = 0 THEN configured ELSE IF least < 1 THEN 1 ELSE least

-----------------------------------------------------------------------------
(* What a reload asks, what --check-config asks, and what the start asks.  *)

PlanHonoured(settings, environ, kube) ==
    /\ BucketPlanOf(settings, environ, kube) # Rejected
    /\ MultiBucket(settings) => DiscoveryIntervalHonoured(settings.discovery_interval)

\* check_config: every selector could be listed, every bucket resolved.
CheckConfig(specs, listed, valuesOf) ==
    IF (\A l \in DOMAIN listed : listed[l])
       /\ \A i \in DOMAIN specs : Resolve(specs[i].credentials, valuesOf[specs[i].key]) # Null
    THEN 0 ELSE 1

RequiredEnv ==
    {"OPENSHIFT_NAMESPACE", "AWS_ACCESS_KEY_ID", "AWS_SECRET_ACCESS_KEY",
     "AWS_DEFAULT_REGION", "S3_BUCKET_NAME"}

\* main, up to the first pass over the buckets; a single bucket must be watched.
Starts(settings, environ, kube, watched) ==
    /\ PlanHonoured(settings, environ, kube)
    /\ ~MultiBucket(settings) =>
          watched /\ \A name \in RequiredEnv : Environ(environ, "", name) # ""
    /\ \A k \in {"interval", "retry_interval", "max_concurrent_collections",
                 "credentials_refresh"} : PositiveNumber(settings[k])
    /\ \A k \in {"connectivity_interval", "probe_timeout", "max_failures",
                 "redetect_interval", "config_reload_interval"} : WholeNumber(settings[k])

=============================================================================
