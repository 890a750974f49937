----------------------------- MODULE MCScrapes -----------------------------
(***************************************************************************)
(* What a request reads, for TLC.  The endpoints, the listed Secrets, what *)
(* a scrape tells of a bucket and the readiness share no variable, and the *)
(* collections and the probe of a bucket only its view: a behaviour of the *)
(* model explores one of them, with the others at rest.                    *)
(***************************************************************************)
EXTENDS EndpointCheck, SecretListing, BucketMetrics, Readiness

VARIABLE subject

Subjects == {"endpoint", "listing", "figures", "probes", "readyz"}

ScrapesTypeOK ==
    EndpointTypeOK /\ ListingTypeOK /\ MetricsTypeOK /\ ReadyTypeOK /\ subject \in Subjects

\* At rest, a part is in one of its initial states.
ScrapesInit ==
    /\ subject \in Subjects
    /\ EndpointInit /\ (subject = "endpoint" \/ scheme = "https")
    /\ ListingInit /\ (subject = "listing" \/ secretsNow = [n \in Names |-> Absent])
    /\ MetricsInit
    /\ ReadyInit /\ (subject = "readyz" \/ fleet = {})
    /\ subject # "readyz" => configured = [k \in Keys |-> FALSE]

endpointOnly == <<subject, listingVars, metricsVars, readyVars>>
listingOnly == <<subject, endpointVars, metricsVars, readyVars>>
metricsOnly == <<subject, endpointVars, listingVars, readyVars>>
readyOnly == <<subject, endpointVars, listingVars, metricsVars>>

ScrapesNext ==
    \/ subject = "endpoint" /\ EndpointNext /\ UNCHANGED endpointOnly
    \/ subject = "listing" /\ ListingNext /\ UNCHANGED listingOnly
    \/ subject = "figures" /\ (Repoint \/ Collect \/ Scrape) /\ UNCHANGED metricsOnly
    \/ subject = "probes" /\ (Repoint \/ Probes \/ Scrape) /\ UNCHANGED metricsOnly
    \/ subject = "readyz" /\ ReadyNext /\ UNCHANGED readyOnly

ScrapesSpec ==
    ScrapesInit /\ [][ScrapesNext]_<<subject, endpointVars, listingVars, metricsVars, readyVars>>

TwoNames == <<"p", "q">>

-----------------------------------------------------------------------------
(* What storage systems answer, and what they say of the bucket "b".       *)

Case(source, answer, truth) ==
    [source |-> source, answer |-> answer, bucket |-> "b", today |-> 9, truth |-> truth]

Sample(metric, bucket, value) == [metric |-> metric, bucket |-> bucket, value |-> value]
Totals(name, size, count) == [name |-> name, size |-> size, count |-> count]
Point(day, value) == [at |-> day, value |-> value]
Payload(size, count, time, list) ==
    [size |-> size, count |-> count, calculationTime |-> time, buckets |-> list]
Document(succeeds, outcome) == [success |-> succeeds, result |-> outcome]
Result(size, count, iaSize, iaCount, end) ==
    [size |-> size, count |-> count, iaSize |-> iaSize, iaCount |-> iaCount, end |-> end]
\* A scrape of the bucket's own samples, with an age.
Aged(size, count, age) ==
    Reply("ok", <<Sample("size", "b", size), Sample("count", "b", count),
                  Sample("age", "b", age)>>)

SomeCases == {
    \* The tenant's list, another bucket first, with a time nothing can parse.
    Case("storagegrid",
         Reply("ok", Payload(90, 9, Text, <<Totals("c", 50, 5), Totals("b", 30, 3)>>)),
         Usage(30, 3, Missing)),
    \* The bucket's own totals, one of them not a number.
    Case("storagegrid", Reply("ok", Payload(Text, 3, 7, Missing)), Unavailable),
    \* Samples of two buckets, one line no sample, and an age of 2 for them all.
    Case("minio",
         Reply("ok", <<Sample("size", "c", 50), Sample("size", "b", Text),
                       Sample("count", "b", 4), Sample("size", "b", 40),
                       Sample("age", Missing, 2)>>),
         Usage(40, 4, 7)),
    \* An age in nanoseconds under a name that says seconds, a negative one, and none
    \* that a date can be taken from.
    Case("minio", Aged(40, 4, 2000000000), Usage(40, 4, 7)),
    Case("minio", Aged(40, 4, -1), Usage(40, 4, Missing)),
    Case("minio", Aged(40, 4, NotFinite), Unavailable),
    \* Two days of sizes, one of counts: the older day dates them.
    Case("cloudwatch",
         Reply("ok", [sizes |-> {Point(5, 20), Point(6, 21)}, counts |-> {Point(5, 2)}]),
         Usage(21, 2, 5)),
    \* Objects of both classes, and a counter that is not there.
    Case("r2", Reply("ok", Document(TRUE, Result(10, 1, 5, Missing, 8))), Usage(15, 1, 8)),
    \* The end of a window that nothing can parse; a success without figures.
    Case("r2", Reply("ok", Document(TRUE, Result(10, 1, 0, 0, Text))), Usage(10, 1, Missing)),
    Case("r2", Reply("ok", Document(TRUE, Missing)), Unavailable),
    \* Three objects on two pages; a page that fails.
    Case("list", <<<<1, 2>>, <<4>>>>, Usage(7, 3, Missing)),
    Case("list", <<<<1, 2>>, Missing>>, Unavailable)}

-----------------------------------------------------------------------------
(* What a request raises.                                                  *)

Plain(kind) == Raised(kind, NoError, NoError, NoError, FALSE, NoError, "")

\* botocore wraps urllib3's error, whose context is the resolver's.
UnknownName ==
    [graph |-> <<Raised("EndpointConnectionError", 2, NoError, NoError, FALSE, NoError, ""),
                 Raised("NewConnectionError", NoError, NoError, 3, FALSE, NoError, ""),
                 Plain("gaierror")>>,
     raised |-> 1, truth |-> "dns"]
Refused ==
    [graph |-> <<Raised("EndpointConnectionError", 2, NoError, NoError, FALSE, NoError, ""),
                 Plain("NewConnectionError")>>,
     raised |-> 1, truth |-> "connect"]
\* A reply to HEAD: no body, the status as its code.
Denied ==
    [graph |-> <<Raised("ClientError", NoError, NoError, NoError, FALSE, NoError, "403")>>,
     raised |-> 1, truth |-> "http_4xx"]

SomeFailures == {UnknownName, Refused, Denied}

\* Others, for the classification alone.
Client(http, code) == Raised("ClientError", NoError, NoError, NoError, FALSE, http, code)
Caused(kind, cause) == Raised(kind, NoError, cause, NoError, FALSE, NoError, "")
OtherFailures ==
    {[graph |-> <<Plain("ConnectTimeoutError")>>, raised |-> 1, truth |-> "connect_timeout"],
     [graph |-> <<Plain("ReadTimeoutError")>>, raised |-> 1, truth |-> "read_timeout"],
     [graph |-> <<Plain("ConnectionClosedError")>>, raised |-> 1, truth |-> "connect"],
     [graph |-> <<Client(503, "SlowDown")>>, raised |-> 1, truth |-> "http_5xx"],
     [graph |-> <<Client(404, "NoSuchBucket")>>, raised |-> 1, truth |-> "http_4xx"],
     [graph |-> <<Client(NoError, "501")>>, raised |-> 1, truth |-> "http_5xx"],
     [graph |-> <<Client(NoError, "NoSuchBucket")>>, raised |-> 1, truth |-> "other"],
     \* `from None` hides what was being handled.
     [graph |-> <<Raised("EndpointConnectionError", NoError, NoError, 2, TRUE, NoError, ""),
                  Plain("gaierror")>>, raised |-> 1, truth |-> "connect"],
     \* Two errors that wrap each other.
     [graph |-> <<Caused("EndpointConnectionError", 2), Caused("OSError", 1)>>,
      raised |-> 1, truth |-> "connect"]}

\* A chain of n errors, the last one the resolver's.
DeepName(n) ==
    [i \in 1 .. n |-> IF i < n THEN Caused("EndpointConnectionError", i + 1)
                      ELSE Plain("gaierror")]

\* errors.py:34 "Deep enough [...] bounded so a chain that loops back on itself cannot
\* hang the probe": every failure is classified as it was, the cause named is the last
\* one, a name that did not resolve is found down to the bound and not beyond it, and
\* (errors.py:117) a bare 403 rejects no credential, while a rejected key a source
\* wrapped does.
ASSUME FailuresAreClassified ==
    /\ \A f \in SomeFailures \cup OtherFailures :
          Classify(f.graph, f.raised) = f.truth /\ f.truth \in ErrorReasons
    /\ Root(UnknownName.graph, 1) = 3
    /\ \A n \in 1 .. MaxChain + 2 :
          Classify(DeepName(n), 1) = IF n > MaxChain THEN "connect" ELSE "dns"
    /\ ~IsCredentialsError(Denied.graph, 1)
    /\ IsCredentialsError(<<Caused("SourceUnavailable", 2), Client(403, "InvalidAccessKeyId")>>, 1)

=============================================================================
