---------------------------- MODULE UsageSources ----------------------------
(***************************************************************************)
(* sources/: how many bytes and objects each usage source reads in what a  *)
(* storage system answers.  Figures are small numbers; times are days, or  *)
(* seconds for MinIO.                                                      *)
(***************************************************************************)
EXTENDS Integers, Sequences, SequencesExt

CONSTANTS
    Missing,    \* a field, a label or a list that is not there
    Text,       \* a figure that is not a number, a time that is not one
    NotFinite   \* a number that is not finite: float("NaN"), float("+Inf")

Usage(size, count, asOf) == [size |-> size, count |-> count, asOf |-> asOf]

\* SourceUnavailable, or any other exception of fetch.
Unavailable == Usage(Missing, Missing, Missing)

\* Mutant: a figure that is not a number is kept.
AnyFields(size, count, asOf) ==
    IF Missing \in {size, count} THEN Unavailable ELSE Usage(size, count, asOf)

\* int(x) of two fields: anything else than two numbers is no usage.
OfFields(size, count, asOf) ==
    IF {size, count} \cap {Missing, Text} # {} THEN Unavailable
    ELSE Usage(size, count, asOf)

\* A reply: what became of the request, and what its body says.
Reply(result, body) == [result |-> result, body |-> body]
Failed == {"no_answer", "http_error", "not_json"}

-----------------------------------------------------------------------------
(* StorageGRID: the bucket's own totals, or the tenant's list of buckets.   *)

\* _parse_calculation_time: the figures stay usable without it.
CalculationTime(raw) == IF raw = Text THEN Missing ELSE raw

\* Mutant: the first bucket of the tenant's list.
FirstOfTenant(payload, bucket) ==
    LET entry == IF payload.buckets = Missing THEN payload ELSE payload.buckets[1]
    IN  IF payload.calculationTime = Missing THEN Unavailable
        ELSE OfFields(entry.size, entry.count, CalculationTime(payload.calculationTime))

\* parse_usage: the marker of the extension, then the bucket's entry.
StorageGridUsage(payload, bucket) ==
    LET named == SelectSeq(payload.buckets, LAMBDA b : b.name = bucket)
        entry == IF payload.buckets = Missing THEN payload ELSE named[1]
    IN  IF \/ payload.calculationTime = Missing
           \/ payload.buckets # Missing /\ named = <<>>
        THEN Unavailable
        ELSE OfFields(entry.size, entry.count, CalculationTime(payload.calculationTime))

\* fetch: a 200 that is not JSON is a plain listing, not a usage.
StorageGrid(reply, bucket) ==
    IF reply.result \in Failed THEN Unavailable ELSE StorageGridUsage(reply.body, bucket)

-----------------------------------------------------------------------------
(* MinIO: the samples of a Prometheus endpoint, of every bucket.           *)

\* parse_exposition: a line that is no sample, or of no number, is skipped.
Samples(lines) == SelectSeq(lines, LAMBDA s : s.value # Text)

\* _pick: the first sample of a metric that is the bucket's, or no bucket's.
Pick(samples, metric, bucket) ==
    LET mine == SelectSeq(samples, LAMBDA s : s.metric = metric
                                              /\ s.bucket \in {bucket, Missing})
    IN  IF mine = <<>> THEN Missing ELSE mine[1].value

NsThreshold == 1000000       \* _AGE_NS_THRESHOLD
NsPerSecond == 1000000000

\* Mutant: an age is of the unit its metric is named for.
AgeAsNamed(raw) == IF raw = Missing \/ raw < 0 THEN Missing ELSE raw

\* _age_to_seconds: nanoseconds above a threshold, whatever the metric's name says;
\* a negative age is none.
AgeToSeconds(raw) ==
    IF raw = Missing \/ raw < 0 THEN Missing
    ELSE IF raw > NsThreshold THEN raw \div NsPerSecond ELSE raw

\* parse_usage: the age, when one is published, tells when the scanner ran; int() and
\* timedelta() raise on what is not finite.
MinioUsage(lines, bucket, now) ==
    LET Of(metric) == Pick(Samples(lines), metric, bucket)
        size  == Of("size")
        count == Of("count")
    IN  IF NotFinite \in {size, count, Of("age")} THEN Unavailable
        ELSE LET age == AgeToSeconds(Of("age"))
             IN  OfFields(size, count, IF age = Missing THEN Missing ELSE now - age)

Minio(reply, bucket, today) ==
    IF reply.result \in Failed THEN Unavailable ELSE MinioUsage(reply.body, bucket, today)

-----------------------------------------------------------------------------
(* CloudWatch: daily datapoints of two metrics.                            *)

Latest(points) == CHOOSE p \in points : \A q \in points : q.at <= p.at

\* fetch: the figures may be of two days, and the older one dates them.
CloudWatch(reply) ==
    IF reply.result \in Failed \/ {} \in {reply.body.sizes, reply.body.counts}
    THEN Unavailable
    ELSE LET size == Latest(reply.body.sizes)
             count == Latest(reply.body.counts)
         IN  OfFields(size.value, count.value,
                      IF size.at < count.at THEN size.at ELSE count.at)

-----------------------------------------------------------------------------
(* Cloudflare R2: the standard objects, and those of Infrequent Access.    *)

\* _int: a counter that is not there, or empty, counts for nothing.
Counter(field) == IF field = Missing THEN 0 ELSE field

\* _as_of: the figures stay usable without the end of their window.
WindowEnd(raw) == IF raw = Text THEN Missing ELSE raw

\* parse_usage: an API that refuses, or whose result is no dict, gives no figures.
R2Usage(document) ==
    LET result == document.result
    IN  IF \/ ~document.success
           \/ result \in {Missing, Text}
           \/ Text \in {result.size, result.iaSize, result.count, result.iaCount}
        THEN Unavailable
        ELSE Usage(Counter(result.size) + Counter(result.iaSize),
                   Counter(result.count) + Counter(result.iaCount),
                   WindowEnd(result.end))

R2(reply) == IF reply.result \in Failed THEN Unavailable ELSE R2Usage(reply.body)

-----------------------------------------------------------------------------
(* The listing: every object of every page, or nothing.                    *)

\* A page is the sizes of its objects, or failed.
Listing(pages) ==
    IF \E i \in DOMAIN pages : pages[i] = Missing THEN Unavailable
    ELSE LET sizes == FlattenSeq(pages)
         IN  Usage(FoldSeq(+, 0, sizes), Len(sizes), Missing)

-----------------------------------------------------------------------------

Fetch(source, reply, bucket, today) ==
    CASE source = "storagegrid" -> StorageGrid(reply, bucket)
      [] source = "minio"       -> Minio(reply, bucket, today)
      [] source = "cloudwatch"  -> CloudWatch(reply)
      [] source = "r2"          -> R2(reply)
      [] source = "list"        -> Listing(reply)

=============================================================================
