------------------------------ MODULE S3Errors ------------------------------
(***************************************************************************)
(* errors.py: what went wrong behind an S3 call, from the exception it     *)
(* raised and those it wraps.  A raised exception is a graph of the        *)
(* exceptions Python keeps, and the one that was raised.                   *)
(***************************************************************************)
EXTENDS Naturals, Sequences

CONSTANT NoError  \* Python's None

ErrorReasons == {"dns", "connect_timeout", "connect", "read_timeout", "http_5xx", "http_4xx",
                 "other"}

MaxChain == 8  \* _MAX_CHAIN

\* An exception: its class, the error botocore put in its kwargs, its cause, its
\* context and whether `from None` hides it, and the status and code of a reply.
Raised(kind, wraps, cause, context, suppressed, status, code) ==
    [kind |-> kind, wraps |-> wraps, cause |-> cause, context |-> context,
     suppressed |-> suppressed, status |-> status, code |-> code]

Underlying(graph, e) ==
    IF graph[e].wraps # NoError THEN graph[e].wraps
    ELSE IF graph[e].cause # NoError THEN graph[e].cause
    ELSE IF graph[e].suppressed THEN NoError
    ELSE graph[e].context

\* What the last of those found wraps comes next, unless it was found before.
Further(graph, found) ==
    LET next == Underlying(graph, found[Len(found)])
    IN  IF next = NoError \/ \E i \in DOMAIN found : found[i] = next
        THEN found ELSE Append(found, next)

\* The exception, then each it wraps: at most MaxChain, none twice.
Chain(graph, e) ==
    LET chain[n \in 1 .. MaxChain] == IF n = 1 THEN <<e>> ELSE Further(graph, chain[n - 1])
    IN  chain[MaxChain]

\* describe: the error named as the cause.
Root(graph, e) == Chain(graph, e)[Len(Chain(graph, e))]

Links(graph, e) == {graph[Chain(graph, e)[i]] : i \in DOMAIN Chain(graph, e)}

IsDns(link) == link.kind \in {"gaierror", "NameResolutionError"}

\* A reply to HEAD has its status in the code, in digits.
InDigits == [code \in {"403", "404", "501", "503"} |->
                CASE code = "403" -> 403 [] code = "404" -> 404
                  [] code = "501" -> 501 [] OTHER -> 503]

StatusOf(error) ==
    IF error.status # NoError THEN error.status
    ELSE IF error.code \in DOMAIN InDigits THEN InDigits[error.code] ELSE 0

OfStatus(status) ==
    IF status >= 500 THEN "http_5xx" ELSE IF status >= 400 THEN "http_4xx" ELSE "other"

\* Of the exception itself, when no name failed to resolve.
OfClass(error) ==
    CASE error.kind = "ConnectTimeoutError" -> "connect_timeout"
      [] error.kind = "ReadTimeoutError" -> "read_timeout"
      [] error.kind \in {"EndpointConnectionError", "ConnectionClosedError"} -> "connect"
      [] error.kind = "ClientError" -> OfStatus(StatusOf(error))
      [] OTHER -> "other"

Classify(graph, e) == IF \E link \in Links(graph, e) : IsDns(link) THEN "dns" ELSE OfClass(graph[e])

CredentialCodes ==
    {"InvalidAccessKeyId", "SignatureDoesNotMatch", "InvalidToken", "ExpiredToken"}

\* S3 rejected the credential itself: a bare 403 is not enough.
IsCredentialsError(graph, e) ==
    \E link \in Links(graph, e) : link.kind = "ClientError" /\ link.code \in CredentialCodes

=============================================================================
