--------------------------- MODULE SecretListing ---------------------------
(***************************************************************************)
(* kube.py and SecretDiscovery: the Secrets one selector finds, listed     *)
(* page by page while they change, and handed to the monitors that read    *)
(* from the list.  Kubernetes serves the pages after the first from the    *)
(* state the first was read in, or refuses the token of a list too old.    *)
(***************************************************************************)
EXTENDS Integers, Sequences, FiniteSets

CONSTANTS
    Order,       \* the names the selector may find, as pages order them
    Values,      \* what a Secret may hold
    Malformed,   \* what is not base64 text
    Absent,      \* no such Secret, or its label gone
    PageSize,    \* LIST_PAGE_SIZE
    MaxEdits     \* bound: changes of the Secrets

Names == {Order[i] : i \in DOMAIN Order}
Contents == Values \cup {Malformed, Absent}

ASSUME ListingAssumption ==
    /\ Order \in Seq(Names) /\ PageSize \in Nat \ {0} /\ MaxEdits \in Nat
    /\ \A i, j \in DOMAIN Order : Order[i] = Order[j] => i = j
    /\ {Malformed, Absent} \cap Values = {} /\ Malformed # Absent

\* What a request of the API may give: no token to send, no answer, a status,
\* a body that is not what it should be, or the Secrets asked for.
Answers == {"no_token", "tls", "unreachable", "400", "403", "404", "other_status",
            "not_json", "ok"}

\* _list_page, then _reason: the failure it counts as.
ListFailure(answer) ==
    CASE answer = "ok"  -> "none"
      [] answer = "403" -> "forbidden"
      [] answer = "400" -> "invalid"
      [] OTHER          -> "unavailable"

Reasons == {"forbidden", "invalid", "unavailable"}

\* A ListedSecret.
Listed(data, error) == [data |-> data, error |-> error]
Empty == "{}"
ListedSecrets == [data : Values \cup {Empty}, error : BOOLEAN]

\* _decode, caught by list_secrets: malformed values empty that Secret alone.
Decoded(content) ==
    IF content = Malformed THEN Listed(Empty, TRUE) ELSE Listed(content, FALSE)

\* read_secret: what the values of a named Secret are, if they can be read.
ReadSecret(answer, content) ==
    IF answer # "ok" \/ content \in {Malformed, Absent} THEN Listed(Empty, TRUE)
    ELSE Listed(content, FALSE)

VARIABLES
    secretsNow,  \* the Secrets as Kubernetes has them, Absent without
    edits,
    phase,       \* where refresh is
    served,      \* what the pages of this list are served from
    token,       \* the place in Order the pages read so far end at
    page,        \* what this list found so far
    secrets,     \* what the last successful list found
    digests,     \* _digests
    success,     \* whether a list ever succeeded
    listError,   \* why the last list failed, "none" when it did not
    counted,     \* failures, by reason
    changedNames,\* what refresh returned
    asOf         \* history: the Secrets when the last successful list began

listing == <<phase, served, token, page>>
installed == <<secrets, digests, success, listError, counted, changedNames, asOf>>
listingVars == <<secretsNow, edits, listing, installed>>

Found == UNION {[S -> ListedSecrets] : S \in SUBSET Names}

ListingTypeOK ==
    /\ secretsNow \in [Names -> Contents] /\ edits \in 0 .. MaxEdits
    /\ phase \in {"idle", "listing", "listed"}
    /\ served \in [Names -> Contents] /\ asOf \in [Names -> Contents]
    /\ token \in 0 .. Len(Order)
    /\ page \in Found /\ secrets \in Found
    /\ digests \in UNION {[S -> Values \cup {Empty}] : S \in SUBSET Names}
    /\ success \in BOOLEAN
    /\ listError \in Reasons \cup {"none"}
    /\ counted \in [Reasons -> BOOLEAN]
    /\ changedNames \in SUBSET Names

NoNames == [n \in {} |-> Listed(Empty, FALSE)]

ListingInit ==
    /\ secretsNow \in [Names -> Contents] /\ edits = 0
    /\ phase = "idle" /\ served = secretsNow /\ token = 0 /\ page = NoNames
    /\ secrets = NoNames /\ digests = [n \in {} |-> Empty]
    /\ success = FALSE /\ listError = "none"
    /\ counted = [r \in Reasons |-> FALSE]
    /\ changedNames = {} /\ asOf = [n \in Names |-> Absent]

-----------------------------------------------------------------------------
(* Kubernetes.                                                             *)

EditSecret ==
    /\ edits < MaxEdits /\ edits' = edits + 1
    /\ \E n \in Names, c \in Contents :
          c # secretsNow[n] /\ secretsNow' = [secretsNow EXCEPT ![n] = c]
    /\ UNCHANGED <<listing, installed>>

\* The Secrets a list returns, from one place of its order to another.
Items(cluster, from, to) == {n \in {Order[i] : i \in from + 1 .. to} : cluster[n] # Absent}

-----------------------------------------------------------------------------
(* list_secrets, called by refresh.                                        *)

StartList ==
    /\ phase = "idle" /\ phase' = "listing"
    /\ token' = 0 /\ page' = NoNames
    /\ UNCHANGED <<secretsNow, edits, served, installed>>

\* A page is full when Secrets are left for the next: its token is where it ends.
NextPage(cluster) ==
    \E last \in token .. Len(Order) :
        LET new == Items(cluster, token, last)
            left == Items(cluster, last, Len(Order))
        IN  /\ \/ /\ left # {} /\ Cardinality(new) = PageSize /\ Order[last] \in new
                  /\ phase' = "listing"
               \/ /\ last = Len(Order) /\ Cardinality(new) <= PageSize
                  /\ phase' = "listed"
            /\ token' = last
            /\ page' = [n \in DOMAIN page \cup new |->
                            IF n \in new THEN Decoded(cluster[n]) ELSE page[n]]

PageRead ==
    /\ phase = "listing"
    /\ served' = IF token = 0 THEN secretsNow ELSE served
    /\ NextPage(served')
    /\ UNCHANGED <<secretsNow, edits, installed>>

\* Mutant: the pages read before the failure are installed.
PageFailedInstalls ==
    /\ phase = "listing" /\ phase' = "idle"
    /\ secrets' = page
    /\ \E answer \in Answers \ {"ok"} :
          /\ listError' = ListFailure(answer)
          /\ counted' = [counted EXCEPT ![ListFailure(answer)] = TRUE]
    /\ changedNames' = {}
    /\ UNCHANGED <<secretsNow, edits, served, token, page, digests, success, asOf>>

\* Any page may fail: nothing of the list is kept.
PageFailed ==
    /\ phase = "listing" /\ phase' = "idle"
    /\ \E answer \in Answers \ {"ok"} :
          /\ listError' = ListFailure(answer)
          /\ counted' = [counted EXCEPT ![ListFailure(answer)] = TRUE]
    /\ changedNames' = {}
    /\ UNCHANGED <<secretsNow, edits, served, token, page, secrets, digests, success, asOf>>

\* refresh, when the list succeeded: the digests tell the names it changed.
Install ==
    /\ phase = "listed" /\ phase' = "idle"
    /\ secrets' = page
    /\ digests' = [n \in DOMAIN page |-> page[n].data]
    /\ changedNames' = {n \in DOMAIN page \cap DOMAIN digests : page[n].data # digests[n]}
    /\ success' = TRUE /\ listError' = "none"
    /\ asOf' = served
    /\ UNCHANGED <<secretsNow, edits, served, token, page, counted>>

Refresh == StartList \/ PageRead \/ PageFailed \/ Install

-----------------------------------------------------------------------------
(* What it shows and hands out.                                            *)

\* SecretDiscovery.values: what a monitor reads.
ValuesOf(n) ==
    IF n \notin DOMAIN secrets THEN Listed(Empty, TRUE)
    ELSE IF secrets[n].error THEN Listed(Empty, TRUE)
    ELSE secrets[n]

\* The rows of a scrape and the entry of a /readyz answer, under the lock.
DiscoveryRows ==
    [up |-> success /\ listError = "none", failures |-> counted,
     secrets |-> Cardinality(DOMAIN secrets)]

-----------------------------------------------------------------------------

ListingNext == EditSecret \/ Refresh

ListingSpec == ListingInit /\ [][ListingNext]_listingVars

-----------------------------------------------------------------------------
(* Properties.                                                             *)

\* discovery.py:16 "A list that fails changes nothing": what the monitors read is
\* what Kubernetes held, as a whole, when the last list that succeeded began,
\* whatever changed or failed between two pages; and kube.py:63 "one malformed
\* Secret must not hide every other", nor pass for one that is gone.
ListingIsWhole ==
    \A n \in Names :
        /\ n \in DOMAIN secrets <=> asOf[n] # Absent
        /\ ValuesOf(n) = ReadSecret("ok", asOf[n])
        /\ DiscoveryRows.secrets = Cardinality({m \in Names : asOf[m] # Absent})

=============================================================================
