------------------------- MODULE ReloadedDocuments -------------------------
(***************************************************************************)
(* ConfigReloader over documents: what each content of the file is worth   *)
(* is what BucketPlan and Startup make of its document, in the environment *)
(* and the pod the exporter runs in.                                       *)
(***************************************************************************)
EXTENDS ConfigReloader, Startup

CONSTANTS
    Documents,   \* items, with a name for the entries, and one for the other settings
    Env, Kube

SettingsOf(d) == ParseConfiguration(d.items, Env)

ContentOf(d) ==
    LET settings == SettingsOf(d)
    IN  IF settings = Rejected THEN Content(FALSE, FALSE, FALSE, FALSE, d.entries, d.fixed)
        ELSE Content(TRUE, PlanHonoured(settings, Env, Kube),
                     Starts(settings, Env, Kube, TRUE), MultiBucket(settings), d.entries, d.fixed)

\* Entries of one name are the same list, under the same keys and prefix.
ASSUME DocumentsAssumption ==
    /\ Contents = {ContentOf(d) : d \in Documents}
    /\ \A c, d \in Documents :
          c.entries = d.entries /\ SettingsOf(c) # Rejected /\ SettingsOf(d) # Rejected =>
              \A k \in ReloadableSettings : SettingsOf(c)[k] = SettingsOf(d)[k]

-----------------------------------------------------------------------------
(* Properties.                                                             *)

\* The buckets and selectors an entry asks for.
AskedFor(e) ==
    IF e.selector \in Unset THEN {IF e.secret \in Unset THEN <<"env", e.env_prefix>>
                                  ELSE <<"secret", NamespaceOf(e, Env, Kube), e.secret>>}
    ELSE {<<"selector", ns, Stripped(e.selector)>> : ns \in ToSet(e.namespace.names)}

\* A plan has what each entry asks for, and nothing else; no two ask for the same.
Watches(inForce, entries) ==
    /\ \A i, j \in DOMAIN entries :
          i # j => AskedFor(entries[i]) \cap AskedFor(entries[j]) = {}
    /\ {inForce.specs[i].key : i \in DOMAIN inForce.specs}
          \cup {inForce.rules[i].key : i \in DOMAIN inForce.rules}
       = UNION {AskedFor(entries[i]) : i \in DOMAIN entries}

\* buckets.py:9 "a typo in one of a hundred entries must show [...] not as a bucket
\* silently missing from the dashboards": through any history of edits, reloads and
\* rejections, each entry of the file in force has buckets or selectors of its own in
\* the plan, one for each it asks for, and shares none with another entry.
EveryEntryIsWatched ==
    pc = "wait" /\ running.multi =>
        \A d \in Documents :
            d.entries = plan /\ SettingsOf(d) # Rejected =>
                LET inForce == BucketPlanOf(SettingsOf(d), Env, Kube)
                IN  inForce # Rejected /\ Watches(inForce, SettingsOf(d).buckets)

=============================================================================
