--------------------------- MODULE ConfigReloader ---------------------------
(***************************************************************************)
(* config.py, and what __init__.py hands it: collector.yml read when the   *)
(* exporter starts, then again on a period and on SIGHUP, while the file   *)
(* is edited, removed and put back.  A content stands for its digest.      *)
(***************************************************************************)
EXTENDS Integers

CONSTANTS
    Contents,          \* the contents the file may have
    StartFiles,        \* the files the exporter may be started with
    None,              \* Python's None
    Missing,           \* no file, and its key when that is rejected
    Unreadable,        \* a file that cannot be read, likewise
    EditsDuringStart,  \* whether the file may change while the exporter starts
    Regimes            \* what an exporter may run under: with a period
                       \* (config_reload_interval above zero) or on signals only,
                       \* and whether applying a plan may fail half way

\* A content: whether it is a configuration at all, whether its entries and
\* settings can be honoured, whether an exporter starts with it, whether it has
\* `buckets:`, its entries, and its settings only a restart applies.
Content(parses, valid, starts, multi, entries, fixed) ==
    [parses |-> parses, valid |-> valid, starts |-> starts, multi |-> multi,
     entries |-> entries, fixed |-> fixed]

\* What an absent file gives; the environment names the one bucket.
Defaults == Content(TRUE, TRUE, TRUE, FALSE, "environment", "single")

Files == Contents \cup {Missing, Unreadable}

Entries == {c.entries : c \in Contents \cup {Defaults}}

ASSUME ReloaderAssumption ==
    /\ None \notin Files /\ {Missing, Unreadable} \cap Contents = {}
    /\ Missing # Unreadable
    /\ \A c \in Contents : /\ c.parses \in BOOLEAN /\ c.valid \in BOOLEAN
                           /\ c.starts \in BOOLEAN /\ c.multi \in BOOLEAN
                           /\ ~c.multi => c.entries = Defaults.entries
    /\ StartFiles \subseteq Files
    /\ EditsDuringStart \in BOOLEAN
    /\ Regimes \subseteq [periodic : BOOLEAN, mayRaise : BOOLEAN]

VARIABLES
    regime,      \* the one this exporter runs under
    file,        \* collector.yml
    pc,          \* where the main thread, then the reloader's, is
    wake,        \* _wake, set by SIGHUP
    content,     \* what was last read
    running,     \* the settings the exporter started with
    plan,        \* the entries the Discoverer works from
    applied,     \* _applied
    rejected,    \* _rejected
    successful,
    restart      \* restart_required

verdict == <<applied, rejected, successful, restart>>
vars == <<regime, file, pc, wake, content, running, plan, verdict>>

TypeOK ==
    /\ regime \in Regimes
    /\ file \in Files
    /\ pc \in {"start", "built", "exited", "wait", "woken", "check", "apply"}
    /\ wake \in BOOLEAN
    /\ content \in Files
    /\ pc = "apply" => content \in Contents
    /\ running \in Contents \cup {Defaults}
    /\ plan \in Entries
    /\ applied \in Contents \cup {None}
    /\ rejected \in Files \cup {None}
    /\ successful \in BOOLEAN
    /\ restart \in SUBSET {"fixed", "buckets"}

Init ==
    /\ regime \in Regimes
    /\ file \in StartFiles /\ content = file
    /\ pc = "start" /\ wake = FALSE
    /\ running = Defaults /\ plan = Defaults.entries
    /\ applied = None /\ rejected = None /\ successful = TRUE /\ restart = {}

-----------------------------------------------------------------------------
(* The file and its operator.                                              *)

Edit ==
    /\ pc \in {"start", "built"} => EditsDuringStart
    /\ file' \in Files \ {file}
    /\ UNCHANGED <<regime, pc, wake, content, running, plan, verdict>>

Sighup ==
    /\ pc \notin {"start", "built", "exited"}
    /\ wake' = TRUE
    /\ UNCHANGED <<regime, file, pc, content, running, plan, verdict>>

-----------------------------------------------------------------------------
(* Starting.                                                               *)

\* load_configuration: what cannot be read or parsed counts as absent.
Loaded(f) == IF f \in Contents THEN IF f.parses THEN f ELSE Defaults ELSE Defaults

\* Then the entries, the settings and a first pass over the buckets, which stop the
\* start when they are wrong.
Load ==
    /\ pc = "start"
    /\ content' = file
    /\ running' = Loaded(file)
    /\ plan' = running'.entries
    /\ pc' = IF running'.starts THEN "built" ELSE "exited"
    /\ UNCHANGED <<regime, file, wake, verdict>>

DigestOf(f) == IF f \in Contents THEN f ELSE None

\* started_with_file reads it a second time.
StartedWithFile ==
    /\ pc = "built" /\ pc' = "wait"
    /\ content' = file
    /\ applied' = DigestOf(file)
    /\ UNCHANGED <<regime, file, wake, running, plan, rejected, successful, restart>>

-----------------------------------------------------------------------------
(* run.                                                                    *)

Wakes ==
    /\ pc = "wait"
    /\ wake \/ regime.periodic
    /\ pc' = "woken"
    /\ UNCHANGED <<regime, file, wake, content, running, plan, verdict>>

Clear ==
    /\ pc = "woken" /\ pc' = "check"
    /\ wake' = FALSE
    /\ UNCHANGED <<regime, file, content, running, plan, verdict>>

\* check_once, up to apply: a content is new unless it is in force or was the
\* last one rejected, and a file that is gone or unreadable is never applied.
Reject(digest) ==
    /\ rejected' = digest /\ successful' = FALSE
    /\ UNCHANGED <<applied, restart>>

CannotRead ==
    /\ file = Unreadable
    /\ IF rejected = Unreadable THEN UNCHANGED verdict ELSE Reject(Unreadable)
    /\ pc' = "wait"

BackInForce ==
    /\ file # Unreadable /\ DigestOf(file) = applied
    /\ rejected' = None
    /\ successful' = (successful \/ rejected # None)
    /\ UNCHANGED <<applied, restart>>
    /\ pc' = "wait"

Gone ==
    /\ file = Missing /\ applied # None
    /\ IF rejected = Missing THEN UNCHANGED verdict ELSE Reject(Missing)
    /\ pc' = "wait"

IsNew ==
    /\ file \in Contents /\ file # applied
    /\ UNCHANGED verdict
    /\ pc' = IF file = rejected THEN "wait" ELSE "apply"

\* Mutant: a file that is gone is applied like an empty one.
ReadAppliesGone ==
    /\ pc = "check"
    /\ content' = file
    /\ \/ CannotRead
       \/ BackInForce
       \/ IsNew
       \/ file = Missing /\ applied # None /\ pc' = "apply" /\ UNCHANGED verdict
    /\ UNCHANGED <<regime, file, wake, running, plan>>

Read ==
    /\ pc = "check"
    /\ content' = file
    /\ CannotRead \/ BackInForce \/ Gone \/ IsNew
    /\ UNCHANGED <<regime, file, wake, running, plan>>

\* restart_keys.
Pending(c) == IF c.fixed = running.fixed THEN {} ELSE {"fixed"}

\* Mutant: nothing pending leaves what was.
AcceptKeepsPending(pending) ==
    /\ applied' = content /\ rejected' = None /\ successful' = TRUE
    /\ restart' = IF pending = {} THEN restart ELSE pending

\* Mutant: the file as it is now, not as it was read, counts as applied.
AcceptFile(pending) ==
    /\ applied' = DigestOf(file) /\ rejected' = None /\ successful' = TRUE
    /\ restart' = pending

Accept(pending) ==
    /\ applied' = content /\ rejected' = None /\ successful' = TRUE
    /\ restart' = pending

\* Mutant: the plan is installed, then found wrong.
InvalidInstalled ==
    /\ content.parses => content.multi /\ running.multi /\ ~content.valid
    /\ Reject(content)
    /\ plan' = IF content.parses THEN content.entries ELSE plan

\* Mutant: a change of mode is accepted like any other.
OtherModeUntold ==
    /\ content.parses /\ content.multi # running.multi
    /\ Accept(Pending(content))
    /\ UNCHANGED plan

\* configuration_applier: the mode cannot change, and nothing is applied before
\* the whole of it was validated.
Invalid ==
    /\ content.parses => content.multi /\ running.multi /\ ~content.valid
    /\ Reject(content)
    /\ UNCHANGED plan

OtherMode ==
    /\ content.parses /\ content.multi # running.multi
    /\ Accept(Pending(content) \cup {"buckets"})
    /\ UNCHANGED plan

SameMode ==
    /\ content.parses /\ content.multi = running.multi
    /\ content.multi => content.valid
    /\ plan' = IF content.multi THEN content.entries ELSE plan
    /\ Accept(Pending(content))

\* set_plan installs the plan before it brings the fleet in line.
Raises ==
    /\ regime.mayRaise
    /\ content.parses /\ content.multi /\ running.multi /\ content.valid
    /\ plan' = content.entries
    /\ Reject(content)

\* Mutant: the wake is cleared at the end of the check.
ApplyThenClears ==
    /\ pc = "apply" /\ pc' = "wait"
    /\ Invalid \/ OtherMode \/ SameMode \/ Raises
    /\ wake' = FALSE
    /\ UNCHANGED <<regime, file, content, running>>

Apply ==
    /\ pc = "apply" /\ pc' = "wait"
    /\ Invalid \/ OtherMode \/ SameMode \/ Raises
    /\ UNCHANGED <<regime, file, wake, content, running>>

-----------------------------------------------------------------------------

Reload == Wakes \/ Clear \/ Read \/ Apply

Next == Edit \/ Sighup \/ Load \/ StartedWithFile \/ Reload

Spec == Init /\ [][Next]_vars

\* The reloader's thread runs.
FairSpec == Spec /\ WF_vars(Reload) /\ WF_vars(Load \/ StartedWithFile)

-----------------------------------------------------------------------------
(* Properties.                                                             *)

EntriesOf(f) == IF f \in Contents THEN f.entries ELSE Defaults.entries

\* webtech_s3_config_last_reload_successful is 1 only when the entries last read
\* are in force, or wait for the restart that changes the mode; that no plan fails
\* half way is needed, since set_plan installs one before it applies it.
SuccessIsInForce ==
    ~regime.mayRaise /\ pc = "wait" /\ successful =>
        plan = EntriesOf(content) \/ "buckets" \in restart

\* webtech_s3_config_restart_required tells whether the content in force differs
\* from the settings the exporter runs with, neither more nor less.
RestartIsTold ==
    pc = "wait" /\ applied # None =>
        /\ "fixed" \in restart <=> applied.fixed # running.fixed
        /\ "buckets" \in restart <=> applied.multi # running.multi

\* config.py:8 "A file that cannot be honoured keeps the configuration in
\* force": a step that rejects one leaves the entries alone.
RejectionKeepsPlan ==
    [][~regime.mayRaise /\ rejected' \notin {rejected, None} => plan' = plan]_vars

\* config.py:138 "Read the file now (SIGHUP)": the file as it was when the
\* signal came is read, if it stays, whatever the reloader was doing.
SighupIsHonoured ==
    \A f \in Files :
        (wake /\ file = f) ~> (file # f \/ (pc = "wait" /\ content = f))

\* A file that stays is dealt with in the end: in force, waiting for a restart,
\* or reported as rejected.
FileIsDealtWith ==
    \A f \in Contents :
        <>[](regime.periodic /\ ~regime.mayRaise /\ file = f) =>
            <>[](\/ pc = "exited"
                 \/ ~successful /\ rejected = f
                 \/ /\ successful /\ applied = f
                    /\ plan = f.entries \/ "buckets" \in restart)

=============================================================================
