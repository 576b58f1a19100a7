--------------------------- MODULE ResetProtocol ----------------------------
(***************************************************************************)
(* The reset of the business data: an operator plans it, reviews the       *)
(* manifest, applies, verifies, secures the backups and lets the services  *)
(* back in, in phases a journal in the database records.  Browser tabs and *)
(* requests under way outlive it: the epoch a tab is pinned to and the     *)
(* digests of the old idempotency keys keep them off the new data.         *)
(*                                                                         *)
(* A row of the business data is the key of the command that wrote it; a   *)
(* row that was reviewed, purged or saved is the same key.                 *)
(***************************************************************************)
EXTENDS Integers, FiniteSets

CONSTANTS Ops,      \* reset operations
          Cutoff,   \* the cutoff of each, a natural
          Retain,   \* the operations planned with backupRetention = "retain"
          Tabs, Keys,
          KeptKeys, \* keys a client kept and sends again as if they were new
          ByHand    \* somebody may start the services before the data is purged

NoForm == "none"

ResetProtocolAssumption ==
    /\ Ops \subseteq Nat \ {0} /\ Retain \subseteq Ops /\ KeptKeys \subseteq Keys
    /\ Cutoff \in [Ops -> Nat] /\ \A o, p \in Ops : Cutoff[o] = Cutoff[p] => o = p
    /\ ByHand \in BOOLEAN /\ NoForm \notin Keys

VARIABLES rows,      \* the business data
          idem,      \* the stored idempotency keys
          replay,    \* the digests of stored keys, kept over resets
          phase,     \* the journal: test_data_reset_operations
          manifest,  \* what was planned and reviewed, per operation (none or one)
          api,       \* the epoch the running services are pinned to
          entered,   \* the operation maintenance was entered for (0: none)
          copies,    \* the backups: what each holds
          proof,     \* the pre-reset backup proven per operation (none or one)
          tabs,      \* the epoch a document is pinned to and the form it holds
          sent,      \* writes on their way, which may arrive again and again
          composed,  \* the epoch a key was drawn in
          runs,      \* how often a key was executed
          applied,   \* the operation applied last
          purged     \* what each operation removed

vars == <<rows, idem, replay, phase, manifest, api, entered, copies, proof, tabs,
          sent, composed, runs, applied, purged>>
journal == <<phase, manifest, applied, purged>>
maintenance == <<entered, copies, proof>>
clients == <<tabs, sent, composed>>

Down == -1
Unknown == -1
Account == "account"
Client == ""

\* What nearly every command stores its key under, and what a request names.
Stored(k) == <<Account, k>>
Named(k) == <<Client, k>>

Phases == {"none", "DATABASE_COMMITTED", "VERIFIED", "BACKUPS", "COMPLETE"}
Journaled == {o \in Ops : phase[o] # "none"}

\* The operation in effect has the latest cutoff.
Epoch == IF Journaled = {} THEN 0
         ELSE CHOOSE o \in Journaled : \A p \in Journaled : Cutoff[p] <= Cutoff[o]

Init ==
    /\ rows = {} /\ idem = {} /\ replay = {}
    /\ phase = [o \in Ops |-> "none"] /\ manifest = [o \in Ops |-> {}]
    /\ api = 0 /\ entered = 0 /\ copies = {} /\ proof = [o \in Ops |-> {}]
    /\ tabs = [t \in Tabs |-> [epoch |-> Unknown, form |-> NoForm]]
    /\ sent = {} /\ composed = [k \in Keys |-> Unknown] /\ runs = [k \in Keys |-> 0]
    /\ applied = 0 /\ purged = [o \in Ops |-> {}]

-----------------------------------------------------------------------------
(* The tabs and the API. *)

\* Any answer shows the epoch: a tab that knows none takes it from a read, and
\* a tab that knows another one is loaded anew, with its form.
Heard(t, e) ==
    IF tabs[t].epoch \in {Unknown, e} THEN [tabs[t] EXCEPT !.epoch = e]
    ELSE [epoch |-> Unknown, form |-> NoForm]

Hear(t) ==
    /\ api # Down /\ tabs' = [tabs EXCEPT ![t] = Heard(t, api)]
    /\ UNCHANGED <<rows, idem, replay, api, sent, composed, runs, journal, maintenance>>

Compose(t, k) ==
    /\ tabs[t].epoch # Unknown /\ tabs[t].form = NoForm /\ composed[k] = Unknown
    /\ tabs' = [tabs EXCEPT ![t].form = k]
    /\ composed' = [composed EXCEPT ![k] = tabs[t].epoch]
    /\ UNCHANGED <<rows, idem, replay, api, sent, runs, journal, maintenance>>

\* Sending, and sending again under the same key when no answer came.
Send(t) ==
    /\ tabs[t].form # NoForm
    /\ sent' = sent \cup {[key |-> tabs[t].form, epoch |-> tabs[t].epoch]}
    /\ UNCHANGED <<rows, idem, replay, api, tabs, composed, runs, journal, maintenance>>

\* The answer arrived: the form is closed.
Answered(t) ==
    /\ tabs[t].form # NoForm /\ runs[tabs[t].form] > 0
    /\ tabs' = [tabs EXCEPT ![t].form = NoForm]
    /\ UNCHANGED <<rows, idem, replay, api, sent, composed, runs, journal, maintenance>>

\* A client that kept an old key sends it under the epoch in effect.
SendKept(k) ==
    /\ k \in KeptKeys /\ runs[k] > 0 /\ api # Down
    /\ sent' = sent \cup {[key |-> k, epoch |-> api]}
    /\ UNCHANGED <<rows, idem, replay, api, tabs, composed, runs, journal, maintenance>>

\* Mutant of Admitted: the API admits every epoch.
AdmittedAny(msg) == Named(msg.key) \notin replay

\* Before any handler: an old key is refused, and so is another epoch.
Admitted(msg) ==
    \/ api = 0
    \/ Named(msg.key) \notin replay /\ msg.epoch = api

Execute(msg) ==
    /\ api # Down /\ msg \in sent /\ Admitted(msg)
    /\ Stored(msg.key) \notin idem
    /\ rows' = rows \cup {msg.key} /\ idem' = idem \cup {Stored(msg.key)}
    /\ runs' = [runs EXCEPT ![msg.key] = @ + 1]
    /\ UNCHANGED <<replay, api, clients, journal, maintenance>>

-----------------------------------------------------------------------------
(* Maintenance. *)

\* Caddy, the API and the worker are stopped, draining what they run.
Enter(o) ==
    /\ entered = 0 /\ phase[o] = "none" /\ api # Down
    /\ entered' = o /\ api' = Down
    /\ UNCHANGED <<rows, idem, replay, clients, runs, journal, copies, proof>>

Quiet(o) == entered = o /\ api = Down

\* Retention: a fresh backup, restored and compared with the live data.
ProveBackup(o) ==
    /\ Quiet(o) /\ o \in Retain /\ phase[o] = "none" /\ proof[o] = {}
    /\ copies' = copies \cup {rows}
    /\ proof' = [proof EXCEPT ![o] = {rows}]
    /\ UNCHANGED <<rows, idem, replay, api, clients, runs, journal, entered>>

Proven(o) == o \notin Retain \/ (proof[o] # {} /\ proof[o] \subseteq copies)

\* One operation at a time, and only forward in time.
PreviousIssues(o) ==
    {p \in Journaled \ {o} : phase[p] # "COMPLETE" \/ Cutoff[p] >= Cutoff[o]}

\* The fingerprint of every table and the review.
Planned(o) ==
    [rows |-> rows, idem |-> idem, replay |-> replay, phase |-> phase, review |-> PreviousIssues(o)]

Plan(o) ==
    /\ Quiet(o) /\ phase[o] = "none" /\ Proven(o)
    /\ manifest' = [manifest EXCEPT ![o] = {Planned(o)}]
    /\ UNCHANGED <<rows, idem, replay, api, clients, runs, phase, applied, purged, maintenance>>

Applicable(o) ==
    /\ phase[o] = "none"
    /\ PreviousIssues(o) = {}
    /\ manifest[o] = {Planned(o)}

\* One transaction; applying again finds the operation in the journal.
Apply(o) ==
    /\ Quiet(o) /\ Proven(o) /\ Applicable(o)
    /\ rows' = {} /\ idem' = {} /\ replay' = replay \cup idem
    /\ phase' = [phase EXCEPT ![o] = "DATABASE_COMMITTED"]
    /\ applied' = o /\ purged' = [purged EXCEPT ![o] = rows]
    /\ UNCHANGED <<manifest, api, clients, runs, maintenance>>

Moves(o, from, to) ==
    /\ phase[o] \in from /\ phase' = [phase EXCEPT ![o] = to]
    /\ UNCHANGED <<manifest, applied, purged>>

Verify(o) ==
    /\ Quiet(o) /\ rows = {} /\ Moves(o, {"DATABASE_COMMITTED"}, "VERIFIED")
    /\ UNCHANGED <<rows, idem, replay, api, clients, runs, maintenance>>

\* A clean backup is proven; then the old ones are purged, or all are kept.
SecureBackups(o) ==
    /\ Quiet(o) /\ rows = {} /\ Proven(o) /\ Moves(o, {"VERIFIED"}, "BACKUPS")
    /\ copies' = {rows} \cup (IF o \in Retain THEN copies ELSE {})
    /\ UNCHANGED <<rows, idem, replay, api, clients, runs, entered, proof>>

Leave(o) ==
    /\ Quiet(o) /\ phase[o] \in {"BACKUPS", "COMPLETE"}
    /\ entered' = 0 /\ api' = Epoch
    /\ UNCHANGED <<rows, idem, replay, clients, runs, journal, copies, proof>>

Complete(o) ==
    /\ api # Down /\ Moves(o, {"BACKUPS"}, "COMPLETE")
    /\ UNCHANGED <<rows, idem, replay, api, clients, runs, maintenance>>

\* The operator gives up before anything was purged and starts the services;
\* the state of the operation stays where it is.
Resume(o) ==
    /\ ByHand /\ Quiet(o) /\ phase[o] = "none"
    /\ entered' = 0 /\ api' = Epoch
    /\ UNCHANGED <<rows, idem, replay, clients, runs, journal, copies, proof>>

Next ==
    \/ \E t \in Tabs : Hear(t) \/ Send(t) \/ Answered(t) \/ \E k \in Keys : Compose(t, k)
    \/ \E k \in Keys : SendKept(k)
    \/ \E msg \in sent : Execute(msg)
    \/ \E o \in Ops :
          \/ Enter(o) \/ ProveBackup(o) \/ Plan(o) \/ Apply(o) \/ Verify(o)
          \/ SecureBackups(o) \/ Leave(o) \/ Complete(o) \/ Resume(o)

Spec == Init /\ [][Next]_vars

-----------------------------------------------------------------------------
Epochs == Ops \cup {0}

TypeOK ==
    /\ rows \subseteq Keys /\ idem \subseteq {Stored(k) : k \in Keys} /\ replay \subseteq {Stored(k) : k \in Keys}
    /\ phase \in [Ops -> Phases] /\ api \in Epochs \cup {Down} /\ entered \in Ops \cup {0}
    /\ copies \subseteq SUBSET Keys /\ proof \in [Ops -> SUBSET SUBSET Keys]
    /\ tabs \in [Tabs -> [epoch : Epochs \cup {Unknown}, form : Keys \cup {NoForm}]]
    /\ sent \subseteq [key : Keys, epoch : Epochs]
    /\ composed \in [Keys -> Epochs \cup {Unknown}] /\ runs \in [Keys -> Nat]
    /\ applied \in Epochs /\ purged \in [Ops -> SUBSET Keys]

\* Nothing that was composed before a reset is ever written into the data that
\* follows it, however long it was on its way or how often it was tried again.
OldFormsNeverApplied == KeptKeys = {} => \A k \in rows : composed[k] = Epoch

\* One command, one effect, over resets as well.
KeyRunsOnce == KeptKeys = {} => \A k \in Keys : runs[k] <= 1

\* Only what somebody reviewed is removed, and nothing written after the review.
OnlyReviewedIsPurged ==
    rows \ rows' # {} =>
       \E o \in Ops : \E m \in manifest[o] : m.rows = rows /\ m.review = {}

\* The operation in effect is the one applied last, and the services never
\* serve another epoch.
EpochIsLastApplied == Epoch = applied /\ api \in {Down, Epoch}

\* While an operation is not complete no other one is applied.
OneAtATime ==
    \A o, p \in Ops : (phase[o] \in Phases \ {"none", "COMPLETE"} /\ p # o) => phase[p] \in {"none", "COMPLETE"}

\* Until the backups are secured nobody writes into the purged database.
PurgedStaysEmpty ==
    \A o \in Ops : phase[o] \in {"DATABASE_COMMITTED", "VERIFIED"} => rows = {} /\ idem = {}

\* What a reset leaves is clean: the parts above together.
ResetKept ==
    /\ TypeOK /\ OldFormsNeverApplied /\ KeyRunsOnce /\ EpochIsLastApplied
    /\ OneAtATime /\ PurgedStaysEmpty

\* With retention, a backup holds what the operation removed.
RecoveryCopyKept ==
    \A o \in Retain : phase[o] # "none" => \E c \in copies : purged[o] \subseteq c

=============================================================================
