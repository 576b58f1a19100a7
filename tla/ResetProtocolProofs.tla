------------------------ MODULE ResetProtocolProofs ------------------------
(***************************************************************************)
(* The reset of the business data, for any operations, tabs and keys and   *)
(* however long a write is on its way (ResetProtocol).                     *)
(*                                                                         *)
(*  - The operation in effect is the one applied last (Latest): a review   *)
(*    lets only a later cutoff through.                                    *)
(*  - What follows is data of one epoch (KeysInv), because a tab sends a   *)
(*    form under the epoch it was composed in (FormsKnowTheirs), and no    *)
(*    epoch is known before its operation is in the journal (KnownEpochs). *)
(*  - Until the backups are secured the services are down (Closed).        *)
(***************************************************************************)
EXTENDS ResetProtocol, TLAPS

-----------------------------------------------------------------------------
(* The invariant.                                                          *)

Latest ==
    /\ applied = 0 => Journaled = {}
    /\ applied # 0 => applied \in Journaled /\ \A p \in Journaled : Cutoff[p] <= Cutoff[applied]

Serving == api \in {Down, applied}

Closed ==
    /\ entered # 0 => api = Down
    /\ \A o \in Ops : phase[o] \in {"DATABASE_COMMITTED", "VERIFIED"} =>
          entered = o /\ rows = {} /\ idem = {}

FormsKnowTheirs ==
    \A t \in Tabs : tabs[t].form # NoForm =>
        tabs[t].epoch # Unknown /\ composed[tabs[t].form] = tabs[t].epoch

KnownEpochs ==
    /\ \A t \in Tabs : tabs[t].epoch \in Journaled \cup {0, Unknown}
    /\ \A k \in Keys : composed[k] \in Journaled \cup {0, Unknown}

\* A command was composed once, runs once, and in the data of its epoch its
\* key is stored.
KeysInv ==
    /\ \A m \in sent : composed[m.key] = m.epoch
    /\ \A k \in rows : composed[k] = applied
    /\ \A k \in Keys : runs[k] <= 1 /\ (runs[k] > 0 => composed[k] # Unknown)
    /\ \A k \in Keys : runs[k] > 0 /\ composed[k] = applied => Stored(k) \in idem

KeysOnce == KeptKeys = {} => KeysInv

ResetInv ==
    /\ TypeOK /\ Latest /\ Serving /\ Closed /\ OneAtATime
    /\ FormsKnowTheirs /\ KnownEpochs /\ KeysOnce

-----------------------------------------------------------------------------
(* The epoch in effect.                                                    *)

LEMMA EpochIsLatest ==
    ASSUME ResetProtocolAssumption, Latest
    PROVE  Epoch = applied
<1>1. CASE Journaled = {}
  <2>1. applied = 0
    BY <1>1 DEF Latest
  <2> QED BY <1>1, <2>1 DEF Epoch
<1>2. CASE Journaled # {}
  <2>1. applied \in Journaled /\ \A p \in Journaled : Cutoff[p] <= Cutoff[applied]
    BY <1>2 DEF Latest
  <2>2. \A o \in Journaled : (\A p \in Journaled : Cutoff[p] <= Cutoff[o]) => o = applied
    BY <2>1 DEF ResetProtocolAssumption, Journaled
  <2>3. applied = CHOOSE o \in Journaled : \A p \in Journaled : Cutoff[p] <= Cutoff[o]
    BY <2>1, <2>2
  <2> QED BY <1>2, <2>3 DEF Epoch
<1> QED BY <1>1, <1>2

\* A step that leaves the journal alone leaves what it says.
LEMMA JournalKept ==
    ASSUME UNCHANGED <<phase, applied>>
    PROVE  /\ Journaled' = Journaled
           /\ Latest' <=> Latest
           /\ OneAtATime' <=> OneAtATime
BY DEF Journaled, Latest, OneAtATime

LEMMA ZeroIsNoOperation ==
    ASSUME ResetProtocolAssumption
    PROVE  /\ 0 \notin Ops /\ Unknown \notin Epochs /\ Down \notin Epochs
           /\ Epochs \subseteq Nat /\ NoForm \notin Keys
BY DEF ResetProtocolAssumption, Epochs, Unknown, Down, NoForm

LEMMA InitReset ==
    ASSUME ResetProtocolAssumption, Init
    PROVE  ResetInv
<1> USE DEF Init
<1>1. TypeOK
  BY DEF TypeOK, Phases, Epochs
<1>2. Journaled = {}
  BY DEF Journaled
<1>3. Latest /\ Serving /\ Closed /\ OneAtATime
  BY <1>2 DEF Latest, Serving, Closed, OneAtATime, Phases
<1>4. FormsKnowTheirs /\ KnownEpochs /\ KeysOnce
  BY DEF FormsKnowTheirs, KnownEpochs, KeysOnce, KeysInv
<1> QED BY <1>1, <1>3, <1>4 DEF ResetInv

-----------------------------------------------------------------------------
(* The tabs and the services.                                              *)

\* What tabs, requests and commands do leaves the journal and the services.
LEMMA ServicesKept ==
    ASSUME ResetProtocolAssumption, ResetInv, UNCHANGED <<phase, applied, api, entered>>,
           api # Down \/ UNCHANGED <<rows, idem>>
    PROVE  Latest' /\ Serving' /\ Closed' /\ OneAtATime'
<1>1. Latest' /\ OneAtATime'
  BY JournalKept DEF ResetInv
<1>2. Serving'
  BY DEF ResetInv, Serving
<1>3. Closed'
  <2>1. CASE api # Down
    BY <2>1, ZeroIsNoOperation DEF ResetInv, Closed
  <2>2. CASE UNCHANGED <<rows, idem>>
    BY <2>2 DEF ResetInv, Closed
  <2> QED BY <2>1, <2>2
<1> QED BY <1>1, <1>2, <1>3

LEMMA HearKeeps ==
    ASSUME ResetProtocolAssumption, ResetInv, NEW t \in Tabs, Hear(t)
    PROVE  ResetInv'
<1>1. /\ api = applied /\ api \in Epochs /\ api \in Journaled \cup {0}
      /\ tabs' = [tabs EXCEPT ![t] = Heard(t, api)]
      /\ UNCHANGED <<rows, idem, replay, phase, api, entered, copies, proof, sent, composed, runs,
                     applied, purged>>
  BY DEF Hear, journal, maintenance, ResetInv, Serving, Latest, TypeOK
<1>2. tabs[t] \in [epoch : Epochs \cup {Unknown}, form : Keys \cup {NoForm}]
  BY DEF ResetInv, TypeOK
<1>3. /\ Heard(t, api) \in [epoch : Epochs \cup {Unknown}, form : Keys \cup {NoForm}]
      /\ Heard(t, api).epoch \in Journaled \cup {0, Unknown}
      /\ Heard(t, api).form # NoForm => Heard(t, api).form = tabs[t].form /\ Heard(t, api).epoch = api
      /\ Heard(t, api).form # NoForm => tabs[t].epoch \in {Unknown, api}
  BY <1>1, <1>2 DEF Heard
<1>4. TypeOK'
  BY <1>1, <1>3 DEF ResetInv, TypeOK
<1>5. FormsKnowTheirs'
  <2>1. \A u \in Tabs : u # t => tabs'[u] = tabs[u]
    BY <1>1 DEF ResetInv, TypeOK
  <2>2. tabs'[t] = Heard(t, api)
    BY <1>1 DEF ResetInv, TypeOK
  <2>3. tabs'[t].form # NoForm => tabs'[t].epoch # Unknown /\ composed[tabs'[t].form] = tabs'[t].epoch
    BY <1>1, <1>3, <2>2, ZeroIsNoOperation DEF ResetInv, FormsKnowTheirs
  <2> QED BY <1>1, <2>1, <2>3 DEF ResetInv, FormsKnowTheirs
<1>6. KnownEpochs'
  <2>1. Journaled' = Journaled
    BY <1>1, JournalKept
  <2> QED BY <1>1, <1>3, <2>1 DEF ResetInv, TypeOK, KnownEpochs
<1>7. KeysOnce'
  BY <1>1 DEF ResetInv, KeysOnce, KeysInv
<1> QED BY <1>1, <1>4, <1>5, <1>6, <1>7, ServicesKept DEF ResetInv

LEMMA ComposeKeeps ==
    ASSUME ResetProtocolAssumption, ResetInv, NEW t \in Tabs, NEW k \in Keys, Compose(t, k)
    PROVE  ResetInv'
<1>1. /\ tabs[t].epoch # Unknown /\ composed[k] = Unknown
      /\ tabs' = [tabs EXCEPT ![t].form = k]
      /\ composed' = [composed EXCEPT ![k] = tabs[t].epoch]
      /\ UNCHANGED <<rows, idem, replay, phase, api, entered, copies, proof, sent, runs,
                     applied, purged>>
  BY DEF Compose, journal, maintenance
<1>2. tabs[t] \in [epoch : Epochs \cup {Unknown}, form : Keys \cup {NoForm}]
  BY DEF ResetInv, TypeOK
<1>3. TypeOK'
  BY <1>1, <1>2 DEF ResetInv, TypeOK
<1>4. /\ \A u \in Tabs : u # t => tabs'[u] = tabs[u]
      /\ tabs'[t].form = k /\ \A u \in Tabs : tabs'[u].epoch = tabs[u].epoch
      /\ composed'[k] = tabs[t].epoch
      /\ \A j \in Keys : j # k => composed'[j] = composed[j]
  BY <1>1, <1>2 DEF ResetInv, TypeOK
<1>5. FormsKnowTheirs'
  <2>1. \A u \in Tabs : tabs[u].form # NoForm => tabs[u].form # k
    BY <1>1 DEF ResetInv, FormsKnowTheirs
  <2>2. \A u \in Tabs : tabs[u].form \in Keys \cup {NoForm}
    BY DEF ResetInv, TypeOK
  <2> QED BY <1>1, <1>4, <2>1, <2>2 DEF ResetInv, FormsKnowTheirs
<1>6. KnownEpochs'
  <2>1. Journaled' = Journaled
    BY <1>1, JournalKept
  <2> QED BY <1>4, <2>1 DEF ResetInv, KnownEpochs
<1>7. KeysOnce'
  <2>1. SUFFICES ASSUME KeptKeys = {} PROVE KeysInv'
    BY DEF KeysOnce
  <2>2. KeysInv
    BY <2>1 DEF ResetInv, KeysOnce
  <2>3. \A m \in sent : m.key \in Keys /\ m.epoch \in Epochs
    BY DEF ResetInv, TypeOK
  <2>4. \A m \in sent : composed'[m.key] = m.epoch
    BY <1>1, <1>4, <2>2, <2>3, ZeroIsNoOperation DEF KeysInv
  <2>5. \A j \in rows : composed'[j] = applied
    BY <1>1, <1>4, <2>2, ZeroIsNoOperation DEF ResetInv, TypeOK, KeysInv
  <2>6. \A j \in Keys : runs[j] <= 1 /\ (runs[j] > 0 => composed'[j] # Unknown)
    BY <1>1, <1>4, <2>2 DEF KeysInv
  <2>7. \A j \in Keys : runs[j] > 0 /\ composed'[j] = applied => Stored(j) \in idem
    BY <1>1, <1>4, <2>2 DEF KeysInv
  <2> QED BY <1>1, <2>4, <2>5, <2>6, <2>7 DEF KeysInv
<1> QED BY <1>1, <1>3, <1>5, <1>6, <1>7, ServicesKept DEF ResetInv

LEMMA SendKeeps ==
    ASSUME ResetProtocolAssumption, ResetInv, NEW t \in Tabs, Send(t)
    PROVE  ResetInv'
<1> DEFINE m == [key |-> tabs[t].form, epoch |-> tabs[t].epoch]
<1>1. /\ tabs[t].form # NoForm /\ sent' = sent \cup {m}
      /\ UNCHANGED <<rows, idem, replay, phase, api, entered, copies, proof, tabs, composed, runs,
                     applied, purged>>
  BY DEF Send, journal, maintenance
<1>2. tabs[t] \in [epoch : Epochs \cup {Unknown}, form : Keys \cup {NoForm}]
  BY DEF ResetInv, TypeOK
<1>3. m \in [key : Keys, epoch : Epochs] /\ composed[m.key] = m.epoch
  BY <1>1, <1>2 DEF ResetInv, FormsKnowTheirs
<1> HIDE DEF m
<1>4. TypeOK'
  BY <1>1, <1>3 DEF ResetInv, TypeOK
<1>5. FormsKnowTheirs'
  BY <1>1 DEF ResetInv, FormsKnowTheirs
<1>6. KnownEpochs'
  BY <1>1, JournalKept DEF ResetInv, KnownEpochs
<1>7. KeysOnce'
  BY <1>1, <1>3 DEF ResetInv, KeysOnce, KeysInv
<1> QED BY <1>1, <1>4, <1>5, <1>6, <1>7, ServicesKept DEF ResetInv

LEMMA AnsweredKeeps ==
    ASSUME ResetProtocolAssumption, ResetInv, NEW t \in Tabs, Answered(t)
    PROVE  ResetInv'
<1>1. /\ tabs' = [tabs EXCEPT ![t].form = NoForm]
      /\ UNCHANGED <<rows, idem, replay, phase, api, entered, copies, proof, sent, composed, runs,
                     applied, purged>>
  BY DEF Answered, journal, maintenance
<1>2. tabs \in [Tabs -> [epoch : Epochs \cup {Unknown}, form : Keys \cup {NoForm}]]
  BY DEF ResetInv, TypeOK
<1>3. TypeOK'
  BY <1>1, <1>2 DEF ResetInv, TypeOK
<1>4. FormsKnowTheirs'
  BY <1>1, <1>2 DEF ResetInv, FormsKnowTheirs
<1>5. KnownEpochs'
  BY <1>1, <1>2, JournalKept DEF ResetInv, KnownEpochs
<1>6. KeysOnce'
  BY <1>1 DEF ResetInv, KeysOnce, KeysInv
<1> QED BY <1>1, <1>3, <1>4, <1>5, <1>6, ServicesKept DEF ResetInv

LEMMA SendKeptKeeps ==
    ASSUME ResetProtocolAssumption, ResetInv, NEW k \in Keys, SendKept(k)
    PROVE  ResetInv'
<1> DEFINE m == [key |-> k, epoch |-> api]
<1>1. /\ k \in KeptKeys /\ api # Down /\ sent' = sent \cup {m}
      /\ UNCHANGED <<rows, idem, replay, phase, api, entered, copies, proof, tabs, composed, runs,
                     applied, purged>>
  BY DEF SendKept, journal, maintenance
<1>2. m \in [key : Keys, epoch : Epochs]
  BY <1>1 DEF ResetInv, TypeOK
<1> HIDE DEF m
<1>3. TypeOK'
  BY <1>1, <1>2 DEF ResetInv, TypeOK
<1>4. FormsKnowTheirs'
  BY <1>1 DEF ResetInv, FormsKnowTheirs
<1>5. KnownEpochs'
  BY <1>1, JournalKept DEF ResetInv, KnownEpochs
<1>6. KeysOnce'
  BY <1>1 DEF KeysOnce
<1> QED BY <1>1, <1>3, <1>4, <1>5, <1>6, ServicesKept DEF ResetInv

\* A write is let in when it was composed in the epoch that is served; before
\* the first reset there is no other.
LEMMA ExecuteKeeps ==
    ASSUME ResetProtocolAssumption, ResetInv, NEW m \in sent, Execute(m)
    PROVE  ResetInv'
<1> DEFINE k == m.key
<1>1. /\ api # Down /\ Admitted(m) /\ Stored(k) \notin idem
      /\ rows' = rows \cup {k} /\ idem' = idem \cup {Stored(k)}
      /\ runs' = [runs EXCEPT ![k] = @ + 1]
      /\ UNCHANGED <<replay, phase, api, entered, copies, proof, tabs, sent, composed,
                     applied, purged>>
  BY DEF Execute, journal, maintenance, clients
<1>2. k \in Keys /\ m.epoch \in Epochs
  BY DEF ResetInv, TypeOK
<1>3. api = applied
  BY <1>1 DEF ResetInv, Serving
<1> HIDE DEF k
<1>4. TypeOK'
  BY <1>1, <1>2 DEF ResetInv, TypeOK
<1>5. FormsKnowTheirs'
  BY <1>1 DEF ResetInv, FormsKnowTheirs
<1>6. KnownEpochs'
  BY <1>1, JournalKept DEF ResetInv, KnownEpochs
<1>7. KeysOnce'
  <2>1. SUFFICES ASSUME KeptKeys = {} PROVE KeysInv'
    BY DEF KeysOnce
  <2>2. KeysInv /\ runs \in [Keys -> Nat]
    BY <2>1 DEF ResetInv, KeysOnce, TypeOK
  <2>3. composed[k] = m.epoch
    BY <2>2 DEF KeysInv, k
  <2>4. composed[k] = applied
    <3>1. CASE api = 0
      <4>1. Journaled = {}
        BY <1>3, <3>1 DEF ResetInv, Latest
      <4>2. composed[k] \in {0, Unknown}
        BY <1>2, <4>1 DEF ResetInv, KnownEpochs
      <4> QED BY <1>2, <1>3, <2>3, <3>1, <4>2, ZeroIsNoOperation
    <3>2. CASE api # 0
      BY <1>1, <1>3, <2>3, <3>2 DEF Admitted
    <3> QED BY <3>1, <3>2
  <2>5. runs[k] = 0
    BY <1>1, <1>2, <2>2, <2>4 DEF KeysInv
  <2>6. runs'[k] = 1 /\ \A j \in Keys : j # k => runs'[j] = runs[j]
    BY <1>1, <1>2, <2>2, <2>5
  <2>7. composed[k] # Unknown
    BY <1>2, <2>3, ZeroIsNoOperation
  <2>8. \A j \in Keys : runs'[j] <= 1 /\ (runs'[j] > 0 => composed'[j] # Unknown)
    BY <1>1, <2>2, <2>6, <2>7 DEF KeysInv
  <2>9. \A j \in Keys : runs'[j] > 0 /\ composed'[j] = applied' => Stored(j) \in idem'
    BY <1>1, <2>2, <2>6 DEF KeysInv
  <2>10. \A j \in rows' : composed'[j] = applied'
    BY <1>1, <2>2, <2>4 DEF KeysInv
  <2> QED BY <1>1, <2>2, <2>8, <2>9, <2>10 DEF KeysInv
<1> QED BY <1>1, <1>4, <1>5, <1>6, <1>7, ServicesKept DEF ResetInv

-----------------------------------------------------------------------------
(* Maintenance.                                                            *)

\* Maintenance leaves tabs, requests and keys alone; what they rely on is
\* that no operation leaves the journal.
LEMMA ClientsKept ==
    ASSUME ResetInv, UNCHANGED <<tabs, composed>>, Journaled \subseteq Journaled'
    PROVE  FormsKnowTheirs' /\ KnownEpochs'
BY DEF ResetInv, FormsKnowTheirs, KnownEpochs

LEMMA KeysKept ==
    ASSUME ResetInv, UNCHANGED <<rows, idem, sent, composed, runs, applied>>
    PROVE  KeysOnce'
BY DEF ResetInv, KeysOnce, KeysInv

LEMMA EnterKeeps ==
    ASSUME ResetProtocolAssumption, ResetInv, NEW o \in Ops, Enter(o)
    PROVE  ResetInv'
<1>1. /\ entered = 0 /\ entered' = o /\ api' = Down
      /\ UNCHANGED <<rows, idem, replay, phase, copies, proof, tabs, sent, composed, runs,
                     applied, purged>>
  BY DEF Enter, clients, journal
<1>2. TypeOK'
  BY <1>1 DEF ResetInv, TypeOK
<1>3. \A p \in Ops : phase[p] \notin {"DATABASE_COMMITTED", "VERIFIED"}
  BY <1>1, ZeroIsNoOperation DEF ResetInv, Closed
<1>4. Serving' /\ Closed'
  BY <1>1, <1>3 DEF Serving, Closed
<1> QED BY <1>1, <1>2, <1>4, JournalKept, ClientsKept, KeysKept DEF ResetInv

LEMMA ProveBackupKeeps ==
    ASSUME ResetProtocolAssumption, ResetInv, NEW o \in Ops, ProveBackup(o)
    PROVE  ResetInv'
<1>1. /\ copies' = copies \cup {rows} /\ proof' = [proof EXCEPT ![o] = {rows}]
      /\ UNCHANGED <<rows, idem, replay, phase, api, entered, tabs, sent, composed, runs,
                     applied, purged>>
  BY DEF ProveBackup, clients, journal
<1>2. TypeOK'
  BY <1>1 DEF ResetInv, TypeOK
<1> QED BY <1>1, <1>2, JournalKept, ServicesKept, ClientsKept, KeysKept DEF ResetInv

LEMMA PlanKeeps ==
    ASSUME ResetProtocolAssumption, ResetInv, NEW o \in Ops, Plan(o)
    PROVE  ResetInv'
<1>1. UNCHANGED <<rows, idem, replay, phase, api, entered, copies, proof, tabs, sent, composed,
                  runs, applied, purged>>
  BY DEF Plan, clients, maintenance
<1>2. TypeOK'
  BY <1>1 DEF ResetInv, TypeOK
<1> QED BY <1>1, <1>2, JournalKept, ServicesKept, ClientsKept, KeysKept DEF ResetInv

\* The review lets an operation through when all others are complete and
\* earlier: it is the latest from now on, and no key was composed in it.
LEMMA ApplyKeeps ==
    ASSUME ResetProtocolAssumption, ResetInv, NEW o \in Ops, Apply(o)
    PROVE  ResetInv'
<1>1. /\ entered = o /\ api = Down /\ phase[o] = "none" /\ PreviousIssues(o) = {}
      /\ rows' = {} /\ idem' = {} /\ replay' = replay \cup idem
      /\ phase' = [phase EXCEPT ![o] = "DATABASE_COMMITTED"]
      /\ applied' = o /\ purged' = [purged EXCEPT ![o] = rows]
      /\ UNCHANGED <<api, entered, copies, proof, tabs, sent, composed, runs>>
  BY DEF Apply, Quiet, Applicable, clients, maintenance
<1>2. phase \in [Ops -> Phases]
  BY DEF ResetInv, TypeOK
<1>3. TypeOK'
  BY <1>1, <1>2 DEF ResetInv, TypeOK, Phases, Epochs
<1>4. phase'[o] = "DATABASE_COMMITTED" /\ \A p \in Ops : p # o => phase'[p] = phase[p]
  BY <1>1, <1>2
<1>5. Journaled' = Journaled \cup {o} /\ o \notin Journaled
  BY <1>1, <1>4 DEF Journaled
<1>6. \A p \in Journaled : p # o /\ phase[p] = "COMPLETE" /\ ~(Cutoff[p] >= Cutoff[o])
  BY <1>1, <1>5 DEF PreviousIssues
<1>7. \A p \in Ops : p # o => phase'[p] \in {"none", "COMPLETE"}
  BY <1>4, <1>6 DEF Journaled
<1>8. Latest'
  <2>1. \A p \in Ops : Cutoff[p] \in Nat
    BY DEF ResetProtocolAssumption
  <2>2. \A p \in Journaled' : Cutoff[p] <= Cutoff[o]
    BY <1>5, <1>6, <2>1 DEF Journaled
  <2> QED BY <1>1, <1>5, <2>2, ZeroIsNoOperation DEF Latest
<1>9. Serving' /\ Closed' /\ OneAtATime'
  BY <1>1, <1>4, <1>7 DEF Serving, Closed, OneAtATime
<1>10. FormsKnowTheirs' /\ KnownEpochs'
  BY <1>1, <1>5, ClientsKept
<1>11. KeysOnce'
  <2>1. SUFFICES ASSUME KeptKeys = {} PROVE KeysInv'
    BY DEF KeysOnce
  <2>2. KeysInv
    BY <2>1 DEF ResetInv, KeysOnce
  <2>3. \A k \in Keys : composed[k] # o
    BY <1>5, ZeroIsNoOperation DEF ResetInv, KnownEpochs, Epochs
  <2> QED BY <1>1, <2>2, <2>3 DEF KeysInv
<1> QED BY <1>3, <1>8, <1>9, <1>10, <1>11 DEF ResetInv

\* Past the commit an operation only moves on in the journal.
LEMMA JournalMoves ==
    ASSUME ResetProtocolAssumption, ResetInv, NEW o \in Ops,
           NEW from \in SUBSET (Phases \ {"none", "COMPLETE"}), NEW to \in Phases \ {"none"}, Moves(o, from, to)
    PROVE  /\ phase' \in [Ops -> Phases] /\ phase'[o] = to
           /\ \A p \in Ops : p # o => phase'[p] = phase[p]
           /\ Journaled' = Journaled
           /\ Latest' /\ OneAtATime'
<1>1. /\ phase[o] \in Phases \ {"none", "COMPLETE"} /\ phase' = [phase EXCEPT ![o] = to]
      /\ applied' = applied
  BY DEF Moves
<1>2. phase \in [Ops -> Phases]
  BY DEF ResetInv, TypeOK
<1>3. /\ phase' \in [Ops -> Phases] /\ phase'[o] = to
      /\ \A p \in Ops : p # o => phase'[p] = phase[p]
  BY <1>1, <1>2
<1>4. Journaled' = Journaled
  BY <1>1, <1>3 DEF Journaled
<1>5. Latest'
  BY <1>1, <1>4 DEF ResetInv, Latest
<1>6. \A p \in Ops : p # o => phase[p] \in {"none", "COMPLETE"}
  BY <1>1 DEF ResetInv, OneAtATime
<1>7. OneAtATime'
  BY <1>3, <1>6 DEF OneAtATime
<1> QED BY <1>3, <1>4, <1>5, <1>7

LEMMA VerifyKeeps ==
    ASSUME ResetProtocolAssumption, ResetInv, NEW o \in Ops, Verify(o)
    PROVE  ResetInv'
<1>1. /\ phase[o] = "DATABASE_COMMITTED" /\ Moves(o, {"DATABASE_COMMITTED"}, "VERIFIED")
      /\ UNCHANGED <<rows, idem, replay, api, entered, copies, proof, tabs, sent, composed, runs,
                     applied, purged>>
  BY DEF Verify, Moves, clients, maintenance
<1>2. /\ phase' \in [Ops -> Phases] /\ phase'[o] = "VERIFIED"
      /\ \A p \in Ops : p # o => phase'[p] = phase[p]
      /\ Journaled' = Journaled /\ Latest' /\ OneAtATime'
  BY <1>1, JournalMoves DEF Phases
<1>3. TypeOK'
  BY <1>1, <1>2 DEF ResetInv, TypeOK
<1>4. Serving' /\ Closed'
  BY <1>1, <1>2 DEF ResetInv, Serving, Closed
<1> QED BY <1>1, <1>2, <1>3, <1>4, ClientsKept, KeysKept DEF ResetInv

LEMMA SecureBackupsKeeps ==
    ASSUME ResetProtocolAssumption, ResetInv, NEW o \in Ops, SecureBackups(o)
    PROVE  ResetInv'
<1>1. /\ Moves(o, {"VERIFIED"}, "BACKUPS")
      /\ copies' \subseteq copies \cup {rows}
      /\ UNCHANGED <<rows, idem, replay, api, entered, proof, tabs, sent, composed, runs,
                     applied, purged>>
  BY DEF SecureBackups, Moves, clients
<1>2. /\ phase' \in [Ops -> Phases] /\ phase'[o] = "BACKUPS"
      /\ \A p \in Ops : p # o => phase'[p] = phase[p]
      /\ Journaled' = Journaled /\ Latest' /\ OneAtATime'
  BY <1>1, JournalMoves DEF Phases
<1>3. TypeOK'
  BY <1>1, <1>2 DEF ResetInv, TypeOK
<1>4. Serving' /\ Closed'
  BY <1>1, <1>2 DEF ResetInv, Serving, Closed
<1> QED BY <1>1, <1>2, <1>3, <1>4, ClientsKept, KeysKept DEF ResetInv

LEMMA CompleteKeeps ==
    ASSUME ResetProtocolAssumption, ResetInv, NEW o \in Ops, Complete(o)
    PROVE  ResetInv'
<1>1. /\ Moves(o, {"BACKUPS"}, "COMPLETE")
      /\ UNCHANGED <<rows, idem, replay, api, entered, copies, proof, tabs, sent, composed, runs,
                     applied, purged>>
  BY DEF Complete, Moves, clients, maintenance
<1>2. /\ phase' \in [Ops -> Phases] /\ phase'[o] = "COMPLETE"
      /\ \A p \in Ops : p # o => phase'[p] = phase[p]
      /\ Journaled' = Journaled /\ Latest' /\ OneAtATime'
  BY <1>1, JournalMoves DEF Phases
<1>3. TypeOK'
  BY <1>1, <1>2 DEF ResetInv, TypeOK
<1>4. Serving' /\ Closed'
  BY <1>1, <1>2 DEF ResetInv, Serving, Closed
<1> QED BY <1>1, <1>2, <1>3, <1>4, ClientsKept, KeysKept DEF ResetInv

\* The services come back in the epoch of the operation applied last, once no
\* operation is between its commit and its backups.
LEMMA ReturnKeeps ==
    ASSUME ResetProtocolAssumption, ResetInv, NEW o \in Ops, Leave(o) \/ Resume(o)
    PROVE  ResetInv'
<1>1. /\ entered = o /\ phase[o] \notin {"DATABASE_COMMITTED", "VERIFIED"}
      /\ entered' = 0 /\ api' = Epoch
      /\ UNCHANGED <<rows, idem, replay, phase, copies, proof, tabs, sent, composed, runs,
                     applied, purged>>
  BY DEF Leave, Resume, Quiet, clients, journal
<1>2. Epoch = applied
  BY EpochIsLatest DEF ResetInv
<1>3. TypeOK'
  BY <1>1, <1>2 DEF ResetInv, TypeOK
<1>4. \A p \in Ops : phase[p] \notin {"DATABASE_COMMITTED", "VERIFIED"}
  BY <1>1 DEF ResetInv, Closed
<1>5. Serving' /\ Closed'
  BY <1>1, <1>2, <1>4 DEF Serving, Closed
<1> QED BY <1>1, <1>3, <1>5, JournalKept, ClientsKept, KeysKept DEF ResetInv

LEMMA StepKeepsReset ==
    ASSUME ResetProtocolAssumption, ResetInv, [Next]_vars
    PROVE  ResetInv'
<1>1. CASE Next
  <2>1. CASE \E t \in Tabs : Hear(t) \/ Send(t) \/ Answered(t) \/ \E k \in Keys : Compose(t, k)
    BY <2>1, HearKeeps, SendKeeps, AnsweredKeeps, ComposeKeeps
  <2>2. CASE \E k \in Keys : SendKept(k)
    BY <2>2, SendKeptKeeps
  <2>3. CASE \E msg \in sent : Execute(msg)
    BY <2>3, ExecuteKeeps
  <2>4. ASSUME NEW o \in Ops,
               \/ Enter(o) \/ ProveBackup(o) \/ Plan(o) \/ Apply(o) \/ Verify(o)
               \/ SecureBackups(o) \/ Leave(o) \/ Complete(o) \/ Resume(o)
        PROVE  ResetInv'
    BY <2>4, EnterKeeps, ProveBackupKeeps, PlanKeeps, ApplyKeeps, VerifyKeeps,
       SecureBackupsKeeps, CompleteKeeps, ReturnKeeps
  <2> QED BY <1>1, <2>1, <2>2, <2>3, <2>4 DEF Next
<1>2. CASE UNCHANGED vars
  <2>1. UNCHANGED <<rows, idem, replay, phase, api, entered, copies, proof, tabs, sent, composed,
                    runs, applied, purged>>
    BY <1>2 DEF vars
  <2>2. TypeOK'
    BY <2>1 DEF ResetInv, TypeOK
  <2> QED BY <2>1, <2>2, JournalKept, ServicesKept, ClientsKept, KeysKept DEF ResetInv
<1> QED BY <1>1, <1>2

-----------------------------------------------------------------------------
(* What it shows.                                                          *)

LEMMA ResetAlways ==
    ASSUME ResetProtocolAssumption
    PROVE  Spec => []ResetInv
<1>1. Init => ResetInv
  BY InitReset
<1>2. ResetInv /\ [Next]_vars => ResetInv'
  BY StepKeepsReset
<1> QED BY <1>1, <1>2, PTL DEF Spec

LEMMA WhatResetKeeps ==
    ASSUME ResetProtocolAssumption, ResetInv
    PROVE  ResetKept
<1>1. Epoch = applied
  BY EpochIsLatest DEF ResetInv
<1>2. OldFormsNeverApplied
  BY <1>1 DEF ResetInv, KeysOnce, KeysInv, OldFormsNeverApplied
<1>3. KeyRunsOnce
  BY DEF ResetInv, KeysOnce, KeysInv, KeyRunsOnce
<1>4. EpochIsLastApplied
  BY <1>1 DEF ResetInv, Serving, EpochIsLastApplied
<1>5. PurgedStaysEmpty
  BY DEF ResetInv, Closed, PurgedStaysEmpty
<1> QED BY <1>2, <1>3, <1>4, <1>5 DEF ResetInv, ResetKept

\* Resets are clean: the types, and the five invariants that follow.
THEOREM ResetStaysClean ==
    ASSUME ResetProtocolAssumption
    PROVE  Spec => []ResetKept
<1>1. ResetInv => ResetKept
  BY WhatResetKeeps
<1> QED BY <1>1, ResetAlways, PTL

\* A write composed before a reset is never in the data that follows it,
\* however long it was on its way (the onRequest hook of app.ts).
THEOREM OldFormsStayOut ==
    ASSUME ResetProtocolAssumption
    PROVE  Spec => []OldFormsNeverApplied
<1>1. ResetKept => OldFormsNeverApplied
  BY DEF ResetKept
<1> QED BY <1>1, ResetStaysClean, PTL

\* A command runs once, over any number of resets.
THEOREM CommandsRunOnce ==
    ASSUME ResetProtocolAssumption
    PROVE  Spec => []KeyRunsOnce
<1>1. ResetKept => KeyRunsOnce
  BY DEF ResetKept
<1> QED BY <1>1, ResetStaysClean, PTL

\* The services serve the epoch that was applied last, operations follow one
\* another, and nobody writes between a purge and its backups.
THEOREM ServicesFollowJournal ==
    ASSUME ResetProtocolAssumption
    PROVE  Spec => [](EpochIsLastApplied /\ OneAtATime /\ PurgedStaysEmpty)
<1>1. ResetKept => EpochIsLastApplied /\ OneAtATime /\ PurgedStaysEmpty
  BY DEF ResetKept
<1> QED BY <1>1, ResetStaysClean, PTL

\* A purge removes exactly what a review has seen.
THEOREM PurgesAreReviewed ==
    ASSUME ResetProtocolAssumption
    PROVE  Spec => [][OnlyReviewedIsPurged]_vars
<1>1. ResetInv /\ [Next]_vars => [OnlyReviewedIsPurged]_vars
  <2>1. SUFFICES ASSUME ResetInv, Next, rows \ rows' # {}
                 PROVE  \E o \in Ops : \E m \in manifest[o] : m.rows = rows /\ m.review = {}
    BY DEF OnlyReviewedIsPurged
  <2>2. PICK o \in Ops : Apply(o)
    BY <2>1 DEF Next, Hear, Send, Answered, Compose, SendKept, Execute, Enter, ProveBackup, Plan,
       Verify, SecureBackups, Leave, Complete, Resume
  <2>3. Planned(o) \in manifest[o] /\ PreviousIssues(o) = {}
    BY <2>2 DEF Apply, Applicable
  <2> QED BY <2>3 DEF Planned
<1> QED BY <1>1, ResetAlways, PTL DEF Spec

-----------------------------------------------------------------------------
(* Recovery.                                                               *)

\* Nobody writes between the proof of a backup and the purge.
ProofIsCurrent ==
    \A o \in Retain : phase[o] = "none" /\ proof[o] # {} => entered = o /\ proof[o] = {rows}

RecoveryInv == RecoveryCopyKept /\ ProofIsCurrent

LEMMA StepKeepsCopies ==
    ASSUME ResetProtocolAssumption, Retain = Ops, ~ByHand, ResetInv, RecoveryInv, [Next]_vars
    PROVE  RecoveryInv'
<1> USE DEF RecoveryInv, RecoveryCopyKept, ProofIsCurrent
<1>1. /\ phase \in [Ops -> Phases] /\ proof \in [Ops -> SUBSET SUBSET Keys]
      /\ purged \in [Ops -> SUBSET Keys]
  BY DEF ResetInv, TypeOK
<1>2. CASE UNCHANGED <<phase, proof, purged, copies, entered, rows>>
  BY <1>2
<1>3. ASSUME NEW m \in sent, Execute(m) PROVE RecoveryInv'
  <2>1. entered = 0 /\ UNCHANGED <<phase, proof, purged, copies>>
    BY <1>3 DEF Execute, ResetInv, Closed, journal, maintenance
  <2> QED BY <2>1, ZeroIsNoOperation
<1>4. ASSUME NEW o \in Ops, Enter(o) PROVE RecoveryInv'
  BY <1>4, ZeroIsNoOperation DEF Enter, journal
<1>5. ASSUME NEW o \in Ops, ProveBackup(o) PROVE RecoveryInv'
  BY <1>1, <1>5 DEF ProveBackup, Quiet, journal
<1>6. ASSUME NEW o \in Ops, Apply(o) PROVE RecoveryInv'
  <2>1. /\ entered = o /\ phase[o] = "none" /\ proof[o] # {} /\ proof[o] \subseteq copies
        /\ phase' = [phase EXCEPT ![o] = "DATABASE_COMMITTED"]
        /\ purged' = [purged EXCEPT ![o] = rows] /\ UNCHANGED <<entered, copies, proof>>
    BY <1>6 DEF Apply, Quiet, Proven, Applicable, maintenance
  <2>2. rows \in copies
    BY <2>1
  <2>3. RecoveryCopyKept'
    BY <1>1, <2>1, <2>2
  <2>4. \A p \in Retain : p # o => ~(phase[p] = "none" /\ proof[p] # {})
    BY <2>1
  <2>5. ProofIsCurrent'
    BY <1>1, <2>1, <2>4
  <2> QED BY <2>3, <2>5
<1>7. ASSUME NEW o \in Ops, NEW from \in SUBSET (Phases \ {"none"}), NEW to \in Phases \ {"none"},
             Moves(o, from, to), copies \subseteq copies', UNCHANGED <<rows, entered, proof>>
      PROVE  RecoveryInv'
  BY <1>1, <1>7 DEF Moves
<1>8. ASSUME NEW o \in Ops, Leave(o) PROVE RecoveryInv'
  <2>1. /\ entered = o /\ phase[o] # "none"
        /\ UNCHANGED <<phase, proof, purged, copies>>
    BY <1>8 DEF Leave, Quiet, journal
  <2> QED BY <2>1
<1>9. CASE Next
  <2>1. CASE \E t \in Tabs : Hear(t) \/ Send(t) \/ Answered(t) \/ \E k \in Keys : Compose(t, k)
    BY <1>2, <2>1 DEF Hear, Send, Answered, Compose, journal, maintenance
  <2>2. CASE \E k \in Keys : SendKept(k)
    BY <1>2, <2>2 DEF SendKept, journal, maintenance
  <2>3. ASSUME NEW o \in Ops, Plan(o) PROVE RecoveryInv'
    BY <1>2, <2>3 DEF Plan, maintenance
  <2>4. ASSUME NEW o \in Ops, Verify(o) \/ Complete(o) PROVE RecoveryInv'
    BY <1>7, <2>4 DEF Verify, Complete, maintenance, Phases
  <2>5. ASSUME NEW o \in Ops, SecureBackups(o) PROVE RecoveryInv'
    BY <1>7, <2>5 DEF SecureBackups, Phases
  <2>6. ASSUME NEW o \in Ops, Resume(o) PROVE FALSE
    BY <2>6 DEF Resume
  <2> QED BY <1>3, <1>4, <1>5, <1>6, <1>8, <1>9, <2>1, <2>2, <2>3, <2>4, <2>5, <2>6 DEF Next
<1> QED BY <1>2, <1>9 DEF vars

\* When every operation retains its backups and nobody starts the services by
\* hand, a backup holds what each operation removed.
THEOREM RecoveryCopiesStay ==
    ASSUME ResetProtocolAssumption, Retain = Ops, ~ByHand
    PROVE  Spec => []RecoveryCopyKept
<1>1. Init => RecoveryInv
  BY DEF Init, RecoveryInv, RecoveryCopyKept, ProofIsCurrent, ResetProtocolAssumption
<1>2. ResetInv /\ RecoveryInv /\ [Next]_vars => RecoveryInv'
  BY StepKeepsCopies
<1>3. RecoveryInv => RecoveryCopyKept
  BY DEF RecoveryInv
<1> QED BY <1>1, <1>2, <1>3, ResetAlways, PTL DEF Spec
=============================================================================
