------------------------------ MODULE TillSync ------------------------------
(***************************************************************************)
(* How the figures of the tills (IDOSI) reach the stock of the stores: the *)
(* worker polls on its own schedule, a manager asks at any moment, and     *)
(* both record what was answered after the request, outside of which the   *)
(* figures go on changing.  StoreBags and StoreSorting model what one      *)
(* recorded report does to the stock; here a report is the version of the  *)
(* till it shows.                                                          *)
(*                                                                         *)
(* Time is what the scheduler tells apart: the age of the last attempt of  *)
(* a store and month, in polls, and the phase of the calendar.  Phase 2m   *)
(* is the grace days of month m, phase 2m+1 the rest of the month.         *)
(***************************************************************************)
EXTENDS QuantitySums, Sequences

CONSTANTS Stores,       \* the active retail stores, in the order of their codes: naturals
          Managers,     \* people who may ask for a sync by hand
          LastMonth,    \* months are 0 .. LastMonth
          Interval,     \* polls between two attempts of a store and month
          MaxStores,    \* maxStoresPerTick
          MaxVersion,   \* the till changes at most this often per store and month
          MaxCrashes    \* restarts of the worker

TillSyncAssumption ==
    /\ Stores \subseteq Nat /\ IsFiniteSet(Stores)
    /\ LastMonth \in Nat /\ Interval \in Nat \ {0}
    /\ MaxStores \in Nat \ {0} /\ MaxVersion \in Nat /\ MaxCrashes \in Nat

VARIABLES phase,      \* of the calendar
          polled,     \* the worker polled in this phase
          till,       \* the version of the figures at IDOSI, per store and month
          closing,    \* till when the month ended (-1 before)
          charged,    \* the version the snapshot holds and the stock follows (-1: none)
          age,        \* polls since the last attempt completed (Interval: due)
          settled,    \* the phase the last success completed in (-1: none)
          targets,    \* what the running tick of the worker has still to sync
          calls,      \* the requests under way, by who made them
          crashes

vars == <<phase, polled, till, closing, charged, age, settled, targets, calls, crashes>>

\* Mutant of SettledAfter: a success in the grace days settles the month.
SettledAfterMonth(m) == 2 * (m + 1)

Worker == "worker"
Callers == Managers \cup {Worker}
Months == 0 .. LastMonth
Month == phase \div 2
Grace == phase % 2 = 0
SettledAfter(m) == 2 * (m + 1) + 1

NoCall == [at |-> "none", store |-> 0, month |-> 0, version |-> -1, since |-> 0]

TypeOK ==
    /\ phase \in 0 .. 2 * LastMonth + 1 /\ polled \in BOOLEAN
    /\ till \in [Stores -> [Months -> 0 .. MaxVersion]]
    /\ closing \in [Stores -> [Months -> -1 .. MaxVersion]]
    /\ charged \in [Stores -> [Months -> -1 .. MaxVersion]]
    /\ age \in [Stores -> [Months -> 0 .. Interval]]
    /\ settled \in [Stores -> [Months -> -1 .. 2 * LastMonth + 1]]
    /\ targets \in Seq(Stores \X Months) /\ Len(targets) <= MaxStores
    /\ calls \in [Callers -> {NoCall} \cup
          [at : {"asking", "answered", "refused"}, store : Stores, month : Months,
           version : -1 .. MaxVersion, since : 0 .. 2 * LastMonth + 1]]
    /\ crashes \in 0 .. MaxCrashes

Everywhere(x) == [s \in Stores |-> [m \in Months |-> x]]

Init ==
    /\ phase = 1 /\ polled = FALSE
    /\ till = Everywhere(0) /\ closing = Everywhere(-1)
    /\ charged = Everywhere(-1) /\ age = Everywhere(Interval) /\ settled = Everywhere(-1)
    /\ targets = <<>> /\ calls = [c \in Callers |-> NoCall] /\ crashes = 0

-----------------------------------------------------------------------------
(* The tills and the calendar. *)

\* A sale, or a correction of a month that may already be over.
Sell(s, m) ==
    /\ m <= Month /\ till[s][m] < MaxVersion
    /\ till' = [till EXCEPT ![s][m] = @ + 1]
    /\ UNCHANGED <<phase, polled, closing, charged, age, settled, targets, calls, crashes>>

\* A phase lasts days: the worker polls in it, and a request, given up after
\* 15 seconds, meets the end of one phase at most.
Advance ==
    /\ phase < 2 * LastMonth + 1 /\ polled
    /\ \A c \in Callers : calls[c] # NoCall => calls[c].since = phase
    /\ phase' = phase + 1 /\ polled' = FALSE
    /\ closing' = [s \in Stores |->
           [m \in Months |-> IF phase = 2 * m + 1 THEN till[s][m] ELSE closing[s][m]]]
    /\ UNCHANGED <<till, charged, age, settled, targets, calls, crashes>>

-----------------------------------------------------------------------------
(* The worker chooses its targets. *)

DueBefore(ages, s, m) == ages[s][m] = Interval

\* The first stores by code, limit at most, to be asked about month m.
Place(S, s) == Cardinality({r \in S : r <= s})
FirstByCode(S, m, limit) ==
    [i \in 1 .. Lesser(limit, Cardinality(S)) |-> <<CHOOSE s \in S : Place(S, s) = i, m>>]

\* Stores whose last attempt is an interval old, the first ones by code.
ListDue(ages, m, limit) == FirstByCode({s \in Stores : DueBefore(ages, s, m)}, m, limit)

\* Stores whose month is over and had no success since the grace days ended.
ListClosing(ages, m, limit) ==
    FirstByCode({s \in Stores : settled[s][m] < SettledAfter(m) /\ DueBefore(ages, s, m)},
                m, limit)

\* This month; in its grace days also the month before; afterwards the month
\* before only where it did not settle, and only with the room that is left.
TickTargets(ages) ==
    LET now == ListDue(ages, Month, MaxStores)
        room == MaxStores - Len(now)
    IN  now \o (IF room = 0 \/ Month = 0 THEN <<>>
                ELSE IF Grace THEN ListDue(ages, Month - 1, room)
                ELSE ListClosing(ages, Month - 1, room))

Aged == [s \in Stores |-> [m \in Months |-> Lesser(age[s][m] + 1, Interval)]]

Tick ==
    /\ targets = <<>> /\ calls[Worker] = NoCall
    /\ age' = Aged
    /\ targets' = TickTargets(Aged) /\ polled' = TRUE
    /\ UNCHANGED <<phase, till, closing, charged, settled, calls, crashes>>

-----------------------------------------------------------------------------
(* A request and its record. *)

Ask(c, s, m) ==
    /\ calls[c] = NoCall
    /\ calls' = [calls EXCEPT ![c] =
           [at |-> "asking", store |-> s, month |-> m, version |-> -1, since |-> phase]]
    /\ UNCHANGED <<phase, polled, till, closing, charged, age, settled, crashes>>

AskNext ==
    /\ targets # <<>>
    /\ Ask(Worker, Head(targets)[1], Head(targets)[2])
    /\ targets' = Tail(targets)

AskByHand(c, s, m) ==
    /\ c \in Managers /\ m <= Month
    /\ Ask(c, s, m) /\ UNCHANGED targets

Answer(c) ==
    /\ calls[c].at = "asking"
    /\ calls' = [calls EXCEPT ![c].at = "answered",
                              ![c].version = till[calls[c].store][calls[c].month]]
    /\ UNCHANGED <<phase, polled, till, closing, charged, age, settled, targets, crashes>>

Refuse(c) ==
    /\ calls[c].at = "asking"
    /\ calls' = [calls EXCEPT ![c].at = "refused"]
    /\ UNCHANGED <<phase, polled, till, closing, charged, age, settled, targets, crashes>>

\* Mutant of Followed: the last answer to be recorded wins.
FollowedLast(s, m, v) == v

\* The figures the stock follows once version v is recorded: an answer older
\* than the one recorded before is kept as an attempt and changes nothing.
Followed(s, m, v) == IF v >= charged[s][m] THEN v ELSE charged[s][m]

SettledAt(c) == phase

RecordSuccess(c) ==
    /\ calls[c].at = "answered"
    /\ LET s == calls[c].store
           m == calls[c].month
       IN  /\ charged' = [charged EXCEPT ![s][m] = Followed(s, m, calls[c].version)]
           /\ age' = [age EXCEPT ![s][m] = 0]
           /\ settled' = [settled EXCEPT ![s][m] = SettledAt(c)]
    /\ calls' = [calls EXCEPT ![c] = NoCall]
    /\ UNCHANGED <<phase, polled, till, closing, targets, crashes>>

\* The transaction fails: the worker records a failed attempt instead, a
\* request by hand ends with an error and leaves nothing.
RecordFails(c) ==
    /\ calls[c].at = "answered"
    /\ calls' = [calls EXCEPT ![c] = IF c = Worker THEN [@ EXCEPT !.at = "refused"] ELSE NoCall]
    /\ UNCHANGED <<phase, polled, till, closing, charged, age, settled, targets, crashes>>

RecordFailure(c) ==
    /\ calls[c].at = "refused"
    /\ age' = [age EXCEPT ![calls[c].store][calls[c].month] = 0]
    /\ calls' = [calls EXCEPT ![c] = NoCall]
    /\ UNCHANGED <<phase, polled, till, closing, charged, settled, targets, crashes>>

\* Not even the failure can be recorded: the rest of the tick is given up.
AbandonTick ==
    /\ calls[Worker].at = "refused"
    /\ calls' = [calls EXCEPT ![Worker] = NoCall]
    /\ targets' = <<>>
    /\ UNCHANGED <<phase, polled, till, closing, charged, age, settled, crashes>>

Crash ==
    /\ crashes < MaxCrashes /\ crashes' = crashes + 1
    /\ targets' = <<>> /\ calls' = [calls EXCEPT ![Worker] = NoCall]
    /\ UNCHANGED <<phase, polled, till, closing, charged, age, settled>>

Next ==
    \/ Advance \/ Tick \/ AskNext \/ AbandonTick \/ Crash
    \/ \E s \in Stores, m \in Months : Sell(s, m)
    \/ \E c \in Managers, s \in Stores, m \in Months : AskByHand(c, s, m)
    \/ \E c \in Callers :
          \/ Answer(c) \/ Refuse(c)
          \/ RecordSuccess(c) \/ RecordFails(c) \/ RecordFailure(c)

Spec == Init /\ [][Next]_vars

-----------------------------------------------------------------------------
(* Safety. *)

\* Whoever asked and in whatever order the answers are recorded, the stock
\* never goes back to older figures of a store and month.
FiguresNeverGoBack ==
    \A s \in Stores, m \in Months : charged'[s][m] >= charged[s][m]

\* A recorded success means the stock follows at least what was answered: a
\* manager who synced never sees figures older than the answer.
AnswerReachesStock ==
    \A c \in Callers : RecordSuccess(c) =>
       charged'[calls[c].store][calls[c].month] >= calls[c].version

\* A month the scheduler no longer lists as closing holds every sale rung up
\* before the month ended.
ClosedMonthComplete ==
    \A s \in Stores, m \in Months :
        settled[s][m] >= SettledAfter(m) => charged[s][m] >= closing[s][m]

-----------------------------------------------------------------------------
(* Liveness: the worker polls and records; the till answers, and the       *)
(* database commits, again and again when asked again and again.           *)

WorkerOn(s, m) == calls[Worker].store = s /\ calls[Worker].month = m

Fairness ==
    /\ WF_vars(Tick) /\ WF_vars(AskNext)
    /\ WF_vars(Answer(Worker) \/ Refuse(Worker))
    /\ WF_vars(RecordSuccess(Worker) \/ RecordFails(Worker))
    /\ WF_vars(RecordFailure(Worker) \/ AbandonTick)
    /\ \A s \in Stores, m \in Months :
          /\ SF_vars(WorkerOn(s, m) /\ Answer(Worker))
          /\ SF_vars(WorkerOn(s, m) /\ RecordSuccess(Worker))
          /\ SF_vars(WorkerOn(s, m) /\ RecordFailure(Worker))

FairSpec == Spec /\ Fairness

=============================================================================
