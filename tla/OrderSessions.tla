--------------------------- MODULE OrderSessions ---------------------------
(***************************************************************************)
(* Sessions of several business dates and the requests stores submit to    *)
(* them.  One session per date belongs to the system (its key is the day), *)
(* administrators add others.  Sessions open on their schedule, when the   *)
(* worker polls or a store asks where to order; the worker takes each      *)
(* session's snapshot when requests close and completes it at the          *)
(* allocation; administrators close and cancel.                            *)
(*                                                                         *)
(* A submission is three steps: its transaction begins (and reads what its *)
(* snapshot holds), it takes its locks and checks the clock, it commits.   *)
(* The other transactions are one step each.                               *)
(***************************************************************************)
EXTENDS Naturals, FiniteSets

CONSTANTS
    Store, User,
    Days,           \* business dates, numbered from 1
    Manual,         \* sessions administrators may add
    DayLength,      \* instants of a day, from 0
    SnapshotHour, CutoffHour,    \* operational settings
    Quota,          \* requests of a store that may wait
    MaxRequests     \* bound: requests in the table

Day     == 1 .. Days
Session == Day \cup Manual
Hour    == 0 .. DayLength - 1
MaxTime == Days * DayLength      \* the bound of the clock: all days are over

SessionAssumption ==
    /\ Days \in Nat \ {0} /\ DayLength \in Nat \ {0}
    /\ SnapshotHour \in Hour /\ CutoffHour \in Hour
    /\ SnapshotHour < CutoffHour
    /\ Quota \in Nat \ {0} /\ MaxRequests \in Nat

VARIABLES
    now,
    startedAt,   \* the clock reading of the worker's current tick
    session,     \* order_sessions
    taken,       \* sessions whose inventory snapshot is completed
    requests,    \* order_requests
    submission   \* what each user's submission holds

vars == <<now, startedAt, session, taken, requests, submission>>

At(d, h) == (d - 1) * DayLength + h
Today    == now \div DayLength + 1

Absent == [status |-> "none", opens |-> 0, closes |-> 0, allocates |-> 0,
           born |-> 0, completed |-> 0]
Number == 1 .. Quota
RequestRow ==
    [store: Store, session: Session, number: Number, at: 0 .. MaxTime,
     status: {"submitted", "allocated", "cancelled"}]
NoSubmission == [phase |-> "idle"]

TypeOK ==
    /\ now \in 0 .. MaxTime /\ startedAt \in 0 .. now
    /\ session \in
         [Session -> [status: {"none", "draft", "open", "closed", "cancelled",
                               "completed"},
                      opens: 0 .. MaxTime, closes: 0 .. MaxTime,
                      allocates: 0 .. MaxTime,
                      born: 0 .. Cardinality(Session), completed: 0 .. MaxTime]]
    /\ taken \subseteq Session
    /\ requests \subseteq RequestRow
    /\ \A u \in User :
         submission[u].phase # "idle" =>
             /\ submission[u].phase \in {"begun", "checked"}
             /\ submission[u].store \in Store
             /\ submission[u].session \in Session
             /\ submission[u].number \in 0 .. Quota

Init ==
    /\ now = 0 /\ startedAt = 0
    /\ session = [s \in Session |-> Absent]
    /\ taken = {}
    /\ requests = {}
    /\ submission = [u \in User |-> NoSubmission]

Born == Cardinality({s \in Session : session[s].status # "none"}) + 1

(* A checked submission shares the lock of its session's row and holds the *)
(* advisory lock of its store's slots.                                     *)
RowIsFree(s) ==
    ~ \E u \in User : submission[u].phase = "checked"
                      /\ submission[u].session = s

SlotsAreFree(st) ==
    ~ \E u \in User : submission[u].phase = "checked"
                      /\ submission[u].store = st

-----------------------------------------------------------------------------
(* Sessions.                                                               *)

Accepts(row) == row.status = "open" /\ row.opens <= now /\ now < row.closes

ClosesLikeAnother(closes) ==
    \E x \in Session : session[x].status \in {"draft", "open"}
                       /\ session[x].closes = closes

CreateManual(s, d, opens, closes, allocates) ==
    /\ session[s].status = "none"
    /\ opens < closes /\ closes < allocates
    /\ At(d, closes) > now
    /\ ~ClosesLikeAnother(At(d, closes))
    /\ session' = [session EXCEPT ![s] =
                     [status |-> "draft", opens |-> At(d, opens),
                      closes |-> At(d, closes), allocates |-> At(d, allocates),
                      born |-> Born, completed |-> 0]]
    /\ UNCHANGED <<now, startedAt, taken, requests, submission>>

(* openDueScheduledSessions                                                *)
OpenedDue ==
    [s \in Session |->
       IF session[s].status = "draft" /\ session[s].opens <= now
          /\ now < session[s].closes
       THEN [session[s] EXCEPT !.status = "open"]
       ELSE session[s]]

DefaultOf(d, opens) ==
    [status |-> "open", opens |-> opens, closes |-> At(d, SnapshotHour),
     allocates |-> At(d, CutoffHour), born |-> Born, completed |-> 0]

(* ensureDailyOrderingSession, at the start of the worker's tick: due      *)
(* sessions open, and today has its default session unless it ever had one *)
(* (nothing in the program leaves a default session a draft).              *)
StartTick ==
    /\ startedAt' = now
    /\ session' = IF Today \in Day /\ session[Today].status = "none"
                  THEN [OpenedDue EXCEPT ![Today] = DefaultOf(Today, At(Today, 0))]
                  ELSE OpenedDue
    /\ UNCHANGED <<now, taken, requests, submission>>

(* nextOrderingWindow: today's window, or tomorrow's once today's closed.  *)
FirstWindow == IF now >= At(Today, SnapshotHour) THEN Today + 1 ELSE Today

(* prepareOrderingContext: when no session accepts requests now, the       *)
(* default session of the next date that has none yet is opened at once.   *)
PrepareOrdering ==
    LET accepting == {s \in Session : Accepts(OpenedDue[s])}
        free == {d \in Day : d >= FirstWindow /\ session[d].status = "none"}
    IN /\ IF accepting # {} THEN session' = OpenedDue
          ELSE \E d \in free :
                 /\ \A e \in free : d <= e
                 /\ session' = [OpenedDue EXCEPT ![d] = DefaultOf(d, now)]
       /\ UNCHANGED <<now, startedAt, taken, requests, submission>>

Open(s) ==
    /\ session[s].status = "draft" /\ RowIsFree(s)
    /\ session[s].opens <= now /\ now < session[s].closes
    /\ session' = [session EXCEPT ![s].status = "open"]
    /\ UNCHANGED <<now, startedAt, taken, requests, submission>>

Close(s) ==
    /\ session[s].status = "open" /\ RowIsFree(s)
    /\ session' = [session EXCEPT ![s].status = "closed"]
    /\ UNCHANGED <<now, startedAt, taken, requests, submission>>

(* From the snapshot on goods are held for the session: it has to complete. *)
MayCancel(s) ==
    \/ session[s].status = "draft"
    \/ session[s].status \in {"open", "closed"} /\ now < session[s].closes

(* Its submitted requests are cancelled with it.                           *)
Cancel(s) ==
    /\ MayCancel(s) /\ RowIsFree(s)
    /\ session' = [session EXCEPT ![s].status = "cancelled"]
    /\ requests' = {IF r.session = s /\ r.status = "submitted"
                    THEN [r EXCEPT !.status = "cancelled"] ELSE r
                    : r \in requests}
    /\ UNCHANGED <<now, startedAt, taken, submission>>

-----------------------------------------------------------------------------
(* The worker's jobs for a session (AllocationPipeline has their goods).   *)

Runnable(s) == session[s].status \in {"open", "closed"} /\ RowIsFree(s)

TakeSnapshot(s) ==
    /\ Runnable(s) /\ s \notin taken /\ session[s].closes <= startedAt
    /\ taken' = taken \cup {s}
    /\ UNCHANGED <<now, startedAt, session, requests, submission>>

Complete(s) ==
    /\ Runnable(s) /\ s \in taken /\ session[s].allocates <= startedAt
    /\ session' = [session EXCEPT ![s].status = "completed",
                                  ![s].completed = startedAt]
    /\ requests' = {IF r.session = s /\ r.status = "submitted"
                       /\ r.at < session[s].allocates
                    THEN [r EXCEPT !.status = "allocated"] ELSE r
                    : r \in requests}
    /\ UNCHANGED <<now, startedAt, taken, submission>>

-----------------------------------------------------------------------------
(* Requests.                                                               *)

RequestsOf(st) == {r \in requests : r.store = st}

(* The completion of its own session releases a request, or of one that    *)
(* is allocated at the same time or later: its own is then behind.         *)
Released(r) ==
    \/ session[r.session].status = "completed"
    \/ \E s \in Session :
         /\ session[s].status = "completed"
         /\ session[s].allocates >= session[r.session].allocates
         /\ session[s].completed > r.at

(* countOrderingQuota, of the requests a transaction sees                  *)
Counted(seen, s) ==
    {r \in seen : r.status # "cancelled" /\ (r.session = s \/ ~Released(r))}

UsedNumbers(seen, s) ==
    {r.number : r \in {x \in seen : x.session = s /\ x.status # "cancelled"}}

BeginSubmission(u, st, s) ==
    /\ submission[u].phase = "idle"
    /\ session[s].status = "open"
    /\ Cardinality(requests) < MaxRequests
    /\ submission' = [submission EXCEPT ![u] =
                        [phase |-> "begun", store |-> st, session |-> s,
                         seen |-> RequestsOf(st), number |-> 0, at |-> 0]]
    /\ UNCHANGED <<now, startedAt, session, taken, requests>>

Admissible(u) ==
    LET b == submission[u]
    IN /\ Accepts(session[b.session])
       /\ Cardinality(Counted(b.seen, b.session)) < Quota
       /\ Number \ UsedNumbers(b.seen, b.session) # {}

(* createOrderRequest up to its INSERT: under the locks, at this instant.  *)
CheckSubmission(u) ==
    LET b == submission[u]
        free == Number \ UsedNumbers(b.seen, b.session)
    IN /\ b.phase = "begun" /\ SlotsAreFree(b.store)
       /\ IF Admissible(u)
          THEN \E n \in free :
                 /\ \A k \in free : n <= k
                 /\ submission' = [submission EXCEPT ![u].phase = "checked",
                                     ![u].number = n, ![u].at = now]
          ELSE submission' = [submission EXCEPT ![u] = NoSubmission]
       /\ UNCHANGED <<now, startedAt, session, taken, requests>>

(* Mutant of Overtaken: the transaction is not serializable.               *)
NeverOvertaken(u) == FALSE

(* What the transaction read was changed by one that committed meanwhile:  *)
(* serializable isolation makes it start over.                             *)
Overtaken(u) == submission[u].seen # RequestsOf(submission[u].store)

CommitSubmission(u) ==
    /\ submission[u].phase = "checked" /\ ~Overtaken(u)
    /\ requests' = requests \cup
         {[store |-> submission[u].store, session |-> submission[u].session,
           number |-> submission[u].number, at |-> submission[u].at,
           status |-> "submitted"]}
    /\ submission' = [submission EXCEPT ![u] = NoSubmission]
    /\ UNCHANGED <<now, startedAt, session, taken>>

RetrySubmission(u) ==
    /\ submission[u].phase = "checked" /\ Overtaken(u)
    /\ submission' = [submission EXCEPT ![u].phase = "begun", ![u].number = 0,
                        ![u].at = 0, ![u].seen = RequestsOf(submission[u].store)]
    /\ UNCHANGED <<now, startedAt, session, taken, requests>>

(* The connection or the API process dies: the transaction is rolled back. *)
AbandonSubmission(u) ==
    /\ submission[u].phase # "idle"
    /\ submission' = [submission EXCEPT ![u] = NoSubmission]
    /\ UNCHANGED <<now, startedAt, session, taken, requests>>

(* cancelOrderRequest, by the store while requests are open.               *)
CancelRequest(r) ==
    /\ r.status = "submitted"
    /\ session[r.session].status = "open" /\ now < session[r.session].closes
    /\ RowIsFree(r.session)
    /\ requests' = (requests \ {r}) \cup {[r EXCEPT !.status = "cancelled"]}
    /\ UNCHANGED <<now, startedAt, session, taken, submission>>

Tick ==
    /\ now < MaxTime
    /\ now' = now + 1
    /\ UNCHANGED <<startedAt, session, taken, requests, submission>>

Next ==
    \/ \E s \in Manual, d \in Day, o, c, a \in Hour : CreateManual(s, d, o, c, a)
    \/ StartTick \/ PrepareOrdering
    \/ \E s \in Session :
         \/ Open(s) \/ Close(s) \/ Cancel(s)
         \/ TakeSnapshot(s) \/ Complete(s)
    \/ \E u \in User :
         \/ \E st \in Store, s \in Session : BeginSubmission(u, st, s)
         \/ CheckSubmission(u) \/ CommitSubmission(u) \/ RetrySubmission(u)
         \/ AbandonSubmission(u)
    \/ \E r \in requests : CancelRequest(r)
    \/ Tick

Spec == Init /\ [][Next]_vars

(* Time passes, the worker polls and its jobs run, transactions end.       *)
FairSpec ==
    /\ Spec
    /\ WF_vars(Tick) /\ WF_vars(StartTick /\ startedAt # now)
    /\ \A s \in Session : SF_vars(TakeSnapshot(s)) /\ SF_vars(Complete(s))
    /\ \A u \in User : WF_vars(CommitSubmission(u) \/ RetrySubmission(u))

-----------------------------------------------------------------------------
(* At most two requests of a store wait for allocation, in all sessions    *)
(* together, however submissions of its users interleave (the contract of  *)
(* countOrderingQuota; a request counts until it is released).             *)
QuotaHolds ==
    \A st \in Store :
        Cardinality({r \in RequestsOf(st) :
                       r.status # "cancelled" /\ ~Released(r)}) <= Quota

(* No request is left behind: one that is still submitted belongs to a     *)
(* session that is going to be allocated.  Sessions complete and are       *)
(* cancelled while submissions to them are under way.                      *)
NoStrandedRequest ==
    \A r \in requests :
        r.status = "submitted" => session[r.session].status \in {"open", "closed"}

(* A session whose snapshot was taken (stock is held for its offers) is    *)
(* never cancelled: only its allocation settles what it holds.             *)
SnapshotIsSettled ==
    \A s \in taken : session[s].status \in {"open", "closed", "completed"}

(* An administrator's session is not created where it could receive no     *)
(* order: of sessions that close together it is the first one created      *)
(* (the check of createOrderSession; stores go to the first created).      *)
ManualSessionIsReachable ==
    \A s \in Manual, x \in Session :
        /\ x # s
        /\ session[s].status = "open" /\ session[x].status = "open"
        /\ session[s].closes = session[x].closes
        => session[s].born < session[x].born
=============================================================================
