----------------------------- MODULE MemoryOrders -----------------------------
(***************************************************************************)
(* Order sessions and order requests of the in-memory server. Every        *)
(* handler is one step. There is no worker: nothing allocates a session, a *)
(* request stays until it or its session is cancelled.                     *)
(***************************************************************************)
EXTENDS Naturals, FiniteSets

CONSTANTS
    Stores,
    Rows,          \* session rows
    Requests,      \* request rows
    Days,          \* business dates 1 .. Days (bound)
    DayLength,     \* instants of a day
    Openings,      \* instants an administrator has a session open at
    SnapshotHour, CutoffHour,
    Quota          \* live requests of a store

MemoryOrderBounds ==
    /\ Days \in Nat \ {0} /\ DayLength \in Nat
    /\ Quota \in {1, 2}         \* submitOrderRequest numbers requests 1 and 2
    /\ IsFiniteSet(Requests)
    /\ Openings \subseteq 0 .. Days * DayLength
    /\ SnapshotHour \in Nat /\ CutoffHour \in Nat
    /\ SnapshotHour < CutoffHour /\ CutoffHour < DayLength

VARIABLES now, session, request

vars == <<now, session, request>>

At(d, h) == (d - 1) * DayLength + h
Today == now \div DayLength + 1
Absent == [status |-> "none", kind |-> "MANUAL", date |-> 0, opens |-> 0, closes |-> 0]

\* The server starts with a default session for its first day.
Seed == [status |-> "OPEN", kind |-> "DEFAULT", date |-> 1, opens |-> 0, closes |-> DayLength - 1]

Init ==
    /\ now = 0
    /\ \E seeded \in Rows : session = [n \in Rows |-> IF n = seeded THEN Seed ELSE Absent]
    /\ request = [r \in Requests |-> [status |-> "none"]]

Tick ==
    /\ now < Days * DayLength - 1
    /\ now' = now + 1
    /\ UNCHANGED <<session, request>>

-----------------------------------------------------------------------------
(* Sessions. *)

InWindow(x) == x.opens <= now /\ now < x.closes

\* createOrderSession
CreateManual(n, d, opens, closes) ==
    /\ session[n].status = "none"
    /\ opens < At(d, closes)
    /\ now < At(d, closes)
    /\ \A m \in Rows : session[m].status \in {"SCHEDULED", "OPEN"} => session[m].closes # At(d, closes)
    /\ session' = [session EXCEPT ![n] =
          [status |-> "SCHEDULED", kind |-> "MANUAL", date |-> d, opens |-> opens, closes |-> At(d, closes)]]
    /\ UNCHANGED <<now, request>>

OpenedDue == [n \in Rows |->
    IF session[n].status = "SCHEDULED" /\ InWindow(session[n])
    THEN [session[n] EXCEPT !.status = "OPEN"] ELSE session[n]]

\* The default session of a date, whatever became of it.
DefaultsOf(d) == {n \in Rows : session[n].kind = "DEFAULT" /\ session[n].date = d}

Usable(d) == \A n \in DefaultsOf(d) : session[n].status \in {"SCHEDULED", "OPEN"} /\ now < session[n].closes

\* nextOrderingWindow: today's window, or tomorrow's once today's closed.
FirstWindow == IF now >= At(Today, SnapshotHour) THEN Today + 1 ELSE Today
\* The window of a later date starts where the one before it is allocated.
WindowOpens(d) == IF d = FirstWindow THEN now ELSE At(d - 1, CutoffHour)

\* prepareOrderingContext: the session a store is sent to.
Prepare ==
    /\ IF \E n \in Rows : OpenedDue[n].status = "OPEN" /\ InWindow(OpenedDue[n])
       THEN session' = OpenedDue
       ELSE \E d \in FirstWindow .. Days :
              /\ Usable(d)
              /\ \A e \in FirstWindow .. d - 1 : ~Usable(e)
              /\ \E n \in Rows :
                    IF DefaultsOf(d) # {}
                    THEN /\ n \in DefaultsOf(d)
                         /\ session' = [OpenedDue EXCEPT ![n].status = "OPEN", ![n].opens = now]
                    ELSE /\ session[n].status = "none"
                         /\ session' = [OpenedDue EXCEPT ![n] =
                               [status |-> "OPEN", kind |-> "DEFAULT", date |-> d,
                                opens |-> WindowOpens(d), closes |-> At(d, SnapshotHour)]]
    /\ UNCHANGED <<now, request>>

\* transitionOrderSession
Open(n) ==
    /\ session[n].status = "SCHEDULED" /\ InWindow(session[n])
    /\ session' = [session EXCEPT ![n].status = "OPEN"]
    /\ UNCHANGED <<now, request>>

Close(n) ==
    /\ session[n].status = "OPEN"
    /\ session' = [session EXCEPT ![n].status = "CLOSED"]
    /\ UNCHANGED <<now, request>>

\* The requests of a cancelled session end with it.
CancelledWith(n) == [r \in Requests |->
    IF request[r].status = "SUBMITTED" /\ request[r].session = n
    THEN [request[r] EXCEPT !.status = "CANCELLED"] ELSE request[r]]

Cancel(n) ==
    /\ session[n].status \in {"SCHEDULED", "OPEN", "CLOSED"}
    /\ session[n].status # "SCHEDULED" => now < session[n].closes
    /\ session' = [session EXCEPT ![n].status = "CANCELLED"]
    /\ request' = CancelledWith(n)
    /\ UNCHANGED now

-----------------------------------------------------------------------------
(* Requests. *)

Live(st) == {r \in Requests : request[r].status = "SUBMITTED" /\ request[r].store = st}
LiveIn(st, n) == {r \in Live(st) : request[r].session = n}

\* orderingQuota counts the requests of every session that no allocation
\* released; in memory none is.
MayOrder(st, n) == Cardinality(Live(st)) < Quota

\* The second request is the one beside a live first.
Sequence(st, n) == IF \E r \in LiveIn(st, n) : request[r].number = 1 THEN 2 ELSE 1

Submit(r, st, n) ==
    /\ request[r].status = "none"
    /\ session[n].status = "OPEN" /\ now < session[n].closes
    /\ MayOrder(st, n)
    /\ request' = [request EXCEPT ![r] =
          [status |-> "SUBMITTED", store |-> st, session |-> n, number |-> Sequence(st, n)]]
    /\ UNCHANGED <<now, session>>

CancelRequest(r) ==
    /\ request[r].status = "SUBMITTED"
    /\ session[request[r].session].status = "OPEN"
    /\ now < session[request[r].session].closes
    /\ request' = [request EXCEPT ![r].status = "CANCELLED"]
    /\ UNCHANGED <<now, session>>

Next ==
    \/ Tick \/ Prepare
    \/ \E n \in Rows :
          \/ Open(n) \/ Close(n) \/ Cancel(n)
          \/ \E d \in 1 .. Days, h \in 0 .. DayLength - 1, o \in Openings : CreateManual(n, d, o, h)
          \/ \E r \in Requests, st \in Stores : Submit(r, st, n)
    \/ \E r \in Requests : CancelRequest(r)

Spec == Init /\ [][Next]_vars

-----------------------------------------------------------------------------
(* Properties. *)

\* Rows have their shape.
TypeOK ==
    /\ session \in [Rows -> [status : {"none", "SCHEDULED", "OPEN", "CLOSED", "CANCELLED"},
                             kind : {"MANUAL", "DEFAULT"}, date : 0 .. Days,
                             opens : 0 .. Days * DayLength, closes : 0 .. Days * DayLength]]
    /\ \A r \in Requests : request[r].status # "none" => request[r].number \in 1 .. Quota

\* Live requests of a store in one session have different numbers, though
\* numbers come back when a request is cancelled.
NumbersDiffer ==
    \A r, q \in Requests :
        /\ r # q /\ request[r].status = "SUBMITTED" /\ request[q].status = "SUBMITTED"
        /\ request[r].store = request[q].store /\ request[r].session = request[q].session
        => request[r].number # request[q].number

\* No request waits in a session that was cancelled.
WaitsInLiveSession ==
    \A r \in Requests : request[r].status = "SUBMITTED" => session[request[r].session].status \in {"OPEN", "CLOSED"}

\* A date has one default session for good, also after it was closed or cancelled.
OneDefaultPerDate ==
    \A n, m \in Rows : n # m /\ session[n].kind = "DEFAULT" /\ session[m].kind = "DEFAULT"
        => session[n].date # session[m].date

LiveSlots ==
    {<<request[r].store, request[r].session, request[r].number>> :
        r \in {q \in Requests : request[q].status = "SUBMITTED"}}

\* Ordering keeps its promise to the stores (RequestSlots).
Promise == INSTANCE RequestSlots WITH live <- LiveSlots
PromiseInit == Promise!Init
PromiseStep == [Promise!Next]_LiveSlots
=============================================================================
