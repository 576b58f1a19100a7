---------------------------- MODULE MemoryAccounts ----------------------------
(***************************************************************************)
(* Accounts, sessions, assignments, stores and groups of the in-memory     *)
(* server (apps/api/src/memory-repository.ts), the one local demos and     *)
(* inject tests run. There is one thread and no transaction: a handler     *)
(* runs alone until it awaits, and two handlers, createAccount and         *)
(* resetAccountPassword, await a password hash between what they check and *)
(* what they write.                                                        *)
(***************************************************************************)
EXTENDS Naturals, FiniteSets

CONSTANTS
    Ids,          \* account rows
    Names,        \* usernames
    Stores, Groups,
    Sessions,     \* session rows
    MaxVersion,   \* session versions and store versions (bound)
    MaxInFlight   \* commands of administrators in progress at once

MemoryAccountBounds ==
    MaxVersion \in Nat /\ MaxInFlight \in Nat \ {0} /\ Groups # {}

VARIABLES
    account,      \* accounts: none, or the row
    pending,      \* handlers awaiting their hash, with what they will write
    session,      \* sessions by token
    assignment,   \* htkdAssignments that are not revoked
    store, group  \* stores and storeGroups

vars == <<account, pending, session, assignment, store, group>>

None == {}
Roles == {"STORE", "HTKD"}
Row(i) == CHOOSE a \in account[i] : TRUE
Exists(i) == account[i] # None
ActiveAs(i, name) == \E a \in account[i] : a.status = "ACTIVE" /\ a.name = name
Keeps(i, s) == \E a \in account[i] : a.status = "ACTIVE" /\ a.role = "STORE" /\ a.store = s

Init ==
    /\ account = [i \in Ids |-> None]
    /\ pending = {}
    /\ session = [t \in Sessions |-> None]
    /\ assignment = {}
    /\ store = [s \in Stores |-> [status |-> "none", group |-> CHOOSE g \in Groups : TRUE, version |-> 0]]
    /\ group = [g \in Groups |-> [status |-> "none", version |-> 0]]

-----------------------------------------------------------------------------
(* Accounts. *)

CanBegin == Cardinality(pending) < MaxInFlight

\* The name is free, and so is the store of a store account.
MayBeActive(i, name, role, s) ==
    /\ \A j \in Ids \ {i} : ~ActiveAs(j, name)
    /\ role = "STORE" => \A j \in Ids \ {i} : ~Keeps(j, s)

\* createAccount up to its await: the checks.
BeginCreate(i, name, role, s) ==
    /\ CanBegin
    /\ ~Exists(i)
    /\ \A x \in pending : x.id # i
    /\ MayBeActive(i, name, role, s)
    /\ role = "STORE" => store[s].status = "ACTIVE"
    /\ pending' = pending \cup
        {[id |-> i, does |-> "create",
          row |-> [name |-> name, role |-> role, store |-> s, status |-> "ACTIVE",
                   version |-> 0, stores |-> {}]]}
    /\ UNCHANGED <<account, session, assignment, store, group>>

\* The hash is there: the row is written without looking again.
FinishCreate(x) ==
    /\ x.does = "create"
    /\ account' = [account EXCEPT ![x.id] = {x.row}]
    /\ pending' = pending \ {x}
    /\ UNCHANGED <<session, assignment, store, group>>

Revoked(i) == [t \in Sessions |-> {[r EXCEPT !.revoked = @ \/ r.account = i] : r \in session[t]}]

\* The account changes, its version with it, and its sessions end.
Renew(i, row) ==
    /\ account' = [account EXCEPT ![i] = {[row EXCEPT !.version = @ + 1]}]
    /\ session' = Revoked(i)

\* updateAccount: lock or reactivate, from the version the page shows.
SetStatus(i, version, status) ==
    /\ CanBegin
    /\ Exists(i)
    /\ Row(i).version = version /\ version < MaxVersion
    /\ Row(i).status # status
    /\ status = "ACTIVE" => MayBeActive(i, Row(i).name, Row(i).role, Row(i).store)
    /\ Renew(i, [Row(i) EXCEPT !.status = status])
    /\ UNCHANGED <<pending, assignment, store, group>>

\* resetAccountPassword up to its await.
BeginReset(i, version) ==
    /\ CanBegin
    /\ Exists(i)
    /\ Row(i).version = version /\ version < MaxVersion
    /\ \A x \in pending : x.id # i
    /\ pending' = pending \cup {[id |-> i, does |-> "reset", row |-> Row(i)]}
    /\ UNCHANGED <<account, session, assignment, store, group>>

\* The row itself is written, with the version it has by then.
FinishReset(x) ==
    /\ x.does = "reset"
    /\ Renew(x.id, Row(x.id))
    /\ pending' = pending \ {x}
    /\ UNCHANGED <<assignment, store, group>>

\* The rows of an account after its list is replaced.
Replaced(i, wanted) == {x \in assignment : x[1] # i} \cup {<<i, s>> : s \in wanted}

ReplaceAssignments(i, version, wanted) ==
    /\ CanBegin
    /\ Exists(i)
    /\ Row(i).role = "HTKD" /\ Row(i).status = "ACTIVE"
    /\ Row(i).version = version /\ version < MaxVersion
    /\ \A s \in wanted : store[s].status = "ACTIVE"
    /\ wanted # {x[2] : x \in {y \in assignment : y[1] = i}}
    /\ assignment' = Replaced(i, wanted)
    /\ Renew(i, [Row(i) EXCEPT !.stores = wanted])
    /\ UNCHANGED <<pending, store, group>>

-----------------------------------------------------------------------------
(* Sessions. *)

\* A login takes the active row of the name, verified before.
CreateSession(t, i) ==
    /\ session[t] = None
    /\ \E a \in account[i] : a.status = "ACTIVE"
    /\ session' = [session EXCEPT ![t] =
                    {[account |-> i, version |-> Row(i).version, revoked |-> FALSE]}]
    /\ UNCHANGED <<account, pending, assignment, store, group>>

RevokeSession(t) ==
    /\ \E r \in session[t] : ~r.revoked
    /\ session' = [session EXCEPT ![t] = {[r EXCEPT !.revoked = TRUE] : r \in session[t]}]
    /\ UNCHANGED <<account, pending, assignment, store, group>>

\* What a request may touch: the stores of its principal, or nothing.
ResolvesTo(t) ==
    UNION {IF \E a \in account[r.account] :
                ~r.revoked /\ a.version = r.version /\ a.status = "ACTIVE"
           THEN IF Row(r.account).role = "STORE" THEN {Row(r.account).store}
                ELSE Row(r.account).stores
           ELSE {} : r \in session[t]}

-----------------------------------------------------------------------------
(* Stores and groups. *)

CreateGroup(g) ==
    /\ group[g].status = "none"
    /\ group' = [group EXCEPT ![g].status = "ACTIVE"]
    /\ UNCHANGED <<account, pending, session, assignment, store>>

GroupIdle(g) == \A s \in Stores : store[s].group = g => store[s].status # "ACTIVE"

UpdateGroup(g, version, status) ==
    /\ group[g].status # "none"
    /\ group[g].version = version /\ version < MaxVersion
    /\ status = "INACTIVE" /\ group[g].status # "INACTIVE" => GroupIdle(g)
    /\ group' = [group EXCEPT ![g] = [status |-> status, version |-> @.version + 1]]
    /\ UNCHANGED <<account, pending, session, assignment, store>>

CreateStore(s, g) ==
    /\ store[s].status = "none"
    /\ group[g].status = "ACTIVE"
    /\ store' = [store EXCEPT ![s] = [status |-> "ACTIVE", group |-> g, version |-> 0]]
    /\ UNCHANGED <<account, pending, session, assignment, group>>

\* A store that is open stays in an open group; work in progress (left to the
\* caller here) can refuse a closing.
UpdateStore(s, version, status, g) ==
    /\ store[s].status # "none"
    /\ store[s].version = version /\ version < MaxVersion
    /\ g # store[s].group \/ status = "ACTIVE" => group[g].status = "ACTIVE"
    /\ store' = [store EXCEPT ![s] = [status |-> status, group |-> g, version |-> @.version + 1]]
    /\ UNCHANGED <<account, pending, session, assignment, group>>

Next ==
    \/ \E i \in Ids, name \in Names, role \in Roles, s \in Stores : BeginCreate(i, name, role, s)
    \/ \E x \in pending : FinishCreate(x) \/ FinishReset(x)
    \/ \E i \in Ids, v \in 0 .. MaxVersion :
          \/ \E status \in {"ACTIVE", "LOCKED"} : SetStatus(i, v, status)
          \/ BeginReset(i, v)
          \/ \E wanted \in SUBSET Stores : ReplaceAssignments(i, v, wanted)
    \/ \E t \in Sessions : RevokeSession(t) \/ \E i \in Ids : CreateSession(t, i)
    \/ \E g \in Groups : CreateGroup(g) \/ \E s \in Stores : CreateStore(s, g)
    \/ \E v \in 0 .. MaxVersion, status \in {"ACTIVE", "INACTIVE"}, g \in Groups :
          UpdateGroup(g, v, status) \/ \E s \in Stores : UpdateStore(s, v, status, g)

Spec == Init /\ [][Next]_vars

-----------------------------------------------------------------------------
(* Properties. *)

\* Every row has its shape.
TypeOK ==
    /\ \A i \in Ids : Cardinality(account[i]) <= 1
    /\ \A i \in Ids : \A a \in account[i] :
          a.name \in Names /\ a.role \in Roles /\ a.version \in 0 .. MaxVersion + MaxInFlight
    /\ assignment \subseteq Ids \X Stores
    /\ store \in [Stores -> [status : {"none", "ACTIVE", "INACTIVE"}, group : Groups, version : Nat]]
    /\ group \in [Groups -> [status : {"none", "ACTIVE", "INACTIVE"}, version : Nat]]

\* The accounts that have a name or a store, or will have it when their hash is
\* there.
Claiming(name) ==
    {i \in Ids : ActiveAs(i, name) \/
        \E x \in pending : x.id = i /\ x.does = "create" /\ x.row.name = name}
Serving(s) ==
    {i \in Ids : Keeps(i, s) \/
        \E x \in pending : x.id = i /\ x.does = "create"
                           /\ x.row.role = "STORE" /\ x.row.store = s}

\* A username and a store belong to one active account, save where creations
\* overlap: both have looked before either writes.  Then they belong to as many
\* as there were commands in progress at once and never to more, for whoever
\* begins later finds those that are there.
AsManyAsOverlap ==
    /\ \A name \in Names : Cardinality(Claiming(name)) <= MaxInFlight
    /\ \A s \in Stores : Cardinality(Serving(s)) <= MaxInFlight

\* The list an account carries and the assignment rows say the same.
ScopeIsAssignments ==
    \A i \in Ids : \A a \in account[i] : a.stores = {x[2] : x \in {y \in assignment : y[1] = i}}

\* An open store is always in an open group.
OpenStoreInOpenGroup ==
    \A s \in Stores : store[s].status = "ACTIVE" => group[store[s].group].status = "ACTIVE"

\* When what an account may reach changes, no session goes on with it: a session
\* reaches what it reached before, or nothing.
ScopeOfASessionIsFixed ==
    \A t \in Sessions : session[t] # None /\ session'[t] # None
     => ResolvesTo(t)' \in {ResolvesTo(t), {}}
=============================================================================
