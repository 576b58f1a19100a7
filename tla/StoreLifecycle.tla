--------------------------- MODULE StoreLifecycle ---------------------------
(***************************************************************************)
(* Opening and closing stores while they are at work.  Administrators edit *)
(* groups and stores from forms they opened earlier; closing a store asks  *)
(* whether work of it is pending and disables its account; meanwhile       *)
(* stores order, receive and move goods, and accounts are created.         *)
(*                                                                         *)
(* Commands on groups, stores and goods are serializable transactions;     *)
(* creating an account is not, so its check and its insertion are steps.   *)
(***************************************************************************)
EXTENDS Integers, FiniteSets

CONSTANTS Groups, Stores, Accounts, Admins,
          Items,        \* products a store may have work on
          MaxVersion    \* bound on the changes of one group or store

\* A form names its row, be it of a group or of a store.
StoreLifecycleAssumption == MaxVersion \in Nat /\ Groups \cap Stores = {}

VARIABLES group,     \* rows of store groups
          store,     \* rows of stores; one not yet created has no row
          account,   \* per account: its store, and whether it is active
          creating,  \* per account: the store its creation was checked for
          form,      \* per administrator: the row that was opened (none or one)
          work,      \* per store and item: how far the goods have come
          moving     \* sorted sale goods in transit, by source and destination

vars == <<group, store, account, creating, form, work, moving>>

Pending == {"submitted", "merged", "waiting", "held", "receiving"}
Progress == {"none", "issued", "done"} \cup Pending

Init ==
    /\ group = [g \in Groups |-> [active |-> TRUE, version |-> 0]]
    /\ store = [s \in Stores |-> {}]
    /\ account = [a \in Accounts |-> {}] /\ creating = [a \in Accounts |-> {}]
    /\ form = [m \in Admins |-> {}]
    /\ work = [s \in Stores |-> [i \in Items |-> "none"]] /\ moving = {}

IsOpen(s) == \E row \in store[s] : row.active
OpenIn(g) == {s \in Stores : \E row \in store[s] : row.active /\ row.group = g}
AccountsOf(s) == {a \in Accounts : \E row \in account[a] : row.store = s}
Working(s) == {a \in AccountsOf(s) : \E row \in account[a] : row.active}

-----------------------------------------------------------------------------
(* Groups and stores. *)

CreateStore(s, g) ==
    /\ store[s] = {} /\ group[g].active
    /\ store' = [store EXCEPT ![s] = {[group |-> g, active |-> TRUE, version |-> 0]}]
    /\ UNCHANGED <<group, account, creating, form, work, moving>>

OpenStore(m, s) ==
    /\ store[s] # {}
    /\ form' = [form EXCEPT ![m] = {[of |-> s, row |-> row] : row \in store[s]}]
    /\ UNCHANGED <<group, store, account, creating, work, moving>>

OpenGroup(m, g) ==
    /\ form' = [form EXCEPT ![m] = {[of |-> g, row |-> group[g]]}]
    /\ UNCHANGED <<group, store, account, creating, work, moving>>

UpdateGroup(m, g, active) ==
    \E f \in form[m] :
        /\ f.of = g /\ f.row.version = group[g].version /\ group[g].version < MaxVersion
        /\ group[g].active /\ ~active => OpenIn(g) = {}
        /\ group' = [group EXCEPT ![g] = [active |-> active, version |-> @.version + 1]]
        /\ form' = [form EXCEPT ![m] = {}]
        /\ UNCHANGED <<store, account, creating, work, moving>>

\* Mutant of NoPendingWork: goods in transit are forgotten.
NoPendingDemand(s) == \A i \in Items : work[s][i] \notin Pending

\* What must be finished or cancelled before a store is closed.
NoPendingWork(s) ==
    /\ \A i \in Items : work[s][i] \notin Pending
    /\ \A t \in moving : s \notin {t[1], t[2]}


\* A store may be moved to another group, opened or closed.
Admissible(row, next) ==
    next.group # row.group \/ next.active => group[next.group].active

\* The trigger on stores.
Disabled(accounts) ==
    [a \in Accounts |-> IF a \in accounts THEN {[r EXCEPT !.active = FALSE] : r \in account[a]} ELSE account[a]]

UpdateStore(m, s, g, active) ==
    \E f \in form[m] : \E row \in store[s] :
        LET next == [group |-> g, active |-> active, version |-> row.version + 1]
        IN  /\ f.of = s /\ f.row.version = row.version /\ row.version < MaxVersion
            /\ Admissible(row, next)
            /\ row.active /\ ~active => NoPendingWork(s)
            /\ store' = [store EXCEPT ![s] = {next}]
            /\ account' = IF row.active /\ ~active THEN Disabled(AccountsOf(s)) ELSE account
            /\ form' = [form EXCEPT ![m] = {}]
            /\ UNCHANGED <<group, creating, work, moving>>

-----------------------------------------------------------------------------
(* Accounts of stores. *)

\* The command and the trigger look for an active store...
CheckStore(a, s) ==
    /\ account[a] = {} /\ creating[a] = {} /\ IsOpen(s)
    /\ creating' = [creating EXCEPT ![a] = {s}]
    /\ UNCHANGED <<group, store, account, form, work, moving>>

\* ... and the row is inserted; an index allows one active account of a store.
CreateAccount(a) ==
    \E s \in creating[a] :
        /\ account' = IF Working(s) = {} THEN [account EXCEPT ![a] = {[store |-> s, active |-> TRUE]}] ELSE account
        /\ creating' = [creating EXCEPT ![a] = {}]
        /\ UNCHANGED <<group, store, form, work, moving>>

\* One statement on a locked row: trigger and index see the same state.
SetActive(a, active) ==
    \E row \in account[a] :
        /\ row.active # active
        /\ active => IsOpen(row.store) /\ Working(row.store) = {}
        /\ account' = [account EXCEPT ![a] = {[row EXCEPT !.active = active]}]
        /\ UNCHANGED <<group, store, creating, form, work, moving>>

-----------------------------------------------------------------------------
(* The work of a store.  What a store asks for needs an open store; what    *)
(* the warehouse does with it does not.                                     *)

Advance(s, i, from, to) ==
    /\ work[s][i] = from
    /\ work' = [work EXCEPT ![s][i] = to]
    /\ UNCHANGED <<group, store, account, creating, form, moving>>

Submit(s, i)   == IsOpen(s) /\ Advance(s, i, "none", "submitted")
Withdraw(s, i) == IsOpen(s) /\ Advance(s, i, "submitted", "none")
Merge(s, i)    == Advance(s, i, "submitted", "merged")
Allocate(s, i) == \E from \in {"merged", "waiting"}, to \in {"waiting", "held"} : from # to /\ Advance(s, i, from, to)
CancelWait(s, i) == IsOpen(s) /\ Advance(s, i, "waiting", "none")
Respond(s, i)  == \E to \in {"issued", "waiting"} : IsOpen(s) /\ Advance(s, i, "held", to)
Declare(s, i)  == IsOpen(s) /\ Advance(s, i, "issued", "receiving")
\* A shortage goes back to a wait ticket.
Finalize(s, i) == \E to \in {"done", "waiting"} : IsOpen(s) /\ Advance(s, i, "receiving", to)

SendSale(s, d) ==
    /\ s # d /\ IsOpen(s) /\ IsOpen(d)
    /\ moving' = moving \cup {<<s, d>>}
    /\ UNCHANGED <<group, store, account, creating, form, work>>

EndSale(t) ==
    /\ t \in moving /\ moving' = moving \ {t}
    /\ UNCHANGED <<group, store, account, creating, form, work>>

ReceiveSale(t) == IsOpen(t[2]) /\ EndSale(t)
CancelSale(t) == IsOpen(t[1]) /\ EndSale(t)

-----------------------------------------------------------------------------
Next ==
    \/ \E s \in Stores, g \in Groups : CreateStore(s, g)
    \/ \E m \in Admins :
          \/ \E s \in Stores :
                \/ OpenStore(m, s)
                \/ \E g \in Groups, active \in BOOLEAN : UpdateStore(m, s, g, active)
          \/ \E g \in Groups :
                \/ OpenGroup(m, g)
                \/ \E active \in BOOLEAN : UpdateGroup(m, g, active)
    \/ \E a \in Accounts :
          \/ \E s \in Stores : CheckStore(a, s)
          \/ CreateAccount(a)
          \/ \E active \in BOOLEAN : SetActive(a, active)
    \/ \E s \in Stores, i \in Items :
          \/ Submit(s, i) \/ Withdraw(s, i) \/ Merge(s, i) \/ Allocate(s, i)
          \/ CancelWait(s, i) \/ Respond(s, i) \/ Declare(s, i) \/ Finalize(s, i)
    \/ \E s \in Stores, d \in Stores : SendSale(s, d)
    \/ \E t \in moving : ReceiveSale(t) \/ CancelSale(t)

Spec == Init /\ [][Next]_vars

-----------------------------------------------------------------------------
StoreRows == [group : Groups, active : BOOLEAN, version : 0 .. MaxVersion]

TypeOK ==
    /\ group \in [Groups -> [active : BOOLEAN, version : 0 .. MaxVersion]]
    /\ \A s \in Stores : store[s] \subseteq StoreRows /\ Cardinality(store[s]) <= 1
    /\ \A a \in Accounts :
          /\ account[a] \subseteq [store : Stores, active : BOOLEAN] /\ Cardinality(account[a]) <= 1
          /\ creating[a] \subseteq Stores
    /\ \A m \in Admins : Cardinality(form[m]) <= 1
    /\ work \in [Stores -> [Items -> Progress]] /\ moving \subseteq Stores \X Stores

\* An open store belongs to an active group, although groups are closed and
\* stores moved from different forms.
OpenStoreActiveGroup == \A s \in Stores : \A row \in store[s] : row.active => group[row.group].active

\* A closed store has nothing of what assertStoreHasNoPendingWork counts: no
\* demand in the allocation, no goods held for it, no receipt under way and no
\* sale goods in transit to or from it.  Goods that were issued to it and that
\* it has not declared yet are not counted: StrandedStay.
NoCountedWorkLeft ==
    \A s \in Stores : store[s] = {} \/ IsOpen(s) \/
        /\ \A i \in Items : work[s][i] \in {"none", "issued", "done"}
        /\ ~\E d \in Stores : <<s, d>> \in moving \/ <<d, s>> \in moving

\* The goods a closing may leave behind: issued, and not declared.
Stranded(s) == {i \in Items : work[s][i] = "issued"}

\* What a closing leaves behind stays as it is.  Nothing more is issued to a
\* store while it is closed, and nothing takes what it left away: it stays
\* undeclared until the store is opened again.
StrandedStay ==
    \A s \in Stores : store[s] # {} /\ ~IsOpen(s) => Stranded(s)' = Stranded(s)

\* A store is changed only by somebody who saw it as it was.
StoreEditsSeen ==
    \A s \in Stores :
       (store[s] # {} /\ store'[s] # store[s])
       => \E m \in Admins : \E f \in form[m] : f.of = s /\ store[s] = {f.row}

\* No store is ever served by two accounts, whoever is created or unlocked at
\* the same time.
OneAccountPerStore == \A s \in Stores : Cardinality(Working(s)) <= 1

=============================================================================
