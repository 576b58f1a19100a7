-------------------------- MODULE AccountSessions ---------------------------
(***************************************************************************)
(* Accounts, their sessions and who may serve: logins that take their      *)
(* time (the password is hashed between reading the account and opening    *)
(* the session), administrators who change accounts, passwords and the     *)
(* stores of a support account at the same time, a store that is closed    *)
(* and takes its account with it, and the limiter of failed logins.        *)
(*                                                                         *)
(* A password is the number of the reset that set it.                      *)
(***************************************************************************)
EXTENDS Integers, FiniteSets

CONSTANTS Admins, Staff,   \* accounts
          Tabs,            \* each holds one session cookie and one request
          Stores,
          MaxFailures,     \* failed logins of a window before it locks
          MaxVersion       \* bound on security changes of one account

Accounts == Admins \cup Staff

AccountSessionsAssumption ==
    /\ Admins \cap Staff = {} /\ MaxFailures \in Nat \ {0} /\ MaxVersion \in Nat
    /\ IsFiniteSet(Tabs) /\ IsFiniteSet(Stores)

VARIABLES account,   \* the rows: status, password, version, assigned stores
          session,   \* per tab: the session its cookie names (none or one)
          login,     \* per tab: a login whose password is being verified
          form,      \* per administrator: the account as it was opened for editing
          window,    \* failures counted by the limiter for each user name
          guesses,   \* wrong passwords verified since the window began
          admitted   \* the last request admitted: its tab and its session

vars == <<account, session, login, form, window, guesses, admitted>>

None == {}
Active == "active"
NotActive == {"locked", "disabled"}

Init ==
    /\ account = [a \in Accounts |-> [status |-> Active, password |-> 0, version |-> 0, stores |-> {}]]
    /\ session = [t \in Tabs |-> None] /\ login = [t \in Tabs |-> None]
    /\ form = [m \in Admins |-> None]
    /\ window = [a \in Accounts |-> 0] /\ guesses = [a \in Accounts |-> 0]
    /\ admitted = None

-----------------------------------------------------------------------------
(* Logging in and serving. *)

\* Mutant of StartLogin: one failure too many.
StartLoginLate(t, a, p) ==
    /\ login[t] = None /\ session[t] = None
    /\ window[a] <= MaxFailures
    /\ login' = [login EXCEPT ![t] = {[account |-> a, tried |-> p, read |-> account[a]]}]
    /\ UNCHANGED <<account, session, form, window, guesses, admitted>>

\* The limiter is asked and the account read; then the password is hashed.
StartLogin(t, a, p) ==
    /\ login[t] = None /\ session[t] = None
    /\ window[a] < MaxFailures
    /\ login' = [login EXCEPT ![t] = {[account |-> a, tried |-> p, read |-> account[a]]}]
    /\ UNCHANGED <<account, session, form, window, guesses, admitted>>

WrongPassword(t) ==
    \E l \in login[t] :
        /\ l.tried # l.read.password
        /\ login' = [login EXCEPT ![t] = None]
        /\ window' = [window EXCEPT ![l.account] = @ + 1]
        /\ guesses' = [guesses EXCEPT ![l.account] = @ + 1]
        /\ UNCHANGED <<account, session, form, admitted>>

\* Opened with the version the credentials were read with.
Opened(l) ==
    [account |-> l.account, version |-> l.read.version, revoked |-> FALSE, password |-> l.tried]

FinishLogin(t) ==
    \E l \in login[t] :
        /\ l.tried = l.read.password
        /\ login' = [login EXCEPT ![t] = None]
        /\ window' = [window EXCEPT ![l.account] = 0]
        /\ guesses' = [guesses EXCEPT ![l.account] = 0]
        /\ session' = [session EXCEPT ![t] = IF l.read.status = Active THEN {Opened(l)} ELSE None]
        /\ UNCHANGED <<account, form, admitted>>

WindowEnds(a) ==
    /\ window[a] > 0
    /\ window' = [window EXCEPT ![a] = 0] /\ guesses' = [guesses EXCEPT ![a] = 0]
    /\ UNCHANGED <<account, session, login, form, admitted>>

\* What every request asks of its session.
Resolves(s) ==
    /\ ~s.revoked
    /\ account[s.account].version = s.version
    /\ account[s.account].status = Active

Request(t) ==
    /\ \E s \in session[t] : Resolves(s) /\ admitted' = {[tab |-> t, session |-> s]}
    /\ UNCHANGED <<account, session, login, form, window, guesses>>

\* A 401: the tab drops what it shows and asks to log in again.
Refused(t) ==
    /\ \E s \in session[t] : ~Resolves(s)
    /\ session' = [session EXCEPT ![t] = None]
    /\ UNCHANGED <<account, login, form, window, guesses, admitted>>

Logout(t) ==
    /\ session[t] # None
    /\ session' = [session EXCEPT ![t] = None]
    /\ UNCHANGED <<account, login, form, window, guesses, admitted>>

-----------------------------------------------------------------------------
(* Administration.  The form was opened by a request; it is submitted by    *)
(* another one, which is authenticated before its transaction begins.       *)

OpenForm(m, a) ==
    /\ form' = [form EXCEPT ![m] = {[account |-> a, read |-> account[a]]}]
    /\ UNCHANGED <<account, session, login, window, guesses, admitted>>

\* The version the form was opened with is still that of the account.
Expected(f) == account[f.account].version = f.read.version

Revoked(a) ==
    [t \in Tabs |-> {IF s.account = a THEN [s EXCEPT !.revoked = TRUE] ELSE s : s \in session[t]}]

Secure(a, row) ==
    /\ row.version <= MaxVersion
    /\ account' = [account EXCEPT ![a] = row]
    /\ session' = Revoked(a)

Submit(m, f, row) ==
    /\ Expected(f)
    /\ Secure(f.account, row)
    /\ form' = [form EXCEPT ![m] = None]
    /\ UNCHANGED <<login, window, guesses, admitted>>

SetStatus(m, status) ==
    \E f \in form[m] :
        /\ account[f.account].status # status
        /\ f.account = m => status = Active
        /\ Submit(m, f, [account[f.account] EXCEPT !.status = status, !.version = @ + 1])

Renewed(row) == [row EXCEPT !.password = @ + 1, !.version = @ + 1]

ResetPassword(m) == \E f \in form[m] : Submit(m, f, Renewed(account[f.account]))

\* Every assignment that is taken away advances the version by a trigger; the
\* command does it itself when it only adds.
Reassigned(row, stores) ==
    LET taken == Cardinality(row.stores \ stores)
    IN  [row EXCEPT !.stores = stores, !.version = @ + (IF taken = 0 THEN 1 ELSE taken)]

ReplaceAssignments(m, stores) ==
    \E f \in form[m] :
        /\ f.account \in Staff /\ account[f.account].status = Active
        /\ account[f.account].stores # stores
        /\ Submit(m, f, Reassigned(account[f.account], stores))

\* A store is closed: the trigger disables its account.
CloseStore(a) ==
    /\ a \in Staff /\ account[a].status = Active
    /\ Secure(a, [account[a] EXCEPT !.status = "disabled", !.version = @ + 1])
    /\ UNCHANGED <<login, form, window, guesses, admitted>>

Next ==
    \/ \E t \in Tabs :
          \/ \E a \in Accounts : \E p \in 0 .. account[a].password : StartLogin(t, a, p)
          \/ WrongPassword(t) \/ FinishLogin(t) \/ Request(t) \/ Refused(t) \/ Logout(t)
    \/ \E a \in Accounts : WindowEnds(a) \/ CloseStore(a)
    \/ \E m \in Admins :
          \/ \E a \in Accounts : OpenForm(m, a)
          \/ \E status \in {Active} \cup NotActive : SetStatus(m, status)
          \/ ResetPassword(m)
          \/ \E stores \in SUBSET Stores : ReplaceAssignments(m, stores)

Spec == Init /\ [][Next]_vars

-----------------------------------------------------------------------------
Rows == [status : {Active} \cup NotActive, password : 0 .. MaxVersion, version : 0 .. MaxVersion,
         stores : SUBSET Stores]

\* Types, and no row is opened or edited half way.
TypeOK ==
    /\ account \in [Accounts -> Rows]
    /\ \A t \in Tabs : Cardinality(session[t]) <= 1 /\ Cardinality(login[t]) <= 1
    /\ \A t \in Tabs : \A s \in session[t] : s.account \in Accounts /\ s.version \in 0 .. MaxVersion
    /\ \A m \in Admins : \A f \in form[m] : f.account \in Accounts /\ f.read \in Rows
    /\ \A a \in Accounts : window[a] \in Nat /\ guesses[a] \in Nat

\* A request is admitted only for an account that is active, with the password
\* that is in force, whatever was changed while the login was verified.
AdmittedIsCurrent ==
    admitted' # admitted =>
       \A r \in admitted' :
           /\ account[r.session.account].status = Active
           /\ account[r.session.account].password = r.session.password

\* A password or stores are changed on the account the administrator looked at:
\* nobody's change of its status, password or stores is overwritten unseen.
EditsWhatWasSeen ==
    \A a \in Accounts :
       account'[a].stores # account[a].stores \/ account'[a].password # account[a].password
       => \E m \in Admins : \E f \in form[m] : f.account = a /\ f.read = account[a]

\* However many logins run at the same time, a window verifies at most as many
\* wrong passwords beyond the limit as there are logins under way with it.
GuessesBounded ==
    \A a \in Accounts :
        guesses[a] + Cardinality({t \in Tabs : \E l \in login[t] : l.account = a /\ l.tried # l.read.password})
            <= MaxFailures + Cardinality(Tabs) - 1

\* A session that was opened with credentials read before a change is not one
\* a change can bring back.
DeadStaysDead ==
    \A t \in Tabs : \A s \in session[t] :
       ~Resolves(s) => \A r \in session'[t] : ~Resolves(r)'

=============================================================================
