---------------------------- MODULE TabSessions -----------------------------
(***************************************************************************)
(* One browser whose tabs log in on their own: every tab has a cookie of   *)
(* its own name, all of them travel with every request, and a login prunes *)
(* those of the tabs that have gone.  A login awaits the database to open  *)
(* its session, to look at those of the other tabs and to revoke each that *)
(* is too many: requests of the browser fall between all of these.         *)
(*                                                                         *)
(* A session is the tab that opened it and the number of its login.        *)
(***************************************************************************)
EXTENDS Integers, FiniteSets

CONSTANTS Tabs,
          MaxCookies,   \* MAX_TAB_SESSION_COOKIES
          MaxLogins,    \* bound on the logins of one tab
          MaxInFlight,  \* bound on logins under way at the same time
          Resolution,   \* SESSION_LAST_SEEN_RESOLUTION_MS, in ticks of the clock
          MaxTime       \* bound on the clock

TabSessionsAssumption ==
    /\ {MaxCookies, MaxLogins, MaxInFlight, Resolution} \subseteq Nat \ {0}
    /\ MaxTime \in Nat /\ IsFiniteSet(Tabs)

VARIABLES jar,      \* per tab: the login its cookie is of (0: no cookie)
          logins,   \* sessions opened by each tab
          ended,    \* sessions revoked or expired
          evicted,  \* those revoked for the limit of cookies
          clock,
          lastSeen, \* the sessions that are live, and the time stored for each
          lastUsed, \* when each of them was really used last (history)
          asked,    \* per tab: the cookies its login carried, until it looks at them
          opened,   \* tabs whose login has opened its session and not looked yet
          answer    \* per tab: the answer of its login (none or one)

vars == <<jar, logins, ended, evicted, clock, lastSeen, lastUsed, asked, opened, answer>>

Sessions == Tabs \X (1 .. MaxLogins)
InFlight == {t \in Tabs : asked[t] # {} \/ answer[t] # {}}

Init ==
    /\ jar = [t \in Tabs |-> 0] /\ logins = [t \in Tabs |-> 0]
    /\ ended = {} /\ evicted = {} /\ clock = 0
    /\ lastSeen = [s \in {} |-> 0] /\ lastUsed = [s \in {} |-> 0]
    /\ asked = [t \in Tabs |-> {}] /\ opened = {} /\ answer = [t \in Tabs |-> {}]

Live == DOMAIN lastSeen

Without(times, gone) == [s \in DOMAIN times \ gone |-> times[s]]
Now(times, s) == [r \in DOMAIN times \cup {s} |-> IF r = s THEN clock ELSE times[r]]

Tick ==
    /\ clock < MaxTime /\ clock' = clock + 1
    /\ UNCHANGED <<jar, logins, ended, evicted, lastSeen, lastUsed, asked, opened, answer>>

Login(t) ==
    /\ t \notin InFlight /\ Cardinality(InFlight) < MaxInFlight /\ logins[t] < MaxLogins
    /\ asked' = [asked EXCEPT ![t] = {jar}]
    /\ UNCHANGED <<jar, logins, ended, evicted, clock, lastSeen, lastUsed, opened, answer>>

\* createSession.
Open(t) ==
    /\ asked[t] # {} /\ t \notin opened
    /\ opened' = opened \cup {t} /\ logins' = [logins EXCEPT ![t] = @ + 1]
    /\ lastSeen' = Now(lastSeen, <<t, logins[t] + 1>>)
    /\ lastUsed' = Now(lastUsed, <<t, logins[t] + 1>>)
    /\ UNCHANGED <<jar, ended, evicted, clock, asked, answer>>

\* The other tabs' cookies that came with the request.
Others(t, cookies) == {<<u, cookies[u]>> : u \in {v \in Tabs \ {t} : cookies[v] # 0}}

\* Those that may stay: as many as the limit lets beside the tab that logs in,
\* the last seen first.  The order of the header breaks ties; here, any.
Kept(live) ==
    {kept \in SUBSET live :
        /\ Cardinality(kept) < MaxCookies
        /\ kept # live => Cardinality(kept) = MaxCookies - 1
        /\ \A k \in kept, s \in live \ kept : lastSeen[k] >= lastSeen[s]}

\* inspectSessions: it is settled which sessions will be revoked and which
\* cookies cleared, by the names of their tabs.
Inspect(t) ==
    \E cookies \in asked[t] : \E kept \in Kept(Others(t, cookies) \cap Live) :
       LET others == Others(t, cookies) IN
       /\ t \in opened /\ opened' = opened \ {t}
       /\ asked' = [asked EXCEPT ![t] = {}]
       /\ answer' = [answer EXCEPT ![t] =
              {[login |-> logins[t], clear |-> {s[1] : s \in others \ kept},
                revoking |-> (others \cap Live) \ kept]}]
       /\ UNCHANGED <<jar, logins, ended, evicted, clock, lastSeen, lastUsed>>

\* revokeSession, one of them after the other.  One that has ended by now
\* stays as it is.
Revoke(t, s) ==
    \E reply \in answer[t] :
       /\ s \in reply.revoking
       /\ answer' = [answer EXCEPT ![t] = {[reply EXCEPT !.revoking = @ \ {s}]}]
       /\ ended' = ended \cup ({s} \cap Live) /\ evicted' = evicted \cup ({s} \cap Live)
       /\ lastSeen' = Without(lastSeen, {s}) /\ lastUsed' = Without(lastUsed, {s})
       /\ UNCHANGED <<jar, logins, clock, asked, opened>>

\* The answer arrives.  The browser applies Set-Cookie by name.
Receive(t) ==
    \E reply \in answer[t] :
        /\ reply.revoking = {}
        /\ jar' = [u \in Tabs |-> IF u = t THEN reply.login ELSE IF u \in reply.clear THEN 0 ELSE jar[u]]
        /\ answer' = [answer EXCEPT ![t] = {}]
        /\ UNCHANGED <<logins, ended, evicted, clock, lastSeen, lastUsed, asked, opened>>

Current(t) == <<t, jar[t]>>

\* Any request of a tab (resolveSession); the time stored is renewed only when
\* it is Resolution old.
Use(t) ==
    /\ Current(t) \in Live
    /\ lastUsed' = Now(lastUsed, Current(t))
    /\ lastSeen' = IF clock - lastSeen[Current(t)] < Resolution THEN lastSeen
                   ELSE Now(lastSeen, Current(t))
    /\ UNCHANGED <<jar, logins, ended, evicted, clock, asked, opened, answer>>

Logout(t) ==
    /\ jar[t] # 0 /\ t \notin InFlight
    /\ jar' = [jar EXCEPT ![t] = 0] /\ ended' = ended \cup {Current(t)}
    /\ lastSeen' = Without(lastSeen, {Current(t)}) /\ lastUsed' = Without(lastUsed, {Current(t)})
    /\ UNCHANGED <<logins, evicted, clock, asked, opened, answer>>

Expire(s) ==
    /\ s \in Live /\ ended' = ended \cup {s}
    /\ lastSeen' = Without(lastSeen, {s}) /\ lastUsed' = Without(lastUsed, {s})
    /\ UNCHANGED <<jar, logins, evicted, clock, asked, opened, answer>>

Next ==
    \/ Tick
    \/ \E t \in Tabs : Login(t) \/ Open(t) \/ Inspect(t) \/ Receive(t) \/ Use(t) \/ Logout(t)
    \/ \E t \in Tabs, s \in Sessions : Revoke(t, s)
    \/ \E s \in Sessions : Expire(s)

Spec == Init /\ [][Next]_vars

-----------------------------------------------------------------------------
TypeOK ==
    /\ jar \in [Tabs -> 0 .. MaxLogins] /\ logins \in [Tabs -> 0 .. MaxLogins]
    /\ ended \subseteq Sessions /\ evicted \subseteq ended /\ Live \subseteq Sessions
    /\ Live \cap ended = {} /\ clock \in 0 .. MaxTime
    /\ DOMAIN lastUsed = Live
    /\ \A s \in Live : lastSeen[s] \in 0 .. lastUsed[s] /\ lastUsed[s] \in 0 .. clock

Cookies == Cardinality({t \in Tabs : jar[t] # 0})

\* The Cookie header stays bounded: only logins that were answered at the same
\* time, without knowing of each other, can take it past the limit.
JarBounded == Cookies <= MaxCookies + MaxInFlight - 1

\* A browser that never has more tabs than the limit loses none of them to it.
FewTabsUndisturbed == Cardinality(Tabs) <= MaxCookies => evicted = {}

Revoking(t) == UNION {reply.revoking : reply \in answer[t]}

\* Tabs that were used no earlier than s, or less than Resolution before it.
AsRecent(t, s) ==
    {o \in Live \ {s} : o[1] # t /\ lastUsed[o] + Resolution > lastUsed[s]}

\* The sessions revoked for the limit are the least recently used, as far as
\* the time stored can tell: when a login settles on one, as many others as
\* may stay were used no earlier, or less than Resolution before it.  (One that
\* is used after that is revoked all the same.)
LeastUsedRevoked ==
    /\ \A t \in Tabs : \A s \in Revoking(t)' \ Revoking(t) :
          Cardinality(AsRecent(t, s)) >= MaxCookies - 1
    /\ evicted' \ evicted \subseteq UNION {Revoking(t) : t \in Tabs}

=============================================================================
