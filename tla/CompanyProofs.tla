---------------------------- MODULE CompanyProofs ----------------------------
(***************************************************************************)
(* The company, for every number of what it has. What administrators edit  *)
(* from pages and forms that may be out of date, and the logins such edits *)
(* have to end: the conversion ratios of products (ConversionHistory), the *)
(* groups, stores and accounts (StoreLifecycle), the sessions of accounts  *)
(* (AccountSessions) and of the tabs of a browser (TabSessions). The same  *)
(* accounts on the in-memory server (MemoryAccounts) and the orders of its *)
(* stores (MemoryOrders). The figures of the tills (TillSync).             *)
(*                                                                         *)
(* Each part has its variables and an instance of its module for the       *)
(* constants that a record c names: Ratio(c), Life(c), Access(c),          *)
(* Tabbed(c), Server(c), Orders(c) and Till(c).                            *)
(*                                                                         *)
(* Ratios: one ratio a day, a history without branches, a past that stays, *)
(* and the refinement of ConversionCatalog.  All rest on the history being *)
(* a line: a version that is not retired is the last one, so a page loaded *)
(* long ago can only replace or retire the last version, or is refused.    *)
(*                                                                         *)
(* Stores: an open store is of an active group, a closed one has none of   *)
(* the work that a closing counts and keeps the goods that were issued to  *)
(* it as it left them, no store has two working accounts, and an edit of a *)
(* store writes what follows the row its administrator saw.  What a form   *)
(* shows is the row of its store or an older one, so equal versions mean   *)
(* equal rows; the rest is that every command asks what it breaks.         *)
(*                                                                         *)
(* Accounts: guesses are bounded, a request is let in only while it may    *)
(* be, an edit is of the account as it was opened.  A login and a form     *)
(* compare the version they read with the one they find (ReadsTell).       *)
(*                                                                         *)
(* Tabs: cookies stay bounded, although logins and their answers overlap,  *)
(* and the sessions revoked for the limit were the least used as far as    *)
(* the times stored can tell.  What each answer leaves is known from the   *)
(* order in which the logins began (JarOrdered), and a time stored is less *)
(* than Resolution behind the last use (Timed).                            *)
(*                                                                         *)
(* In memory: rows agree with each other and a session reaches no more     *)
(* than when it began; a name has no more active accounts than there were  *)
(* commands in progress at once, since each looked before it began.        *)
(*                                                                         *)
(* Orders: a request is numbered as no live one of its store, and slots    *)
(* are taken and released as RequestSlots promises, because a store that   *)
(* may order has at most one live request.                                 *)
(*                                                                         *)
(* Tills: the figures followed never go back and a settled month is        *)
(* complete. Both rest on what a call knows from the phase it began in     *)
(* (CallsKnow).                                                            *)
(***************************************************************************)
EXTENDS Integers, Sequences, FiniteSetTheorems, TLAPS

\* The ratios of a product
VARIABLES rows, today, page

\* Groups, stores and the accounts of stores
VARIABLES storeGroup, storeRow, storeAccount, creating, storeForm, work,
          moving

\* Accounts and their sessions
VARIABLES account, tabSession, login, accountForm, failureWindow, guesses,
          admitted

\* The session cookies of the tabs of a browser
VARIABLES jar, logins, ended, evicted, tabClock, lastSeen, lastUsed, asked,
          opened, loginAnswer

\* Accounts of the in-memory server
VARIABLES serverAccount, pending, session, assignment, store, group

\* Orders of the in-memory server
VARIABLES orderClock, serverSession, serverRequest

\* The figures of the tills
VARIABLES phase, polledPhase, till, closing, charged, age, settled, targets,
          calls, crashes

-----------------------------------------------------------------------------
(* The types of ratios.                                                    *)

\* ConversionHistory with the constants that c names.
Ratio(c) == INSTANCE ConversionHistory WITH
    Admins <- c.admins, Ratios <- c.ratios, MaxDay <- c.maxDay,
    MaxVersions <- c.maxVersions

\* Rows and pages are sequences, besides what TypeOK says of their elements.
Typed(c) ==
    /\ rows \in Seq(Ratio(c)!Rows) /\ Len(rows) <= c.maxVersions
    /\ \A v \in DOMAIN rows : rows[v].retired => rows[v].to # Ratio(c)!C!NoEnd
    /\ page \in [c.admins -> Seq(Ratio(c)!Rows)]
    /\ today \in Ratio(c)!C!Days

LEMMA TypedTypeOK ==
    ASSUME NEW CONSTANT c
    PROVE  Typed(c) => Ratio(c)!TypeOK
BY DEF Typed, Ratio!TypeOK

\* A day a command names, and the version it writes.
LEMMA RowTypes ==
    ASSUME NEW CONSTANT c, Ratio(c)!HistoryAssumption, NEW ratio \in c.ratios,
           NEW p \in Ratio(c)!C!Periods
    PROVE  /\ c.maxDay \in Nat /\ c.maxVersions \in Nat
           /\ p[1] \in Ratio(c)!C!Days /\ p[1] # Ratio(c)!C!NoEnd
              /\ Ratio(c)!C!NewRow(ratio, p) \in Ratio(c)!Rows
           /\ Ratio(c)!C!NewRow(ratio, p).from = p[1] /\ ~Ratio(c)!C!NewRow(ratio, p).retired
<1>1. c.maxDay \in Nat /\ c.maxVersions \in Nat
  BY DEF Ratio!HistoryAssumption
<1>2. p[1] \in 0 .. c.maxDay /\ p[2] \in 1 .. c.maxDay + 1
  BY DEF Ratio!C!Periods, Ratio!C!Days, Ratio!C!NoEnd
<1> QED BY <1>1, <1>2 DEF Ratio!C!Days, Ratio!C!NoEnd, Ratio!C!NewRow, Ratio!Rows

LEMMA RetirementTypes ==
    ASSUME NEW CONSTANT c, Ratio(c)!HistoryAssumption, today \in Ratio(c)!C!Days,
           NEW from \in Ratio(c)!C!Days
    PROVE  Ratio(c)!C!RetirementDate(from) \in Ratio(c)!C!Days
           /\ Ratio(c)!C!RetirementDate(from) # Ratio(c)!C!NoEnd
BY DEF Ratio!HistoryAssumption, Ratio!C!RetirementDate, Ratio!C!Days, Ratio!C!NoEnd

\* Ending a version changes its end only.
LEMMA EndedTypes ==
    ASSUME NEW CONSTANT c, Ratio(c)!HistoryAssumption, NEW row \in Ratio(c)!Rows,
           NEW day \in Ratio(c)!C!Days
    PROVE  /\ Ratio(c)!C!Ended(row, day) \in Ratio(c)!Rows
           /\ Ratio(c)!C!Ended(row, day).retired /\ Ratio(c)!C!Ended(row, day).to = day
              /\ day # Ratio(c)!C!NoEnd
           /\ Ratio(c)!C!Ended(row, day).ratio = row.ratio
              /\ Ratio(c)!C!Ended(row, day).from = row.from
<1>1. c.maxDay \in Nat
  BY DEF Ratio!HistoryAssumption
<1>2. day # Ratio(c)!C!NoEnd /\ day \in 0 .. Ratio(c)!C!NoEnd
  BY <1>1 DEF Ratio!C!Days, Ratio!C!NoEnd
<1>3. Ratio(c)!C!Ended(row, day) = [row EXCEPT !.to = day, !.retired = TRUE]
  BY DEF Ratio!C!Ended
<1>4. /\ Ratio(c)!C!Ended(row, day).retired = TRUE /\ Ratio(c)!C!Ended(row, day).to = day
      /\ Ratio(c)!C!Ended(row, day).ratio = row.ratio
         /\ Ratio(c)!C!Ended(row, day).from = row.from
  BY <1>3 DEF Ratio!Rows
<1>5. Ratio(c)!C!Ended(row, day) \in Ratio(c)!Rows
  BY <1>2, <1>3 DEF Ratio!Rows
<1> QED BY <1>2, <1>4, <1>5

\* A version more, and a version that ends, element by element.
LEMMA Appended ==
    ASSUME NEW CONSTANT c, NEW s \in Seq(Ratio(c)!Rows), NEW row \in Ratio(c)!Rows
    PROVE  /\ Append(s, row) \in Seq(Ratio(c)!Rows)
           /\ Len(Append(s, row)) = Len(s) + 1 /\ Len(s) \in Nat
           /\ DOMAIN Append(s, row) = 1 .. Len(s) + 1 /\ DOMAIN s = 1 .. Len(s)
           /\ Append(s, row)[Len(s) + 1] = row
           /\ \A v \in DOMAIN s : Append(s, row)[v] = s[v]
OBVIOUS

EndedAt(c, v, day) == [rows EXCEPT ![v] = Ratio(c)!C!Ended(rows[v], day)]

LEMMA EndedRows ==
    ASSUME NEW CONSTANT c, Ratio(c)!HistoryAssumption, Typed(c), NEW v \in DOMAIN rows,
           NEW day \in Ratio(c)!C!Days,
           NEW next, next = EndedAt(c, v, day)
    PROVE  /\ next \in Seq(Ratio(c)!Rows) /\ Len(next) = Len(rows) /\ DOMAIN next = DOMAIN rows
           /\ rows[v] \in Ratio(c)!Rows
           /\ next[v].retired /\ next[v].to # Ratio(c)!C!NoEnd
           /\ next[v].ratio = rows[v].ratio /\ next[v].from = rows[v].from
           /\ \A w \in DOMAIN rows : w # v => next[w] = rows[w]
<1>1. rows \in Seq(Ratio(c)!Rows) /\ rows[v] \in Ratio(c)!Rows
  BY DEF Typed
<1> DEFINE row == Ratio(c)!C!Ended(rows[v], day)
<1>2. /\ row \in Ratio(c)!Rows /\ row.retired /\ row.to # Ratio(c)!C!NoEnd
      /\ row.ratio = rows[v].ratio /\ row.from = rows[v].from
  BY <1>1, EndedTypes
<1>3. next = [rows EXCEPT ![v] = row]
  BY DEF EndedAt
<1> HIDE DEF row
<1>4. /\ next \in Seq(Ratio(c)!Rows) /\ Len(next) = Len(rows) /\ DOMAIN next = DOMAIN rows
      /\ next[v] = row /\ \A w \in DOMAIN rows : w # v => next[w] = rows[w]
  BY <1>1, <1>2, <1>3
<1> QED BY <1>1, <1>2, <1>4

-----------------------------------------------------------------------------
(* The commands on ratios.                                                 *)

HistoryInv(c) == Typed(c) /\ Ratio(c)!OneRatioADay /\ Ratio(c)!HistoryIsALine

LEMMA OverlapSymmetric ==
    ASSUME NEW CONSTANT c, NEW a, NEW b
    PROVE  Ratio(c)!Overlap(a, b) <=> Ratio(c)!Overlap(b, a)
BY DEF Ratio!Overlap

\* Only the last version of a line is open to change.
LEMMA OpenIsLast ==
    ASSUME NEW CONSTANT c, HistoryInv(c), NEW v \in DOMAIN rows, ~rows[v].retired
    PROVE  v = Len(rows)
<1>1. DOMAIN rows = 1 .. Len(rows) /\ Len(rows) \in Nat
  BY DEF HistoryInv, Typed
<1>2. ASSUME v # Len(rows)
      PROVE  FALSE
  <2>1. Len(rows) \in DOMAIN rows /\ v \in 1 .. Len(rows) - 1
    BY <1>1, <1>2
  <2> QED BY <2>1 DEF HistoryInv, Ratio!HistoryIsALine
<1> QED BY <1>2

\* A line goes on with a version that begins later, once the last is retired.
LEMMA LineGrows ==
    ASSUME NEW CONSTANT c, Ratio(c)!HistoryAssumption, NEW s \in Seq(Ratio(c)!Rows),
           NEW row \in Ratio(c)!Rows,
           \A v \in DOMAIN s : \A w \in 1 .. v - 1 : s[w].retired /\ s[w].from < s[v].from,
           s # <<>> => s[Len(s)].retired /\ row.from > s[Len(s)].from
    PROVE  \A v \in DOMAIN Append(s, row) : \A w \in 1 .. v - 1 :
              Append(s, row)[w].retired /\ Append(s, row)[w].from < Append(s, row)[v].from
<1> DEFINE t == Append(s, row)
           n == Len(s)
<1>1. /\ t \in Seq(Ratio(c)!Rows) /\ n \in Nat /\ DOMAIN t = 1 .. n + 1 /\ DOMAIN s = 1 .. n
      /\ t[n + 1] = row /\ \A v \in DOMAIN s : t[v] = s[v]
  BY Appended
<1>2. s # <<>> => s[n].retired /\ row.from > s[n].from
  OBVIOUS
<1>3. \A r \in Ratio(c)!Rows : r.from \in Int
  BY DEF Ratio!Rows, Ratio!C!Days
<1>4. row.from \in Int /\ \A v \in DOMAIN s : s[v].from \in Int
  BY <1>1, <1>3
<1> HIDE DEF t, n
<1>5. ASSUME NEW v \in DOMAIN t, NEW w \in 1 .. v - 1
      PROVE  t[w].retired /\ t[w].from < t[v].from
  <2>1. w \in DOMAIN s /\ t[w] = s[w]
    BY <1>1
  <2>2. CASE v \in DOMAIN s
    BY <1>1, <2>1, <2>2
  <2>3. CASE v = n + 1
    <3>1. n \in DOMAIN s /\ s # <<>>
      BY <1>1, <2>1
    <3>2. CASE w = n
      BY <1>1, <1>2, <2>1, <2>3, <3>1, <3>2
    <3>3. CASE w \in 1 .. n - 1
      <4>1. s[w].retired /\ s[w].from < s[n].from
        BY <3>1, <3>3
      <4>2. s[w].from < row.from
        BY <1>2, <1>4, <2>1, <3>1, <4>1
      <4> QED BY <1>1, <2>1, <2>3, <4>1, <4>2
    <3> QED BY <1>1, <2>1, <3>2, <3>3
  <2> QED BY <1>1, <2>2, <2>3
<1> QED BY <1>5 DEF t

\* The periods stay apart when the new one is apart from each.
LEMMA ApartGrows ==
    ASSUME NEW CONSTANT c, NEW s \in Seq(Ratio(c)!Rows), NEW row \in Ratio(c)!Rows,
           \A v, w \in DOMAIN s : v # w => ~Ratio(c)!Overlap(s[v], s[w]),
           Ratio(c)!PeriodsApart(Append(s, row), Len(Append(s, row)))
    PROVE  \A v, w \in DOMAIN Append(s, row) :
              v # w => ~Ratio(c)!Overlap(Append(s, row)[v], Append(s, row)[w])
<1> DEFINE t == Append(s, row)
           n == Len(s)
<1>1. /\ n \in Nat /\ DOMAIN t = 1 .. n + 1 /\ DOMAIN s = 1 .. n /\ Len(t) = n + 1
      /\ \A v \in DOMAIN s : t[v] = s[v]
  BY Appended
<1>2. \A w \in DOMAIN t \ {n + 1} : ~Ratio(c)!Overlap(t[n + 1], t[w])
  BY <1>1 DEF Ratio!PeriodsApart
<1> HIDE DEF t, n
<1>3. ASSUME NEW v \in DOMAIN t, NEW w \in DOMAIN t, v # w
      PROVE  ~Ratio(c)!Overlap(t[v], t[w])
  <2>1. CASE v = n + 1
    BY <1>2, <1>3, <2>1
  <2>2. CASE w = n + 1
    BY <1>2, <1>3, <2>2, OverlapSymmetric
  <2>3. CASE v \in DOMAIN s /\ w \in DOMAIN s
    BY <1>1, <1>3, <2>3
  <2> QED BY <1>1, <2>1, <2>2, <2>3
<1> QED BY <1>3 DEF t

\* What was said of the versions so far stays said in s.
Extends(s) ==
    \A v \in DOMAIN rows :
       /\ v \in DOMAIN s /\ s[v].ratio = rows[v].ratio /\ s[v].from = rows[v].from
       /\ rows[v].retired => s[v] = rows[v]

\* s is a history: a line of versions, each with days of its own.
History(c, s) ==
    /\ s \in Seq(Ratio(c)!Rows) /\ Len(s) <= c.maxVersions
    /\ \A v \in DOMAIN s : s[v].retired => s[v].to # Ratio(c)!C!NoEnd
    /\ \A v, w \in DOMAIN s : v # w => ~Ratio(c)!Overlap(s[v], s[w])
    /\ \A v \in DOMAIN s : \A w \in 1 .. v - 1 : s[w].retired /\ s[w].from < s[v].from

LEMMA HistoryNow ==
    ASSUME NEW CONSTANT c
    PROVE  HistoryInv(c) <=> History(c, rows) /\ page \in [c.admins -> Seq(Ratio(c)!Rows)]
           /\ today \in Ratio(c)!C!Days
BY DEF HistoryInv, Typed, Ratio!OneRatioADay, Ratio!HistoryIsALine, History

LEMMA HistoryThen ==
    ASSUME NEW CONSTANT c
    PROVE  HistoryInv(c)' <=> History(c, rows')
           /\ page' \in [c.admins -> Seq(Ratio(c)!Rows)] /\ today' \in Ratio(c)!C!Days
BY DEF HistoryInv, Typed, Ratio!OneRatioADay, Ratio!HistoryIsALine, History, Ratio!Rows,
   Ratio!Overlap, Ratio!Covers, Ratio!C!Days, Ratio!C!NoEnd

\* A new version after the last, apart from all others.
LEMMA GrowthIsHistory ==
    ASSUME NEW CONSTANT c, Ratio(c)!HistoryAssumption, NEW s, History(c, s),
           Len(s) < c.maxVersions,
           NEW row \in Ratio(c)!Rows, ~row.retired,
           Ratio(c)!PeriodsApart(Append(s, row), Len(Append(s, row))),
           s # <<>> => s[Len(s)].retired /\ row.from > s[Len(s)].from
    PROVE  History(c, Append(s, row)) /\ \A v \in DOMAIN s : Append(s, row)[v] = s[v]
<1> DEFINE t == Append(s, row)
<1>1. s \in Seq(Ratio(c)!Rows) /\ c.maxVersions \in Nat
  BY DEF History, Ratio!HistoryAssumption
<1>2. /\ t \in Seq(Ratio(c)!Rows) /\ Len(t) = Len(s) + 1 /\ Len(s) \in Nat
      /\ DOMAIN t = 1 .. Len(s) + 1 /\ DOMAIN s = 1 .. Len(s) /\ t[Len(s) + 1] = row
      /\ \A v \in DOMAIN s : t[v] = s[v]
  BY <1>1, Appended
<1>3. \A v, w \in DOMAIN t : v # w => ~Ratio(c)!Overlap(t[v], t[w])
  BY <1>1, ApartGrows DEF History
<1>4. \A v \in DOMAIN t : \A w \in 1 .. v - 1 : t[w].retired /\ t[w].from < t[v].from
  BY <1>1, LineGrows DEF History
<1> HIDE DEF t
<1>5. \A v \in DOMAIN t : t[v].retired => t[v].to # Ratio(c)!C!NoEnd
  BY <1>2 DEF History
<1>6. Len(t) <= c.maxVersions
  BY <1>1, <1>2
<1>7. History(c, t)
  BY <1>2, <1>3, <1>4, <1>5, <1>6 DEF History
<1> QED BY <1>2, <1>7 DEF t

\* Ending a version that is not retired ends the last one, and leaves the
\* others and what it said itself alone.
LEMMA EndIsHistory ==
    ASSUME NEW CONSTANT c, Ratio(c)!HistoryAssumption, HistoryInv(c), NEW v \in DOMAIN rows,
           ~rows[v].retired,
           NEW day \in Ratio(c)!C!Days, Ratio(c)!EndRow(v, day),
           NEW next, next = EndedAt(c, v, day)
    PROVE  /\ History(c, next) /\ Len(next) = Len(rows) /\ v = Len(next)
           /\ next[v].retired /\ next[v].from = rows[v].from
           /\ Extends(next)
<1>1. /\ next \in Seq(Ratio(c)!Rows) /\ Len(next) = Len(rows) /\ DOMAIN next = DOMAIN rows
      /\ next[v].retired /\ next[v].to # Ratio(c)!C!NoEnd
      /\ next[v].ratio = rows[v].ratio /\ next[v].from = rows[v].from
      /\ \A w \in DOMAIN rows : w # v => next[w] = rows[w]
  <2>1. Typed(c)
    BY DEF HistoryInv
  <2> QED BY <2>1, EndedRows
<1>2. v = Len(rows) /\ DOMAIN rows = 1 .. Len(rows) /\ Len(rows) \in Nat
  BY OpenIsLast DEF HistoryInv, Typed
<1>3. \A w \in DOMAIN next \ {v} : ~Ratio(c)!Overlap(next[v], next[w])
  BY DEF Ratio!EndRow, Ratio!PeriodsApart, EndedAt
<1>4. ASSUME NEW x \in DOMAIN next, NEW w \in DOMAIN next, x # w
      PROVE  ~Ratio(c)!Overlap(next[x], next[w])
  <2>1. CASE x = v
    BY <1>3, <1>4, <2>1
  <2>2. CASE w = v
    BY <1>3, <1>4, <2>2, OverlapSymmetric
  <2>3. CASE x # v /\ w # v
    BY <1>1, <1>4, <2>3 DEF HistoryInv, Ratio!OneRatioADay
  <2> QED BY <2>1, <2>2, <2>3
<1>5. ASSUME NEW x \in DOMAIN next, NEW w \in 1 .. x - 1
      PROVE  next[w].retired /\ next[w].from < next[x].from
  <2>0. x \in 1 .. Len(rows)
    BY <1>1, <1>2
  <2>1. w \in 1 .. Len(rows) /\ w # Len(rows) /\ w \in DOMAIN rows /\ w # v
    BY <1>2, <2>0
  <2>2. rows[w].retired /\ rows[w].from < rows[x].from
    BY <1>1 DEF HistoryInv, Ratio!HistoryIsALine
  <2> QED BY <1>1, <2>1, <2>2
<1>6. \A w \in DOMAIN next : next[w].retired => next[w].to # Ratio(c)!C!NoEnd
  BY <1>1 DEF HistoryInv, Typed
<1>7. History(c, next)
  BY <1>1, <1>4, <1>5, <1>6 DEF History, HistoryInv, Typed
<1>8. Extends(next)
  BY <1>1 DEF Extends
<1> QED BY <1>1, <1>2, <1>7, <1>8

LEMMA CreateIsHistory ==
    ASSUME NEW CONSTANT c, Ratio(c)!HistoryAssumption, HistoryInv(c), NEW m \in c.admins,
           NEW ratio \in c.ratios,
           NEW p \in Ratio(c)!C!Periods,
           Ratio(c)!CreateConversion(m, ratio, p)
    PROVE  HistoryInv(c)' /\ Extends(rows') /\ Ratio(c)!C!Next
<1> DEFINE row == Ratio(c)!C!NewRow(ratio, p)
<1>1. row \in Ratio(c)!Rows /\ row.from = p[1] /\ ~row.retired
  BY RowTypes
<1>2. History(c, rows) /\ rows \in Seq(Ratio(c)!Rows) /\ c.maxVersions \in Nat
  BY HistoryNow DEF History, Ratio!HistoryAssumption
<1>3. /\ rows' = Append(rows, row) /\ Len(rows) < c.maxVersions
      /\ Ratio(c)!PeriodsApart(Append(rows, row), Len(Append(rows, row)))
      /\ UNCHANGED <<today, page>>
  BY DEF Ratio!CreateConversion, Ratio!C!Latest
<1>4. rows # <<>> => /\ rows[Len(rows)].retired /\ p[1] > rows[Len(rows)].from
                     /\ p[1] >= rows[Len(rows)].to
  BY DEF Ratio!CreateConversion, Ratio!AppendAfter, Ratio!C!Latest
<1>5. Ratio(c)!C!Append1(row)
  BY <1>3 DEF Ratio!C!Append1, Ratio!C!Latest
<1>6. ASSUME rows = <<>>
      PROVE  Ratio(c)!C!Next
  <2>1. Ratio(c)!C!CreateFirst(ratio, p)
    BY <1>5, <1>6 DEF Ratio!C!CreateFirst
  <2> QED BY <2>1 DEF Ratio!C!Next
<1>7. ASSUME rows # <<>>
      PROVE  Ratio(c)!C!Next
  <2>1. Len(rows) \in 1 .. c.maxVersions
    BY <1>2, <1>3, <1>7
  <2>2. Ratio(c)!C!Resume(Len(rows), ratio, p)
    BY <1>4, <1>5, <1>7 DEF Ratio!C!Resume, Ratio!C!Latest
  <2> QED BY <2>1, <2>2 DEF Ratio!C!Next
<1>8. rows # <<>> => rows[Len(rows)].retired /\ row.from > rows[Len(rows)].from
  BY <1>1, <1>4
<1> HIDE DEF row
<1>9. History(c, rows') /\ \A v \in DOMAIN rows : rows'[v] = rows[v]
  BY <1>1, <1>2, <1>3, <1>8, GrowthIsHistory
<1>10. DOMAIN rows \subseteq DOMAIN rows'
  BY <1>1, <1>2, <1>3, Appended
<1>11. HistoryInv(c)'
  BY <1>3, <1>9, HistoryNow, HistoryThen
<1> QED BY <1>6, <1>7, <1>9, <1>10, <1>11 DEF Extends

LEMMA ReplaceIsHistory ==
    ASSUME NEW CONSTANT c, Ratio(c)!HistoryAssumption, HistoryInv(c), NEW m \in c.admins,
           NEW ratio \in c.ratios,
           NEW p \in Ratio(c)!C!Periods, NEW v \in DOMAIN rows,
           Ratio(c)!ReplaceConversion(m, v, ratio, p)
    PROVE  HistoryInv(c)' /\ Extends(rows') /\ Ratio(c)!C!Next
<1> DEFINE row  == Ratio(c)!C!NewRow(ratio, p)
           next == EndedAt(c, v, p[1])
<1>1. row \in Ratio(c)!Rows /\ row.from = p[1] /\ ~row.retired /\ p[1] \in Ratio(c)!C!Days
  BY RowTypes
<1>2. rows \in Seq(Ratio(c)!Rows) /\ Len(rows) \in Nat /\ DOMAIN rows = 1 .. Len(rows)
      /\ c.maxVersions \in Nat
  BY DEF HistoryInv, Typed, Ratio!HistoryAssumption
<1>3. /\ rows' = Append(next, row) /\ Len(rows) < c.maxVersions
      /\ ~rows[v].retired /\ p[1] > rows[v].from /\ Ratio(c)!EndRow(v, p[1])
      /\ Ratio(c)!PeriodsApart(Append(next, row), Len(Append(next, row)))
      /\ UNCHANGED <<today, page>>
  BY DEF Ratio!ReplaceConversion, Ratio!Replaceable, Ratio!C!Latest, EndedAt
<1>4. Ratio(c)!C!Replace(v, ratio, p)
  BY <1>3 DEF Ratio!C!Replace, Ratio!C!Latest, EndedAt
<1>5. Ratio(c)!C!Next
  <2>1. v \in 1 .. c.maxVersions
    BY <1>2, <1>3
  <2> QED BY <1>4, <2>1 DEF Ratio!C!Next
<1>6. /\ History(c, next) /\ Len(next) = Len(rows) /\ v = Len(next)
      /\ next[v].retired /\ next[v].from = rows[v].from
      /\ Extends(next)
  BY <1>1, <1>3, EndIsHistory
<1> HIDE DEF row, next
<1>7. History(c, rows') /\ \A w \in DOMAIN next : rows'[w] = next[w]
  <2>1. next # <<>> => next[Len(next)].retired /\ row.from > next[Len(next)].from
    BY <1>1, <1>3, <1>6
  <2> QED BY <1>1, <1>3, <1>6, <2>1, GrowthIsHistory
<1>8. DOMAIN next \subseteq DOMAIN rows'
  BY <1>1, <1>3, <1>6, Appended DEF History
<1>9. HistoryInv(c)'
  BY <1>3, <1>7, HistoryNow, HistoryThen
<1>10. Extends(rows')
  BY <1>6, <1>7, <1>8 DEF Extends
<1> QED BY <1>5, <1>9, <1>10

LEMMA RetireIsHistory ==
    ASSUME NEW CONSTANT c, Ratio(c)!HistoryAssumption, HistoryInv(c), NEW m \in c.admins,
           NEW v \in DOMAIN rows, Ratio(c)!RetireConversion(m, v)
    PROVE  HistoryInv(c)' /\ Extends(rows') /\ Ratio(c)!C!Next
<1> DEFINE day == Ratio(c)!C!RetirementDate(rows[v].from)
<1>1. /\ rows' = EndedAt(c, v, day)
      /\ ~rows[v].retired /\ Ratio(c)!EndRow(v, day) /\ UNCHANGED <<today, page>>
  BY DEF Ratio!RetireConversion, EndedAt
<1>2. /\ rows \in Seq(Ratio(c)!Rows) /\ Len(rows) <= c.maxVersions /\ Len(rows) \in Nat
      /\ DOMAIN rows = 1 .. Len(rows) /\ c.maxVersions \in Nat
         /\ rows[v].from \in Ratio(c)!C!Days
  <2>1. rows \in Seq(Ratio(c)!Rows) /\ Len(rows) <= c.maxVersions /\ c.maxVersions \in Nat
    BY DEF HistoryInv, Typed, Ratio!HistoryAssumption
  <2>2. rows[v] \in Ratio(c)!Rows
    BY <2>1
  <2>3. rows[v].from \in Ratio(c)!C!Days
    BY <2>2 DEF Ratio!Rows
  <2> QED BY <2>1, <2>3
<1>3. day \in Ratio(c)!C!Days
  BY <1>2, RetirementTypes DEF HistoryInv, Typed
<1>4. Ratio(c)!C!Next
  <2>1. v \in 1 .. c.maxVersions
    BY <1>2
  <2>2. Ratio(c)!C!Retire(v)
    BY <1>1 DEF Ratio!C!Retire, EndedAt
  <2> QED BY <2>1, <2>2 DEF Ratio!C!Next
<1> HIDE DEF day
<1>5. History(c, rows') /\ Extends(rows')
  BY <1>1, <1>3, EndIsHistory
<1>6. HistoryInv(c)'
  BY <1>1, <1>5, HistoryNow, HistoryThen
<1> QED BY <1>4, <1>5, <1>6

LEMMA NextIsHistory ==
    ASSUME NEW CONSTANT c, Ratio(c)!HistoryAssumption, HistoryInv(c),
           [Ratio(c)!Next]_(Ratio(c)!vars)
    PROVE  HistoryInv(c)' /\ Extends(rows') /\ [Ratio(c)!C!Next]_<<rows, today>>
<1>1. History(c, rows) /\ page \in [c.admins -> Seq(Ratio(c)!Rows)]
      /\ today \in Ratio(c)!C!Days /\ rows \in Seq(Ratio(c)!Rows)
  BY HistoryNow DEF History
<1>2. Extends(rows)
  BY DEF Extends
<1>3. CASE Ratio(c)!Tomorrow
  <2>1. UNCHANGED <<rows, page>> /\ today' \in Ratio(c)!C!Days
    BY <1>1, <1>3 DEF Ratio!Tomorrow, Ratio!C!Tomorrow, Ratio!C!Days, Ratio!HistoryAssumption
  <2>2. HistoryInv(c)'
    BY <1>1, <2>1, HistoryThen
  <2>3. Ratio(c)!C!Next
    BY <1>3 DEF Ratio!Tomorrow, Ratio!C!Next
  <2> QED BY <1>2, <2>1, <2>2, <2>3
<1>4. CASE UNCHANGED Ratio(c)!vars
  <2>1. HistoryInv(c)'
    BY <1>1, <1>4, HistoryThen DEF Ratio!vars
  <2> QED BY <1>2, <1>4, <2>1 DEF Ratio!vars
<1>5. ASSUME NEW m \in c.admins, Ratio(c)!Load(m)
      PROVE  HistoryInv(c)' /\ Extends(rows') /\ [Ratio(c)!C!Next]_<<rows, today>>
  <2>1. UNCHANGED <<rows, today>> /\ page' \in [c.admins -> Seq(Ratio(c)!Rows)]
    BY <1>1, <1>5 DEF Ratio!Load
  <2>2. HistoryInv(c)'
    BY <1>1, <2>1, HistoryThen
  <2> QED BY <1>2, <2>1, <2>2
<1> QED BY <1>3, <1>4, <1>5, CreateIsHistory, ReplaceIsHistory, RetireIsHistory DEF Ratio!Next

LEMMA InitIsHistory ==
    ASSUME NEW CONSTANT c, Ratio(c)!HistoryAssumption, Ratio(c)!Init
    PROVE  HistoryInv(c) /\ Ratio(c)!CatalogInit
BY DEF Ratio!HistoryAssumption, Ratio!Init, Ratio!C!Init, HistoryInv, Typed,
   Ratio!OneRatioADay, Ratio!HistoryIsALine,
   Ratio!C!Days, Ratio!CatalogInit

-----------------------------------------------------------------------------
(* The theorems on ratios.                                                 *)

LEMMA SpecIsHistory ==
    ASSUME NEW CONSTANT c, Ratio(c)!HistoryAssumption
    PROVE  Ratio(c)!Spec => []HistoryInv(c)
<1>1. Ratio(c)!Init => HistoryInv(c)
  BY InitIsHistory
<1>2. HistoryInv(c) /\ [Ratio(c)!Next]_(Ratio(c)!vars) => HistoryInv(c)'
  BY NextIsHistory
<1> QED BY <1>1, <1>2, PTL DEF Ratio!Spec

\* Rows, pages and days keep their types, and no row is retired without an end.
THEOREM HistoryIsTyped ==
    ASSUME NEW CONSTANT c, Ratio(c)!HistoryAssumption
    PROVE  Ratio(c)!Spec => []Ratio(c)!TypeOK
<1>1. HistoryInv(c) => Ratio(c)!TypeOK
  BY TypedTypeOK DEF HistoryInv
<1> QED BY <1>1, SpecIsHistory, PTL

\* On no day are two ratios of a product in effect: what the triggers check of
\* the row that is written is enough, also for pages that are out of date.
THEOREM RatiosApart ==
    ASSUME NEW CONSTANT c, Ratio(c)!HistoryAssumption
    PROVE  Ratio(c)!Spec => []Ratio(c)!OneRatioADay
<1>1. HistoryInv(c) => Ratio(c)!OneRatioADay
  BY DEF HistoryInv
<1> QED BY <1>1, SpecIsHistory, PTL

\* The versions of a product are a line in the order of their beginnings, of
\* which only the last is open to change.
THEOREM HistoryStaysALine ==
    ASSUME NEW CONSTANT c, Ratio(c)!HistoryAssumption
    PROVE  Ratio(c)!Spec => []Ratio(c)!HistoryIsALine
<1>1. HistoryInv(c) => Ratio(c)!HistoryIsALine
  BY DEF HistoryInv
<1> QED BY <1>1, SpecIsHistory, PTL

\* Together: what the triggers and the commands keep of the ratios.
THEOREM RatiosStayKept ==
    ASSUME NEW CONSTANT c, Ratio(c)!HistoryAssumption
    PROVE  Ratio(c)!Spec => []Ratio(c)!RatiosKept
<1>1. Ratio(c)!TypeOK /\ Ratio(c)!OneRatioADay /\ Ratio(c)!HistoryIsALine => Ratio(c)!RatiosKept
  BY DEF Ratio!RatiosKept
<1> QED BY <1>1, HistoryIsTyped, RatiosApart, HistoryStaysALine, PTL

\* No command changes what a version said, or the period of a retired one.
THEOREM PastIsKept ==
    ASSUME NEW CONSTANT c, Ratio(c)!HistoryAssumption
    PROVE  Ratio(c)!Spec => [][Ratio(c)!HistoryStays]_(Ratio(c)!vars)
<1>1. HistoryInv(c) /\ [Ratio(c)!Next]_(Ratio(c)!vars) => Ratio(c)!HistoryStays
  BY NextIsHistory DEF Extends, Ratio!HistoryStays
<1> QED BY <1>1, SpecIsHistory, PTL DEF Ratio!Spec

\* What the database does, the plain catalogue of the in-memory server might
\* have done: ConversionHistory implements ConversionCatalog.
THEOREM HistoryIsCatalog ==
    ASSUME NEW CONSTANT c, Ratio(c)!HistoryAssumption
    PROVE  Ratio(c)!Spec => Ratio(c)!C!Spec
<1>1. Ratio(c)!Init => Ratio(c)!C!Init
  BY DEF Ratio!Init
<1>2. HistoryInv(c) /\ [Ratio(c)!Next]_(Ratio(c)!vars) => [Ratio(c)!C!Next]_<<rows, today>>
  BY NextIsHistory
<1> QED BY <1>1, <1>2, SpecIsHistory, PTL DEF Ratio!Spec, Ratio!C!Spec

\* A step that leaves rows and pages alone keeps the past, and is a stutter of
\* the catalogue.
LEMMA RatiosAtRest ==
    ASSUME NEW CONSTANT c, UNCHANGED Ratio(c)!vars
    PROVE  Ratio(c)!HistoryStays /\ Ratio(c)!CatalogStep
BY DEF Ratio!vars, Ratio!HistoryStays, Ratio!CatalogStep

\* The same of the definitions that runs check: the catalogue from the first
\* state on, and in every step.
THEOREM RecordIsKept ==
    ASSUME NEW CONSTANT c, Ratio(c)!HistoryAssumption
    PROVE  Ratio(c)!Spec => Ratio(c)!CatalogInit
           /\ [][Ratio(c)!HistoryStays /\ Ratio(c)!CatalogStep]_(Ratio(c)!vars)
<1>1. Ratio(c)!Spec => Ratio(c)!CatalogInit
  BY DEF Ratio!Spec, Ratio!Init, Ratio!CatalogInit
<1>2. [Ratio(c)!C!Next]_<<rows, today>> <=> Ratio(c)!CatalogStep
  BY DEF Ratio!CatalogStep
<1> QED BY <1>1, <1>2, PastIsKept, HistoryIsCatalog, PTL DEF Ratio!C!Spec

-----------------------------------------------------------------------------
(* Stores, their groups and their accounts.                                *)

\* StoreLifecycle with the constants that c names.
Life(c) == INSTANCE StoreLifecycle WITH
    Groups <- c.groups, Stores <- c.stores, Accounts <- c.accounts,
    Admins <- c.admins, Items <- c.items, MaxVersion <- c.maxVersion,
    group <- storeGroup, store <- storeRow, account <- storeAccount,
    form <- storeForm

GroupRows(c) == [active : BOOLEAN, version : 0 .. c.maxVersion]
AccountRows(c) == [store : c.stores, active : BOOLEAN]
FormRows(c) ==
    [of : c.stores, row : Life(c)!StoreRows] \cup [of : c.groups, row : GroupRows(c)]

OneAtMost(S) == \A x, y \in S : x = y

StoresTyped(c) ==
    /\ storeGroup \in [c.groups -> GroupRows(c)]
    /\ storeRow \in [c.stores -> SUBSET Life(c)!StoreRows]
    /\ storeAccount \in [c.accounts -> SUBSET AccountRows(c)]
    /\ creating \in [c.accounts -> SUBSET c.stores]
    /\ storeForm \in [c.admins -> SUBSET FormRows(c)]
    /\ work \in [c.stores -> [c.items -> Life(c)!Progress]]
    /\ moving \subseteq c.stores \X c.stores

RowsSingle(c) ==
    /\ \A s \in c.stores : OneAtMost(storeRow[s])
    /\ \A a \in c.accounts : OneAtMost(storeAccount[a])
    /\ \A m \in c.admins : OneAtMost(storeForm[m])

WorkingSingle(c) == \A s \in c.stores : OneAtMost(Life(c)!Working(s))

\* What a form shows is the row of its store or an older one.
FormsOfPast(c) ==
    \A m \in c.admins : \A f \in storeForm[m] :
        f.of \in c.stores => \E row \in storeRow[f.of] :
            f.row = row \/ f.row.version < row.version

\* The steps by what they change: the rows of groups, stores and accounts in
\* steps of their own, then forms, accounts that are being created, ...
RowStep(c) ==
    \/ \E m \in c.admins, g \in c.groups, on \in BOOLEAN : Life(c)!UpdateGroup(m, g, on)
    \/ \E s \in c.stores, g \in c.groups : Life(c)!CreateStore(s, g)
    \/ \E m \in c.admins, s \in c.stores, g \in c.groups, on \in BOOLEAN :
          Life(c)!UpdateStore(m, s, g, on)
    \/ \E a \in c.accounts : Life(c)!CreateAccount(a)
    \/ \E a \in c.accounts, on \in BOOLEAN : Life(c)!SetActive(a, on)

FormStep(c) ==
    /\ \E m \in c.admins :
          \/ \E s \in c.stores : Life(c)!OpenStore(m, s)
          \/ \E g \in c.groups : Life(c)!OpenGroup(m, g)
    /\ UNCHANGED <<storeGroup, storeRow, storeAccount, creating, work, moving>>

CheckStep(c) ==
    /\ \E a \in c.accounts, s \in c.stores : Life(c)!CheckStore(a, s)
    /\ UNCHANGED <<storeGroup, storeRow, storeAccount, storeForm, work, moving>>

\* Goods move on in a store that is open, or were under way already.
WorkStep(c) ==
    /\ \E s \in c.stores, i \in c.items, to \in Life(c)!Progress :
          /\ Life(c)!IsOpen(s) \/ work[s][i] \in Life(c)!Pending
          /\ work' = [work EXCEPT ![s][i] = to]
    /\ UNCHANGED <<storeGroup, storeRow, storeAccount, creating, storeForm, moving>>

MoveStep(c) ==
    /\ \/ moving' \subseteq moving
       \/ \E s, d \in c.stores :
             /\ Life(c)!IsOpen(s) /\ Life(c)!IsOpen(d)
             /\ moving' = moving \cup {<<s, d>>}
    /\ UNCHANGED <<storeGroup, storeRow, storeAccount, creating, storeForm, work>>

LEMMA StepCases ==
    ASSUME NEW CONSTANT c, StoresTyped(c), [Life(c)!Next]_(Life(c)!vars)
    PROVE  \/ RowStep(c) \/ FormStep(c) \/ CheckStep(c) \/ WorkStep(c) \/ MoveStep(c)
           \/ UNCHANGED <<storeGroup, storeRow, storeAccount, creating, storeForm, work,
                          moving>>
<1>1. ASSUME NEW s \in c.stores, NEW i \in c.items,
             \/ Life(c)!Submit(s, i) \/ Life(c)!Withdraw(s, i) \/ Life(c)!Merge(s, i)
             \/ Life(c)!Allocate(s, i) \/ Life(c)!CancelWait(s, i) \/ Life(c)!Respond(s, i)
             \/ Life(c)!Declare(s, i) \/ Life(c)!Finalize(s, i)
      PROVE  WorkStep(c)
  BY <1>1 DEF Life!Submit, Life!Withdraw, Life!Merge, Life!Allocate, Life!CancelWait,
     Life!Respond, Life!Declare, Life!Finalize, Life!Advance, WorkStep, Life!Progress,
     Life!Pending
<1>2. ASSUME NEW s \in c.stores, NEW d \in c.stores, Life(c)!SendSale(s, d)
      PROVE  MoveStep(c)
  BY <1>2 DEF Life!SendSale, MoveStep
<1>3. ASSUME NEW t \in moving, Life(c)!ReceiveSale(t) \/ Life(c)!CancelSale(t)
      PROVE  MoveStep(c)
  BY <1>3 DEF Life!ReceiveSale, Life!CancelSale, Life!EndSale, MoveStep
<1>4. ASSUME NEW m \in c.admins, NEW s \in c.stores, Life(c)!OpenStore(m, s)
      PROVE  FormStep(c)
  BY <1>4 DEF FormStep, Life!OpenStore
<1>5. ASSUME NEW m \in c.admins, NEW g \in c.groups, Life(c)!OpenGroup(m, g)
      PROVE  FormStep(c)
  BY <1>5 DEF FormStep, Life!OpenGroup
<1>6. ASSUME NEW a \in c.accounts, NEW s \in c.stores, Life(c)!CheckStore(a, s)
      PROVE  CheckStep(c)
  BY <1>6 DEF CheckStep, Life!CheckStore
<1>7. CASE Life(c)!Next
  BY <1>1, <1>2, <1>3, <1>4, <1>5, <1>6, <1>7 DEF Life!Next, RowStep
<1>8. CASE UNCHANGED Life(c)!vars
  BY <1>8 DEF Life!vars
<1> QED BY <1>7, <1>8

\* A store that is edited had one row, the one that was seen, and has the next.
EditOf(c, m, s, g, on, row, f) ==
    /\ storeRow[s] = {row}
    /\ f.of = s /\ f.row.version = row.version /\ row.version < c.maxVersion
    /\ Life(c)!Admissible(row, [group |-> g, active |-> on, version |-> row.version + 1])
    /\ row.active /\ ~on => Life(c)!NoPendingWork(s)
    /\ storeRow' = [storeRow EXCEPT
          ![s] = {[group |-> g, active |-> on, version |-> row.version + 1]}]
    /\ \/ storeAccount' = storeAccount
       \/ storeAccount' = Life(c)!Disabled(Life(c)!AccountsOf(s))
    /\ storeForm' = [storeForm EXCEPT ![m] = {}]
    /\ UNCHANGED <<storeGroup, creating, work, moving>>

LEMMA StoreEdited ==
    ASSUME NEW CONSTANT c, StoresTyped(c), RowsSingle(c),
           NEW m \in c.admins, NEW s \in c.stores, NEW g \in c.groups, NEW on \in BOOLEAN,
           Life(c)!UpdateStore(m, s, g, on)
    PROVE  \E row \in Life(c)!StoreRows, f \in storeForm[m] : EditOf(c, m, s, g, on, row, f)
<1>1. PICK f \in storeForm[m], row \in storeRow[s] : Life(c)!UpdateStore(m, s, g, on)!(f)!(row)
  BY DEF Life!UpdateStore
<1>2. row \in Life(c)!StoreRows /\ storeRow[s] = {row}
  BY DEF StoresTyped, RowsSingle, OneAtMost
<1> QED BY <1>1, <1>2 DEF EditOf

\* Disabling an account takes its rows out of use, and leaves their stores.
LEMMA DisabledRows ==
    ASSUME NEW CONSTANT c, StoresTyped(c), NEW accounts, NEW a \in c.accounts
    PROVE  LET next == Life(c)!Disabled(accounts)[a]
           IN  /\ next \in SUBSET AccountRows(c)
               /\ OneAtMost(storeAccount[a]) => OneAtMost(next)
               /\ \A r \in next : \E q \in storeAccount[a] : q.store = r.store
               /\ \A r \in next : r.active => r \in storeAccount[a]
<1>1. Life(c)!Disabled(accounts)[a] = storeAccount[a]
      \/ Life(c)!Disabled(accounts)[a] = {[r EXCEPT !.active = FALSE] : r \in storeAccount[a]}
  BY DEF Life!Disabled
<1>2. storeAccount[a] \subseteq AccountRows(c)
  BY DEF StoresTyped
<1>3. \A r \in storeAccount[a] : LET q == [r EXCEPT !.active = FALSE]
                                 IN  q \in AccountRows(c) /\ q.store = r.store
                                    /\ q.active = FALSE
  BY <1>2 DEF AccountRows
<1>4. CASE Life(c)!Disabled(accounts)[a] = storeAccount[a]
  BY <1>2, <1>4
<1>5. CASE Life(c)!Disabled(accounts)[a] = {[r EXCEPT !.active = FALSE] : r \in storeAccount[a]}
  BY <1>3, <1>5 DEF OneAtMost
<1> QED BY <1>1, <1>4, <1>5

LEMMA NextStoresTyped ==
    ASSUME NEW CONSTANT c, Life(c)!StoreLifecycleAssumption, StoresTyped(c), RowsSingle(c),
           [Life(c)!Next]_(Life(c)!vars)
    PROVE  StoresTyped(c)'
<1> USE DEF StoresTyped, Life!StoreLifecycleAssumption
<1>1. ASSUME NEW m \in c.admins, NEW g \in c.groups, NEW on \in BOOLEAN,
             Life(c)!UpdateGroup(m, g, on)
      PROVE  StoresTyped(c)'
  <2>1. /\ storeGroup[g].version < c.maxVersion
        /\ storeGroup' = [storeGroup EXCEPT
              ![g] = [active |-> on, version |-> storeGroup[g].version + 1]]
        /\ storeForm' = [storeForm EXCEPT ![m] = {}]
        /\ UNCHANGED <<storeRow, storeAccount, creating, work, moving>>
    BY <1>1 DEF Life!UpdateGroup
  <2>2. [active |-> on, version |-> storeGroup[g].version + 1] \in GroupRows(c)
    BY <2>1 DEF GroupRows
  <2> QED BY <2>1, <2>2
<1>2. ASSUME NEW s \in c.stores, NEW g \in c.groups, Life(c)!CreateStore(s, g)
      PROVE  StoresTyped(c)'
  BY <1>2 DEF Life!CreateStore, Life!StoreRows
<1>3. ASSUME NEW m \in c.admins, NEW s \in c.stores, NEW g \in c.groups, NEW on \in BOOLEAN,
             Life(c)!UpdateStore(m, s, g, on)
      PROVE  StoresTyped(c)'
  <2>1. PICK row \in Life(c)!StoreRows, f \in storeForm[m] : EditOf(c, m, s, g, on, row, f)
    BY <1>3, StoreEdited
  <2> USE DEF EditOf
  <2>2. [group |-> g, active |-> on, version |-> row.version + 1] \in Life(c)!StoreRows
    BY <2>1 DEF Life!StoreRows
  <2>3. Life(c)!Disabled(Life(c)!AccountsOf(s)) \in [c.accounts -> SUBSET AccountRows(c)]
    BY DisabledRows DEF Life!Disabled
  <2> QED BY <2>1, <2>2, <2>3
<1>4. ASSUME NEW a \in c.accounts, Life(c)!CreateAccount(a)
      PROVE  StoresTyped(c)'
  <2>1. \A s \in c.stores : [store |-> s, active |-> TRUE] \in AccountRows(c)
    BY DEF AccountRows
  <2>2. PICK s \in creating[a] : Life(c)!CreateAccount(a)!(s)
    BY <1>4 DEF Life!CreateAccount
  <2>3. storeAccount' \in [c.accounts -> SUBSET AccountRows(c)]
    BY <2>1, <2>2
  <2> QED BY <2>2, <2>3
<1>5. ASSUME NEW a \in c.accounts, NEW on \in BOOLEAN, Life(c)!SetActive(a, on)
      PROVE  StoresTyped(c)'
  <2>1. \A row \in AccountRows(c) : [row EXCEPT !.active = on] \in AccountRows(c)
    BY DEF AccountRows
  <2> QED BY <1>5, <2>1 DEF Life!SetActive
<1>6. CASE FormStep(c)
  <2>1. \A s \in c.stores :
        {[of |-> s, row |-> row] : row \in storeRow[s]} \subseteq FormRows(c)
    BY DEF FormRows
  <2>2. \A g \in c.groups : [of |-> g, row |-> storeGroup[g]] \in FormRows(c)
    BY DEF FormRows
  <2>3. storeForm' \in [c.admins -> SUBSET FormRows(c)]
    BY <1>6, <2>1, <2>2 DEF FormStep, Life!OpenStore, Life!OpenGroup
  <2> QED BY <1>6, <2>3 DEF FormStep
<1>7. CASE CheckStep(c)
  BY <1>7 DEF CheckStep, Life!CheckStore
<1>8. CASE WorkStep(c)
  <2>1. work' \in [c.stores -> [c.items -> Life(c)!Progress]]
    BY <1>8 DEF WorkStep
  <2> QED BY <1>8, <2>1 DEF WorkStep
<1>9. CASE MoveStep(c)
  <2>1. moving' \subseteq c.stores \X c.stores
    BY <1>9 DEF MoveStep
  <2> QED BY <1>9, <2>1 DEF MoveStep
<1> HIDE DEF StoresTyped, Life!StoreLifecycleAssumption
<1>10. CASE UNCHANGED <<storeGroup, storeRow, storeAccount, creating, storeForm, work, moving>>
  BY <1>10 DEF StoresTyped
<1> QED BY <1>1, <1>2, <1>3, <1>4, <1>5, <1>6, <1>7, <1>8, <1>9, <1>10, StepCases
       DEF RowStep

LEMMA NextRowsSingle ==
    ASSUME NEW CONSTANT c, StoresTyped(c), RowsSingle(c),
           [Life(c)!Next]_(Life(c)!vars)
    PROVE  RowsSingle(c)'
<1> USE DEF StoresTyped, RowsSingle, OneAtMost
<1>1. ASSUME NEW m \in c.admins, NEW g \in c.groups, NEW on \in BOOLEAN,
             Life(c)!UpdateGroup(m, g, on)
      PROVE  RowsSingle(c)'
  BY <1>1 DEF Life!UpdateGroup
<1>2. ASSUME NEW s \in c.stores, NEW g \in c.groups, Life(c)!CreateStore(s, g)
      PROVE  RowsSingle(c)'
  <2> DEFINE row == [group |-> g, active |-> TRUE, version |-> 0]
  <2>1. storeRow' = [storeRow EXCEPT ![s] = {row}] /\ UNCHANGED <<storeAccount, storeForm>>
    BY <1>2 DEF Life!CreateStore
  <2> HIDE DEF row
  <2>2. \A t \in c.stores : storeRow'[t] = storeRow[t] \/ storeRow'[t] = {row}
    BY <2>1
  <2>3. \A t \in c.stores : OneAtMost(storeRow'[t])
    BY <2>2
  <2> QED BY <2>1, <2>3
<1>3. ASSUME NEW m \in c.admins, NEW s \in c.stores, NEW g \in c.groups, NEW on \in BOOLEAN,
             Life(c)!UpdateStore(m, s, g, on)
      PROVE  RowsSingle(c)'
  <2>1. PICK row \in Life(c)!StoreRows, f \in storeForm[m] : EditOf(c, m, s, g, on, row, f)
    BY <1>3, StoreEdited
  <2>2. \A t \in c.stores : OneAtMost(storeRow'[t])
    BY <2>1 DEF EditOf
  <2>3. \A a \in c.accounts : OneAtMost(storeAccount'[a])
    <3>1. storeAccount' = storeAccount
          \/ storeAccount' = Life(c)!Disabled(Life(c)!AccountsOf(s))
      BY <2>1 DEF EditOf
    <3> QED BY <3>1, DisabledRows
  <2>4. \A n \in c.admins : OneAtMost(storeForm'[n])
    BY <2>1 DEF EditOf
  <2> QED BY <2>2, <2>3, <2>4
<1>4. ASSUME NEW a \in c.accounts, Life(c)!CreateAccount(a)
      PROVE  RowsSingle(c)'
  <2>1. PICK s \in creating[a] : Life(c)!CreateAccount(a)!(s)
    BY <1>4 DEF Life!CreateAccount
  <2> DEFINE row == [store |-> s, active |-> TRUE]
  <2>2. \A b \in c.accounts : storeAccount'[b] = storeAccount[b] \/ storeAccount'[b] = {row}
    BY <2>1
  <2> HIDE DEF row
  <2>3. \A b \in c.accounts : OneAtMost(storeAccount'[b])
    BY <2>2
  <2> QED BY <2>1, <2>3
<1>5. ASSUME NEW a \in c.accounts, NEW on \in BOOLEAN, Life(c)!SetActive(a, on)
      PROVE  RowsSingle(c)'
  BY <1>5 DEF Life!SetActive
<1>6. CASE FormStep(c)
  BY <1>6 DEF FormStep, Life!OpenStore, Life!OpenGroup
<1>7. ASSUME UNCHANGED <<storeRow, storeAccount, storeForm>>
      PROVE  RowsSingle(c)'
  BY <1>7
<1> HIDE DEF StoresTyped, RowsSingle, OneAtMost
<1> QED BY <1>1, <1>2, <1>3, <1>4, <1>5, <1>6, <1>7, StepCases
       DEF RowStep, CheckStep, WorkStep, MoveStep

LEMMA NextStoreOfActiveGroup ==
    ASSUME NEW CONSTANT c, StoresTyped(c), RowsSingle(c),
           Life(c)!OpenStoreActiveGroup, [Life(c)!Next]_(Life(c)!vars)
    PROVE  Life(c)!OpenStoreActiveGroup'
<1> USE DEF StoresTyped, Life!OpenStoreActiveGroup
<1>1. ASSUME NEW m \in c.admins, NEW g \in c.groups, NEW on \in BOOLEAN,
             Life(c)!UpdateGroup(m, g, on)
      PROVE  Life(c)!OpenStoreActiveGroup'
  BY <1>1 DEF Life!UpdateGroup, Life!OpenIn, Life!StoreRows, GroupRows
<1>2. ASSUME NEW s \in c.stores, NEW g \in c.groups, Life(c)!CreateStore(s, g)
      PROVE  Life(c)!OpenStoreActiveGroup'
  BY <1>2 DEF Life!CreateStore
<1>3. ASSUME NEW m \in c.admins, NEW s \in c.stores, NEW g \in c.groups, NEW on \in BOOLEAN,
             Life(c)!UpdateStore(m, s, g, on)
      PROVE  Life(c)!OpenStoreActiveGroup'
  <2>1. PICK row \in Life(c)!StoreRows, f \in storeForm[m] : EditOf(c, m, s, g, on, row, f)
    BY <1>3, StoreEdited
  <2>2. on => storeGroup[g].active
    BY <2>1 DEF EditOf, Life!Admissible
  <2> QED BY <2>1, <2>2 DEF EditOf
<1>4. ASSUME UNCHANGED <<storeGroup, storeRow>>
      PROVE  Life(c)!OpenStoreActiveGroup'
  BY <1>4
<1>5. ASSUME NEW a \in c.accounts,
             Life(c)!CreateAccount(a) \/ \E on \in BOOLEAN : Life(c)!SetActive(a, on)
      PROVE  UNCHANGED <<storeGroup, storeRow>>
  BY <1>5 DEF Life!CreateAccount, Life!SetActive
<1> HIDE DEF StoresTyped, Life!OpenStoreActiveGroup
<1> QED BY <1>1, <1>2, <1>3, <1>4, <1>5, StepCases
       DEF RowStep, FormStep, CheckStep, WorkStep, MoveStep

LEMMA NextLeavesNothing ==
    ASSUME NEW CONSTANT c, StoresTyped(c), RowsSingle(c), Life(c)!NoCountedWorkLeft,
           [Life(c)!Next]_(Life(c)!vars)
    PROVE  Life(c)!NoCountedWorkLeft'
<1> USE DEF StoresTyped, Life!NoCountedWorkLeft, Life!IsOpen
<1>1. ASSUME NEW s \in c.stores, NEW g \in c.groups, Life(c)!CreateStore(s, g)
      PROVE  Life(c)!NoCountedWorkLeft'
  BY <1>1 DEF Life!CreateStore
<1>2. ASSUME NEW m \in c.admins, NEW s \in c.stores, NEW g \in c.groups, NEW on \in BOOLEAN,
             Life(c)!UpdateStore(m, s, g, on)
      PROVE  Life(c)!NoCountedWorkLeft'
  <2>1. PICK row \in Life(c)!StoreRows, f \in storeForm[m] : EditOf(c, m, s, g, on, row, f)
    BY <1>2, StoreEdited
  <2> USE DEF EditOf
  <2>2. ASSUME ~on
        PROVE  /\ \A i \in c.items : work[s][i] \in {"none", "issued", "done"}
               /\ ~\E d \in c.stores : <<s, d>> \in moving \/ <<d, s>> \in moving
    <3>1. CASE row.active
      <4>1. Life(c)!NoPendingWork(s)
        BY <2>1, <2>2, <3>1
      <4>2. \A i \in c.items : work[s][i] \in {"none", "issued", "done"}
        BY <4>1 DEF Life!NoPendingWork, Life!Progress
      <4>3. \A t \in moving : t[1] # s /\ t[2] # s
        BY <4>1 DEF Life!NoPendingWork
      <4> QED BY <4>2, <4>3
    <3>2. CASE ~row.active
      BY <2>1, <3>2
    <3> QED BY <3>1, <3>2
  <2> QED BY <2>1, <2>2
<1>3. CASE WorkStep(c)
  BY <1>3 DEF WorkStep, Life!Pending
<1>4. CASE MoveStep(c)
  <2>1. ASSUME NEW t \in moving', t \notin moving
        PROVE  \E s, d \in c.stores : t = <<s, d>> /\ Life(c)!IsOpen(s) /\ Life(c)!IsOpen(d)
    BY <1>4, <2>1 DEF MoveStep
  <2> QED BY <1>4, <2>1 DEF MoveStep
<1>5. ASSUME UNCHANGED <<storeRow, work, moving>>
      PROVE  Life(c)!NoCountedWorkLeft'
  BY <1>5
<1>6. ASSUME NEW m \in c.admins, NEW g \in c.groups, NEW on \in BOOLEAN,
             Life(c)!UpdateGroup(m, g, on)
      PROVE  UNCHANGED <<storeRow, work, moving>>
  BY <1>6 DEF Life!UpdateGroup
<1>7. ASSUME NEW a \in c.accounts,
             Life(c)!CreateAccount(a) \/ \E on \in BOOLEAN : Life(c)!SetActive(a, on)
      PROVE  UNCHANGED <<storeRow, work, moving>>
  BY <1>7 DEF Life!CreateAccount, Life!SetActive
<1> HIDE DEF StoresTyped, Life!NoCountedWorkLeft, Life!IsOpen
<1> QED BY <1>1, <1>2, <1>3, <1>4, <1>5, <1>6, <1>7, StepCases
       DEF RowStep, FormStep, CheckStep

\* At most one store gets a working account, and only one that had none.
LEMMA OneMoreWorking ==
    ASSUME NEW CONSTANT c, WorkingSingle(c), NEW a \in c.accounts, NEW s \in c.stores,
           Life(c)!Working(s) = {},
           \A b \in c.accounts \ {a} : storeAccount'[b] = storeAccount[b],
           \A r \in storeAccount'[a] : r.store = s
    PROVE  WorkingSingle(c)'
<1>1. ASSUME NEW t \in c.stores, NEW b \in Life(c)!Working(t)'
      PROVE  b \in Life(c)!Working(t) \/ (b = a /\ t = s)
  BY <1>1 DEF Life!Working, Life!AccountsOf
<1> QED BY <1>1 DEF WorkingSingle, OneAtMost

\* A step that brings no account into use keeps them single.
LEMMA NoMoreWorking ==
    ASSUME NEW CONSTANT c, WorkingSingle(c),
           \A a \in c.accounts : \A r \in storeAccount'[a] :
              /\ \E q \in storeAccount[a] : q.store = r.store
              /\ r.active => r \in storeAccount[a]
    PROVE  WorkingSingle(c)'
<1>1. ASSUME NEW t \in c.stores, NEW a \in Life(c)!Working(t)'
      PROVE  a \in Life(c)!Working(t)
  BY <1>1 DEF Life!Working, Life!AccountsOf
<1> QED BY <1>1 DEF WorkingSingle, OneAtMost

LEMMA NextWorkingSingle ==
    ASSUME NEW CONSTANT c, StoresTyped(c), RowsSingle(c), WorkingSingle(c),
           [Life(c)!Next]_(Life(c)!vars)
    PROVE  WorkingSingle(c)'
<1>1. ASSUME NEW m \in c.admins, NEW s \in c.stores, NEW g \in c.groups, NEW on \in BOOLEAN,
             Life(c)!UpdateStore(m, s, g, on)
      PROVE  WorkingSingle(c)'
  <2>1. PICK row \in Life(c)!StoreRows, f \in storeForm[m] : EditOf(c, m, s, g, on, row, f)
    BY <1>1, StoreEdited
  <2>2. storeAccount' = storeAccount \/ storeAccount' = Life(c)!Disabled(Life(c)!AccountsOf(s))
    BY <2>1 DEF EditOf
  <2> QED BY <2>2, DisabledRows, NoMoreWorking
<1>2. ASSUME NEW a \in c.accounts, Life(c)!CreateAccount(a)
      PROVE  WorkingSingle(c)'
  <2>1. PICK s \in creating[a] : Life(c)!CreateAccount(a)!(s)
    BY <1>2 DEF Life!CreateAccount
  <2>2. s \in c.stores
    BY DEF StoresTyped
  <2>3. CASE Life(c)!Working(s) = {}
    <3>1. storeAccount' = [storeAccount EXCEPT ![a] = {[store |-> s, active |-> TRUE]}]
      BY <2>1, <2>3
    <3>2. /\ \A b \in c.accounts \ {a} : storeAccount'[b] = storeAccount[b]
          /\ \A r \in storeAccount'[a] : r.store = s
      BY <3>1 DEF StoresTyped
    <3> QED BY <2>2, <2>3, <3>2, OneMoreWorking
  <2>4. CASE Life(c)!Working(s) # {}
    BY <2>1, <2>4, NoMoreWorking
  <2> QED BY <2>3, <2>4
<1>3. ASSUME NEW a \in c.accounts, NEW on \in BOOLEAN, Life(c)!SetActive(a, on)
      PROVE  WorkingSingle(c)'
  <2>1. PICK row \in storeAccount[a] : Life(c)!SetActive(a, on)!(row)
    BY <1>3 DEF Life!SetActive
  <2>2. row \in AccountRows(c)
    BY DEF StoresTyped
  <2>3. [row EXCEPT !.active = on].store = row.store /\ [row EXCEPT !.active = on].active = on
    BY <2>2 DEF AccountRows
  <2>4. /\ storeAccount'[a] = {[row EXCEPT !.active = on]}
        /\ \A b \in c.accounts \ {a} : storeAccount'[b] = storeAccount[b]
    BY <2>1 DEF StoresTyped
  <2>5. CASE on
    <3>1. Life(c)!Working(row.store) = {} /\ row.store \in c.stores
      BY <2>1, <2>2, <2>5 DEF AccountRows
    <3>2. \A r \in storeAccount'[a] : r.store = row.store
      BY <2>3, <2>4
    <3> QED BY <2>4, <3>1, <3>2, OneMoreWorking
  <2>6. CASE ~on
    BY <2>3, <2>4, <2>6, NoMoreWorking
  <2> QED BY <2>5, <2>6
<1>4. ASSUME UNCHANGED storeAccount
      PROVE  WorkingSingle(c)'
  BY <1>4, NoMoreWorking
<1>5. ASSUME NEW s \in c.stores, NEW g \in c.groups, Life(c)!CreateStore(s, g)
      PROVE  UNCHANGED storeAccount
  BY <1>5 DEF Life!CreateStore
<1>6. ASSUME NEW m \in c.admins, NEW g \in c.groups, NEW on \in BOOLEAN,
             Life(c)!UpdateGroup(m, g, on)
      PROVE  UNCHANGED storeAccount
  BY <1>6 DEF Life!UpdateGroup
<1> QED BY <1>1, <1>2, <1>3, <1>4, <1>5, <1>6, StepCases
       DEF RowStep, FormStep, CheckStep, WorkStep, MoveStep

LEMMA NextFormsOfPast ==
    ASSUME NEW CONSTANT c, Life(c)!StoreLifecycleAssumption, StoresTyped(c), RowsSingle(c),
           FormsOfPast(c),
           [Life(c)!Next]_(Life(c)!vars)
    PROVE  FormsOfPast(c)'
<1> USE DEF StoresTyped, FormsOfPast
<1>1. ASSUME NEW m \in c.admins, NEW g \in c.groups, NEW on \in BOOLEAN,
             Life(c)!UpdateGroup(m, g, on)
      PROVE  FormsOfPast(c)'
  BY <1>1 DEF Life!UpdateGroup
<1>2. ASSUME NEW s \in c.stores, NEW g \in c.groups, Life(c)!CreateStore(s, g)
      PROVE  FormsOfPast(c)'
  BY <1>2 DEF Life!CreateStore
<1>3. ASSUME NEW m \in c.admins, NEW s \in c.stores, NEW g \in c.groups, NEW on \in BOOLEAN,
             Life(c)!UpdateStore(m, s, g, on)
      PROVE  FormsOfPast(c)'
  <2>1. PICK row \in Life(c)!StoreRows, f \in storeForm[m] : EditOf(c, m, s, g, on, row, f)
    BY <1>3, StoreEdited
  <2> USE DEF EditOf
  <2>2. ASSUME NEW n \in c.admins, NEW p \in storeForm[n], p.of = s
        PROVE  p.row.version < row.version + 1
    <3>1. p.row = row \/ p.row.version < row.version
      BY <2>1, <2>2
    <3>2. p.row.version \in Nat /\ row.version \in Nat
      <4>1. p \in FormRows(c)
        OBVIOUS
      <4> QED BY <4>1 DEF FormRows, GroupRows, Life!StoreRows
    <3> QED BY <3>1, <3>2
  <2>3. \A n \in c.admins : storeForm'[n] \subseteq storeForm[n]
    BY <2>1
  <2> QED BY <2>1, <2>2, <2>3
<1>4. CASE FormStep(c)
  BY <1>4 DEF FormStep, Life!OpenStore, Life!OpenGroup, Life!StoreLifecycleAssumption
<1>5. ASSUME UNCHANGED <<storeRow, storeForm>>
      PROVE  FormsOfPast(c)'
  BY <1>5
<1>6. ASSUME NEW a \in c.accounts,
             Life(c)!CreateAccount(a) \/ \E on \in BOOLEAN : Life(c)!SetActive(a, on)
      PROVE  UNCHANGED <<storeRow, storeForm>>
  BY <1>6 DEF Life!CreateAccount, Life!SetActive
<1> HIDE DEF StoresTyped, FormsOfPast
<1> QED BY <1>1, <1>2, <1>3, <1>4, <1>5, <1>6, StepCases
       DEF RowStep, CheckStep, WorkStep, MoveStep

StoresInv(c) ==
    /\ StoresTyped(c)
    /\ RowsSingle(c)
    /\ WorkingSingle(c)
    /\ FormsOfPast(c)
    /\ Life(c)!OpenStoreActiveGroup
    /\ Life(c)!NoCountedWorkLeft

LEMMA InitStores ==
    ASSUME NEW CONSTANT c, Life(c)!StoreLifecycleAssumption, Life(c)!Init
    PROVE  StoresInv(c)
<1> USE DEF Life!Init, Life!StoreLifecycleAssumption
<1>1. StoresTyped(c)
  BY DEF StoresTyped, GroupRows, Life!StoreRows, AccountRows, FormRows, Life!Progress
<1>2. RowsSingle(c) /\ FormsOfPast(c)
  BY DEF RowsSingle, OneAtMost, FormsOfPast
<1>3. WorkingSingle(c)
  BY DEF WorkingSingle, OneAtMost, Life!Working, Life!AccountsOf
<1>4. Life(c)!OpenStoreActiveGroup /\ Life(c)!NoCountedWorkLeft
  BY DEF Life!OpenStoreActiveGroup, Life!NoCountedWorkLeft
<1> QED BY <1>1, <1>2, <1>3, <1>4 DEF StoresInv

LEMMA StoresAlways ==
    ASSUME NEW CONSTANT c, Life(c)!StoreLifecycleAssumption
    PROVE  Life(c)!Spec => []StoresInv(c)
<1>1. Life(c)!Init => StoresInv(c)
  BY InitStores
<1>2. StoresInv(c) /\ [Life(c)!Next]_(Life(c)!vars) => StoresInv(c)'
  BY NextStoresTyped, NextRowsSingle, NextWorkingSingle, NextFormsOfPast,
     NextStoreOfActiveGroup,
     NextLeavesNothing DEF StoresInv
<1> QED BY <1>1, <1>2, PTL DEF Life!Spec

\* A set of one element at most is finite, and has at most one element.
LEMMA FewElements ==
    ASSUME NEW S, OneAtMost(S)
    PROVE  Cardinality(S) <= 1
<1>1. CASE S = {}
  BY <1>1, FS_EmptySet
<1>2. CASE S # {}
  <2>1. PICK x : S = {x}
    BY <1>2 DEF OneAtMost
  <2> QED BY <2>1, FS_Singleton
<1> QED BY <1>1, <1>2

\* The instance counts as FiniteSets does.
LEMMA SameCardinality ==
    ASSUME NEW CONSTANT c, NEW S
    PROVE  Life(c)!Cardinality(S) = Cardinality(S)
BY DEF Cardinality, Life!Cardinality

LEMMA StoresAreTyped ==
    ASSUME NEW CONSTANT c, StoresInv(c)
    PROVE  Life(c)!TypeOK /\ Life(c)!OneAccountPerStore
<1>1. StoresTyped(c) /\ RowsSingle(c) /\ WorkingSingle(c)
  BY DEF StoresInv
<1>2. \A s \in c.stores : Cardinality(storeRow[s]) <= 1 /\ Cardinality(Life(c)!Working(s)) <= 1
  BY <1>1, FewElements DEF RowsSingle, WorkingSingle
<1>3. \A a \in c.accounts : Cardinality(storeAccount[a]) <= 1
  BY <1>1, FewElements DEF RowsSingle
<1>4. \A m \in c.admins : Cardinality(storeForm[m]) <= 1
  BY <1>1, FewElements DEF RowsSingle
<1>5. Life(c)!TypeOK
  <2>1. storeGroup \in [c.groups -> [active : BOOLEAN, version : 0 .. c.maxVersion]]
    BY <1>1 DEF StoresTyped, GroupRows
  <2>2. \A a \in c.accounts : /\ storeAccount[a] \subseteq [store : c.stores, active : BOOLEAN]
                               /\ creating[a] \subseteq c.stores
    BY <1>1 DEF StoresTyped, AccountRows
  <2>3. \A s \in c.stores : storeRow[s] \subseteq Life(c)!StoreRows
    BY <1>1 DEF StoresTyped
  <2>4. work \in [c.stores -> [c.items -> Life(c)!Progress]]
        /\ moving \subseteq c.stores \X c.stores
    BY <1>1 DEF StoresTyped
  <2> QED BY <1>2, <1>3, <1>4, <2>1, <2>2, <2>3, <2>4, SameCardinality DEF Life!TypeOK
<1>6. Life(c)!OneAccountPerStore
  BY <1>2, SameCardinality DEF Life!OneAccountPerStore
<1> QED BY <1>5, <1>6

LEMMA StepEditsSeen ==
    ASSUME NEW CONSTANT c, StoresInv(c), [Life(c)!Next]_(Life(c)!vars)
    PROVE  Life(c)!StoreEditsSeen
<1> USE DEF Life!StoreEditsSeen
<1>1. StoresTyped(c) /\ RowsSingle(c) /\ FormsOfPast(c)
  BY DEF StoresInv
<1>2. ASSUME NEW s \in c.stores, NEW g \in c.groups, Life(c)!CreateStore(s, g)
      PROVE  Life(c)!StoreEditsSeen
  BY <1>1, <1>2 DEF Life!CreateStore, StoresTyped
<1>3. ASSUME NEW m \in c.admins, NEW s \in c.stores, NEW g \in c.groups, NEW on \in BOOLEAN,
             Life(c)!UpdateStore(m, s, g, on)
      PROVE  Life(c)!StoreEditsSeen
  <2>1. PICK row \in Life(c)!StoreRows, f \in storeForm[m] : EditOf(c, m, s, g, on, row, f)
    BY <1>1, <1>3, StoreEdited
  <2>2. f.row = row
    BY <1>1, <2>1 DEF EditOf, FormsOfPast, Life!StoreRows
  <2>3. \A t \in c.stores \ {s} : storeRow'[t] = storeRow[t]
    BY <1>1, <2>1 DEF EditOf, StoresTyped
  <2> QED BY <2>1, <2>2, <2>3 DEF EditOf
<1>4. ASSUME UNCHANGED storeRow
      PROVE  Life(c)!StoreEditsSeen
  BY <1>4
<1>5. ASSUME NEW m \in c.admins, NEW g \in c.groups, NEW on \in BOOLEAN,
             Life(c)!UpdateGroup(m, g, on)
      PROVE  UNCHANGED storeRow
  BY <1>5 DEF Life!UpdateGroup
<1>6. ASSUME NEW a \in c.accounts,
             Life(c)!CreateAccount(a) \/ \E on \in BOOLEAN : Life(c)!SetActive(a, on)
      PROVE  UNCHANGED storeRow
  BY <1>6 DEF Life!CreateAccount, Life!SetActive
<1> HIDE DEF Life!StoreEditsSeen
<1> QED BY <1>1, <1>2, <1>3, <1>4, <1>5, <1>6, StepCases
       DEF RowStep, FormStep, CheckStep, WorkStep, MoveStep

\* The goods that were issued to a store and not declared move only while it is
\* open.
LEMMA StepStrandedStay ==
    ASSUME NEW CONSTANT c, StoresInv(c), [Life(c)!Next]_(Life(c)!vars)
    PROVE  Life(c)!StrandedStay
<1> SUFFICES ASSUME NEW s \in c.stores, storeRow[s] # {}, ~Life(c)!IsOpen(s)
             PROVE  Life(c)!Stranded(s)' = Life(c)!Stranded(s)
  BY DEF Life!StrandedStay
<1>1. /\ StoresTyped(c)
      /\ \A i \in c.items : work[s][i] \in {"none", "issued", "done"}
  BY DEF StoresInv, Life!NoCountedWorkLeft
<1>2. CASE UNCHANGED work
  BY <1>2 DEF Life!Stranded
<1>3. CASE WorkStep(c)
  <2>1. PICK q \in c.stores, i \in c.items, to \in Life(c)!Progress :
           /\ Life(c)!IsOpen(q) \/ work[q][i] \in Life(c)!Pending
           /\ work' = [work EXCEPT ![q][i] = to]
    BY <1>3 DEF WorkStep
  <2>2. q # s
    BY <1>1, <2>1 DEF Life!Pending
  <2>3. work'[s] = work[s]
    BY <1>1, <2>1, <2>2 DEF StoresTyped
  <2> QED BY <2>3 DEF Life!Stranded
<1>4. CASE RowStep(c)
  BY <1>2, <1>4 DEF RowStep, Life!UpdateGroup, Life!CreateStore, Life!UpdateStore,
     Life!CreateAccount, Life!SetActive
<1> QED BY <1>1, <1>2, <1>3, <1>4, StepCases DEF FormStep, CheckStep, MoveStep

\* A store is closed only when nothing is under way of what
\* assertStoreHasNoPendingWork counts, and nothing of that is begun for a closed
\* one; the goods that were issued to it and not declared, which are not
\* counted, stay as the closing left them until it is opened again; no race of
\* creation and activation leaves a store with two working accounts; and an edit
\* follows the row its administrator saw.
THEOREM StoresStayConsistent ==
    ASSUME NEW CONSTANT c, Life(c)!StoreLifecycleAssumption
    PROVE  Life(c)!Spec =>
              /\ [](/\ Life(c)!TypeOK /\ Life(c)!OpenStoreActiveGroup
                    /\ Life(c)!NoCountedWorkLeft /\ Life(c)!OneAccountPerStore)
              /\ [][Life(c)!StoreEditsSeen /\ Life(c)!StrandedStay]_(Life(c)!vars)
<1>1. StoresInv(c) => /\ Life(c)!TypeOK /\ Life(c)!OpenStoreActiveGroup
                      /\ Life(c)!NoCountedWorkLeft /\ Life(c)!OneAccountPerStore
  BY StoresAreTyped DEF StoresInv
<1>2. StoresInv(c) /\ [Life(c)!Next]_(Life(c)!vars)
         => Life(c)!StoreEditsSeen /\ Life(c)!StrandedStay
  BY StepEditsSeen, StepStrandedStay
<1> QED BY <1>1, <1>2, StoresAlways, PTL DEF Life!Spec

-----------------------------------------------------------------------------
(* Accounts and the sessions of their tabs.                                *)

\* AccountSessions with the constants that c names.
Access(c) == INSTANCE AccountSessions WITH
    Admins <- c.admins, Staff <- c.staff, Tabs <- c.tabs, Stores <- c.stores,
    MaxFailures <- c.maxFailures, MaxVersion <- c.maxVersion,
    session <- tabSession, form <- accountForm, window <- failureWindow

People(c) == c.admins \cup c.staff
Opened(c) == [account : People(c), version : Nat, revoked : BOOLEAN, password : Nat]
Tries(c) == [account : People(c), tried : Nat, read : Access(c)!Rows]
Edits(c) == [account : People(c), read : Access(c)!Rows]

AccessConstants(c) ==
    /\ c.maxFailures \in Nat \ {0} /\ c.maxVersion \in Nat
    /\ IsFiniteSet(c.tabs) /\ IsFiniteSet(c.stores)

AccessTyped(c) ==
    /\ account \in [People(c) -> Access(c)!Rows]
    /\ tabSession \in [c.tabs -> SUBSET Opened(c)]
    /\ login \in [c.tabs -> SUBSET Tries(c)]
    /\ accountForm \in [c.admins -> SUBSET Edits(c)]
    /\ failureWindow \in [People(c) -> Nat]

\* A tab has one session or one login under way, and not both.
OneAtATime(c) ==
    \A t \in c.tabs :
        /\ \A s, r \in tabSession[t] : s = r
        /\ \A l, k \in login[t] : l = k
        /\ tabSession[t] = {} \/ login[t] = {}

\* What was read of an account is what it still is, or its version tells that
\* it is not; so it is with the password of a session.
ReadBefore(a, row) ==
    /\ row.version <= account[a].version
    /\ row.version = account[a].version => row = account[a]

ReadsTell(c) ==
    /\ \A a \in People(c) : account[a].password <= account[a].version
    /\ \A t \in c.tabs : \A l \in login[t] : ReadBefore(l.account, l.read)
    /\ \A m \in c.admins : \A f \in accountForm[m] : ReadBefore(f.account, f.read)
    /\ \A t \in c.tabs : \A s \in tabSession[t] :
          /\ s.version <= account[s.account].version
          /\ s.version = account[s.account].version => s.password = account[s.account].password

Guessing(c, a) ==
    {t \in c.tabs : \E l \in login[t] : l.account = a /\ l.tried # l.read.password}

\* The guesses of a window are the failures that are counted.
GuessesCounted(c) ==
    /\ guesses = failureWindow
    /\ \A a \in People(c) :
          guesses[a] + Cardinality(Guessing(c, a)) <= c.maxFailures + Cardinality(c.tabs) - 1

AccessInv(c) ==
    /\ AccessTyped(c) /\ OneAtATime(c) /\ ReadsTell(c) /\ GuessesCounted(c)

\* The instance counts as FiniteSets does.
LEMMA AccessCardinality ==
    ASSUME NEW CONSTANT c, NEW S
    PROVE  /\ Access(c)!Cardinality(S) = Cardinality(S)
           /\ Access(c)!IsFiniteSet(S) = IsFiniteSet(S)
BY DEF Cardinality, Access!Cardinality, IsFiniteSet, Access!IsFiniteSet

LEMMA AccessConstantsHold ==
    ASSUME NEW CONSTANT c, Access(c)!AccountSessionsAssumption
    PROVE  AccessConstants(c)
BY AccessCardinality DEF Access!AccountSessionsAssumption, AccessConstants

LEMMA AccountsArePeople == ASSUME NEW CONSTANT c PROVE Access(c)!Accounts = People(c)
BY DEF Access!Accounts, People

LEMMA GuessingCount ==
    ASSUME NEW CONSTANT c, AccessConstants(c), NEW a
    PROVE  /\ IsFiniteSet(Guessing(c, a)) /\ Cardinality(Guessing(c, a)) \in Nat
           /\ Cardinality(c.tabs) \in Nat
           /\ Cardinality(Guessing(c, a)) <= Cardinality(c.tabs)
<1>1. Guessing(c, a) \subseteq c.tabs
  BY DEF Guessing
<1>2. IsFiniteSet(c.tabs)
  BY DEF AccessConstants
<1> QED BY <1>1, <1>2, FS_Subset, FS_CardinalityType

LEMMA AccessInit ==
    ASSUME NEW CONSTANT c, AccessConstants(c), Access(c)!Init
    PROVE  AccessInv(c)
<1> USE AccountsArePeople
<1>1. AccessTyped(c)
  BY DEF Access!Init, AccessTyped, AccessConstants, Access!Rows, Access!Active,
     Access!None
<1>2. OneAtATime(c) /\ ReadsTell(c)
  BY DEF Access!Init, OneAtATime, ReadsTell, Access!None
<1>3. GuessesCounted(c)
  <2>1. ASSUME NEW a PROVE Guessing(c, a) = {}
    BY DEF Access!Init, Guessing, Access!None
  <2>2. Cardinality({}) = 0 /\ Cardinality(c.tabs) \in Nat
    BY FS_EmptySet, GuessingCount
  <2>3. ASSUME NEW a \in People(c)
        PROVE  guesses[a] + Cardinality(Guessing(c, a))
                  <= c.maxFailures + Cardinality(c.tabs) - 1
    <3>1. guesses[a] = 0
      BY <2>3 DEF Access!Init
    <3>2. c.maxFailures \in Nat /\ c.maxFailures >= 1
      BY DEF AccessConstants
    <3> QED BY <2>1, <2>2, <3>1, <3>2
  <2> QED BY <2>3 DEF Access!Init, GuessesCounted
<1> QED BY <1>1, <1>2, <1>3 DEF AccessInv

\* Every change of an account writes a row of a later version and revokes its
\* sessions; the form it came from, if any, is closed.
Secured(c, a, row) ==
    /\ row \in Access(c)!Rows /\ row.version > account[a].version
    /\ row.password <= row.version
    /\ account' = [account EXCEPT ![a] = row]
    /\ tabSession' = Access(c)!Revoked(a)
    /\ \/ accountForm' = accountForm
       \/ \E m \in c.admins : accountForm' = [accountForm EXCEPT ![m] = {}]
    /\ UNCHANGED <<login, failureWindow, guesses, admitted>>

\* A step of a command is such a change of the account as its form shows it.
Edited(c, m, f, row) == f \in accountForm[m] /\ Access(c)!Submit(m, f, row)

LEMMA SubmitSecures ==
    ASSUME NEW CONSTANT c, AccessConstants(c), AccessInv(c), NEW m \in c.admins, NEW f, NEW row,
           Edited(c, m, f, row),
           row.status \in {Access(c)!Active} \cup Access(c)!NotActive,
           row.stores \in SUBSET c.stores,
           row.password \in Nat, row.version \in Nat,
           row.version > account[f.account].version, row.password <= row.version,
           row = [status |-> row.status, password |-> row.password,
                  version |-> row.version, stores |-> row.stores]
    PROVE  /\ f.account \in People(c) /\ f.read = account[f.account]
           /\ Secured(c, f.account, row)
<1>1. f \in Edits(c)
  BY DEF Edited, AccessInv, AccessTyped
<1>2. f.account \in People(c)
  BY <1>1 DEF Edits
<1>3. f.read = account[f.account]
  BY <1>1, <1>2 DEF Edited, Access!Submit, Access!Expected, AccessInv, ReadsTell, ReadBefore
<1>4. row.version <= c.maxVersion
  BY DEF Edited, Access!Submit, Access!Secure
<1>5. row \in Access(c)!Rows
  BY <1>4 DEF Access!Rows, AccessConstants
<1>6. Secured(c, f.account, row)
  BY <1>5 DEF Edited, Access!Submit, Access!Secure, Access!None, Secured
<1> QED BY <1>2, <1>3, <1>6

\* The sessions of an account are revoked, those of others stay.
LEMMA RevokedSessions ==
    ASSUME NEW CONSTANT c, AccessTyped(c), NEW a, tabSession' = Access(c)!Revoked(a),
           NEW t \in c.tabs, NEW r \in tabSession'[t]
    PROVE  \E s \in tabSession[t] :
              r = IF s.account = a THEN [s EXCEPT !.revoked = TRUE] ELSE s
BY DEF Access!Revoked

LEMMA RevokedTyped ==
    ASSUME NEW CONSTANT c, AccessTyped(c), OneAtATime(c), NEW a,
           tabSession' = Access(c)!Revoked(a)
    PROVE  /\ tabSession' \in [c.tabs -> SUBSET Opened(c)]
           /\ \A t \in c.tabs : /\ \A s, r \in tabSession'[t] : s = r
                                /\ tabSession[t] = {} => tabSession'[t] = {}
<1>1. ASSUME NEW t \in c.tabs, NEW s \in tabSession[t]
      PROVE  (IF s.account = a THEN [s EXCEPT !.revoked = TRUE] ELSE s) \in Opened(c)
  <2>1. s \in Opened(c)
    BY <1>1 DEF AccessTyped
  <2> QED BY <2>1 DEF Opened
<1>2. tabSession' \in [c.tabs -> SUBSET Opened(c)]
  BY <1>1 DEF Access!Revoked
<1>3. ASSUME NEW t \in c.tabs, NEW s \in tabSession'[t], NEW r \in tabSession'[t]
      PROVE  s = r
  <2>1. PICK x \in tabSession[t] :
          s = IF x.account = a THEN [x EXCEPT !.revoked = TRUE] ELSE x
    BY <1>3, RevokedSessions
  <2>2. PICK y \in tabSession[t] :
          r = IF y.account = a THEN [y EXCEPT !.revoked = TRUE] ELSE y
    BY <1>3, RevokedSessions
  <2>3. x = y
    BY <1>3 DEF OneAtATime
  <2> QED BY <2>1, <2>2, <2>3
<1>4. ASSUME NEW t \in c.tabs, tabSession[t] = {} PROVE tabSession'[t] = {}
  BY <1>4, RevokedSessions
<1> QED BY <1>2, <1>3, <1>4

\* What was read before a change was read before it still.
LEMMA StillReadBefore ==
    ASSUME NEW CONSTANT c, AccessTyped(c), NEW a \in People(c), NEW row,
           row \in Access(c)!Rows, row.version > account[a].version,
           account' = [account EXCEPT ![a] = row],
           NEW b \in People(c), NEW r \in Access(c)!Rows, ReadBefore(b, r),
           AccessConstants(c)
    PROVE  ReadBefore(b, r)'
<1>1. r.version \in Nat /\ row.version \in Nat /\ account[a].version \in Nat
  <2>1. account[a] \in Access(c)!Rows
    BY DEF AccessTyped
  <2> QED BY <2>1 DEF Access!Rows, AccessConstants
<1>2. CASE a = b
  <2>1. account'[b] = row /\ account[b] = account[a]
    BY <1>2 DEF AccessTyped
  <2>2. r.version <= account[a].version
    BY <2>1 DEF ReadBefore
  <2>3. r.version < row.version
    BY <1>1, <2>2
  <2> QED BY <1>1, <2>1, <2>3 DEF ReadBefore
<1>3. CASE a # b
  <2>1. account'[b] = account[b]
    BY <1>3 DEF AccessTyped
  <2> QED BY <2>1 DEF ReadBefore
<1> QED BY <1>2, <1>3

LEMMA SecuredStep ==
    ASSUME NEW CONSTANT c, AccessConstants(c), AccessInv(c), NEW a \in People(c), NEW row,
           Secured(c, a, row)
    PROVE  AccessInv(c)'
<1> USE DEF AccessInv
<1>1. AccessTyped(c)'
  <2>1. account' \in [People(c) -> Access(c)!Rows]
    BY DEF AccessTyped, Secured
  <2>2. tabSession' \in [c.tabs -> SUBSET Opened(c)]
    BY RevokedTyped DEF Secured
  <2>3. accountForm' \in [c.admins -> SUBSET Edits(c)]
    BY DEF AccessTyped, Secured
  <2> QED BY <2>1, <2>2, <2>3 DEF AccessTyped, Secured
<1>2. OneAtATime(c)'
  BY RevokedTyped DEF OneAtATime, Secured
<1>3. ReadsTell(c)'
  <2>1. ASSUME NEW b \in People(c) PROVE account'[b].password <= account'[b].version
    BY DEF ReadsTell, Secured, AccessTyped
  <2>2. ASSUME NEW t \in c.tabs, NEW l \in login[t] PROVE ReadBefore(l.account, l.read)'
    <3>1. l \in Tries(c)
      BY <2>2 DEF AccessTyped
    <3>2. l.account \in People(c) /\ l.read \in Access(c)!Rows
      BY <3>1 DEF Tries
    <3>3. ReadBefore(l.account, l.read)
      BY <2>2 DEF ReadsTell
    <3> QED BY <3>2, <3>3, StillReadBefore DEF Secured
  <2>3. ASSUME NEW m \in c.admins, NEW f \in accountForm'[m]
        PROVE  ReadBefore(f.account, f.read)'
    <3>1. f \in accountForm[m]
      BY <2>3 DEF Secured, AccessTyped
    <3>2. f \in Edits(c)
      BY <3>1 DEF AccessTyped
    <3>3. f.account \in People(c) /\ f.read \in Access(c)!Rows
      BY <3>2 DEF Edits
    <3>4. ReadBefore(f.account, f.read)
      BY <3>1 DEF ReadsTell
    <3> QED BY <3>3, <3>4, StillReadBefore DEF Secured
  <2>4. ASSUME NEW t \in c.tabs, NEW r \in tabSession'[t]
        PROVE  /\ r.version <= account'[r.account].version
               /\ r.version = account'[r.account].version
                     => r.password = account'[r.account].password
    <3>1. PICK s \in tabSession[t] :
             r = IF s.account = a THEN [s EXCEPT !.revoked = TRUE] ELSE s
      BY <2>4, RevokedSessions DEF Secured
    <3>2. s \in Opened(c)
      BY DEF AccessTyped
    <3>3. r.account = s.account /\ r.version = s.version /\ r.password = s.password
      BY <3>1, <3>2 DEF Opened
    <3>4. s.account \in People(c) /\ s.version \in Nat
      BY <3>2 DEF Opened
    <3>5. /\ s.version <= account[s.account].version
          /\ s.version = account[s.account].version
                => s.password = account[s.account].password
      BY DEF ReadsTell
    <3>6. CASE s.account = a
      <4>1. account'[a] = row /\ row.version > account[a].version
        BY DEF Secured, AccessTyped
      <4>2. row.version \in Nat /\ account[a].version \in Nat
        <5>1. account[a] \in Access(c)!Rows /\ row \in Access(c)!Rows
          BY DEF AccessTyped, Secured
        <5> QED BY <5>1 DEF Access!Rows, AccessConstants
      <4> QED BY <3>3, <3>4, <3>5, <3>6, <4>1, <4>2
    <3>7. CASE s.account # a
      <4>1. account'[s.account] = account[s.account]
        BY <3>4, <3>7 DEF Secured, AccessTyped
      <4> QED BY <3>3, <3>5, <4>1
    <3> QED BY <3>6, <3>7
  <2>5. login' = login
    BY DEF Secured
  <2> QED BY <2>1, <2>2, <2>3, <2>4, <2>5 DEF ReadsTell
<1>4. GuessesCounted(c)'
  BY DEF GuessesCounted, Guessing, Secured
<1> QED BY <1>1, <1>2, <1>3, <1>4

LEMMA RowOfFields ==
    ASSUME NEW e, NEW x, NEW y, NEW z, NEW u,
           e \in [status : {x}, password : {y}, version : {z}, stores : {u}]
    PROVE  e = [status |-> x, password |-> y, version |-> z, stores |-> u]
OBVIOUS

\* What the commands write into a row.
LEMMA RowWritten ==
    ASSUME NEW CONSTANT c, NEW w \in Access(c)!Rows, w.version \in Nat, w.password \in Nat,
           NEW st
    PROVE  /\ [w EXCEPT !.status = st, !.version = @ + 1]
                = [status |-> st, password |-> w.password, version |-> w.version + 1,
                   stores |-> w.stores]
           /\ Access(c)!Renewed(w)
                = [status |-> w.status, password |-> w.password + 1,
                   version |-> w.version + 1, stores |-> w.stores]
<1>1. [w EXCEPT !.status = st, !.version = @ + 1]
         \in [status : {st}, password : {w.password}, version : {w.version + 1},
              stores : {w.stores}]
  BY DEF Access!Rows
<1>2. Access(c)!Renewed(w)
         \in [status : {w.status}, password : {w.password + 1}, version : {w.version + 1},
              stores : {w.stores}]
  BY DEF Access!Rows, Access!Renewed
<1> DEFINE e == [w EXCEPT !.status = st, !.version = @ + 1]
           r == Access(c)!Renewed(w)
<1>3. e \in [status : {st}, password : {w.password}, version : {w.version + 1},
              stores : {w.stores}]
  BY <1>1
<1>4. r \in [status : {w.status}, password : {w.password + 1}, version : {w.version + 1},
              stores : {w.stores}]
  BY <1>2
<1> HIDE DEF e, r
<1>5. e = [status |-> st, password |-> w.password, version |-> w.version + 1,
           stores |-> w.stores]
  BY <1>3, RowOfFields
<1>6. r = [status |-> w.status, password |-> w.password + 1, version |-> w.version + 1,
           stores |-> w.stores]
  BY <1>4, RowOfFields
<1> QED BY <1>5, <1>6 DEF e, r

\* The commands of administrators, and the closing of a store, are such changes.
LEMMA CommandsSecure ==
    ASSUME NEW CONSTANT c, AccessConstants(c), AccessInv(c),
           \/ \E m \in c.admins :
                \/ \E status \in {Access(c)!Active} \cup Access(c)!NotActive :
                      Access(c)!SetStatus(m, status)
                \/ Access(c)!ResetPassword(m)
                \/ \E stores \in SUBSET c.stores : Access(c)!ReplaceAssignments(m, stores)
           \/ \E a \in People(c) : Access(c)!CloseStore(a)
    PROVE  \E a \in People(c), row \in Access(c)!Rows :
              /\ Secured(c, a, row)
              /\ \/ row.password = account[a].password /\ row.stores = account[a].stores
                 \/ \E m \in c.admins : \E f \in accountForm[m] :
                       f.account = a /\ f.read = account[a]
<1> DEFINE Command(m, f, row) ==
       /\ Edited(c, m, f, row)
       /\ row.status \in {Access(c)!Active} \cup Access(c)!NotActive
       /\ row.stores \in SUBSET c.stores
       /\ row.password \in Nat /\ row.version \in Nat
       /\ row.version > account[f.account].version /\ row.password <= row.version
       /\ row = [status |-> row.status, password |-> row.password,
                 version |-> row.version, stores |-> row.stores]
<1>1. ASSUME NEW m \in c.admins, NEW f, NEW row, Command(m, f, row)
      PROVE  \E a \in People(c), w \in Access(c)!Rows :
                Secured(c, a, w) /\ \E n \in c.admins : \E g \in accountForm[n] :
                                       g.account = a /\ g.read = account[a]
  <2>1. f.account \in People(c) /\ f.read = account[f.account] /\ Secured(c, f.account, row)
    BY <1>1, SubmitSecures
  <2>2. row \in Access(c)!Rows /\ f \in accountForm[m]
    BY <1>1, <2>1 DEF Secured, Edited
  <2> QED BY <2>1, <2>2
<1>2. ASSUME NEW a \in People(c)
      PROVE  /\ account[a].status \in {Access(c)!Active} \cup Access(c)!NotActive
             /\ account[a].password \in Nat /\ account[a].version \in Nat
             /\ account[a].stores \in SUBSET c.stores
             /\ account[a].password <= account[a].version
             /\ account[a] \in Access(c)!Rows
  <2>1. account[a] \in Access(c)!Rows
    BY <1>2 DEF AccessInv, AccessTyped
  <2>2. account[a].password <= account[a].version
    BY <1>2 DEF AccessInv, ReadsTell
  <2> QED BY <2>1, <2>2 DEF Access!Rows, AccessConstants
<1>3. ASSUME NEW m \in c.admins, NEW f \in accountForm[m]
      PROVE  f.account \in People(c)
  <2>1. f \in Edits(c)
    BY <1>3 DEF AccessInv, AccessTyped
  <2> QED BY <2>1 DEF Edits
<1>4. ASSUME NEW m \in c.admins, NEW status \in {Access(c)!Active} \cup Access(c)!NotActive,
             Access(c)!SetStatus(m, status)
      PROVE  \E f, row : Command(m, f, row)
  <2>1. PICK f \in accountForm[m] :
           Access(c)!Submit(m, f, [account[f.account] EXCEPT !.status = status, !.version = @ + 1])
    BY <1>4 DEF Access!SetStatus
  <2> DEFINE row == [account[f.account] EXCEPT !.status = status, !.version = @ + 1]
  <2>2. row = [status |-> status, password |-> account[f.account].password,
               version |-> account[f.account].version + 1, stores |-> account[f.account].stores]
    BY <1>2, <1>3, RowWritten
  <2>3. Command(m, f, row)
    <3>1. Edited(c, m, f, row)
      BY <2>1 DEF Edited
    <3> HIDE DEF row
    <3> QED BY <1>2, <1>3, <1>4, <2>2, <3>1
  <2> QED BY <2>3
<1>5. ASSUME NEW m \in c.admins, Access(c)!ResetPassword(m)
      PROVE  \E f, row : Command(m, f, row)
  <2>1. PICK f \in accountForm[m] :
        Access(c)!Submit(m, f, Access(c)!Renewed(account[f.account]))
    BY <1>5 DEF Access!ResetPassword
  <2> DEFINE row == Access(c)!Renewed(account[f.account])
  <2>2. row = [status |-> account[f.account].status,
               password |-> account[f.account].password + 1,
               version |-> account[f.account].version + 1, stores |-> account[f.account].stores]
    BY <1>2, <1>3, RowWritten
  <2>3. Command(m, f, row)
    <3>1. Edited(c, m, f, row)
      BY <2>1 DEF Edited
    <3> HIDE DEF row
    <3> QED BY <1>2, <1>3, <1>5, <2>2, <3>1
  <2> QED BY <2>3
<1>6. ASSUME NEW m \in c.admins, NEW stores \in SUBSET c.stores,
             Access(c)!ReplaceAssignments(m, stores)
      PROVE  \E f, row : Command(m, f, row)
  <2>1. PICK f \in accountForm[m] :
           Access(c)!Submit(m, f, Access(c)!Reassigned(account[f.account], stores))
    BY <1>6 DEF Access!ReplaceAssignments
  <2> DEFINE row == Access(c)!Reassigned(account[f.account], stores)
             taken == Access(c)!Cardinality(account[f.account].stores \ stores)
             later == IF taken = 0 THEN 1 ELSE taken
  <2>2. later \in Nat /\ later >= 1
    <3>1. taken \in Nat
      BY <1>2, <1>3, AccessCardinality, FS_Subset, FS_CardinalityType DEF AccessConstants
    <3> HIDE DEF taken
    <3> QED BY <3>1
  <2>3. row = [account[f.account] EXCEPT !.stores = stores, !.version = @ + later]
    BY DEF Access!Reassigned
  <2> HIDE DEF later, row
  <2>4. /\ row.status = account[f.account].status /\ row.password = account[f.account].password
        /\ row.version = account[f.account].version + later /\ row.stores = stores
        /\ row = [status |-> row.status, password |-> row.password,
                  version |-> row.version, stores |-> row.stores]
    BY <1>2, <1>3, <2>3 DEF Access!Rows
  <2>5. Command(m, f, row)
    <3>1. Edited(c, m, f, row)
      BY <2>1 DEF Edited, row
    <3> QED BY <1>2, <1>3, <1>6, <2>2, <2>4, <3>1
  <2> QED BY <2>5
<1>7. ASSUME NEW a \in People(c), Access(c)!CloseStore(a)
      PROVE  \E row \in Access(c)!Rows :
                /\ Secured(c, a, row)
                /\ row.password = account[a].password /\ row.stores = account[a].stores
  <2> DEFINE row == [account[a] EXCEPT !.status = "disabled", !.version = @ + 1]
  <2>1. row = [status |-> "disabled", password |-> account[a].password,
               version |-> account[a].version + 1, stores |-> account[a].stores]
    BY <1>2, <1>7, RowWritten
  <2>2. row.version <= c.maxVersion /\ account' = [account EXCEPT ![a] = row]
        /\ tabSession' = Access(c)!Revoked(a)
        /\ UNCHANGED <<login, accountForm, failureWindow, guesses, admitted>>
    BY <1>7 DEF Access!CloseStore, Access!Secure
  <2> HIDE DEF row
  <2>3. row \in Access(c)!Rows
    BY <1>2, <1>7, <2>1, <2>2 DEF Access!Rows, Access!NotActive, AccessConstants
  <2>4. Secured(c, a, row)
    BY <1>2, <1>7, <2>1, <2>2, <2>3 DEF Secured
  <2> QED BY <2>1, <2>3, <2>4
<1> HIDE DEF Command
<1>8. CASE \E a \in People(c) : Access(c)!CloseStore(a)
  BY <1>7, <1>8
<1>9. CASE \E m \in c.admins :
             \/ \E status \in {Access(c)!Active} \cup Access(c)!NotActive :
                   Access(c)!SetStatus(m, status)
             \/ Access(c)!ResetPassword(m)
             \/ \E stores \in SUBSET c.stores : Access(c)!ReplaceAssignments(m, stores)
  <2>1. \E m \in c.admins : \E f, row : Command(m, f, row)
    BY <1>4, <1>5, <1>6, <1>9
  <2> QED BY <1>1, <2>1
<1> QED BY <1>8, <1>9

\* What is guessed at an account does not grow when no login begins.
LEMMA FewerGuesses ==
    ASSUME NEW CONSTANT c, AccessConstants(c), AccessInv(c), guesses' = failureWindow',
           failureWindow' \in [People(c) -> Nat],
           \A a \in People(c) : /\ Guessing(c, a)' \subseteq Guessing(c, a)
                                /\ guesses'[a] <= guesses[a]
    PROVE  GuessesCounted(c)'
<1> SUFFICES ASSUME NEW a \in People(c)
             PROVE  guesses'[a] + Cardinality(Guessing(c, a)')
                       <= c.maxFailures + Cardinality(c.tabs) - 1
  BY DEF GuessesCounted
<1>1. /\ Cardinality(Guessing(c, a)') <= Cardinality(Guessing(c, a))
      /\ Cardinality(Guessing(c, a)') \in Nat /\ Cardinality(Guessing(c, a)) \in Nat
  BY GuessingCount, FS_Subset, FS_CardinalityType
<1>2. guesses[a] \in Nat /\ guesses'[a] \in Nat
  BY DEF AccessInv, AccessTyped, GuessesCounted
<1>3. guesses[a] + Cardinality(Guessing(c, a)) <= c.maxFailures + Cardinality(c.tabs) - 1
  BY DEF AccessInv, GuessesCounted
<1>4. guesses'[a] <= guesses[a]
  OBVIOUS
<1>5. c.maxFailures \in Nat /\ Cardinality(c.tabs) \in Nat
  BY GuessingCount DEF AccessConstants
<1> HIDE DEF Guessing
<1> QED BY <1>1, <1>2, <1>3, <1>4, <1>5

\* A login begins below the limit, and there are no more of them than tabs.
LEMMA StartLoginStep ==
    ASSUME NEW CONSTANT c, AccessConstants(c), AccessInv(c), NEW t \in c.tabs,
           NEW a \in People(c), NEW p \in 0 .. account[a].password,
              Access(c)!StartLogin(t, a, p)
    PROVE  AccessInv(c)'
<1> DEFINE l == [account |-> a, tried |-> p, read |-> account[a]]
<1>1. /\ login[t] = {} /\ tabSession[t] = {} /\ failureWindow[a] < c.maxFailures
      /\ login' = [login EXCEPT ![t] = {l}]
      /\ UNCHANGED <<account, tabSession, accountForm, failureWindow, guesses, admitted>>
  BY DEF Access!StartLogin, Access!None
<1>2. l \in Tries(c)
  <2>1. account[a] \in Access(c)!Rows
    BY DEF AccessInv, AccessTyped
  <2>2. p \in Nat
    BY <2>1 DEF Access!Rows, AccessConstants
  <2> QED BY <2>1, <2>2 DEF Tries
<1>3. l.account = a /\ l.read = account[a] /\ l.tried = p
  OBVIOUS
<1> HIDE DEF l
<1>4. AccessTyped(c)'
  BY <1>1, <1>2 DEF AccessInv, AccessTyped
<1>5. OneAtATime(c)'
  BY <1>1 DEF AccessInv, AccessTyped, OneAtATime
<1>6. ReadsTell(c)'
  <2>1. ReadBefore(l.account, l.read)
    <3>1. account[a] \in Access(c)!Rows
      BY DEF AccessInv, AccessTyped
    <3>2. account[a].version \in Nat
      BY <3>1 DEF Access!Rows, AccessConstants
    <3> QED BY <1>3, <3>2 DEF ReadBefore
  <2>2. ASSUME NEW u \in c.tabs, NEW k \in login'[u]
        PROVE  k \in login[u] \/ k = l
    BY <1>1, <2>2 DEF AccessInv, AccessTyped
  <2> QED BY <1>1, <2>1, <2>2 DEF AccessInv, ReadsTell, ReadBefore
<1>7. GuessesCounted(c)'
  <2> SUFFICES ASSUME NEW b \in People(c)
               PROVE  guesses'[b] + Cardinality(Guessing(c, b)')
                         <= c.maxFailures + Cardinality(c.tabs) - 1
    BY <1>1 DEF AccessInv, GuessesCounted
  <2>1. CASE b = a
    <3>1. guesses'[b] < c.maxFailures /\ guesses'[b] \in Nat
      BY <1>1, <2>1 DEF AccessInv, AccessTyped, GuessesCounted
    <3>2. /\ Cardinality(Guessing(c, b)') <= Cardinality(c.tabs)
          /\ Cardinality(Guessing(c, b)') \in Nat
      <4>1. Guessing(c, b)' \subseteq c.tabs /\ IsFiniteSet(c.tabs)
        BY DEF Guessing, AccessConstants
      <4> QED BY <4>1, FS_Subset, FS_CardinalityType
    <3>3. c.maxFailures \in Nat /\ Cardinality(c.tabs) \in Nat
      BY GuessingCount DEF AccessConstants
    <3> HIDE DEF Guessing
    <3> QED BY <3>1, <3>2, <3>3
  <2>2. CASE b # a
    <3>1. ASSUME NEW u \in c.tabs
          PROVE  u \in Guessing(c, b)' <=> u \in Guessing(c, b)
      <4>1. CASE u = t
        BY <1>1, <1>3, <2>2, <4>1 DEF Guessing, AccessInv, AccessTyped
      <4>2. CASE u # t
        BY <1>1, <4>2 DEF Guessing, AccessInv, AccessTyped
      <4> QED BY <4>1, <4>2
    <3>2. Guessing(c, b)' = Guessing(c, b)
      BY <3>1 DEF Guessing
    <3> QED BY <1>1, <3>2 DEF AccessInv, GuessesCounted
  <2> QED BY <2>1, <2>2
<1> QED BY <1>4, <1>5, <1>6, <1>7 DEF AccessInv

\* A wrong password was one that was guessed, and is counted now.
LEMMA WrongPasswordStep ==
    ASSUME NEW CONSTANT c, AccessConstants(c), AccessInv(c), NEW t \in c.tabs,
           Access(c)!WrongPassword(t)
    PROVE  AccessInv(c)'
<1>1. PICK l \in login[t] :
         /\ l.tried # l.read.password
         /\ login' = [login EXCEPT ![t] = {}]
         /\ failureWindow' = [failureWindow EXCEPT ![l.account] = @ + 1]
         /\ guesses' = [guesses EXCEPT ![l.account] = @ + 1]
         /\ UNCHANGED <<account, tabSession, accountForm, admitted>>
  BY DEF Access!WrongPassword, Access!None
<1>2. l.account \in People(c)
  <2>1. l \in Tries(c)
    BY DEF AccessInv, AccessTyped
  <2> QED BY <2>1 DEF Tries
<1>3. AccessTyped(c)'
  BY <1>1, <1>2 DEF AccessInv, AccessTyped
<1>4. OneAtATime(c)'
  BY <1>1 DEF AccessInv, AccessTyped, OneAtATime
<1>5. ReadsTell(c)'
  <2>1. ASSUME NEW u \in c.tabs PROVE login'[u] \subseteq login[u]
    BY <1>1 DEF AccessInv, AccessTyped
  <2> QED BY <1>1, <2>1 DEF AccessInv, ReadsTell, ReadBefore
<1>6. GuessesCounted(c)'
  <2> SUFFICES ASSUME NEW b \in People(c)
               PROVE  guesses'[b] + Cardinality(Guessing(c, b)')
                         <= c.maxFailures + Cardinality(c.tabs) - 1
    BY <1>1 DEF AccessInv, GuessesCounted
  <2>1. ASSUME NEW u \in c.tabs PROVE u # t => login'[u] = login[u]
    BY <1>1 DEF AccessInv, AccessTyped
  <2>2. login'[t] = {} /\ \A k \in login[t] : k = l
    BY <1>1 DEF AccessInv, AccessTyped, OneAtATime
  <2>3. guesses[b] + Cardinality(Guessing(c, b)) <= c.maxFailures + Cardinality(c.tabs) - 1
    BY DEF AccessInv, GuessesCounted
  <2>4. CASE b = l.account
    <3>1. t \in Guessing(c, b)
      BY <1>1, <2>4 DEF Guessing
    <3>2. Guessing(c, b)' = Guessing(c, b) \ {t}
      BY <2>1, <2>2 DEF Guessing
    <3>3. guesses'[b] = guesses[b] + 1 /\ guesses[b] \in Nat
      BY <1>1, <1>2, <2>4 DEF AccessInv, AccessTyped, GuessesCounted
    <3>4. Cardinality(Guessing(c, b)') = Cardinality(Guessing(c, b)) - 1
      BY <3>1, <3>2, GuessingCount, FS_RemoveElement
    <3>5. /\ Cardinality(Guessing(c, b)) \in Nat
          /\ c.maxFailures \in Nat /\ Cardinality(c.tabs) \in Nat
      BY GuessingCount DEF AccessConstants
    <3> HIDE DEF Guessing
    <3> QED BY <2>3, <3>3, <3>4, <3>5
  <2>5. CASE b # l.account
    <3>1. Guessing(c, b)' = Guessing(c, b)
      BY <2>1, <2>2, <2>5 DEF Guessing
    <3>2. guesses'[b] = guesses[b]
      BY <1>1, <1>2, <2>5 DEF AccessInv, AccessTyped, GuessesCounted
    <3> QED BY <2>3, <3>1, <3>2
  <2> QED BY <2>4, <2>5
<1> QED BY <1>3, <1>4, <1>5, <1>6 DEF AccessInv

\* A session is opened with what was read, which is of the account as it is or
\* of an older version.
LEMMA FinishLoginStep ==
    ASSUME NEW CONSTANT c, AccessConstants(c), AccessInv(c), NEW t \in c.tabs,
           Access(c)!FinishLogin(t)
    PROVE  AccessInv(c)'
<1>1. PICK l \in login[t] :
         /\ l.tried = l.read.password
         /\ login' = [login EXCEPT ![t] = {}]
         /\ failureWindow' = [failureWindow EXCEPT ![l.account] = 0]
         /\ guesses' = [guesses EXCEPT ![l.account] = 0]
         /\ tabSession' = [tabSession EXCEPT ![t] = IF l.read.status = Access(c)!Active
                                                    THEN {Access(c)!Opened(l)} ELSE {}]
         /\ UNCHANGED <<account, accountForm, admitted>>
  BY DEF Access!FinishLogin, Access!None
<1> DEFINE o == Access(c)!Opened(l)
<1>2. l.account \in People(c) /\ l.tried \in Nat /\ l.read \in Access(c)!Rows
  <2>1. l \in Tries(c)
    BY DEF AccessInv, AccessTyped
  <2> QED BY <2>1 DEF Tries
<1>3. l.read.version \in Nat
  BY <1>2 DEF Access!Rows, AccessConstants
<1>4. /\ o.account = l.account /\ o.version = l.read.version
      /\ o.password = l.read.password /\ o \in Opened(c)
  BY <1>1, <1>2, <1>3 DEF Access!Opened, Opened
<1> HIDE DEF o
<1>5. ASSUME NEW u \in c.tabs
      PROVE  /\ u # t => login'[u] = login[u] /\ tabSession'[u] = tabSession[u]
             /\ u = t => login'[u] = {} /\ tabSession'[u] \subseteq {o}
  BY <1>1 DEF AccessInv, AccessTyped, o
<1>6. AccessTyped(c)'
  <2>1. tabSession' \in [c.tabs -> SUBSET Opened(c)]
    BY <1>1, <1>4 DEF AccessInv, AccessTyped, o
  <2> QED BY <1>1, <1>2, <2>1 DEF AccessInv, AccessTyped
<1>7. OneAtATime(c)'
  BY <1>5 DEF AccessInv, OneAtATime
<1>8. ReadsTell(c)'
  <2>1. ReadBefore(l.account, l.read)
    BY <1>1 DEF AccessInv, ReadsTell
  <2>2. ASSUME NEW u \in c.tabs, NEW r \in tabSession'[u]
        PROVE  /\ r.version <= account[r.account].version
               /\ r.version = account[r.account].version
                     => r.password = account[r.account].password
    <3>1. CASE u = t
      <4>1. r = o
        BY <1>5, <2>2, <3>1
      <4> QED BY <1>4, <2>1, <4>1 DEF ReadBefore
    <3>2. CASE u # t
      BY <1>5, <2>2, <3>2 DEF AccessInv, ReadsTell
    <3> QED BY <3>1, <3>2
  <2>3. ASSUME NEW u \in c.tabs PROVE login'[u] \subseteq login[u]
    BY <1>5
  <2> QED BY <1>1, <2>2, <2>3 DEF AccessInv, ReadsTell, ReadBefore
<1>9. GuessesCounted(c)'
  <2>1. ASSUME NEW a \in People(c)
        PROVE  Guessing(c, a)' \subseteq Guessing(c, a) /\ guesses'[a] <= guesses[a]
    <3>1. Guessing(c, a)' \subseteq Guessing(c, a)
      BY <1>5 DEF Guessing
    <3>2. guesses[a] \in Nat /\ guesses'[a] \in {0, guesses[a]}
      BY <1>1, <1>2 DEF AccessInv, AccessTyped, GuessesCounted
    <3> QED BY <3>1, <3>2
  <2>2. guesses' = failureWindow' /\ failureWindow' \in [People(c) -> Nat]
    BY <1>1, <1>6 DEF AccessInv, AccessTyped, GuessesCounted
  <2> QED BY <2>1, <2>2, FewerGuesses
<1> QED BY <1>6, <1>7, <1>8, <1>9 DEF AccessInv

LEMMA RequestSteps ==
    ASSUME NEW CONSTANT c, AccessConstants(c), AccessInv(c), NEW t \in c.tabs,
           Access(c)!Request(t) \/ Access(c)!Refused(t) \/ Access(c)!Logout(t)
    PROVE  AccessInv(c)'
<1>1. ASSUME NEW u \in c.tabs PROVE tabSession'[u] \in {{}, tabSession[u]}
  BY DEF Access!Request, Access!Refused, Access!Logout, Access!None, AccessInv, AccessTyped
<1>2. UNCHANGED <<account, login, accountForm, failureWindow, guesses>>
  BY DEF Access!Request, Access!Refused, Access!Logout
<1>3. tabSession' \in [c.tabs -> SUBSET Opened(c)]
  BY DEF Access!Request, Access!Refused, Access!Logout, Access!None, AccessInv, AccessTyped
<1>4. AccessTyped(c)'
  BY <1>2, <1>3 DEF AccessInv, AccessTyped
<1>5. OneAtATime(c)'
  BY <1>1, <1>2 DEF AccessInv, OneAtATime
<1>6. ReadsTell(c)'
  BY <1>1, <1>2 DEF AccessInv, ReadsTell, ReadBefore
<1>7. GuessesCounted(c)'
  BY <1>2 DEF AccessInv, GuessesCounted, Guessing
<1> QED BY <1>4, <1>5, <1>6, <1>7 DEF AccessInv

LEMMA WindowEndsStep ==
    ASSUME NEW CONSTANT c, AccessConstants(c), AccessInv(c), NEW a \in People(c),
           Access(c)!WindowEnds(a)
    PROVE  AccessInv(c)'
<1>1. /\ failureWindow' = [failureWindow EXCEPT ![a] = 0]
      /\ guesses' = [guesses EXCEPT ![a] = 0]
      /\ UNCHANGED <<account, tabSession, login, accountForm, admitted>>
  BY DEF Access!WindowEnds
<1>2. AccessTyped(c)'
  BY <1>1 DEF AccessInv, AccessTyped
<1>3. OneAtATime(c)' /\ ReadsTell(c)'
  BY <1>1 DEF AccessInv, OneAtATime, ReadsTell, ReadBefore
<1>4. GuessesCounted(c)'
  <2>1. ASSUME NEW b \in People(c)
        PROVE  Guessing(c, b)' \subseteq Guessing(c, b) /\ guesses'[b] <= guesses[b]
    <3>1. Guessing(c, b)' \subseteq Guessing(c, b)
      BY <1>1 DEF Guessing
    <3>2. guesses[b] \in Nat /\ guesses'[b] \in {0, guesses[b]}
      BY <1>1 DEF AccessInv, AccessTyped, GuessesCounted
    <3> QED BY <3>1, <3>2
  <2>2. guesses' = failureWindow' /\ failureWindow' \in [People(c) -> Nat]
    BY <1>1, <1>2 DEF AccessInv, AccessTyped, GuessesCounted
  <2> QED BY <2>1, <2>2, FewerGuesses
<1> QED BY <1>2, <1>3, <1>4 DEF AccessInv

LEMMA OpenFormStep ==
    ASSUME NEW CONSTANT c, AccessConstants(c), AccessInv(c), NEW m \in c.admins,
           NEW a \in People(c), Access(c)!OpenForm(m, a)
    PROVE  AccessInv(c)'
<1> DEFINE f == [account |-> a, read |-> account[a]]
<1>1. /\ accountForm' = [accountForm EXCEPT ![m] = {f}]
      /\ UNCHANGED <<account, tabSession, login, failureWindow, guesses, admitted>>
  BY DEF Access!OpenForm
<1>2. account[a] \in Access(c)!Rows
  BY DEF AccessInv, AccessTyped
<1>3. f \in Edits(c) /\ f.account = a /\ f.read = account[a]
  BY <1>2 DEF Edits
<1>4. account[a].version \in Nat
  BY <1>2 DEF Access!Rows, AccessConstants
<1> HIDE DEF f
<1>5. AccessTyped(c)'
  BY <1>1, <1>3 DEF AccessInv, AccessTyped
<1>6. OneAtATime(c)' /\ GuessesCounted(c)'
  BY <1>1 DEF AccessInv, OneAtATime, GuessesCounted, Guessing
<1>7. ReadsTell(c)'
  <2>1. ReadBefore(f.account, f.read)
    BY <1>3, <1>4 DEF ReadBefore
  <2>2. ASSUME NEW n \in c.admins, NEW g \in accountForm'[n]
        PROVE  g \in accountForm[n] \/ g = f
    BY <1>1, <2>2 DEF AccessInv, AccessTyped
  <2> QED BY <1>1, <2>1, <2>2 DEF AccessInv, ReadsTell, ReadBefore
<1> QED BY <1>5, <1>6, <1>7 DEF AccessInv

LEMMA AccessStep ==
    ASSUME NEW CONSTANT c, AccessConstants(c), AccessInv(c), Access(c)!Next
    PROVE  AccessInv(c)'
<1> DEFINE Command ==
       \/ \E m \in c.admins :
            \/ \E status \in {Access(c)!Active} \cup Access(c)!NotActive :
                  Access(c)!SetStatus(m, status)
            \/ Access(c)!ResetPassword(m)
            \/ \E stores \in SUBSET c.stores : Access(c)!ReplaceAssignments(m, stores)
       \/ \E a \in People(c) : Access(c)!CloseStore(a)
<1>1. CASE Command
  BY <1>1, CommandsSecure, SecuredStep
<1>2. CASE \E t \in c.tabs :
             \E a \in People(c), p \in Nat :
                p \in 0 .. account[a].password /\ Access(c)!StartLogin(t, a, p)
  BY <1>2, StartLoginStep
<1>3. CASE \E t \in c.tabs : Access(c)!WrongPassword(t) \/ Access(c)!FinishLogin(t)
  BY <1>3, WrongPasswordStep, FinishLoginStep
<1>4. CASE \E t \in c.tabs :
             Access(c)!Request(t) \/ Access(c)!Refused(t) \/ Access(c)!Logout(t)
  BY <1>4, RequestSteps
<1>5. CASE \E a \in People(c) :
             \/ Access(c)!WindowEnds(a)
             \/ \E m \in c.admins : Access(c)!OpenForm(m, a)
  BY <1>5, WindowEndsStep, OpenFormStep
<1>6. ASSUME NEW a \in People(c) PROVE 0 .. account[a].password \subseteq Nat
  OBVIOUS
<1> QED BY <1>1, <1>2, <1>3, <1>4, <1>5, <1>6, AccountsArePeople DEF Access!Next

LEMMA AccessAlways ==
    ASSUME NEW CONSTANT c, Access(c)!AccountSessionsAssumption
    PROVE  Access(c)!Spec => []AccessInv(c)
<1>1. AccessConstants(c)
  BY AccessConstantsHold
<1>2. AccessInv(c) /\ UNCHANGED Access(c)!vars => AccessInv(c)'
  BY DEF Access!vars, AccessInv, AccessTyped, OneAtATime, ReadsTell, ReadBefore,
     GuessesCounted, Guessing
<1>3. AccessInv(c) /\ [Access(c)!Next]_(Access(c)!vars) => AccessInv(c)'
  BY <1>1, <1>2, AccessStep
<1>4. Access(c)!Init => AccessInv(c)
  BY <1>1, AccessInit
<1> QED BY <1>3, <1>4, PTL DEF Access!Spec

\* However many logins run at the same time, a window of the limiter verifies no
\* more wrong passwords than the limit and one for each further tab
\* (login-rate-limiter.ts, asked before the password is hashed).
THEOREM GuessesStayBounded ==
    ASSUME NEW CONSTANT c, Access(c)!AccountSessionsAssumption
    PROVE  Access(c)!Spec => [](Access(c)!TypeOK /\ Access(c)!GuessesBounded)
<1>1. AccessConstants(c)
  BY AccessConstantsHold
<1>2. ASSUME AccessInv(c), NEW S, \A s, r \in S : s = r
      PROVE  Access(c)!Cardinality(S) <= 1
  <2>1. CASE S = {}
    BY <2>1, AccessCardinality, FS_EmptySet
  <2>2. CASE S # {}
    <3>1. PICK x \in S : TRUE
      BY <2>2
    <3>2. S = {x}
      BY <1>2, <3>1
    <3>3. Cardinality(S) = 1
      BY <3>2, FS_Singleton
    <3> QED BY <3>3, AccessCardinality
  <2> QED BY <2>1, <2>2
<1>3. AccessInv(c) => Access(c)!TypeOK
  <2> SUFFICES ASSUME AccessInv(c) PROVE Access(c)!TypeOK
    OBVIOUS
  <2> USE AccountsArePeople
  <2>1. account \in [Access(c)!Accounts -> Access(c)!Rows]
    BY DEF AccessInv, AccessTyped
  <2>2. \A t \in c.tabs : /\ Access(c)!Cardinality(tabSession[t]) <= 1
                          /\ Access(c)!Cardinality(login[t]) <= 1
    BY <1>2 DEF AccessInv, OneAtATime
  <2>3. ASSUME NEW t \in c.tabs, NEW s \in tabSession[t]
        PROVE  s.account \in Access(c)!Accounts /\ s.version \in 0 .. c.maxVersion
    <3>1. s \in Opened(c)
      BY <2>3 DEF AccessInv, AccessTyped
    <3>2. s.account \in People(c) /\ s.version \in Nat
      BY <3>1 DEF Opened
    <3>3. account[s.account] \in Access(c)!Rows
      BY <3>2 DEF AccessInv, AccessTyped
    <3>4. account[s.account].version \in 0 .. c.maxVersion
      BY <3>3 DEF Access!Rows
    <3>5. s.version <= account[s.account].version
      BY <2>3 DEF AccessInv, ReadsTell
    <3> QED BY <1>1, <3>2, <3>4, <3>5 DEF AccessConstants
  <2>4. ASSUME NEW m \in c.admins, NEW f \in accountForm[m]
        PROVE  f.account \in Access(c)!Accounts /\ f.read \in Access(c)!Rows
    <3>1. f \in Edits(c)
      BY <2>4 DEF AccessInv, AccessTyped
    <3> QED BY <3>1 DEF Edits
  <2>5. \A a \in Access(c)!Accounts : failureWindow[a] \in Nat /\ guesses[a] \in Nat
    BY DEF AccessInv, AccessTyped, GuessesCounted
  <2> QED BY <2>1, <2>2, <2>3, <2>4, <2>5 DEF Access!TypeOK
<1>4. AccessInv(c) => Access(c)!GuessesBounded
  BY AccountsArePeople, AccessCardinality
  DEF AccessInv, GuessesCounted, Guessing, Access!GuessesBounded
<1> QED BY <1>3, <1>4, AccessAlways, PTL

AccessFollows(c) ==
    Access(c)!AdmittedIsCurrent /\ Access(c)!DeadStaysDead /\ Access(c)!EditsWhatWasSeen

LEMMA SecuredFollows ==
    ASSUME NEW CONSTANT c, AccessInv(c), NEW a \in People(c), NEW row, Secured(c, a, row),
           \/ row.password = account[a].password /\ row.stores = account[a].stores
           \/ \E m \in c.admins : \E f \in accountForm[m] : f.account = a /\ f.read = account[a]
    PROVE  AccessFollows(c)
<1>1. Access(c)!AdmittedIsCurrent
  BY DEF Secured, Access!AdmittedIsCurrent
<1>2. ASSUME NEW b \in People(c) PROVE account'[b] = IF b = a THEN row ELSE account[b]
  BY DEF Secured, AccessInv, AccessTyped
<1>3. Access(c)!DeadStaysDead
  <2> SUFFICES ASSUME NEW t \in c.tabs, NEW s \in tabSession[t], ~Access(c)!Resolves(s),
                      NEW r \in tabSession'[t]
               PROVE  ~Access(c)!Resolves(r)'
    BY DEF Access!DeadStaysDead
  <2>1. PICK x \in tabSession[t] : r = IF x.account = a THEN [x EXCEPT !.revoked = TRUE] ELSE x
    BY RevokedSessions DEF Secured, AccessInv
  <2>2. x = s /\ s \in Opened(c)
    BY DEF AccessInv, AccessTyped, OneAtATime
  <2>3. CASE s.account = a
    <3>1. r.revoked
      BY <2>1, <2>2, <2>3 DEF Opened
    <3> QED BY <3>1 DEF Access!Resolves
  <2>4. CASE s.account # a
    <3>1. r = s /\ account'[s.account] = account[s.account]
      BY <1>2, <2>1, <2>2, <2>4 DEF Opened
    <3> QED BY <3>1 DEF Access!Resolves
  <2> QED BY <2>3, <2>4
<1>4. Access(c)!EditsWhatWasSeen
  BY <1>2, AccountsArePeople DEF Access!EditsWhatWasSeen
<1> QED BY <1>1, <1>3, <1>4 DEF AccessFollows

LEMMA OthersFollow ==
    ASSUME NEW CONSTANT c, AccessInv(c), account' = account,
           \/ admitted' = admitted
           \/ \E t \in c.tabs : Access(c)!Request(t),
           \A t \in c.tabs : tabSession[t] = {} \/ tabSession'[t] \in {{}, tabSession[t]}
    PROVE  AccessFollows(c)
<1>1. Access(c)!AdmittedIsCurrent
  <2> SUFFICES ASSUME NEW t \in c.tabs, NEW s \in tabSession[t], Access(c)!Resolves(s),
                      admitted' = {[tab |-> t, session |-> s]}
               PROVE  /\ account[s.account].status = Access(c)!Active
                      /\ account[s.account].password = s.password
    BY DEF Access!AdmittedIsCurrent, Access!Request
  <2> QED BY DEF Access!Resolves, AccessInv, ReadsTell
<1>2. Access(c)!DeadStaysDead
  <2> SUFFICES ASSUME NEW t \in c.tabs, NEW s \in tabSession[t], ~Access(c)!Resolves(s),
                      NEW r \in tabSession'[t]
               PROVE  ~Access(c)!Resolves(r)'
    BY DEF Access!DeadStaysDead
  <2>1. r = s
    BY DEF AccessInv, OneAtATime
  <2> QED BY <2>1 DEF Access!Resolves
<1>3. Access(c)!EditsWhatWasSeen
  BY DEF Access!EditsWhatWasSeen
<1> QED BY <1>1, <1>2, <1>3 DEF AccessFollows

\* Whatever administrators change while a password is verified: a request is let
\* in only for an active account and the password in force, a session that is
\* dead never serves again, and an edit is of the account as it was opened
\* (account-commands.ts and auth.ts compare the version).
THEOREM AccessFollowsChanges ==
    ASSUME NEW CONSTANT c, Access(c)!AccountSessionsAssumption
    PROVE  Access(c)!Spec => [][/\ Access(c)!AdmittedIsCurrent
                                /\ Access(c)!DeadStaysDead
                                /\ Access(c)!EditsWhatWasSeen]_(Access(c)!vars)
<1>1. AccessConstants(c)
  BY AccessConstantsHold
<1> DEFINE Command ==
       \/ \E m \in c.admins :
            \/ \E status \in {Access(c)!Active} \cup Access(c)!NotActive :
                  Access(c)!SetStatus(m, status)
            \/ Access(c)!ResetPassword(m)
            \/ \E stores \in SUBSET c.stores : Access(c)!ReplaceAssignments(m, stores)
       \/ \E a \in People(c) : Access(c)!CloseStore(a)
<1>2. AccessInv(c) /\ Access(c)!Next => AccessFollows(c)
  <2> SUFFICES ASSUME AccessInv(c), Access(c)!Next PROVE AccessFollows(c)
    OBVIOUS
  <2>1. CASE Command
    BY <1>1, <2>1, CommandsSecure, SecuredFollows
  <2>2. CASE \E t \in c.tabs :
               \/ \E a \in People(c) : \E p \in 0 .. account[a].password :
                     Access(c)!StartLogin(t, a, p)
               \/ Access(c)!WrongPassword(t)
               \/ Access(c)!Logout(t)
               \/ Access(c)!Refused(t)
    <3>1. \A u \in c.tabs : tabSession'[u] \in {{}, tabSession[u]}
      BY <2>2 DEF Access!StartLogin, Access!WrongPassword, Access!Logout, Access!Refused,
         Access!None, AccessInv, AccessTyped
    <3>2. account' = account /\ admitted' = admitted
      BY <2>2 DEF Access!StartLogin, Access!WrongPassword, Access!Logout, Access!Refused
    <3> QED BY <3>1, <3>2, OthersFollow
  <2>3. CASE \E t \in c.tabs : Access(c)!FinishLogin(t)
    <3>1. \A u \in c.tabs : tabSession[u] = {} \/ tabSession'[u] = tabSession[u]
      BY <2>3 DEF Access!FinishLogin, AccessInv, AccessTyped, OneAtATime
    <3>2. account' = account /\ admitted' = admitted
      BY <2>3 DEF Access!FinishLogin
    <3> QED BY <3>1, <3>2, OthersFollow
  <2>4. CASE \E t \in c.tabs : Access(c)!Request(t)
    <3>1. account' = account /\ tabSession' = tabSession
      BY <2>4 DEF Access!Request
    <3> QED BY <2>4, <3>1, OthersFollow
  <2>5. CASE \E a \in People(c) :
               Access(c)!WindowEnds(a) \/ \E m \in c.admins : Access(c)!OpenForm(m, a)
    <3>1. account' = account /\ tabSession' = tabSession /\ admitted' = admitted
      BY <2>5 DEF Access!WindowEnds, Access!OpenForm
    <3> QED BY <3>1, OthersFollow
  <2> QED BY <2>1, <2>2, <2>3, <2>4, <2>5, AccountsArePeople DEF Access!Next
<1>3. AccessInv(c) /\ UNCHANGED Access(c)!vars => AccessFollows(c)
  BY OthersFollow DEF Access!vars
<1>4. AccessFollows(c) <=> /\ Access(c)!AdmittedIsCurrent
                           /\ Access(c)!DeadStaysDead
                           /\ Access(c)!EditsWhatWasSeen
  BY DEF AccessFollows
<1> QED BY <1>2, <1>3, <1>4, AccessAlways, PTL DEF Access!Spec

-----------------------------------------------------------------------------
(* The cookies of the tabs of a browser.                                   *)

\* TabSessions with the constants that c names.
Tabbed(c) == INSTANCE TabSessions WITH
    Tabs <- c.tabs, MaxCookies <- c.maxCookies, MaxLogins <- c.maxLogins,
    MaxInFlight <- c.maxInFlight, Resolution <- c.resolution,
    MaxTime <- c.maxTime, clock <- tabClock, answer <- loginAnswer

TabConstants(c) ==
    /\ c.maxCookies \in Nat \ {0} /\ c.maxLogins \in Nat \ {0} /\ c.maxInFlight \in Nat \ {0}
    /\ c.resolution \in Nat \ {0} /\ c.maxTime \in Nat
    /\ IsFiniteSet(c.tabs)

\* The instance counts as FiniteSets does.
LEMMA TabCardinality ==
    ASSUME NEW CONSTANT c, NEW S
    PROVE  /\ Tabbed(c)!Cardinality(S) = Cardinality(S)
           /\ Tabbed(c)!IsFiniteSet(S) = IsFiniteSet(S)
BY DEF Cardinality, Tabbed!Cardinality, IsFiniteSet, Tabbed!IsFiniteSet

LEMMA TabConstantsHold ==
    ASSUME NEW CONSTANT c, Tabbed(c)!TabSessionsAssumption
    PROVE  TabConstants(c)
BY TabCardinality DEF Tabbed!TabSessionsAssumption, TabConstants

-----------------------------------------------------------------------------
(* The times of sessions.                                                  *)

\* What is known of the times: each is stored no later than the last use, and
\* less than Resolution before it.
Timed(c) ==
    /\ tabClock \in 0 .. c.maxTime
    /\ DOMAIN lastUsed = DOMAIN lastSeen /\ IsFiniteSet(DOMAIN lastSeen)
    /\ \A s \in DOMAIN lastSeen :
          /\ lastSeen[s] \in 0 .. lastUsed[s] /\ lastUsed[s] \in 0 .. tabClock
          /\ lastUsed[s] < lastSeen[s] + c.resolution

\* Sessions that go leave the times of the others as they are.
LEMMA TimesLeft ==
    ASSUME NEW CONSTANT c, TabConstants(c), Timed(c), NEW gone,
           lastSeen' = Tabbed(c)!Without(lastSeen, gone),
           lastUsed' = Tabbed(c)!Without(lastUsed, gone), tabClock' = tabClock
    PROVE  Timed(c)' /\ DOMAIN lastSeen' = DOMAIN lastSeen \ gone
<1>1. /\ DOMAIN lastSeen' = DOMAIN lastSeen \ gone
      /\ DOMAIN lastUsed' = DOMAIN lastSeen \ gone
      /\ \A r \in DOMAIN lastSeen \ gone :
            lastSeen'[r] = lastSeen[r] /\ lastUsed'[r] = lastUsed[r]
  BY DEF Timed, Tabbed!Without
<1>2. IsFiniteSet(DOMAIN lastSeen')
  BY <1>1, FS_Subset DEF Timed
<1> QED BY <1>1, <1>2 DEF Timed

\* One that is seen and used now has both times from the clock.
LEMMA TimesNow ==
    ASSUME NEW CONSTANT c, TabConstants(c), Timed(c), NEW s,
           lastSeen' = Tabbed(c)!Now(lastSeen, s),
           lastUsed' = Tabbed(c)!Now(lastUsed, s), tabClock' = tabClock
    PROVE  Timed(c)' /\ DOMAIN lastSeen' = DOMAIN lastSeen \cup {s}
<1>1. /\ DOMAIN lastSeen' = DOMAIN lastSeen \cup {s}
      /\ DOMAIN lastUsed' = DOMAIN lastSeen \cup {s}
      /\ lastSeen'[s] = tabClock /\ lastUsed'[s] = tabClock
      /\ \A r \in DOMAIN lastSeen :
            r # s => lastSeen'[r] = lastSeen[r] /\ lastUsed'[r] = lastUsed[r]
  BY DEF Timed, Tabbed!Now
<1>2. IsFiniteSet(DOMAIN lastSeen')
  BY <1>1, FS_AddElement DEF Timed
<1>3. tabClock \in Nat /\ c.resolution \in Nat /\ c.resolution > 0
  BY DEF Timed, TabConstants
<1>4. ASSUME NEW r \in DOMAIN lastSeen'
      PROVE  /\ lastSeen'[r] \in 0 .. lastUsed'[r] /\ lastUsed'[r] \in 0 .. tabClock
             /\ lastUsed'[r] < lastSeen'[r] + c.resolution
  <2>1. CASE r = s
    BY <1>1, <1>3, <2>1
  <2>2. CASE r # s
    BY <1>1, <1>4, <2>2 DEF Timed
  <2> QED BY <2>1, <2>2
<1> QED BY <1>1, <1>2, <1>4 DEF Timed

-----------------------------------------------------------------------------
(* What is known of a browser at any time.                                 *)

Numbered(c) == c.tabs \X (1 .. c.maxLogins)
Replies(c) == [login : 1 .. c.maxLogins, clear : SUBSET c.tabs,
               revoking : SUBSET Numbered(c)]

JarTyped(c) ==
    /\ jar \in [c.tabs -> 0 .. c.maxLogins] /\ logins \in [c.tabs -> 0 .. c.maxLogins]
    /\ \A t \in c.tabs : jar[t] <= logins[t]

RequestsTyped(c) ==
    /\ asked \in [c.tabs -> SUBSET [c.tabs -> 0 .. c.maxLogins]]
    /\ loginAnswer \in [c.tabs -> SUBSET Replies(c)]
    /\ \A t \in c.tabs :
          /\ \A x, y \in asked[t] : x = y
          /\ \A x, y \in loginAnswer[t] : x = y
          /\ asked[t] = {} \/ loginAnswer[t] = {}
          /\ asked[t] # {} /\ t \notin opened => logins[t] < c.maxLogins
          /\ t \in opened => logins[t] # 0
          /\ \A x \in loginAnswer[t] : x.login <= logins[t]

\* A session is live or over, and its number is one that was drawn.
LiveTyped(c) ==
    /\ ended \subseteq Numbered(c) /\ DOMAIN lastSeen \subseteq Numbered(c)
    /\ DOMAIN lastSeen \cap ended = {}
    /\ evicted \subseteq ended
    /\ \A s \in DOMAIN lastSeen \cup ended : s[2] <= logins[s[1]]
    /\ Timed(c)

FewStay(c) ==
    Cardinality(c.tabs) <= c.maxCookies =>
        evicted = {} /\ \A t \in c.tabs : \A x \in loginAnswer[t] : x.revoking = {}

Holding(c) == {u \in c.tabs : jar[u] # 0}
Flying(c) == {t \in c.tabs : asked[t] # {} \/ loginAnswer[t] # {}}

\* The tabs whose cookies a login leaves: those it came with and does not
\* clear, and those of logins that were under way beside it.
Leaves(c, t, near) ==
    /\ \A cookies \in asked[t] :
          Holding(c) \subseteq {t} \cup {u \in c.tabs : cookies[u] # 0} \cup near
    /\ \A reply \in loginAnswer[t] :
          \E stay \in SUBSET c.tabs :
             /\ Cardinality(stay) <= c.maxCookies - 1
             /\ Holding(c) \subseteq {t} \cup stay \cup reply.clear \cup near

\* The logins under way in the order they began.  Of those that were received,
\* the one that began last left the tabs of own; the tabs of early were under
\* way beside it, and were received after it began or are so still.
InOrder(c, began, beside, own, early, from, next) ==
    /\ own \in SUBSET c.tabs /\ Cardinality(own) <= c.maxCookies
    /\ early \in SUBSET c.tabs /\ Cardinality(early) <= c.maxInFlight - 1
    /\ Holding(c) \subseteq own \cup early
    /\ from \in Nat /\ next \in Nat /\ from <= next
    /\ began \in [c.tabs -> Nat] /\ beside \in [c.tabs -> SUBSET c.tabs]
    /\ \A t \in Flying(c) :
          /\ began[t] < next
          /\ Cardinality(beside[t]) <= c.maxInFlight - 1
          /\ began[t] < from => t \in early
          /\ began[t] >= from => Leaves(c, t, beside[t])
    /\ \A t, u \in Flying(c) :
          t # u => began[t] # began[u] /\ (began[u] < began[t] => u \in beside[t])

JarOrdered(c) ==
    \E began, beside, own, early, from, next :
       InOrder(c, began, beside, own, early, from, next)

TabInv(c) ==
    /\ JarTyped(c) /\ RequestsTyped(c) /\ LiveTyped(c) /\ FewStay(c) /\ JarOrdered(c)

LEMMA TabInit ==
    ASSUME NEW CONSTANT c, TabConstants(c), Tabbed(c)!Init
    PROVE  TabInv(c)
<1>1. JarTyped(c) /\ RequestsTyped(c)
  BY DEF Tabbed!Init, JarTyped, RequestsTyped, TabConstants
<1>2. DOMAIN lastSeen = {} /\ DOMAIN lastUsed = {} /\ ended = {} /\ evicted = {}
  BY DEF Tabbed!Init
<1>3. Timed(c)
  BY <1>2, FS_EmptySet DEF Timed, Tabbed!Init, TabConstants
<1>4. LiveTyped(c) /\ FewStay(c)
  BY <1>2, <1>3 DEF LiveTyped, FewStay, Tabbed!Init
<1>5. Holding(c) = {} /\ Flying(c) = {}
  BY DEF Tabbed!Init, Holding, Flying
<1>6. InOrder(c, [t \in c.tabs |-> 0], [t \in c.tabs |-> {}], {}, {}, 0, 0)
  <2>1. Cardinality({}) = 0
    BY FS_EmptySet
  <2> QED BY <1>5, <2>1 DEF InOrder, TabConstants
<1> QED BY <1>1, <1>4, <1>6 DEF TabInv, JarOrdered

\* Of the other tabs' live sessions that a login finds, those it keeps are fewer
\* than the limit, and all of them where the tabs are within the limit.
LEMMA KeptFacts ==
    ASSUME NEW CONSTANT c, TabConstants(c), LiveTyped(c), NEW t \in c.tabs,
           NEW cookies \in [c.tabs -> 0 .. c.maxLogins],
           NEW kept \in Tabbed(c)!Kept(Tabbed(c)!Others(t, cookies) \cap Tabbed(c)!Live)
    PROVE  LET live == Tabbed(c)!Others(t, cookies) \cap DOMAIN lastSeen
           IN  /\ kept \subseteq live /\ IsFiniteSet(kept)
               /\ Cardinality(kept) <= c.maxCookies - 1
               /\ kept # live => Cardinality(kept) = c.maxCookies - 1
               /\ \A k \in kept, s \in live \ kept : lastSeen[k] >= lastSeen[s]
               /\ Cardinality(c.tabs) <= c.maxCookies => kept = live
<1> DEFINE others == Tabbed(c)!Others(t, cookies)
           live == others \cap DOMAIN lastSeen
<1>1. /\ kept \subseteq live /\ Cardinality(kept) < c.maxCookies
      /\ kept # live => Cardinality(kept) = c.maxCookies - 1
      /\ \A k \in kept, s \in live \ kept : lastSeen[k] >= lastSeen[s]
  BY TabCardinality DEF Tabbed!Kept, Tabbed!Live
<1>2. IsFiniteSet(live) /\ IsFiniteSet(c.tabs) /\ c.maxCookies \in Nat
  <2>1. IsFiniteSet(DOMAIN lastSeen)
    BY DEF LiveTyped, Timed
  <2> QED BY <2>1, FS_Subset DEF TabConstants
<1>3. others = {<<u, cookies[u]>> : u \in {v \in c.tabs \ {t} : cookies[v] # 0}}
  BY DEF Tabbed!Others
<1> HIDE DEF others
<1>4. IsFiniteSet(kept) /\ Cardinality(kept) \in Nat
  BY <1>1, <1>2, FS_Subset, FS_CardinalityType
<1>5. ASSUME Cardinality(c.tabs) <= c.maxCookies, kept # live PROVE FALSE
  <2> DEFINE f == [r \in live |-> r[1]]
  <2>1. ASSUME NEW r \in live PROVE r[1] \in c.tabs \ {t} /\ r = <<r[1], cookies[r[1]]>>
    BY <1>3
  <2>2. f \in Injection(live, c.tabs \ {t})
    BY <2>1 DEF Injection, IsInjective
  <2>3. IsFiniteSet(c.tabs \ {t}) /\ Cardinality(c.tabs \ {t}) = Cardinality(c.tabs) - 1
    BY <1>2, FS_RemoveElement
  <2>4. Cardinality(live) <= Cardinality(c.tabs) - 1
    BY <2>2, <2>3, FS_Injection
  <2> HIDE DEF live
  <2>5. Cardinality(live) \in Nat /\ Cardinality(c.tabs) \in Nat
    BY <1>2, FS_CardinalityType
  <2>6. Cardinality(kept) <= Cardinality(live)
    BY <1>1, <1>2, FS_Subset
  <2>7. Cardinality(kept) = c.maxCookies - 1
    BY <1>1, <1>5
  <2>8. Cardinality(kept) = Cardinality(live)
    BY <1>2, <1>4, <1>5, <2>4, <2>5, <2>6, <2>7
  <2> QED BY <1>1, <1>2, <1>5, <2>8, FS_Subset
<1> HIDE DEF live
<1>6. Cardinality(kept) <= c.maxCookies - 1
  BY <1>1, <1>2, <1>4
<1> QED BY <1>1, <1>4, <1>5, <1>6 DEF live, others

-----------------------------------------------------------------------------
(* The steps of a browser.                                                 *)

\* A login begins after those under way, and all of them are beside it.
LEMMA LoginStep ==
    ASSUME NEW CONSTANT c, TabConstants(c), TabInv(c), NEW t \in c.tabs, Tabbed(c)!Login(t)
    PROVE  TabInv(c)'
<1>1. /\ t \notin Flying(c) /\ Cardinality(Flying(c)) < c.maxInFlight
      /\ logins[t] < c.maxLogins
      /\ asked' = [asked EXCEPT ![t] = {jar}]
      /\ UNCHANGED <<jar, logins, ended, evicted, tabClock, lastSeen, lastUsed, opened, loginAnswer>>
  BY TabCardinality DEF Tabbed!Login, Tabbed!InFlight, Flying
<1>2. JarTyped(c)' /\ LiveTyped(c)' /\ FewStay(c)'
  BY <1>1 DEF TabInv, JarTyped, LiveTyped, Timed, FewStay
<1>3. ASSUME NEW u \in c.tabs PROVE asked'[u] = IF u = t THEN {jar} ELSE asked[u]
  BY <1>1 DEF TabInv, RequestsTyped
<1>4. asked[t] = {} /\ loginAnswer[t] = {}
  BY <1>1 DEF Flying
<1>5. RequestsTyped(c)'
  <2>1. asked' \in [c.tabs -> SUBSET [c.tabs -> 0 .. c.maxLogins]]
    BY <1>1 DEF TabInv, RequestsTyped, JarTyped
  <2> QED BY <1>1, <1>3, <1>4, <2>1 DEF TabInv, RequestsTyped
<1>6. Holding(c)' = Holding(c) /\ Flying(c)' = Flying(c) \cup {t}
  BY <1>1, <1>3 DEF Holding, Flying
<1>7. JarOrdered(c)'
  <2>1. PICK began, beside, own, early, from, next :
           InOrder(c, began, beside, own, early, from, next)
    BY DEF TabInv, JarOrdered
  <2> PICK began2, beside2 :
         /\ began2 = [began EXCEPT ![t] = next]
         /\ beside2 = [beside EXCEPT ![t] = Flying(c)]
    OBVIOUS
  <2>2. Flying(c) \subseteq c.tabs
    BY DEF Flying
  <2>3. /\ began2 \in [c.tabs -> Nat] /\ began2[t] = next
        /\ \A u \in c.tabs : u # t => began2[u] = began[u]
    BY <2>1 DEF InOrder
  <2>4. /\ beside2 \in [c.tabs -> SUBSET c.tabs] /\ beside2[t] = Flying(c)
        /\ \A u \in c.tabs : u # t => beside2[u] = beside[u]
    BY <2>1, <2>2 DEF InOrder
  <2>5. Cardinality(Flying(c)) <= c.maxInFlight - 1
    <3>1. Cardinality(Flying(c)) \in Nat /\ c.maxInFlight \in Nat
      BY <2>2, FS_Subset, FS_CardinalityType DEF TabConstants
    <3> HIDE DEF Flying
    <3> QED BY <1>1, <3>1
  <2>6. Leaves(c, t, beside2[t])'
    BY <1>3, <1>4, <1>1 DEF Leaves, Holding
  <2>7. ASSUME NEW u \in Flying(c) PROVE Leaves(c, u, beside[u]) => Leaves(c, u, beside[u])'
    <3>1. u # t /\ u \in c.tabs
      BY <1>1, <2>2
    <3> QED BY <1>1, <1>3, <3>1 DEF Leaves, Holding
  <2>8. InOrder(c, began2, beside2, own, early, from, next + 1)'
    <3>1. ASSUME NEW u \in Flying(c)'
          PROVE  /\ began2[u] < next + 1
                 /\ Cardinality(beside2[u]) <= c.maxInFlight - 1
                 /\ began2[u] < from => u \in early
                 /\ began2[u] >= from => Leaves(c, u, beside2[u])'
      <4>1. from \in Nat /\ next \in Nat /\ from <= next
        BY <2>1 DEF InOrder
      <4>2. CASE u = t
        BY <2>3, <2>4, <2>5, <2>6, <4>1, <4>2
      <4>3. CASE u # t
        <5>1. u \in Flying(c) /\ u \in c.tabs
          BY <1>6, <2>2, <4>3
        <5>2. began2[u] = began[u] /\ beside2[u] = beside[u] /\ began[u] \in Nat
          BY <2>1, <2>3, <2>4, <4>3, <5>1 DEF InOrder
        <5>3. /\ began[u] < next
              /\ Cardinality(beside[u]) <= c.maxInFlight - 1
              /\ began[u] < from => u \in early
              /\ began[u] >= from => Leaves(c, u, beside[u])
          BY <2>1, <5>1 DEF InOrder
        <5> QED BY <2>7, <4>1, <5>1, <5>2, <5>3
      <4> QED BY <4>2, <4>3
    <3>2. ASSUME NEW x \in Flying(c)', NEW u \in Flying(c)', x # u
          PROVE  began2[x] # began2[u] /\ (began2[u] < began2[x] => u \in beside2[x])
      <4>1. x \in c.tabs /\ u \in c.tabs
        BY <1>6, <2>2
      <4>2. \A y \in Flying(c) : began[y] < next /\ began[y] \in Nat
        BY <2>1, <2>2 DEF InOrder
      <4>3. next \in Nat
        BY <2>1 DEF InOrder
      <4>4. CASE x = t
        BY <1>6, <2>3, <2>4, <3>2, <4>1, <4>2, <4>3, <4>4
      <4>5. CASE u = t
        BY <1>6, <2>3, <2>4, <3>2, <4>1, <4>2, <4>3, <4>5
      <4>6. CASE x # t /\ u # t
        BY <1>6, <2>1, <2>3, <2>4, <3>2, <4>1, <4>6 DEF InOrder
      <4> QED BY <4>4, <4>5, <4>6
    <3>3. /\ own \in SUBSET c.tabs /\ Cardinality(own) <= c.maxCookies
          /\ early \in SUBSET c.tabs /\ Cardinality(early) <= c.maxInFlight - 1
          /\ Holding(c)' \subseteq own \cup early
          /\ from \in Nat /\ next + 1 \in Nat /\ from <= next + 1
      BY <1>6, <2>1 DEF InOrder
    <3> QED BY <2>3, <2>4, <3>1, <3>2, <3>3 DEF InOrder
  <2> QED BY <2>8 DEF JarOrdered
<1> QED BY <1>2, <1>5, <1>7 DEF TabInv

\* Who holds no cookie any more disturbs nobody.
LEMMA FewerHold ==
    ASSUME NEW CONSTANT c, JarOrdered(c), asked' = asked, loginAnswer' = loginAnswer,
           Holding(c)' \subseteq Holding(c)
    PROVE  JarOrdered(c)'
<1>1. PICK began, beside, own, early, from, next :
         InOrder(c, began, beside, own, early, from, next)
  BY DEF JarOrdered
<1>2. Flying(c)' = Flying(c)
  BY DEF Flying
<1>3. ASSUME NEW u \in c.tabs, NEW near, Leaves(c, u, near)
      PROVE  Leaves(c, u, near)'
  <2>1. ASSUME NEW x \in loginAnswer'[u]
        PROVE  \E stay \in SUBSET c.tabs :
                  /\ Cardinality(stay) <= c.maxCookies - 1
                  /\ Holding(c)' \subseteq {u} \cup stay \cup x.clear \cup near
    <3>1. PICK stay \in SUBSET c.tabs :
             /\ Cardinality(stay) <= c.maxCookies - 1
             /\ Holding(c) \subseteq {u} \cup stay \cup x.clear \cup near
      BY <1>3, <2>1 DEF Leaves
    <3>2. Holding(c)' \subseteq {u} \cup stay \cup x.clear \cup near
      BY <3>1
    <3> QED BY <3>1, <3>2
  <2>2. ASSUME NEW k \in asked'[u]
        PROVE  Holding(c)' \subseteq {u} \cup {v \in c.tabs : k[v] # 0} \cup near
    <3>1. Holding(c) \subseteq {u} \cup {v \in c.tabs : k[v] # 0} \cup near
      BY <1>3, <2>2 DEF Leaves
    <3> QED BY <3>1
  <2> QED BY <2>1, <2>2 DEF Leaves
<1>4. Flying(c) \subseteq c.tabs
  BY DEF Flying
<1>5. ASSUME NEW u \in Flying(c), Leaves(c, u, beside[u]) PROVE Leaves(c, u, beside[u])'
  BY <1>3, <1>4, <1>5
<1>6. InOrder(c, began, beside, own, early, from, next)'
  BY <1>1, <1>2, <1>5 DEF InOrder
<1> QED BY <1>6 DEF JarOrdered

\* The session of a login is opened with a number that was not drawn before.
LEMMA OpenStep ==
    ASSUME NEW CONSTANT c, TabConstants(c), TabInv(c), NEW t \in c.tabs, Tabbed(c)!Open(t)
    PROVE  TabInv(c)'
<1> DEFINE s == <<t, logins[t] + 1>>
<1>1. /\ asked[t] # {} /\ t \notin opened
      /\ opened' = opened \cup {t} /\ logins' = [logins EXCEPT ![t] = @ + 1]
      /\ lastSeen' = Tabbed(c)!Now(lastSeen, s) /\ lastUsed' = Tabbed(c)!Now(lastUsed, s)
      /\ UNCHANGED <<jar, ended, evicted, tabClock, asked, loginAnswer>>
  BY DEF Tabbed!Open
<1>2. /\ logins[t] \in 0 .. c.maxLogins /\ logins[t] < c.maxLogins /\ loginAnswer[t] = {}
      /\ c.maxLogins \in Nat
  BY <1>1 DEF TabInv, RequestsTyped, JarTyped, TabConstants
<1>3. ASSUME NEW u \in c.tabs
      PROVE  logins'[u] = (IF u = t THEN logins[u] + 1 ELSE logins[u]) /\ logins[u] \in Nat
  BY <1>1 DEF TabInv, JarTyped
<1>4. s \in Numbered(c) /\ s[1] = t /\ s[2] = logins[t] + 1
  BY <1>2 DEF Numbered
<1> HIDE DEF s
<1>5. JarTyped(c)'
  <2>1. logins' \in [c.tabs -> 0 .. c.maxLogins]
    BY <1>1, <1>2, <1>3 DEF TabInv, JarTyped
  <2>2. \A u \in c.tabs : jar[u] \in Nat /\ jar[u] <= logins[u]
    BY DEF TabInv, JarTyped
  <2>3. \A u \in c.tabs : jar'[u] <= logins'[u]
    BY <1>1, <1>3, <2>2
  <2> QED BY <1>1, <2>1, <2>3 DEF TabInv, JarTyped
<1>6. RequestsTyped(c)'
  <2>1. ASSUME NEW u \in c.tabs
        PROVE  /\ asked[u] # {} /\ u \notin opened' => logins'[u] < c.maxLogins
               /\ u \in opened' => logins'[u] # 0
               /\ \A x \in loginAnswer[u] : x.login <= logins'[u]
    <3>1. /\ asked[u] # {} /\ u \notin opened => logins[u] < c.maxLogins
          /\ u \in opened => logins[u] # 0
          /\ \A x \in loginAnswer[u] : x.login <= logins[u]
      BY DEF TabInv, RequestsTyped
    <3>2. CASE u = t
      BY <1>1, <1>2, <1>3, <3>2
    <3>3. CASE u # t
      BY <1>1, <1>3, <3>1, <3>3
    <3> QED BY <3>2, <3>3
  <2> QED BY <1>1, <2>1 DEF TabInv, RequestsTyped
<1>7. LiveTyped(c)'
  <2>1. Timed(c)' /\ DOMAIN lastSeen' = DOMAIN lastSeen \cup {s}
    BY <1>1, TimesNow DEF TabInv, LiveTyped
  <2>2. \A r \in DOMAIN lastSeen \cup ended :
           r[1] \in c.tabs /\ r[2] \in Nat /\ r[2] <= logins[r[1]]
    BY DEF TabInv, LiveTyped, Numbered
  <2>3. s \notin DOMAIN lastSeen \cup ended
    BY <1>2, <1>4, <2>2
  <2>4. ASSUME NEW r \in DOMAIN lastSeen' \cup ended' PROVE r[2] <= logins'[r[1]]
    <3>1. CASE r = s
      BY <1>3, <1>4, <3>1
    <3>2. CASE r \in DOMAIN lastSeen \cup ended
      BY <1>3, <2>2, <3>2
    <3> QED BY <1>1, <2>1, <2>4, <3>1, <3>2
  <2> QED BY <1>1, <1>4, <2>1, <2>3, <2>4 DEF TabInv, LiveTyped
<1>8. FewStay(c)' /\ JarOrdered(c)'
  BY <1>1, FewerHold DEF TabInv, FewStay, Holding
<1> QED BY <1>5, <1>6, <1>7, <1>8 DEF TabInv

\* A login looks at the sessions of the other tabs: what it will leave is known.
LEMMA InspectFacts ==
    ASSUME NEW CONSTANT c, TabConstants(c), TabInv(c), NEW t \in c.tabs, Tabbed(c)!Inspect(t)
    PROVE  \E cookies \in asked[t] :
           \E kept \in Tabbed(c)!Kept(Tabbed(c)!Others(t, cookies) \cap Tabbed(c)!Live) :
              LET others == Tabbed(c)!Others(t, cookies)
                  reply == [login |-> logins[t], clear |-> {s[1] : s \in others \ kept},
                            revoking |-> (others \cap Tabbed(c)!Live) \ kept]
              IN  /\ t \in opened /\ opened' = opened \ {t}
                  /\ asked' = [asked EXCEPT ![t] = {}]
                  /\ loginAnswer' = [loginAnswer EXCEPT ![t] = {reply}]
                  /\ UNCHANGED <<jar, logins, ended, evicted, tabClock, lastSeen, lastUsed>>
                  /\ cookies \in [c.tabs -> 0 .. c.maxLogins]
                  /\ reply \in Replies(c) /\ loginAnswer[t] = {}
<1>1. PICK cookies, kept :
         /\ cookies \in asked[t]
         /\ kept \in Tabbed(c)!Kept(Tabbed(c)!Others(t, cookies) \cap Tabbed(c)!Live)
         /\ t \in opened /\ opened' = opened \ {t}
         /\ asked' = [asked EXCEPT ![t] = {}]
         /\ loginAnswer' = [loginAnswer EXCEPT ![t] =
                {[login |-> logins[t],
                  clear |-> {s[1] : s \in Tabbed(c)!Others(t, cookies) \ kept},
                  revoking |-> (Tabbed(c)!Others(t, cookies) \cap Tabbed(c)!Live) \ kept]}]
         /\ UNCHANGED <<jar, logins, ended, evicted, tabClock, lastSeen, lastUsed>>
  BY DEF Tabbed!Inspect
<1>2. /\ cookies \in [c.tabs -> 0 .. c.maxLogins] /\ loginAnswer[t] = {}
      /\ logins[t] # 0 /\ logins[t] \in 0 .. c.maxLogins
  BY <1>1 DEF TabInv, RequestsTyped, JarTyped
<1>3. logins[t] \in 1 .. c.maxLogins
  BY <1>2 DEF TabConstants
<1>4. \A s \in Tabbed(c)!Others(t, cookies) : s[1] \in c.tabs
  BY DEF Tabbed!Others
<1>5. Tabbed(c)!Live \subseteq Numbered(c)
  BY DEF TabInv, LiveTyped, Tabbed!Live
<1>6. [login |-> logins[t],
       clear |-> {s[1] : s \in Tabbed(c)!Others(t, cookies) \ kept},
       revoking |-> (Tabbed(c)!Others(t, cookies) \cap Tabbed(c)!Live) \ kept] \in Replies(c)
  BY <1>3, <1>4, <1>5 DEF Replies
<1> QED BY <1>1, <1>2, <1>6

\* The tabs whose cookies came with a login and are not cleared are fewer than
\* the limit.
LEMMA InspectLeaves ==
    ASSUME NEW CONSTANT c, TabConstants(c), LiveTyped(c), NEW t \in c.tabs,
           NEW cookies \in [c.tabs -> 0 .. c.maxLogins],
           NEW kept \in Tabbed(c)!Kept(Tabbed(c)!Others(t, cookies) \cap Tabbed(c)!Live)
    PROVE  \E stay \in SUBSET c.tabs :
              /\ Cardinality(stay) <= c.maxCookies - 1
              /\ {u \in c.tabs : cookies[u] # 0}
                    \subseteq {t} \cup stay \cup {s[1] : s \in Tabbed(c)!Others(t, cookies) \ kept}
<1> DEFINE others == Tabbed(c)!Others(t, cookies)
           stay == {u \in c.tabs \ {t} : cookies[u] # 0 /\ <<u, cookies[u]>> \in kept}
           f == [u \in stay |-> <<u, cookies[u]>>]
<1>1. IsFiniteSet(kept) /\ Cardinality(kept) <= c.maxCookies - 1
  BY KeptFacts
<1>2. f \in Injection(stay, kept)
  BY DEF Injection, IsInjective
<1>3. IsFiniteSet(stay) /\ Cardinality(stay) <= Cardinality(kept)
  BY <1>1, <1>2, FS_Injection
<1>4. Cardinality(stay) \in Nat /\ Cardinality(kept) \in Nat
  BY <1>1, <1>3, FS_CardinalityType
<1>5. Cardinality(stay) <= c.maxCookies - 1
  <2>1. c.maxCookies \in Nat
    BY DEF TabConstants
  <2> HIDE DEF stay
  <2> QED BY <1>1, <1>3, <1>4, <2>1
<1>6. ASSUME NEW u \in c.tabs, cookies[u] # 0, u # t, u \notin stay
      PROVE  u \in {s[1] : s \in others \ kept}
  <2>1. <<u, cookies[u]>> \in others
    BY <1>6 DEF Tabbed!Others
  <2>2. <<u, cookies[u]>> \notin kept
    BY <1>6
  <2> HIDE DEF others
  <2>3. <<u, cookies[u]>>[1] = u
    OBVIOUS
  <2> QED BY <2>1, <2>2, <2>3
<1> HIDE DEF f, others
<1>7. {u \in c.tabs : cookies[u] # 0} \subseteq {t} \cup stay \cup {s[1] : s \in others \ kept}
  BY <1>6
<1>8. stay \in SUBSET c.tabs
  OBVIOUS
<1> HIDE DEF stay
<1> QED BY <1>5, <1>7, <1>8 DEF others

LEMMA InspectStep ==
    ASSUME NEW CONSTANT c, TabConstants(c), TabInv(c), NEW t \in c.tabs, Tabbed(c)!Inspect(t)
    PROVE  TabInv(c)'
<1> DEFINE Reply(k, kept) ==
              [login |-> logins[t], clear |-> {s[1] : s \in Tabbed(c)!Others(t, k) \ kept},
               revoking |-> (Tabbed(c)!Others(t, k) \cap Tabbed(c)!Live) \ kept]
<1>1. PICK cookies, kept :
         /\ cookies \in asked[t]
         /\ kept \in Tabbed(c)!Kept(Tabbed(c)!Others(t, cookies) \cap Tabbed(c)!Live)
         /\ t \in opened /\ opened' = opened \ {t}
         /\ asked' = [asked EXCEPT ![t] = {}]
         /\ loginAnswer' = [loginAnswer EXCEPT ![t] = {Reply(cookies, kept)}]
         /\ UNCHANGED <<jar, logins, ended, evicted, tabClock, lastSeen, lastUsed>>
         /\ cookies \in [c.tabs -> 0 .. c.maxLogins]
         /\ Reply(cookies, kept) \in Replies(c) /\ loginAnswer[t] = {}
  BY InspectFacts
<1> DEFINE reply == Reply(cookies, kept)
<1>2. /\ reply.login = logins[t]
      /\ reply.clear = {s[1] : s \in Tabbed(c)!Others(t, cookies) \ kept}
      /\ reply.revoking = (Tabbed(c)!Others(t, cookies) \cap Tabbed(c)!Live) \ kept
  OBVIOUS
<1> HIDE DEF Reply
<1>3. ASSUME NEW u \in c.tabs
      PROVE  /\ asked'[u] = IF u = t THEN {} ELSE asked[u]
             /\ loginAnswer'[u] = IF u = t THEN {reply} ELSE loginAnswer[u]
  BY <1>1 DEF TabInv, RequestsTyped
<1>4. JarTyped(c)' /\ LiveTyped(c)'
  BY <1>1 DEF TabInv, JarTyped, LiveTyped, Timed
<1>5. RequestsTyped(c)'
  <2>1. /\ asked' \in [c.tabs -> SUBSET [c.tabs -> 0 .. c.maxLogins]]
        /\ loginAnswer' \in [c.tabs -> SUBSET Replies(c)]
    BY <1>1 DEF TabInv, RequestsTyped
  <2>2. logins[t] \in Nat
    BY DEF TabInv, JarTyped
  <2> HIDE DEF reply
  <2>3. ASSUME NEW u \in c.tabs
        PROVE  /\ \A x, y \in asked'[u] : x = y
               /\ \A x, y \in loginAnswer'[u] : x = y
               /\ asked'[u] = {} \/ loginAnswer'[u] = {}
               /\ asked'[u] # {} /\ u \notin opened' => logins[u] < c.maxLogins
               /\ u \in opened' => logins[u] # 0
               /\ \A x \in loginAnswer'[u] : x.login <= logins[u]
    <3>1. CASE u = t
      BY <1>1, <1>2, <1>3, <2>2, <3>1
    <3>2. CASE u # t
      BY <1>1, <1>3, <3>2 DEF TabInv, RequestsTyped
    <3> QED BY <3>1, <3>2
  <2> QED BY <1>1, <2>1, <2>3 DEF RequestsTyped
<1>6. FewStay(c)'
  <2>1. Cardinality(c.tabs) <= c.maxCookies => reply.revoking = {}
    BY <1>1, <1>2, KeptFacts DEF TabInv, Tabbed!Live
  <2> HIDE DEF reply
  <2> QED BY <1>1, <1>3, <2>1 DEF TabInv, FewStay
<1>7. JarOrdered(c)'
  <2>1. PICK began, beside, own, early, from, next :
           InOrder(c, began, beside, own, early, from, next)
    BY DEF TabInv, JarOrdered
  <2>2. Flying(c)' = Flying(c) /\ Holding(c)' = Holding(c) /\ t \in Flying(c)
    BY <1>1, <1>3 DEF Flying, Holding
  <2>3. ASSUME NEW near, Leaves(c, t, near) PROVE Leaves(c, t, near)'
    <3>1. PICK stay \in SUBSET c.tabs :
             /\ Cardinality(stay) <= c.maxCookies - 1
             /\ {u \in c.tabs : cookies[u] # 0} \subseteq {t} \cup stay \cup reply.clear
      BY <1>1, <1>2, InspectLeaves DEF TabInv
    <3>2. Holding(c) \subseteq {t} \cup {u \in c.tabs : cookies[u] # 0} \cup near
      BY <1>1, <2>3 DEF Leaves
    <3>3. Holding(c)' \subseteq {t} \cup stay \cup reply.clear \cup near
      BY <2>2, <3>1, <3>2
    <3>4. asked'[t] = {} /\ loginAnswer'[t] = {reply}
      BY <1>3
    <3> QED BY <3>1, <3>3, <3>4 DEF Leaves
  <2>4. ASSUME NEW u \in c.tabs, u # t, NEW near, Leaves(c, u, near) PROVE Leaves(c, u, near)'
    <3>1. asked'[u] = asked[u] /\ loginAnswer'[u] = loginAnswer[u]
      BY <1>3, <2>4
    <3> QED BY <2>2, <2>4, <3>1 DEF Leaves
  <2>5. Flying(c) \subseteq c.tabs
    BY DEF Flying
  <2>6. ASSUME NEW u \in Flying(c), Leaves(c, u, beside[u]) PROVE Leaves(c, u, beside[u])'
    BY <2>3, <2>4, <2>5, <2>6
  <2>7. InOrder(c, began, beside, own, early, from, next)'
    BY <2>1, <2>2, <2>6 DEF InOrder
  <2> QED BY <2>7 DEF JarOrdered
<1> QED BY <1>4, <1>5, <1>6, <1>7 DEF TabInv

\* One session that is too many is revoked; what the answer clears stays.
LEMMA RevokeStep ==
    ASSUME NEW CONSTANT c, TabConstants(c), TabInv(c), NEW t \in c.tabs, NEW s,
           Tabbed(c)!Revoke(t, s)
    PROVE  TabInv(c)'
<1>1. PICK reply \in loginAnswer[t] :
         /\ s \in reply.revoking
         /\ loginAnswer' = [loginAnswer EXCEPT
                ![t] = {[reply EXCEPT !.revoking = @ \ {s}]}]
         /\ ended' = ended \cup ({s} \cap DOMAIN lastSeen)
         /\ evicted' = evicted \cup ({s} \cap DOMAIN lastSeen)
         /\ lastSeen' = Tabbed(c)!Without(lastSeen, {s})
         /\ lastUsed' = Tabbed(c)!Without(lastUsed, {s})
         /\ UNCHANGED <<jar, logins, tabClock, asked, opened>>
  BY DEF Tabbed!Revoke, Tabbed!Live
<1> DEFINE rest == [reply EXCEPT !.revoking = @ \ {s}]
<1>2. /\ rest \in Replies(c) /\ rest.login = reply.login /\ rest.clear = reply.clear
      /\ rest.login <= logins[t] /\ asked[t] = {}
  <2>1. reply \in Replies(c) /\ reply.login <= logins[t] /\ asked[t] = {}
    BY DEF TabInv, RequestsTyped
  <2> QED BY <2>1 DEF Replies
<1>3. ASSUME NEW u \in c.tabs
      PROVE  loginAnswer'[u] = IF u = t THEN {rest} ELSE loginAnswer[u]
  BY <1>1 DEF TabInv, RequestsTyped
<1> HIDE DEF rest
<1>4. JarTyped(c)'
  BY <1>1 DEF TabInv, JarTyped
<1>5. RequestsTyped(c)'
  <2>1. loginAnswer' \in [c.tabs -> SUBSET Replies(c)]
    BY <1>1, <1>2 DEF TabInv, RequestsTyped, rest
  <2>2. ASSUME NEW u \in c.tabs
        PROVE  /\ \A x, y \in loginAnswer'[u] : x = y
               /\ asked[u] = {} \/ loginAnswer'[u] = {}
               /\ \A x \in loginAnswer'[u] : x.login <= logins[u]
    <3>1. CASE u = t
      BY <1>2, <1>3, <3>1
    <3>2. CASE u # t
      BY <1>3, <3>2 DEF TabInv, RequestsTyped
    <3> QED BY <3>1, <3>2
  <2> QED BY <1>1, <2>1, <2>2 DEF TabInv, RequestsTyped
<1>6. LiveTyped(c)'
  <2>1. Timed(c)' /\ DOMAIN lastSeen' = DOMAIN lastSeen \ {s}
    BY <1>1, TimesLeft DEF TabInv, LiveTyped
  <2> QED BY <1>1, <2>1 DEF TabInv, LiveTyped
<1>7. FewStay(c)'
  <2>1. ~(Cardinality(c.tabs) <= c.maxCookies)
    BY <1>1 DEF TabInv, FewStay
  <2> QED BY <2>1 DEF FewStay
<1>8. JarOrdered(c)'
  <2>1. PICK began, beside, own, early, from, next :
           InOrder(c, began, beside, own, early, from, next)
    BY DEF TabInv, JarOrdered
  <2>2. Flying(c)' = Flying(c) /\ Holding(c)' = Holding(c) /\ Flying(c) \subseteq c.tabs
    BY <1>1, <1>3 DEF Flying, Holding
  <2>3. ASSUME NEW u \in c.tabs, NEW near, Leaves(c, u, near) PROVE Leaves(c, u, near)'
    <3>1. CASE u = t
      <4>1. PICK stay \in SUBSET c.tabs :
               /\ Cardinality(stay) <= c.maxCookies - 1
               /\ Holding(c) \subseteq {t} \cup stay \cup rest.clear \cup near
        BY <1>1, <1>2, <2>3, <3>1 DEF Leaves
      <4>2. asked'[t] = {} /\ loginAnswer'[t] = {rest}
        BY <1>1, <1>2, <1>3
      <4> QED BY <2>2, <3>1, <4>1, <4>2 DEF Leaves
    <3>2. CASE u # t
      <4>1. asked'[u] = asked[u] /\ loginAnswer'[u] = loginAnswer[u]
        BY <1>1, <1>3, <3>2
      <4> QED BY <2>2, <2>3, <4>1 DEF Leaves
    <3> QED BY <3>1, <3>2
  <2>4. ASSUME NEW u \in Flying(c), Leaves(c, u, beside[u]) PROVE Leaves(c, u, beside[u])'
    BY <2>2, <2>3, <2>4
  <2>5. InOrder(c, began, beside, own, early, from, next)'
    BY <2>1, <2>2, <2>4 DEF InOrder
  <2> QED BY <2>5 DEF JarOrdered
<1> QED BY <1>4, <1>5, <1>6, <1>7, <1>8 DEF TabInv

\* The cookies of the answer are set and cleared by name.
LEMMA ReceiveStep ==
    ASSUME NEW CONSTANT c, TabConstants(c), TabInv(c), NEW t \in c.tabs, Tabbed(c)!Receive(t)
    PROVE  TabInv(c)'
<1>1. PICK reply \in loginAnswer[t] :
         /\ jar' = [u \in c.tabs |-> IF u = t THEN reply.login
                                     ELSE IF u \in reply.clear THEN 0 ELSE jar[u]]
         /\ loginAnswer' = [loginAnswer EXCEPT ![t] = {}]
         /\ UNCHANGED <<logins, ended, evicted, tabClock, lastSeen, lastUsed, asked, opened>>
  BY DEF Tabbed!Receive
<1>2. reply.login \in 1 .. c.maxLogins /\ reply.login <= logins[t] /\ asked[t] = {}
  <2>1. reply \in Replies(c)
    BY DEF TabInv, RequestsTyped
  <2>2. reply.login <= logins[t] /\ asked[t] = {}
    BY DEF TabInv, RequestsTyped
  <2> QED BY <2>1, <2>2 DEF Replies
<1>3. ASSUME NEW u \in c.tabs
      PROVE  loginAnswer'[u] = IF u = t THEN {} ELSE loginAnswer[u]
  BY <1>1 DEF TabInv, RequestsTyped
<1>4. JarTyped(c)'
  <2>1. ASSUME NEW u \in c.tabs PROVE jar'[u] \in 0 .. c.maxLogins /\ jar'[u] <= logins[u]
    <3>1. jar[u] \in 0 .. c.maxLogins /\ jar[u] <= logins[u] /\ logins[u] \in 0 .. c.maxLogins
      BY DEF TabInv, JarTyped
    <3>2. jar'[u] = IF u = t THEN reply.login ELSE IF u \in reply.clear THEN 0 ELSE jar[u]
      BY <1>1
    <3>3. c.maxLogins \in Nat
      BY DEF TabConstants
    <3>4. CASE u = t
      BY <1>2, <3>1, <3>2, <3>3, <3>4
    <3>5. CASE u # t /\ u \in reply.clear
      BY <3>1, <3>2, <3>3, <3>5
    <3>6. CASE u # t /\ u \notin reply.clear
      BY <3>1, <3>2, <3>6
    <3> QED BY <3>4, <3>5, <3>6
  <2>2. jar' \in [c.tabs -> 0 .. c.maxLogins]
    BY <1>1, <2>1
  <2> QED BY <1>1, <2>1, <2>2 DEF TabInv, JarTyped
<1>5. RequestsTyped(c)'
  <2>1. loginAnswer' \in [c.tabs -> SUBSET Replies(c)]
    BY <1>1 DEF TabInv, RequestsTyped
  <2> QED BY <1>1, <1>3, <2>1 DEF TabInv, RequestsTyped
<1>6. LiveTyped(c)' /\ FewStay(c)'
  BY <1>1, <1>3 DEF TabInv, LiveTyped, Timed, FewStay
<1>7. JarOrdered(c)'
  <2>1. PICK began, beside, own, early, from, next :
           InOrder(c, began, beside, own, early, from, next)
    BY DEF TabInv, JarOrdered
  <2>2. /\ Flying(c)' = Flying(c) \ {t} /\ t \in Flying(c)
        /\ Holding(c)' \subseteq {t} \cup (Holding(c) \ reply.clear)
    BY <1>1, <1>2, <1>3 DEF Flying, Holding
  <2>3. Flying(c) \subseteq c.tabs
    BY DEF Flying
  <2>4. ASSUME NEW u \in c.tabs, u # t, NEW near, t \in near, Leaves(c, u, near)
        PROVE  Leaves(c, u, near)'
    <3>1. asked'[u] = asked[u] /\ loginAnswer'[u] = loginAnswer[u]
      BY <1>1, <1>3, <2>4
    <3>2. Holding(c)' \subseteq Holding(c) \cup near
      BY <2>2, <2>4
    <3>3. ASSUME NEW x \in loginAnswer'[u]
          PROVE  \E stay \in SUBSET c.tabs :
                    /\ Cardinality(stay) <= c.maxCookies - 1
                    /\ Holding(c)' \subseteq {u} \cup stay \cup x.clear \cup near
      <4>1. PICK stay \in SUBSET c.tabs :
               /\ Cardinality(stay) <= c.maxCookies - 1
               /\ Holding(c) \subseteq {u} \cup stay \cup x.clear \cup near
        BY <2>4, <3>1, <3>3 DEF Leaves
      <4>2. Holding(c)' \subseteq {u} \cup stay \cup x.clear \cup near
        BY <3>2, <4>1
      <4> QED BY <4>1, <4>2
    <3>4. ASSUME NEW k \in asked'[u]
          PROVE  Holding(c)' \subseteq {u} \cup {v \in c.tabs : k[v] # 0} \cup near
      <4>1. Holding(c) \subseteq {u} \cup {v \in c.tabs : k[v] # 0} \cup near
        BY <2>4, <3>1, <3>4 DEF Leaves
      <4> QED BY <3>2, <4>1
    <3> QED BY <3>3, <3>4 DEF Leaves
  <2>5. ASSUME NEW u \in Flying(c), u # t, began[t] < began[u], Leaves(c, u, beside[u])
        PROVE  Leaves(c, u, beside[u])'
    <3>1. t \in beside[u]
      BY <2>1, <2>2, <2>5 DEF InOrder
    <3> QED BY <2>3, <2>4, <2>5, <3>1
  <2>6. \A u \in Flying(c) : began[u] \in Nat /\ began[u] < next
    BY <2>1, <2>3 DEF InOrder
  <2>7. CASE began[t] < from
    <3>1. Holding(c)' \subseteq own \cup early
      BY <2>1, <2>2, <2>7 DEF InOrder
    <3>2. ASSUME NEW u \in Flying(c)', began[u] >= from
          PROVE  Leaves(c, u, beside[u])'
      <4>1. u \in Flying(c) /\ u # t /\ from \in Nat
        BY <2>1, <2>2 DEF InOrder
      <4>2. began[t] < began[u]
        BY <2>2, <2>6, <2>7, <3>2, <4>1
      <4>3. Leaves(c, u, beside[u])
        BY <2>1, <3>2, <4>1 DEF InOrder
      <4> QED BY <2>5, <4>1, <4>2, <4>3
    <3>3. InOrder(c, began, beside, own, early, from, next)'
      BY <2>1, <2>2, <3>1, <3>2 DEF InOrder
    <3> QED BY <3>3 DEF JarOrdered
  <2>8. CASE began[t] >= from
    <3>1. Leaves(c, t, beside[t]) /\ from \in Nat /\ next \in Nat
      BY <2>1, <2>2, <2>8 DEF InOrder
    <3>2. PICK stay \in SUBSET c.tabs :
             /\ Cardinality(stay) <= c.maxCookies - 1
             /\ Holding(c) \subseteq {t} \cup stay \cup reply.clear \cup beside[t]
      BY <3>1 DEF Leaves
    <3>3. Holding(c)' \subseteq (stay \cup {t}) \cup beside[t]
      BY <2>2, <3>2
    <3>4. /\ stay \cup {t} \in SUBSET c.tabs
          /\ Cardinality(stay \cup {t}) <= c.maxCookies
      <4>1. IsFiniteSet(stay) /\ Cardinality(stay) \in Nat /\ c.maxCookies \in Nat
        BY FS_Subset, FS_CardinalityType DEF TabConstants
      <4>2. Cardinality(stay \cup {t}) \in {Cardinality(stay), Cardinality(stay) + 1}
        BY <4>1, FS_AddElement
      <4> QED BY <3>2, <4>1, <4>2
    <3>5. /\ beside[t] \in SUBSET c.tabs
          /\ Cardinality(beside[t]) <= c.maxInFlight - 1
      BY <2>1, <2>2 DEF InOrder
    <3>6. began[t] + 1 \in Nat /\ began[t] + 1 <= next
      BY <2>2, <2>6, <3>1
    <3>7. ASSUME NEW u \in Flying(c)'
          PROVE  /\ began[u] < next
                 /\ Cardinality(beside[u]) <= c.maxInFlight - 1
                 /\ began[u] < began[t] + 1 => u \in beside[t]
                 /\ began[u] >= began[t] + 1 => Leaves(c, u, beside[u])'
      <4>1. u \in Flying(c) /\ u # t
        BY <2>2
      <4>2. began[u] # began[t] /\ (began[u] < began[t] => u \in beside[t])
        BY <2>1, <2>2, <4>1 DEF InOrder
      <4>3. began[u] >= from => Leaves(c, u, beside[u])
        BY <2>1, <4>1 DEF InOrder
      <4>4. began[u] \in Nat /\ began[t] \in Nat
        BY <2>2, <2>6, <4>1
      <4>5. ASSUME began[u] >= began[t] + 1 PROVE Leaves(c, u, beside[u])'
        <5>1. began[t] < began[u] /\ began[u] >= from
          BY <2>8, <3>1, <4>4, <4>5
        <5> QED BY <2>5, <4>1, <4>3, <5>1
      <4>6. began[u] < began[t] + 1 => u \in beside[t]
        BY <4>2, <4>4
      <4> QED BY <2>1, <4>1, <4>5, <4>6 DEF InOrder
    <3>8. \A x, u \in Flying(c)' :
             x # u => began[x] # began[u] /\ (began[u] < began[x] => u \in beside[x])
      BY <2>1, <2>2 DEF InOrder
    <3>9. began \in [c.tabs -> Nat] /\ beside \in [c.tabs -> SUBSET c.tabs]
      BY <2>1 DEF InOrder
    <3>10. InOrder(c, began, beside, stay \cup {t}, beside[t], began[t] + 1, next)'
      BY <3>1, <3>3, <3>4, <3>5, <3>6, <3>7, <3>8, <3>9 DEF InOrder
    <3> QED BY <3>10 DEF JarOrdered
  <2>9. began[t] \in Nat /\ from \in Nat
    BY <2>1, <2>2, <2>6 DEF InOrder
  <2> QED BY <2>7, <2>8, <2>9
<1> QED BY <1>4, <1>5, <1>6, <1>7 DEF TabInv

\* The time stored is renewed when it is Resolution old, so the last use is never
\* further ahead of it.
LEMMA UseStep ==
    ASSUME NEW CONSTANT c, TabConstants(c), TabInv(c), NEW t \in c.tabs, Tabbed(c)!Use(t)
    PROVE  TabInv(c)'
<1>1. PICK s \in DOMAIN lastSeen :
         /\ lastUsed' = Tabbed(c)!Now(lastUsed, s)
         /\ lastSeen' = IF tabClock - lastSeen[s] < c.resolution THEN lastSeen
                        ELSE Tabbed(c)!Now(lastSeen, s)
         /\ UNCHANGED <<jar, logins, ended, evicted, tabClock, asked, opened, loginAnswer>>
  BY DEF Tabbed!Use, Tabbed!Live
<1>2. Timed(c)
  BY DEF TabInv, LiveTyped
<1>3. Timed(c)' /\ DOMAIN lastSeen' = DOMAIN lastSeen
  <2>1. CASE ~(tabClock - lastSeen[s] < c.resolution)
    BY <1>1, <1>2, <2>1, TimesNow
  <2>2. CASE tabClock - lastSeen[s] < c.resolution
    <3>1. lastSeen' = lastSeen /\ tabClock' = tabClock
      BY <1>1, <2>2
    <3>2. /\ DOMAIN lastUsed' = DOMAIN lastSeen /\ lastUsed'[s] = tabClock
          /\ \A r \in DOMAIN lastSeen : r # s => lastUsed'[r] = lastUsed[r]
      BY <1>1, <1>2 DEF Timed, Tabbed!Now
    <3>3. ASSUME NEW r \in DOMAIN lastSeen
          PROVE  /\ lastSeen[r] \in 0 .. lastUsed'[r] /\ lastUsed'[r] \in 0 .. tabClock
                 /\ lastUsed'[r] < lastSeen[r] + c.resolution
      <4>1. /\ lastSeen[r] \in 0 .. lastUsed[r] /\ lastUsed[r] \in 0 .. tabClock
            /\ lastUsed[r] < lastSeen[r] + c.resolution
        BY <1>2 DEF Timed
      <4>2. tabClock \in Nat /\ c.resolution \in Nat
        BY <1>2 DEF Timed, TabConstants
      <4>3. CASE r = s
        BY <2>2, <3>2, <4>1, <4>2, <4>3
      <4>4. CASE r # s
        BY <3>2, <4>1, <4>4
      <4> QED BY <4>3, <4>4
    <3> QED BY <1>2, <3>1, <3>2, <3>3 DEF Timed
  <2> QED BY <2>1, <2>2
<1>4. LiveTyped(c)'
  BY <1>1, <1>3 DEF TabInv, LiveTyped
<1>5. JarTyped(c)' /\ RequestsTyped(c)' /\ FewStay(c)'
  BY <1>1 DEF TabInv, JarTyped, RequestsTyped, FewStay
<1>6. JarOrdered(c)'
  BY <1>1, FewerHold DEF TabInv, Holding
<1> QED BY <1>4, <1>5, <1>6 DEF TabInv

LEMMA TabTickStep ==
    ASSUME NEW CONSTANT c, TabConstants(c), TabInv(c), Tabbed(c)!Tick
    PROVE  TabInv(c)'
<1>1. /\ tabClock < c.maxTime /\ tabClock' = tabClock + 1
      /\ UNCHANGED <<jar, logins, ended, evicted, lastSeen, lastUsed, asked, opened, loginAnswer>>
  BY DEF Tabbed!Tick
<1>2. LiveTyped(c)'
  <2>1. tabClock \in 0 .. c.maxTime /\ c.maxTime \in Nat
    BY DEF TabInv, LiveTyped, Timed, TabConstants
  <2>2. tabClock' \in 0 .. c.maxTime /\ tabClock' > tabClock
    BY <1>1, <2>1
  <2>3. Timed(c)'
    BY <1>1, <2>1, <2>2 DEF TabInv, LiveTyped, Timed
  <2> QED BY <1>1, <2>3 DEF TabInv, LiveTyped
<1>3. JarTyped(c)' /\ RequestsTyped(c)' /\ FewStay(c)'
  BY <1>1 DEF TabInv, JarTyped, RequestsTyped, FewStay
<1>4. JarOrdered(c)'
  BY <1>1, FewerHold DEF TabInv, Holding
<1> QED BY <1>2, <1>3, <1>4 DEF TabInv

\* Sessions that end are live or were drawn once.
LEMMA EndedTyped ==
    ASSUME NEW CONSTANT c, TabConstants(c), LiveTyped(c), NEW s \in Numbered(c),
           s[2] <= logins[s[1]], ended' = ended \cup {s}, evicted' = evicted,
           logins' = logins, tabClock' = tabClock,
           lastSeen' = Tabbed(c)!Without(lastSeen, {s}),
           lastUsed' = Tabbed(c)!Without(lastUsed, {s})
    PROVE  LiveTyped(c)'
<1>1. Timed(c)' /\ DOMAIN lastSeen' = DOMAIN lastSeen \ {s}
  BY TimesLeft DEF LiveTyped
<1> QED BY <1>1 DEF LiveTyped

LEMMA LogoutStep ==
    ASSUME NEW CONSTANT c, TabConstants(c), TabInv(c), NEW t \in c.tabs, Tabbed(c)!Logout(t)
    PROVE  TabInv(c)'
<1>1. /\ jar[t] # 0 /\ jar' = [jar EXCEPT ![t] = 0]
      /\ ended' = ended \cup {<<t, jar[t]>>}
      /\ lastSeen' = Tabbed(c)!Without(lastSeen, {<<t, jar[t]>>})
      /\ lastUsed' = Tabbed(c)!Without(lastUsed, {<<t, jar[t]>>})
      /\ UNCHANGED <<logins, evicted, tabClock, asked, opened, loginAnswer>>
  BY DEF Tabbed!Logout, Tabbed!Current
<1>2. jar[t] \in 0 .. c.maxLogins /\ jar[t] <= logins[t] /\ c.maxLogins \in Nat
  BY DEF TabInv, JarTyped, TabConstants
<1>3. <<t, jar[t]>> \in Numbered(c) /\ <<t, jar[t]>>[1] = t /\ <<t, jar[t]>>[2] = jar[t]
  BY <1>1, <1>2 DEF Numbered
<1>4. LiveTyped(c)'
  <2> DEFINE s == <<t, jar[t]>>
  <2>1. s \in Numbered(c) /\ s[2] <= logins[s[1]]
    BY <1>2, <1>3
  <2>2. /\ ended' = ended \cup {s} /\ evicted' = evicted /\ logins' = logins
        /\ tabClock' = tabClock
        /\ lastSeen' = Tabbed(c)!Without(lastSeen, {s})
        /\ lastUsed' = Tabbed(c)!Without(lastUsed, {s})
    BY <1>1
  <2> HIDE DEF s
  <2> QED BY <2>1, <2>2, EndedTyped DEF TabInv
<1>5. \A u \in c.tabs : jar'[u] = IF u = t THEN 0 ELSE jar[u]
  BY <1>1 DEF TabInv, JarTyped
<1>6. JarTyped(c)'
  <2>1. jar' \in [c.tabs -> 0 .. c.maxLogins]
    BY <1>1, <1>2 DEF TabInv, JarTyped
  <2>2. \A u \in c.tabs : jar[u] <= logins[u] /\ logins[u] \in Nat
    BY DEF TabInv, JarTyped
  <2> QED BY <1>1, <1>5, <2>1, <2>2 DEF TabInv, JarTyped
<1>7. RequestsTyped(c)' /\ FewStay(c)'
  BY <1>1 DEF TabInv, RequestsTyped, FewStay
<1>8. JarOrdered(c)'
  <2>1. Holding(c)' \subseteq Holding(c)
    BY <1>5 DEF Holding
  <2> QED BY <1>1, <2>1, FewerHold DEF TabInv
<1> QED BY <1>4, <1>6, <1>7, <1>8 DEF TabInv

LEMMA ExpireStep ==
    ASSUME NEW CONSTANT c, TabConstants(c), TabInv(c), NEW s, Tabbed(c)!Expire(s)
    PROVE  TabInv(c)'
<1>1. /\ s \in DOMAIN lastSeen /\ ended' = ended \cup {s}
      /\ lastSeen' = Tabbed(c)!Without(lastSeen, {s})
      /\ lastUsed' = Tabbed(c)!Without(lastUsed, {s})
      /\ UNCHANGED <<jar, logins, evicted, tabClock, asked, opened, loginAnswer>>
  BY DEF Tabbed!Expire, Tabbed!Live
<1>2. s \in Numbered(c) /\ s[2] <= logins[s[1]]
  BY <1>1 DEF TabInv, LiveTyped
<1>3. LiveTyped(c)'
  BY <1>1, <1>2, EndedTyped DEF TabInv
<1>4. JarTyped(c)' /\ RequestsTyped(c)' /\ FewStay(c)'
  BY <1>1 DEF TabInv, JarTyped, RequestsTyped, FewStay
<1>5. JarOrdered(c)'
  BY <1>1, FewerHold DEF TabInv, Holding
<1> QED BY <1>3, <1>4, <1>5 DEF TabInv

LEMMA TabRest ==
    ASSUME NEW CONSTANT c, TabInv(c), UNCHANGED Tabbed(c)!vars
    PROVE  TabInv(c)'
<1>1. UNCHANGED <<jar, logins, ended, evicted, tabClock, lastSeen, lastUsed, asked, opened, loginAnswer>>
  BY DEF Tabbed!vars
<1>2. JarTyped(c)' /\ RequestsTyped(c)' /\ FewStay(c)' /\ LiveTyped(c)'
  BY <1>1 DEF TabInv, JarTyped, RequestsTyped, FewStay, LiveTyped, Timed
<1>3. JarOrdered(c)'
  BY <1>1, FewerHold DEF TabInv, Holding
<1> QED BY <1>2, <1>3 DEF TabInv

LEMMA TabsAlways ==
    ASSUME NEW CONSTANT c, Tabbed(c)!TabSessionsAssumption
    PROVE  Tabbed(c)!Spec => []TabInv(c)
<1>1. TabConstants(c)
  BY TabConstantsHold
<1>2. Tabbed(c)!Init => TabInv(c)
  BY <1>1, TabInit
<1>3. TabInv(c) /\ [Tabbed(c)!Next]_(Tabbed(c)!vars) => TabInv(c)'
  <2> SUFFICES ASSUME TabInv(c), [Tabbed(c)!Next]_(Tabbed(c)!vars) PROVE TabInv(c)'
    OBVIOUS
  <2>1. ASSUME NEW t \in c.tabs, Tabbed(c)!Login(t) PROVE TabInv(c)'
    BY <1>1, <2>1, LoginStep
  <2>2. ASSUME NEW t \in c.tabs, Tabbed(c)!Open(t) PROVE TabInv(c)'
    BY <1>1, <2>2, OpenStep
  <2>3. ASSUME NEW t \in c.tabs, Tabbed(c)!Inspect(t) PROVE TabInv(c)'
    BY <1>1, <2>3, InspectStep
  <2>4. ASSUME NEW t \in c.tabs, NEW s, Tabbed(c)!Revoke(t, s) PROVE TabInv(c)'
    BY <1>1, <2>4, RevokeStep
  <2>5. ASSUME NEW t \in c.tabs, Tabbed(c)!Receive(t) PROVE TabInv(c)'
    BY <1>1, <2>5, ReceiveStep
  <2>6. ASSUME NEW t \in c.tabs, Tabbed(c)!Use(t) PROVE TabInv(c)'
    BY <1>1, <2>6, UseStep
  <2>7. ASSUME NEW t \in c.tabs, Tabbed(c)!Logout(t) PROVE TabInv(c)'
    BY <1>1, <2>7, LogoutStep
  <2>8. ASSUME NEW s, Tabbed(c)!Expire(s) PROVE TabInv(c)'
    BY <1>1, <2>8, ExpireStep
  <2>9. ASSUME Tabbed(c)!Tick PROVE TabInv(c)'
    BY <1>1, <2>9, TabTickStep
  <2> QED BY <2>1, <2>2, <2>3, <2>4, <2>5, <2>6, <2>7, <2>8, <2>9, TabRest
          DEF Tabbed!Next
<1> QED BY <1>2, <1>3, PTL DEF Tabbed!Spec

\* However the logins of tabs and their answers overlap, the cookies of a
\* browser stay within the limit and the logins that were under way at the same
\* time (MAX_TAB_SESSION_COOKIES); sessions are live or over, and none was used
\* before the time stored for it or after the clock.
THEOREM JarStaysBounded ==
    ASSUME NEW CONSTANT c, Tabbed(c)!TabSessionsAssumption
    PROVE  Tabbed(c)!Spec => [](Tabbed(c)!TypeOK /\ Tabbed(c)!JarBounded)
<1>1. TabConstants(c)
  BY TabConstantsHold
<1>2. TabInv(c) => Tabbed(c)!TypeOK
  <2> SUFFICES ASSUME TabInv(c) PROVE Tabbed(c)!TypeOK
    OBVIOUS
  <2>1. Tabbed(c)!Live = DOMAIN lastSeen /\ Tabbed(c)!Sessions = Numbered(c)
    BY DEF Tabbed!Live, Tabbed!Sessions, Numbered
  <2> QED BY <2>1 DEF Tabbed!TypeOK, TabInv, JarTyped, LiveTyped, Timed
<1>3. TabInv(c) => Tabbed(c)!JarBounded
  <2> SUFFICES ASSUME TabInv(c)
               PROVE  Cardinality(Holding(c)) <= c.maxCookies + c.maxInFlight - 1
    BY TabCardinality DEF Tabbed!JarBounded, Tabbed!Cookies, Holding
  <2>1. PICK own, early :
           /\ own \in SUBSET c.tabs /\ Cardinality(own) <= c.maxCookies
           /\ early \in SUBSET c.tabs /\ Cardinality(early) <= c.maxInFlight - 1
           /\ Holding(c) \subseteq own \cup early
    BY DEF TabInv, JarOrdered, InOrder
  <2>2. IsFiniteSet(own) /\ IsFiniteSet(early)
    BY <1>1, <2>1, FS_Subset DEF TabConstants
  <2>3. /\ IsFiniteSet(own \cup early)
        /\ Cardinality(own \cup early)
              = Cardinality(own) + Cardinality(early) - Cardinality(own \cap early)
    BY <2>2, FS_Union
  <2>4. IsFiniteSet(own \cap early)
    BY <2>2, FS_Subset
  <2>5. Cardinality(Holding(c)) <= Cardinality(own \cup early)
    BY <2>1, <2>3, FS_Subset
  <2>6. /\ Cardinality(own) \in Nat /\ Cardinality(early) \in Nat
        /\ Cardinality(own \cap early) \in Nat
    BY <2>2, <2>4, FS_CardinalityType
  <2>7. IsFiniteSet(Holding(c)) /\ Cardinality(Holding(c)) \in Nat
    BY <2>1, <2>3, FS_Subset, FS_CardinalityType
  <2>8. c.maxCookies \in Nat /\ c.maxInFlight \in Nat
    BY <1>1 DEF TabConstants
  <2> QED BY <2>1, <2>3, <2>5, <2>6, <2>7, <2>8
<1> QED BY <1>2, <1>3, TabsAlways, PTL

\* A browser with no more tabs than the limit loses no session to it, even
\* while its logins overlap.
THEOREM FewTabsStay ==
    ASSUME NEW CONSTANT c, Tabbed(c)!TabSessionsAssumption
    PROVE  Tabbed(c)!Spec => [](Tabbed(c)!TypeOK /\ Tabbed(c)!FewTabsUndisturbed)
<1>1. TabInv(c) => Tabbed(c)!FewTabsUndisturbed
  BY TabCardinality DEF TabInv, FewStay, Tabbed!FewTabsUndisturbed
<1> QED BY <1>1, TabsAlways, JarStaysBounded, PTL

\* What a login settles to revoke was used least, as far as the times stored
\* can tell: those it keeps were seen no earlier, and each time stored is less
\* than Resolution behind the last use.
LEMMA InspectRevokesLeast ==
    ASSUME NEW CONSTANT c, TabConstants(c), TabInv(c), NEW t \in c.tabs, Tabbed(c)!Inspect(t)
    PROVE  /\ evicted' = evicted
           /\ \A u \in c.tabs : \A s \in Tabbed(c)!Revoking(u)' \ Tabbed(c)!Revoking(u) :
                 Cardinality(Tabbed(c)!AsRecent(u, s)) >= c.maxCookies - 1
<1>1. PICK cookies, kept, reply :
         /\ kept \in Tabbed(c)!Kept(Tabbed(c)!Others(t, cookies) \cap Tabbed(c)!Live)
         /\ reply \in Replies(c)
         /\ reply.revoking = (Tabbed(c)!Others(t, cookies) \cap Tabbed(c)!Live) \ kept
         /\ loginAnswer' = [loginAnswer EXCEPT ![t] = {reply}]
         /\ evicted' = evicted /\ cookies \in [c.tabs -> 0 .. c.maxLogins]
  BY InspectFacts
<1>2. ASSUME NEW u \in c.tabs, u # t PROVE Tabbed(c)!Revoking(u)' = Tabbed(c)!Revoking(u)
  BY <1>1, <1>2 DEF TabInv, RequestsTyped, Tabbed!Revoking
<1>3. Tabbed(c)!Revoking(t)' = reply.revoking
  BY <1>1 DEF TabInv, RequestsTyped, Tabbed!Revoking
<1>4. ASSUME NEW s \in reply.revoking
      PROVE  Cardinality(Tabbed(c)!AsRecent(t, s)) >= c.maxCookies - 1
  <2> DEFINE live == Tabbed(c)!Others(t, cookies) \cap DOMAIN lastSeen
             recent == Tabbed(c)!AsRecent(t, s)
  <2>1. s \in live \ kept
    BY <1>1 DEF Tabbed!Live
  <2>2. /\ kept \subseteq live /\ IsFiniteSet(kept)
        /\ kept # live => Cardinality(kept) = c.maxCookies - 1
        /\ \A k \in kept, q \in live \ kept : lastSeen[k] >= lastSeen[q]
    BY <1>1, KeptFacts DEF TabInv
  <2>3. recent = {o \in DOMAIN lastSeen \ {s} :
                    o[1] # t /\ lastUsed[o] + c.resolution > lastUsed[s]}
    BY DEF Tabbed!AsRecent, Tabbed!Live
  <2>4. ASSUME NEW k \in kept PROVE k \in recent
    <3>1. /\ k \in DOMAIN lastSeen /\ s \in DOMAIN lastSeen
          /\ k # s /\ lastSeen[k] >= lastSeen[s]
      BY <2>1, <2>2
    <3>2. k[1] # t
      BY <2>2 DEF Tabbed!Others
    <3>3. Timed(c) /\ c.resolution \in Nat
      BY DEF TabInv, LiveTyped, TabConstants
    <3>4. /\ tabClock \in Nat
          /\ lastSeen[k] \in 0 .. lastUsed[k] /\ lastUsed[k] \in 0 .. tabClock
          /\ lastSeen[s] \in 0 .. lastUsed[s] /\ lastUsed[s] \in 0 .. tabClock
          /\ lastUsed[s] < lastSeen[s] + c.resolution
      BY <3>1, <3>3 DEF Timed
    <3>5. lastUsed[k] + c.resolution > lastUsed[s]
      BY <3>1, <3>3, <3>4
    <3> QED BY <2>3, <3>1, <3>2, <3>5
  <2>5. Cardinality(kept) = c.maxCookies - 1
    BY <2>1, <2>2
  <2>6. IsFiniteSet(DOMAIN lastSeen)
    BY DEF TabInv, LiveTyped, Timed
  <2>7. IsFiniteSet(recent)
    BY <2>3, <2>6, FS_Subset
  <2> HIDE DEF recent
  <2>8. Cardinality(kept) <= Cardinality(recent)
    BY <2>4, <2>7, FS_Subset
  <2>9. Cardinality(recent) \in Nat /\ c.maxCookies \in Nat
    BY <2>7, FS_CardinalityType DEF TabConstants
  <2> QED BY <2>5, <2>8, <2>9 DEF recent
<1> QED BY <1>1, <1>2, <1>3, <1>4

\* The sessions revoked for the limit of cookies are the least recently used, as
\* far as the time stored can tell: as many others as may stay were used no
\* earlier, or less than the resolution of that time before (resolveSession and
\* the login of app.ts, whose inspection and revocations other requests come
\* between).
THEOREM LeastUsedGoesFirst ==
    ASSUME NEW CONSTANT c, Tabbed(c)!TabSessionsAssumption
    PROVE  Tabbed(c)!Spec => [][Tabbed(c)!LeastUsedRevoked]_(Tabbed(c)!vars)
<1>1. TabConstants(c)
  BY TabConstantsHold
<1>2. ASSUME TabInv(c), [Tabbed(c)!Next]_(Tabbed(c)!vars)
      PROVE  Tabbed(c)!LeastUsedRevoked
  <2>1. ASSUME evicted' = evicted,
               \A u \in c.tabs : \A s \in Tabbed(c)!Revoking(u)' \ Tabbed(c)!Revoking(u) :
                  Cardinality(Tabbed(c)!AsRecent(u, s)) >= c.maxCookies - 1
        PROVE  Tabbed(c)!LeastUsedRevoked
    BY <2>1, TabCardinality DEF Tabbed!LeastUsedRevoked
  <2>2. CASE UNCHANGED <<evicted, loginAnswer>>
    <3>1. \A u \in c.tabs : Tabbed(c)!Revoking(u)' = Tabbed(c)!Revoking(u)
      BY <2>2 DEF Tabbed!Revoking
    <3> QED BY <2>1, <2>2, <3>1
  <2>3. ASSUME NEW t \in c.tabs, Tabbed(c)!Inspect(t) PROVE Tabbed(c)!LeastUsedRevoked
    BY <1>1, <1>2, <2>1, <2>3, InspectRevokesLeast
  <2>4. ASSUME NEW t \in c.tabs, NEW s, Tabbed(c)!Revoke(t, s)
        PROVE  Tabbed(c)!LeastUsedRevoked
    <3>1. PICK reply \in loginAnswer[t] :
             /\ s \in reply.revoking
             /\ loginAnswer' = [loginAnswer EXCEPT
                    ![t] = {[reply EXCEPT !.revoking = @ \ {s}]}]
             /\ evicted' = evicted \cup ({s} \cap Tabbed(c)!Live)
      BY <2>4 DEF Tabbed!Revoke
    <3>2. reply \in Replies(c)
      BY <1>2 DEF TabInv, RequestsTyped
    <3>3. [reply EXCEPT !.revoking = @ \ {s}].revoking = reply.revoking \ {s}
      BY <3>2 DEF Replies
    <3>4. ASSUME NEW u \in c.tabs PROVE Tabbed(c)!Revoking(u)' \subseteq Tabbed(c)!Revoking(u)
      <4>1. CASE u = t
        <5>1. loginAnswer'[t] = {[reply EXCEPT !.revoking = @ \ {s}]}
          BY <1>2, <3>1 DEF TabInv, RequestsTyped
        <5>2. Tabbed(c)!Revoking(t)' = reply.revoking \ {s}
          BY <3>3, <5>1 DEF Tabbed!Revoking
        <5>3. reply.revoking \subseteq Tabbed(c)!Revoking(t)
          BY <3>1 DEF Tabbed!Revoking
        <5> QED BY <4>1, <5>2, <5>3
      <4>2. CASE u # t
        BY <1>2, <3>1, <4>2 DEF TabInv, RequestsTyped, Tabbed!Revoking
      <4> QED BY <4>1, <4>2
    <3>5. s \in Tabbed(c)!Revoking(t)
      BY <3>1 DEF Tabbed!Revoking
    <3> QED BY <3>1, <3>4, <3>5 DEF Tabbed!LeastUsedRevoked
  <2>5. ASSUME NEW t \in c.tabs, Tabbed(c)!Receive(t) PROVE Tabbed(c)!LeastUsedRevoked
    <3>1. loginAnswer' = [loginAnswer EXCEPT ![t] = {}] /\ evicted' = evicted
      BY <2>5 DEF Tabbed!Receive
    <3>2. ASSUME NEW u \in c.tabs PROVE Tabbed(c)!Revoking(u)' \subseteq Tabbed(c)!Revoking(u)
      BY <1>2, <3>1 DEF TabInv, RequestsTyped, Tabbed!Revoking
    <3> QED BY <2>1, <3>1, <3>2
  <2>6. \/ UNCHANGED <<evicted, loginAnswer>>
        \/ \E t \in c.tabs : Tabbed(c)!Inspect(t) \/ Tabbed(c)!Receive(t)
        \/ \E t \in c.tabs, s \in Tabbed(c)!Sessions : Tabbed(c)!Revoke(t, s)
    BY <1>2 DEF Tabbed!Next, Tabbed!vars, Tabbed!Tick, Tabbed!Login, Tabbed!Open,
                Tabbed!Use, Tabbed!Logout, Tabbed!Expire
  <2> QED BY <2>2, <2>3, <2>4, <2>5, <2>6
<1> QED BY <1>2, TabsAlways, PTL DEF Tabbed!Spec

-----------------------------------------------------------------------------
(* The accounts, stores and groups of the in-memory server.                *)

\* MemoryAccounts with the constants that c names.
Server(c) == INSTANCE MemoryAccounts WITH
    Ids <- c.ids, Names <- c.names, Stores <- c.stores, Groups <- c.groups,
    Sessions <- c.sessions, MaxVersion <- c.maxVersion,
    MaxInFlight <- c.maxInFlight, account <- serverAccount

\* The instance counts as FiniteSets does.
LEMMA ServerCardinality ==
    ASSUME NEW CONSTANT c, NEW S
    PROVE  Server(c)!Cardinality(S) = Cardinality(S)
BY DEF Cardinality, Server!Cardinality, IsFiniteSet, Server!IsFiniteSet

Profiles(c) ==
    [name : c.names, role : Server(c)!Roles, store : c.stores,
     status : {"ACTIVE", "LOCKED"}, version : Nat, stores : SUBSET c.stores]
Tokens(c) == [account : c.ids, version : Nat, revoked : BOOLEAN]
Statuses == {"none", "ACTIVE", "INACTIVE"}

\* An account has one row, whose version may pass its bound by one.
ProfilesTyped(c) ==
    /\ serverAccount \in [c.ids -> SUBSET Profiles(c)]
    /\ \A i \in c.ids : \A a, b \in serverAccount[i] : a = b
    /\ \A i \in c.ids : \A a \in serverAccount[i] : a.version <= c.maxVersion + 1

\* Handlers that await a hash are of different accounts: one that is made does
\* not exist before, one whose password is reset does.
HandlersTyped(c) ==
    /\ IsFiniteSet(pending)
    /\ \A x, y \in pending : x.id = y.id => x = y
    /\ \A x \in pending :
          /\ x.id \in c.ids
          /\ x.does = "create" =>
                /\ serverAccount[x.id] = {} /\ x.row \in Profiles(c)
                /\ x.row.version = 0 /\ x.row.stores = {}
          /\ x.does = "reset" =>
                /\ serverAccount[x.id] # {}
                /\ \A a \in serverAccount[x.id] : a.version <= c.maxVersion

Assigned(i) == {x[2] : x \in {y \in assignment : y[1] = i}}

\* The second parts of the pairs with a given first.
LEMMA PairsOf ==
    ASSUME NEW I, NEW S, NEW R \in SUBSET (I \X S), NEW i \in I
    PROVE  {x[2] : x \in {y \in R : y[1] = i}} = {s \in S : <<i, s>> \in R}
<1>1. ASSUME NEW s \in {x[2] : x \in {y \in R : y[1] = i}}
      PROVE  s \in S /\ <<i, s>> \in R
  <2>1. PICK x \in R : x[1] = i /\ x[2] = s
    OBVIOUS
  <2>2. x \in I \X S
    OBVIOUS
  <2>3. x = <<x[1], x[2]>> /\ x[2] \in S
    BY <2>2
  <2> QED BY <2>1, <2>3
<1>2. ASSUME NEW s \in S, <<i, s>> \in R
      PROVE  s \in {x[2] : x \in {y \in R : y[1] = i}}
  <2>1. <<i, s>>[1] = i /\ <<i, s>>[2] = s
    OBVIOUS
  <2> QED BY <1>2, <2>1
<1> QED BY <1>1, <1>2

ScopesTyped(c) ==
    /\ assignment \subseteq c.ids \X c.stores
    /\ \A i \in c.ids : \A a \in serverAccount[i] : a.stores = Assigned(i)
    /\ \A i \in c.ids : serverAccount[i] = {} => Assigned(i) = {}

TokensTyped(c) ==
    /\ session \in [c.sessions -> SUBSET Tokens(c)]
    /\ \A t \in c.sessions : \A q, r \in session[t] : q = r
    /\ \A t \in c.sessions : \A r \in session[t] : serverAccount[r.account] # {}

PlacesTyped(c) ==
    /\ store \in [c.stores -> [status : Statuses, group : c.groups, version : Nat]]
    /\ group \in [c.groups -> [status : Statuses, version : Nat]]
    /\ \A s \in c.stores : store[s].status = "ACTIVE" => group[store[s].group].status = "ACTIVE"

AccountsInv(c) ==
    /\ ProfilesTyped(c) /\ HandlersTyped(c) /\ ScopesTyped(c) /\ TokensTyped(c)
    /\ PlacesTyped(c)

AccountBounds(c) == c.maxVersion \in Nat /\ c.maxInFlight \in Nat \ {0} /\ c.groups # {}

LEMMA AccountBoundsHold ==
    ASSUME NEW CONSTANT c, Server(c)!MemoryAccountBounds PROVE AccountBounds(c)
BY DEF Server!MemoryAccountBounds, AccountBounds

LEMMA AccountsInit ==
    ASSUME NEW CONSTANT c, AccountBounds(c), Server(c)!Init
    PROVE  AccountsInv(c)
<1>1. /\ serverAccount = [i \in c.ids |-> {}] /\ pending = {}
      /\ session = [t \in c.sessions |-> {}] /\ assignment = {}
      /\ store = [s \in c.stores |-> [status |-> "none",
                     group |-> CHOOSE g \in c.groups : TRUE, version |-> 0]]
      /\ group = [g \in c.groups |-> [status |-> "none", version |-> 0]]
  BY DEF Server!Init, Server!None
<1>2. ProfilesTyped(c) /\ ScopesTyped(c) /\ TokensTyped(c)
  BY <1>1 DEF ProfilesTyped, ScopesTyped, TokensTyped, Assigned
<1>3. HandlersTyped(c)
  BY <1>1, FS_EmptySet DEF HandlersTyped
<1>4. (CHOOSE g \in c.groups : TRUE) \in c.groups
  BY DEF AccountBounds
<1>5. PlacesTyped(c)
  BY <1>1, <1>4 DEF PlacesTyped, Statuses
<1> QED BY <1>2, <1>3, <1>5 DEF AccountsInv

\* The row of an account that exists.
LEMMA RowThere ==
    ASSUME NEW CONSTANT c, AccountsInv(c), NEW i \in c.ids, Server(c)!Exists(i)
    PROVE  /\ Server(c)!Row(i) \in serverAccount[i] /\ Server(c)!Row(i) \in Profiles(c)
           /\ serverAccount[i] = {Server(c)!Row(i)}
           /\ Server(c)!Row(i).version \in Nat
           /\ Server(c)!Row(i).stores = Assigned(i)
<1>1. serverAccount[i] # {} /\ Server(c)!Row(i) = CHOOSE a \in serverAccount[i] : TRUE
  BY DEF Server!Exists, Server!None, Server!Row
<1>2. Server(c)!Row(i) \in serverAccount[i]
  BY <1>1
<1>3. /\ serverAccount[i] \subseteq Profiles(c)
      /\ \A a, b \in serverAccount[i] : a = b
      /\ \A a \in serverAccount[i] : a.stores = Assigned(i)
  BY DEF AccountsInv, ProfilesTyped, ScopesTyped
<1>4. \A a \in Profiles(c) : a.version \in Nat
  BY DEF Profiles
<1> QED BY <1>2, <1>3, <1>4

\* What becomes of an account that is renewed, and of its sessions.
RenewedTo(c, i, row, a) ==
    /\ a.version = row.version + 1 /\ a.stores = row.stores /\ a.name = row.name
    /\ a.role = row.role /\ a.store = row.store /\ a.status = row.status
    /\ serverAccount' = [serverAccount EXCEPT ![i] = {a}]
    /\ \A j \in c.ids : serverAccount'[j] = IF j = i THEN {a} ELSE serverAccount[j]
    /\ session' \in [c.sessions -> SUBSET Tokens(c)]
    /\ \A t \in c.sessions : \A r \in session'[t] : \E q \in session[t] :
          /\ r.account = q.account /\ r.version = q.version
          /\ r.account = i => r.revoked
          /\ r.account # i => r = q
    /\ \A t \in c.sessions : \A q, r \in session'[t] : q = r

\* An account is renewed: its row is of the next version, its sessions are over.
LEMMA Renewed ==
    ASSUME NEW CONSTANT c, AccountsInv(c), NEW i \in c.ids, Server(c)!Exists(i),
           NEW row \in Profiles(c), Server(c)!Renew(i, row)
    PROVE  \E a \in Profiles(c) : RenewedTo(c, i, row, a)
<1> DEFINE a == [row EXCEPT !.version = row.version + 1]
           over(r) == [r EXCEPT !.revoked = r.revoked \/ r.account = i]
<1>1. /\ a \in Profiles(c)
      /\ a.version = row.version + 1 /\ a.stores = row.stores /\ a.name = row.name
      /\ a.role = row.role /\ a.store = row.store /\ a.status = row.status
  BY DEF Profiles
<1>2. serverAccount' = [serverAccount EXCEPT ![i] = {a}]
  BY DEF Server!Renew
<1>3. session' = [t \in c.sessions |-> {over(r) : r \in session[t]}]
  BY DEF Server!Renew, Server!Revoked
<1>4. ASSUME NEW r \in Tokens(c)
      PROVE  /\ over(r) \in Tokens(c)
             /\ over(r).account = r.account /\ over(r).version = r.version
             /\ over(r).account = i => over(r).revoked
             /\ over(r).account # i => over(r) = r
  <2>1. r.revoked \in BOOLEAN
    BY DEF Tokens
  <2>2. over(r) = [account |-> r.account, version |-> r.version,
                   revoked |-> r.revoked \/ r.account = i]
    BY DEF Tokens
  <2>3. r = [account |-> r.account, version |-> r.version, revoked |-> r.revoked]
    BY DEF Tokens
  <2>4. over(r).account = i => over(r).revoked
    BY <2>2
  <2>5. over(r).account # i => over(r) = r
    BY <2>1, <2>2, <2>3
  <2>6. over(r) \in Tokens(c)
    BY <2>2 DEF Tokens
  <2> QED BY <2>2, <2>4, <2>5, <2>6
<1>5. ASSUME NEW t \in c.sessions
      PROVE  session[t] \subseteq Tokens(c) /\ \A q, r \in session[t] : q = r
  BY DEF AccountsInv, TokensTyped
<1> HIDE DEF a, over
<1>6. \A j \in c.ids : serverAccount'[j] = IF j = i THEN {a} ELSE serverAccount[j]
  BY <1>2 DEF AccountsInv, ProfilesTyped
<1>7. session' \in [c.sessions -> SUBSET Tokens(c)]
  BY <1>3, <1>4, <1>5
<1>8. \A t \in c.sessions : \A r \in session'[t] : \E q \in session[t] :
         /\ r.account = q.account /\ r.version = q.version
         /\ r.account = i => r.revoked
         /\ r.account # i => r = q
  BY <1>3, <1>4, <1>5
<1>9. \A t \in c.sessions : \A q, r \in session'[t] : q = r
  BY <1>3, <1>5
<1>10. RenewedTo(c, i, row, a)
  BY <1>1, <1>2, <1>6, <1>7, <1>8, <1>9 DEF RenewedTo
<1> QED BY <1>1, <1>10

\* What a renewal keeps, whatever happens to the handlers and assignments.
LEMMA RenewedTyped ==
    ASSUME NEW CONSTANT c, AccountBounds(c), AccountsInv(c), NEW i \in c.ids,
           Server(c)!Exists(i), NEW row \in Profiles(c), Server(c)!Renew(i, row),
           row.version <= c.maxVersion
    PROVE  ProfilesTyped(c)' /\ TokensTyped(c)'
<1>1. PICK a \in Profiles(c) : RenewedTo(c, i, row, a)
  BY Renewed
<1>2. a.version <= c.maxVersion + 1
  <2>1. row.version \in Nat /\ c.maxVersion \in Nat
    BY DEF Profiles, AccountBounds
  <2> QED BY <1>1, <2>1 DEF RenewedTo
<1>3. ProfilesTyped(c)'
  BY <1>1, <1>2 DEF AccountsInv, ProfilesTyped, RenewedTo
<1>4. ASSUME NEW t \in c.sessions, NEW r \in session'[t] PROVE serverAccount'[r.account] # {}
  <2>1. PICK q \in session[t] : r.account = q.account
    BY <1>1, <1>4 DEF RenewedTo
  <2>2. q \in Tokens(c) /\ serverAccount[q.account] # {}
    BY <2>1 DEF AccountsInv, TokensTyped
  <2>3. r.account \in c.ids /\ serverAccount[r.account] # {}
    BY <2>1, <2>2 DEF Tokens
  <2>4. serverAccount'[r.account] = IF r.account = i THEN {a} ELSE serverAccount[r.account]
    BY <1>1, <2>3 DEF RenewedTo
  <2> QED BY <2>3, <2>4
<1>5. TokensTyped(c)'
  <2>1. /\ session' \in [c.sessions -> SUBSET Tokens(c)]
        /\ \A t \in c.sessions : \A q, r \in session'[t] : q = r
    BY <1>1 DEF RenewedTo
  <2> QED BY <1>4, <2>1 DEF TokensTyped
<1> QED BY <1>3, <1>5

\* Handlers that await stay typed when what they need of the accounts does.
LEMMA HandlersKept ==
    ASSUME NEW CONSTANT c, AccountsInv(c), pending' \subseteq pending,
           \A x \in pending' :
              /\ serverAccount[x.id] = {} => serverAccount'[x.id] = {}
              /\ x.does = "reset" =>
                    /\ serverAccount'[x.id] # {}
                    /\ \A a \in serverAccount'[x.id] : a.version <= c.maxVersion
    PROVE  HandlersTyped(c)'
<1>1. HandlersTyped(c)
  BY DEF AccountsInv
<1>2. IsFiniteSet(pending')
  BY <1>1, FS_Subset DEF HandlersTyped
<1> QED BY <1>1, <1>2 DEF HandlersTyped

LEMMA BeginCreateTyped ==
    ASSUME NEW CONSTANT c, AccountBounds(c), AccountsInv(c), NEW i \in c.ids,
           NEW name \in c.names,
           NEW role \in Server(c)!Roles, NEW s \in c.stores,
           Server(c)!BeginCreate(i, name, role, s)
    PROVE  AccountsInv(c)'
<1> DEFINE row == [name |-> name, role |-> role, store |-> s, status |-> "ACTIVE",
                   version |-> 0, stores |-> {}]
           x == [id |-> i, does |-> "create", row |-> row]
<1>1. /\ serverAccount[i] = {} /\ \A y \in pending : y.id # i
      /\ pending' = pending \cup {x}
      /\ UNCHANGED <<serverAccount, session, assignment, store, group>>
  BY DEF Server!BeginCreate, Server!Exists, Server!None
<1>2. row \in Profiles(c) /\ row.version = 0 /\ row.stores = {}
  BY DEF Profiles
<1>3. x.id = i /\ x.does = "create" /\ x.row = row
  OBVIOUS
<1> HIDE DEF row, x
<1>4. HandlersTyped(c)
  BY DEF AccountsInv
<1>5. IsFiniteSet(pending')
  BY <1>1, <1>4, FS_AddElement DEF HandlersTyped
<1>6. HandlersTyped(c)'
  <2>1. \A y, z \in pending' : y.id = z.id => y = z
    BY <1>1, <1>3, <1>4 DEF HandlersTyped
  <2>2. ASSUME NEW y \in pending'
        PROVE  /\ y.id \in c.ids
               /\ y.does = "create" =>
                    /\ serverAccount'[y.id] = {} /\ y.row \in Profiles(c)
                    /\ y.row.version = 0 /\ y.row.stores = {}
               /\ y.does = "reset" =>
                    /\ serverAccount'[y.id] # {}
                    /\ \A a \in serverAccount'[y.id] : a.version <= c.maxVersion
    <3>1. CASE y = x
      BY <1>1, <1>2, <1>3, <3>1
    <3>2. CASE y \in pending
      BY <1>1, <1>4, <3>2 DEF HandlersTyped
    <3> QED BY <1>1, <2>2, <3>1, <3>2
  <2> QED BY <1>5, <2>1, <2>2 DEF HandlersTyped
<1>7. ProfilesTyped(c)' /\ TokensTyped(c)'
  BY <1>1 DEF AccountsInv, ProfilesTyped, TokensTyped
<1>8. ScopesTyped(c)' /\ PlacesTyped(c)'
  BY <1>1 DEF AccountsInv, ScopesTyped, PlacesTyped, Assigned
<1> QED BY <1>6, <1>7, <1>8 DEF AccountsInv

LEMMA FinishCreateTyped ==
    ASSUME NEW CONSTANT c, AccountBounds(c), AccountsInv(c), NEW x \in pending,
           Server(c)!FinishCreate(x)
    PROVE  AccountsInv(c)'
<1>1. /\ serverAccount' = [serverAccount EXCEPT ![x.id] = {x.row}]
      /\ pending' = pending \ {x}
      /\ UNCHANGED <<session, assignment, store, group>>
  BY DEF Server!FinishCreate
<1>2. /\ x.id \in c.ids /\ serverAccount[x.id] = {} /\ x.row \in Profiles(c)
      /\ x.row.version = 0 /\ x.row.stores = {}
      /\ \A y \in pending' : y \in pending /\ y.id # x.id
  BY <1>1 DEF AccountsInv, HandlersTyped, Server!FinishCreate
<1>3. \A j \in c.ids : serverAccount'[j] = IF j = x.id THEN {x.row} ELSE serverAccount[j]
  BY <1>1, <1>2 DEF AccountsInv, ProfilesTyped
<1>4. ProfilesTyped(c)'
  BY <1>1, <1>2, <1>3 DEF AccountsInv, ProfilesTyped, AccountBounds
<1>5. ASSUME NEW y \in pending'
      PROVE  y \in pending /\ serverAccount'[y.id] = serverAccount[y.id]
  BY <1>2, <1>3 DEF AccountsInv, HandlersTyped
<1>6. HandlersTyped(c)'
  BY <1>5, HandlersKept DEF AccountsInv, HandlersTyped
<1>7. Assigned(x.id) = {} /\ \A i \in c.ids : Assigned(i)' = Assigned(i)
  BY <1>1, <1>2 DEF AccountsInv, ScopesTyped, Assigned
<1>8. ScopesTyped(c)'
  <2>1. ASSUME NEW i \in c.ids
        PROVE  /\ \A a \in serverAccount'[i] : a.stores = Assigned(i)'
               /\ serverAccount'[i] = {} => Assigned(i)' = {}
    <3>1. CASE i = x.id
      BY <1>2, <1>3, <1>7, <3>1
    <3>2. CASE i # x.id
      BY <1>3, <1>7, <3>2 DEF AccountsInv, ScopesTyped
    <3> QED BY <3>1, <3>2
  <2> QED BY <1>1, <2>1 DEF AccountsInv, ScopesTyped
<1>9. TokensTyped(c)'
  <2>1. ASSUME NEW t \in c.sessions, NEW r \in session[t]
        PROVE  serverAccount'[r.account] # {}
    <3>1. r \in Tokens(c) /\ serverAccount[r.account] # {}
      BY DEF AccountsInv, TokensTyped
    <3> QED BY <1>3, <3>1 DEF Tokens
  <2> QED BY <1>1, <2>1 DEF AccountsInv, TokensTyped
<1>10. PlacesTyped(c)'
  BY <1>1 DEF AccountsInv, PlacesTyped
<1> QED BY <1>4, <1>6, <1>8, <1>9, <1>10 DEF AccountsInv

\* A handler that renews account i, when the assignments stay.
LEMMA RenewalTyped ==
    ASSUME NEW CONSTANT c, AccountBounds(c), AccountsInv(c), NEW i \in c.ids,
           Server(c)!Exists(i), NEW row \in Profiles(c), Server(c)!Renew(i, row),
           row.version <= c.maxVersion, row.stores = Assigned(i),
           pending' \subseteq pending,
           \A y \in pending' : y.id = i => row.version < c.maxVersion,
           UNCHANGED <<assignment, store, group>>
    PROVE  AccountsInv(c)'
<1>1. PICK a \in Profiles(c) : RenewedTo(c, i, row, a)
  BY Renewed
<1>2. /\ \A j \in c.ids : serverAccount'[j] = IF j = i THEN {a} ELSE serverAccount[j]
      /\ a.version = row.version + 1 /\ a.stores = row.stores
  BY <1>1 DEF RenewedTo
<1>3. row.version \in Nat /\ c.maxVersion \in Nat
  BY DEF Profiles, AccountBounds
<1>4. ASSUME NEW y \in pending'
      PROVE  /\ serverAccount[y.id] = {} => serverAccount'[y.id] = {}
             /\ y.does = "reset" =>
                   /\ serverAccount'[y.id] # {}
                   /\ \A b \in serverAccount'[y.id] : b.version <= c.maxVersion
  <2>1. /\ y.id \in c.ids
        /\ y.does = "reset" =>
              /\ serverAccount[y.id] # {}
              /\ \A b \in serverAccount[y.id] : b.version <= c.maxVersion
    BY DEF AccountsInv, HandlersTyped
  <2>2. CASE y.id = i
    <3>1. serverAccount[i] # {}
      BY DEF Server!Exists, Server!None
    <3> QED BY <1>2, <1>3, <2>1, <2>2, <3>1
  <2>3. CASE y.id # i
    BY <1>2, <2>1, <2>3
  <2> QED BY <2>2, <2>3
<1>5. HandlersTyped(c)'
  BY <1>4, HandlersKept
<1>6. serverAccount[i] # {} /\ \A j \in c.ids : Assigned(j)' = Assigned(j)
  BY DEF Server!Exists, Server!None, Assigned
<1>7. ScopesTyped(c)'
  BY <1>2, <1>6 DEF AccountsInv, ScopesTyped
<1>8. PlacesTyped(c)'
  BY DEF AccountsInv, PlacesTyped
<1> QED BY <1>5, <1>7, <1>8, RenewedTyped DEF AccountsInv

LEMMA SetStatusTyped ==
    ASSUME NEW CONSTANT c, AccountBounds(c), AccountsInv(c), NEW i \in c.ids,
           NEW v \in 0 .. c.maxVersion, NEW status \in {"ACTIVE", "LOCKED"},
           Server(c)!SetStatus(i, v, status)
    PROVE  AccountsInv(c)'
<1> DEFINE row == [Server(c)!Row(i) EXCEPT !.status = status]
<1>1. /\ Server(c)!Exists(i) /\ Server(c)!Row(i).version = v /\ v < c.maxVersion
      /\ Server(c)!Renew(i, row) /\ UNCHANGED <<pending, assignment, store, group>>
  BY DEF Server!SetStatus
<1>2. Server(c)!Row(i) \in Profiles(c) /\ Server(c)!Row(i).stores = Assigned(i)
  BY <1>1, RowThere
<1>3. row \in Profiles(c) /\ row.version = v /\ row.stores = Assigned(i)
  BY <1>1, <1>2 DEF Profiles
<1>4. row.version <= c.maxVersion /\ row.version < c.maxVersion
  BY <1>1, <1>3 DEF AccountBounds
<1> HIDE DEF row
<1> QED BY <1>1, <1>3, <1>4, RenewalTyped

LEMMA BeginResetTyped ==
    ASSUME NEW CONSTANT c, AccountBounds(c), AccountsInv(c), NEW i \in c.ids,
           NEW v \in 0 .. c.maxVersion, Server(c)!BeginReset(i, v)
    PROVE  AccountsInv(c)'
<1> DEFINE x == [id |-> i, does |-> "reset", row |-> Server(c)!Row(i)]
<1>1. /\ Server(c)!Exists(i) /\ Server(c)!Row(i).version = v /\ v < c.maxVersion
      /\ \A y \in pending : y.id # i
      /\ pending' = pending \cup {x}
      /\ UNCHANGED <<serverAccount, session, assignment, store, group>>
  BY DEF Server!BeginReset
<1>2. serverAccount[i] = {Server(c)!Row(i)}
  BY <1>1, RowThere
<1>3. x.id = i /\ x.does = "reset"
  OBVIOUS
<1> HIDE DEF x
<1>4. HandlersTyped(c)
  BY DEF AccountsInv
<1>5. IsFiniteSet(pending')
  BY <1>1, <1>4, FS_AddElement DEF HandlersTyped
<1>6. HandlersTyped(c)'
  <2>1. \A y, z \in pending' : y.id = z.id => y = z
    BY <1>1, <1>3, <1>4 DEF HandlersTyped
  <2>2. ASSUME NEW y \in pending'
        PROVE  /\ y.id \in c.ids
               /\ y.does = "create" =>
                    /\ serverAccount'[y.id] = {} /\ y.row \in Profiles(c)
                    /\ y.row.version = 0 /\ y.row.stores = {}
               /\ y.does = "reset" =>
                    /\ serverAccount'[y.id] # {}
                    /\ \A a \in serverAccount'[y.id] : a.version <= c.maxVersion
    <3>1. CASE y = x
      BY <1>1, <1>2, <1>3, <3>1 DEF AccountBounds
    <3>2. CASE y \in pending
      BY <1>1, <1>4, <3>2 DEF HandlersTyped
    <3> QED BY <1>1, <2>2, <3>1, <3>2
  <2> QED BY <1>5, <2>1, <2>2 DEF HandlersTyped
<1>7. ProfilesTyped(c)' /\ TokensTyped(c)'
  BY <1>1 DEF AccountsInv, ProfilesTyped, TokensTyped
<1>8. ScopesTyped(c)' /\ PlacesTyped(c)'
  BY <1>1 DEF AccountsInv, ScopesTyped, PlacesTyped, Assigned
<1> QED BY <1>6, <1>7, <1>8 DEF AccountsInv

LEMMA FinishResetTyped ==
    ASSUME NEW CONSTANT c, AccountBounds(c), AccountsInv(c), NEW x \in pending,
           Server(c)!FinishReset(x)
    PROVE  AccountsInv(c)'
<1>1. /\ x.does = "reset" /\ Server(c)!Renew(x.id, Server(c)!Row(x.id))
      /\ pending' = pending \ {x} /\ UNCHANGED <<assignment, store, group>>
  BY DEF Server!FinishReset
<1>2. /\ x.id \in c.ids /\ serverAccount[x.id] # {}
      /\ \A a \in serverAccount[x.id] : a.version <= c.maxVersion
      /\ \A y \in pending' : y.id # x.id
  BY <1>1 DEF AccountsInv, HandlersTyped
<1>3. Server(c)!Exists(x.id)
  BY <1>2 DEF Server!Exists, Server!None
<1>4. PICK i \in c.ids, row \in Profiles(c) :
         /\ i = x.id /\ row = Server(c)!Row(i)
         /\ row \in serverAccount[i] /\ row.stores = Assigned(i)
  BY <1>2, <1>3, RowThere
<1> QED BY <1>1, <1>2, <1>3, <1>4, RenewalTyped

LEMMA ReplaceAssignmentsTyped ==
    ASSUME NEW CONSTANT c, AccountBounds(c), AccountsInv(c), NEW i \in c.ids,
           NEW v \in 0 .. c.maxVersion, NEW wanted \in SUBSET c.stores,
           Server(c)!ReplaceAssignments(i, v, wanted)
    PROVE  AccountsInv(c)'
<1> DEFINE row == [Server(c)!Row(i) EXCEPT !.stores = wanted]
<1>1. /\ Server(c)!Exists(i) /\ Server(c)!Row(i).version = v /\ v < c.maxVersion
      /\ assignment' = {x \in assignment : x[1] # i} \cup {<<i, s>> : s \in wanted}
      /\ Server(c)!Renew(i, row) /\ UNCHANGED <<pending, store, group>>
  BY DEF Server!ReplaceAssignments, Server!Replaced
<1>2. Server(c)!Row(i) \in Profiles(c)
  BY <1>1, RowThere
<1>3. row \in Profiles(c) /\ row.version = v /\ row.stores = wanted
  BY <1>1, <1>2 DEF Profiles
<1>4. row.version <= c.maxVersion /\ row.version < c.maxVersion
  BY <1>1, <1>3 DEF AccountBounds
<1> HIDE DEF row
<1>5. PICK a \in Profiles(c) : RenewedTo(c, i, row, a)
  BY <1>1, <1>3, Renewed
<1>6. /\ \A j \in c.ids : serverAccount'[j] = IF j = i THEN {a} ELSE serverAccount[j]
      /\ a.version = v + 1 /\ a.stores = wanted
  BY <1>3, <1>5 DEF RenewedTo
<1>7. ASSUME NEW y \in pending'
      PROVE  /\ serverAccount[y.id] = {} => serverAccount'[y.id] = {}
             /\ y.does = "reset" =>
                   /\ serverAccount'[y.id] # {}
                   /\ \A b \in serverAccount'[y.id] : b.version <= c.maxVersion
  <2>1. /\ y.id \in c.ids
        /\ y.does = "reset" =>
              /\ serverAccount[y.id] # {}
              /\ \A b \in serverAccount[y.id] : b.version <= c.maxVersion
    BY <1>1 DEF AccountsInv, HandlersTyped
  <2>2. CASE y.id = i
    <3>1. serverAccount[i] # {}
      BY <1>1 DEF Server!Exists, Server!None
    <3>2. v + 1 <= c.maxVersion
      BY <1>1 DEF AccountBounds
    <3> QED BY <1>6, <2>1, <2>2, <3>1, <3>2
  <2>3. CASE y.id # i
    BY <1>6, <2>1, <2>3
  <2> QED BY <2>2, <2>3
<1>8. HandlersTyped(c)'
  BY <1>1, <1>7, HandlersKept
<1>9. assignment' \subseteq c.ids \X c.stores
  BY <1>1 DEF AccountsInv, ScopesTyped
<1>10. /\ Assigned(i)' = wanted
       /\ \A j \in c.ids : j # i => Assigned(j)' = Assigned(j)
  <2>1. ASSUME NEW j \in c.ids
        PROVE  /\ Assigned(j) = {s \in c.stores : <<j, s>> \in assignment}
               /\ Assigned(j)' = {s \in c.stores : <<j, s>> \in assignment'}
    BY <1>9, PairsOf DEF AccountsInv, ScopesTyped, Assigned
  <2>2. ASSUME NEW j \in c.ids, NEW s \in c.stores
        PROVE  <<j, s>> \in assignment'
               <=> IF j = i THEN s \in wanted ELSE <<j, s>> \in assignment
    <3>1. <<j, s>>[1] = j
      OBVIOUS
    <3>2. \A r \in wanted : <<i, r>> = <<j, s>> <=> i = j /\ r = s
      OBVIOUS
    <3> QED BY <1>1, <3>1, <3>2
  <2> QED BY <2>1, <2>2
<1>11. ScopesTyped(c)'
  BY <1>6, <1>9, <1>10 DEF AccountsInv, ScopesTyped
<1>12. PlacesTyped(c)'
  BY <1>1 DEF AccountsInv, PlacesTyped
<1> QED BY <1>1, <1>3, <1>4, <1>8, <1>11, <1>12, RenewedTyped DEF AccountsInv

\* The sessions begin and end.
LEMMA SessionsTyped ==
    ASSUME NEW CONSTANT c, AccountBounds(c), AccountsInv(c), NEW t \in c.sessions,
           \/ Server(c)!RevokeSession(t)
           \/ \E i \in c.ids : Server(c)!CreateSession(t, i)
    PROVE  AccountsInv(c)'
<1>1. UNCHANGED <<serverAccount, pending, assignment, store, group>>
  BY DEF Server!RevokeSession, Server!CreateSession
<1>2. PICK tokens \in SUBSET Tokens(c) :
         /\ session' = [session EXCEPT ![t] = tokens]
         /\ \A q, r \in tokens : q = r
         /\ \A r \in tokens : serverAccount[r.account] # {}
  <2>1. CASE Server(c)!RevokeSession(t)
    <3> DEFINE over(r) == [r EXCEPT !.revoked = TRUE]
    <3>1. session' = [session EXCEPT ![t] = {over(r) : r \in session[t]}]
      BY <2>1 DEF Server!RevokeSession
    <3>2. ASSUME NEW r \in Tokens(c)
          PROVE  over(r) \in Tokens(c) /\ over(r).account = r.account
      BY DEF Tokens
    <3>3. /\ session[t] \subseteq Tokens(c) /\ \A q, r \in session[t] : q = r
          /\ \A r \in session[t] : serverAccount[r.account] # {}
      BY DEF AccountsInv, TokensTyped
    <3> HIDE DEF over
    <3>4. {over(r) : r \in session[t]} \in SUBSET Tokens(c)
      BY <3>2, <3>3
    <3>5. \A q, r \in {over(w) : w \in session[t]} : q = r
      BY <3>3
    <3>6. \A r \in {over(w) : w \in session[t]} : serverAccount[r.account] # {}
      BY <3>2, <3>3
    <3> QED BY <3>1, <3>4, <3>5, <3>6
  <2>2. CASE \E i \in c.ids : Server(c)!CreateSession(t, i)
    <3>1. PICK i \in c.ids : Server(c)!CreateSession(t, i)
      BY <2>2
    <3> DEFINE r == [account |-> i, version |-> Server(c)!Row(i).version, revoked |-> FALSE]
    <3>2. session' = [session EXCEPT ![t] = {r}] /\ serverAccount[i] # {}
      BY <3>1 DEF Server!CreateSession
    <3>3. Server(c)!Row(i).version \in Nat
      BY <3>2, RowThere DEF Server!Exists, Server!None
    <3>4. r \in Tokens(c) /\ r.account = i
      BY <3>3 DEF Tokens
    <3> HIDE DEF r
    <3>5. {r} \in SUBSET Tokens(c) /\ \A q \in {r} : q = r /\ q.account = i
      BY <3>4
    <3> QED BY <3>2, <3>5
  <2> QED BY <2>1, <2>2
<1>3. TokensTyped(c)'
  <2>1. \A w \in c.sessions : session'[w] = IF w = t THEN tokens ELSE session[w]
    BY <1>2 DEF AccountsInv, TokensTyped
  <2>2. session' \in [c.sessions -> SUBSET Tokens(c)]
    BY <1>2 DEF AccountsInv, TokensTyped
  <2>3. \A w \in c.sessions : \A q, r \in session'[w] : q = r
    BY <1>2, <2>1 DEF AccountsInv, TokensTyped
  <2>4. \A w \in c.sessions : \A r \in session'[w] : serverAccount'[r.account] # {}
    BY <1>1, <1>2, <2>1 DEF AccountsInv, TokensTyped
  <2> QED BY <2>2, <2>3, <2>4 DEF TokensTyped
<1>4. ProfilesTyped(c)' /\ ScopesTyped(c)'
  BY <1>1 DEF AccountsInv, ProfilesTyped, ScopesTyped, Assigned
<1>5. HandlersTyped(c)' /\ PlacesTyped(c)'
  BY <1>1 DEF AccountsInv, HandlersTyped, PlacesTyped
<1> QED BY <1>3, <1>4, <1>5 DEF AccountsInv

\* A group is made or changed: none with an open store is closed.
LEMMA GroupTyped ==
    ASSUME NEW CONSTANT c, AccountBounds(c), AccountsInv(c), NEW g \in c.groups,
           \/ Server(c)!CreateGroup(g)
           \/ \E v \in 0 .. c.maxVersion, status \in {"ACTIVE", "INACTIVE"} :
                 Server(c)!UpdateGroup(g, v, status)
    PROVE  AccountsInv(c)'
<1>1. UNCHANGED <<serverAccount, pending, session, assignment, store>>
  BY DEF Server!CreateGroup, Server!UpdateGroup
<1>2. PlacesTyped(c)
  BY DEF AccountsInv
<1>3. PlacesTyped(c)'
  <2>1. CASE Server(c)!CreateGroup(g)
    <3>1. group' = [group EXCEPT ![g].status = "ACTIVE"]
      BY <2>1 DEF Server!CreateGroup
    <3>2. group[g] \in [status : Statuses, version : Nat]
      BY <1>2 DEF PlacesTyped
    <3>3. group' \in [c.groups -> [status : Statuses, version : Nat]]
      BY <1>2, <3>1, <3>2 DEF PlacesTyped, Statuses
    <3>4. \A h \in c.groups : group[h].status = "ACTIVE" => group'[h].status = "ACTIVE"
      BY <1>2, <3>1, <3>2 DEF PlacesTyped
    <3> QED BY <1>1, <1>2, <3>3, <3>4 DEF PlacesTyped
  <2>2. ASSUME NEW v \in 0 .. c.maxVersion, NEW status \in {"ACTIVE", "INACTIVE"},
               Server(c)!UpdateGroup(g, v, status)
        PROVE  PlacesTyped(c)'
    <3>1. /\ group' = [group EXCEPT ![g] = [status |-> status, version |-> group[g].version + 1]]
          /\ status = "INACTIVE" /\ group[g].status # "INACTIVE" =>
                \A s \in c.stores : store[s].group = g => store[s].status # "ACTIVE"
      BY <2>2 DEF Server!UpdateGroup, Server!GroupIdle
    <3>2. group[g].version \in Nat
      BY <1>2 DEF PlacesTyped
    <3>3. group' \in [c.groups -> [status : Statuses, version : Nat]]
      BY <1>2, <3>1, <3>2 DEF PlacesTyped, Statuses
    <3>4. ASSUME NEW s \in c.stores, store[s].status = "ACTIVE"
          PROVE  group'[store[s].group].status = "ACTIVE"
      <4>1. store[s].group \in c.groups /\ group[store[s].group].status = "ACTIVE"
        BY <1>2, <3>4 DEF PlacesTyped
      <4>2. CASE store[s].group = g
        <5>1. status = "ACTIVE"
          BY <3>1, <3>4, <4>1, <4>2
        <5>2. group'[g] = [status |-> status, version |-> group[g].version + 1]
          BY <1>2, <3>1 DEF PlacesTyped
        <5> QED BY <4>2, <5>1, <5>2
      <4>3. CASE store[s].group # g
        BY <1>2, <3>1, <4>1, <4>3 DEF PlacesTyped
      <4> QED BY <4>2, <4>3
    <3> QED BY <1>1, <1>2, <3>3, <3>4 DEF PlacesTyped
  <2> QED BY <2>1, <2>2
<1>4. ProfilesTyped(c)' /\ ScopesTyped(c)'
  BY <1>1 DEF AccountsInv, ProfilesTyped, ScopesTyped, Assigned
<1>5. HandlersTyped(c)' /\ TokensTyped(c)'
  BY <1>1 DEF AccountsInv, HandlersTyped, TokensTyped
<1> QED BY <1>3, <1>4, <1>5 DEF AccountsInv

\* A store is made or changed: one that is open is in an open group.
LEMMA StoreTyped ==
    ASSUME NEW CONSTANT c, AccountBounds(c), AccountsInv(c), NEW s \in c.stores,
           NEW g \in c.groups,
           \/ Server(c)!CreateStore(s, g)
           \/ \E v \in 0 .. c.maxVersion, status \in {"ACTIVE", "INACTIVE"} :
                 Server(c)!UpdateStore(s, v, status, g)
    PROVE  AccountsInv(c)'
<1>1. UNCHANGED <<serverAccount, pending, session, assignment, group>>
  BY DEF Server!CreateStore, Server!UpdateStore
<1>2. PlacesTyped(c)
  BY DEF AccountsInv
<1>3. PICK status \in Statuses, version \in Nat :
         /\ store' = [store EXCEPT ![s] = [status |-> status, group |-> g, version |-> version]]
         /\ status = "ACTIVE" => group[g].status = "ACTIVE"
  <2>1. CASE Server(c)!CreateStore(s, g)
    BY <2>1 DEF Server!CreateStore, Statuses
  <2>2. ASSUME NEW v \in 0 .. c.maxVersion, NEW status \in {"ACTIVE", "INACTIVE"},
               Server(c)!UpdateStore(s, v, status, g)
        PROVE  /\ status \in Statuses /\ store[s].version + 1 \in Nat
               /\ store' = [store EXCEPT ![s] =
                               [status |-> status, group |-> g, version |-> store[s].version + 1]]
               /\ status = "ACTIVE" => group[g].status = "ACTIVE"
    <3>1. store[s].version \in Nat
      BY <1>2 DEF PlacesTyped
    <3> QED BY <2>2, <3>1 DEF Server!UpdateStore, Statuses
  <2> QED BY <2>1, <2>2
<1>4. PlacesTyped(c)'
  <2>1. store' \in [c.stores -> [status : Statuses, group : c.groups, version : Nat]]
    BY <1>2, <1>3 DEF PlacesTyped
  <2>2. ASSUME NEW r \in c.stores, store'[r].status = "ACTIVE"
        PROVE  group'[store'[r].group].status = "ACTIVE"
    <3>1. CASE r = s
      <4>1. store'[s] = [status |-> status, group |-> g, version |-> version]
        BY <1>2, <1>3 DEF PlacesTyped
      <4> QED BY <1>1, <1>3, <2>2, <3>1, <4>1
    <3>2. CASE r # s
      <4>1. store'[r] = store[r]
        BY <1>2, <1>3, <3>2 DEF PlacesTyped
      <4> QED BY <1>1, <1>2, <2>2, <4>1 DEF PlacesTyped
    <3> QED BY <3>1, <3>2
  <2> QED BY <1>1, <1>2, <2>1, <2>2 DEF PlacesTyped
<1>5. ProfilesTyped(c)' /\ ScopesTyped(c)'
  BY <1>1 DEF AccountsInv, ProfilesTyped, ScopesTyped, Assigned
<1>6. HandlersTyped(c)' /\ TokensTyped(c)'
  BY <1>1 DEF AccountsInv, HandlersTyped, TokensTyped
<1> QED BY <1>4, <1>5, <1>6 DEF AccountsInv

LEMMA AccountsNext ==
    ASSUME NEW CONSTANT c, AccountBounds(c), AccountsInv(c), [Server(c)!Next]_(Server(c)!vars)
    PROVE  AccountsInv(c)'
<1>1. ASSUME NEW i \in c.ids, NEW name \in c.names, NEW role \in Server(c)!Roles,
             NEW s \in c.stores, Server(c)!BeginCreate(i, name, role, s)
      PROVE  AccountsInv(c)'
  BY <1>1, BeginCreateTyped
<1>2. ASSUME NEW x \in pending, Server(c)!FinishCreate(x) \/ Server(c)!FinishReset(x)
      PROVE  AccountsInv(c)'
  BY <1>2, FinishCreateTyped, FinishResetTyped
<1>3. ASSUME NEW i \in c.ids, NEW v \in 0 .. c.maxVersion,
             \/ \E status \in {"ACTIVE", "LOCKED"} : Server(c)!SetStatus(i, v, status)
             \/ Server(c)!BeginReset(i, v)
             \/ \E wanted \in SUBSET c.stores : Server(c)!ReplaceAssignments(i, v, wanted)
      PROVE  AccountsInv(c)'
  BY <1>3, SetStatusTyped, BeginResetTyped, ReplaceAssignmentsTyped
<1>4. ASSUME NEW t \in c.sessions,
             \/ Server(c)!RevokeSession(t)
             \/ \E i \in c.ids : Server(c)!CreateSession(t, i)
      PROVE  AccountsInv(c)'
  BY <1>4, SessionsTyped
<1>5. ASSUME NEW g \in c.groups,
             \/ Server(c)!CreateGroup(g)
             \/ \E v \in 0 .. c.maxVersion, status \in {"ACTIVE", "INACTIVE"} :
                   Server(c)!UpdateGroup(g, v, status)
      PROVE  AccountsInv(c)'
  BY <1>5, GroupTyped
<1>6. ASSUME NEW s \in c.stores, NEW g \in c.groups,
             \/ Server(c)!CreateStore(s, g)
             \/ \E v \in 0 .. c.maxVersion, status \in {"ACTIVE", "INACTIVE"} :
                   Server(c)!UpdateStore(s, v, status, g)
      PROVE  AccountsInv(c)'
  BY <1>6, StoreTyped
<1>7. CASE UNCHANGED Server(c)!vars
  <2>1. UNCHANGED <<serverAccount, pending, session, assignment, store, group>>
    BY <1>7 DEF Server!vars
  <2>2. ProfilesTyped(c)' /\ ScopesTyped(c)'
    BY <2>1 DEF AccountsInv, ProfilesTyped, ScopesTyped, Assigned
  <2>3. HandlersTyped(c)' /\ TokensTyped(c)' /\ PlacesTyped(c)'
    BY <2>1 DEF AccountsInv, HandlersTyped, TokensTyped, PlacesTyped
  <2> QED BY <2>2, <2>3 DEF AccountsInv
<1> QED BY <1>1, <1>2, <1>3, <1>4, <1>5, <1>6, <1>7 DEF Server!Next

LEMMA AccountsTyped ==
    ASSUME NEW CONSTANT c, Server(c)!MemoryAccountBounds
    PROVE  Server(c)!Spec => []AccountsInv(c)
<1>1. AccountBounds(c)
  BY AccountBoundsHold
<1>2. Server(c)!Init => AccountsInv(c)
  BY <1>1, AccountsInit
<1>3. AccountsInv(c) /\ [Server(c)!Next]_(Server(c)!vars) => AccountsInv(c)'
  BY <1>1, AccountsNext
<1> QED BY <1>2, <1>3, PTL DEF Server!Spec

\* Every row of the in-memory server has its shape; the stores an account of the
\* head office lists are those assigned to it, whatever order its handlers run
\* in; and an open store is in an open group.
THEOREM ServerRowsAgree ==
    ASSUME NEW CONSTANT c, Server(c)!MemoryAccountBounds
    PROVE  Server(c)!Spec =>
              [](Server(c)!TypeOK /\ Server(c)!ScopeIsAssignments
                 /\ Server(c)!OpenStoreInOpenGroup)
<1>1. ASSUME AccountBounds(c), AccountsInv(c)
      PROVE  /\ Server(c)!TypeOK /\ Server(c)!ScopeIsAssignments
             /\ Server(c)!OpenStoreInOpenGroup
  <2>1. ASSUME NEW i \in c.ids PROVE Server(c)!Cardinality(serverAccount[i]) <= 1
    <3>1. serverAccount[i] = {} \/ \E a : serverAccount[i] = {a}
      BY <1>1 DEF AccountsInv, ProfilesTyped
    <3>2. CASE serverAccount[i] = {}
      <4>1. Cardinality(serverAccount[i]) = 0
        BY <3>2, FS_EmptySet
      <4> QED BY <4>1, ServerCardinality
    <3>3. CASE \E a : serverAccount[i] = {a}
      <4>1. Cardinality(serverAccount[i]) = 1
        BY <3>3, FS_Singleton
      <4> QED BY <4>1, ServerCardinality
    <3> QED BY <3>1, <3>2, <3>3
  <2>2. ASSUME NEW i \in c.ids, NEW a \in serverAccount[i]
        PROVE  /\ a.name \in c.names /\ a.role \in Server(c)!Roles
               /\ a.version \in 0 .. c.maxVersion + c.maxInFlight
               /\ a.stores = {x[2] : x \in {y \in assignment : y[1] = i}}
    <3>1. a \in Profiles(c) /\ a.version <= c.maxVersion + 1 /\ a.stores = Assigned(i)
      BY <1>1 DEF AccountsInv, ProfilesTyped, ScopesTyped
    <3>2. a.name \in c.names /\ a.role \in Server(c)!Roles /\ a.version \in Nat
      BY <3>1 DEF Profiles
    <3>3. a.version \in 0 .. c.maxVersion + c.maxInFlight
      BY <1>1, <3>1, <3>2 DEF AccountBounds
    <3> QED BY <3>1, <3>2, <3>3 DEF Assigned
  <2>3. /\ assignment \subseteq c.ids \X c.stores
        /\ store \in [c.stores -> [status : {"none", "ACTIVE", "INACTIVE"},
                                   group : c.groups, version : Nat]]
        /\ group \in [c.groups -> [status : {"none", "ACTIVE", "INACTIVE"}, version : Nat]]
        /\ \A s \in c.stores : store[s].status = "ACTIVE"
           => group[store[s].group].status = "ACTIVE"
    BY <1>1 DEF AccountsInv, ScopesTyped, PlacesTyped, Statuses
  <2>4. Server(c)!TypeOK
    BY <2>1, <2>2, <2>3 DEF Server!TypeOK
  <2>5. Server(c)!ScopeIsAssignments
    BY <2>2 DEF Server!ScopeIsAssignments
  <2>6. Server(c)!OpenStoreInOpenGroup
    BY <2>3 DEF Server!OpenStoreInOpenGroup
  <2> QED BY <2>4, <2>5, <2>6
<1>2. AccountBounds(c)
  BY AccountBoundsHold
<1>3. AccountsInv(c) =>
         Server(c)!TypeOK /\ Server(c)!ScopeIsAssignments /\ Server(c)!OpenStoreInOpenGroup
  BY <1>1, <1>2
<1> QED BY <1>3, AccountsTyped, PTL

\* A name or a store, and the accounts that have it, or will when their hash is
\* there.
Keys(c) == ({"name"} \X c.names) \cup ({"store"} \X c.stores)
Takes(row, k) ==
    IF k[1] = "name" THEN row.name = k[2] ELSE row.role = "STORE" /\ row.store = k[2]
HasActive(i, k) == \E a \in serverAccount[i] : a.status = "ACTIVE" /\ Takes(a, k)
Making(i, k) == \E x \in pending : x.id = i /\ x.does = "create" /\ Takes(x.row, k)
Claims(c, k) == {i \in c.ids : HasActive(i, k) \/ Making(i, k)}

\* Whoever begins finds no other account active, so all the others that have the
\* name or the store in the end are being made at this moment.
Overlapping(c) ==
    \A k \in Keys(c) :
        IsFiniteSet(Claims(c, k)) /\ Cardinality(Claims(c, k)) <= c.maxInFlight

LEMMA FewerClaims ==
    ASSUME NEW CONSTANT c, AccountBounds(c), Overlapping(c), NEW k \in Keys(c),
           Claims(c, k)' \subseteq Claims(c, k)
    PROVE  IsFiniteSet(Claims(c, k))' /\ (Cardinality(Claims(c, k)) <= c.maxInFlight)'
<1>1. IsFiniteSet(Claims(c, k)) /\ Cardinality(Claims(c, k)) <= c.maxInFlight
  BY DEF Overlapping
<1> DEFINE S == Claims(c, k)
           T == Claims(c, k)'
<1>2. T \subseteq S
  OBVIOUS
<1> HIDE DEF S, T
<1>3. IsFiniteSet(T) /\ Cardinality(T) <= Cardinality(S)
  BY <1>1, <1>2, FS_Subset DEF S
<1>4. Cardinality(T) \in Nat /\ Cardinality(S) \in Nat
  BY <1>1, <1>3, FS_CardinalityType DEF S
<1>5. Cardinality(T) <= c.maxInFlight
  BY <1>1, <1>3, <1>4 DEF S, AccountBounds
<1> QED BY <1>3, <1>5 DEF T

LEMMA OneMoreClaims ==
    ASSUME NEW CONSTANT c, AccountBounds(c), AccountsInv(c), Server(c)!CanBegin,
           NEW k \in Keys(c), NEW i \in c.ids,
           \A j \in Claims(c, k)' : j = i \/ Making(j, k)
    PROVE  IsFiniteSet(Claims(c, k))' /\ (Cardinality(Claims(c, k)) <= c.maxInFlight)'
<1> DEFINE Y == {x \in pending : x.does = "create" /\ Takes(x.row, k)}
           M == {x.id : x \in Y}
           f == [x \in Y |-> x.id]
           T == Claims(c, k)'
<1>1. IsFiniteSet(pending) /\ Cardinality(pending) < c.maxInFlight
  BY ServerCardinality DEF Server!CanBegin, AccountsInv, HandlersTyped
<1>2. IsFiniteSet(Y) /\ Cardinality(Y) <= Cardinality(pending)
  BY <1>1, FS_Subset
<1>3. f \in Surjection(Y, M)
  BY DEF Surjection
<1>4. T \subseteq M \cup {i}
  BY DEF Making
<1> HIDE DEF Y, f, T
<1>5. IsFiniteSet(M) /\ Cardinality(M) <= Cardinality(Y)
  BY <1>2, <1>3, FS_Surjection
<1> HIDE DEF M
<1>6. /\ IsFiniteSet(M \cup {i})
      /\ Cardinality(M \cup {i}) = Cardinality(M) \/ Cardinality(M \cup {i}) = Cardinality(M) + 1
  BY <1>5, FS_AddElement
<1>7. IsFiniteSet(T) /\ Cardinality(T) <= Cardinality(M \cup {i})
  BY <1>4, <1>6, FS_Subset
<1>8. /\ Cardinality(pending) \in Nat /\ Cardinality(Y) \in Nat /\ Cardinality(M) \in Nat
      /\ Cardinality(T) \in Nat
  BY <1>1, <1>2, <1>5, <1>7, FS_CardinalityType
<1>9. c.maxInFlight \in Nat
  BY DEF AccountBounds
<1>10. Cardinality(T) <= c.maxInFlight
  BY <1>1, <1>2, <1>5, <1>6, <1>7, <1>8, <1>9
<1> QED BY <1>7, <1>10 DEF T

\* No other account is active under what a row takes.
LEMMA NoneElseActive ==
    ASSUME NEW CONSTANT c, NEW i \in c.ids, NEW row, NEW k \in Keys(c), Takes(row, k),
           Server(c)!MayBeActive(i, row.name, row.role, row.store), NEW j \in c.ids \ {i}
    PROVE  ~HasActive(j, k)
BY DEF Server!MayBeActive, Server!ActiveAs, Server!Keeps, HasActive, Takes, Keys

\* A renewal that leaves who an account is and does not make it active.
LEMMA RenewedClaims ==
    ASSUME NEW CONSTANT c, AccountsInv(c), NEW i \in c.ids,
           Server(c)!Exists(i), NEW row \in Profiles(c), Server(c)!Renew(i, row),
           row.name = Server(c)!Row(i).name, row.role = Server(c)!Row(i).role,
           row.store = Server(c)!Row(i).store,
           row.status = "ACTIVE" => Server(c)!Row(i).status = "ACTIVE",
           pending' \subseteq pending
    PROVE  \A k \in Keys(c) : Claims(c, k)' \subseteq Claims(c, k)
<1>1. PICK a \in Profiles(c) : RenewedTo(c, i, row, a)
  BY Renewed
<1>2. /\ \A j \in c.ids : serverAccount'[j] = IF j = i THEN {a} ELSE serverAccount[j]
      /\ a.name = row.name /\ a.role = row.role /\ a.store = row.store /\ a.status = row.status
  BY <1>1 DEF RenewedTo
<1>3. Server(c)!Row(i) \in serverAccount[i]
  BY RowThere
<1>4. ASSUME NEW k \in Keys(c), NEW j \in c.ids, HasActive(j, k)' PROVE HasActive(j, k)
  <2>1. CASE j = i
    <3>1. a.status = "ACTIVE" /\ Takes(a, k)
      BY <1>2, <1>4, <2>1 DEF HasActive
    <3>2. Takes(Server(c)!Row(i), k) /\ Server(c)!Row(i).status = "ACTIVE"
      BY <1>2, <3>1 DEF Takes
    <3> QED BY <1>3, <2>1, <3>2 DEF HasActive
  <2>2. CASE j # i
    BY <1>2, <1>4, <2>2 DEF HasActive
  <2> QED BY <2>1, <2>2
<1>5. ASSUME NEW k \in Keys(c), NEW j \in c.ids, Making(j, k)' PROVE Making(j, k)
  BY <1>5 DEF Making
<1> QED BY <1>4, <1>5 DEF Claims

LEMMA OverlappingNext ==
    ASSUME NEW CONSTANT c, AccountBounds(c), AccountsInv(c), Overlapping(c),
           [Server(c)!Next]_(Server(c)!vars)
    PROVE  Overlapping(c)'
<1>0. ASSUME \A k \in Keys(c) : Claims(c, k)' \subseteq Claims(c, k)
      PROVE  Overlapping(c)'
  BY <1>0, FewerClaims DEF Overlapping
<1>1. ASSUME NEW i \in c.ids, NEW name \in c.names, NEW role \in Server(c)!Roles,
             NEW s \in c.stores, Server(c)!BeginCreate(i, name, role, s)
      PROVE  Overlapping(c)'
  <2> DEFINE new == [name |-> name, role |-> role, store |-> s, status |-> "ACTIVE",
                     version |-> 0, stores |-> {}]
             x(r) == [id |-> i, does |-> "create", row |-> r]
  <2>1. PICK row \in Profiles(c) :
           /\ pending' = pending \cup {x(row)}
           /\ row.name = name /\ row.role = role /\ row.store = s
    <3>1. pending' = pending \cup {x(new)}
      BY <1>1 DEF Server!BeginCreate
    <3>2. new \in Profiles(c) /\ new.name = name /\ new.role = role /\ new.store = s
      BY DEF Profiles
    <3> HIDE DEF x, new
    <3> QED BY <3>1, <3>2
  <2>2. /\ serverAccount[i] = {} /\ UNCHANGED serverAccount /\ Server(c)!CanBegin
        /\ Server(c)!MayBeActive(i, name, role, s)
    BY <1>1 DEF Server!BeginCreate, Server!Exists, Server!None
  <2>3. x(row).id = i /\ x(row).row = row
    OBVIOUS
  <2> HIDE DEF x
  <2>4. ASSUME NEW k \in Keys(c), NEW j \in c.ids, Making(j, k)'
        PROVE  Making(j, k) \/ (j = i /\ Takes(row, k))
    BY <2>1, <2>3, <2>4 DEF Making
  <2>5. \A k \in Keys(c), j \in c.ids : HasActive(j, k)' <=> HasActive(j, k)
    BY <2>2 DEF HasActive
  <2>6. ASSUME NEW k \in Keys(c), Takes(row, k)
        PROVE  \A j \in Claims(c, k)' : j = i \/ Making(j, k)
    <3>1. \A j \in c.ids \ {i} : ~HasActive(j, k)
      BY <2>1, <2>2, <2>6, NoneElseActive
    <3> QED BY <2>4, <2>5, <3>1 DEF Claims
  <2>7. ASSUME NEW k \in Keys(c), ~Takes(row, k) PROVE Claims(c, k)' \subseteq Claims(c, k)
    BY <2>4, <2>5, <2>7 DEF Claims
  <2>8. ASSUME NEW k \in Keys(c)
        PROVE  IsFiniteSet(Claims(c, k))' /\ (Cardinality(Claims(c, k)) <= c.maxInFlight)'
    <3>1. CASE Takes(row, k)
      BY <2>2, <2>6, <3>1, OneMoreClaims
    <3>2. CASE ~Takes(row, k)
      BY <2>7, <3>2, FewerClaims
    <3> QED BY <3>1, <3>2
  <2> QED BY <2>8 DEF Overlapping
<1>2. ASSUME NEW x \in pending, Server(c)!FinishCreate(x)
      PROVE  Overlapping(c)'
  <2>1. /\ x.does = "create" /\ pending' = pending \ {x}
        /\ serverAccount' = [serverAccount EXCEPT ![x.id] = {x.row}]
    BY <1>2 DEF Server!FinishCreate
  <2>2. x.id \in c.ids
    BY <2>1 DEF AccountsInv, HandlersTyped
  <2>3. \A j \in c.ids : serverAccount'[j] = IF j = x.id THEN {x.row} ELSE serverAccount[j]
    BY <2>1, <2>2 DEF AccountsInv, ProfilesTyped
  <2>4. ASSUME NEW k \in Keys(c), NEW j \in c.ids, HasActive(j, k)'
        PROVE  HasActive(j, k) \/ Making(j, k)
    BY <2>1, <2>3, <2>4 DEF HasActive, Making
  <2>5. ASSUME NEW k \in Keys(c), NEW j \in c.ids, Making(j, k)' PROVE Making(j, k)
    BY <2>1, <2>5 DEF Making
  <2> QED BY <1>0, <2>4, <2>5 DEF Claims
<1>3. ASSUME NEW x \in pending, Server(c)!FinishReset(x)
      PROVE  Overlapping(c)'
  <2>1. /\ x.does = "reset" /\ pending' = pending \ {x}
        /\ Server(c)!Renew(x.id, Server(c)!Row(x.id))
    BY <1>3 DEF Server!FinishReset
  <2>2. x.id \in c.ids /\ serverAccount[x.id] # {}
    BY <2>1 DEF AccountsInv, HandlersTyped
  <2>3. Server(c)!Exists(x.id)
    BY <2>2 DEF Server!Exists, Server!None
  <2>4. PICK i \in c.ids, row \in Profiles(c) : i = x.id /\ row = Server(c)!Row(i)
    BY <2>2, <2>3, RowThere
  <2>5. Server(c)!Exists(i) /\ Server(c)!Renew(i, row) /\ pending' \subseteq pending
    BY <2>1, <2>3, <2>4
  <2> QED BY <1>0, <2>4, <2>5, RenewedClaims
<1>4. ASSUME NEW i \in c.ids, NEW v \in 0 .. c.maxVersion, NEW status \in {"ACTIVE", "LOCKED"},
             Server(c)!SetStatus(i, v, status)
      PROVE  Overlapping(c)'
  <2> DEFINE row == [Server(c)!Row(i) EXCEPT !.status = status]
             now == Server(c)!Row(i)
  <2>1. /\ Server(c)!Exists(i) /\ Server(c)!Renew(i, row) /\ UNCHANGED pending
        /\ Server(c)!CanBegin
        /\ status = "ACTIVE" => Server(c)!MayBeActive(i, now.name, now.role, now.store)
    BY <1>4 DEF Server!SetStatus
  <2>2. now \in Profiles(c)
    BY <2>1, RowThere
  <2>3. /\ row \in Profiles(c) /\ row.name = now.name /\ row.role = now.role
        /\ row.store = now.store /\ row.status = status
    BY <2>2 DEF Profiles
  <2> HIDE DEF row
  <2>4. CASE status = "LOCKED"
    <3>1. \A k \in Keys(c) : Claims(c, k)' \subseteq Claims(c, k)
      BY <2>1, <2>3, <2>4, RenewedClaims
    <3> QED BY <1>0, <3>1
  <2>5. CASE status = "ACTIVE"
    <3>1. PICK a \in Profiles(c) : RenewedTo(c, i, row, a)
      BY <2>1, <2>3, Renewed
    <3>2. /\ \A j \in c.ids : serverAccount'[j] = IF j = i THEN {a} ELSE serverAccount[j]
          /\ a.name = now.name /\ a.role = now.role /\ a.store = now.store
      BY <2>3, <3>1 DEF RenewedTo
    <3>3. \A k : Takes(a, k) <=> Takes(now, k)
      BY <3>2 DEF Takes
    <3>4. \A k \in Keys(c), j \in c.ids : Making(j, k)' <=> Making(j, k)
      BY <2>1 DEF Making
    <3>5. ASSUME NEW k \in Keys(c), NEW j \in c.ids, HasActive(j, k)'
          PROVE  (j = i /\ Takes(now, k)) \/ (j # i /\ HasActive(j, k))
      BY <3>2, <3>3, <3>5 DEF HasActive
    <3>6. ASSUME NEW k \in Keys(c)
          PROVE  IsFiniteSet(Claims(c, k))' /\ (Cardinality(Claims(c, k)) <= c.maxInFlight)'
      <4>1. CASE Takes(now, k)
        <5>1. \A j \in c.ids \ {i} : ~HasActive(j, k)
          BY <2>1, <2>5, <4>1, NoneElseActive
        <5>2. \A j \in Claims(c, k)' : j = i \/ Making(j, k)
          BY <3>4, <3>5, <5>1 DEF Claims
        <5> QED BY <2>1, <5>2, OneMoreClaims
      <4>2. CASE ~Takes(now, k)
        <5>1. Claims(c, k)' \subseteq Claims(c, k)
          BY <3>4, <3>5, <4>2 DEF Claims
        <5> QED BY <5>1, FewerClaims
      <4> QED BY <4>1, <4>2
    <3> QED BY <3>6 DEF Overlapping
  <2> QED BY <2>4, <2>5
<1>5. ASSUME NEW i \in c.ids, NEW v \in 0 .. c.maxVersion, Server(c)!BeginReset(i, v)
      PROVE  Overlapping(c)'
  <2> DEFINE x == [id |-> i, does |-> "reset", row |-> Server(c)!Row(i)]
  <2>1. pending' = pending \cup {x} /\ UNCHANGED serverAccount
    BY <1>5 DEF Server!BeginReset
  <2>2. x.does = "reset"
    OBVIOUS
  <2> HIDE DEF x
  <2>3. \A k \in Keys(c), j \in c.ids : Making(j, k)' => Making(j, k)
    BY <2>1, <2>2 DEF Making
  <2>4. \A k \in Keys(c), j \in c.ids : HasActive(j, k)' => HasActive(j, k)
    BY <2>1 DEF HasActive
  <2> QED BY <1>0, <2>3, <2>4 DEF Claims
<1>6. ASSUME NEW i \in c.ids, NEW v \in 0 .. c.maxVersion, NEW wanted \in SUBSET c.stores,
             Server(c)!ReplaceAssignments(i, v, wanted)
      PROVE  Overlapping(c)'
  <2> DEFINE row == [Server(c)!Row(i) EXCEPT !.stores = wanted]
             now == Server(c)!Row(i)
  <2>1. /\ Server(c)!Exists(i) /\ Server(c)!Renew(i, row) /\ UNCHANGED pending
        /\ now.status = "ACTIVE"
    BY <1>6 DEF Server!ReplaceAssignments
  <2>2. now \in Profiles(c)
    BY <2>1, RowThere
  <2>3. /\ row \in Profiles(c) /\ row.name = now.name /\ row.role = now.role
        /\ row.store = now.store
    BY <2>2 DEF Profiles
  <2> HIDE DEF row
  <2> QED BY <1>0, <2>1, <2>3, RenewedClaims
<1>7. ASSUME UNCHANGED <<serverAccount, pending>> PROVE Overlapping(c)'
  BY <1>7 DEF Overlapping, Claims, HasActive, Making
<1>8. ASSUME NEW t \in c.sessions,
             \/ Server(c)!RevokeSession(t)
             \/ \E i \in c.ids : Server(c)!CreateSession(t, i)
      PROVE  Overlapping(c)'
  BY <1>7, <1>8 DEF Server!RevokeSession, Server!CreateSession
<1>9. ASSUME NEW g \in c.groups,
             \/ Server(c)!CreateGroup(g)
             \/ \E v \in 0 .. c.maxVersion, status \in {"ACTIVE", "INACTIVE"} :
                   Server(c)!UpdateGroup(g, v, status)
      PROVE  Overlapping(c)'
  BY <1>7, <1>9 DEF Server!CreateGroup, Server!UpdateGroup
<1>10. ASSUME NEW s \in c.stores, NEW g \in c.groups,
              \/ Server(c)!CreateStore(s, g)
              \/ \E v \in 0 .. c.maxVersion, status \in {"ACTIVE", "INACTIVE"} :
                    Server(c)!UpdateStore(s, v, status, g)
       PROVE  Overlapping(c)'
  BY <1>7, <1>10 DEF Server!CreateStore, Server!UpdateStore
<1>11. CASE UNCHANGED Server(c)!vars
  BY <1>7, <1>11 DEF Server!vars
<1> QED
  BY <1>1, <1>2, <1>3, <1>4, <1>5, <1>6, <1>8, <1>9, <1>10, <1>11 DEF Server!Next

\* However the handlers of the in-memory server overlap, a name and a store have
\* no more active accounts than there were commands in progress at once
\* (createAccount looks, awaits a hash and writes without looking again). With
\* one command at a time that is one account.
THEOREM ActiveAsOverlapping ==
    ASSUME NEW CONSTANT c, Server(c)!MemoryAccountBounds
    PROVE  Server(c)!Spec => []Server(c)!AsManyAsOverlap
<1>1. AccountBounds(c)
  BY AccountBoundsHold
<1>2. Server(c)!Init => Overlapping(c)
  <2> SUFFICES ASSUME Server(c)!Init, NEW k \in Keys(c)
               PROVE  IsFiniteSet(Claims(c, k)) /\ Cardinality(Claims(c, k)) <= c.maxInFlight
    BY DEF Overlapping
  <2>1. pending = {} /\ serverAccount = [i \in c.ids |-> {}]
    BY DEF Server!Init, Server!None
  <2>2. Claims(c, k) = {}
    BY <2>1 DEF Claims, HasActive, Making
  <2> QED BY <1>1, <2>2, FS_EmptySet DEF AccountBounds
<1>3. AccountsInv(c) /\ Overlapping(c) /\ [Server(c)!Next]_(Server(c)!vars) => Overlapping(c)'
  BY <1>1, OverlappingNext
<1>4. Overlapping(c) => Server(c)!AsManyAsOverlap
  <2> SUFFICES ASSUME Overlapping(c) PROVE Server(c)!AsManyAsOverlap
    OBVIOUS
  <2>1. ASSUME NEW name \in c.names PROVE Cardinality(Server(c)!Claiming(name)) <= c.maxInFlight
    <3> DEFINE k == <<"name", name>>
    <3>1. k \in Keys(c) /\ k[1] = "name" /\ k[2] = name
      BY DEF Keys
    <3> HIDE DEF k
    <3>2. Server(c)!Claiming(name) = Claims(c, k)
      BY <3>1 DEF Server!Claiming, Server!ActiveAs, Claims, HasActive, Making, Takes
    <3> QED BY <3>1, <3>2 DEF Overlapping
  <2>2. ASSUME NEW s \in c.stores PROVE Cardinality(Server(c)!Serving(s)) <= c.maxInFlight
    <3> DEFINE k == <<"store", s>>
    <3>1. k \in Keys(c) /\ k[1] # "name" /\ k[2] = s
      BY DEF Keys
    <3> HIDE DEF k
    <3>2. Server(c)!Serving(s) = Claims(c, k)
      BY <3>1 DEF Server!Serving, Server!Keeps, Claims, HasActive, Making, Takes
    <3> QED BY <3>1, <3>2 DEF Overlapping
  <2> QED BY <2>1, <2>2, ServerCardinality DEF Server!AsManyAsOverlap
<1>5. Server(c)!Spec => []AccountsInv(c)
  BY AccountsTyped
<1> QED BY <1>2, <1>3, <1>4, <1>5, PTL DEF Server!Spec

-----------------------------------------------------------------------------
(* What a session reaches.                                                 *)

\* What one session row reaches.
Reach(c, r) ==
    IF \E a \in serverAccount[r.account] :
          ~r.revoked /\ a.version = r.version /\ a.status = "ACTIVE"
    THEN IF Server(c)!Row(r.account).role = "STORE" THEN {Server(c)!Row(r.account).store}
         ELSE Server(c)!Row(r.account).stores
    ELSE {}

\* A session that is open has one row.
LEMMA SessionReaches ==
    ASSUME NEW CONSTANT c, TokensTyped(c), NEW t \in c.sessions, session[t] # {}
    PROVE  \E r \in session[t] :
              session[t] = {r} /\ r \in Tokens(c) /\ Server(c)!ResolvesTo(t) = Reach(c, r)
<1>1. PICK r \in session[t] : session[t] = {r} /\ r \in Tokens(c)
  BY DEF TokensTyped
<1>2. Server(c)!ResolvesTo(t) = UNION {Reach(c, w) : w \in session[t]}
  BY DEF Server!ResolvesTo, Reach
<1>3. UNION {Reach(c, w) : w \in session[t]} = Reach(c, r)
  BY <1>1
<1> QED BY <1>1, <1>2, <1>3

\* A row that is revoked, or whose account stays, goes on to what it reached or to
\* nothing.
LEMMA SessionStays ==
    ASSUME NEW CONSTANT c, AccountsInv(c), AccountsInv(c)',
           NEW t \in c.sessions, session[t] # {}, session'[t] # {},
           \A r \in session'[t] :
              \/ r.revoked
              \/ r \in session[t] /\ serverAccount'[r.account] = serverAccount[r.account]
    PROVE  Server(c)!ResolvesTo(t)' \in {Server(c)!ResolvesTo(t), {}}
<1>1. TokensTyped(c) /\ TokensTyped(c)'
  BY DEF AccountsInv
<1>2. PICK q \in session[t] : session[t] = {q} /\ Server(c)!ResolvesTo(t) = Reach(c, q)
  BY <1>1, SessionReaches
<1>3. PICK r \in session'[t] : session'[t] = {r} /\ r \in Tokens(c)
  BY <1>1 DEF TokensTyped
<1>4. Server(c)!ResolvesTo(t)' = Reach(c, r)'
  <2>1. Server(c)!ResolvesTo(t)' = UNION {Reach(c, w)' : w \in session'[t]}
    BY DEF Server!ResolvesTo, Reach
  <2> QED BY <1>3, <2>1
<1>5. CASE r.revoked
  <2>1. Reach(c, r)' = {}
    BY <1>5 DEF Reach
  <2> QED BY <1>4, <2>1
<1>6. CASE r \in session[t] /\ serverAccount'[r.account] = serverAccount[r.account]
  <2>1. r = q
    BY <1>2, <1>6
  <2>2. Reach(c, r)' = Reach(c, r)
    BY <1>6 DEF Reach, Server!Row
  <2> QED BY <1>2, <1>4, <2>1, <2>2
<1> QED BY <1>3, <1>5, <1>6

LEMMA RenewalEnds ==
    ASSUME NEW CONSTANT c, AccountsInv(c), AccountsInv(c)', NEW i \in c.ids,
           Server(c)!Exists(i), NEW row \in Profiles(c), Server(c)!Renew(i, row)
    PROVE  Server(c)!ScopeOfASessionIsFixed
<1> SUFFICES ASSUME NEW t \in c.sessions, session[t] # {}, session'[t] # {}
             PROVE  Server(c)!ResolvesTo(t)' \in {Server(c)!ResolvesTo(t), {}}
  BY DEF Server!ScopeOfASessionIsFixed, Server!None
<1>1. PICK a \in Profiles(c) : RenewedTo(c, i, row, a)
  BY Renewed
<1>2. ASSUME NEW r \in session'[t], ~r.revoked
      PROVE  r \in session[t] /\ serverAccount'[r.account] = serverAccount[r.account]
  <2>1. r.account # i /\ r \in session[t]
    BY <1>1, <1>2 DEF RenewedTo
  <2>2. r.account \in c.ids
    BY <2>1 DEF AccountsInv, TokensTyped, Tokens
  <2> QED BY <1>1, <2>1, <2>2 DEF RenewedTo
<1> QED BY <1>2, SessionStays

\* A session never goes on with what its account came to reach later: it reaches
\* what it reached when it began, or nothing.
THEOREM SessionsKeepTheirScope ==
    ASSUME NEW CONSTANT c, Server(c)!MemoryAccountBounds
    PROVE  Server(c)!Spec => [][Server(c)!ScopeOfASessionIsFixed]_(Server(c)!vars)
<1>1. AccountBounds(c)
  BY AccountBoundsHold
<1>2. ASSUME AccountsInv(c), Server(c)!Next
      PROVE  Server(c)!ScopeOfASessionIsFixed
  <2>1. AccountsInv(c)'
    BY <1>1, <1>2, AccountsNext
  <2>2. ASSUME UNCHANGED serverAccount,
               \A t \in c.sessions : session[t] # {} =>
                  \A r \in session'[t] : r.revoked \/ r \in session[t]
        PROVE  Server(c)!ScopeOfASessionIsFixed
    BY <1>2, <2>1, <2>2, SessionStays DEF Server!ScopeOfASessionIsFixed, Server!None
  <2>3. ASSUME UNCHANGED <<serverAccount, session>>
        PROVE  Server(c)!ScopeOfASessionIsFixed
    BY <2>2, <2>3
  <2>4. ASSUME NEW i \in c.ids, NEW name \in c.names, NEW role \in Server(c)!Roles,
               NEW s \in c.stores, Server(c)!BeginCreate(i, name, role, s)
        PROVE  Server(c)!ScopeOfASessionIsFixed
    BY <2>3, <2>4 DEF Server!BeginCreate
  <2>5. ASSUME NEW x \in pending, Server(c)!FinishCreate(x)
        PROVE  Server(c)!ScopeOfASessionIsFixed
    <3>1. /\ serverAccount' = [serverAccount EXCEPT ![x.id] = {x.row}] /\ UNCHANGED session
          /\ serverAccount[x.id] = {}
      BY <1>2, <2>5 DEF Server!FinishCreate, AccountsInv, HandlersTyped
    <3>2. ASSUME NEW t \in c.sessions, NEW r \in session[t]
          PROVE  serverAccount'[r.account] = serverAccount[r.account]
      <4>1. r.account \in c.ids /\ r.account # x.id
        BY <1>2, <3>1 DEF AccountsInv, TokensTyped, Tokens
      <4> QED BY <1>2, <3>1, <4>1 DEF AccountsInv, ProfilesTyped
    <3> QED BY <1>2, <2>1, <3>1, <3>2, SessionStays
            DEF Server!ScopeOfASessionIsFixed, Server!None
  <2>6. ASSUME NEW x \in pending, Server(c)!FinishReset(x)
        PROVE  Server(c)!ScopeOfASessionIsFixed
    <3>1. /\ x.id \in c.ids /\ serverAccount[x.id] # {}
          /\ Server(c)!Renew(x.id, Server(c)!Row(x.id))
      BY <1>2, <2>6 DEF Server!FinishReset, AccountsInv, HandlersTyped
    <3>2. Server(c)!Exists(x.id)
      BY <3>1 DEF Server!Exists, Server!None
    <3>3. PICK i \in c.ids, row \in Profiles(c) : i = x.id /\ row = Server(c)!Row(i)
      BY <1>2, <3>1, <3>2, RowThere
    <3>4. Server(c)!Exists(i) /\ Server(c)!Renew(i, row)
      BY <3>1, <3>2, <3>3
    <3> QED BY <1>2, <2>1, <3>4, RenewalEnds
  <2>7. ASSUME NEW i \in c.ids, NEW v \in 0 .. c.maxVersion,
               NEW status \in {"ACTIVE", "LOCKED"}, Server(c)!SetStatus(i, v, status)
        PROVE  Server(c)!ScopeOfASessionIsFixed
    <3> DEFINE row == [Server(c)!Row(i) EXCEPT !.status = status]
    <3>1. Server(c)!Exists(i) /\ Server(c)!Renew(i, row)
      BY <2>7 DEF Server!SetStatus
    <3>2. Server(c)!Row(i) \in Profiles(c)
      BY <1>2, <3>1, RowThere
    <3>3. row \in Profiles(c)
      BY <3>2 DEF Profiles
    <3> QED BY <1>2, <2>1, <3>1, <3>3, RenewalEnds
  <2>8. ASSUME NEW i \in c.ids, NEW v \in 0 .. c.maxVersion, Server(c)!BeginReset(i, v)
        PROVE  Server(c)!ScopeOfASessionIsFixed
    BY <2>3, <2>8 DEF Server!BeginReset
  <2>9. ASSUME NEW i \in c.ids, NEW v \in 0 .. c.maxVersion, NEW wanted \in SUBSET c.stores,
               Server(c)!ReplaceAssignments(i, v, wanted)
        PROVE  Server(c)!ScopeOfASessionIsFixed
    <3> DEFINE row == [Server(c)!Row(i) EXCEPT !.stores = wanted]
    <3>1. Server(c)!Exists(i) /\ Server(c)!Renew(i, row)
      BY <2>9 DEF Server!ReplaceAssignments
    <3>2. Server(c)!Row(i) \in Profiles(c)
      BY <1>2, <3>1, RowThere
    <3>3. row \in Profiles(c)
      BY <3>2 DEF Profiles
    <3> QED BY <1>2, <2>1, <3>1, <3>3, RenewalEnds
  <2>10. ASSUME NEW t \in c.sessions, Server(c)!RevokeSession(t)
         PROVE  Server(c)!ScopeOfASessionIsFixed
    <3>1. /\ UNCHANGED serverAccount
          /\ session' = [session EXCEPT ![t] = {[r EXCEPT !.revoked = TRUE] : r \in session[t]}]
      BY <2>10 DEF Server!RevokeSession
    <3>2. ASSUME NEW r \in Tokens(c) PROVE [r EXCEPT !.revoked = TRUE].revoked
      BY DEF Tokens
    <3> DEFINE over(r) == [r EXCEPT !.revoked = TRUE]
    <3>3. \A r \in Tokens(c) : over(r).revoked
      BY <3>2
    <3>4. session' = [session EXCEPT ![t] = {over(r) : r \in session[t]}]
      BY <3>1
    <3>5. session \in [c.sessions -> SUBSET Tokens(c)]
      BY <1>2 DEF AccountsInv, TokensTyped
    <3> HIDE DEF over
    <3>6. \A w \in c.sessions :
             session'[w] = IF w = t THEN {over(r) : r \in session[t]} ELSE session[w]
      BY <3>4, <3>5
    <3>7. ASSUME NEW w \in c.sessions, NEW r \in session'[w], r \notin session[w]
          PROVE  r.revoked
      <4>1. PICK q \in session[t] : r = over(q)
        BY <3>6, <3>7
      <4>2. q \in Tokens(c)
        BY <3>5
      <4> QED BY <3>3, <4>1, <4>2
    <3>8. UNCHANGED serverAccount
      BY <3>1
    <3> QED BY <2>2, <3>7, <3>8
  <2>11. ASSUME NEW t \in c.sessions, NEW i \in c.ids, Server(c)!CreateSession(t, i)
         PROVE  Server(c)!ScopeOfASessionIsFixed
    <3> DEFINE new == [account |-> i, version |-> Server(c)!Row(i).version, revoked |-> FALSE]
    <3>1. /\ UNCHANGED serverAccount /\ session[t] = {}
          /\ \A w \in c.sessions : w # t => session'[w] = session[w]
      <4>1. /\ UNCHANGED serverAccount /\ session[t] = {}
            /\ session' = [session EXCEPT ![t] = {new}]
        BY <2>11 DEF Server!CreateSession, Server!None
      <4>2. session \in [c.sessions -> SUBSET Tokens(c)]
        BY <1>2 DEF AccountsInv, TokensTyped
      <4> HIDE DEF new
      <4> QED BY <4>1, <4>2
    <3> QED BY <2>2, <3>1
  <2>12. ASSUME NEW g \in c.groups,
                \/ Server(c)!CreateGroup(g)
                \/ \E v \in 0 .. c.maxVersion, status \in {"ACTIVE", "INACTIVE"} :
                      Server(c)!UpdateGroup(g, v, status)
         PROVE  Server(c)!ScopeOfASessionIsFixed
    BY <2>3, <2>12 DEF Server!CreateGroup, Server!UpdateGroup
  <2>13. ASSUME NEW s \in c.stores, NEW g \in c.groups,
                \/ Server(c)!CreateStore(s, g)
                \/ \E v \in 0 .. c.maxVersion, status \in {"ACTIVE", "INACTIVE"} :
                      Server(c)!UpdateStore(s, v, status, g)
         PROVE  Server(c)!ScopeOfASessionIsFixed
    BY <2>3, <2>13 DEF Server!CreateStore, Server!UpdateStore
  <2> QED
    BY <1>2, <2>4, <2>5, <2>6, <2>7, <2>8, <2>9, <2>10, <2>11, <2>12, <2>13 DEF Server!Next
<1>3. Server(c)!Spec => []AccountsInv(c)
  BY AccountsTyped
<1>4. Server(c)!Spec => [][Server(c)!Next]_(Server(c)!vars)
  BY PTL DEF Server!Spec
<1>5. AccountsInv(c) /\ [Server(c)!Next]_(Server(c)!vars)
         => [Server(c)!ScopeOfASessionIsFixed]_(Server(c)!vars)
  BY <1>2
<1> QED BY <1>3, <1>4, <1>5, PTL

-----------------------------------------------------------------------------
(* The order requests of the in-memory server.                             *)

\* MemoryOrders with the constants that c names.
Orders(c) == INSTANCE MemoryOrders WITH
    Stores <- c.stores, Rows <- c.rows, Requests <- c.requests, Days <- c.days,
    DayLength <- c.dayLength, Openings <- c.openings,
    SnapshotHour <- c.snapshotHour, CutoffHour <- c.cutoffHour,
    Quota <- c.quota, now <- orderClock, session <- serverSession,
    request <- serverRequest

\* The instances count as FiniteSets does.
LEMMA OrderCardinality ==
    ASSUME NEW CONSTANT c, NEW S
    PROVE  /\ Orders(c)!Cardinality(S) = Cardinality(S)
           /\ Orders(c)!Promise!Cardinality(S) = Cardinality(S)
           /\ Orders(c)!IsFiniteSet(S) = IsFiniteSet(S)
BY DEF Cardinality, Orders!Cardinality, Orders!Promise!Cardinality, IsFiniteSet,
   Orders!IsFiniteSet

OrderBounds(c) ==
    /\ c.days \in Nat \ {0} /\ c.dayLength \in Nat /\ c.quota \in {1, 2}
    /\ IsFiniteSet(c.requests)
    /\ c.openings \subseteq 0 .. c.days * c.dayLength
    /\ c.snapshotHour \in Nat /\ c.cutoffHour \in Nat
    /\ c.snapshotHour < c.cutoffHour /\ c.cutoffHour < c.dayLength

LEMMA OrderBoundsHold ==
    ASSUME NEW CONSTANT c, Orders(c)!MemoryOrderBounds PROVE OrderBounds(c)
BY OrderCardinality DEF Orders!MemoryOrderBounds, OrderBounds

Instants(c) == 0 .. c.days * c.dayLength
SessionRows(c) ==
    [status : {"none", "SCHEDULED", "OPEN", "CLOSED", "CANCELLED"},
     kind : {"MANUAL", "DEFAULT"}, date : 0 .. c.days,
     opens : Instants(c), closes : Instants(c)]
Submissions(c) ==
    [status : {"SUBMITTED", "CANCELLED"}, store : c.stores, session : c.rows,
     number : 1 .. c.quota]

OrdersTyped(c) ==
    /\ orderClock \in Instants(c)
    /\ serverSession \in [c.rows -> SessionRows(c)]
    /\ serverRequest \in [c.requests -> {[status |-> "none"]} \cup Submissions(c)]

OrdersInv(c) ==
    /\ OrdersTyped(c) /\ Orders(c)!NumbersDiffer /\ Orders(c)!WaitsInLiveSession
    /\ Orders(c)!OneDefaultPerDate

\* The hours of the days are instants.
LEMMA HoursAreInstants ==
    ASSUME NEW CONSTANT c, OrderBounds(c), NEW d \in 1 .. c.days,
           NEW h \in 0 .. c.dayLength - 1
    PROVE  Orders(c)!At(d, h) \in Instants(c)
<1> DEFINE n == c.days
           l == c.dayLength
<1>1. n \in Nat /\ l \in Nat /\ d \in Nat /\ h \in Nat /\ d - 1 \in Nat /\ n - d \in Nat
  BY DEF OrderBounds
<1>2. h <= l /\ 0 <= h
  BY <1>1
<1>3. (d - 1) * l \in Nat /\ (n - d) * l \in Nat /\ n * l \in Nat
  BY <1>1
<1>4. n * l = (d - 1) * l + l + (n - d) * l
  BY <1>1
<1> HIDE DEF n, l
<1>5. (d - 1) * l + h \in 0 .. n * l
  BY <1>1, <1>2, <1>3, <1>4
<1> QED BY <1>5 DEF Orders!At, Instants, n, l

LEMMA OrdersInit ==
    ASSUME NEW CONSTANT c, OrderBounds(c), Orders(c)!Init
    PROVE  OrdersInv(c)
<1>1. PICK seeded \in c.rows : serverSession =
          [n \in c.rows |-> IF n = seeded THEN Orders(c)!Seed ELSE Orders(c)!Absent]
  BY DEF Orders!Init
<1>2. /\ orderClock = 0 /\ serverRequest = [r \in c.requests |-> [status |-> "none"]]
  BY DEF Orders!Init
<1>3. Orders(c)!At(1, c.dayLength - 1) \in Instants(c)
  <2>1. 1 \in 1 .. c.days /\ c.dayLength - 1 \in 0 .. c.dayLength - 1
    BY DEF OrderBounds
  <2> QED BY <2>1, HoursAreInstants
<1>4. c.dayLength - 1 \in Instants(c) /\ 0 \in Instants(c)
  <2>1. Orders(c)!At(1, c.dayLength - 1) = c.dayLength - 1
    BY DEF Orders!At, OrderBounds
  <2>2. c.days * c.dayLength \in Nat
    BY DEF OrderBounds
  <2> QED BY <1>3, <2>1, <2>2 DEF Instants
<1>5. Orders(c)!Seed \in SessionRows(c) /\ Orders(c)!Absent \in SessionRows(c)
  BY <1>4 DEF Orders!Seed, Orders!Absent, SessionRows, OrderBounds
<1>6. OrdersTyped(c)
  BY <1>1, <1>2, <1>4, <1>5 DEF OrdersTyped
<1>7. \A r \in c.requests : serverRequest[r].status # "SUBMITTED"
  BY <1>2
<1>8. \A n \in c.rows : serverSession[n].kind = "DEFAULT" => n = seeded
  BY <1>1 DEF Orders!Absent
<1> QED BY <1>6, <1>7, <1>8 DEF OrdersInv, Orders!NumbersDiffer, Orders!WaitsInLiveSession,
              Orders!OneDefaultPerDate

-----------------------------------------------------------------------------
(* The steps of sessions and requests.                                     *)

\* What a step about sessions does: rows that exist stay what they are, and a
\* default session is only made for a date that has none.
SessionStep(c) ==
    /\ serverSession' \in [c.rows -> SessionRows(c)]
    /\ \A n \in c.rows :
          serverSession[n].status \in {"OPEN", "CLOSED"} =>
             serverSession'[n].status \in {"OPEN", "CLOSED"}
    /\ Orders(c)!OneDefaultPerDate'
    /\ UNCHANGED <<orderClock, serverRequest>>

LEMMA SessionStepKeeps ==
    ASSUME NEW CONSTANT c, OrdersInv(c), SessionStep(c)
    PROVE  OrdersInv(c)' /\ Orders(c)!PromiseStep
<1>1. OrdersTyped(c)'
  BY DEF OrdersInv, OrdersTyped, SessionStep, Instants, SessionRows, Submissions
<1>2. Orders(c)!NumbersDiffer'
  BY DEF OrdersInv, SessionStep, Orders!NumbersDiffer
<1>3. Orders(c)!WaitsInLiveSession'
  <2> SUFFICES ASSUME NEW r \in c.requests, serverRequest[r].status = "SUBMITTED"
               PROVE  serverSession'[serverRequest[r].session].status \in {"OPEN", "CLOSED"}
    BY DEF Orders!WaitsInLiveSession, SessionStep
  <2>1. serverRequest[r] \in Submissions(c)
    BY DEF OrdersInv, OrdersTyped
  <2>2. serverRequest[r].session \in c.rows
    BY <2>1 DEF Submissions
  <2>3. serverSession[serverRequest[r].session].status \in {"OPEN", "CLOSED"}
    BY DEF OrdersInv, Orders!WaitsInLiveSession
  <2> QED BY <2>2, <2>3 DEF SessionStep
<1>4. Orders(c)!PromiseStep
  BY DEF SessionStep, Orders!PromiseStep, Orders!LiveSlots
<1> QED BY <1>1, <1>2, <1>3, <1>4 DEF OrdersInv, SessionStep

\* One row is written anew, with its date or with a date that has no default yet.
LEMMA SessionRowStep ==
    ASSUME NEW CONSTANT c, OrdersInv(c), NEW n \in c.rows, NEW x \in SessionRows(c),
           NEW old \in [c.rows -> SessionRows(c)],
           \A m \in c.rows : /\ old[m].kind = serverSession[m].kind
                             /\ old[m].date = serverSession[m].date
                             /\ serverSession[m].status \in {"OPEN", "CLOSED"} =>
                                   old[m].status \in {"OPEN", "CLOSED"},
           serverSession' = [old EXCEPT ![n] = x],
           UNCHANGED <<orderClock, serverRequest>>,
           serverSession[n].status \in {"OPEN", "CLOSED"} => x.status \in {"OPEN", "CLOSED"},
           \/ x.kind = "MANUAL"
           \/ x.kind = serverSession[n].kind /\ x.date = serverSession[n].date
           \/ \A m \in c.rows : serverSession[m].kind = "DEFAULT" =>
                                   serverSession[m].date # x.date
    PROVE  SessionStep(c)
<1>1. \A m \in c.rows : serverSession'[m] = IF m = n THEN x ELSE old[m]
  OBVIOUS
<1>2. serverSession' \in [c.rows -> SessionRows(c)]
  OBVIOUS
<1>3. \A m \in c.rows : serverSession[m].status \in {"OPEN", "CLOSED"} =>
                           serverSession'[m].status \in {"OPEN", "CLOSED"}
  BY <1>1
<1>4. \A k, m \in c.rows :
          k # m /\ serverSession[k].kind = "DEFAULT" /\ serverSession[m].kind = "DEFAULT"
          => serverSession[k].date # serverSession[m].date
  BY DEF OrdersInv, Orders!OneDefaultPerDate
<1>5. Orders(c)!OneDefaultPerDate'
  <2> SUFFICES ASSUME NEW k \in c.rows, NEW m \in c.rows, k # m,
                      serverSession'[k].kind = "DEFAULT", serverSession'[m].kind = "DEFAULT"
               PROVE  serverSession'[k].date # serverSession'[m].date
    BY DEF Orders!OneDefaultPerDate
  <2>1. CASE k = n
    BY <1>1, <1>4, <2>1
  <2>2. CASE m = n
    BY <1>1, <1>4, <2>2
  <2>3. CASE k # n /\ m # n
    BY <1>1, <1>4, <2>3
  <2> QED BY <2>1, <2>2, <2>3
<1> QED BY <1>2, <1>3, <1>5 DEF SessionStep

LEMMA DueOpened ==
    ASSUME NEW CONSTANT c, OrdersInv(c)
    PROVE  /\ Orders(c)!OpenedDue \in [c.rows -> SessionRows(c)]
           /\ \A m \in c.rows :
                 /\ Orders(c)!OpenedDue[m].kind = serverSession[m].kind
                 /\ Orders(c)!OpenedDue[m].date = serverSession[m].date
                 /\ Orders(c)!OpenedDue[m].status = serverSession[m].status
                    \/ Orders(c)!OpenedDue[m].status = "OPEN"
<1>1. serverSession \in [c.rows -> SessionRows(c)]
  BY DEF OrdersInv, OrdersTyped
<1> DEFINE due == Orders(c)!OpenedDue
<1>2. due = [m \in c.rows |->
          IF serverSession[m].status = "SCHEDULED" /\ Orders(c)!InWindow(serverSession[m])
          THEN [serverSession[m] EXCEPT !.status = "OPEN"] ELSE serverSession[m]]
  BY DEF Orders!OpenedDue
<1> HIDE DEF due
<1>3. ASSUME NEW m \in c.rows
      PROVE  /\ due[m] \in SessionRows(c) /\ due[m].kind = serverSession[m].kind
             /\ due[m].date = serverSession[m].date
             /\ due[m].status = serverSession[m].status \/ due[m].status = "OPEN"
  <2>1. serverSession[m] \in SessionRows(c)
    BY <1>1
  <2> DEFINE x == [serverSession[m] EXCEPT !.status = "OPEN"]
  <2>2. /\ x \in SessionRows(c) /\ x.kind = serverSession[m].kind
        /\ x.date = serverSession[m].date /\ x.status = "OPEN"
    BY <2>1 DEF SessionRows
  <2>3. due[m] = x \/ due[m] = serverSession[m]
    BY <1>2
  <2> HIDE DEF x
  <2> QED BY <2>1, <2>2, <2>3
<1> QED BY <1>2, <1>3 DEF due

LEMMA PrepareStep ==
    ASSUME NEW CONSTANT c, OrderBounds(c), OrdersInv(c), Orders(c)!Prepare
    PROVE  SessionStep(c)
<1> DEFINE old == Orders(c)!OpenedDue
<1>1. /\ old \in [c.rows -> SessionRows(c)]
      /\ \A m \in c.rows : /\ old[m].kind = serverSession[m].kind
                           /\ old[m].date = serverSession[m].date
                           /\ old[m].status = serverSession[m].status \/ old[m].status = "OPEN"
  BY DueOpened
<1>2. UNCHANGED <<orderClock, serverRequest>>
  BY DEF Orders!Prepare
<1>3. CASE serverSession' = old
  <2>1. Orders(c)!OneDefaultPerDate'
    BY <1>1, <1>3 DEF OrdersInv, Orders!OneDefaultPerDate
  <2>2. \A m \in c.rows : serverSession[m].status \in {"OPEN", "CLOSED"} =>
                             serverSession'[m].status \in {"OPEN", "CLOSED"}
    BY <1>1, <1>3
  <2> QED BY <1>1, <1>2, <1>3, <2>1, <2>2 DEF SessionStep
<1>4. ASSUME NEW d \in Orders(c)!FirstWindow .. c.days, Orders(c)!Usable(d), NEW n \in c.rows,
             n \in Orders(c)!DefaultsOf(d),
             serverSession' = [old EXCEPT ![n].status = "OPEN", ![n].opens = orderClock]
      PROVE  SessionStep(c)
  <2> DEFINE x == [old[n] EXCEPT !.status = "OPEN", !.opens = orderClock]
  <2>1. old[n] \in SessionRows(c) /\ orderClock \in Instants(c)
    BY <1>1 DEF OrdersInv, OrdersTyped
  <2>2. /\ x \in SessionRows(c) /\ x.kind = old[n].kind /\ x.date = old[n].date
        /\ x.status = "OPEN"
    BY <2>1 DEF SessionRows
  <2>3. serverSession' = [old EXCEPT ![n] = x]
    BY <1>1, <1>4
  <2> HIDE DEF x
  <2>4. /\ x.kind = serverSession[n].kind /\ x.date = serverSession[n].date
    BY <1>1, <2>2
  <2> HIDE DEF old
  <2>5. \A m \in c.rows : serverSession[m].status \in {"OPEN", "CLOSED"} =>
                                   old[m].status \in {"OPEN", "CLOSED"}
    BY <1>1
  <2> QED BY <1>1, <1>2, <2>2, <2>3, <2>4, <2>5, SessionRowStep
<1>5. ASSUME NEW d \in Orders(c)!FirstWindow .. c.days, NEW n \in c.rows,
             Orders(c)!DefaultsOf(d) = {}, serverSession[n].status = "none",
             serverSession' = [old EXCEPT ![n] =
                [status |-> "OPEN", kind |-> "DEFAULT", date |-> d,
                 opens |-> Orders(c)!WindowOpens(d), closes |-> Orders(c)!At(d, c.snapshotHour)]]
      PROVE  SessionStep(c)
  <2> DEFINE x == [status |-> "OPEN", kind |-> "DEFAULT", date |-> d,
                 opens |-> Orders(c)!WindowOpens(d), closes |-> Orders(c)!At(d, c.snapshotHour)]
             first == Orders(c)!FirstWindow
  <2>1. first \in Nat \ {0} /\ d \in first .. c.days
    <3>1. orderClock \in Nat /\ c.dayLength \in Nat \ {0}
      BY DEF OrdersInv, OrdersTyped, Instants, OrderBounds
    <3>2. orderClock \div c.dayLength \in Nat
      BY <3>1
    <3> QED BY <1>5, <3>2 DEF Orders!FirstWindow, Orders!Today
  <2>2. d \in 1 .. c.days /\ (d # first => d - 1 \in 1 .. c.days)
    BY <2>1 DEF OrderBounds
  <2>3. c.snapshotHour \in 0 .. c.dayLength - 1 /\ c.cutoffHour \in 0 .. c.dayLength - 1
    BY DEF OrderBounds
  <2>4. Orders(c)!At(d, c.snapshotHour) \in Instants(c)
    BY <2>2, <2>3, HoursAreInstants
  <2>5. Orders(c)!WindowOpens(d) \in Instants(c)
    <3>1. CASE d = first
      BY <3>1 DEF Orders!WindowOpens, OrdersInv, OrdersTyped
    <3>2. CASE d # first
      <4>1. Orders(c)!At(d - 1, c.cutoffHour) \in Instants(c)
        BY <2>2, <2>3, <3>2, HoursAreInstants
      <4> QED BY <3>2, <4>1 DEF Orders!WindowOpens
    <3> QED BY <3>1, <3>2
  <2>6. x \in SessionRows(c) /\ x.status = "OPEN" /\ x.date = d
    BY <2>2, <2>4, <2>5 DEF SessionRows
  <2>7. \A m \in c.rows : serverSession[m].kind = "DEFAULT" => serverSession[m].date # x.date
    BY <1>5, <2>6 DEF Orders!DefaultsOf
  <2>8. serverSession' = [old EXCEPT ![n] = x]
    BY <1>5
  <2> HIDE DEF x, old
  <2>9. \A m \in c.rows : serverSession[m].status \in {"OPEN", "CLOSED"} =>
                                   old[m].status \in {"OPEN", "CLOSED"}
    BY <1>1
  <2> QED BY <1>1, <1>2, <2>6, <2>7, <2>8, <2>9, SessionRowStep
<1>6. CASE \E n \in c.rows : /\ Orders(c)!OpenedDue[n].status = "OPEN"
                            /\ Orders(c)!InWindow(Orders(c)!OpenedDue[n])
  <2>1. serverSession' = old
    BY <1>6 DEF Orders!Prepare
  <2> QED BY <1>3, <2>1
<1>7. CASE ~ \E n \in c.rows : /\ Orders(c)!OpenedDue[n].status = "OPEN"
                              /\ Orders(c)!InWindow(Orders(c)!OpenedDue[n])
  <2>1. PICK d \in Orders(c)!FirstWindow .. c.days, n \in c.rows :
           /\ Orders(c)!Usable(d)
           /\ IF Orders(c)!DefaultsOf(d) # {}
              THEN /\ n \in Orders(c)!DefaultsOf(d)
                   /\ serverSession' = [old EXCEPT ![n].status = "OPEN", ![n].opens = orderClock]
              ELSE /\ serverSession[n].status = "none"
                   /\ serverSession' = [old EXCEPT ![n] =
                         [status |-> "OPEN", kind |-> "DEFAULT", date |-> d,
                          opens |-> Orders(c)!WindowOpens(d),
                          closes |-> Orders(c)!At(d, c.snapshotHour)]]
    BY <1>7 DEF Orders!Prepare
  <2>2. CASE Orders(c)!DefaultsOf(d) # {}
    BY <1>4, <2>1, <2>2
  <2>3. CASE Orders(c)!DefaultsOf(d) = {}
    BY <1>5, <2>1, <2>3
  <2> QED BY <2>2, <2>3
<1> QED BY <1>6, <1>7

LEMMA CreateManualStep ==
    ASSUME NEW CONSTANT c, OrderBounds(c), OrdersInv(c), NEW n \in c.rows,
           NEW d \in 1 .. c.days, NEW h \in 0 .. c.dayLength - 1, NEW o \in c.openings,
           Orders(c)!CreateManual(n, d, o, h)
    PROVE  SessionStep(c)
<1> DEFINE x == [status |-> "SCHEDULED", kind |-> "MANUAL", date |-> d, opens |-> o,
                 closes |-> Orders(c)!At(d, h)]
<1>1. /\ serverSession' = [serverSession EXCEPT ![n] = x] /\ serverSession[n].status = "none"
      /\ UNCHANGED <<orderClock, serverRequest>>
  BY DEF Orders!CreateManual
<1>2. Orders(c)!At(d, h) \in Instants(c) /\ o \in Instants(c)
  BY HoursAreInstants DEF OrderBounds, Instants
<1>3. x \in SessionRows(c) /\ x.kind = "MANUAL"
  BY <1>2 DEF SessionRows, OrderBounds
<1> HIDE DEF x
<1>4. serverSession \in [c.rows -> SessionRows(c)]
  BY DEF OrdersInv, OrdersTyped
<1> QED BY <1>1, <1>3, <1>4, SessionRowStep

LEMMA StatusStep ==
    ASSUME NEW CONSTANT c, OrdersInv(c), NEW n \in c.rows, Orders(c)!Open(n) \/ Orders(c)!Close(n)
    PROVE  SessionStep(c)
<1>1. PICK status \in {"OPEN", "CLOSED"} :
          serverSession' = [serverSession EXCEPT ![n].status = status]
  BY DEF Orders!Open, Orders!Close
<1> DEFINE x == [serverSession[n] EXCEPT !.status = status]
<1>2. serverSession \in [c.rows -> SessionRows(c)] /\ serverSession[n] \in SessionRows(c)
  BY DEF OrdersInv, OrdersTyped
<1>3. /\ x \in SessionRows(c) /\ x.kind = serverSession[n].kind
      /\ x.date = serverSession[n].date /\ x.status = status
  BY <1>2 DEF SessionRows
<1>4. serverSession' = [serverSession EXCEPT ![n] = x]
  BY <1>1, <1>2
<1>5. UNCHANGED <<orderClock, serverRequest>>
  BY DEF Orders!Open, Orders!Close
<1> HIDE DEF x
<1> QED BY <1>2, <1>3, <1>4, <1>5, SessionRowStep

\* The row of a request, none or submitted at some time.
LEMMA RequestRow ==
    ASSUME NEW CONSTANT c, OrdersInv(c), NEW r \in c.requests, serverRequest[r].status # "none"
    PROVE  /\ serverRequest[r] \in Submissions(c) /\ serverRequest[r].session \in c.rows
           /\ serverRequest[r].store \in c.stores /\ serverRequest[r].number \in 1 .. c.quota
<1>1. serverRequest[r] \in {[status |-> "none"]} \cup Submissions(c)
  BY DEF OrdersInv, OrdersTyped
<1>2. serverRequest[r] # [status |-> "none"]
  OBVIOUS
<1>3. serverRequest[r] \in Submissions(c)
  BY <1>1, <1>2
<1> QED BY <1>3 DEF Submissions

Submitted(c) == {r \in c.requests : serverRequest[r].status = "SUBMITTED"}
Slot(r) == <<serverRequest[r].store, serverRequest[r].session, serverRequest[r].number>>

LEMMA SlotsOfSubmitted ==
    ASSUME NEW CONSTANT c
    PROVE  Orders(c)!LiveSlots = {Slot(r) : r \in Submitted(c)}
BY DEF Orders!LiveSlots, Submitted, Slot

LEMMA CancelStep ==
    ASSUME NEW CONSTANT c, OrdersInv(c), NEW n \in c.rows, Orders(c)!Cancel(n)
    PROVE  OrdersInv(c)' /\ Orders(c)!PromiseStep
<1>1. /\ serverSession' = [serverSession EXCEPT ![n].status = "CANCELLED"]
      /\ serverRequest' = [r \in c.requests |->
            IF serverRequest[r].status = "SUBMITTED" /\ serverRequest[r].session = n
            THEN [serverRequest[r] EXCEPT !.status = "CANCELLED"] ELSE serverRequest[r]]
      /\ orderClock' = orderClock
  BY DEF Orders!Cancel, Orders!CancelledWith
<1>2. serverSession \in [c.rows -> SessionRows(c)]
  BY DEF OrdersInv, OrdersTyped
<1>3. ASSUME NEW m \in c.rows
      PROVE  /\ serverSession'[m] \in SessionRows(c)
             /\ serverSession'[m].kind = serverSession[m].kind
             /\ serverSession'[m].date = serverSession[m].date
             /\ m # n => serverSession'[m] = serverSession[m]
  <2> DEFINE x == [serverSession[m] EXCEPT !.status = "CANCELLED"]
  <2>1. serverSession[m] \in SessionRows(c)
    BY <1>2
  <2>2. x \in SessionRows(c) /\ x.kind = serverSession[m].kind /\ x.date = serverSession[m].date
    BY <2>1 DEF SessionRows
  <2>3. serverSession'[m] = IF m = n THEN x ELSE serverSession[m]
    BY <1>1, <1>2
  <2> HIDE DEF x
  <2> QED BY <2>1, <2>2, <2>3
<1>4. ASSUME NEW r \in c.requests
      PROVE  /\ serverRequest'[r] \in {[status |-> "none"]} \cup Submissions(c)
             /\ serverRequest'[r].status = "SUBMITTED" <=>
                   serverRequest[r].status = "SUBMITTED" /\ serverRequest[r].session # n
             /\ serverRequest'[r].status = "SUBMITTED" => serverRequest'[r] = serverRequest[r]
  <2>1. CASE serverRequest[r].status = "SUBMITTED" /\ serverRequest[r].session = n
    <3> DEFINE x == [serverRequest[r] EXCEPT !.status = "CANCELLED"]
    <3>1. serverRequest[r] \in Submissions(c)
      BY <2>1, RequestRow
    <3>2. x \in Submissions(c) /\ x.status = "CANCELLED"
      BY <3>1 DEF Submissions
    <3>3. serverRequest'[r] = x
      BY <1>1, <2>1
    <3> HIDE DEF x
    <3> QED BY <2>1, <3>2, <3>3
  <2>2. CASE ~(serverRequest[r].status = "SUBMITTED" /\ serverRequest[r].session = n)
    <3>1. serverRequest'[r] = serverRequest[r]
      BY <1>1, <2>2
    <3> QED BY <2>2, <3>1 DEF OrdersInv, OrdersTyped
  <2> QED BY <2>1, <2>2
<1>5. OrdersTyped(c)'
  <2>1. serverSession' \in [c.rows -> SessionRows(c)]
    BY <1>1, <1>2, <1>3
  <2>2. serverRequest' \in [c.requests -> {[status |-> "none"]} \cup Submissions(c)]
    BY <1>1, <1>4
  <2> QED BY <1>1, <2>1, <2>2 DEF OrdersInv, OrdersTyped, Instants, SessionRows, Submissions
<1>6. Orders(c)!NumbersDiffer'
  BY <1>4 DEF OrdersInv, Orders!NumbersDiffer
<1>7. Orders(c)!WaitsInLiveSession'
  <2> SUFFICES ASSUME NEW r \in c.requests, serverRequest'[r].status = "SUBMITTED"
               PROVE  serverSession'[serverRequest'[r].session].status \in {"OPEN", "CLOSED"}
    BY DEF Orders!WaitsInLiveSession
  <2>1. /\ serverRequest[r].status = "SUBMITTED" /\ serverRequest[r].session # n
        /\ serverRequest'[r] = serverRequest[r]
    BY <1>4
  <2>2. serverRequest[r].session \in c.rows
    BY <2>1, RequestRow
  <2> QED BY <1>3, <2>1, <2>2 DEF OrdersInv, Orders!WaitsInLiveSession
<1>8. Orders(c)!OneDefaultPerDate'
  BY <1>3 DEF OrdersInv, Orders!OneDefaultPerDate
<1>9. Orders(c)!Promise!EndSession(n)
  <2> DEFINE before == {Slot(r) : r \in Submitted(c)}
             after == {Slot(r)' : r \in Submitted(c)'}
  <2>1. ASSUME NEW x \in after PROVE x \in before /\ x[2] # n
    <3>1. PICK r \in Submitted(c)' : x = Slot(r)'
      OBVIOUS
    <3>2. /\ r \in c.requests /\ r \in Submitted(c) /\ serverRequest[r].session # n
          /\ serverRequest'[r] = serverRequest[r]
      BY <1>4 DEF Submitted
    <3>3. x = Slot(r) /\ x[2] = serverRequest[r].session
      BY <3>1, <3>2 DEF Slot
    <3> QED BY <3>2, <3>3
  <2>2. ASSUME NEW x \in before, x[2] # n PROVE x \in after
    <3>1. PICK r \in Submitted(c) : x = Slot(r)
      OBVIOUS
    <3>2. serverRequest[r].session # n
      BY <2>2, <3>1 DEF Slot
    <3>3. r \in Submitted(c)' /\ Slot(r)' = Slot(r)
      BY <1>4, <3>2 DEF Submitted, Slot
    <3> QED BY <3>1, <3>3
  <2>3. after = {x \in before : x[2] # n}
    BY <2>1, <2>2
  <2>4. Orders(c)!LiveSlots = before /\ Orders(c)!LiveSlots' = after
    BY SlotsOfSubmitted DEF Orders!LiveSlots, Submitted, Slot
  <2> QED BY <2>3, <2>4 DEF Orders!Promise!EndSession
<1>10. Orders(c)!PromiseStep
  BY <1>9 DEF Orders!PromiseStep, Orders!Promise!Next
<1> QED BY <1>5, <1>6, <1>7, <1>8, <1>10 DEF OrdersInv

\* At most Quota requests of a store are live, and there are numbers for them.
LEMMA LiveCount ==
    ASSUME NEW CONSTANT c, OrderBounds(c), OrdersInv(c), NEW st, NEW S \in SUBSET Orders(c)!Live(st)
    PROVE  /\ IsFiniteSet(S) /\ Cardinality(S) <= Cardinality(Orders(c)!Live(st))
           /\ Cardinality(S) \in Nat /\ Cardinality(Orders(c)!Live(st)) \in Nat
<1>1. Orders(c)!Live(st) \in SUBSET c.requests
  BY DEF Orders!Live
<1>2. IsFiniteSet(Orders(c)!Live(st))
  BY <1>1, FS_Subset DEF OrderBounds
<1>3. IsFiniteSet(S) /\ Cardinality(S) <= Cardinality(Orders(c)!Live(st))
  BY <1>2, FS_Subset
<1> QED BY <1>2, <1>3, FS_CardinalityType

LEMMA FreshNumber ==
    ASSUME NEW CONSTANT c, OrderBounds(c), OrdersInv(c), NEW st, NEW n,
           Orders(c)!MayOrder(st, n)
    PROVE  /\ Orders(c)!Sequence(st, n) \in 1 .. c.quota
           /\ \A q \in Orders(c)!LiveIn(st, n) :
                 serverRequest[q].number # Orders(c)!Sequence(st, n)
<1> DEFINE live == Orders(c)!Live(st)
           here == Orders(c)!LiveIn(st, n)
<1>1. Cardinality(live) < c.quota /\ c.quota \in {1, 2}
  BY OrderCardinality DEF Orders!MayOrder, OrderBounds
<1>2. here \subseteq live
  BY DEF Orders!LiveIn
<1>3. CASE \E a \in here : serverRequest[a].number = 1
  <2>1. PICK a \in here : serverRequest[a].number = 1
    BY <1>3
  <2>2. Orders(c)!Sequence(st, n) = 2
    BY <1>3 DEF Orders!Sequence
  <2>3. Cardinality({a}) = 1 /\ Cardinality({a}) <= Cardinality(live)
        /\ Cardinality(live) \in Nat
    BY <1>2, <2>1, LiveCount, FS_Singleton
  <2>4. c.quota = 2
    BY <1>1, <2>3
  <2>5. ASSUME NEW b \in here, serverRequest[b].number = 2 PROVE FALSE
    <3>1. a # b
      BY <2>1, <2>5
    <3>2. Cardinality({a, b}) = 2
      <4>1. {a, b} = {a} \cup {b} /\ b \notin {a}
        BY <3>1
      <4> HIDE DEF here
      <4>2. IsFiniteSet({a}) /\ Cardinality({a}) = 1
        BY FS_Singleton
      <4>3. Cardinality({a} \cup {b}) = Cardinality({a}) + 1
        BY <4>1, <4>2, FS_AddElement
      <4> QED BY <4>1, <4>2, <4>3
    <3>3. Cardinality({a, b}) <= Cardinality(live)
      BY <1>2, <2>1, <2>5, LiveCount
    <3> QED BY <1>1, <2>3, <2>4, <3>2, <3>3
  <2> QED BY <2>2, <2>4, <2>5
<1>4. CASE ~ \E a \in here : serverRequest[a].number = 1
  <2>1. Orders(c)!Sequence(st, n) = 1
    BY <1>4 DEF Orders!Sequence
  <2> QED BY <1>1, <1>4, <2>1
<1> QED BY <1>3, <1>4

\* A slot holds a request of its store.
LEMMA SlotsOfStore ==
    ASSUME NEW CONSTANT c, OrderBounds(c), OrdersInv(c), NEW st
    PROVE  /\ Orders(c)!Promise!Cardinality(Orders(c)!Promise!OfStore(st))
                 <= Cardinality(Orders(c)!Live(st))
           /\ Orders(c)!Promise!Cardinality(Orders(c)!Promise!OfStore(st)) \in Nat
<1> DEFINE live == Orders(c)!Live(st)
           slots == {Slot(r) : r \in live}
           here == Orders(c)!Promise!OfStore(st)
<1>1. IsFiniteSet(live) /\ Cardinality(live) \in Nat
  BY LiveCount
<1>2. here \subseteq slots
  <2> SUFFICES ASSUME NEW x \in here PROVE x \in slots
    OBVIOUS
  <2>1. x \in Orders(c)!LiveSlots /\ x[1] = st
    BY DEF Orders!Promise!OfStore
  <2>2. PICK r \in Submitted(c) : x = Slot(r)
    BY <2>1, SlotsOfSubmitted
  <2>3. serverRequest[r].store = st
    BY <2>1, <2>2 DEF Slot
  <2>4. r \in live
    BY <2>2, <2>3 DEF Submitted, Orders!Live
  <2> QED BY <2>2, <2>4
<1>3. IsFiniteSet(slots) /\ Cardinality(slots) <= Cardinality(live)
  <2> DEFINE f == [r \in live |-> Slot(r)]
  <2> HIDE DEF live
  <2>1. f \in Surjection(live, slots)
    BY DEF Surjection
  <2> QED BY <1>1, <2>1, FS_Surjection
<1> HIDE DEF slots, here, live
<1>4. IsFiniteSet(here) /\ Cardinality(here) <= Cardinality(slots)
  BY <1>2, <1>3, FS_Subset
<1>5. Cardinality(here) \in Nat /\ Cardinality(slots) \in Nat
  BY <1>3, <1>4, FS_CardinalityType
<1>6. Cardinality(here) <= Cardinality(live)
  BY <1>1, <1>3, <1>4, <1>5
<1> QED BY <1>5, <1>6, OrderCardinality DEF here, live

LEMMA SubmitStep ==
    ASSUME NEW CONSTANT c, OrderBounds(c), OrdersInv(c), NEW r \in c.requests,
           NEW st \in c.stores, NEW n \in c.rows, Orders(c)!Submit(r, st, n)
    PROVE  OrdersInv(c)' /\ Orders(c)!PromiseStep
<1> DEFINE k == Orders(c)!Sequence(st, n)
           x == [status |-> "SUBMITTED", store |-> st, session |-> n, number |-> k]
<1>1. /\ serverRequest[r].status = "none" /\ serverSession[n].status = "OPEN"
      /\ Orders(c)!MayOrder(st, n)
      /\ serverRequest' = [serverRequest EXCEPT ![r] = x]
      /\ UNCHANGED <<orderClock, serverSession>>
  BY DEF Orders!Submit
<1>2. /\ k \in 1 .. c.quota
      /\ \A q \in Orders(c)!LiveIn(st, n) : serverRequest[q].number # k
  BY <1>1, FreshNumber
<1> HIDE DEF k
<1>3. x \in Submissions(c)
  BY <1>2 DEF Submissions
<1>4. /\ x.status = "SUBMITTED" /\ x.store = st /\ x.session = n /\ x.number = k
  OBVIOUS
<1> HIDE DEF x
<1>5. serverRequest \in [c.requests -> {[status |-> "none"]} \cup Submissions(c)]
  BY DEF OrdersInv, OrdersTyped
<1>6. \A q \in c.requests : serverRequest'[q] = IF q = r THEN x ELSE serverRequest[q]
  BY <1>1, <1>5
<1>7. OrdersTyped(c)'
  <2>1. serverRequest' \in [c.requests -> {[status |-> "none"]} \cup Submissions(c)]
    BY <1>1, <1>3, <1>5
  <2> QED BY <1>1, <2>1 DEF OrdersInv, OrdersTyped, Instants, SessionRows, Submissions
<1>8. ASSUME NEW q \in c.requests, serverRequest[q].status = "SUBMITTED",
             serverRequest[q].store = st, serverRequest[q].session = n
      PROVE  serverRequest[q].number # k
  BY <1>2, <1>8 DEF Orders!LiveIn, Orders!Live
<1>9. Orders(c)!NumbersDiffer'
  <2> SUFFICES ASSUME NEW p \in c.requests, NEW q \in c.requests, p # q,
                      serverRequest'[p].status = "SUBMITTED", serverRequest'[q].status = "SUBMITTED",
                      serverRequest'[p].store = serverRequest'[q].store,
                      serverRequest'[p].session = serverRequest'[q].session
               PROVE  serverRequest'[p].number # serverRequest'[q].number
    BY DEF Orders!NumbersDiffer
  <2>1. CASE p = r
    BY <1>4, <1>6, <1>8, <2>1
  <2>2. CASE q = r
    BY <1>4, <1>6, <1>8, <2>2
  <2>3. CASE p # r /\ q # r
    BY <1>6, <2>3 DEF OrdersInv, Orders!NumbersDiffer
  <2> QED BY <2>1, <2>2, <2>3
<1>10. Orders(c)!WaitsInLiveSession' /\ Orders(c)!OneDefaultPerDate'
  BY <1>1, <1>4, <1>6 DEF OrdersInv, Orders!WaitsInLiveSession, Orders!OneDefaultPerDate
<1>11. Orders(c)!Promise!Submit(st, n, k)
  <2> DEFINE slot == <<st, n, k>>
             before == {Slot(q) : q \in Submitted(c)}
             after == {Slot(q)' : q \in Submitted(c)'}
  <2>1. Submitted(c)' = Submitted(c) \cup {r} /\ r \notin Submitted(c)
    BY <1>1, <1>4, <1>6 DEF Submitted
  <2>2. Slot(r)' = slot /\ \A q \in Submitted(c) : Slot(q)' = Slot(q)
    BY <1>4, <1>6, <2>1 DEF Submitted, Slot
  <2>3. after = before \cup {slot}
    BY <2>1, <2>2
  <2>4. slot \notin before
    <3> SUFFICES ASSUME NEW q \in Submitted(c), Slot(q) = slot PROVE FALSE
      OBVIOUS
    <3>1. /\ serverRequest[q].store = st /\ serverRequest[q].session = n
          /\ serverRequest[q].number = k
      BY DEF Slot
    <3> QED BY <1>8, <3>1 DEF Submitted
  <2>5. Orders(c)!LiveSlots = before /\ Orders(c)!LiveSlots' = after
    BY SlotsOfSubmitted DEF Orders!LiveSlots, Submitted, Slot
  <2>6. Orders(c)!Promise!Cardinality(Orders(c)!Promise!OfStore(st)) < c.quota
    <3>1. Cardinality(Orders(c)!Live(st)) < c.quota /\ c.quota \in Nat
      BY <1>1, OrderCardinality DEF Orders!MayOrder, OrderBounds
    <3>2. Cardinality(Orders(c)!Live(st)) \in Nat
      BY LiveCount
    <3> QED BY <3>1, <3>2, SlotsOfStore
  <2> QED BY <2>3, <2>4, <2>5, <2>6 DEF Orders!Promise!Submit
<1>12. Orders(c)!PromiseStep
  BY <1>2, <1>11 DEF Orders!PromiseStep, Orders!Promise!Next
<1> QED BY <1>7, <1>9, <1>10, <1>12 DEF OrdersInv

LEMMA CancelRequestStep ==
    ASSUME NEW CONSTANT c, OrdersInv(c), NEW r \in c.requests, Orders(c)!CancelRequest(r)
    PROVE  OrdersInv(c)' /\ Orders(c)!PromiseStep
<1> DEFINE x == [serverRequest[r] EXCEPT !.status = "CANCELLED"]
<1>1. /\ serverRequest[r].status = "SUBMITTED"
      /\ serverRequest' = [serverRequest EXCEPT ![r].status = "CANCELLED"]
      /\ UNCHANGED <<orderClock, serverSession>>
  BY DEF Orders!CancelRequest
<1>2. serverRequest \in [c.requests -> {[status |-> "none"]} \cup Submissions(c)]
  BY DEF OrdersInv, OrdersTyped
<1>3. serverRequest[r] \in Submissions(c)
  BY <1>1, RequestRow
<1>4. x \in Submissions(c) /\ x.status = "CANCELLED"
  BY <1>3 DEF Submissions
<1>5. serverRequest' = [serverRequest EXCEPT ![r] = x]
  BY <1>1, <1>2
<1> HIDE DEF x
<1>6. \A q \in c.requests : serverRequest'[q] = IF q = r THEN x ELSE serverRequest[q]
  BY <1>2, <1>5
<1>7. OrdersTyped(c)'
  <2>1. serverRequest' \in [c.requests -> {[status |-> "none"]} \cup Submissions(c)]
    BY <1>2, <1>4, <1>5
  <2> QED BY <1>1, <2>1 DEF OrdersInv, OrdersTyped, Instants, SessionRows, Submissions
<1>8. Orders(c)!NumbersDiffer' /\ Orders(c)!WaitsInLiveSession' /\ Orders(c)!OneDefaultPerDate'
  BY <1>1, <1>4, <1>6 DEF OrdersInv, Orders!NumbersDiffer, Orders!WaitsInLiveSession,
     Orders!OneDefaultPerDate
<1>9. Orders(c)!LiveSlots' = Orders(c)!LiveSlots \ {Slot(r)} /\ Slot(r) \in Orders(c)!LiveSlots
  <2> DEFINE before == {Slot(q) : q \in Submitted(c)}
             after == {Slot(q)' : q \in Submitted(c)'}
  <2>1. Submitted(c)' = Submitted(c) \ {r} /\ r \in Submitted(c)
    BY <1>1, <1>4, <1>6 DEF Submitted
  <2>2. \A q \in Submitted(c)' : Slot(q)' = Slot(q)
    BY <1>6, <2>1 DEF Submitted, Slot
  <2>3. ASSUME NEW q \in Submitted(c), q # r PROVE Slot(q) # Slot(r)
    <3> SUFFICES ASSUME Slot(q) = Slot(r) PROVE FALSE
      OBVIOUS
    <3>1. /\ serverRequest[q].store = serverRequest[r].store
          /\ serverRequest[q].session = serverRequest[r].session
          /\ serverRequest[q].number = serverRequest[r].number
      BY DEF Slot
    <3> QED BY <2>1, <2>3, <3>1 DEF Submitted, OrdersInv, Orders!NumbersDiffer
  <2>4. after = before \ {Slot(r)}
    BY <2>1, <2>2, <2>3
  <2>5. Orders(c)!LiveSlots = before /\ Orders(c)!LiveSlots' = after
    BY SlotsOfSubmitted DEF Orders!LiveSlots, Submitted, Slot
  <2> QED BY <2>1, <2>4, <2>5
<1>10. Orders(c)!PromiseStep
  BY <1>9 DEF Orders!PromiseStep, Orders!Promise!Next, Orders!Promise!End
<1> QED BY <1>7, <1>8, <1>10 DEF OrdersInv

LEMMA OrdersNext ==
    ASSUME NEW CONSTANT c, OrderBounds(c), OrdersInv(c), [Orders(c)!Next]_(Orders(c)!vars)
    PROVE  OrdersInv(c)' /\ Orders(c)!PromiseStep
<1>1. CASE Orders(c)!Tick
  <2>1. /\ orderClock < c.days * c.dayLength - 1 /\ orderClock' = orderClock + 1
        /\ UNCHANGED <<serverSession, serverRequest>>
    BY <1>1 DEF Orders!Tick
  <2> DEFINE last == c.days * c.dayLength
  <2>2. last \in Nat /\ orderClock \in 0 .. last
    BY DEF OrderBounds, OrdersInv, OrdersTyped, Instants
  <2>3. orderClock < last - 1
    BY <2>1
  <2> HIDE DEF last
  <2>4. orderClock' \in 0 .. last
    BY <2>1, <2>2, <2>3
  <2>5. OrdersTyped(c)'
    BY <2>1, <2>4 DEF OrdersInv, OrdersTyped, Instants, SessionRows, Submissions, last
  <2>6. Orders(c)!NumbersDiffer' /\ Orders(c)!WaitsInLiveSession' /\ Orders(c)!OneDefaultPerDate'
    BY <2>1 DEF OrdersInv, Orders!NumbersDiffer, Orders!WaitsInLiveSession,
       Orders!OneDefaultPerDate
  <2>7. Orders(c)!PromiseStep
    BY <2>1 DEF Orders!PromiseStep, Orders!LiveSlots
  <2> QED BY <2>5, <2>6, <2>7 DEF OrdersInv
<1>2. CASE Orders(c)!Prepare
  BY <1>2, PrepareStep, SessionStepKeeps
<1>3. ASSUME NEW n \in c.rows,
             \/ Orders(c)!Open(n) \/ Orders(c)!Close(n)
             \/ \E d \in 1 .. c.days, h \in 0 .. c.dayLength - 1, o \in c.openings :
                   Orders(c)!CreateManual(n, d, o, h)
      PROVE  OrdersInv(c)' /\ Orders(c)!PromiseStep
  BY <1>3, StatusStep, CreateManualStep, SessionStepKeeps
<1>4. ASSUME NEW n \in c.rows, Orders(c)!Cancel(n)
      PROVE  OrdersInv(c)' /\ Orders(c)!PromiseStep
  BY <1>4, CancelStep
<1>5. ASSUME NEW n \in c.rows, NEW r \in c.requests, NEW st \in c.stores,
             Orders(c)!Submit(r, st, n)
      PROVE  OrdersInv(c)' /\ Orders(c)!PromiseStep
  BY <1>5, SubmitStep
<1>6. ASSUME NEW r \in c.requests, Orders(c)!CancelRequest(r)
      PROVE  OrdersInv(c)' /\ Orders(c)!PromiseStep
  BY <1>6, CancelRequestStep
<1>7. CASE UNCHANGED Orders(c)!vars
  <2>1. UNCHANGED <<orderClock, serverSession, serverRequest>>
    BY <1>7 DEF Orders!vars
  <2> QED BY <2>1 DEF OrdersInv, OrdersTyped, Instants, SessionRows, Submissions,
             Orders!NumbersDiffer, Orders!WaitsInLiveSession, Orders!OneDefaultPerDate,
             Orders!PromiseStep, Orders!LiveSlots
<1> QED BY <1>1, <1>2, <1>3, <1>4, <1>5, <1>6, <1>7 DEF Orders!Next

LEMMA OrdersAlways ==
    ASSUME NEW CONSTANT c, Orders(c)!MemoryOrderBounds
    PROVE  Orders(c)!Spec => []OrdersInv(c) /\ [][Orders(c)!PromiseStep]_(Orders(c)!vars)
<1>1. OrderBounds(c)
  BY OrderBoundsHold
<1>2. Orders(c)!Init => OrdersInv(c)
  BY <1>1, OrdersInit
<1>3. OrdersInv(c) /\ [Orders(c)!Next]_(Orders(c)!vars) => OrdersInv(c)' /\ Orders(c)!PromiseStep
  BY <1>1, OrdersNext
<1> QED BY <1>2, <1>3, PTL DEF Orders!Spec

\* The requests of the in-memory server keep their rows: numbers differ in a
\* session, nothing waits in a cancelled session, a date has one default
\* session (memory-repository.ts).
THEOREM RequestsKeepTheirNumbers ==
    ASSUME NEW CONSTANT c, Orders(c)!MemoryOrderBounds
    PROVE  Orders(c)!Spec => [](/\ Orders(c)!TypeOK /\ Orders(c)!NumbersDiffer
                                /\ Orders(c)!WaitsInLiveSession /\ Orders(c)!OneDefaultPerDate)
<1>1. OrdersInv(c) => Orders(c)!TypeOK
  <2> SUFFICES ASSUME OrdersInv(c) PROVE Orders(c)!TypeOK
    OBVIOUS
  <2>1. serverSession \in [c.rows -> SessionRows(c)]
    BY DEF OrdersInv, OrdersTyped
  <2>2. \A r \in c.requests : serverRequest[r].status # "none" =>
                                 serverRequest[r].number \in 1 .. c.quota
    BY RequestRow
  <2> QED BY <2>1, <2>2 DEF Orders!TypeOK, SessionRows, Instants
<1>2. OrdersInv(c) => /\ Orders(c)!TypeOK /\ Orders(c)!NumbersDiffer
                      /\ Orders(c)!WaitsInLiveSession /\ Orders(c)!OneDefaultPerDate
  BY <1>1 DEF OrdersInv
<1> QED BY <1>2, OrdersAlways, PTL

\* The slots of a store are taken and released as RequestSlots promises: at
\* most Quota live requests in all sessions, each under its own number.
THEOREM OrderingKeepsItsPromise ==
    ASSUME NEW CONSTANT c, Orders(c)!MemoryOrderBounds
    PROVE  Orders(c)!Spec => Orders(c)!PromiseInit /\ [][Orders(c)!PromiseStep]_(Orders(c)!vars)
<1>1. Orders(c)!Init => Orders(c)!PromiseInit
  BY DEF Orders!Init, Orders!PromiseInit, Orders!Promise!Init, Orders!LiveSlots
<1> QED BY <1>1, OrdersAlways, PTL DEF Orders!Spec

-----------------------------------------------------------------------------
(* The figures of the tills.                                               *)

\* TillSync with the constants that c names.
Till(c) == INSTANCE TillSync WITH
    Stores <- c.stores, Managers <- c.managers, LastMonth <- c.lastMonth,
    Interval <- c.interval, MaxStores <- c.maxStores,
    MaxVersion <- c.maxVersion, MaxCrashes <- c.maxCrashes,
    polled <- polledPhase

LEMMA TillCardinality ==
    ASSUME NEW CONSTANT c, NEW S
    PROVE  /\ Till(c)!Cardinality(S) = Cardinality(S)
           /\ Till(c)!IsFiniteSet(S) = IsFiniteSet(S)
BY DEF Cardinality, Till!Cardinality, IsFiniteSet, Till!IsFiniteSet

TillConstants(c) ==
    /\ c.stores \subseteq Nat /\ IsFiniteSet(c.stores)
    /\ c.lastMonth \in Nat /\ c.interval \in Nat \ {0}
    /\ c.maxStores \in Nat \ {0} /\ c.maxVersion \in Nat /\ c.maxCrashes \in Nat

LEMMA TillConstantsHold ==
    ASSUME NEW CONSTANT c, Till(c)!TillSyncAssumption PROVE TillConstants(c)
BY TillCardinality DEF Till!TillSyncAssumption, TillConstants

MonthsOf(c) == 0 .. c.lastMonth
Phases(c) == 0 .. 2 * c.lastMonth + 1
Cells(c, V) == [c.stores -> [MonthsOf(c) -> V]]
Calls(c) ==
    [at : {"asking", "answered", "refused"}, store : c.stores, month : MonthsOf(c),
     version : -1 .. c.maxVersion, since : Phases(c)]
Nobody == [at |-> "none", store |-> 0, month |-> 0, version |-> -1, since |-> 0]

TillTyped(c) ==
    /\ phase \in Phases(c) /\ polledPhase \in BOOLEAN
    /\ till \in Cells(c, 0 .. c.maxVersion)
    /\ closing \in Cells(c, -1 .. c.maxVersion)
    /\ charged \in Cells(c, -1 .. c.maxVersion)
    /\ age \in Cells(c, 0 .. c.interval)
    /\ settled \in Cells(c, -1 .. 2 * c.lastMonth + 1)
    /\ targets \in Seq(c.stores \X MonthsOf(c)) /\ Len(targets) <= c.maxStores
    /\ calls \in [c.managers \cup {"worker"} -> {Nobody} \cup Calls(c)]
    /\ crashes \in 0 .. c.maxCrashes

\* What call x knows: it began in this phase or in the one before, and asked
\* after the month had ended, it was told all that month's figures.
Knows(x) ==
    /\ x.since \in {phase - 1, phase}
    /\ x.at = "answered" /\ x.since >= 2 * x.month + 2 => x.version >= closing[x.store][x.month]

CallsKnow(c) == \A k \in c.managers \cup {"worker"} : calls[k] # Nobody => Knows(calls[k])

\* A month that settled did so by now, and holds what it closed with.
MonthsClosed(c) ==
    \A s \in c.stores, m \in MonthsOf(c) :
        /\ settled[s][m] <= phase /\ closing[s][m] <= till[s][m]
        /\ settled[s][m] >= 2 * m + 3 => charged[s][m] >= closing[s][m]

TillInv(c) == TillTyped(c) /\ CallsKnow(c) /\ MonthsClosed(c)

LEMMA NobodyCalls ==
    ASSUME NEW CONSTANT c PROVE Till(c)!NoCall = Nobody
BY DEF Till!NoCall, Nobody

\* A call under way.
LEMMA CallRow ==
    ASSUME NEW CONSTANT c, TillTyped(c), NEW k \in c.managers \cup {"worker"},
           calls[k] # Nobody \/ calls[k].at # "none"
    PROVE  /\ calls[k] \in Calls(c) /\ calls[k] # Nobody
           /\ calls[k].store \in c.stores /\ calls[k].month \in MonthsOf(c)
           /\ calls[k].version \in -1 .. c.maxVersion /\ calls[k].since \in Phases(c)
<1>1. calls[k] \in {Nobody} \cup Calls(c)
  BY DEF TillTyped
<1>2. Nobody.at = "none"
  BY DEF Nobody
<1>3. calls[k] \in Calls(c) /\ calls[k] # Nobody
  BY <1>1, <1>2
<1> QED BY <1>3 DEF Calls

LEMMA CellWritten ==
    ASSUME NEW S, NEW M, NEW V, NEW f \in [S -> [M -> V]], NEW s \in S, NEW m \in M, NEW x \in V
    PROVE  /\ [f EXCEPT ![s][m] = x] \in [S -> [M -> V]]
           /\ \A t \in S, n \in M :
                 [f EXCEPT ![s][m] = x][t][n] = IF t = s /\ n = m THEN x ELSE f[t][n]
OBVIOUS

LEMMA CellsFilled ==
    ASSUME NEW CONSTANT c, NEW V, NEW x \in V
    PROVE  [s \in c.stores |-> [m \in MonthsOf(c) |-> x]] \in Cells(c, V)
BY DEF Cells

LEMMA TillInit ==
    ASSUME NEW CONSTANT c, TillConstants(c), Till(c)!Init PROVE TillInv(c)
<1>1. /\ phase = 1 /\ polledPhase = FALSE /\ targets = <<>> /\ crashes = 0
      /\ till = [s \in c.stores |-> [m \in MonthsOf(c) |-> 0]]
      /\ closing = [s \in c.stores |-> [m \in MonthsOf(c) |-> -1]]
      /\ charged = [s \in c.stores |-> [m \in MonthsOf(c) |-> -1]]
      /\ age = [s \in c.stores |-> [m \in MonthsOf(c) |-> c.interval]]
      /\ settled = [s \in c.stores |-> [m \in MonthsOf(c) |-> -1]]
  BY DEF Till!Init, Till!Everywhere, Till!Months, MonthsOf
<1>2. calls = [k \in c.managers \cup {"worker"} |-> Nobody]
  BY NobodyCalls DEF Till!Init, Till!Callers, Till!Worker
<1>3. TillTyped(c)
  <2>1. 1 \in Phases(c) /\ 0 \in 0 .. c.maxVersion /\ -1 \in -1 .. c.maxVersion
        /\ c.interval \in 0 .. c.interval /\ -1 \in -1 .. 2 * c.lastMonth + 1
        /\ 0 \in 0 .. c.maxCrashes
    BY DEF TillConstants, Phases
  <2>2. Len(targets) <= c.maxStores
    BY <1>1 DEF TillConstants
  <2>3. calls \in [c.managers \cup {"worker"} -> {Nobody} \cup Calls(c)]
    BY <1>2
  <2>4. /\ till \in Cells(c, 0 .. c.maxVersion)
        /\ closing \in Cells(c, -1 .. c.maxVersion)
        /\ charged \in Cells(c, -1 .. c.maxVersion)
        /\ age \in Cells(c, 0 .. c.interval)
        /\ settled \in Cells(c, -1 .. 2 * c.lastMonth + 1)
    BY <1>1, <2>1, CellsFilled
  <2>5. /\ phase \in Phases(c) /\ polledPhase \in BOOLEAN /\ crashes \in 0 .. c.maxCrashes
        /\ targets \in Seq(c.stores \X MonthsOf(c))
    <3>1. phase = 1 /\ targets = <<>> /\ crashes = 0
      BY <1>1
    <3>2. polledPhase \in BOOLEAN
      BY <1>1
    <3> QED BY <2>1, <3>1, <3>2
  <2> QED BY <2>2, <2>3, <2>4, <2>5 DEF TillTyped
<1>4. CallsKnow(c)
  BY <1>2 DEF CallsKnow
<1>5. MonthsClosed(c)
  BY <1>1 DEF MonthsClosed, MonthsOf
<1> QED BY <1>3, <1>4, <1>5 DEF TillInv

\* Elements told apart by a number are told apart by how many come no later.
Below(D, f, s) == {r \in D : f[r] <= f[s]}
Apart(D, f) == \A r, s \in D : f[r] = f[s] => r = s

LEMMA PlacesDiffer ==
    ASSUME NEW D, IsFiniteSet(D), NEW f, \A d \in D : f[d] \in Nat, Apart(D, f)
    PROVE  /\ \A s \in D : Cardinality(Below(D, f, s)) \in 1 .. Cardinality(D)
           /\ \A r, s \in D :
                 Cardinality(Below(D, f, r)) = Cardinality(Below(D, f, s)) => r = s
<1>1. ASSUME NEW s \in D
      PROVE  /\ Below(D, f, s) \subseteq D /\ s \in Below(D, f, s)
             /\ IsFiniteSet(Below(D, f, s)) /\ Cardinality(Below(D, f, s)) \in Nat
  <2>1. Below(D, f, s) \subseteq D /\ s \in Below(D, f, s)
    BY DEF Below
  <2> QED BY <2>1, FS_Subset, FS_CardinalityType
<1>2. ASSUME NEW s \in D PROVE Cardinality(Below(D, f, s)) \in 1 .. Cardinality(D)
  <2>1. Cardinality(Below(D, f, s)) <= Cardinality(D)
    BY <1>1, FS_Subset
  <2>2. Cardinality(Below(D, f, s)) # 0
    BY <1>1, FS_EmptySet
  <2> QED BY <1>1, <2>1, <2>2, FS_CardinalityType
<1>3. ASSUME NEW r \in D, NEW s \in D, f[r] < f[s],
             Cardinality(Below(D, f, r)) = Cardinality(Below(D, f, s))
      PROVE  FALSE
  <2>1. Below(D, f, r) \subseteq Below(D, f, s)
    BY <1>3 DEF Below
  <2>2. s \in Below(D, f, s) /\ s \notin Below(D, f, r)
    BY <1>3 DEF Below
  <2>3. Below(D, f, r) = Below(D, f, s)
    BY <1>1, <1>3, <2>1, FS_Subset
  <2> QED BY <2>2, <2>3
<1>4. ASSUME NEW r \in D, NEW s \in D,
             Cardinality(Below(D, f, r)) = Cardinality(Below(D, f, s))
      PROVE  r = s
  <2>1. ~(f[r] < f[s]) /\ ~(f[s] < f[r])
    BY <1>3, <1>4
  <2> QED BY <2>1 DEF Apart
<1> QED BY <1>2, <1>4

\* The stores a tick has to ask are stores, and not more than it may ask.
LEMMA FirstOfStores ==
    ASSUME NEW CONSTANT c, TillConstants(c), NEW S \in SUBSET c.stores,
           NEW m \in MonthsOf(c), NEW limit \in Nat
    PROVE  /\ Till(c)!FirstByCode(S, m, limit) \in Seq(c.stores \X MonthsOf(c))
           /\ Len(Till(c)!FirstByCode(S, m, limit)) <= limit
<1> DEFINE n == Cardinality(S)
           codes == [s \in S |-> s]
           rank == [s \in S |-> Cardinality(Below(S, codes, s))]
           count == Till(c)!Lesser(limit, n)
<1>1. IsFiniteSet(S) /\ n \in Nat
  BY FS_Subset, FS_CardinalityType DEF TillConstants
<1>2. /\ \A s \in S : Cardinality(Below(S, codes, s)) \in 1 .. n
      /\ \A r, s \in S :
            Cardinality(Below(S, codes, r)) = Cardinality(Below(S, codes, s)) => r = s
  <2>1. Apart(S, codes)
    BY DEF Apart
  <2>2. \A s \in S : codes[s] \in Nat
    BY DEF TillConstants
  <2> HIDE DEF codes
  <2> QED BY <1>1, <2>1, <2>2, PlacesDiffer
<1>3. \A s \in S : Till(c)!Place(S, s) = Cardinality(Below(S, codes, s))
  <2> SUFFICES ASSUME NEW s \in S PROVE {r \in S : r <= s} = Below(S, codes, s)
    BY TillCardinality DEF Till!Place
  <2> QED BY DEF Below
<1> HIDE DEF codes, n
<1>4. rank \in Injection(S, 1 .. n)
  BY <1>2 DEF Injection, IsInjective
<1>5. IsFiniteSet(1 .. n) /\ Cardinality(1 .. n) = n
  BY <1>1, FS_Interval
<1>6. rank \in Surjection(S, 1 .. n)
  BY <1>1, <1>4, <1>5, FS_Injection DEF n
<1>7. \A i \in 1 .. n : \E s \in S : Till(c)!Place(S, s) = i
  BY <1>3, <1>6 DEF Surjection
<1>8. count \in Nat /\ count <= limit /\ count <= n
  BY <1>1 DEF Till!Lesser
<1> HIDE DEF count, rank
<1> DEFINE first(i) == CHOOSE s \in S : Till(c)!Place(S, s) = i
<1>9. Till(c)!FirstByCode(S, m, limit) = [i \in 1 .. count |-> <<first(i), m>>]
  BY TillCardinality DEF Till!FirstByCode, n, count
<1>10. \A i \in 1 .. count : first(i) \in c.stores
  <2> SUFFICES ASSUME NEW i \in 1 .. count PROVE first(i) \in c.stores
    OBVIOUS
  <2>1. i \in 1 .. n
    BY <1>1, <1>8
  <2>2. \E s \in S : Till(c)!Place(S, s) = i
    BY <1>7, <2>1
  <2> QED BY <2>2
<1> HIDE DEF first
<1>11. Till(c)!FirstByCode(S, m, limit) \in [1 .. count -> c.stores \X MonthsOf(c)]
  BY <1>9, <1>10
<1> QED BY <1>8, <1>11

LEMMA TargetsTyped ==
    ASSUME NEW CONSTANT c, TillConstants(c), TillTyped(c), NEW ages
    PROVE  /\ Till(c)!TickTargets(ages) \in Seq(c.stores \X MonthsOf(c))
           /\ Len(Till(c)!TickTargets(ages)) <= c.maxStores
<1> DEFINE current == Till(c)!ListDue(ages, Till(c)!Month, c.maxStores)
           room == c.maxStores - Len(current)
           more == IF room = 0 \/ Till(c)!Month = 0 THEN <<>>
                   ELSE IF Till(c)!Grace THEN Till(c)!ListDue(ages, Till(c)!Month - 1, room)
                   ELSE Till(c)!ListClosing(ages, Till(c)!Month - 1, room)
           pairs == c.stores \X MonthsOf(c)
<1>1. Till(c)!Month \in MonthsOf(c)
  <2>1. phase \in 0 .. 2 * c.lastMonth + 1 /\ c.lastMonth \in Nat
    BY DEF TillTyped, TillConstants, Phases
  <2>2. phase \div 2 \in 0 .. c.lastMonth
    BY <2>1
  <2> QED BY <2>2 DEF Till!Month, MonthsOf
<1>2. Till(c)!Month = 0 \/ Till(c)!Month - 1 \in MonthsOf(c)
  BY <1>1 DEF MonthsOf, TillConstants
<1>3. ASSUME NEW m \in MonthsOf(c), NEW limit \in Nat
      PROVE  /\ Till(c)!ListDue(ages, m, limit) \in Seq(pairs)
             /\ Len(Till(c)!ListDue(ages, m, limit)) <= limit
             /\ Till(c)!ListClosing(ages, m, limit) \in Seq(pairs)
             /\ Len(Till(c)!ListClosing(ages, m, limit)) <= limit
  <2> DEFINE due == {s \in c.stores : Till(c)!DueBefore(ages, s, m)}
             open == {s \in c.stores : settled[s][m] < Till(c)!SettledAfter(m)
                                       /\ Till(c)!DueBefore(ages, s, m)}
  <2>1. due \in SUBSET c.stores /\ open \in SUBSET c.stores
    OBVIOUS
  <2>2. /\ Till(c)!ListDue(ages, m, limit) = Till(c)!FirstByCode(due, m, limit)
        /\ Till(c)!ListClosing(ages, m, limit) = Till(c)!FirstByCode(open, m, limit)
    BY DEF Till!ListDue, Till!ListClosing
  <2> HIDE DEF due, open
  <2> QED BY <2>1, <2>2, FirstOfStores
<1>4. current \in Seq(pairs) /\ Len(current) \in Nat /\ room \in Nat
  <2>1. current \in Seq(pairs) /\ Len(current) <= c.maxStores
    BY <1>1, <1>3 DEF TillConstants
  <2> HIDE DEF current, pairs
  <2>2. Len(current) \in Nat
    BY <2>1
  <2> QED BY <2>1, <2>2 DEF TillConstants
<1>5. more \in Seq(pairs) /\ Len(more) <= room
  <2>1. CASE room = 0 \/ Till(c)!Month = 0
    BY <1>4, <2>1
  <2>2. CASE ~(room = 0 \/ Till(c)!Month = 0)
    BY <1>2, <1>3, <1>4, <2>2
  <2> QED BY <2>1, <2>2
<1>6. Till(c)!TickTargets(ages) = current \o more
  BY DEF Till!TickTargets
<1> HIDE DEF current, more, pairs
<1>7. Len(more) \in Nat /\ c.maxStores \in Nat
  BY <1>5 DEF TillConstants
<1>8. current \o more \in Seq(pairs) /\ Len(current \o more) = Len(current) + Len(more)
  BY <1>4, <1>5
<1> QED BY <1>4, <1>5, <1>6, <1>7, <1>8 DEF pairs

-----------------------------------------------------------------------------
(* The steps of tills, worker and managers.                                *)

\* What a call that is not answered leaves alone.
FiguresStay == UNCHANGED <<phase, till, closing, charged, settled>>

\* One call is begun, goes on unanswered, or ends.
LEMMA CallStep ==
    ASSUME NEW CONSTANT c, TillInv(c), NEW k \in c.managers \cup {"worker"},
           NEW x \in {Nobody} \cup Calls(c), calls' = [calls EXCEPT ![k] = x], FiguresStay,
           x # Nobody => x.at # "answered" /\ x.since \in {phase - 1, phase},
           polledPhase' \in BOOLEAN, age' \in Cells(c, 0 .. c.interval),
           targets' \in Seq(c.stores \X MonthsOf(c)), Len(targets') <= c.maxStores,
           crashes' \in 0 .. c.maxCrashes
    PROVE  TillInv(c)'
<1>1. calls \in [c.managers \cup {"worker"} -> {Nobody} \cup Calls(c)]
  BY DEF TillInv, TillTyped
<1>2. calls' \in [c.managers \cup {"worker"} -> {Nobody} \cup Calls(c)]
  BY <1>1
<1>3. TillTyped(c)'
  BY <1>2 DEF TillInv, TillTyped, FiguresStay, Phases, Cells, Calls, MonthsOf, Nobody
<1>4. CallsKnow(c)'
  <2> SUFFICES ASSUME NEW j \in c.managers \cup {"worker"}, calls'[j] # Nobody
               PROVE  Knows(calls[j])'
    BY DEF CallsKnow, Nobody
  <2>1. CASE j = k
    <3>1. calls'[j] = x
      BY <1>1, <2>1
    <3> HIDE DEF Nobody
    <3> QED BY <3>1 DEF Knows, FiguresStay
  <2>2. CASE j # k
    <3>1. calls'[j] = calls[j]
      BY <1>1, <2>2
    <3>2. Knows(calls[j])
      BY <3>1 DEF TillInv, CallsKnow
    <3> QED BY <3>1, <3>2 DEF Knows, FiguresStay
  <2> QED BY <2>1, <2>2
<1>5. MonthsClosed(c)'
  BY DEF TillInv, MonthsClosed, FiguresStay, MonthsOf
<1> QED BY <1>3, <1>4, <1>5 DEF TillInv

LEMMA SellStep ==
    ASSUME NEW CONSTANT c, TillConstants(c), TillInv(c), NEW s \in c.stores, NEW m \in MonthsOf(c),
           Till(c)!Sell(s, m)
    PROVE  TillInv(c)'
<1> DEFINE x == till[s][m] + 1
<1>1. /\ till[s][m] < c.maxVersion /\ till' = [till EXCEPT ![s][m] = x]
      /\ UNCHANGED <<phase, polledPhase, closing, charged, age, settled, targets, calls, crashes>>
  BY DEF Till!Sell
<1>2. till \in [c.stores -> [MonthsOf(c) -> 0 .. c.maxVersion]]
  BY DEF TillInv, TillTyped, Cells
<1>3. till[s][m] \in 0 .. c.maxVersion
  BY <1>2
<1>4. x \in 0 .. c.maxVersion /\ x > till[s][m]
  BY <1>1, <1>3 DEF TillConstants
<1> HIDE DEF x
<1>5. /\ till' \in [c.stores -> [MonthsOf(c) -> 0 .. c.maxVersion]]
      /\ \A t \in c.stores, n \in MonthsOf(c) :
            till'[t][n] = IF t = s /\ n = m THEN x ELSE till[t][n]
  BY <1>1, <1>2, <1>4, CellWritten
<1>6. TillTyped(c)'
  BY <1>1, <1>5 DEF TillInv, TillTyped, Phases, Cells, Calls, MonthsOf, Nobody
<1>7. CallsKnow(c)'
  BY <1>1 DEF TillInv, CallsKnow, Knows, Nobody
<1>8. MonthsClosed(c)'
  <2> SUFFICES ASSUME NEW t \in c.stores, NEW n \in MonthsOf(c)
               PROVE  /\ settled'[t][n] <= phase' /\ closing'[t][n] <= till'[t][n]
                      /\ settled'[t][n] >= 2 * n + 3 => charged'[t][n] >= closing'[t][n]
    BY DEF MonthsClosed, MonthsOf
  <2>1. /\ settled[t][n] <= phase /\ closing[t][n] <= till[t][n]
        /\ settled[t][n] >= 2 * n + 3 => charged[t][n] >= closing[t][n]
    BY DEF TillInv, MonthsClosed
  <2>2. closing[t][n] \in Int /\ till[t][n] \in Int
    BY <1>2 DEF TillInv, TillTyped, Cells
  <2>3. closing[t][n] <= till'[t][n]
    BY <1>4, <1>5, <2>1, <2>2
  <2> QED BY <1>1, <2>1, <2>3
<1> QED BY <1>6, <1>7, <1>8 DEF TillInv

LEMMA AdvanceStep ==
    ASSUME NEW CONSTANT c, TillConstants(c), TillInv(c), Till(c)!Advance
    PROVE  TillInv(c)'
<1>1. /\ phase < 2 * c.lastMonth + 1 /\ phase' = phase + 1 /\ polledPhase' = FALSE
      /\ closing' = [s \in c.stores |-> [m \in MonthsOf(c) |->
            IF phase = 2 * m + 1 THEN till[s][m] ELSE closing[s][m]]]
      /\ \A k \in c.managers \cup {"worker"} : calls[k] # Nobody => calls[k].since = phase
      /\ UNCHANGED <<till, charged, age, settled, targets, calls, crashes>>
  BY NobodyCalls DEF Till!Advance, Till!Callers, Till!Worker, Till!Months, MonthsOf
<1>2. phase \in Nat /\ phase' \in Phases(c)
  BY <1>1 DEF TillInv, TillTyped, Phases, TillConstants
<1>3. /\ till \in [c.stores -> [MonthsOf(c) -> 0 .. c.maxVersion]]
      /\ closing \in [c.stores -> [MonthsOf(c) -> -1 .. c.maxVersion]]
      /\ settled \in [c.stores -> [MonthsOf(c) -> -1 .. 2 * c.lastMonth + 1]]
  BY DEF TillInv, TillTyped, Cells
<1>4. ASSUME NEW s \in c.stores, NEW m \in MonthsOf(c)
      PROVE  /\ closing'[s][m] = IF phase = 2 * m + 1 THEN till[s][m] ELSE closing[s][m]
             /\ closing'[s][m] \in -1 .. c.maxVersion
  <2>1. closing'[s][m] = IF phase = 2 * m + 1 THEN till[s][m] ELSE closing[s][m]
    BY <1>1
  <2>2. till[s][m] \in 0 .. c.maxVersion /\ closing[s][m] \in -1 .. c.maxVersion
    BY <1>3
  <2>3. till[s][m] \in -1 .. c.maxVersion
    BY <2>2 DEF TillConstants
  <2> QED BY <2>1, <2>2, <2>3
<1>5. closing' \in [c.stores -> [MonthsOf(c) -> -1 .. c.maxVersion]]
  <2> DEFINE V == -1 .. c.maxVersion
             g(s, m) == IF phase = 2 * m + 1 THEN till[s][m] ELSE closing[s][m]
  <2>1. \A s \in c.stores, m \in MonthsOf(c) : g(s, m) \in V
    BY <1>1, <1>4
  <2>2. closing' = [s \in c.stores |-> [m \in MonthsOf(c) |-> g(s, m)]]
    BY <1>1
  <2> HIDE DEF g, V
  <2>3. closing' \in [c.stores -> [MonthsOf(c) -> V]]
    BY <2>1, <2>2
  <2> QED BY <2>3 DEF V
<1>6. TillTyped(c)'
  BY <1>1, <1>2, <1>5 DEF TillInv, TillTyped, Phases, Cells, Calls, MonthsOf, Nobody
<1>7. CallsKnow(c)'
  <2> SUFFICES ASSUME NEW k \in c.managers \cup {"worker"}, calls[k] # Nobody
               PROVE  Knows(calls[k])'
    BY <1>1 DEF CallsKnow, Nobody
  <2> DEFINE s == calls[k].store
             m == calls[k].month
  <2>1. calls[k].since = phase /\ Knows(calls[k])
    BY <1>1 DEF TillInv, CallsKnow
  <2>2. s \in c.stores /\ m \in MonthsOf(c)
    BY CallRow DEF TillInv
  <2>3. phase >= 2 * m + 2 => closing'[s][m] = closing[s][m]
    <3>1. m \in Nat
      BY <2>2 DEF MonthsOf
    <3> HIDE DEF s, m
    <3>2. phase >= 2 * m + 2 => phase # 2 * m + 1
      BY <1>2, <3>1
    <3> QED BY <1>4, <2>2, <3>2
  <2>4. calls[k].at = "answered" /\ phase >= 2 * m + 2 => calls[k].version >= closing'[s][m]
    BY <2>1, <2>3 DEF Knows
  <2>5. calls[k].since = phase' - 1
    BY <1>1, <1>2, <2>1
  <2> QED BY <1>1, <2>1, <2>4, <2>5 DEF Knows
<1>8. MonthsClosed(c)'
  <2> SUFFICES ASSUME NEW s \in c.stores, NEW m \in MonthsOf(c)
               PROVE  /\ settled'[s][m] <= phase' /\ closing'[s][m] <= till'[s][m]
                      /\ settled'[s][m] >= 2 * m + 3 => charged'[s][m] >= closing'[s][m]
    BY DEF MonthsClosed, MonthsOf
  <2>1. /\ settled[s][m] <= phase /\ closing[s][m] <= till[s][m]
        /\ settled[s][m] >= 2 * m + 3 => charged[s][m] >= closing[s][m]
    BY DEF TillInv, MonthsClosed
  <2>2. settled[s][m] \in Int /\ m \in Nat /\ till[s][m] \in Int
    BY <1>3 DEF MonthsOf, TillConstants
  <2>3. settled[s][m] <= phase + 1
    BY <1>2, <2>1, <2>2
  <2>4. closing'[s][m] <= till[s][m]
    BY <1>4, <2>1, <2>2
  <2>5. settled[s][m] >= 2 * m + 3 => phase # 2 * m + 1
    BY <1>2, <2>1, <2>2
  <2>6. settled[s][m] >= 2 * m + 3 => charged[s][m] >= closing'[s][m]
    BY <1>4, <2>1, <2>5
  <2> QED BY <1>1, <2>3, <2>4, <2>6
<1> QED BY <1>6, <1>7, <1>8 DEF TillInv

LEMMA TickStep ==
    ASSUME NEW CONSTANT c, TillConstants(c), TillInv(c), Till(c)!Tick
    PROVE  TillInv(c)'
<1> DEFINE aged == Till(c)!Aged
<1>1. /\ age' = aged /\ targets' = Till(c)!TickTargets(aged) /\ polledPhase' = TRUE
      /\ UNCHANGED <<phase, till, closing, charged, settled, calls, crashes>>
  BY DEF Till!Tick
<1>2. aged \in Cells(c, 0 .. c.interval)
  <2> DEFINE g(s, m) == Till(c)!Lesser(age[s][m] + 1, c.interval)
  <2>1. ASSUME NEW s \in c.stores, NEW m \in MonthsOf(c) PROVE g(s, m) \in 0 .. c.interval
    <3>1. age[s][m] \in 0 .. c.interval
      BY DEF TillInv, TillTyped, Cells
    <3> QED BY <3>1 DEF Till!Lesser, TillConstants
  <2>2. aged = [s \in c.stores |-> [m \in MonthsOf(c) |-> g(s, m)]]
    BY DEF Till!Aged, Till!Months, MonthsOf
  <2> HIDE DEF g, aged
  <2> QED BY <2>1, <2>2 DEF Cells
<1>3. targets' \in Seq(c.stores \X MonthsOf(c)) /\ Len(targets') <= c.maxStores
  BY <1>1, TargetsTyped DEF TillInv
<1> HIDE DEF aged
<1>4. TillTyped(c)'
  BY <1>1, <1>2, <1>3 DEF TillInv, TillTyped, Phases, Cells, Calls, MonthsOf, Nobody
<1>5. CallsKnow(c)' /\ MonthsClosed(c)'
  BY <1>1 DEF TillInv, CallsKnow, Knows, Nobody, MonthsClosed, MonthsOf
<1> QED BY <1>4, <1>5 DEF TillInv

LEMMA AskStep ==
    ASSUME NEW CONSTANT c, TillConstants(c), TillInv(c), NEW k \in c.managers \cup {"worker"},
           NEW s \in c.stores, NEW m \in MonthsOf(c), Till(c)!Ask(k, s, m),
           targets' \in Seq(c.stores \X MonthsOf(c)), Len(targets') <= c.maxStores
    PROVE  TillInv(c)'
<1> DEFINE x == [at |-> "asking", store |-> s, month |-> m, version |-> -1, since |-> phase]
<1>1. /\ calls' = [calls EXCEPT ![k] = x]
      /\ UNCHANGED <<phase, polledPhase, till, closing, charged, age, settled, crashes>>
  BY DEF Till!Ask
<1>2. -1 \in -1 .. c.maxVersion /\ phase \in Phases(c)
  BY DEF TillConstants, TillInv, TillTyped
<1>3. x \in Calls(c) /\ x.at = "asking" /\ x.since = phase
  BY <1>2 DEF Calls
<1> HIDE DEF x
<1>4. polledPhase' \in BOOLEAN /\ age' \in Cells(c, 0 .. c.interval) /\ crashes' \in 0 .. c.maxCrashes
  BY <1>1 DEF TillInv, TillTyped
<1> QED BY <1>1, <1>3, <1>4, CallStep DEF FiguresStay

LEMMA AnswerTillStep ==
    ASSUME NEW CONSTANT c, TillConstants(c), TillInv(c), NEW k \in c.managers \cup {"worker"},
           Till(c)!Answer(k)
    PROVE  TillInv(c)'
<1> DEFINE s == calls[k].store
           m == calls[k].month
           x == [calls[k] EXCEPT !.at = "answered", !.version = till[s][m]]
<1>1. /\ calls[k].at = "asking"
      /\ calls' = [calls EXCEPT ![k].at = "answered", ![k].version = till[s][m]]
      /\ UNCHANGED <<phase, polledPhase, till, closing, charged, age, settled, targets, crashes>>
  BY DEF Till!Answer
<1>2. calls \in [c.managers \cup {"worker"} -> {Nobody} \cup Calls(c)]
  BY DEF TillInv, TillTyped
<1>3. calls' = [calls EXCEPT ![k] = x]
  BY <1>1, <1>2
<1>4. /\ calls[k] \in Calls(c) /\ calls[k] # Nobody /\ s \in c.stores /\ m \in MonthsOf(c)
  BY <1>1, CallRow DEF TillInv
<1>5. till[s][m] \in 0 .. c.maxVersion /\ till[s][m] \in -1 .. c.maxVersion
      /\ closing[s][m] <= till[s][m]
  <2>1. till[s][m] \in 0 .. c.maxVersion /\ closing[s][m] <= till[s][m]
    BY <1>4 DEF TillInv, TillTyped, Cells, MonthsClosed
  <2> QED BY <2>1 DEF TillConstants
<1>6. closing[s][m] \in Int
  BY <1>4 DEF TillInv, TillTyped, Cells
<1>7. /\ x \in Calls(c) /\ x.store = s /\ x.month = m /\ x.version = till[s][m]
      /\ x.since = calls[k].since
  BY <1>4, <1>5 DEF Calls
<1>8. calls[k].since \in {phase - 1, phase}
  BY <1>4 DEF TillInv, CallsKnow, Knows
<1>9. \A j \in c.managers \cup {"worker"} : calls'[j] = IF j = k THEN x ELSE calls[j]
  BY <1>2, <1>3
<1>10. x.version >= closing[x.store][x.month]
  BY <1>5, <1>6, <1>7
<1>11. calls' \in [c.managers \cup {"worker"} -> {Nobody} \cup Calls(c)]
  BY <1>2, <1>3, <1>7
<1> HIDE DEF x, s, m
<1>12. TillTyped(c)'
  BY <1>1, <1>11 DEF TillInv, TillTyped, Phases, Cells, Calls, MonthsOf, Nobody
<1>13. CallsKnow(c)'
  <2> SUFFICES ASSUME NEW j \in c.managers \cup {"worker"}, calls'[j] # Nobody
               PROVE  Knows(calls[j])'
    BY DEF CallsKnow, Nobody
  <2>1. CASE j = k
    <3>1. calls'[j] = x
      BY <1>9, <2>1
    <3> QED BY <1>1, <1>7, <1>8, <1>10, <3>1 DEF Knows
  <2>2. CASE j # k
    <3>1. calls'[j] = calls[j]
      BY <1>9, <2>2
    <3> QED BY <1>1, <3>1 DEF TillInv, CallsKnow, Knows
  <2> QED BY <2>1, <2>2
<1>14. MonthsClosed(c)'
  BY <1>1 DEF TillInv, MonthsClosed, MonthsOf
<1> QED BY <1>12, <1>13, <1>14 DEF TillInv

\* A call is refused, or its answer cannot be recorded by the worker.
LEMMA RefusedCall ==
    ASSUME NEW CONSTANT c, TillInv(c), NEW k \in c.managers \cup {"worker"}, calls[k].at # "none",
           calls' = [calls EXCEPT ![k] = [calls[k] EXCEPT !.at = "refused"]],
           UNCHANGED <<phase, polledPhase, till, closing, charged, age, settled, targets, crashes>>
    PROVE  TillInv(c)'
<1> DEFINE x == [calls[k] EXCEPT !.at = "refused"]
<1>1. calls[k] \in Calls(c) /\ calls[k] # Nobody
  BY CallRow DEF TillInv
<1>2. x \in Calls(c) /\ x.at = "refused" /\ x.since = calls[k].since
  BY <1>1 DEF Calls
<1>3. calls[k].since \in {phase - 1, phase}
  BY <1>1 DEF TillInv, CallsKnow, Knows
<1> HIDE DEF x
<1>4. /\ polledPhase' \in BOOLEAN /\ age' \in Cells(c, 0 .. c.interval)
      /\ targets' \in Seq(c.stores \X MonthsOf(c)) /\ Len(targets') <= c.maxStores
      /\ crashes' \in 0 .. c.maxCrashes
  BY DEF TillInv, TillTyped
<1>5. calls' = [calls EXCEPT ![k] = x]
  BY DEF x
<1> QED BY <1>2, <1>3, <1>4, <1>5, CallStep DEF FiguresStay

LEMMA RefusedSteps ==
    ASSUME NEW CONSTANT c, TillInv(c), NEW k \in c.managers \cup {"worker"},
           Till(c)!Refuse(k) \/ Till(c)!RecordFails(k)
    PROVE  TillInv(c)'
<1>1. calls \in [c.managers \cup {"worker"} -> {Nobody} \cup Calls(c)]
  BY DEF TillInv, TillTyped
<1>2. CASE Till(c)!Refuse(k)
  <2>1. calls' = [calls EXCEPT ![k] = [calls[k] EXCEPT !.at = "refused"]]
    BY <1>1, <1>2 DEF Till!Refuse
  <2>2. /\ calls[k].at # "none"
        /\ UNCHANGED <<phase, polledPhase, till, closing, charged, age, settled, targets, crashes>>
    BY <1>2 DEF Till!Refuse
  <2> QED BY <2>1, <2>2, RefusedCall
<1>3. CASE Till(c)!RecordFails(k)
  <2>1. /\ calls[k].at = "answered"
        /\ calls' = [calls EXCEPT ![k] = IF k = "worker" THEN [calls[k] EXCEPT !.at = "refused"]
                                         ELSE Nobody]
        /\ UNCHANGED <<phase, polledPhase, till, closing, charged, age, settled, targets, crashes>>
    BY <1>1, <1>3, NobodyCalls DEF Till!RecordFails, Till!Worker
  <2>2. CASE k = "worker"
    BY <2>1, <2>2, RefusedCall
  <2>3. CASE k # "worker"
    <3>1. /\ polledPhase' \in BOOLEAN /\ age' \in Cells(c, 0 .. c.interval)
          /\ targets' \in Seq(c.stores \X MonthsOf(c)) /\ Len(targets') <= c.maxStores
          /\ crashes' \in 0 .. c.maxCrashes
      BY <2>1 DEF TillInv, TillTyped
    <3>2. calls' = [calls EXCEPT ![k] = Nobody]
      BY <2>1, <2>3
    <3> QED BY <2>1, <3>1, <3>2, CallStep DEF FiguresStay
  <2> QED BY <2>2, <2>3
<1> QED BY <1>2, <1>3

LEMMA GivenUpSteps ==
    ASSUME NEW CONSTANT c, TillConstants(c), TillInv(c),
           \/ \E k \in c.managers \cup {"worker"} : Till(c)!RecordFailure(k)
           \/ Till(c)!AbandonTick \/ Till(c)!Crash
    PROVE  TillInv(c)'
<1>1. /\ polledPhase \in BOOLEAN /\ age \in Cells(c, 0 .. c.interval)
      /\ targets \in Seq(c.stores \X MonthsOf(c)) /\ Len(targets) <= c.maxStores
      /\ crashes \in 0 .. c.maxCrashes /\ c.maxCrashes \in Nat
  BY DEF TillInv, TillTyped, TillConstants
<1>2. << >> \in Seq(c.stores \X MonthsOf(c)) /\ Len(<< >>) <= c.maxStores
  BY DEF TillConstants
<1>3. ASSUME NEW k \in c.managers \cup {"worker"}, Till(c)!RecordFailure(k) PROVE TillInv(c)'
  <2> DEFINE s == calls[k].store
             m == calls[k].month
  <2>1. /\ calls[k].at = "refused" /\ age' = [age EXCEPT ![s][m] = 0]
        /\ calls' = [calls EXCEPT ![k] = Nobody]
        /\ UNCHANGED <<phase, polledPhase, till, closing, charged, settled, targets, crashes>>
    BY <1>3, NobodyCalls DEF Till!RecordFailure
  <2>2. s \in c.stores /\ m \in MonthsOf(c)
    BY <2>1, CallRow DEF TillInv
  <2>3. age' \in Cells(c, 0 .. c.interval)
    <3>1. 0 \in 0 .. c.interval
      BY DEF TillConstants
    <3> HIDE DEF s, m
    <3> QED BY <1>1, <2>1, <2>2, <3>1, CellWritten DEF Cells
  <2> QED BY <1>1, <2>1, <2>3, CallStep DEF FiguresStay
<1>4. CASE Till(c)!AbandonTick \/ Till(c)!Crash
  <2>1. /\ calls' = [calls EXCEPT !["worker"] = Nobody] /\ targets' = << >>
        /\ crashes' \in {crashes, crashes + 1}
        /\ crashes' = crashes \/ crashes < c.maxCrashes
        /\ UNCHANGED <<phase, polledPhase, till, closing, charged, settled, age>>
    BY <1>4, NobodyCalls DEF Till!AbandonTick, Till!Crash, Till!Worker
  <2>2. crashes' \in 0 .. c.maxCrashes
    BY <1>1, <2>1
  <2> QED BY <1>1, <1>2, <2>1, <2>2, CallStep DEF FiguresStay
<1> QED BY <1>3, <1>4

\* What a recorded success makes of the stock.
LEMMA SuccessFollowed ==
    ASSUME NEW CONSTANT c, TillConstants(c), TillInv(c), NEW k \in c.managers \cup {"worker"},
           Till(c)!RecordSuccess(k)
    PROVE  LET s == calls[k].store
               m == calls[k].month
           IN  /\ s \in c.stores /\ m \in MonthsOf(c)
               /\ charged' \in Cells(c, -1 .. c.maxVersion)
               /\ charged'[s][m] >= calls[k].version /\ charged'[s][m] >= charged[s][m]
               /\ \A t \in c.stores, n \in MonthsOf(c) :
                     t # s \/ n # m => charged'[t][n] = charged[t][n]
<1> DEFINE s == calls[k].store
           m == calls[k].month
           v == calls[k].version
           x == Till(c)!Followed(s, m, v)
<1>1. calls[k].at = "answered" /\ charged' = [charged EXCEPT ![s][m] = x]
  BY DEF Till!RecordSuccess
<1>2. s \in c.stores /\ m \in MonthsOf(c) /\ v \in -1 .. c.maxVersion
  BY <1>1, CallRow DEF TillInv
<1>3. charged \in [c.stores -> [MonthsOf(c) -> -1 .. c.maxVersion]]
  BY DEF TillInv, TillTyped, Cells
<1>4. charged[s][m] \in -1 .. c.maxVersion
  BY <1>2, <1>3
<1> HIDE DEF s, m, v
<1>5. x \in -1 .. c.maxVersion /\ x >= v /\ x >= charged[s][m]
  BY <1>2, <1>4 DEF Till!Followed
<1> HIDE DEF x
<1>6. /\ charged' \in [c.stores -> [MonthsOf(c) -> -1 .. c.maxVersion]]
      /\ \A t \in c.stores, n \in MonthsOf(c) :
            charged'[t][n] = IF t = s /\ n = m THEN x ELSE charged[t][n]
  BY <1>1, <1>2, <1>3, <1>5, CellWritten
<1> QED BY <1>2, <1>5, <1>6 DEF Cells, s, m, v

LEMMA SuccessStep ==
    ASSUME NEW CONSTANT c, TillConstants(c), TillInv(c), NEW k \in c.managers \cup {"worker"},
           Till(c)!RecordSuccess(k)
    PROVE  TillInv(c)'
<1> DEFINE s == calls[k].store
           m == calls[k].month
<1>1. /\ calls[k].at = "answered" /\ age' = [age EXCEPT ![s][m] = 0]
      /\ settled' = [settled EXCEPT ![s][m] = phase]
      /\ calls' = [calls EXCEPT ![k] = Nobody]
      /\ UNCHANGED <<phase, polledPhase, till, closing, targets, crashes>>
  BY NobodyCalls DEF Till!RecordSuccess, Till!SettledAt
<1>2. /\ s \in c.stores /\ m \in MonthsOf(c)
      /\ charged' \in Cells(c, -1 .. c.maxVersion)
      /\ charged'[s][m] >= calls[k].version
      /\ \A t \in c.stores, n \in MonthsOf(c) :
            t # s \/ n # m => charged'[t][n] = charged[t][n]
  BY SuccessFollowed
<1>3. /\ Knows(calls[k]) /\ calls[k].version \in Int /\ calls[k].since \in Int
  <2>1. calls[k] # Nobody /\ calls[k].version \in Int /\ calls[k].since \in Int
    BY <1>1, CallRow DEF TillInv, Phases
  <2> QED BY <2>1 DEF TillInv, CallsKnow
<1>4. /\ settled \in [c.stores -> [MonthsOf(c) -> -1 .. 2 * c.lastMonth + 1]]
      /\ closing \in [c.stores -> [MonthsOf(c) -> -1 .. c.maxVersion]]
      /\ age \in [c.stores -> [MonthsOf(c) -> 0 .. c.interval]]
      /\ phase \in 0 .. 2 * c.lastMonth + 1
      /\ calls \in [c.managers \cup {"worker"} -> {Nobody} \cup Calls(c)]
  BY DEF TillInv, TillTyped, Cells, Phases
<1>5. phase >= 2 * m + 3 => charged'[s][m] >= closing[s][m]
  <2>1. closing[s][m] \in Int /\ charged'[s][m] \in Int /\ m \in Nat
    BY <1>2, <1>4 DEF Cells, MonthsOf, TillConstants
  <2>2. /\ calls[k].since \in {phase - 1, phase}
        /\ calls[k].since >= 2 * m + 2 => calls[k].version >= closing[s][m]
    BY <1>1, <1>3 DEF Knows
  <2> HIDE DEF s, m
  <2>3. phase >= 2 * m + 3 => calls[k].since >= 2 * m + 2
    BY <1>3, <1>4, <2>1, <2>2
  <2> QED BY <1>2, <1>3, <2>1, <2>2, <2>3
<1> HIDE DEF s, m
<1>6. /\ settled' \in [c.stores -> [MonthsOf(c) -> -1 .. 2 * c.lastMonth + 1]]
      /\ \A t \in c.stores, n \in MonthsOf(c) :
            settled'[t][n] = IF t = s /\ n = m THEN phase ELSE settled[t][n]
  <2> DEFINE V == -1 .. 2 * c.lastMonth + 1
             M == MonthsOf(c)
  <2>1. phase \in V
    BY <1>4 DEF TillConstants
  <2>2. settled \in [c.stores -> [M -> V]] /\ s \in c.stores /\ m \in M
    BY <1>2, <1>4
  <2> HIDE DEF V, M
  <2>3. /\ [settled EXCEPT ![s][m] = phase] \in [c.stores -> [M -> V]]
        /\ \A t \in c.stores, n \in M :
              [settled EXCEPT ![s][m] = phase][t][n] = IF t = s /\ n = m THEN phase ELSE settled[t][n]
    BY <2>1, <2>2, CellWritten
  <2> QED BY <1>1, <2>3 DEF V, M
<1>7. age' \in [c.stores -> [MonthsOf(c) -> 0 .. c.interval]]
  <2>1. 0 \in 0 .. c.interval
    BY DEF TillConstants
  <2> QED BY <1>1, <1>2, <1>4, <2>1, CellWritten
<1>8. calls' \in [c.managers \cup {"worker"} -> {Nobody} \cup Calls(c)]
  BY <1>1, <1>4
<1>9. TillTyped(c)'
  BY <1>1, <1>2, <1>6, <1>7, <1>8 DEF TillInv, TillTyped, Phases, Cells, Calls, MonthsOf, Nobody
<1>10. CallsKnow(c)'
  <2> SUFFICES ASSUME NEW j \in c.managers \cup {"worker"}, calls'[j] # Nobody
               PROVE  Knows(calls[j])'
    BY DEF CallsKnow, Nobody
  <2>1. calls'[j] = calls[j]
    BY <1>1, <1>4
  <2> QED BY <1>1, <2>1 DEF TillInv, CallsKnow, Knows
<1>11. MonthsClosed(c)'
  <2> SUFFICES ASSUME NEW t \in c.stores, NEW n \in MonthsOf(c)
               PROVE  /\ settled'[t][n] <= phase' /\ closing'[t][n] <= till'[t][n]
                      /\ settled'[t][n] >= 2 * n + 3 => charged'[t][n] >= closing'[t][n]
    BY DEF MonthsClosed, MonthsOf
  <2>1. /\ settled[t][n] <= phase /\ closing[t][n] <= till[t][n]
        /\ settled[t][n] >= 2 * n + 3 => charged[t][n] >= closing[t][n]
    BY DEF TillInv, MonthsClosed
  <2>2. CASE t = s /\ n = m
    BY <1>1, <1>4, <1>5, <1>6, <2>1, <2>2
  <2>3. CASE ~(t = s /\ n = m)
    BY <1>1, <1>2, <1>6, <2>1, <2>3
  <2> QED BY <2>2, <2>3
<1> QED BY <1>9, <1>10, <1>11 DEF TillInv

LEMMA TillNext ==
    ASSUME NEW CONSTANT c, TillConstants(c), TillInv(c), [Till(c)!Next]_(Till(c)!vars)
    PROVE  TillInv(c)'
<1>1. Till(c)!Callers = c.managers \cup {"worker"} /\ Till(c)!Months = MonthsOf(c)
  BY DEF Till!Callers, Till!Worker, Till!Months, MonthsOf
<1>2. targets \in Seq(c.stores \X MonthsOf(c)) /\ Len(targets) <= c.maxStores
  BY DEF TillInv, TillTyped
<1>3. CASE Till(c)!AskNext
  <2> DEFINE pairs == c.stores \X MonthsOf(c)
             next == Head(targets)
  <2>1. /\ targets # << >> /\ targets' = Tail(targets)
        /\ Till(c)!Ask("worker", next[1], next[2])
    BY <1>3 DEF Till!AskNext, Till!Worker
  <2>2. next \in pairs /\ Tail(targets) \in Seq(pairs) /\ Len(Tail(targets)) = Len(targets) - 1
    <3> HIDE DEF pairs
    <3> QED BY <1>2, <2>1 DEF pairs
  <2>3. next[1] \in c.stores /\ next[2] \in MonthsOf(c)
    BY <2>2
  <2>4. Len(targets) \in Nat /\ c.maxStores \in Nat
    BY <1>2 DEF TillConstants
  <2>5. targets' \in Seq(pairs) /\ Len(targets') <= c.maxStores
    BY <1>2, <2>1, <2>2, <2>4
  <2> HIDE DEF next
  <2> QED BY <2>1, <2>3, <2>5, AskStep
<1>4. ASSUME NEW k \in c.managers, NEW s \in c.stores, NEW m \in MonthsOf(c),
             Till(c)!AskByHand(k, s, m)
      PROVE  TillInv(c)'
  <2>1. Till(c)!Ask(k, s, m) /\ targets' = targets
    BY <1>4 DEF Till!AskByHand
  <2> QED BY <1>2, <2>1, AskStep
<1>5. CASE Till(c)!Advance \/ Till(c)!Tick
  BY <1>5, AdvanceStep, TickStep
<1>6. CASE Till(c)!AbandonTick \/ Till(c)!Crash
  BY <1>6, GivenUpSteps
<1>7. ASSUME NEW s \in c.stores, NEW m \in MonthsOf(c), Till(c)!Sell(s, m) PROVE TillInv(c)'
  BY <1>7, SellStep
<1>8. ASSUME NEW k \in c.managers \cup {"worker"},
             \/ Till(c)!Answer(k) \/ Till(c)!Refuse(k)
             \/ Till(c)!RecordSuccess(k) \/ Till(c)!RecordFails(k) \/ Till(c)!RecordFailure(k)
      PROVE  TillInv(c)'
  BY <1>8, AnswerTillStep, RefusedSteps, SuccessStep, GivenUpSteps
<1>9. CASE UNCHANGED Till(c)!vars
  <2>1. UNCHANGED <<phase, polledPhase, till, closing, charged, age, settled, targets, calls, crashes>>
    BY <1>9 DEF Till!vars
  <2> QED BY <2>1 DEF TillInv, TillTyped, CallsKnow, Knows, MonthsClosed, Phases, Cells, Calls,
             MonthsOf, Nobody
<1> QED BY <1>1, <1>3, <1>4, <1>5, <1>6, <1>7, <1>8, <1>9 DEF Till!Next

LEMMA TillAlways ==
    ASSUME NEW CONSTANT c, Till(c)!TillSyncAssumption
    PROVE  Till(c)!Spec => []TillInv(c)
<1>1. TillConstants(c)
  BY TillConstantsHold
<1>2. Till(c)!Init => TillInv(c)
  BY <1>1, TillInit
<1>3. TillInv(c) /\ [Till(c)!Next]_(Till(c)!vars) => TillInv(c)'
  BY <1>1, TillNext
<1> QED BY <1>2, <1>3, PTL DEF Till!Spec

\* Whoever asks, and in whatever order answers are recorded, a month that the
\* scheduler takes for closed holds every sale rung up before it ended
\* (idosi-sync.ts asks again until a success follows the grace days).
THEOREM ClosedMonthsStayComplete ==
    ASSUME NEW CONSTANT c, Till(c)!TillSyncAssumption
    PROVE  Till(c)!Spec => [](Till(c)!TypeOK /\ Till(c)!ClosedMonthComplete)
<1>1. TillInv(c) => Till(c)!TypeOK
  BY NobodyCalls DEF TillInv, TillTyped, Till!TypeOK, Till!Months, Till!Callers, Till!Worker,
     MonthsOf, Phases, Cells, Calls
<1>2. TillInv(c) => Till(c)!ClosedMonthComplete
  <2> SUFFICES ASSUME TillInv(c), NEW s \in c.stores, NEW m \in MonthsOf(c),
                      settled[s][m] >= Till(c)!SettledAfter(m)
               PROVE  charged[s][m] >= closing[s][m]
    BY DEF Till!ClosedMonthComplete, Till!Months, MonthsOf
  <2>1. m \in Nat
    BY DEF MonthsOf
  <2>2. Till(c)!SettledAfter(m) = 2 * m + 3
    BY <2>1 DEF Till!SettledAfter
  <2> QED BY <2>2 DEF TillInv, MonthsClosed
<1> QED BY <1>1, <1>2, TillAlways, PTL

\* The stock never goes back to older figures, and a recorded success reaches
\* it: the lock and the compared version of recordIdosiStatisticsSuccess.
THEOREM FiguresReachTheStock ==
    ASSUME NEW CONSTANT c, Till(c)!TillSyncAssumption
    PROVE  Till(c)!Spec => [][/\ Till(c)!FiguresNeverGoBack
                              /\ Till(c)!AnswerReachesStock]_(Till(c)!vars)
<1>1. TillConstants(c)
  BY TillConstantsHold
<1>2. TillInv(c) => Till(c)!AnswerReachesStock
  BY <1>1, SuccessFollowed DEF Till!AnswerReachesStock, Till!Callers, Till!Worker
<1>3. ASSUME TillInv(c), [Till(c)!Next]_(Till(c)!vars) PROVE Till(c)!FiguresNeverGoBack
  <2> SUFFICES ASSUME NEW s \in c.stores, NEW m \in MonthsOf(c)
               PROVE  charged'[s][m] >= charged[s][m]
    BY DEF Till!FiguresNeverGoBack, Till!Months, MonthsOf
  <2>1. charged[s][m] \in Int
    BY <1>3 DEF TillInv, TillTyped, Cells
  <2>2. CASE charged' = charged
    BY <2>1, <2>2
  <2>3. ASSUME NEW k \in c.managers \cup {"worker"}, Till(c)!RecordSuccess(k)
        PROVE  charged'[s][m] >= charged[s][m]
    BY <1>1, <1>3, <2>1, <2>3, SuccessFollowed
  <2>4. charged' = charged \/ \E k \in c.managers \cup {"worker"} : Till(c)!RecordSuccess(k)
    BY <1>3 DEF Till!Next, Till!vars, Till!Callers, Till!Worker, Till!Advance, Till!Tick,
       Till!AskNext, Till!AbandonTick, Till!Crash, Till!Sell, Till!AskByHand, Till!Ask,
       Till!Answer, Till!Refuse, Till!RecordFails, Till!RecordFailure
  <2> QED BY <2>2, <2>3, <2>4
<1> QED BY <1>2, <1>3, TillAlways, PTL DEF Till!Spec
=============================================================================
