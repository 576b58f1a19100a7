------------------------- MODULE ConversionHistory --------------------------
(***************************************************************************)
(* The conversion ratios of one product in the database: administrators    *)
(* append, replace and retire versions from catalogue pages they loaded    *)
(* earlier, and the triggers of the table have the last word.  It          *)
(* implements ConversionCatalog.                                           *)
(***************************************************************************)
EXTENDS Integers, Sequences

CONSTANTS Admins, Ratios, MaxDay, MaxVersions

HistoryAssumption == {MaxDay, MaxVersions} \subseteq Nat \ {0}

VARIABLES rows,   \* product_conversions of the product
          today,
          page    \* per administrator: the rows of the page loaded last

vars == <<rows, today, page>>

C == INSTANCE ConversionCatalog

Init == C!Init /\ page = [m \in Admins |-> <<>>]

-----------------------------------------------------------------------------
(* The triggers. *)

Covers(row, day) == row.from <= day /\ day < row.to

Overlap(a, b) == \E day \in C!Days : Covers(a, day) /\ Covers(b, day)

\* product_conversions_validate_period, for the row that is written; a range
\* that ends before it begins is an error.
PeriodsApart(next, v) ==
    /\ next[v].from <= next[v].to
    /\ \A w \in DOMAIN next \ {v} : ~Overlap(next[v], next[w])

\* product_conversions_protect_history
Protected(old, new) ==
    /\ ~old.retired
    /\ new.ratio = old.ratio /\ new.from = old.from
    /\ old.to # C!NoEnd => new.to = old.to

EndRow(v, day) ==
    LET ended == C!Ended(rows[v], day)
        next  == [rows EXCEPT ![v] = ended]
    IN  /\ Protected(rows[v], ended)
        /\ PeriodsApart(next, v)

-----------------------------------------------------------------------------
(* The commands; each holds the product's lock in a serializable            *)
(* transaction.                                                             *)

Load(m) == page' = [page EXCEPT ![m] = rows] /\ UNCHANGED <<rows, today>>

AppendAfter(p) ==
    /\ rows[C!Latest].retired
    /\ p[1] > rows[C!Latest].from /\ p[1] >= rows[C!Latest].to

CreateConversion(m, ratio, p) ==
    /\ C!Latest < MaxVersions
    /\ IF rows = <<>> THEN page[m] = <<>>
       ELSE Len(page[m]) = C!Latest /\ AppendAfter(p)
    /\ rows' = Append(rows, C!NewRow(ratio, p))
    /\ PeriodsApart(rows', Len(rows'))
    /\ UNCHANGED <<today, page>>

Replaceable(v, p) == ~rows[v].retired /\ p[1] > rows[v].from

\* Mutant of ReplaceConversion: the version that is replaced is left open.
ReplaceBeside(m, v, ratio, p) ==
    /\ v \in DOMAIN page[m] /\ Replaceable(v, p) /\ C!Latest < MaxVersions
    /\ rows' = Append(rows, C!NewRow(ratio, p))
    /\ PeriodsApart(rows', Len(rows'))
    /\ UNCHANGED <<today, page>>

\* Mutant of ReplaceConversion: a later version starts a branch of its own.
ReplaceFrom(m, v, ratio, p) ==
    /\ v \in DOMAIN page[m] /\ p[1] > rows[v].from /\ C!Latest < MaxVersions
    /\ rows' = Append(rows, C!NewRow(ratio, p))
    /\ PeriodsApart(rows', Len(rows'))
    /\ UNCHANGED <<today, page>>

ReplaceConversion(m, v, ratio, p) ==
    /\ v \in DOMAIN page[m] /\ Replaceable(v, p) /\ C!Latest < MaxVersions
    /\ EndRow(v, p[1])
    /\ rows' = Append([rows EXCEPT ![v] = C!Ended(@, p[1])], C!NewRow(ratio, p))
    /\ PeriodsApart(rows', Len(rows'))
    /\ UNCHANGED <<today, page>>

\* Retiring what is retired changes nothing.
RetireConversion(m, v) ==
    /\ v \in DOMAIN page[m] /\ ~rows[v].retired
    /\ EndRow(v, C!RetirementDate(rows[v].from))
    /\ rows' = [rows EXCEPT ![v] = C!Ended(@, C!RetirementDate(@.from))]
    /\ UNCHANGED <<today, page>>

Tomorrow == C!Tomorrow /\ UNCHANGED page

Next ==
    \/ Tomorrow
    \/ \E m \in Admins :
          \/ Load(m)
          \/ \E ratio \in Ratios, p \in C!Periods :
                \/ CreateConversion(m, ratio, p)
                \/ \E v \in DOMAIN rows : ReplaceConversion(m, v, ratio, p)
          \/ \E v \in DOMAIN rows : RetireConversion(m, v)

Spec == Init /\ [][Next]_vars

-----------------------------------------------------------------------------
Rows == [ratio : Ratios, from : C!Days, to : 0 .. C!NoEnd, retired : BOOLEAN]

TypeOK ==
    /\ Len(rows) <= MaxVersions
    /\ \A v \in DOMAIN rows : rows[v] \in Rows /\ (rows[v].retired => rows[v].to # C!NoEnd)
    /\ \A m \in Admins : \A v \in DOMAIN page[m] : page[m][v] \in Rows
    /\ today \in C!Days

\* On no day are two ratios in effect, whatever was replaced, retired before it
\* began, or resumed.
OneRatioADay == \A v, w \in DOMAIN rows : v # w => ~Overlap(rows[v], rows[w])

\* Versions begin in their order and only the last may be open to change: a
\* page loaded earlier cannot branch the history.
HistoryIsALine ==
    \A v \in DOMAIN rows : \A w \in 1 .. v - 1 : rows[w].retired /\ rows[w].from < rows[v].from

\* What the triggers and the commands keep of the ratios of a product.
RatiosKept == TypeOK /\ OneRatioADay /\ HistoryIsALine

\* What a version said is never changed, and once it is retired its period
\* stays as it is.
HistoryStays ==
    \A v \in DOMAIN rows :
       /\ v \in DOMAIN rows' /\ rows'[v].ratio = rows[v].ratio /\ rows'[v].from = rows[v].from
       /\ rows[v].retired => rows'[v] = rows[v]

\* The database does nothing the in-memory repository would not: it begins as
\* the plain catalogue does, and every step is one of its steps or none.
CatalogInit == C!Init
CatalogStep == [C!Next]_<<rows, today>>

=============================================================================
