------------------------- MODULE ConversionCatalog --------------------------
(***************************************************************************)
(* What the conversion ratios of a product promise, as the in-memory       *)
(* repository keeps them: versions appended one after the other, at most   *)
(* one of them not yet replaced or retired.                                *)
(*                                                                         *)
(* A version is the position of its row; a ratio is a model value; days    *)
(* are numbers, and a period without an end ends at NoEnd.                 *)
(***************************************************************************)
EXTENDS Integers, Sequences

CONSTANTS Ratios,
          MaxDay,      \* bound on the days periods begin and end at
          MaxVersions  \* bound on the versions of the product

VARIABLES rows,   \* the versions of the product's conversion
          today   \* the business date

Days == 0 .. MaxDay
NoEnd == MaxDay + 1
Periods == {p \in Days \X (1 .. NoEnd) : p[1] < p[2]}
NewRow(ratio, p) == [ratio |-> ratio, from |-> p[1], to |-> p[2], retired |-> FALSE]

Latest == Len(rows)

\* The day a retirement ends the period: today, never before it began.
RetirementDate(from) == IF today > from THEN today ELSE from

Append1(row) == Latest < MaxVersions /\ rows' = Append(rows, row) /\ UNCHANGED today

CreateFirst(ratio, p) == rows = <<>> /\ Append1(NewRow(ratio, p))

\* A retired series is resumed, after the last version and not before its end.
Resume(expected, ratio, p) ==
    /\ expected = Latest /\ rows # <<>>
    /\ rows[Latest].retired
    /\ p[1] > rows[Latest].from /\ p[1] >= rows[Latest].to
    /\ Append1(NewRow(ratio, p))

Ended(row, day) == [row EXCEPT !.to = day, !.retired = TRUE]

Replace(v, ratio, p) ==
    /\ v \in DOMAIN rows /\ ~rows[v].retired /\ p[1] > rows[v].from
    /\ Latest < MaxVersions
    /\ rows' = Append([rows EXCEPT ![v] = Ended(@, p[1])], NewRow(ratio, p))
    /\ UNCHANGED today

Retire(v) ==
    /\ v \in DOMAIN rows /\ ~rows[v].retired
    /\ rows' = [rows EXCEPT ![v] = Ended(@, RetirementDate(@.from))]
    /\ UNCHANGED today

Tomorrow == today < MaxDay /\ today' = today + 1 /\ UNCHANGED rows

Init == rows = <<>> /\ today = 0

Next ==
    \/ Tomorrow
    \/ \E ratio \in Ratios, p \in Periods :
          \/ CreateFirst(ratio, p)
          \/ \E v \in 1 .. MaxVersions : Resume(v, ratio, p) \/ Replace(v, ratio, p)
    \/ \E v \in 1 .. MaxVersions : Retire(v)

Spec == Init /\ [][Next]_<<rows, today>>

=============================================================================
