----------------------- MODULE SupplierReconciliation -----------------------
(***************************************************************************)
(* One SKU whose stock is at the supplier B (Reshare).  A sees B only      *)
(* through people: somebody reads B's orderable stock at some instant,     *)
(* types it later, and declares what it already includes; orders,          *)
(* cancellations and returns at B are recorded when somebody gets to it,   *)
(* late and in any order.  From this A computes the free stock F it may    *)
(* still grant, and projects it on its own ledger: onHand = reserved + F.  *)
(*                                                                         *)
(* B itself (stockB, placed, lost, happened) is the environment.  It does  *)
(* not cancel what was placed for an issued RE order, and people tell the  *)
(* truth about what they saw.  Every command is one serializable           *)
(* transaction under the SKU's locks; a preview is not a step, since the   *)
(* revision it returns only refuses a confirmation that would be redone.   *)
(***************************************************************************)
EXTENDS QuantitySums

CONSTANTS
    Commitment,
    NoOne,            \* the commitment of a return at B
    Bags,             \* [Commitment -> Nat \ {0}], what each commitment holds
    Legacy,           \* accepted before RE orders: ordered at B by hand
    User,
    InitialStock,     \* what B offers at first
    Diligent,         \* people record a manual order before its receipt, and the
                      \* cancellation of a recorded order before a number that shows it
    MaxTime, MaxHappenings, MaxLoss    \* bounds

SupplierAssumption ==
    /\ Legacy \subseteq Commitment /\ NoOne \notin Commitment
    /\ \A c \in Commitment : Bags[c] \in Nat \ {0}
    /\ InitialStock \in Nat /\ Diligent \in BOOLEAN
    /\ MaxTime \in Nat \ {0} /\ MaxHappenings \in Nat /\ MaxLoss \in Nat

VARIABLES
    now,
    stockB,      \* what can be ordered at B
    placed,      \* bags of each commitment ordered at B, in truth
    placedRE,    \* those of them ordered for its RE order
    lost,        \* bags B lost, or cancelled and did not offer again
    happened,    \* what happened at B and is not recorded here
    commit,      \* offer holds, reservations and RE lines of the SKU
    events,      \* supplier_external_events and their links
    source,      \* the row of supplier_source_products and its baseline
    onHand, reserved,    \* warehouse_balances of the SKU
    form         \* the observation each user has read and not confirmed

supplier == <<stockB, placed, placedRE, lost, happened>>
vars == <<now, supplier, commit, events, source, onHand, reserved, form>>

Active == {"pending", "shippable"}      \* active reservations
Issued == {"issued", "delivered"}       \* lines of RE orders
Live   == {"hold", "issued"} \cup Active
State  == {"none", "consumed", "released"} \cup Live \cup Issued

Numbers  == {h.no : h \in happened} \cup {e.no : e \in events}
LastNo   == Cardinality(Numbers)
Observed == source.baseAt # 0
Occurrence ==
    [no: 1 .. MaxHappenings, kind: {"order", "cancel", "return"},
     of: 0 .. MaxHappenings, key: Commitment \cup {NoOne}, bags: Nat \ {0},
     at: 1 .. MaxTime]

TypeOK ==
    /\ now \in 1 .. MaxTime
    /\ stockB \in Nat /\ placed \in [Commitment -> Nat]
    /\ placedRE \in [Commitment -> Nat] /\ lost \in Nat
    /\ \A h \in happened :
         [x \in DOMAIN h \ {"returned"} |-> h[x]] \in Occurrence
    /\ commit \in [Commitment -> [state: State, reflected: Nat, issuedAt: 0 .. MaxTime]]
    /\ \A c \in Commitment : commit[c].reflected <= Bags[c]
    /\ \A e \in events :
         /\ [x \in DOMAIN e \ {"coverage"} |-> e[x]] \in Occurrence
         /\ e.coverage \in {"open", "covered", "ambiguous", "not_applicable"}
    /\ source \in [status: {"pending_baseline", "active", "needs_reconciliation"},
                   base: Nat, baseAt: 0 .. MaxTime]
    /\ onHand \in Nat /\ reserved \in 0 .. onHand
    /\ \A u \in User : form[u].at \in 0 .. MaxTime

-----------------------------------------------------------------------------
(* The position of the SKU: from the events ev, the commitments com and    *)
(* the baseline quantity base.                                             *)

Total(S) == SumOf([e \in S |-> e.bags])
OfKind(ev, kind, c) == {e \in ev : e.kind = kind /\ e.key = c}

OrderedAtB(ev, c) ==
    Total(OfKind(ev, "order", c)) - Total(OfKind(ev, "cancel", c))

Linked(ev, com, c) ==
    Lesser(Bags[c] - com[c].reflected, OrderedAtB(ev, c))

\* What A has promised and B does not show yet: the part of c in U.
Unordered(ev, com, c) ==
    CASE com[c].state = "hold" -> Bags[c]
      [] com[c].state \in Active -> Bags[c] - Linked(ev, com, c)
      [] com[c].state \in Issued -> Bags[c] - com[c].reflected - Linked(ev, com, c)
      [] OTHER -> 0

Uncovered(ev) == {e \in ev : e.coverage \in {"open", "ambiguous"}}

\* An ambiguous order lowers B, an ambiguous return does not raise it.
PendingDelta(ev) ==
    Total({e \in ev : e.kind = "return" /\ e.coverage = "open"})
    - Total({e \in Uncovered(ev) : e.kind = "order"})

Net(base, ev, com) ==
    base + PendingDelta(ev) - SumOf([c \in Commitment |-> Unordered(ev, com, c)])

Free(base, ev, com) == Greater(0, Net(base, ev, com))

Ambiguous(ev) == \E e \in ev : e.coverage = "ambiguous"
Reconciled(src, ev, com) ==
    src.status = "active" /\ ~ Ambiguous(ev) /\ Net(src.base, ev, com) >= 0

Allocatable ==
    IF Reconciled(source, events, commit) THEN Free(source.base, events, commit) ELSE 0

\* The worker and the emergency orders take neither more than the ledger
\* has free nor more than the supplier position allows.
Grantable == Lesser(onHand - reserved, Allocatable)

Init ==
    /\ now = 1
    /\ stockB = InitialStock /\ lost = 0
    /\ placed = [c \in Commitment |-> 0] /\ placedRE = placed
    /\ happened = {} /\ events = {}
    /\ commit = [c \in Commitment |->
                   [state |-> IF c \in Legacy THEN "shippable" ELSE "none",
                    reflected |-> 0, issuedAt |-> 0]]
    /\ source = [status |-> "pending_baseline", base |-> 0, baseAt |-> 0]
    /\ onHand = SumOf([c \in Legacy |-> Bags[c]]) /\ reserved = onHand
    /\ form = [u \in User |-> [at |-> 0, seen |-> 0, upTo |-> 0, placed |-> placedRE]]

-----------------------------------------------------------------------------
(* The goods in A's ledger.  A movement whose source type is not among the *)
(* consistent ones blocks the SKU until it is observed again.              *)

Blocked(src) ==
    [src EXCEPT !.status = IF @ = "active" THEN "needs_reconciliation" ELSE @]

ConsistentSources ==
    {"priority_offer", "emergency_priority_order", "allocation_run",
     "allocation_result_decision", "reshare_order", "store_receipt",
     "warehouse_shortage_check", "supplier_stock_observation",
     "supplier_event_batch"}

Move(sourceType, onHandDelta, reservedDelta) ==
    /\ onHand + onHandDelta >= reserved + reservedDelta
    /\ onHand' = onHand + onHandDelta
    /\ reserved' = reserved + reservedDelta
    /\ source' = IF sourceType \in ConsistentSources THEN source ELSE Blocked(source)

Becomes(c, state) == commit' = [commit EXCEPT ![c].state = state]
Issue(c) == commit' = [commit EXCEPT ![c].state = "issued", ![c].issuedAt = now]

\* An offer of priority goods holds them; its run turns them into a result.
HoldOffer(c) ==
    /\ commit[c].state = "none" /\ Bags[c] <= Grantable
    /\ Becomes(c, "hold") /\ Move("priority_offer", 0, Bags[c])
    /\ UNCHANGED <<now, supplier, events, form>>

\* Mutant of EndOffer: the hold ends, its bags stay reserved.
EndOfferOnly(c) ==
    /\ commit[c].state = "hold"
    /\ Becomes(c, "released")
    /\ UNCHANGED <<now, supplier, events, source, onHand, reserved, form>>

EndOffer(c) ==
    /\ commit[c].state = "hold"
    /\ Becomes(c, "released") /\ Move("priority_offer", 0, - Bags[c])
    /\ UNCHANGED <<now, supplier, events, form>>

AllocateHeld(c) ==
    /\ commit[c].state = "hold"
    /\ Becomes(c, "pending")
    /\ UNCHANGED <<now, supplier, events, source, onHand, reserved, form>>

Allocate(c) ==
    /\ commit[c].state = "none" /\ Bags[c] <= Grantable
    /\ Becomes(c, "pending") /\ Move("allocation_run", 0, Bags[c])
    /\ UNCHANGED <<now, supplier, events, form>>

OrderEmergency(c) ==
    /\ commit[c].state = "none" /\ Bags[c] <= Grantable
    /\ Issue(c) /\ Move("reshare_order", - Bags[c], 0)
    /\ UNCHANGED <<now, supplier, events, form>>

\* An accepted result is issued as an RE order; the cutover issues the
\* results accepted before.
IssueOrder(c) ==
    /\ commit[c].state \in Active
    /\ Issue(c) /\ Move("reshare_order", - Bags[c], - Bags[c])
    /\ UNCHANGED <<now, supplier, events, form>>

\* A pending result moved to waiting, or its ticket cancelled.
ReleasePending(c) ==
    /\ commit[c].state = "pending"
    /\ Becomes(c, "released") /\ Move("allocation_line_disposition", 0, - Bags[c])
    /\ UNCHANGED <<now, supplier, events, form>>

Unrecorded(c) == {h \in happened : h.key = c}

Receive(c) ==
    /\ placed[c] = Bags[c]
    /\ \/ /\ commit[c].state = "shippable"
          /\ Diligent => Unrecorded(c) = {}
          /\ Becomes(c, "consumed") /\ Move("store_receipt", - Bags[c], - Bags[c])
       \/ /\ commit[c].state = "issued" /\ Becomes(c, "delivered")
          /\ UNCHANGED <<source, onHand, reserved>>
    /\ UNCHANGED <<now, supplier, events, form>>

\* Bags beyond an allocation, received in a store: not deducted here.
ReceiveExcess ==
    /\ source.status = "active" /\ stockB > 0 /\ lost < MaxLoss
    /\ stockB' = stockB - 1 /\ lost' = lost + 1
    /\ source' = Blocked(source)
    /\ UNCHANGED <<now, placed, placedRE, happened, commit, events, onHand, reserved, form>>

-----------------------------------------------------------------------------
(* Observations.                                                           *)

View(u) ==
    /\ form' = [form EXCEPT ![u] = [at |-> now, seen |-> stockB, upTo |-> LastNo,
                                    placed |-> placedRE]]
    /\ UNCHANGED <<now, supplier, commit, events, source, onHand, reserved>>

\* Every open event dated at or before the observation is declared: does the
\* number include it?  What it does not include stays open.
Decided(f) == {e \in Uncovered(events) : e.at <= f.at}

CoverageAfter(f) ==
    {IF e \notin Decided(f) THEN e
     ELSE [e EXCEPT !.coverage = IF e.no <= f.upTo THEN "covered" ELSE "open"] :
       e \in events}

\* What the number includes of the RE orders issued by then.
Declared(f, c) ==
    IF commit[c].state \in Issued /\ commit[c].issuedAt <= f.at
    THEN Lesser(Unordered(events, commit, c), f.placed[c] - commit[c].reflected)
    ELSE 0

ReflectedAfter(f) ==
    [c \in Commitment |-> [commit[c] EXCEPT !.reflected = @ + Declared(f, c)]]

\* The first baseline needs the word that nothing unrecorded is ordered.
Attested ==
    source.status = "pending_baseline" =>
        \A c \in Commitment :
            commit[c].state \in Active => placed[c] <= OrderedAtB(events, c)

\* The number includes a cancellation of a recorded order, not recorded yet.
ShowsUnrecorded(f) ==
    \E h \in happened, e \in events :
        h.kind = "cancel" /\ h.no <= f.upTo /\ e.no = h.of

IsNewest(f) == Observed => f.at > source.baseAt

Confirm(u) ==
    /\ form[u].at # 0 /\ IsNewest(form[u]) /\ Attested
    /\ Diligent => ~ ShowsUnrecorded(form[u])
    /\ events' = CoverageAfter(form[u])
    /\ commit' = ReflectedAfter(form[u])
    /\ source' = [status |-> "active", base |-> form[u].seen, baseAt |-> form[u].at]
    /\ onHand' = reserved + Free(form[u].seen, events', commit')
    /\ form' = [form EXCEPT ![u].at = 0]
    /\ UNCHANGED <<now, supplier, reserved>>

-----------------------------------------------------------------------------
(* Recording what happened at B.                                           *)

Coverage(at) == IF Observed /\ at <= source.baseAt THEN "ambiguous" ELSE "open"

Event(h, kind, coverage) ==
    [no |-> h.no, kind |-> kind, of |-> h.of, key |-> h.key, bags |-> h.bags,
     at |-> h.at, coverage |-> coverage]

\* A late event blocks the SKU; the ledger follows the new position.
FinishBatch(h, new) ==
    /\ happened' = happened \ {h}
    /\ events' = events \cup new
    /\ source' = IF \E e \in new : e.coverage = "ambiguous" THEN Blocked(source) ELSE source
    /\ onHand' = IF Observed THEN reserved + Free(source.base, events', commit) ELSE onHand
    /\ UNCHANGED <<now, stockB, placed, placedRE, lost, commit, reserved, form>>

RecordOrder(h) ==
    /\ h.kind = "order" /\ commit[h.key].state = "shippable"
    /\ OrderedAtB(events, h.key) + h.bags <= Bags[h.key]
    /\ FinishBatch(h, {Event(h, "order", Coverage(h.at))})

\* Bags of an order line not cancelled yet; nothing of goods already received.
StillOrdered(o, cancels) == o.bags - Total({e \in cancels : e.kind = "cancel" /\ e.of = o.no})
Cancellable(o) ==
    IF commit[o.key].state \in {"consumed", "delivered"} THEN 0
    ELSE StillOrdered(o, events)

RecordCancel(h) ==
    /\ h.kind = "cancel"
    /\ \E o \in events : /\ o.kind = "order" /\ o.no = h.of
                         /\ h.bags <= Cancellable(o)
    /\ FinishBatch(h, {Event(h, "cancel", "not_applicable")}
                      \cup IF h.returned THEN {Event(h, "return", Coverage(h.at))} ELSE {})

RecordReturn(h) ==
    /\ h.kind = "return"
    /\ FinishBatch(h, {Event(h, "return", Coverage(h.at))})

-----------------------------------------------------------------------------
(* The environment: what happens at B.                                     *)

Happens(kind, of, c, n, returned) ==
    /\ LastNo < MaxHappenings
    /\ happened' = happened \cup
         {[no |-> LastNo + 1, kind |-> kind, of |-> of, key |-> c, bags |-> n,
           at |-> now, returned |-> returned]}

Unseen == <<now, commit, events, source, onHand, reserved, form>>

PlaceAtB(c, n) ==
    /\ commit[c].state \in {"shippable", "issued"}
    /\ n <= stockB /\ placed[c] + n <= Bags[c]
    /\ stockB' = stockB - n /\ placed' = [placed EXCEPT ![c] = @ + n]
    /\ IF commit[c].state = "shippable"
       THEN Happens("order", 0, c, n, FALSE) /\ UNCHANGED placedRE
       ELSE placedRE' = [placedRE EXCEPT ![c] = @ + n] /\ UNCHANGED happened
    /\ UNCHANGED <<lost, Unseen>>

CancelAtB(o, n, returned) ==
    /\ o.kind = "order"
    /\ \/ commit[o.key].state = "shippable"
       \/ commit[o.key].state = "issued" /\ o \in events
    /\ n <= StillOrdered(o, events \cup happened)
    /\ placed' = [placed EXCEPT ![o.key] = @ - n]
    /\ IF returned THEN stockB' = stockB + n /\ UNCHANGED lost
       ELSE lost' = lost + n /\ UNCHANGED stockB
    /\ Happens("cancel", o.no, o.key, n, returned)
    /\ UNCHANGED <<placedRE, Unseen>>

ReturnAtB ==
    /\ stockB' = stockB + 1
    /\ Happens("return", 0, NoOne, 1, FALSE)
    /\ UNCHANGED <<placed, placedRE, lost, Unseen>>

LoseAtB ==
    /\ stockB > 0 /\ lost < MaxLoss
    /\ stockB' = stockB - 1 /\ lost' = lost + 1
    /\ UNCHANGED <<placed, placedRE, happened, Unseen>>

Tick ==
    /\ now < MaxTime
    /\ now' = now + 1
    /\ UNCHANGED <<supplier, commit, events, source, onHand, reserved, form>>

Next ==
    \/ \E c \in Commitment :
         \/ HoldOffer(c) \/ EndOffer(c) \/ AllocateHeld(c) \/ Allocate(c)
         \/ OrderEmergency(c) \/ IssueOrder(c) \/ ReleasePending(c) \/ Receive(c)
         \/ \E n \in 1 .. Bags[c] : PlaceAtB(c, n)
    \/ \E u \in User : View(u) \/ Confirm(u)
    \/ \E h \in happened : RecordOrder(h) \/ RecordCancel(h) \/ RecordReturn(h)
    \/ \E o \in happened \cup events, returned \in BOOLEAN :
         \E n \in 1 .. o.bags : CancelAtB(o, n, returned)
    \/ ReceiveExcess \/ ReturnAtB \/ LoseAtB \/ Tick

Spec == Init /\ [][Next]_vars

-----------------------------------------------------------------------------
(* Properties.                                                             *)

Owed == SumOf([c \in Commitment |->
                 IF commit[c].state \in Live THEN Bags[c] - placed[c] ELSE 0])

\* A never promises goods B does not have, beyond what B lost: whatever is
\* recorded late or out of order, and however stale the number observed, the
\* grants capped by supplier-commitments.ts stay covered.
NoDoubleCommit == Owed <= stockB + lost

\* reserved is what live holds and active reservations hold: the ledger and
\* the rows the position is computed from agree (warehouse.ts).
ReservedMatchesRows ==
    reserved = SumOf([c \in Commitment |->
                        IF commit[c].state \in {"hold"} \cup Active THEN Bags[c] ELSE 0])

Projected == onHand - reserved = Free(source.base, events, commit)

\* A reconciled SKU whose ledger shows F keeps showing it, or stops being
\* reconciled: no movement silently creates free stock (warehouse.ts:169-175).
ReconciledStaysProjected ==
    Reconciled(source, events, commit) /\ Projected
      => Projected' \/ ~ Reconciled(source, events, commit)'

\* An observation confirmed before anything else happens at B, with all that
\* happened recorded, makes A's free stock exactly what B has and nobody is owed.
ObservationIsExact ==
    \A u \in User :
      /\ form[u].at # 0 /\ form'[u].at = 0
      /\ happened = {} /\ form[u].upTo = LastNo
      /\ form[u].seen = stockB /\ form[u].placed = placedRE
      /\ \A c \in Commitment : commit[c].issuedAt <= form[u].at
      => onHand' - reserved' = Greater(0, stockB - Owed)
=============================================================================
