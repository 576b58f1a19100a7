-------------------------- MODULE WarehouseLedger --------------------------
(***************************************************************************)
(* The stock ledger of the main warehouse for one product and the commands *)
(* that write to it: a warehouse keeper receives, prices and cancels       *)
(* supplier receipts, an administrator corrects stock, a run reserves      *)
(* goods and a store takes them.  A command is a serializable transaction  *)
(* that works on the rows it saw when it began and is retried when one of  *)
(* those it needs changed before its end (transaction.ts).  The balance    *)
(* is a running total of the ledger, and the allocation snapshot of a      *)
(* session reads the ledger as it was at an instant.                       *)
(***************************************************************************)
EXTENDS Integers, Sequences, FiniteSets, FiniteSetsExt

CONSTANTS
    Users,          \* connections that run one command at a time
    Receipts,       \* supplier receipts
    Bags,           \* bag codes printed on the supplier's bags
    Holds,          \* reservations a run makes
    HoldQuantity,   \* bags of a reservation
    TakenBags,      \* numbers of bags a store may find of a reservation
    Keys,           \* idempotency keys of stock adjustments
    EarlyKinds,     \* kinds of commands that read the clock before they begin
    NoCommand,
    MaxClock,       \* bound: clock readings
    MaxAttempts     \* attempts of a serializable transaction

QuantitiesAssumption ==
    /\ HoldQuantity \in Nat \ {0}
    /\ TakenBags \subseteq 0..HoldQuantity
    /\ MaxClock \in Nat /\ MaxAttempts \in Nat \ {0}

VARIABLES
    balance,    \* the warehouse_balances row: onHand, reserved, version
    ledger,     \* warehouse_ledger_entries in the order they were committed
    receipts,   \* receipts with the codes of their bags
    holds,      \* reservations: none, held or settled
    running,    \* the command a user runs, and what it saw when it began
    clock

vars == <<balance, ledger, receipts, holds, running, clock>>

Kinds == {"receive", "price", "cancel", "adjust", "reserve", "settle"}

\* The rows of the database a transaction can see.
Rows == [balance |-> balance, ledger |-> ledger, receipts |-> receipts, holds |-> holds]

BagsInUse(db) == UNION {db.receipts[r].bags : r \in Receipts}

(***************************************************************************)
(* Requests that screens can send now: the versions in them are those of   *)
(* any earlier moment the screen may have been loaded at.                  *)
(***************************************************************************)
Requests ==
    [kind : {"receive"}, receipt : Receipts, bags : SUBSET Bags \ {{}}]
    \cup {request \in [kind : {"price", "cancel"}, receipt : Receipts, version : 1..2] :
            request.version <= receipts[request.receipt].version}
    \cup [kind : {"adjust"}, key : Keys, delta : {-1, 1}, version : 0..balance.version]
    \cup [kind : {"reserve"}, hold : {h \in Holds : holds[h] = "none"}]
    \cup [kind : {"settle"}, hold : {h \in Holds : holds[h] = "held"}, taken : TakenBags]

Movement(source, id, onHand, reserved) ==
    [source |-> source, id |-> id, onHand |-> onHand, reserved |-> reserved]

\* The movements a command books.  A store that finds fewer bags than were
\* reserved takes what it found, and the rest is held for a shortage check.
Movements(command, db) ==
    CASE command.kind = "receive" ->
            <<Movement("supplier_receipt", command.receipt, Cardinality(command.bags), 0)>>
      [] command.kind = "price" -> <<>>
      [] command.kind = "cancel" ->
            <<Movement("supplier_receipt_cancellation", command.receipt,
                       -Cardinality(db.receipts[command.receipt].bags), 0)>>
      [] command.kind = "adjust" ->
            <<Movement("warehouse_stock_adjustment", command.key, command.delta, 0)>>
      [] command.kind = "reserve" ->
            <<Movement("allocation_run", command.hold, 0, HoldQuantity)>>
      [] command.kind = "settle" ->
            <<Movement("store_receipt", command.hold, -command.taken, -HoldQuantity)>>
              \o (IF command.taken = HoldQuantity THEN <<>>
                  ELSE <<Movement("warehouse_shortage_check", command.hold,
                                  0, HoldQuantity - command.taken)>>)

MayReceive(command, db) ==
    /\ db.receipts[command.receipt].status = "none"
    /\ command.bags \cap BagsInUse(db) = {}

\* Pricing and cancelling both end the wait for costs.
MayEnd(command, db) ==
    /\ db.receipts[command.receipt].version = command.version
    /\ db.receipts[command.receipt].status = "submitted"

MayAdjust(command, db) == db.balance.version = command.version

\* The conditions of a command's own rows.
Permitted(command, db) ==
    CASE command.kind = "receive" -> MayReceive(command, db)
      [] command.kind \in {"price", "cancel"} -> MayEnd(command, db)
      [] command.kind = "adjust" -> MayAdjust(command, db)
      [] command.kind = "reserve" -> db.holds[command.hold] = "none"
      [] command.kind = "settle" -> db.holds[command.hold] = "held"

\* An entry with the same source is a replay.
Booked(movement, entries) ==
    \E i \in DOMAIN entries : entries[i].source = movement.source /\ entries[i].id = movement.id

\* One movement on the rows a transaction sees; no movement on a balance that
\* another one of the same transaction already made impossible.
Apply(db, movement, at, seen) ==
    LET onHand   == db.balance.onHand + movement.onHand
        reserved == db.balance.reserved + movement.reserved
    IN  IF Booked(movement, db.ledger) THEN db
        ELSE [db EXCEPT
                !.balance = [onHand |-> onHand, reserved |-> reserved, version |-> @.version + 1],
                !.ledger = Append(@, [source |-> movement.source, id |-> movement.id,
                                      onHand |-> movement.onHand, reserved |-> movement.reserved,
                                      onHandAfter |-> onHand, reservedAfter |-> reserved,
                                      at |-> at, seen |-> seen])]

Sound(db) == 0 <= db.balance.reserved /\ db.balance.reserved <= db.balance.onHand

\* The rows after each of a command's movements.
Booking(command, db, at) ==
    LET seen == IF command.kind = "adjust" THEN command.version ELSE 0
        step[n \in 0..Len(Movements(command, db))] ==
            IF n = 0 THEN db ELSE Apply(step[n - 1], Movements(command, db)[n], at, seen)
    IN  step

\* The receipt and the reservation a command changes.
ReceiptsAfter(command, db) ==
    CASE command.kind = "receive" ->
            [db.receipts EXCEPT ![command.receipt] =
                [status |-> "submitted", version |-> 1, bags |-> command.bags]]
      [] command.kind = "price" ->
            [db.receipts EXCEPT ![command.receipt].status = "confirmed", ![command.receipt].version = @ + 1]
      [] command.kind = "cancel" ->
            [db.receipts EXCEPT ![command.receipt].status = "cancelled", ![command.receipt].version = @ + 1]
      [] OTHER -> db.receipts

HoldsAfter(command, db) ==
    CASE command.kind = "reserve" -> [db.holds EXCEPT ![command.hold] = "held"]
      [] command.kind = "settle" -> [db.holds EXCEPT ![command.hold] = "settled"]
      [] OTHER -> db.holds

-----------------------------------------------------------------------------
Init ==
    /\ balance = [onHand |-> 0, reserved |-> 0, version |-> 0]
    /\ ledger = <<>>
    /\ receipts = [r \in Receipts |-> [status |-> "none", version |-> 0, bags |-> {}]]
    /\ holds = [h \in Holds |-> "none"]
    /\ running = [u \in Users |-> NoCommand]
    /\ clock = 0

\* A request reaches the server; kinds in EarlyKinds read the clock here.
Issue(u) ==
    /\ running[u] = NoCommand
    /\ clock < MaxClock
    /\ \E command \in Requests :
        running' = [running EXCEPT ![u] =
            [command |-> command, at |-> clock + 1, attempts |-> 0, view |-> NoCommand]]
    /\ clock' = clock + 1
    /\ UNCHANGED <<balance, ledger, receipts, holds>>

\* The instant an attempt stamps its entries with.
AttemptClock(u) ==
    IF running[u].command.kind \in EarlyKinds THEN running[u].at ELSE clock + 1

\* An attempt begins: its view of the database is fixed.
Begin(u) ==
    /\ running[u] # NoCommand
    /\ running[u].view = NoCommand
    /\ clock < MaxClock
    /\ running' = [running EXCEPT ![u].view = Rows, ![u].at = AttemptClock(u),
                                  ![u].attempts = @ + 1]
    /\ clock' = clock + 1
    /\ UNCHANGED <<balance, ledger, receipts, holds>>

Begun(u) == running[u] # NoCommand /\ running[u].view # NoCommand

-----------------------------------------------------------------------------
\* Mutant of Overtaken: the balance is not locked.
OvertakenReceipt(u) ==
    LET command == running[u].command
    IN  command.kind \in {"receive", "price", "cancel"}
            /\ running[u].view.receipts[command.receipt] # receipts[command.receipt]

\* A row the command locks or decides upon changed since its attempt began.
Overtaken(u) ==
    LET command == running[u].command
        view    == running[u].view
    IN  \/ command.kind # "price" /\ view.balance # balance
        \/ command.kind \in {"receive", "price", "cancel"}
            /\ view.receipts[command.receipt] # receipts[command.receipt]
        \/ command.kind \in {"reserve", "settle"} /\ view.holds[command.hold] # holds[command.hold]

\* The repetition of an adjustment already made answers with its document.
Replayed(command, db) ==
    command.kind = "adjust"
        /\ Booked(Movement("warehouse_stock_adjustment", command.key, 0, 0), db.ledger)

Accepted(u) ==
    LET command == running[u].command
        booking == Booking(command, running[u].view, running[u].at)
    IN  /\ ~Replayed(command, running[u].view)
        /\ Permitted(command, running[u].view)
        /\ \A n \in DOMAIN booking : Sound(booking[n])

\* The attempt commits what it made of its view.
Commit(u) ==
    /\ Begun(u) /\ ~Overtaken(u) /\ Accepted(u)
    /\ LET command == running[u].command
           view    == running[u].view
           booking == Booking(command, view, running[u].at)
           after   == booking[Len(Movements(command, view))]
       IN  /\ IF Movements(command, view) = <<>> THEN UNCHANGED <<balance, ledger>>
              ELSE balance' = after.balance
                    /\ ledger' = ledger \o SubSeq(after.ledger, Len(view.ledger) + 1, Len(after.ledger))
           /\ receipts' = IF ReceiptsAfter(command, view) = view.receipts THEN receipts
                          ELSE [receipts EXCEPT ![command.receipt] =
                                    ReceiptsAfter(command, view)[command.receipt]]
           /\ holds' = IF HoldsAfter(command, view) = view.holds THEN holds
                       ELSE [holds EXCEPT ![command.hold] = HoldsAfter(command, view)[command.hold]]
    /\ running' = [running EXCEPT ![u] = NoCommand]
    /\ UNCHANGED clock

\* The attempt ends without a change: a refusal, or the answer stored before.
Refuse(u) ==
    /\ Begun(u) /\ ~Accepted(u)
    /\ running' = [running EXCEPT ![u] = NoCommand]
    /\ UNCHANGED <<balance, ledger, receipts, holds, clock>>

\* A serialization failure: the same call runs again, three times at most.
Retry(u) ==
    /\ Begun(u) /\ Overtaken(u) /\ Accepted(u)
    /\ running' = [running EXCEPT ![u] =
            IF @.attempts < MaxAttempts THEN [@ EXCEPT !.view = NoCommand] ELSE NoCommand]
    /\ UNCHANGED <<balance, ledger, receipts, holds, clock>>

Next == \E u \in Users : Issue(u) \/ Begin(u) \/ Commit(u) \/ Refuse(u) \/ Retry(u)

Spec == Init /\ [][Next]_vars

-----------------------------------------------------------------------------
\* The snapshot of an instant: the after-balance of the latest entry up to it.
\* Entries of one transaction share occurredAt and createdAt, so any of them
\* may come first: the order of their random identifiers decides.
Latest(instant) ==
    LET upTo == {i \in DOMAIN ledger : ledger[i].at <= instant}
    IN  {i \in upTo : \A j \in upTo : ledger[j].at <= ledger[i].at}

BalancesAt(instant) ==
    IF Latest(instant) = {} THEN {[onHand |-> 0, reserved |-> 0]}
    ELSE {[onHand |-> ledger[i].onHandAfter, reserved |-> ledger[i].reservedAfter] : i \in Latest(instant)}

OnHandOf(indices) == MapThenSumSet(LAMBDA i : ledger[i].onHand, indices)
ReservedOf(indices) == MapThenSumSet(LAMBDA i : ledger[i].reserved, indices)

\* What was booked up to an instant.
BookedAt(instant) ==
    LET upTo == {i \in DOMAIN ledger : ledger[i].at <= instant}
    IN  [onHand |-> OnHandOf(upTo),
         reserved |-> ReservedOf(upTo)]

-----------------------------------------------------------------------------
\* Every variable keeps its type; a running command's view is a past state.
TypeOK ==
    /\ balance.onHand \in Nat /\ balance.reserved \in Nat /\ balance.version \in Nat
    /\ \A i \in DOMAIN ledger : ledger[i].at \in 1..MaxClock /\ ledger[i].onHandAfter \in Nat
    /\ \A r \in Receipts : receipts[r].status \in {"none", "submitted", "confirmed", "cancelled"}
                            /\ receipts[r].version \in 0..2 /\ receipts[r].bags \subseteq Bags
    /\ holds \in [Holds -> {"none", "held", "settled"}]
    /\ \A u \in Users : Begun(u) => running[u].attempts \in 1..MaxAttempts
                            /\ running[u].view.balance.version <= balance.version
    /\ clock \in 0..MaxClock

\* The balance is the sum of the ledger whatever commands overlapped, every
\* entry's after-balance is the running total at its place, and more is never
\* reserved than is on hand (applyWarehouseMovement).
BalanceIsLedger ==
    LET total(n) == [onHand |-> OnHandOf(1..n),
                     reserved |-> ReservedOf(1..n)]
    IN  /\ balance.version = Len(ledger)
        /\ balance.onHand = total(Len(ledger)).onHand
        /\ balance.reserved = total(Len(ledger)).reserved
        /\ balance.reserved <= balance.onHand
        /\ \A n \in DOMAIN ledger : ledger[n].onHandAfter = total(n).onHand
                                     /\ ledger[n].reservedAfter = total(n).reserved

\* The bags of a receipt are in stock exactly once while it stands and not at
\* all once it is cancelled, and a bag code belongs to one receipt
\* (receiveSupplierInbound, cancelSupplierInbound).
ReceiptsCountedOnce ==
    /\ \A r \in Receipts :
        LET own == {i \in DOMAIN ledger : ledger[i].id = r}
        IN  OnHandOf(own)
                = IF receipts[r].status \in {"submitted", "confirmed"}
                  THEN Cardinality(receipts[r].bags) ELSE 0
    /\ \A r, q \in Receipts : r # q => receipts[r].bags \cap receipts[q].bags = {}

\* A stock adjustment is booked on the balance its author was looking at:
\* nothing was booked between the screen and the entry (expectedVersion of
\* createWarehouseStockAdjustment).
AdjustedWhatWasSeen ==
    \A i \in DOMAIN ledger :
        ledger[i].source = "warehouse_stock_adjustment" => ledger[i].seen = i - 1

\* A receipt whose costs were confirmed is never cancelled any more, however
\* close the two commands come (confirmSupplierInboundCosts).
PricedIsFinal ==
    \A r \in Receipts : receipts[r].status = "confirmed" => receipts'[r] = receipts[r]

\* The entries up to an instant were committed in the order of their stamps, and
\* one of them is the latest.
InStep(instant) ==
    /\ Cardinality(Latest(instant)) <= 1
    /\ \A j \in DOMAIN ledger : ledger[j].at <= instant =>
          \A i \in 1 .. j - 1 : ledger[i].at <= ledger[j].at

\* The snapshot of an instant is what had been booked up to it, as long as the
\* stamps up to it are in step (loadWarehouseBalancesAt).
SnapshotIsExact ==
    \A instant \in 0..MaxClock : InStep(instant) => BalancesAt(instant) = {BookedAt(instant)}

\* Stamps are out of step with the ledger in two cases only: a run of the worker
\* stamps its reservations before it waits for the balance, and the two
\* movements of one settlement share their stamp.  Every other command reads the
\* clock in the attempt that commits, so nothing it overtook is stamped later.
StampsInStep ==
    \A j \in DOMAIN ledger, i \in DOMAIN ledger :
        i < j /\ ledger[j].at <= ledger[i].at =>
            \/ ledger[j].at < ledger[i].at /\ ledger[j].source = "allocation_run"
            \/ ledger[j].at = ledger[i].at /\ ledger[j].id = ledger[i].id

=============================================================================
