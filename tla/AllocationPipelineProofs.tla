---------------------- MODULE AllocationPipelineProofs ----------------------
(***************************************************************************)
(* What AllocationPipeline keeps, for every number of stores, products,    *)
(* sessions, tickets and bags.  First the types, how the commands exclude  *)
(* each other, and the life of a result:                                   *)
(*                                                                         *)
(*  - the rows of all tables keep their types, quantities never go below   *)
(*    zero and no more is reserved than the warehouse has (TypeCorrect);   *)
(*    the other proofs rest on the typing: a total is a number only over   *)
(*    finite, typed tables;                                                *)
(*  - a claim on a ticket stays good while it lives (ClaimsStayGood); with *)
(*    the types it is inductive as it stands;                              *)
(*  - goods that left for a store are settled (DispatchIsFinal); the step  *)
(*    that could disturb them is a second run of the session, which        *)
(*    NoLinesBeforeRun rules out;                                          *)
(*  - a pending result can be answered (PendingResultAnswerable) and only  *)
(*    confirmed goods leave (OnlyConfirmedGoodsLeave); each needs the      *)
(*    other, because goods ride the shipments of other results;            *)
(*  - each result keeps the promise of ResultDecision (ResultsKeepPromise),*)
(*    step by step, with the lines of the result as the refinement mapping.*)
(*                                                                         *)
(* Then demand, the books of the warehouse and the allocation run:         *)
(*                                                                         *)
(*  - no bag of demand is lost or counted twice (DemandIsKept), because    *)
(*    demand that comes back always finds exactly one ticket to join: a    *)
(*    store has one active ticket per product at most, and a row of the    *)
(*    table that is no ticket yet counts for nothing (TicketInv);          *)
(*  - the reserved quantity of a product is what live offers and active    *)
(*    lines hold of it (BooksBalance): every command changes it by totals  *)
(*    it computes itself and the holds row by row, and that both agree     *)
(*    needs that a snapshot makes its offers on rows that hold nothing     *)
(*    (NoOffersBeforeSnapshot), and that a run makes its lines on rows     *)
(*    that hold nothing (NoLinesBeforeRun);                                *)
(*  - a run that is due never throws (DueRunsCommit): this follows in any  *)
(*    state from the invariants of the claims, of the books and of the     *)
(*    tickets;                                                             *)
(*  - a run grants every offer accepted in time in full                    *)
(*    (AcceptedOffersHonoured), because a snapshot covers whatever the     *)
(*    offers made from it still hold (SnapshotCoversOffers), however the   *)
(*    stock has changed since.                                             *)
(***************************************************************************)
EXTENDS AllocationPipeline, QuantitySumsProofs

-----------------------------------------------------------------------------
(* The keys of the tables.                                                 *)

\* A table keyed by three finite sets has finitely many rows.
LEMMA FiniteTriples ==
    ASSUME NEW A, NEW B, NEW C, IsFiniteSet(A), IsFiniteSet(B), IsFiniteSet(C)
    PROVE  IsFiniteSet(A \X B \X C)
<1> DEFINE nested == (A \X B) \X C
           flat == [u \in nested |-> <<u[1][1], u[1][2], u[2]>>]
<1>1. IsFiniteSet(nested)
  BY FS_Product, Zenon
<1>2. flat \in [nested -> A \X B \X C]
  OBVIOUS
<1>3. ASSUME NEW w \in A \X B \X C PROVE \E u \in nested : flat[u] = w
  <2>1. <<<<w[1], w[2]>>, w[3]>> \in nested
    OBVIOUS
  <2>2. flat[<<<<w[1], w[2]>>, w[3]>>] = w
    BY <2>1
  <2> QED BY <2>1, <2>2
<1>4. flat \in Surjection(nested, A \X B \X C)
  <2> HIDE DEF nested, flat
  <2> QED BY <1>2, <1>3, Zenon DEF Surjection
<1> HIDE DEF nested, flat
<1>5. \E f \in Surjection(nested, A \X B \X C) : TRUE
  BY <1>4, Zenon
<1> QED BY <1>1, <1>5, FS_Surjection, Zenon

\* Every table has finitely many rows.
LEMMA FiniteKeys ==
    /\ IsFiniteSet(Pair) /\ IsFiniteSet(Ticket) /\ IsFiniteSet(Claim)
    /\ IsFiniteSet(Offer) /\ IsFiniteSet(Line) /\ IsFiniteSet(Result)
<1>1. IsFiniteSet(Store) /\ IsFiniteSet(Product) /\ IsFiniteSet(Session)
  BY PipelineAssumption
<1>2. 0 \in Int /\ 1 \in Int /\ TicketSlots \in Int
  BY PipelineAssumption
<1>3. IsFiniteSet(1 .. TicketSlots) /\ IsFiniteSet(0 .. TicketSlots)
  BY <1>2, FS_Interval, Zenon
<1>4. IsFiniteSet(Ticket) /\ IsFiniteSet(Claim)
  BY <1>1, <1>3, FiniteTriples, Zenon DEF Ticket, Claim
<1>5. IsFiniteSet(Pair) /\ IsFiniteSet(Result)
  BY <1>1, FS_Product, Zenon DEF Pair, Result
<1>6. IsFiniteSet(Offer) /\ IsFiniteSet(Line)
  BY <1>1, <1>4, FS_Product, Zenon DEF Offer, Line
<1> QED BY <1>4, <1>5, <1>6

\* A ticket's claim is the ticket; the other claims are ordinary.
LEMMA ClaimKeys ==
    /\ \A t \in Ticket : t \in Claim /\ ~IsOrdinary(t)
    /\ \A c \in Claim : IsOrdinary(c) \/ c \in Ticket
    /\ \A c \in Claim :
          c[1] \in Store /\ c[2] \in Product /\ PairOf(c) \in Pair
    /\ \A t \in Ticket :
          t[1] \in Store /\ t[2] \in Product /\ PairOf(t) \in Pair
BY PipelineAssumption DEF Ticket, Claim, IsOrdinary, PairOf, Pair

\* An offer's key is the key of the line it becomes.
LEMMA LineKeys ==
    /\ \A o \in Offer : /\ o[1] \in Session /\ o[2] \in Ticket
                        /\ o = <<o[1], o[2]>> /\ o \in Line
                        /\ ProductOf(o) \in Product
    /\ \A l \in Line : /\ l[1] \in Session /\ l[2] \in Claim
                       /\ l = <<l[1], l[2]>> /\ SourceOf(l) = l[2]
                       /\ SourceOf(l)[1] \in Store
                       /\ ProductOf(l) \in Product /\ ResultOf(l) \in Result
                       /\ ResultOf(l) = <<l[1], SourceOf(l)[1]>>
    /\ \A n \in Session, c \in Claim : <<n, c>> \in Line
    /\ \A n \in Session, t \in Ticket : <<n, t>> \in Offer
<1> USE ClaimKeys
<1>1. \A o \in Offer : /\ o[1] \in Session /\ o[2] \in Ticket
                       /\ o = <<o[1], o[2]>> /\ o \in Line
                       /\ ProductOf(o) \in Product
  BY DEF Offer, Line, ProductOf
<1>2. \A l \in Line : /\ l[1] \in Session /\ l[2] \in Claim
                      /\ l = <<l[1], l[2]>> /\ SourceOf(l) = l[2]
                      /\ SourceOf(l)[1] \in Store
                      /\ ProductOf(l) \in Product /\ ResultOf(l) \in Result
                      /\ ResultOf(l) = <<l[1], SourceOf(l)[1]>>
  BY DEF Line, SourceOf, ProductOf, ResultOf, Result
<1>3. /\ \A n \in Session, c \in Claim : <<n, c>> \in Line
      /\ \A n \in Session, t \in Ticket : <<n, t>> \in Offer
  BY DEF Line, Offer
<1> QED BY <1>1, <1>2, <1>3, Zenon

\* A plan of the snapshot job is a quantity for every ticket, a grant of the
\* run a quantity for every claim.
LEMMA ChoiceTypes ==
    /\ \A n \in Session : \A plan \in OfferPlans(n) : plan \in [Ticket -> Nat]
    /\ \A n \in Session : \A grant \in Grants(n) : grant \in [Claim -> Nat]
<1>1. 0 .. MaxStock \subseteq Nat
  BY PipelineAssumption
<1>2. ASSUME NEW K, NEW D, NEW choice \in [D -> 0 .. MaxStock]
      PROVE  Extended(choice, K) \in [K -> Nat]
  BY <1>1 DEF Extended
<1>3. ASSUME NEW n \in Session, NEW plan \in OfferPlans(n)
      PROVE  plan \in [Ticket -> Nat]
  <2>1. PICK choice \in [Offerable(n) -> 0 .. MaxStock] :
            plan = Extended(choice, Ticket)
    BY Zenon DEF OfferPlans
  <2> QED BY <2>1, <1>2, Zenon
<1>4. ASSUME NEW n \in Session, NEW grant \in Grants(n)
      PROVE  grant \in [Claim -> Nat]
  <2>1. PICK choice \in [{c \in Claim : Want(n)[c] > 0} -> 0 .. MaxStock] :
            grant = Extended(choice, Claim)
    BY Zenon DEF Grants
  <2> QED BY <2>1, <1>2, Zenon
<1> QED BY <1>3, <1>4, Zenon

-----------------------------------------------------------------------------
(* The types of the totals and of the rows a run writes.                   *)

\* What offers and lines hold is a number.
LEMMA HeldTypes ==
    ASSUME TypeOK
    PROVE  /\ \A set, p : OfferHeld(set, p) \in Nat
           /\ \A set, p : LineHeld(set, p) \in Nat
           /\ \A set : HeldQuantity(set) \in Nat
<1>1. \A o \in Offer : offer[o].held \in Nat
  BY DEF TypeOK, OfferType
<1>2. \A l \in Line : hold[l].qty \in Nat
  BY DEF TypeOK, HoldType
<1>3. ASSUME NEW set, NEW p PROVE OfferHeld(set, p) \in Nat
  <2> DEFINE f == [o \in Offer |->
                     IF o \in set /\ ProductOf(o) = p THEN offer[o].held ELSE 0]
  <2>1. f \in [Offer -> Nat]
    BY <1>1
  <2>2. SumOf(f) \in Nat
    BY <2>1, FiniteKeys, SumType, Zenon
  <2> QED BY <2>2, Zenon DEF OfferHeld
<1>4. ASSUME NEW set, NEW p PROVE LineHeld(set, p) \in Nat
  <2> DEFINE f == [l \in Line |->
                     IF l \in set /\ ProductOf(l) = p THEN hold[l].qty ELSE 0]
  <2>1. f \in [Line -> Nat]
    BY <1>2
  <2>2. SumOf(f) \in Nat
    BY <2>1, FiniteKeys, SumType, Zenon
  <2> QED BY <2>2, Zenon DEF LineHeld
<1>5. ASSUME NEW set PROVE HeldQuantity(set) \in Nat
  <2> DEFINE f == [l \in Line |-> IF l \in set THEN hold[l].qty ELSE 0]
  <2>1. f \in [Line -> Nat]
    BY <1>2
  <2>2. SumOf(f) \in Nat
    BY <2>1, FiniteKeys, SumType, Zenon
  <2> QED BY <2>2, Zenon DEF HeldQuantity
<1> QED BY <1>3, <1>4, <1>5

\* What a run grants a store is a number.
LEMMA GrantedType ==
    ASSUME NEW grant \in [Claim -> Nat], NEW s
    PROVE  GrantedTo(grant, s) \in Nat
<1> DEFINE f == [c \in Claim |-> IF c[1] = s THEN grant[c] ELSE 0]
<1>1. f \in [Claim -> Nat]
  OBVIOUS
<1>2. SumOf(f) \in Nat
  BY <1>1, FiniteKeys, SumType, Zenon
<1> QED BY <1>2, Zenon DEF GrantedTo

\* Goods nobody holds.
LEMMA AvailableType ==
    ASSUME TypeOK, NEW p \in Product
    PROVE  Available(p) \in Nat
BY DEF TypeOK, Balanced, Available

\* A ticket's row before its CHECK constraints are applied.
TicketRow ==
    [status : TicketStatus, original : Int, remaining : Int, fulfilled : Int]

\* The CHECK constraints turn a row into a ticket.
LEMMA CheckedRow ==
    ASSUME NEW row \in TicketRow, ValidTicket(row)
    PROVE  row \in TicketType
BY DEF TicketRow, TicketType, ValidTicket

\* Receiving, fulfilling and closing keep the row's shape.
LEMMA RowOperations ==
    ASSUME NEW row \in TicketRow, NEW a \in Int, NEW b \in Int
    PROVE  /\ Receive(row, a, b) \in TicketRow
           /\ Fulfil(row, a) \in TicketRow
           /\ CloseTicket(row) \in TicketRow
<1>1. /\ row.status \in TicketStatus /\ row.original \in Int
      /\ row.remaining \in Int /\ row.fulfilled \in Int
  BY DEF TicketRow
<1>2. Receive(row, a, b) \in TicketRow
  <2>1. NewTicket(a) \in TicketRow
    BY DEF NewTicket, TicketRow, TicketStatus
  <2>2. /\ row.original + a \in Int /\ row.remaining + a + b \in Int
        /\ row.fulfilled - b \in Int
    BY <1>1
  <2>3. [row EXCEPT !.original = @ + a, !.remaining = @ + a + b,
                    !.fulfilled = @ - b] \in TicketRow
    BY <2>2 DEF TicketRow
  <2> QED BY <2>1, <2>3 DEF Receive
<1>3. Fulfil(row, a) \in TicketRow
  <2> DEFINE status == IF a > 0 /\ row.remaining = a THEN "fulfilled" ELSE row.status
  <2>1. /\ row.remaining - a \in Int /\ row.fulfilled + a \in Int
        /\ status \in TicketStatus
    BY <1>1 DEF TicketStatus
  <2> HIDE DEF status
  <2>2. [row EXCEPT !.remaining = @ - a, !.fulfilled = @ + a, !.status = status]
            \in TicketRow
    BY <2>1 DEF TicketRow
  <2> QED BY <2>2 DEF Fulfil, status
<1>4. CloseTicket(row) \in TicketRow
  BY DEF CloseTicket, TicketRow, TicketStatus
<1> QED BY <1>2, <1>3, <1>4

\* A closed offer is an offer.
LEMMA ClosedOfferType ==
    ASSUME NEW row \in OfferType, NEW status \in OfferStatus
    PROVE  CloseOffer(row, status) \in OfferType
BY DEF OfferType, CloseOffer

\* Detaching a line from a shipment keeps its type.
LEMMA DetachedType ==
    ASSUME NEW row \in HoldType
    PROVE  Detached(row) \in HoldType
BY DEF HoldType, Detached

\* So does a new status, with another shipment or not.
LEMMA RestatusedTypes ==
    /\ \A row \in OfferType, status \in OfferStatus :
          [row EXCEPT !.status = status] \in OfferType
    /\ \A row \in TicketType, status \in TicketStatus :
          [row EXCEPT !.status = status] \in TicketType
    /\ \A row \in HoldType, status \in HoldStatus :
          [row EXCEPT !.status = status] \in HoldType
    /\ \A row \in HoldType, status \in HoldStatus, ship \in Session \cup {NoShipment} :
          [row EXCEPT !.status = status, !.ship = ship] \in HoldType
<1>1. ASSUME NEW row \in OfferType, NEW status \in OfferStatus
      PROVE  [row EXCEPT !.status = status] \in OfferType
  BY DEF OfferType
<1>2. ASSUME NEW row \in TicketType, NEW status \in TicketStatus
      PROVE  [row EXCEPT !.status = status] \in TicketType
  BY DEF TicketType
<1>3. ASSUME NEW row \in HoldType, NEW status \in HoldStatus
      PROVE  [row EXCEPT !.status = status] \in HoldType
  BY DEF HoldType
<1>4. ASSUME NEW row \in HoldType, NEW status \in HoldStatus,
             NEW ship \in Session \cup {NoShipment}
      PROVE  [row EXCEPT !.status = status, !.ship = ship] \in HoldType
  BY DEF HoldType
<1> QED BY <1>1, <1>2, <1>3, <1>4

-----------------------------------------------------------------------------
(* Init and each action keep the types.                                    *)

LEMMA InitTypes == Init => TypeOK
<1> SUFFICES ASSUME Init PROVE TypeOK
  OBVIOUS
<1>1. Balanced(onHand, reserved)
  BY PipelineAssumption DEF Init, Balanced
<1>2. ticket \in [Ticket -> TicketType]
  BY PipelineAssumption, ClaimKeys
     DEF Init, TicketType, TicketStatus, NewTicket, NoTicket, Pair
<1>3. offer \in [Offer -> OfferType]
  BY DEF Init, OfferType, OfferStatus, NoOffer
<1>4. hold \in [Line -> HoldType]
  BY DEF Init, HoldType, HoldStatus, NoHold
<1>5. decision \in [Result -> DecisionType]
  BY DEF Init, DecisionType, DecisionStatus, NoDecision
<1>6. onHand \in [Product -> Nat] /\ reserved \in [Product -> Nat]
  BY PipelineAssumption DEF Init
<1>7. shipment \in [Result -> ShipmentStatus]
  BY DEF Init, ShipmentStatus
<1>8. /\ now \in Nat /\ startedAt \in Nat
      /\ dueStock \in [Session -> [Product -> Nat]]
      /\ session \in [Session -> {"open", "completed", "cancelled"}]
      /\ taken \in [Session -> BOOLEAN]
      /\ snapshot \in [Session -> [Product -> Nat]]
      /\ requests \in [Result -> Nat] /\ ordered \in [Session \X Pair -> Nat]
  BY DEF Init
<1> QED BY <1>1, <1>2, <1>3, <1>4, <1>5, <1>6, <1>7, <1>8 DEF TypeOK

LEMMA ClockTypes ==
    ASSUME TypeOK, Tick \/ StartTick
    PROVE  TypeOK'
<1>1. CASE Tick
  <2>1. dueStock' \in [Session -> [Product -> Nat]]
    BY <1>1, AvailableType DEF Tick, TypeOK
  <2>2. now' \in Nat
    BY <1>1 DEF Tick, TypeOK
  <2> QED
    BY <1>1, <2>1, <2>2
       DEF Tick, TypeOK, Balanced, warehouse, sessions, results, clock
<1>2. CASE StartTick
  BY <1>2 DEF StartTick, TypeOK, Balanced, warehouse, sessions, results
<1> QED BY <1>1, <1>2

LEMMA StockTypes ==
    ASSUME TypeOK, NEW p \in Product, IncreaseStock(p) \/ DecreaseStock(p)
    PROVE  TypeOK'
<1>1. onHand' \in [Product -> Nat] /\ Balanced(onHand', reserved)
  <2>1. CASE IncreaseStock(p)
    BY <2>1 DEF IncreaseStock, TypeOK, Balanced
  <2>2. CASE DecreaseStock(p)
    BY <2>2 DEF DecreaseStock, TypeOK, Balanced, Available
  <2> QED BY <2>1, <2>2
<1> QED
  BY <1>1 DEF IncreaseStock, DecreaseStock, TypeOK, Balanced, sessions, results, clock

LEMMA SessionTypes ==
    ASSUME TypeOK, NEW n \in Session,
           \/ CancelSession(n)
           \/ \E s \in Store, items \in Items : SubmitOrder(n, s, items)
    PROVE  TypeOK'
<1>1. CASE CancelSession(n)
  <2>1. /\ session' \in [Session -> {"open", "completed", "cancelled"}]
        /\ requests' \in [Result -> Nat]
        /\ ordered' \in [Session \X Pair -> Nat]
    BY <1>1 DEF CancelSession, TypeOK
  <2> QED
    BY <1>1, <2>1 DEF CancelSession, TypeOK, Balanced, warehouse, results, clock
<1>2. CASE \E s \in Store, items \in Items : SubmitOrder(n, s, items)
  <2>1. PICK s \in Store, items \in Items : SubmitOrder(n, s, items)
    BY <1>2
  <2>2. \A q \in Product : items[q] \in Nat
    BY PipelineAssumption DEF Items
  <2>3. ASSUME NEW l \in Session \X Pair PROVE l[2][2] \in Product
    BY DEF Pair
  <2>4. requests' \in [Result -> Nat]
    BY <2>1 DEF SubmitOrder, TypeOK, Result
  <2>5. ordered' \in [Session \X Pair -> Nat]
    <3>1. ASSUME NEW l \in Session \X Pair
          PROVE  ordered[l] \in Nat /\ ordered[l] + items[l[2][2]] \in Nat
      BY <2>2, <2>3 DEF TypeOK
    <3> QED BY <2>1, <3>1 DEF SubmitOrder
  <2> QED
    BY <2>1, <2>4, <2>5 DEF SubmitOrder, TypeOK, Balanced, warehouse, results, clock
<1> QED BY <1>1, <1>2

LEMMA SnapshotTypes ==
    ASSUME TypeOK, NEW n \in Session, NEW plan \in OfferPlans(n),
           CaptureSnapshot(n, plan)
    PROVE  TypeOK'
<1>1. plan \in [Ticket -> Nat]
  BY ChoiceTypes
<1>2. \A p \in Product : Historical(n, p) \in Nat
  BY AvailableType DEF Historical, TypeOK
<1>3. snapshot' \in [Session -> [Product -> Nat]]
  BY <1>2 DEF CaptureSnapshot, TypeOK
<1>4. offer' \in [Offer -> OfferType]
  <2>1. ASSUME NEW o \in Offer
        PROVE  [status |-> "offered", qty |-> plan[o[2]],
                eligible |-> ticket[o[2]].remaining, held |-> plan[o[2]]]
                   \in OfferType
    <3>1. plan[o[2]] \in Nat /\ ticket[o[2]].remaining \in Nat
      BY <1>1, LineKeys DEF TypeOK, TicketType
    <3> QED BY <3>1 DEF OfferType, OfferStatus
  <2> QED BY <2>1 DEF CaptureSnapshot, TypeOK
<1>5. taken' \in [Session -> BOOLEAN]
  BY DEF CaptureSnapshot, TypeOK
<1>6. Balanced(onHand, reserved') /\ reserved' \in [Product -> Nat]
  BY DEF CaptureSnapshot, Balanced, TypeOK
<1> QED
  BY <1>3, <1>4, <1>5, <1>6 DEF CaptureSnapshot, TypeOK, Balanced, results, clock

LEMMA OfferAnswerTypes ==
    ASSUME TypeOK, NEW o \in Offer,
           AcceptOffer(o) \/ DeclineOffer(o) \/ AnswerLate(o)
    PROVE  TypeOK'
<1>1. CASE AcceptOffer(o)
  <2>1. offer' \in [Offer -> OfferType]
    <3>1. "accepted" \in OfferStatus
      BY DEF OfferStatus
    <3>2. [offer[o] EXCEPT !.status = "accepted"] \in OfferType
      BY <3>1, RestatusedTypes DEF TypeOK
    <3> QED BY <1>1, <3>2 DEF AcceptOffer, TypeOK
  <2> QED
    BY <1>1, <2>1
       DEF AcceptOffer, TypeOK, Balanced, warehouse, sessions, results, clock
<1>2. ASSUME NEW status \in OfferStatus, EndOffer(o, status) PROVE TypeOK'
  <2>1. offer' \in [Offer -> OfferType]
    BY <1>2, ClosedOfferType DEF EndOffer, TypeOK
  <2>2. Balanced(onHand, reserved') /\ reserved' \in [Product -> Nat]
    <3> DEFINE left(p) == reserved[p] - OfferHeld({o}, p)
    <3>1. /\ Balanced(onHand, reserved')
          /\ reserved' = [p \in Product |-> left(p)]
      BY <1>2 DEF EndOffer
    <3> HIDE DEF left
    <3> QED BY <3>1 DEF Balanced, TypeOK
  <2>3. ticket' \in [Ticket -> TicketType]
    <3>1. "cancelled" \in TicketStatus /\ ticket \in [Ticket -> TicketType]
      BY DEF TypeOK, TicketStatus
    <3>2. CloseTicket(ticket[o[2]]) \in TicketType
      BY <3>1, LineKeys, RestatusedTypes DEF CloseTicket
    <3>3. (IF EndsWait(o, {o}) THEN CloseTicket(ticket[o[2]]) ELSE ticket[o[2]]) \in TicketType
      BY <3>1, <3>2, LineKeys
    <3> QED BY <1>2, <3>1, <3>3 DEF EndOffer
  <2> QED
    BY <1>2, <2>1, <2>2, <2>3 DEF EndOffer, TypeOK, Balanced, sessions, results, clock
<1>3. "declined" \in OfferStatus /\ "expired" \in OfferStatus
  BY DEF OfferStatus
<1> QED BY <1>1, <1>2, <1>3 DEF DeclineOffer, AnswerLate

\* The tickets after a run are rows, whatever it grants.
LEMMA RunRows ==
    ASSUME TypeOK, NEW n \in Session, NEW grant \in [Claim -> Nat],
           NEW t \in Ticket
    PROVE  TicketsAfterRun(n, grant)[t] \in TicketRow
<1>1. ticket[t] \in TicketRow
  BY DEF TypeOK, TicketType, TicketRow
<1>2. TicketsAfterExpiry(n)[t] \in TicketRow
  BY <1>1, RowOperations DEF TicketsAfterExpiry
<1>3. grant[t] \in Int
  BY ClaimKeys
<1>4. TicketsAfterGrants(n, grant)[t] \in TicketRow
  BY <1>2, <1>3, RowOperations DEF TicketsAfterGrants
<1>5. Shortfall(n, grant, PairOf(t)) \in Int
  <2>1. <<n, PairOf(t)>> \in Session \X Pair
    BY ClaimKeys
  <2>2. <<PairOf(t)[1], PairOf(t)[2], 0>> \in Claim
    BY ClaimKeys, PipelineAssumption DEF Claim, PairOf
  <2> QED BY <2>1, <2>2 DEF Shortfall, TypeOK
<1>6. Receive(TicketsAfterGrants(n, grant)[t], Shortfall(n, grant, PairOf(t)), 0)
          \in TicketRow
  <2>1. 0 \in Int
    OBVIOUS
  <2> QED BY <2>1, <1>4, <1>5, RowOperations, Zenon
<1> QED BY <1>4, <1>6 DEF TicketsAfterRun

LEMMA RunTypes ==
    ASSUME TypeOK, NEW n \in Session, NEW grant \in Grants(n),
           FinalizeAllocation(n, grant)
    PROVE  TypeOK'
<1>1. grant \in [Claim -> Nat]
  BY ChoiceTypes
<1>2. session' \in [Session -> {"open", "completed", "cancelled"}]
  BY DEF FinalizeAllocation, TypeOK
<1>3. offer' \in [Offer -> OfferType]
  <2>1. \A o \in Offer : /\ CloseOffer(offer[o], "expired") \in OfferType
                         /\ CloseOffer(offer[o], "accepted") \in OfferType
    BY ClosedOfferType DEF TypeOK, OfferStatus
  <2> QED BY <2>1 DEF FinalizeAllocation, TypeOK
<1>4. reserved' \in [Product -> Nat] /\ Balanced(onHand', reserved')
  <2>1. \A p \in Product : reserved'[p] \in 0 .. onHand[p]
    BY DEF FinalizeAllocation, RunCommits
  <2> QED BY <2>1 DEF FinalizeAllocation, Balanced, TypeOK
<1>5. ticket' \in [Ticket -> TicketType]
  <2>1. \A t \in Ticket : TicketsAfterRun(n, grant)[t] \in TicketType
    BY <1>1, RunRows, CheckedRow DEF FinalizeAllocation, RunCommits
  <2>2. ticket' = [t \in Ticket |-> TicketsAfterRun(n, grant)[t]]
    BY DEF FinalizeAllocation, TicketsAfterRun
  <2> QED BY <2>1, <2>2
<1>6. hold' \in [Line -> HoldType]
  <2>1. ASSUME NEW l \in Line PROVE HoldAfterRun(n, grant, l) \in HoldType
    <3> DEFINE ship == IF Ships(n, grant, SourceOf(l)[1]) THEN n ELSE NoShipment
    <3>1. hold[l] \in HoldType /\ grant[SourceOf(l)] \in Nat
      BY <1>1, LineKeys DEF TypeOK
    <3>2. ship \in Session \cup {NoShipment}
      OBVIOUS
    <3> HIDE DEF ship
    <3>3. [hold[l] EXCEPT !.ship = ship] \in HoldType
      BY <3>1, <3>2 DEF HoldType
    <3>4. [status |-> "active", qty |-> grant[SourceOf(l)], ship |-> ship] \in HoldType
      BY <3>1, <3>2 DEF HoldType, HoldStatus
    <3> QED BY <3>1, <3>3, <3>4 DEF HoldAfterRun, ship
  <2> QED BY <2>1 DEF FinalizeAllocation
<1>7. decision' \in [Result -> DecisionType]
  <2>1. \A s : DecisionAfterRun(n, grant, s) \in DecisionType
    BY <1>1, GrantedType DEF DecisionAfterRun, DecisionType, DecisionStatus
  <2> QED BY <2>1 DEF FinalizeAllocation, TypeOK
<1>8. shipment' \in [Result -> ShipmentStatus]
  BY DEF FinalizeAllocation, TypeOK, ShipmentAfterRun, ShipmentStatus
<1> QED
  BY <1>2, <1>3, <1>4, <1>5, <1>6, <1>7, <1>8 DEF FinalizeAllocation, TypeOK, clock

LEMMA AcceptTypes ==
    ASSUME TypeOK, NEW r \in Result, AcceptResult(r)
    PROVE  TypeOK'
<1>1. decision' \in [Result -> DecisionType]
  BY DEF AcceptResult, TypeOK, DecisionType, DecisionStatus
<1>2. hold' \in [Line -> HoldType]
  BY DEF AcceptResult, TypeOK, HoldType, HoldStatus
<1>3. /\ onHand' \in [Product -> Nat] /\ reserved' \in [Product -> Nat]
      /\ Balanced(onHand', reserved')
  BY DEF AcceptResult, Balanced
<1>4. shipment' \in [Result -> ShipmentStatus]
  BY DEF AcceptResult, TypeOK, ShipmentStatus
<1> QED BY <1>1, <1>2, <1>3, <1>4 DEF AcceptResult, TypeOK, sessions, clock

LEMMA WaitlistTypes ==
    ASSUME TypeOK, NEW r \in Result, WaitlistResult(r)
    PROVE  TypeOK'
<1>1. decision' \in [Result -> DecisionType]
  BY DEF WaitlistResult, TypeOK, DecisionType, DecisionStatus
<1>2. hold' \in [Line -> HoldType]
  <2>1. ASSUME NEW l \in Line, NEW status \in HoldStatus
        PROVE  [hold[l] EXCEPT !.status = status] \in HoldType
    BY RestatusedTypes DEF TypeOK
  <2>2. "skipped" \in HoldStatus /\ "requeued" \in HoldStatus
    BY DEF HoldStatus
  <2> QED BY <2>1, <2>2, DetachedType DEF WaitlistResult, TypeOK
<1>3. reserved' \in [Product -> Nat] /\ Balanced(onHand', reserved')
  BY DEF WaitlistResult, Balanced
<1>4. ticket' \in [Ticket -> TicketType]
  <2>1. ASSUME NEW t \in Ticket PROVE TicketsAfterReturn(r)[t] \in TicketRow
    <3>1. ticket[t] \in TicketRow
      BY DEF TypeOK, TicketType, TicketRow
    <3>2. Added(r, PairOf(t)) \in Int /\ Restored(r, PairOf(t)) \in Int
      BY HeldTypes DEF Added, Restored, ReturnedTo
    <3> QED BY <3>1, <3>2, RowOperations DEF TicketsAfterReturn
  <2>2. \A t \in Ticket : TicketsAfterReturn(r)[t] \in TicketType
    BY <2>1, CheckedRow DEF WaitlistResult
  <2>3. ticket' = [t \in Ticket |-> TicketsAfterReturn(r)[t]]
    BY DEF WaitlistResult, TicketsAfterReturn
  <2> QED BY <2>2, <2>3
<1>5. shipment' \in [Result -> ShipmentStatus]
  BY DEF WaitlistResult, TypeOK, ShipmentStatus, ClosedShipment
<1> QED
  BY <1>1, <1>2, <1>3, <1>4, <1>5 DEF WaitlistResult, TypeOK, Balanced, sessions, clock

LEMMA CancelTypes ==
    ASSUME TypeOK, NEW t \in Ticket, CancelTicket(t)
    PROVE  TypeOK'
<1> DEFINE back == HeldQuantity(RevocableOf(t))
<1>1. back \in Nat
  BY HeldTypes
<1>2. ticket' \in [Ticket -> TicketType]
  <2> DEFINE row == [ticket[t] EXCEPT !.status = "cancelled",
                        !.remaining = @ + back, !.fulfilled = @ - back]
  <2>1. /\ ticket[t] \in TicketType /\ ticket[t].remaining + back \in Int
        /\ ticket[t].fulfilled - back \in Int
    BY <1>1 DEF TypeOK, TicketType
  <2>2. row \in TicketRow
    <3>1. ASSUME NEW w \in TicketRow, NEW status \in TicketStatus,
                 NEW a \in Int, NEW b \in Int
          PROVE  [w EXCEPT !.status = status, !.remaining = a, !.fulfilled = b]
                     \in TicketRow
      BY DEF TicketRow
    <3>2. "cancelled" \in TicketStatus
      BY DEF TicketStatus
    <3>3. ticket[t] \in TicketRow
      BY <2>1 DEF TicketType, TicketRow
    <3> QED BY <2>1, <3>1, <3>2, <3>3
  <2>3. ticket' = [ticket EXCEPT ![t] = row]
    BY DEF CancelTicket
  <2>4. ticket'[t] = row
    BY <2>3 DEF TypeOK
  <2>5. row \in TicketType
    BY <2>2, <2>4, CheckedRow DEF CancelTicket
  <2> QED BY <2>3, <2>5 DEF TypeOK
<1>3. offer' \in [Offer -> OfferType]
  BY ClosedOfferType DEF CancelTicket, TypeOK, OfferStatus
<1>4. reserved' \in [Product -> Nat] /\ Balanced(onHand', reserved')
  <2> DEFINE left(p) == reserved[p] - OfferHeld(LiveFor(t), p)
                          - LineHeld(RevocableOf(t), p)
  <2>1. /\ Balanced(onHand, reserved') /\ onHand' = onHand
        /\ reserved' = [p \in Product |-> left(p)]
    BY DEF CancelTicket
  <2> HIDE DEF left
  <2>2. reserved' \in [Product -> Nat]
    BY <2>1 DEF Balanced, TypeOK
  <2> QED BY <2>1, <2>2
<1>5. decision' \in [Result -> DecisionType]
  <2>1. ASSUME NEW r \in Result
        PROVE  [decision[r] EXCEPT
                  !.revoked = @ + HeldQuantity(RevokedFrom(t, r)),
                  !.status = IF Emptied(t, r) THEN "cancelled" ELSE @] \in DecisionType
    <3>1. ASSUME NEW w \in DecisionType, NEW status \in DecisionStatus,
                 NEW q \in Nat
          PROVE  [w EXCEPT !.revoked = @ + q, !.status = status] \in DecisionType
      <4>1. w.revoked + q \in Nat
        BY DEF DecisionType
      <4> QED BY <4>1 DEF DecisionType
    <3>2. /\ decision[r] \in DecisionType
          /\ HeldQuantity(RevokedFrom(t, r)) \in Nat
          /\ (IF Emptied(t, r) THEN "cancelled" ELSE decision[r].status)
                 \in DecisionStatus
      BY HeldTypes DEF TypeOK, DecisionType, DecisionStatus
    <3> QED BY <3>1, <3>2
  <2> QED BY <2>1 DEF CancelTicket
<1>6. hold' \in [Line -> HoldType]
  <2>1. ASSUME NEW l \in Line, NEW ship \in Session \cup {NoShipment}
        PROVE  [hold[l] EXCEPT !.status = "revoked", !.ship = ship] \in HoldType
    <3>1. "revoked" \in HoldStatus /\ hold[l] \in HoldType
      BY DEF TypeOK, HoldStatus
    <3> QED BY <3>1, RestatusedTypes
  <2>2. \A l \in Line : hold[l] \in HoldType /\ hold[l].ship \in Session \cup {NoShipment}
    BY DEF TypeOK, HoldType
  <2> QED BY <2>1, <2>2, DetachedType DEF CancelTicket
<1>7. shipment' \in [Result -> ShipmentStatus]
  BY DEF CancelTicket, TypeOK, ShipmentStatus, ClosedShipment
<1> QED
  BY <1>2, <1>3, <1>4, <1>5, <1>6, <1>7 DEF CancelTicket, TypeOK, Balanced, sessions, clock

-----------------------------------------------------------------------------
\* A step that changes nothing keeps the types.
LEMMA StutterTypes == TypeOK /\ UNCHANGED vars => TypeOK'
BY DEF TypeOK, Balanced, vars, clock, warehouse, sessions, results

\* Every command keeps the types.
LEMMA NextTypes == TypeOK /\ [Next]_vars => TypeOK'
<1> SUFFICES ASSUME TypeOK, [Next]_vars PROVE TypeOK'
  OBVIOUS
<1>1. CASE Tick \/ StartTick
  BY <1>1, ClockTypes
<1>2. CASE \E p \in Product : IncreaseStock(p) \/ DecreaseStock(p)
  BY <1>2, StockTypes
<1>3. CASE \E n \in Session : CancelSession(n)
  BY <1>3, SessionTypes
<1>4. CASE \E n \in Session, s \in Store, items \in Items : SubmitOrder(n, s, items)
  BY <1>4, SessionTypes
<1>5. CASE Snapshots
  BY <1>5, SnapshotTypes DEF Snapshots
<1>6. CASE Runs
  BY <1>6, RunTypes DEF Runs
<1>7. CASE \E o \in Offer : AcceptOffer(o) \/ DeclineOffer(o) \/ AnswerLate(o)
  BY <1>7, OfferAnswerTypes
<1>8. CASE \E r \in Result : AcceptResult(r) \/ WaitlistResult(r)
  BY <1>8, AcceptTypes, WaitlistTypes
<1>9. CASE \E t \in Ticket : CancelTicket(t)
  BY <1>9, CancelTypes
<1>10. CASE UNCHANGED vars
  BY <1>10, StutterTypes
<1> QED
  BY <1>1, <1>2, <1>3, <1>4, <1>5, <1>6, <1>7, <1>8, <1>9, <1>10 DEF Next, Answers

\* The types hold in every reachable state: in particular the database never
\* holds a negative quantity, and no bag is reserved that is not on hand.
THEOREM TypeCorrect == Spec => []TypeOK
BY InitTypes, NextTypes, PTL DEF Spec

-----------------------------------------------------------------------------
(* Claims on tickets.                                                      *)

\* A step that only ends claims, and keeps the tickets of those that live
\* on waiting for at least as much, keeps every live claim good.
LEMMA ClaimsKept ==
    ASSUME TypeOK, TypeOK', LiveOfferBacked,
           \A o \in Offer : Live(o)' =>
               /\ Live(o)
               /\ offer'[o].qty = offer[o].qty /\ offer'[o].held = offer[o].held
               /\ ticket'[o[2]].status = "active"
               /\ ticket'[o[2]].remaining >= ticket[o[2]].remaining
    PROVE  LiveOfferBacked'
<1> SUFFICES ASSUME NEW o \in Offer, Live(o)'
             PROVE  /\ ticket'[o[2]].status = "active"
                    /\ offer'[o].qty <= ticket'[o[2]].remaining
                    /\ offer'[o].held = offer'[o].qty /\ offer'[o].qty > 0
                    /\ LiveFor(o[2])' = {o}
  BY DEF LiveOfferBacked
<1>1. /\ Live(o)
      /\ offer'[o].qty = offer[o].qty /\ offer'[o].held = offer[o].held
      /\ ticket'[o[2]].status = "active"
      /\ ticket'[o[2]].remaining >= ticket[o[2]].remaining
  OBVIOUS
<1>2. /\ offer[o].qty <= ticket[o[2]].remaining
      /\ offer[o].held = offer[o].qty /\ offer[o].qty > 0
      /\ LiveFor(o[2]) = {o}
  BY <1>1 DEF LiveOfferBacked
<1>3. /\ offer[o].qty \in Nat /\ ticket[o[2]].remaining \in Nat
      /\ ticket'[o[2]].remaining \in Nat
  BY LineKeys DEF TypeOK, OfferType, TicketType
<1>4. LiveFor(o[2])' \subseteq LiveFor(o[2])
  BY DEF LiveFor
<1>5. o \in LiveFor(o[2])'
  BY DEF LiveFor
<1>6. LiveFor(o[2])' = {o}
  BY <1>2, <1>4, <1>5
<1>7. offer'[o].qty <= ticket'[o[2]].remaining
  BY <1>1, <1>2, <1>3
<1> QED BY <1>1, <1>2, <1>6, <1>7

\* The tables claims are made of.
LEMMA UntouchedClaims ==
    ASSUME LiveOfferBacked, UNCHANGED <<offer, ticket, session>>
    PROVE  LiveOfferBacked'
BY DEF LiveOfferBacked, LiveFor, Live

LEMMA CancelSessionClaims ==
    ASSUME TypeOK, TypeOK', LiveOfferBacked, NEW n \in Session, CancelSession(n)
    PROVE  LiveOfferBacked'
<1>1. ASSUME NEW o \in Offer, Live(o)' PROVE Live(o)
  BY <1>1, LineKeys DEF CancelSession, Live, TypeOK
<1>2. ASSUME NEW o \in Offer, Live(o)
      PROVE  ticket[o[2]].status = "active" /\ ticket[o[2]].remaining \in Nat
  BY <1>2, LineKeys DEF LiveOfferBacked, TypeOK, TicketType
<1>3. offer' = offer /\ ticket' = ticket
  BY DEF CancelSession
<1> QED BY <1>1, <1>2, <1>3, ClaimsKept

\* The snapshot job offers a ticket only when nobody has a claim on it, and
\* no more than the ticket waits for.
LEMMA SnapshotClaims ==
    ASSUME TypeOK, LiveOfferBacked, NEW n \in Session, NEW plan \in OfferPlans(n),
           CaptureSnapshot(n, plan)
    PROVE  LiveOfferBacked'
<1>1. session' = session /\ ticket' = ticket
  BY DEF CaptureSnapshot
<1>2. ASSUME NEW o \in Offer
      PROVE  IF PlannedOffer(n, plan, o)
             THEN /\ offer'[o].status = "offered"
                  /\ offer'[o].qty = plan[o[2]] /\ offer'[o].held = plan[o[2]]
             ELSE offer'[o] = offer[o]
  <2> DEFINE made(x) == [status |-> "offered", qty |-> plan[x[2]],
                         eligible |-> ticket[x[2]].remaining, held |-> plan[x[2]]]
  <2>1. offer' = [x \in Offer |-> IF PlannedOffer(n, plan, x) THEN made(x)
                                  ELSE offer[x]]
    BY DEF CaptureSnapshot
  <2>2. /\ made(o).status = "offered"
        /\ made(o).qty = plan[o[2]] /\ made(o).held = plan[o[2]]
    OBVIOUS
  <2> HIDE DEF made
  <2> QED BY <2>1, <2>2
<1>3. ASSUME NEW t \in Offerable(n)
      PROVE  /\ t \in Ticket /\ ticket[t].status = "active" /\ LiveFor(t) = {}
             /\ plan[t] <= ticket[t].remaining
  <2>1. t \in Ticket /\ ticket[t].status = "active" /\ LiveFor(t) = {}
    BY DEF Offerable
  <2> DEFINE tickets == {u \in Offerable(n) : u[2] = t[2]}
             want == [u \in tickets |-> ticket[u].remaining]
             grant == [u \in tickets |-> plan[u]]
  <2>2. t \in tickets /\ t[2] \in Product
    BY <2>1, ClaimKeys
  <2>3. Bounded(want, grant)
    BY <2>2 DEF CaptureSnapshot, IsOfferPlan, IsFairShare
  <2>4. grant[t] \in 0 .. want[t]
    BY <2>2, <2>3 DEF Bounded
  <2>5. plan[t] \in 0 .. ticket[t].remaining
    BY <2>2, <2>4
  <2>6. ticket[t].remaining \in Nat
    BY <2>1 DEF TypeOK, TicketType
  <2> QED BY <2>1, <2>5, <2>6
<1>4. \A o \in Offer : Live(o)' <=> (PlannedOffer(n, plan, o) \/ Live(o))
  <2>1. ASSUME NEW o \in Offer, PlannedOffer(n, plan, o) PROVE Live(o)'
    <3>1. offer'[o].status = "offered"
      BY <1>2, <2>1
    <3> QED BY <3>1 DEF Live
  <2>2. ASSUME NEW o \in Offer, ~PlannedOffer(n, plan, o)
        PROVE  Live(o)' <=> Live(o)
    <3>1. offer'[o] = offer[o]
      BY <1>2, <2>2
    <3> QED BY <1>1, <3>1 DEF Live
  <2> QED BY <2>1, <2>2
<1>5. ASSUME NEW o \in Offer, PlannedOffer(n, plan, o)
      PROVE  LiveFor(o[2])' = {o}
  <2>1. LiveFor(o[2]) = {} /\ o[1] = n /\ o[2] \in Offerable(n)
    BY <1>3, <1>5 DEF PlannedOffer
  <2>2. ASSUME NEW x \in LiveFor(o[2])' PROVE x = o
    <3>1. x \in Offer /\ x[2] = o[2] /\ Live(x)'
      BY <2>2 DEF LiveFor
    <3>2. PlannedOffer(n, plan, x)
      BY <1>4, <2>1, <3>1 DEF LiveFor
    <3> QED BY <2>1, <3>1, <3>2, LineKeys DEF PlannedOffer
  <2>3. o \in LiveFor(o[2])'
    BY <1>4, <1>5 DEF LiveFor
  <2> QED BY <2>2, <2>3
<1>6. ASSUME NEW o \in Offer, Live(o), ~PlannedOffer(n, plan, o)
      PROVE  LiveFor(o[2])' = {o}
  <2>1. LiveFor(o[2]) = {o}
    BY <1>6 DEF LiveOfferBacked
  <2>2. o[2] \notin Offerable(n)
    BY <1>3, <2>1
  <2>3. ASSUME NEW x \in LiveFor(o[2])' PROVE x = o
    <3>1. x \in Offer /\ x[2] = o[2] /\ Live(x)'
      BY <2>3 DEF LiveFor
    <3>2. Live(x)
      BY <1>4, <2>2, <3>1 DEF PlannedOffer
    <3> QED BY <2>1, <3>1, <3>2 DEF LiveFor
  <2>4. o \in LiveFor(o[2])'
    BY <1>4, <1>6 DEF LiveFor
  <2> QED BY <2>3, <2>4
<1> SUFFICES ASSUME NEW o \in Offer, Live(o)'
             PROVE  /\ ticket[o[2]].status = "active"
                    /\ offer'[o].qty <= ticket[o[2]].remaining
                    /\ offer'[o].held = offer'[o].qty /\ offer'[o].qty > 0
                    /\ LiveFor(o[2])' = {o}
  BY <1>1 DEF LiveOfferBacked
<1>7. CASE PlannedOffer(n, plan, o)
  <2>1. offer'[o].qty = plan[o[2]] /\ offer'[o].held = plan[o[2]]
    BY <1>2, <1>7
  <2>2. plan[o[2]] > 0 /\ o[2] \in Offerable(n)
    BY <1>7 DEF PlannedOffer
  <2>3. ticket[o[2]].status = "active" /\ plan[o[2]] <= ticket[o[2]].remaining
    BY <1>3, <2>2
  <2>4. LiveFor(o[2])' = {o}
    BY <1>5, <1>7
  <2> QED BY <2>1, <2>2, <2>3, <2>4
<1>8. CASE ~PlannedOffer(n, plan, o)
  <2>1. Live(o) /\ offer'[o] = offer[o]
    BY <1>2, <1>4, <1>8
  <2>2. LiveFor(o[2])' = {o}
    BY <1>6, <1>8, <2>1
  <2> QED BY <2>1, <2>2 DEF LiveOfferBacked
<1> QED BY <1>7, <1>8

LEMMA OfferAnswerClaims ==
    ASSUME TypeOK, TypeOK', LiveOfferBacked, NEW o \in Offer,
           AcceptOffer(o) \/ DeclineOffer(o) \/ AnswerLate(o)
    PROVE  LiveOfferBacked'
<1>1. \A x \in Offer : ticket[x[2]].remaining \in Nat
  BY LineKeys DEF TypeOK, TicketType
<1>2. CASE AcceptOffer(o)
  <2>1. ticket' = ticket /\ session' = session
    BY <1>2 DEF AcceptOffer, sessions
  <2>2. Live(o)
    BY <1>2 DEF AcceptOffer, Live
  <2>3. \A x \in Offer : /\ offer'[x].qty = offer[x].qty
                         /\ offer'[x].held = offer[x].held
                         /\ x # o => offer'[x] = offer[x]
    BY <1>2 DEF AcceptOffer, TypeOK, OfferType
  <2>4. \A x \in Offer : Live(x)' => Live(x)
    BY <2>1, <2>2, <2>3 DEF Live
  <2>5. \A x \in Offer : Live(x) => ticket[x[2]].status = "active"
    BY DEF LiveOfferBacked
  <2> QED BY <1>1, <2>1, <2>3, <2>4, <2>5, ClaimsKept
<1>3. ASSUME NEW status \in {"declined", "expired"}, EndOffer(o, status)
      PROVE  LiveOfferBacked'
  <2>1. session' = session
    BY <1>3 DEF EndOffer, sessions
  <2>2. Live(o) /\ LiveFor(o[2]) = {o}
    BY <1>3 DEF EndOffer, Live, LiveOfferBacked
  <2>3. /\ offer'[o].status = status
        /\ \A x \in Offer : x # o => offer'[x] = offer[x]
    BY <1>3 DEF EndOffer, TypeOK, OfferType, CloseOffer
  <2>4. ASSUME NEW x \in Offer, Live(x)'
        PROVE  Live(x) /\ x # o
    BY <2>1, <2>3, <2>4 DEF Live
  <2>5. ASSUME NEW x \in Offer, Live(x), x # o
        PROVE  ticket'[x[2]] = ticket[x[2]] /\ ticket[x[2]].status = "active"
    <3>1. x[2] # o[2]
      BY <2>2, <2>5 DEF LiveFor
    <3>2. ticket'[x[2]] = ticket[x[2]]
      BY <1>3, <3>1, LineKeys DEF EndOffer, TypeOK
    <3> QED BY <2>5, <3>2 DEF LiveOfferBacked
  <2> QED BY <1>1, <2>3, <2>4, <2>5, ClaimsKept
<1> QED BY <1>2, <1>3 DEF DeclineOffer, AnswerLate

\* The run ends the claims of its session and of earlier ones; it touches the
\* ticket of another claim only to add new demand to it.
LEMMA RunClaims ==
    ASSUME TypeOK, TypeOK', LiveOfferBacked, NEW n \in Session,
           NEW grant \in Grants(n), FinalizeAllocation(n, grant)
    PROVE  LiveOfferBacked'
<1>1. grant \in [Claim -> Nat]
  BY ChoiceTypes
<1>2. session[n] = "open" /\ session' = [session EXCEPT ![n] = "completed"]
  BY DEF FinalizeAllocation
<1>3. \A o \in Offer :
         offer'[o] = IF o \in Expiring(n) THEN CloseOffer(offer[o], "expired")
                     ELSE IF o \in AcceptedOwn(n) THEN CloseOffer(offer[o], "accepted")
                     ELSE offer[o]
  BY DEF FinalizeAllocation
<1>4. ASSUME NEW o \in Offer, Live(o)'
      PROVE  /\ Live(o) /\ offer'[o] = offer[o]
             /\ o \notin Expiring(n) /\ o[1] # n
  <2>1. o \notin Expiring(n)
    <3>1. SUFFICES ASSUME o \in Expiring(n) PROVE FALSE
      OBVIOUS
    <3>2. offer'[o].status = "expired"
      BY <1>3, <3>1 DEF CloseOffer, TypeOK, OfferType
    <3> QED BY <1>4, <3>2 DEF Live
  <2>2. o \notin AcceptedOwn(n)
    <3>1. SUFFICES ASSUME o \in AcceptedOwn(n) PROVE FALSE
      OBVIOUS
    <3>2. session'[o[1]] = "completed"
      BY <1>2, <3>1, LineKeys DEF AcceptedOwn, TypeOK
    <3>3. offer'[o] = CloseOffer(offer[o], "accepted")
      BY <1>3, <2>1, <3>1
    <3>4. offer'[o].status = "accepted"
      BY <3>3 DEF CloseOffer, TypeOK, OfferType
    <3> QED BY <1>4, <3>2, <3>4 DEF Live
  <2>3. offer'[o] = offer[o]
    BY <1>3, <2>1, <2>2
  <2>4. o[1] # n
    BY <1>4, <2>1, <2>2, <2>3 DEF Live, Expiring, AcceptedOwn
  <2>5. Live(o)
    BY <1>2, <1>4, <2>3, <2>4, LineKeys DEF Live, TypeOK
  <2> QED BY <2>1, <2>3, <2>4, <2>5
<1>5. ASSUME NEW o \in Offer, Live(o), o \notin Expiring(n), o[1] # n
      PROVE  /\ ticket'[o[2]].status = "active"
             /\ ticket'[o[2]].remaining >= ticket[o[2]].remaining
  <2> DEFINE t == o[2]
             lack == Shortfall(n, grant, PairOf(t))
  <2>1. /\ t \in Ticket /\ LiveFor(t) = {o} /\ ticket[t].status = "active"
        /\ ticket[t] \in TicketType
    BY <1>5, LineKeys DEF LiveOfferBacked, TypeOK
  <2>2. ~LapsedTicket(n, t)
    <3>1. \A x \in Expiring(n) : x[2] = t => x \in LiveFor(t)
      BY DEF Expiring, LiveFor, Live
    <3> QED BY <1>5, <2>1, <3>1 DEF LapsedTicket
  <2>3. TicketsAfterExpiry(n)[t] = ticket[t]
    BY <2>1, <2>2 DEF TicketsAfterExpiry
  <2>4. <<n, t>> \notin AcceptedOwn(n)
    <3>1. SUFFICES ASSUME <<n, t>> \in AcceptedOwn(n) PROVE FALSE
      OBVIOUS
    <3>2. <<n, t>> \in LiveFor(t)
      BY <1>2, <2>1, <3>1 DEF AcceptedOwn, LiveFor, Live
    <3> QED BY <1>5, <2>1, <3>2
  <2>5. Want(n)[t] = 0
    BY <2>1, <2>4, ClaimKeys DEF Want
  <2>6. grant[t] = 0
    <3> DEFINE claims == {c \in Claim : c[2] = t[2]}
               want == [c \in claims |-> Want(n)[c]]
               given == [c \in claims |-> grant[c]]
    <3>1. t \in claims /\ t[2] \in Product
      BY <2>1, ClaimKeys
    <3>2. Bounded(want, given)
      BY <3>1 DEF FinalizeAllocation, IsAllocation, IsFairShare
    <3>3. given[t] \in 0 .. want[t]
      BY <3>1, <3>2 DEF Bounded
    <3> QED BY <2>5, <3>1, <3>3
  <2>7. TicketsAfterGrants(n, grant)[t] = Fulfil(ticket[t], 0)
    BY <2>1, <2>3, <2>6 DEF TicketsAfterGrants
  <2>8. /\ Fulfil(ticket[t], 0).status = "active"
        /\ Fulfil(ticket[t], 0).remaining = ticket[t].remaining
    BY <2>1 DEF Fulfil, TicketType
  <2>9. ticket'[t] = IF lack > 0 /\ IsReceiver(TicketsAfterGrants(n, grant), t)
                     THEN Receive(Fulfil(ticket[t], 0), lack, 0)
                     ELSE Fulfil(ticket[t], 0)
    BY <2>1, <2>7 DEF FinalizeAllocation, TicketsAfterRun
  <2>10. ticket[t].remaining \in Nat /\ lack \in Int
    <3>1. <<n, PairOf(t)>> \in Session \X Pair
      BY <2>1, ClaimKeys
    <3>2. <<PairOf(t)[1], PairOf(t)[2], 0>> \in Claim
      BY <2>1, ClaimKeys, PipelineAssumption DEF Claim, PairOf
    <3> QED BY <1>1, <2>1, <3>1, <3>2 DEF Shortfall, TypeOK, TicketType
  <2> HIDE DEF lack
  <2>11. Fulfil(ticket[t], 0) \in TicketRow
    BY <2>1, RowOperations DEF TicketType, TicketRow
  <2>12. ASSUME lack > 0
         PROVE  /\ Receive(Fulfil(ticket[t], 0), lack, 0).status = "active"
                /\ Receive(Fulfil(ticket[t], 0), lack, 0).remaining
                      = ticket[t].remaining + lack
    BY <2>8, <2>10, <2>11 DEF Receive, TicketRow
  <2> QED BY <2>8, <2>9, <2>10, <2>12
<1> QED BY <1>4, <1>5, ClaimsKept

\* A result that is sent back only adds to the ticket of a claim.
LEMMA WaitlistClaims ==
    ASSUME TypeOK, TypeOK', LiveOfferBacked, NEW r \in Result, WaitlistResult(r)
    PROVE  LiveOfferBacked'
<1>1. offer' = offer /\ session' = session
  BY DEF WaitlistResult, sessions
<1>2. \A o \in Offer : Live(o)' <=> Live(o)
  BY <1>1 DEF Live
<1>3. ASSUME NEW o \in Offer, Live(o)
      PROVE  /\ ticket'[o[2]].status = "active"
             /\ ticket'[o[2]].remaining >= ticket[o[2]].remaining
  <2> DEFINE t == o[2]
             a == Added(r, PairOf(t))
             b == Restored(r, PairOf(t))
  <2>1. /\ t \in Ticket /\ ticket[t].status = "active"
        /\ ticket[t] \in TicketType /\ ticket[t].remaining \in Nat
    BY <1>3, LineKeys DEF LiveOfferBacked, TypeOK, TicketType
  <2>2. a \in Nat /\ b \in Nat
    BY HeldTypes DEF Added, Restored, ReturnedTo
  <2>3. ticket'[t] = ticket[t] \/ ticket'[t] = Receive(ticket[t], a, b)
    BY <2>1 DEF WaitlistResult, TicketsAfterReturn
  <2> HIDE DEF a, b
  <2>4. /\ Receive(ticket[t], a, b).status = "active"
        /\ Receive(ticket[t], a, b).remaining = ticket[t].remaining + a + b
    BY <2>1, <2>2 DEF Receive, TicketType
  <2> QED BY <2>1, <2>2, <2>3, <2>4
<1> QED BY <1>1, <1>2, <1>3, ClaimsKept

\* The cancellation of a ticket ends its claim with it.
LEMMA CancelClaims ==
    ASSUME TypeOK, TypeOK', LiveOfferBacked, NEW t \in Ticket, CancelTicket(t)
    PROVE  LiveOfferBacked'
<1>1. session' = session
  BY DEF CancelTicket, sessions
<1>2. \A o \in Offer :
         offer'[o] = IF o \in LiveFor(t) THEN CloseOffer(offer[o], "cancelled")
                     ELSE offer[o]
  BY DEF CancelTicket
<1>3. ASSUME NEW o \in Offer, Live(o)'
      PROVE  Live(o) /\ o[2] # t /\ offer'[o] = offer[o]
  <2>1. o \notin LiveFor(t)
    <3>1. SUFFICES ASSUME o \in LiveFor(t) PROVE FALSE
      OBVIOUS
    <3>2. offer'[o].status = "cancelled"
      BY <1>2, <3>1 DEF CloseOffer, TypeOK, OfferType
    <3> QED BY <1>3, <3>2 DEF Live
  <2>2. offer'[o] = offer[o]
    BY <1>2, <2>1
  <2>3. Live(o)
    BY <1>1, <1>3, <2>2 DEF Live
  <2> QED BY <2>1, <2>2, <2>3 DEF LiveFor
<1>4. ASSUME NEW o \in Offer, Live(o), o[2] # t
      PROVE  /\ ticket'[o[2]].status = "active"
             /\ ticket'[o[2]].remaining >= ticket[o[2]].remaining
  <2>1. ticket'[o[2]] = ticket[o[2]]
    BY <1>4, LineKeys DEF CancelTicket, TypeOK
  <2> QED BY <1>4, <2>1, LineKeys DEF LiveOfferBacked, TypeOK, TicketType
<1> QED BY <1>3, <1>4, ClaimsKept

\* No claim lives at the start.
LEMMA InitClaims == Init => LiveOfferBacked
BY DEF Init, LiveOfferBacked, Live, NoOffer

LEMMA NextClaims == TypeOK /\ LiveOfferBacked /\ [Next]_vars => LiveOfferBacked'
<1> SUFFICES ASSUME TypeOK, LiveOfferBacked, [Next]_vars PROVE LiveOfferBacked'
  OBVIOUS
<1>1. TypeOK'
  BY NextTypes
<1>2. CASE Tick \/ StartTick
  BY <1>2, UntouchedClaims DEF Tick, StartTick, sessions
<1>3. CASE \E p \in Product : IncreaseStock(p) \/ DecreaseStock(p)
  BY <1>3, UntouchedClaims DEF IncreaseStock, DecreaseStock, sessions
<1>4. CASE \E n \in Session : CancelSession(n)
  BY <1>1, <1>4, CancelSessionClaims
<1>5. CASE \E n \in Session, s \in Store, items \in Items : SubmitOrder(n, s, items)
  BY <1>5, UntouchedClaims DEF SubmitOrder
<1>6. CASE Snapshots
  BY <1>6, SnapshotClaims DEF Snapshots
<1>7. CASE Runs
  BY <1>1, <1>7, RunClaims DEF Runs
<1>8. CASE \E o \in Offer : AcceptOffer(o) \/ DeclineOffer(o) \/ AnswerLate(o)
  BY <1>1, <1>8, OfferAnswerClaims
<1>9. CASE \E r \in Result : AcceptResult(r)
  BY <1>9, UntouchedClaims DEF AcceptResult, sessions
<1>10. CASE \E r \in Result : WaitlistResult(r)
  BY <1>1, <1>10, WaitlistClaims
<1>11. CASE \E t \in Ticket : CancelTicket(t)
  BY <1>1, <1>11, CancelClaims
<1>12. CASE UNCHANGED vars
  BY <1>12, UntouchedClaims DEF vars, sessions
<1> QED
  BY <1>2, <1>3, <1>4, <1>5, <1>6, <1>7, <1>8, <1>9, <1>10, <1>11, <1>12
     DEF Next, Answers

\* A claim stays good for as long as it lives, whatever the other sessions,
\* the stores and the cancellations of tickets do meanwhile: the goods are
\* held, the ticket still waits for them, and no other session has a claim.
THEOREM ClaimsStayGood == Spec => []LiveOfferBacked
<1>1. Init => TypeOK /\ LiveOfferBacked
  BY InitTypes, InitClaims
<1>2. TypeOK /\ LiveOfferBacked /\ [Next]_vars => TypeOK' /\ LiveOfferBacked'
  BY NextTypes, NextClaims
<1> QED BY <1>1, <1>2, PTL DEF Spec

-----------------------------------------------------------------------------
(* Goods that left.                                                        *)

\* A session has allocation lines only once its run has completed it.
NoLinesBeforeRun ==
    \A l \in Line : session[l[1]] # "completed" => hold[l].status = "none"

\* A step that completes no session and makes no lines keeps it.
LEMMA LinesKept ==
    ASSUME NoLinesBeforeRun,
           \A l \in Line : session[l[1]] = "completed" => session'[l[1]] = "completed",
           \A l \in Line : hold[l].status = "none" => hold'[l].status = "none"
    PROVE  NoLinesBeforeRun'
BY DEF NoLinesBeforeRun

LEMMA RunLines ==
    ASSUME TypeOK, NoLinesBeforeRun, NEW n \in Session, NEW grant \in Grants(n),
           FinalizeAllocation(n, grant)
    PROVE  NoLinesBeforeRun'
<1> SUFFICES ASSUME NEW l \in Line, session'[l[1]] # "completed"
             PROVE  hold'[l].status = "none"
  BY DEF NoLinesBeforeRun
<1>1. l[1] # n /\ session'[l[1]] = session[l[1]]
  BY LineKeys DEF FinalizeAllocation, TypeOK
<1>2. hold[l].status = "none"
  BY <1>1 DEF NoLinesBeforeRun
<1>3. hold'[l] = HoldAfterRun(n, grant, l)
  BY DEF FinalizeAllocation
<1>4. HoldAfterRun(n, grant, l) = hold[l]
  BY <1>1, <1>2 DEF HoldAfterRun, Carriable
<1> QED BY <1>2, <1>3, <1>4

LEMMA ResultAnswerLines ==
    ASSUME TypeOK, NoLinesBeforeRun, NEW r \in Result,
           AcceptResult(r) \/ WaitlistResult(r)
    PROVE  NoLinesBeforeRun'
<1>1. session' = session
  BY DEF AcceptResult, WaitlistResult, sessions
<1>2. ASSUME NEW l \in Line, hold[l].status = "none" PROVE hold'[l] = hold[l]
  <2>1. l \notin OwnActive(r) /\ l \notin Carried(r)
    BY <1>2 DEF OwnActive, Carried
  <2> QED BY <2>1 DEF AcceptResult, WaitlistResult
<1> QED BY <1>1, <1>2, LinesKept

LEMMA CancelLines ==
    ASSUME TypeOK, NoLinesBeforeRun, NEW t \in Ticket, CancelTicket(t)
    PROVE  NoLinesBeforeRun'
<1>1. session' = session
  BY DEF CancelTicket, sessions
<1>2. ASSUME NEW l \in Line, hold[l].status = "none" PROVE hold'[l] = hold[l]
  <2>1. /\ l \notin RevocableOf(t)
        /\ \A r \in Result : l \notin Carried(r)
    BY <1>2 DEF RevocableOf, Carried
  <2> QED BY <2>1 DEF CancelTicket
<1> QED BY <1>1, <1>2, LinesKept

LEMMA NextLines == TypeOK /\ NoLinesBeforeRun /\ [Next]_vars => NoLinesBeforeRun'
<1> SUFFICES ASSUME TypeOK, NoLinesBeforeRun, [Next]_vars PROVE NoLinesBeforeRun'
  OBVIOUS
<1>1. CASE UNCHANGED <<session, hold>>
  BY <1>1 DEF NoLinesBeforeRun
<1>2. CASE Tick \/ StartTick
  BY <1>1, <1>2 DEF Tick, StartTick, sessions, results
<1>3. CASE \E p \in Product : IncreaseStock(p) \/ DecreaseStock(p)
  BY <1>1, <1>3 DEF IncreaseStock, DecreaseStock, sessions, results
<1>4. ASSUME NEW n \in Session, CancelSession(n) PROVE NoLinesBeforeRun'
  <2>1. hold' = hold
    BY <1>4 DEF CancelSession, results
  <2>2. ASSUME NEW l \in Line, session[l[1]] = "completed"
        PROVE  session'[l[1]] = "completed"
    BY <1>4, <2>2, LineKeys DEF CancelSession, TypeOK
  <2> QED BY <2>1, <2>2, LinesKept
<1>5. CASE \E n \in Session, s \in Store, items \in Items : SubmitOrder(n, s, items)
  BY <1>1, <1>5 DEF SubmitOrder, results
<1>6. CASE Snapshots
  BY <1>1, <1>6 DEF Snapshots, CaptureSnapshot, results
<1>7. CASE Runs
  BY <1>7, RunLines DEF Runs
<1>8. CASE \E o \in Offer : AcceptOffer(o) \/ DeclineOffer(o) \/ AnswerLate(o)
  BY <1>1, <1>8
     DEF AcceptOffer, DeclineOffer, AnswerLate, EndOffer, sessions, results
<1>9. CASE \E r \in Result : AcceptResult(r) \/ WaitlistResult(r)
  BY <1>9, ResultAnswerLines
<1>10. CASE \E t \in Ticket : CancelTicket(t)
  BY <1>10, CancelLines
<1>11. CASE UNCHANGED vars
  BY <1>1, <1>11 DEF vars, sessions, results
<1> QED
  BY <1>2, <1>3, <1>4, <1>5, <1>6, <1>7, <1>8, <1>9, <1>10, <1>11 DEF Next, Answers

LEMMA InitLines == Init => NoLinesBeforeRun
BY DEF Init, NoLinesBeforeRun, NoHold

\* Lines are made once, by the run that completes their session.
THEOREM LinesMadeByRun == Spec => [](TypeOK /\ NoLinesBeforeRun)
<1>1. Init => TypeOK /\ NoLinesBeforeRun
  BY InitTypes, InitLines
<1>2. TypeOK /\ NoLinesBeforeRun /\ [Next]_vars => TypeOK' /\ NoLinesBeforeRun'
  BY NextTypes, NextLines
<1> QED BY <1>1, <1>2, PTL DEF Spec

\* What has left for a store: issued, on a shipment that was dispatched.
Gone(l) ==
    /\ hold[l].ship # NoShipment /\ hold[l].status = "issued"
    /\ shipment[<<hold[l].ship, SourceOf(l)[1]>>] = "dispatched"

LEMMA GoneStays ==
    ASSUME TypeOK, NoLinesBeforeRun, [Next]_vars, NEW l \in Line, Gone(l)
    PROVE  hold'[l] = hold[l]
<1> USE DEF results
<1>1. ASSUME NEW r \in Result, l \in Carried(r) PROVE shipment[r] = "dispatched"
  <2>1. r = <<r[1], r[2]>>
    BY DEF Result
  <2> QED BY <1>1, <2>1 DEF Carried, Gone
<1>2. CASE Tick \/ StartTick
  BY <1>2 DEF Tick, StartTick
<1>3. CASE \E p \in Product : IncreaseStock(p) \/ DecreaseStock(p)
  BY <1>3 DEF IncreaseStock, DecreaseStock
<1>4. CASE \E n \in Session : CancelSession(n)
  BY <1>4 DEF CancelSession
<1>5. CASE \E n \in Session, s \in Store, items \in Items : SubmitOrder(n, s, items)
  BY <1>5 DEF SubmitOrder
<1>6. CASE Snapshots
  BY <1>6 DEF Snapshots, CaptureSnapshot
<1>7. CASE Runs
  <2>1. PICK n \in Session : \E grant \in Grants(n) : FinalizeAllocation(n, grant)
    BY <1>7 DEF Runs
  <2>2. PICK grant \in Grants(n) : FinalizeAllocation(n, grant)
    BY <2>1
  <2>3. l[1] # n
    BY <2>2 DEF FinalizeAllocation, NoLinesBeforeRun, Gone
  <2>4. l \notin Carriable(n, SourceOf(l)[1])
    BY DEF Carriable, Gone
  <2>5. hold'[l] = HoldAfterRun(n, grant, l)
    BY <2>2 DEF FinalizeAllocation
  <2> QED BY <2>3, <2>4, <2>5 DEF HoldAfterRun
<1>8. CASE \E o \in Offer : AcceptOffer(o) \/ DeclineOffer(o) \/ AnswerLate(o)
  BY <1>8 DEF AcceptOffer, DeclineOffer, AnswerLate, EndOffer
<1>9. ASSUME NEW r \in Result, AcceptResult(r) PROVE hold'[l] = hold[l]
  BY <1>9 DEF AcceptResult, OwnActive, Gone
<1>10. ASSUME NEW r \in Result, WaitlistResult(r) PROVE hold'[l] = hold[l]
  <2>1. shipment[r] # "dispatched"
    BY <1>10 DEF WaitlistResult, Revocable
  <2>2. l \notin OwnActive(r) /\ l \notin Carried(r)
    BY <1>1, <2>1 DEF OwnActive, Gone
  <2> QED BY <1>10, <2>2 DEF WaitlistResult
<1>11. ASSUME NEW t \in Ticket, CancelTicket(t) PROVE hold'[l] = hold[l]
  <2>1. l \notin RevocableOf(t)
    BY DEF RevocableOf, Gone
  <2>2. ASSUME NEW r \in Result, Emptied(t, r) PROVE l \notin Carried(r)
    <3>1. shipment[r] # "dispatched"
      BY <1>11, <2>2 DEF CancelTicket, Emptied, Revocable
    <3> QED BY <1>1, <3>1
  <2> QED BY <1>11, <2>1, <2>2 DEF CancelTicket
<1>12. CASE UNCHANGED vars
  BY <1>12 DEF vars
<1> QED
  BY <1>2, <1>3, <1>4, <1>5, <1>6, <1>7, <1>8, <1>9, <1>10, <1>11, <1>12
     DEF Next, Answers

\* No later answer, run or cancellation of a ticket touches goods that left:
\* they are neither taken back nor moved to another shipment.
THEOREM DispatchIsFinal == Spec => DispatchedGoodsStay
<1>1. TypeOK /\ NoLinesBeforeRun /\ [Next]_vars =>
        [\A l \in Line :
           hold[l].ship # NoShipment /\ hold[l].status = "issued"
               /\ shipment[<<hold[l].ship, SourceOf(l)[1]>>] = "dispatched"
           => hold'[l] = hold[l]]_vars
  BY GoneStays DEF Gone
<1> QED BY <1>1, LinesMadeByRun, PTL DEF Spec, DispatchedGoodsStay

-----------------------------------------------------------------------------
(* Totals of lines.                                                        *)

\* Lines that are none of another set add up with them.
LEMMA HeldSplit ==
    ASSUME TypeOK, NEW A, NEW B, A \cap B = {}
    PROVE  HeldQuantity(A \cup B) = HeldQuantity(A) + HeldQuantity(B)
<1> DEFINE f == [l \in Line |-> IF l \in A \cup B THEN hold[l].qty ELSE 0]
           g == [l \in Line |-> IF l \in A THEN hold[l].qty ELSE 0]
           h == [l \in Line |-> IF l \in B THEN hold[l].qty ELSE 0]
<1>1. \A l \in Line : hold[l].qty \in Nat
  BY DEF TypeOK, HoldType
<1>2. f \in [Line -> Nat] /\ g \in [Line -> Nat] /\ h \in [Line -> Nat]
  BY <1>1
<1>3. \A l \in Line : f[l] = g[l] + h[l]
  BY <1>1
<1> HIDE DEF f, g, h
<1>4. SumOf(f) = SumOf(g) + SumOf(h)
  BY <1>2, <1>3, FiniteKeys, SumAdd
<1> QED BY <1>4, Zenon DEF f, g, h, HeldQuantity

\* A set of lines holds at least what each of its lines holds.
LEMMA HeldCovers ==
    ASSUME TypeOK, NEW set, NEW l \in Line, l \in set
    PROVE  hold[l].qty <= HeldQuantity(set)
<1> DEFINE f == [x \in Line |-> IF x \in set THEN hold[x].qty ELSE 0]
<1>1. f \in [Line -> Nat]
  BY DEF TypeOK, HoldType
<1>2. f[l] = hold[l].qty
  OBVIOUS
<1> HIDE DEF f
<1>3. f[l] <= SumOf(f)
  BY <1>1, FiniteKeys, SumCovers
<1> QED BY <1>2, <1>3, Zenon DEF f, HeldQuantity

\* A set with no line of the table holds nothing.
LEMMA HeldNothing ==
    ASSUME NEW set, \A l \in Line : l \notin set
    PROVE  HeldQuantity(set) = 0
<1> DEFINE f == [x \in Line |-> IF x \in set THEN hold[x].qty ELSE 0]
<1>1. f \in [Line -> Nat] /\ \A x \in Line : f[x] = 0
  OBVIOUS
<1> HIDE DEF f
<1>2. SumOf(f) = 0
  BY <1>1, SumZero
<1> QED BY <1>2, Zenon DEF f, HeldQuantity

\* The quantity of a set of lines after a step.
QuantityAfter(set) ==
    SumOf([l \in Line |-> IF l \in set THEN hold'[l].qty ELSE 0])

\* The same lines with the same quantities hold as much after the step.
LEMMA HeldKept ==
    ASSUME NEW A, NEW B,
           \A l \in Line : l \in B <=> l \in A,
           \A l \in Line : l \in A => hold'[l].qty = hold[l].qty
    PROVE  QuantityAfter(B) = HeldQuantity(A)
<1> DEFINE f == [l \in Line |-> IF l \in B THEN hold'[l].qty ELSE 0]
           g == [l \in Line |-> IF l \in A THEN hold[l].qty ELSE 0]
<1>1. f = g
  OBVIOUS
<1> HIDE DEF f, g
<1>2. SumOf(f) = SumOf(g)
  BY <1>1
<1> QED BY <1>2, Zenon DEF f, g, QuantityAfter, HeldQuantity

\* What a run grants a store covers each of its grants.
LEMMA GrantedCovers ==
    ASSUME NEW grant \in [Claim -> Nat], NEW c \in Claim
    PROVE  grant[c] <= GrantedTo(grant, c[1])
<1> DEFINE f == [x \in Claim |-> IF x[1] = c[1] THEN grant[x] ELSE 0]
<1>1. f \in [Claim -> Nat] /\ f[c] = grant[c]
  OBVIOUS
<1> HIDE DEF f
<1>2. f[c] <= SumOf(f)
  BY <1>1, FiniteKeys, SumCovers
<1> QED BY <1>1, <1>2, Zenon DEF f, GrantedTo

-----------------------------------------------------------------------------
(* The invariant.                                                          *)

\* A result is published, and its shipment made, by the run of its session.
NoResultBeforeRun ==
    \A r \in Result : session[r[1]] # "completed" =>
        decision[r] = NoDecision /\ shipment[r] = "none"

\* A line on hold holds something.
ActiveLinesHold ==
    \A l \in Line : hold[l].status = "active" => hold[l].qty > 0

\* Goods are issued only to a store that accepted their result.
IssuedWasAccepted ==
    \A l \in Line :
        hold[l].status = "issued" => decision[ResultOf(l)].status = "accepted"

Returned == {"revoked", "requeued", "skipped"}

\* The decision's books agree with its lines.
ReturnsBooked ==
    \A r \in Result : decision[r].revoked = OwnQuantity(r, Returned)

ResultInv ==
    /\ TypeOK /\ NoLinesBeforeRun
    /\ NoResultBeforeRun
    /\ ActiveLinesHold
    /\ IssuedWasAccepted
    /\ ReturnsBooked
    /\ PendingResultAnswerable
    /\ OnlyConfirmedGoodsLeave

-----------------------------------------------------------------------------
(* One result, and one line.                                               *)

Answerable(r) ==
    IF decision[r].status = "pending"
    THEN /\ Actionable(r) > 0
         /\ HeldQuantity(OwnActive(r)) = Actionable(r)
         /\ shipment[r] \in {"none", "reserved"}
         /\ \A l \in OwnActive(r) :
               hold[l].ship = IF shipment[r] = "reserved" THEN r[1] ELSE NoShipment
    ELSE OwnActive(r) = {}

CarrierOf(l) == <<hold[l].ship, SourceOf(l)[1]>>

RidesWell(l) ==
    hold[l].ship # NoShipment /\ hold[l].status \in {"active", "issued"} =>
        \/ shipment[CarrierOf(l)] = "dispatched" /\ hold[l].status = "issued"
        \/ /\ shipment[CarrierOf(l)] = "reserved"
           /\ hold[l].status = "issued" <=> hold[l].ship # l[1]

\* The two properties, result by result and line by line.
LEMMA PartByPart ==
    /\ PendingResultAnswerable <=> \A r \in Result : Answerable(r)
    /\ OnlyConfirmedGoodsLeave <=> \A l \in Line : RidesWell(l)
BY DEF PendingResultAnswerable, Answerable, OnlyConfirmedGoodsLeave, RidesWell, CarrierOf

\* The carrier of a line with a shipment is a result of the line's store.
LEMMA CarrierKey ==
    ASSUME TypeOK, NEW l \in Line, hold[l].ship # NoShipment
    PROVE  /\ hold[l].ship \in Session /\ CarrierOf(l) \in Result
           /\ CarrierOf(l)[1] = hold[l].ship /\ CarrierOf(l)[2] = SourceOf(l)[1]
           /\ hold[l].ship = l[1] => CarrierOf(l) = ResultOf(l)
<1>1. hold[l].ship \in Session
  BY DEF TypeOK, HoldType
<1> QED BY <1>1, LineKeys DEF CarrierOf, Result

\* Goods that ride the shipment of another result were issued.
LEMMA CarriedIssued ==
    ASSUME TypeOK, OnlyConfirmedGoodsLeave, NEW r \in Result, NEW l \in Carried(r)
    PROVE  l \in Line /\ hold[l].status = "issued" /\ CarrierOf(l) = r
<1>1. /\ l \in Line /\ hold[l].ship = r[1] /\ l[1] # r[1]
      /\ SourceOf(l)[1] = r[2] /\ hold[l].status \in {"active", "issued"}
  BY DEF Carried
<1>2. r = <<r[1], r[2]>> /\ r[1] # NoShipment
  BY PipelineAssumption DEF Result
<1>3. RidesWell(l)
  BY <1>1, PartByPart
<1> QED BY <1>1, <1>2, <1>3 DEF RidesWell, CarrierOf

\* A result keeps its standing when nothing touches its own rows.
LEMMA AnswerableKept ==
    ASSUME NEW r \in Result, Answerable(r),
           decision'[r] = decision[r], shipment'[r] = shipment[r],
           \A l \in Line : ResultOf(l) = r =>
               /\ hold'[l].qty = hold[l].qty /\ hold'[l].status = hold[l].status
               /\ hold[l].status = "active" => hold'[l].ship = hold[l].ship
    PROVE  Answerable(r)'
<1>1. OwnActive(r)' = OwnActive(r)
  BY DEF OwnActive
<1>2. HeldQuantity(OwnActive(r))' = HeldQuantity(OwnActive(r))
  <2>1. QuantityAfter(OwnActive(r)') = HeldQuantity(OwnActive(r))
    BY <1>1, HeldKept DEF OwnActive
  <2> QED BY <2>1 DEF QuantityAfter, HeldQuantity
<1>3. Actionable(r)' = Actionable(r)
  BY DEF Actionable
<1>4. \A l \in OwnActive(r) : hold'[l].ship = hold[l].ship
  BY DEF OwnActive
<1> QED BY <1>1, <1>2, <1>3, <1>4 DEF Answerable

\* The total of some lines of a result is the same over the same rows.
LEMMA OwnKept ==
    ASSUME NEW r \in Result, NEW A,
           \A l \in Line : ResultOf(l) = r =>
               /\ hold'[l].qty = hold[l].qty
               /\ hold'[l].status \in A <=> hold[l].status \in A
    PROVE  OwnQuantity(r, A)' = OwnQuantity(r, A)
<1> DEFINE before == {l \in Line : ResultOf(l) = r /\ hold[l].status \in A}
           after == {l \in Line : ResultOf(l) = r /\ hold'[l].status \in A}
<1>1. QuantityAfter(after) = HeldQuantity(before)
  <2>1. \A l \in Line : l \in after <=> l \in before
    OBVIOUS
  <2>2. \A l \in Line : l \in before => hold'[l].qty = hold[l].qty
    OBVIOUS
  <2> HIDE DEF before, after
  <2> QED BY <2>1, <2>2, HeldKept
<1> QED BY <1>1 DEF QuantityAfter, HeldQuantity, OwnQuantity

\* Lines that newly count add up with those that did.
LEMMA OwnGrown ==
    ASSUME TypeOK, NEW r \in Result, NEW A, NEW new,
           new \subseteq {l \in Line : ResultOf(l) = r /\ hold[l].status \notin A},
           \A l \in Line : ResultOf(l) = r =>
               /\ hold'[l].qty = hold[l].qty
               /\ hold'[l].status \in A <=> hold[l].status \in A \/ l \in new
    PROVE  OwnQuantity(r, A)' = OwnQuantity(r, A) + HeldQuantity(new)
<1> DEFINE before == {l \in Line : ResultOf(l) = r /\ hold[l].status \in A}
           after == {l \in Line : ResultOf(l) = r /\ hold'[l].status \in A}
<1>1. before \cap new = {}
  OBVIOUS
<1>2. \A l \in Line : l \in after <=> l \in before \cup new
  OBVIOUS
<1>3. \A l \in Line : l \in before \cup new => hold'[l].qty = hold[l].qty
  OBVIOUS
<1>4. QuantityAfter(after) = OwnQuantity(r, A)'
  BY DEF QuantityAfter, HeldQuantity, OwnQuantity
<1>5. HeldQuantity(before) = OwnQuantity(r, A)
  BY DEF OwnQuantity
<1> HIDE DEF before, after
<1>6. QuantityAfter(after) = HeldQuantity(before \cup new)
  BY <1>2, <1>3, HeldKept
<1>7. HeldQuantity(before \cup new) = HeldQuantity(before) + HeldQuantity(new)
  BY <1>1, HeldSplit
<1> QED BY <1>4, <1>5, <1>6, <1>7

-----------------------------------------------------------------------------
(* A store accepts its result.                                             *)

LEMMA AcceptEffect ==
    ASSUME TypeOK, NEW r \in Result, AcceptResult(r)
    PROVE  /\ session' = session
           /\ decision[r].status = "pending" /\ Actionable(r) > 0
           /\ HeldQuantity(OwnActive(r)) = Actionable(r)
           /\ decision'[r] = [decision[r] EXCEPT !.status = "accepted"]
           /\ decision'[r].status = "accepted"
           /\ decision'[r].granted = decision[r].granted
           /\ decision'[r].revoked = decision[r].revoked
           /\ shipment'[r] = IF shipment[r] = "reserved" THEN "dispatched"
                             ELSE shipment[r]
           /\ \A s \in Result : s # r =>
                  decision'[s] = decision[s] /\ shipment'[s] = shipment[s]
           /\ \A l \in Line :
                  /\ hold'[l].qty = hold[l].qty /\ hold'[l].ship = hold[l].ship
                  /\ hold'[l].status = IF l \in OwnActive(r) THEN "issued"
                                       ELSE hold[l].status
<1>1. \A l \in Line : hold[l] \in HoldType
  BY DEF TypeOK
<1>2. \A l \in Line :
         /\ hold'[l].qty = hold[l].qty /\ hold'[l].ship = hold[l].ship
         /\ hold'[l].status = IF l \in OwnActive(r) THEN "issued" ELSE hold[l].status
  <2>1. \A l \in Line : hold'[l] = IF l \in OwnActive(r)
                                   THEN [hold[l] EXCEPT !.status = "issued"]
                                   ELSE hold[l]
    BY DEF AcceptResult
  <2> QED BY <1>1, <2>1 DEF HoldType
<1>3. decision[r] \in DecisionType
  BY DEF TypeOK
<1>4. /\ decision'[r] = [decision[r] EXCEPT !.status = "accepted"]
      /\ \A s \in Result : s # r =>
            decision'[s] = decision[s] /\ shipment'[s] = shipment[s]
      /\ shipment'[r] = IF shipment[r] = "reserved" THEN "dispatched" ELSE shipment[r]
  BY DEF AcceptResult, TypeOK
<1>5. /\ decision'[r].status = "accepted"
      /\ decision'[r].granted = decision[r].granted
      /\ decision'[r].revoked = decision[r].revoked
  BY <1>3, <1>4 DEF DecisionType
<1> QED BY <1>2, <1>4, <1>5 DEF AcceptResult, sessions

LEMMA AcceptKeepsResults ==
    ASSUME ResultInv, TypeOK', NoLinesBeforeRun', NEW r \in Result, AcceptResult(r)
    PROVE  ResultInv'
<1> USE DEF ResultInv
<1>1. /\ session' = session
      /\ decision[r].status = "pending" /\ Actionable(r) > 0
      /\ HeldQuantity(OwnActive(r)) = Actionable(r)
      /\ decision'[r].status = "accepted"
      /\ decision'[r].granted = decision[r].granted
      /\ decision'[r].revoked = decision[r].revoked
      /\ shipment'[r] = IF shipment[r] = "reserved" THEN "dispatched" ELSE shipment[r]
      /\ \A s \in Result : s # r =>
            decision'[s] = decision[s] /\ shipment'[s] = shipment[s]
      /\ \A l \in Line :
            /\ hold'[l].qty = hold[l].qty /\ hold'[l].ship = hold[l].ship
            /\ hold'[l].status = IF l \in OwnActive(r) THEN "issued"
                                 ELSE hold[l].status
  BY AcceptEffect
<1>2. NoResultBeforeRun'
  <2>1. session[r[1]] = "completed"
    BY <1>1 DEF NoResultBeforeRun, NoDecision
  <2> QED BY <1>1, <2>1 DEF NoResultBeforeRun
<1>3. ActiveLinesHold'
  BY <1>1 DEF ActiveLinesHold
<1>4. IssuedWasAccepted'
  <2>1. \A l \in OwnActive(r) : ResultOf(l) = r
    BY DEF OwnActive
  <2>2. \A l \in Line : ResultOf(l) \in Result
    BY LineKeys
  <2> QED BY <1>1, <2>1, <2>2 DEF IssuedWasAccepted
<1>5. ReturnsBooked'
  <2> SUFFICES ASSUME NEW s \in Result
               PROVE  decision'[s].revoked = OwnQuantity(s, Returned)'
    BY DEF ReturnsBooked
  <2>1. decision'[s].revoked = decision[s].revoked
    BY <1>1
  <2>2. \A l \in Line : hold'[l].status \in Returned <=> hold[l].status \in Returned
    BY <1>1 DEF OwnActive, Returned
  <2>3. OwnQuantity(s, Returned)' = OwnQuantity(s, Returned)
    BY <1>1, <2>2, OwnKept
  <2> QED BY <2>1, <2>3 DEF ReturnsBooked
<1>6. PendingResultAnswerable'
  <2> SUFFICES ASSUME NEW s \in Result PROVE Answerable(s)'
    BY DEF PendingResultAnswerable, Answerable
  <2>1. CASE s = r
    <3>1. OwnActive(r)' = {}
      BY <1>1 DEF OwnActive
    <3> QED BY <1>1, <2>1, <3>1 DEF Answerable
  <2>2. CASE s # r
    <3>1. Answerable(s)
      BY PartByPart
    <3>2. \A l \in Line : ResultOf(l) = s => l \notin OwnActive(r)
      BY <2>2 DEF OwnActive
    <3> QED BY <1>1, <2>2, <3>1, <3>2, AnswerableKept
  <2> QED BY <2>1, <2>2
<1>7. OnlyConfirmedGoodsLeave'
  <2> SUFFICES ASSUME NEW l \in Line, hold'[l].ship # NoShipment,
                      hold'[l].status \in {"active", "issued"}
               PROVE  LET carrier == shipment'[CarrierOf(l)] IN
                      \/ carrier = "dispatched" /\ hold'[l].status = "issued"
                      \/ /\ carrier = "reserved"
                         /\ hold'[l].status = "issued" <=> hold[l].ship # l[1]
    BY <1>1 DEF OnlyConfirmedGoodsLeave, CarrierOf
  <2>1. hold[l].ship # NoShipment /\ hold[l].status \in {"active", "issued"}
    BY <1>1 DEF OwnActive
  <2>2. RidesWell(l)
    BY PartByPart
  <2>3. /\ CarrierOf(l) \in Result
        /\ CarrierOf(l)[1] = hold[l].ship /\ CarrierOf(l)[2] = SourceOf(l)[1]
        /\ hold[l].ship = l[1] => CarrierOf(l) = ResultOf(l)
    BY <2>1, CarrierKey
  <2>4. CASE l \in OwnActive(r)
    <3>1. hold[l].ship = IF shipment[r] = "reserved" THEN r[1] ELSE NoShipment
      BY <1>1, <2>4 DEF PendingResultAnswerable
    <3>2. shipment[r] = "reserved" /\ hold[l].ship = r[1]
      BY <2>1, <3>1
    <3>3. ResultOf(l) = r
      BY <2>4 DEF OwnActive
    <3>4. CarrierOf(l) = r
      <4>1. ResultOf(l)[1] = l[1]
        BY DEF ResultOf
      <4> QED BY <2>3, <3>2, <3>3, <4>1
    <3> QED BY <1>1, <2>4, <3>2, <3>4
  <2>5. CASE l \notin OwnActive(r) /\ CarrierOf(l) = r
    <3>1. hold[l].status = "issued" \/ hold[l].ship # l[1]
      BY <2>1, <2>3, <2>5 DEF OwnActive
    <3> QED BY <1>1, <2>1, <2>2, <2>5, <3>1 DEF RidesWell
  <2>6. CASE l \notin OwnActive(r) /\ CarrierOf(l) # r
    BY <1>1, <2>1, <2>2, <2>3, <2>6 DEF RidesWell
  <2> QED BY <2>4, <2>5, <2>6
<1> QED BY <1>2, <1>3, <1>4, <1>5, <1>6, <1>7

-----------------------------------------------------------------------------
(* A store sends its result back.                                          *)

LEMMA WaitlistEffect ==
    ASSUME TypeOK, NEW r \in Result, WaitlistResult(r)
    PROVE  /\ session' = session
           /\ decision[r].status = "pending" /\ Actionable(r) > 0
           /\ Revocable(r, OwnActive(r))
           /\ HeldQuantity(OwnActive(r)) = Actionable(r)
           /\ decision'[r].status = "waitlisted"
           /\ decision'[r].granted = decision[r].granted
           /\ decision'[r].revoked = decision[r].granted
           /\ shipment'[r] = ClosedShipment(shipment[r])
           /\ \A s \in Result : s # r =>
                  decision'[s] = decision[s] /\ shipment'[s] = shipment[s]
           /\ \A l \in Line :
                  /\ hold'[l].qty = hold[l].qty
                  /\ IF l \in OwnActive(r)
                     THEN hold'[l].status \in {"skipped", "requeued"}
                     ELSE hold'[l].status = hold[l].status
                  /\ hold'[l].ship = IF l \in Carried(r) \ OwnActive(r)
                                     THEN NoShipment ELSE hold[l].ship
<1>1. \A l \in Line : hold[l] \in HoldType
  BY DEF TypeOK
<1>2. \A l \in Line :
         /\ hold'[l].qty = hold[l].qty
         /\ IF l \in OwnActive(r)
            THEN hold'[l].status \in {"skipped", "requeued"}
            ELSE hold'[l].status = hold[l].status
         /\ hold'[l].ship = IF l \in Carried(r) \ OwnActive(r)
                            THEN NoShipment ELSE hold[l].ship
  <2>1. \A l \in Line :
           hold'[l] = IF l \in OwnActive(r)
                      THEN [hold[l] EXCEPT !.status =
                              IF IsSkipped(l) THEN "skipped" ELSE "requeued"]
                      ELSE IF l \in Carried(r) THEN Detached(hold[l]) ELSE hold[l]
    BY DEF WaitlistResult
  <2> QED BY <1>1, <2>1 DEF HoldType, Detached
<1>3. decision[r] \in DecisionType
  BY DEF TypeOK
<1>4. /\ decision'[r] = [decision[r] EXCEPT !.status = "waitlisted",
                                            !.revoked = decision[r].granted]
      /\ \A s \in Result : s # r =>
            decision'[s] = decision[s] /\ shipment'[s] = shipment[s]
      /\ shipment'[r] = ClosedShipment(shipment[r])
  BY DEF WaitlistResult, TypeOK
<1>5. /\ decision'[r].status = "waitlisted"
      /\ decision'[r].granted = decision[r].granted
      /\ decision'[r].revoked = decision[r].granted
  BY <1>3, <1>4 DEF DecisionType
<1> QED BY <1>2, <1>4, <1>5 DEF WaitlistResult, sessions

LEMMA WaitlistKeepsResults ==
    ASSUME ResultInv, TypeOK', NoLinesBeforeRun', NEW r \in Result, WaitlistResult(r)
    PROVE  ResultInv'
<1> USE DEF ResultInv
<1>1. /\ session' = session
      /\ decision[r].status = "pending"
      /\ HeldQuantity(OwnActive(r)) = Actionable(r)
      /\ decision'[r].status = "waitlisted"
      /\ decision'[r].revoked = decision[r].granted
      /\ shipment'[r] = ClosedShipment(shipment[r])
      /\ \A s \in Result : s # r =>
            decision'[s] = decision[s] /\ shipment'[s] = shipment[s]
      /\ \A l \in Line :
            /\ hold'[l].qty = hold[l].qty
            /\ IF l \in OwnActive(r)
               THEN hold'[l].status \in {"skipped", "requeued"}
               ELSE hold'[l].status = hold[l].status
            /\ hold'[l].ship = IF l \in Carried(r) \ OwnActive(r)
                               THEN NoShipment ELSE hold[l].ship
  BY WaitlistEffect
<1>2. NoResultBeforeRun'
  <2>1. session[r[1]] = "completed"
    BY <1>1 DEF NoResultBeforeRun, NoDecision
  <2> QED BY <1>1, <2>1 DEF NoResultBeforeRun
<1>3. ActiveLinesHold'
  BY <1>1 DEF ActiveLinesHold
<1>4. IssuedWasAccepted'
  <2> SUFFICES ASSUME NEW l \in Line, hold'[l].status = "issued"
               PROVE  decision'[ResultOf(l)].status = "accepted"
    BY DEF IssuedWasAccepted
  <2>1. hold[l].status = "issued"
    BY <1>1
  <2>2. decision[ResultOf(l)].status = "accepted" /\ ResultOf(l) \in Result
    BY <2>1, LineKeys DEF IssuedWasAccepted
  <2> QED BY <1>1, <2>2
<1>5. ReturnsBooked'
  <2> SUFFICES ASSUME NEW s \in Result
               PROVE  decision'[s].revoked = OwnQuantity(s, Returned)'
    BY DEF ReturnsBooked
  <2>1. CASE s = r
    <3>1. OwnActive(r) \subseteq
             {l \in Line : ResultOf(l) = r /\ hold[l].status \notin Returned}
      BY DEF OwnActive, Returned
    <3>2. \A l \in Line : hold'[l].status \in Returned
                             <=> hold[l].status \in Returned \/ l \in OwnActive(r)
      BY <1>1 DEF Returned
    <3>3. OwnQuantity(r, Returned)' = OwnQuantity(r, Returned)
                                        + HeldQuantity(OwnActive(r))
      BY <1>1, <3>1, <3>2, OwnGrown
    <3>4. /\ decision[r].revoked = OwnQuantity(r, Returned)
          /\ decision[r].granted \in Nat /\ decision[r].revoked \in Nat
      BY DEF ReturnsBooked, TypeOK, DecisionType
    <3> QED BY <1>1, <2>1, <3>3, <3>4 DEF Actionable
  <2>2. CASE s # r
    <3>1. \A l \in Line : ResultOf(l) = s => l \notin OwnActive(r)
      BY <2>2 DEF OwnActive
    <3>2. OwnQuantity(s, Returned)' = OwnQuantity(s, Returned)
      BY <1>1, <3>1, OwnKept
    <3> QED BY <1>1, <2>2, <3>2 DEF ReturnsBooked
  <2> QED BY <2>1, <2>2
<1>6. PendingResultAnswerable'
  <2> SUFFICES ASSUME NEW s \in Result PROVE Answerable(s)'
    BY DEF PendingResultAnswerable, Answerable
  <2>1. CASE s = r
    <3>1. OwnActive(r)' = {}
      BY <1>1 DEF OwnActive
    <3> QED BY <1>1, <2>1, <3>1 DEF Answerable
  <2>2. CASE s # r
    <3>1. Answerable(s)
      BY PartByPart
    <3>2. \A l \in Line : ResultOf(l) = s => l \notin OwnActive(r)
      BY <2>2 DEF OwnActive
    <3>3. \A l \in Line : hold[l].status = "active" => l \notin Carried(r)
      BY CarriedIssued
    <3> QED BY <1>1, <2>2, <3>1, <3>2, <3>3, AnswerableKept
  <2> QED BY <2>1, <2>2
<1>7. OnlyConfirmedGoodsLeave'
  <2> SUFFICES ASSUME NEW l \in Line, hold'[l].ship # NoShipment,
                      hold'[l].status \in {"active", "issued"}
               PROVE  RidesWell(l)'
    BY DEF OnlyConfirmedGoodsLeave, RidesWell, CarrierOf
  <2>1. /\ l \notin OwnActive(r) /\ l \notin Carried(r)
        /\ hold'[l].status = hold[l].status /\ hold'[l].ship = hold[l].ship
    BY <1>1
  <2>2. RidesWell(l)
    BY PartByPart
  <2>3. /\ CarrierOf(l) \in Result
        /\ CarrierOf(l)[1] = hold[l].ship /\ CarrierOf(l)[2] = SourceOf(l)[1]
        /\ hold[l].ship = l[1] => CarrierOf(l) = ResultOf(l)
    BY <2>1, CarrierKey
  <2>4. CarrierOf(l) # r
    <3> SUFFICES ASSUME CarrierOf(l) = r PROVE FALSE
      OBVIOUS
    <3>1. l[1] = r[1]
      BY <2>1, <2>3 DEF Carried
    <3>2. ResultOf(l) = r
      BY <2>3, <3>1
    <3>3. hold[l].status = "issued"
      BY <2>1, <3>2 DEF OwnActive
    <3> QED BY <1>1, <3>2, <3>3 DEF IssuedWasAccepted
  <2>5. CarrierOf(l)' = CarrierOf(l)
    BY <2>1 DEF CarrierOf
  <2> QED BY <1>1, <2>1, <2>2, <2>3, <2>4, <2>5 DEF RidesWell
<1> QED BY <1>2, <1>3, <1>4, <1>5, <1>6, <1>7

-----------------------------------------------------------------------------
(* A ticket is cancelled.                                                  *)

LEMMA CancelEffect ==
    ASSUME TypeOK, NEW t \in Ticket, CancelTicket(t)
    PROVE  /\ session' = session
           /\ \A r \in Result :
                  /\ decision'[r].granted = decision[r].granted
                  /\ decision'[r].revoked
                        = decision[r].revoked + HeldQuantity(RevokedFrom(t, r))
                  /\ decision'[r].status = IF Emptied(t, r) THEN "cancelled"
                                           ELSE decision[r].status
                  /\ RevokedFrom(t, r) = {} => decision'[r] = decision[r]
                  /\ shipment'[r] = IF Emptied(t, r) THEN ClosedShipment(shipment[r])
                                    ELSE shipment[r]
                  /\ RevokedFrom(t, r) # {} => Revocable(r, RevokedFrom(t, r))
           /\ \A l \in Line :
                  /\ hold'[l].qty = hold[l].qty
                  /\ hold'[l].status = IF l \in RevocableOf(t) THEN "revoked"
                                       ELSE hold[l].status
                  /\ l \notin RevocableOf(t) =>
                        hold'[l].ship =
                           IF \E r \in Result : Emptied(t, r) /\ l \in Carried(r)
                           THEN NoShipment ELSE hold[l].ship
<1>1. \A l \in Line : hold[l] \in HoldType
  BY DEF TypeOK
<1>2. \A l \in Line :
         /\ hold'[l].qty = hold[l].qty
         /\ hold'[l].status = IF l \in RevocableOf(t) THEN "revoked"
                              ELSE hold[l].status
         /\ l \notin RevocableOf(t) =>
               hold'[l].ship = IF \E r \in Result : Emptied(t, r) /\ l \in Carried(r)
                               THEN NoShipment ELSE hold[l].ship
  <2>1. \A l \in Line :
           hold'[l] = IF l \in RevocableOf(t)
                      THEN [hold[l] EXCEPT !.status = "revoked",
                              !.ship = IF Emptied(t, ResultOf(l)) THEN @ ELSE NoShipment]
                      ELSE IF \E r \in Result : Emptied(t, r) /\ l \in Carried(r)
                           THEN Detached(hold[l]) ELSE hold[l]
    BY DEF CancelTicket
  <2> QED BY <1>1, <2>1 DEF HoldType, Detached
<1>3. ASSUME NEW r \in Result
      PROVE  /\ decision'[r].granted = decision[r].granted
             /\ decision'[r].revoked
                   = decision[r].revoked + HeldQuantity(RevokedFrom(t, r))
             /\ decision'[r].status = IF Emptied(t, r) THEN "cancelled"
                                      ELSE decision[r].status
             /\ RevokedFrom(t, r) = {} => decision'[r] = decision[r]
  <2>1. decision[r] \in DecisionType
    BY DEF TypeOK
  <2> DEFINE back == HeldQuantity(RevokedFrom(t, r))
             status == IF Emptied(t, r) THEN "cancelled" ELSE decision[r].status
  <2>2. decision'[r] = [decision[r] EXCEPT !.revoked = @ + back, !.status = status]
    BY DEF CancelTicket
  <2>3. RevokedFrom(t, r) = {} => back = 0 /\ status = decision[r].status
    BY HeldNothing DEF Emptied
  <2> HIDE DEF back, status
  <2>4. /\ decision'[r].granted = decision[r].granted
        /\ decision'[r].revoked = decision[r].revoked + back
        /\ decision'[r].status = status
    BY <2>1, <2>2 DEF DecisionType
  <2>5. back = 0 /\ status = decision[r].status => decision'[r] = decision[r]
    <3>1. ASSUME NEW w \in DecisionType
          PROVE  [w EXCEPT !.revoked = w.revoked, !.status = w.status] = w
      BY DEF DecisionType
    <3>2. decision[r].revoked + 0 = decision[r].revoked
      BY <2>1 DEF DecisionType
    <3>3. [decision[r] EXCEPT !.revoked = decision[r].revoked,
                              !.status = decision[r].status] = decision[r]
      BY <2>1, <3>1
    <3> QED BY <2>2, <3>2, <3>3, Zenon
  <2> QED BY <2>3, <2>4, <2>5 DEF back, status
<1>4. \A r \in Result :
         /\ shipment'[r] = IF Emptied(t, r) THEN ClosedShipment(shipment[r])
                           ELSE shipment[r]
         /\ RevokedFrom(t, r) # {} => Revocable(r, RevokedFrom(t, r))
  BY DEF CancelTicket
<1> QED BY <1>2, <1>3, <1>4 DEF CancelTicket, sessions

\* What a cancellation takes back from a result is some of its goods on hold,
\* and all of them exactly when the result is closed.
LEMMA RevokedIsOwn ==
    ASSUME ResultInv, NEW t \in Ticket, NEW r \in Result, RevokedFrom(t, r) # {}
    PROVE  /\ decision[r].status = "pending"
           /\ RevokedFrom(t, r) \subseteq OwnActive(r)
           /\ HeldQuantity(RevokedFrom(t, r)) > 0
           /\ HeldQuantity(OwnActive(r)) = Actionable(r)
           /\ HeldQuantity(OwnActive(r))
                 = HeldQuantity(RevokedFrom(t, r))
                     + HeldQuantity(OwnActive(r) \ RevokedFrom(t, r))
           /\ Emptied(t, r) <=> RevokedFrom(t, r) = OwnActive(r)
<1> USE DEF ResultInv
<1> DEFINE own == OwnActive(r)
           back == RevokedFrom(t, r)
           rest == own \ back
<1>1. PICK l \in back : TRUE
  OBVIOUS
<1>2. l \in Line /\ hold[l].status = "active" /\ decision[r].status = "pending"
  BY <1>1 DEF RevokedFrom, RevocableOf
<1>3. back \subseteq own /\ own \subseteq Line
  BY DEF RevokedFrom, RevocableOf, OwnActive
<1>4. \A x \in own : hold[x].qty > 0 /\ hold[x].qty \in Nat
  BY DEF ActiveLinesHold, OwnActive, TypeOK, HoldType
<1>5. HeldQuantity(back) \in Nat /\ HeldQuantity(own) \in Nat /\ HeldQuantity(rest) \in Nat
  BY HeldTypes
<1>6. HeldQuantity(own) = Actionable(r)
  BY <1>2 DEF PendingResultAnswerable
<1>7. back = own => Emptied(t, r)
  BY <1>6 DEF Emptied
<1>8. HeldQuantity(own) = HeldQuantity(back) + HeldQuantity(rest)
  <2>1. back \cup rest = own /\ back \cap rest = {}
    BY <1>3
  <2>2. HeldQuantity(back \cup rest) = HeldQuantity(back) + HeldQuantity(rest)
    BY <2>1, HeldSplit
  <2> QED BY <2>1, <2>2
<1>9. HeldQuantity(back) > 0
  <2>1. hold[l].qty <= HeldQuantity(back)
    BY <1>1, <1>2, HeldCovers
  <2> QED BY <1>1, <1>3, <1>4, <1>5, <2>1
<1>10. Emptied(t, r) => back = own
  <2> SUFFICES ASSUME Emptied(t, r), NEW x \in rest PROVE FALSE
    BY <1>3
  <2>1. HeldQuantity(rest) = 0
    BY <1>5, <1>6, <1>8 DEF Emptied
  <2>2. hold[x].qty <= HeldQuantity(rest)
    BY <1>3, HeldCovers
  <2>3. hold[x].qty > 0 /\ hold[x].qty \in Nat
    BY <1>4
  <2> QED BY <2>1, <2>2, <2>3
<1> QED BY <1>2, <1>3, <1>6, <1>7, <1>8, <1>9, <1>10

LEMMA CancelKeepsResults ==
    ASSUME ResultInv, TypeOK', NoLinesBeforeRun', NEW t \in Ticket, CancelTicket(t)
    PROVE  ResultInv'
<1> USE DEF ResultInv
<1>1. session' = session
  BY CancelEffect
<1>2. \A r \in Result :
         /\ decision'[r].granted = decision[r].granted
         /\ decision'[r].revoked
               = decision[r].revoked + HeldQuantity(RevokedFrom(t, r))
         /\ decision'[r].status = IF Emptied(t, r) THEN "cancelled"
                                  ELSE decision[r].status
         /\ RevokedFrom(t, r) = {} => decision'[r] = decision[r]
         /\ shipment'[r] = IF Emptied(t, r) THEN ClosedShipment(shipment[r])
                           ELSE shipment[r]
  BY CancelEffect
<1>3. \A l \in Line :
         /\ hold'[l].qty = hold[l].qty
         /\ hold'[l].status = IF l \in RevocableOf(t) THEN "revoked"
                              ELSE hold[l].status
         /\ l \notin RevocableOf(t) =>
               hold'[l].ship = IF \E r \in Result : Emptied(t, r) /\ l \in Carried(r)
                               THEN NoShipment ELSE hold[l].ship
  BY CancelEffect
<1>4. \A r \in Result : RevokedFrom(t, r) # {} => decision[r].status = "pending"
  BY RevokedIsOwn
<1>5. \A r \in Result : RevokedFrom(t, r) = {} => ~Emptied(t, r)
  BY DEF Emptied
<1>6. \A r \in Result, l \in Line : ResultOf(l) = r =>
         (l \in RevocableOf(t) <=> l \in RevokedFrom(t, r))
  BY DEF RevokedFrom
<1>7. NoResultBeforeRun'
  <2> SUFFICES ASSUME NEW r \in Result, session'[r[1]] # "completed"
               PROVE  decision'[r] = NoDecision /\ shipment'[r] = "none"
    BY DEF NoResultBeforeRun
  <2>1. decision[r] = NoDecision /\ shipment[r] = "none"
    BY <1>1 DEF NoResultBeforeRun
  <2>2. RevokedFrom(t, r) = {}
    BY <1>4, <2>1 DEF NoDecision
  <2> QED BY <1>2, <1>5, <2>1, <2>2
<1>8. ActiveLinesHold'
  BY <1>3 DEF ActiveLinesHold
<1>9. IssuedWasAccepted'
  <2> SUFFICES ASSUME NEW l \in Line, hold'[l].status = "issued"
               PROVE  decision'[ResultOf(l)].status = "accepted"
    BY DEF IssuedWasAccepted
  <2>1. hold[l].status = "issued"
    BY <1>3
  <2>2. decision[ResultOf(l)].status = "accepted" /\ ResultOf(l) \in Result
    BY <2>1, LineKeys DEF IssuedWasAccepted
  <2> QED BY <1>2, <1>4, <2>2
<1>10. ReturnsBooked'
  <2> SUFFICES ASSUME NEW r \in Result
               PROVE  decision'[r].revoked = OwnQuantity(r, Returned)'
    BY DEF ReturnsBooked
  <2>1. RevokedFrom(t, r) \subseteq
           {l \in Line : ResultOf(l) = r /\ hold[l].status \notin Returned}
    BY DEF RevokedFrom, RevocableOf, Returned
  <2>2. \A l \in Line : ResultOf(l) = r =>
           /\ hold'[l].qty = hold[l].qty
           /\ hold'[l].status \in Returned
                 <=> hold[l].status \in Returned \/ l \in RevokedFrom(t, r)
    BY <1>3, <1>6 DEF Returned
  <2>3. OwnQuantity(r, Returned)' = OwnQuantity(r, Returned)
                                      + HeldQuantity(RevokedFrom(t, r))
    BY <2>1, <2>2, OwnGrown
  <2> QED BY <1>2, <2>3 DEF ReturnsBooked
<1>11. \A l \in Line : hold[l].status = "active" =>
          \A r \in Result : l \notin Carried(r)
  BY CarriedIssued
<1>12. PendingResultAnswerable'
  <2> SUFFICES ASSUME NEW r \in Result PROVE Answerable(r)'
    BY DEF PendingResultAnswerable, Answerable
  <2>1. Answerable(r)
    BY PartByPart
  <2>2. CASE RevokedFrom(t, r) = {}
    <3>1. decision'[r] = decision[r] /\ shipment'[r] = shipment[r]
      BY <1>2, <1>5, <2>2
    <3>2. \A l \in Line : ResultOf(l) = r =>
             /\ hold'[l].qty = hold[l].qty /\ hold'[l].status = hold[l].status
             /\ hold[l].status = "active" => hold'[l].ship = hold[l].ship
      BY <1>3, <1>6, <1>11, <2>2
    <3> QED BY <2>1, <3>1, <3>2, AnswerableKept
  <2>3. CASE Emptied(t, r)
    <3>1. RevokedFrom(t, r) = OwnActive(r)
      BY <1>5, <2>3, RevokedIsOwn
    <3>2. OwnActive(r)' = {}
      BY <1>3, <1>6, <3>1 DEF OwnActive
    <3> QED BY <1>2, <2>3, <3>2 DEF Answerable
  <2>4. CASE RevokedFrom(t, r) # {} /\ ~Emptied(t, r)
    <3> DEFINE own == OwnActive(r)
               back == RevokedFrom(t, r)
               rest == own \ back
    <3>1. /\ decision[r].status = "pending" /\ back \subseteq own
          /\ HeldQuantity(own) = Actionable(r)
          /\ HeldQuantity(own) = HeldQuantity(back) + HeldQuantity(rest)
          /\ back # own
      BY <2>4, RevokedIsOwn
    <3>2. \A l \in Line : l \in own' <=> l \in rest
      BY <1>3, <1>6 DEF OwnActive
    <3>3. HeldQuantity(own)' = HeldQuantity(rest)
      <4>1. QuantityAfter(own') = HeldQuantity(rest)
        BY <1>3, <3>2, HeldKept
      <4> QED BY <4>1 DEF QuantityAfter, HeldQuantity
    <3>4. Actionable(r)' = HeldQuantity(rest)
      <4>1. /\ decision[r].granted \in Nat /\ decision[r].revoked \in Nat
            /\ HeldQuantity(back) \in Nat /\ HeldQuantity(rest) \in Nat
        BY HeldTypes DEF TypeOK, DecisionType
      <4>2. decision[r].granted - decision[r].revoked
               = HeldQuantity(back) + HeldQuantity(rest)
        BY <3>1 DEF Actionable
      <4>3. decision'[r].granted - decision'[r].revoked = HeldQuantity(rest)
        <5> HIDE DEF back, rest
        <5>1. /\ decision'[r].granted = decision[r].granted
              /\ decision'[r].revoked = decision[r].revoked + HeldQuantity(back)
          BY <1>2 DEF back
        <5> QED BY <4>1, <4>2, <5>1
      <4> QED BY <4>3 DEF Actionable
    <3>5. HeldQuantity(back) \in Nat /\ HeldQuantity(rest) \in Nat
      BY HeldTypes
    <3>6. HeldQuantity(rest) > 0
      <4>1. PICK l \in rest : TRUE
        BY <3>1
      <4>2. l \in Line /\ hold[l].qty \in Nat /\ hold[l].qty > 0
        BY <4>1 DEF OwnActive, ActiveLinesHold, TypeOK, HoldType
      <4>3. hold[l].qty <= HeldQuantity(rest)
        BY <4>1, <4>2, HeldCovers
      <4> QED BY <3>5, <4>2, <4>3
    <3>7. decision'[r].status = "pending" /\ shipment'[r] = shipment[r]
      BY <1>2, <2>4, <3>1
    <3>8. \A l \in own' : l \in own /\ hold'[l].ship = hold[l].ship
      <4>1. \A l \in own' : l \in Line /\ l \in rest
        BY <3>2 DEF OwnActive
      <4>2. \A l \in rest : l \in own /\ l \notin RevocableOf(t)
                             /\ hold[l].status = "active" /\ l \in Line
        BY <1>6 DEF OwnActive
      <4> QED BY <1>3, <1>11, <4>1, <4>2
    <3>9. /\ shipment[r] \in {"none", "reserved"}
          /\ \A l \in own :
                hold[l].ship = IF shipment[r] = "reserved" THEN r[1] ELSE NoShipment
      BY <2>1, <3>1 DEF Answerable
    <3>10. HeldQuantity(own)' = Actionable(r)' /\ Actionable(r)' > 0
      BY <3>3, <3>4, <3>6
    <3> QED BY <3>7, <3>8, <3>9, <3>10 DEF Answerable
  <2> QED BY <2>2, <2>3, <2>4
<1>13. OnlyConfirmedGoodsLeave'
  <2> SUFFICES ASSUME NEW l \in Line, hold'[l].ship # NoShipment,
                      hold'[l].status \in {"active", "issued"}
               PROVE  RidesWell(l)'
    BY DEF OnlyConfirmedGoodsLeave, RidesWell, CarrierOf
  <2>1. /\ l \notin RevocableOf(t)
        /\ \A r \in Result : Emptied(t, r) => l \notin Carried(r)
        /\ hold'[l].status = hold[l].status /\ hold'[l].ship = hold[l].ship
    BY <1>3
  <2>2. RidesWell(l)
    BY PartByPart
  <2>3. /\ CarrierOf(l) \in Result
        /\ CarrierOf(l)[1] = hold[l].ship /\ CarrierOf(l)[2] = SourceOf(l)[1]
        /\ hold[l].ship = l[1] => CarrierOf(l) = ResultOf(l)
    BY <2>1, CarrierKey
  <2>4. ~Emptied(t, CarrierOf(l))
    <3> DEFINE r == CarrierOf(l)
    <3> SUFFICES ASSUME Emptied(t, r) PROVE FALSE
      OBVIOUS
    <3>1. l[1] = r[1]
      BY <2>1, <2>3 DEF Carried
    <3>2. ResultOf(l) = r
      BY <2>3, <3>1
    <3>3. decision[r].status = "pending" /\ RevokedFrom(t, r) = OwnActive(r)
      BY <1>5, <2>3, RevokedIsOwn
    <3>4. hold[l].status = "issued"
      BY <1>6, <2>1, <2>3, <3>2, <3>3 DEF OwnActive
    <3> QED BY <3>2, <3>3, <3>4 DEF IssuedWasAccepted
  <2>5. CarrierOf(l)' = CarrierOf(l)
    BY <2>1 DEF CarrierOf
  <2> QED BY <1>2, <2>1, <2>2, <2>3, <2>4, <2>5 DEF RidesWell
<1> QED BY <1>7, <1>8, <1>9, <1>10, <1>12, <1>13

-----------------------------------------------------------------------------
(* A run publishes the results of its session.                             *)

LEMMA RunEffect ==
    ASSUME TypeOK, NoLinesBeforeRun, NEW n \in Session, NEW grant \in Grants(n),
           FinalizeAllocation(n, grant)
    PROVE  /\ session[n] = "open" /\ session'[n] = "completed"
           /\ \A m \in Session : m # n => session'[m] = session[m]
           /\ grant \in [Claim -> Nat]
           /\ \A s \in Store :
                 /\ <<n, s>> \in Result
                 /\ decision'[<<n, s>>] = DecisionAfterRun(n, grant, s)
                 /\ shipment'[<<n, s>>] = ShipmentAfterRun(n, grant, s)
           /\ \A r \in Result : r[1] # n =>
                 decision'[r] = decision[r] /\ shipment'[r] = shipment[r]
           /\ \A l \in Line : l[1] = n /\ grant[SourceOf(l)] > 0 =>
                 /\ hold'[l].status = "active" /\ hold'[l].qty = grant[SourceOf(l)]
                 /\ hold'[l].ship = IF Ships(n, grant, SourceOf(l)[1])
                                    THEN n ELSE NoShipment
           /\ \A l \in Line : l[1] = n /\ ~(grant[SourceOf(l)] > 0) =>
                 hold'[l].status = "none"
           /\ \A l \in Line : l[1] # n =>
                 /\ hold'[l].status = hold[l].status /\ hold'[l].qty = hold[l].qty
                 /\ \/ hold'[l].ship = hold[l].ship
                    \/ /\ l \in Carriable(n, SourceOf(l)[1])
                       /\ Ships(n, grant, SourceOf(l)[1]) /\ hold'[l].ship = n
<1>1. /\ session[n] = "open" /\ session'[n] = "completed"
      /\ \A m \in Session : m # n => session'[m] = session[m]
  BY DEF FinalizeAllocation, TypeOK
<1>2. \A s \in Store : <<n, s>> \in Result
  BY DEF Result
<1>3. \A r \in Result :
         /\ decision'[r] = IF r[1] = n THEN DecisionAfterRun(n, grant, r[2])
                           ELSE decision[r]
         /\ shipment'[r] = IF r[1] = n THEN ShipmentAfterRun(n, grant, r[2])
                           ELSE shipment[r]
  BY DEF FinalizeAllocation
<1>4. \A s \in Store :
         /\ decision'[<<n, s>>] = DecisionAfterRun(n, grant, s)
         /\ shipment'[<<n, s>>] = ShipmentAfterRun(n, grant, s)
  BY <1>2, <1>3
<1>5. ASSUME NEW l \in Line, l[1] = n
      PROVE  /\ grant[SourceOf(l)] > 0 =>
                   /\ hold'[l].status = "active" /\ hold'[l].qty = grant[SourceOf(l)]
                   /\ hold'[l].ship = IF Ships(n, grant, SourceOf(l)[1])
                                      THEN n ELSE NoShipment
             /\ ~(grant[SourceOf(l)] > 0) => hold'[l].status = "none"
  <2> DEFINE ship == IF Ships(n, grant, SourceOf(l)[1]) THEN n ELSE NoShipment
  <2>1. hold[l].status = "none"
    BY <1>1, <1>5 DEF NoLinesBeforeRun
  <2>2. hold'[l] = IF grant[SourceOf(l)] > 0
                   THEN [status |-> "active", qty |-> grant[SourceOf(l)],
                         ship |-> ship]
                   ELSE hold[l]
    BY <1>5 DEF FinalizeAllocation, HoldAfterRun
  <2> HIDE DEF ship
  <2>3. /\ grant[SourceOf(l)] > 0 =>
              /\ hold'[l].status = "active" /\ hold'[l].qty = grant[SourceOf(l)]
              /\ hold'[l].ship = ship
        /\ ~(grant[SourceOf(l)] > 0) => hold'[l].status = "none"
    BY <2>1, <2>2
  <2> QED BY <2>3 DEF ship
<1>6. ASSUME NEW l \in Line, l[1] # n
      PROVE  /\ hold'[l].status = hold[l].status /\ hold'[l].qty = hold[l].qty
             /\ \/ hold'[l].ship = hold[l].ship
                \/ /\ l \in Carriable(n, SourceOf(l)[1])
                   /\ Ships(n, grant, SourceOf(l)[1]) /\ hold'[l].ship = n
  <2> DEFINE s == SourceOf(l)[1]
             ship == IF Ships(n, grant, s) THEN n ELSE NoShipment
  <2>1. hold'[l] = IF l \in Carriable(n, s) THEN [hold[l] EXCEPT !.ship = ship]
                   ELSE hold[l]
    BY <1>6 DEF FinalizeAllocation, HoldAfterRun
  <2>2. l \in Carriable(n, s) => hold[l].ship = NoShipment
    BY DEF Carriable
  <2>3. (Ships(n, grant, s) /\ ship = n) \/ ship = NoShipment
    OBVIOUS
  <2> HIDE DEF ship, s
  <2>4. hold[l] \in HoldType
    BY DEF TypeOK
  <2>5. /\ hold'[l].status = hold[l].status /\ hold'[l].qty = hold[l].qty
        /\ \/ hold'[l].ship = hold[l].ship
           \/ l \in Carriable(n, s) /\ hold'[l].ship = ship
    BY <2>1, <2>4 DEF HoldType
  <2>6. \/ hold'[l].ship = hold[l].ship
        \/ l \in Carriable(n, s) /\ Ships(n, grant, s) /\ hold'[l].ship = n
    BY <2>2, <2>3, <2>5
  <2> QED BY <2>5, <2>6 DEF s
<1>7. grant \in [Claim -> Nat]
  BY ChoiceTypes
<1> QED BY <1>1, <1>2, <1>3, <1>4, <1>5, <1>6, <1>7

\* After the run, the goods a new result has on hold are what it was granted.
LEMMA GrantedOnHold ==
    ASSUME TypeOK, TypeOK', NoLinesBeforeRun, NEW n \in Session,
           NEW grant \in Grants(n), FinalizeAllocation(n, grant), NEW s \in Store
    PROVE  QuantityAfter(OwnActive(<<n, s>>)') = GrantedTo(grant, s)
<1> DEFINE f == [l \in Line |->
                   IF l \in OwnActive(<<n, s>>)' THEN hold'[l].qty ELSE 0]
           g == [c \in Claim |-> IF c[1] = s THEN grant[c] ELSE 0]
           key == [c \in Claim |-> <<n, c>>]
<1>1. grant \in [Claim -> Nat]
  BY ChoiceTypes
<1>2. /\ \A l \in Line : l[1] = n /\ grant[SourceOf(l)] > 0 =>
            hold'[l].status = "active" /\ hold'[l].qty = grant[SourceOf(l)]
      /\ \A l \in Line : l[1] = n /\ ~(grant[SourceOf(l)] > 0) =>
            hold'[l].status = "none"
  BY RunEffect
<1>3. f \in [Line -> Nat] /\ g \in [Claim -> Nat]
  BY <1>1 DEF TypeOK, HoldType
<1>4. /\ key \in [Claim -> Line]
      /\ \A c, d \in Claim : key[c] = key[d] => c = d
  BY LineKeys
<1>5. ASSUME NEW c \in Claim PROVE g[c] = f[key[c]]
  <2>1. /\ <<n, c>> \in Line /\ <<n, c>>[1] = n /\ SourceOf(<<n, c>>) = c
        /\ ResultOf(<<n, c>>) = <<n, c[1]>> /\ grant[c] \in Nat
    BY <1>1, LineKeys DEF SourceOf, ResultOf
  <2>2. CASE grant[c] > 0
    <3>1. hold'[<<n, c>>].status = "active" /\ hold'[<<n, c>>].qty = grant[c]
      BY <1>2, <2>1, <2>2
    <3>2. <<n, c>> \in OwnActive(<<n, s>>)' <=> c[1] = s
      BY <2>1, <3>1 DEF OwnActive
    <3> QED BY <2>1, <3>1, <3>2
  <2>3. CASE ~(grant[c] > 0)
    <3>1. <<n, c>> \notin OwnActive(<<n, s>>)'
      BY <1>2, <2>1, <2>3 DEF OwnActive
    <3> QED BY <2>1, <2>3, <3>1
  <2> QED BY <2>2, <2>3
<1>6. ASSUME NEW l \in Line, f[l] > 0 PROVE \E c \in Claim : l = key[c]
  <2>1. l \in OwnActive(<<n, s>>)'
    BY <1>6
  <2>2. l[1] = n /\ l[2] \in Claim /\ l = <<l[1], l[2]>>
    BY <2>1, LineKeys DEF OwnActive
  <2> QED BY <2>2
<1> HIDE DEF f, g, key
<1>7. SumOf(f) = SumOf(g)
  BY <1>3, <1>4, <1>5, <1>6, FiniteKeys, SumReindex
<1> QED BY <1>7 DEF f, g, QuantityAfter, GrantedTo

LEMMA RunKeepsResults ==
    ASSUME ResultInv, TypeOK', NoLinesBeforeRun', NEW n \in Session,
           NEW grant \in Grants(n), FinalizeAllocation(n, grant)
    PROVE  ResultInv'
<1> USE DEF ResultInv
<1>1. /\ session[n] = "open" /\ session'[n] = "completed"
      /\ \A m \in Session : m # n => session'[m] = session[m]
      /\ grant \in [Claim -> Nat]
  BY RunEffect
<1>2. /\ \A s \in Store :
            /\ <<n, s>> \in Result
            /\ decision'[<<n, s>>] = DecisionAfterRun(n, grant, s)
            /\ shipment'[<<n, s>>] = ShipmentAfterRun(n, grant, s)
      /\ \A r \in Result : r[1] # n =>
            decision'[r] = decision[r] /\ shipment'[r] = shipment[r]
  BY RunEffect
<1>3. /\ \A l \in Line : l[1] = n /\ grant[SourceOf(l)] > 0 =>
            /\ hold'[l].status = "active" /\ hold'[l].qty = grant[SourceOf(l)]
            /\ hold'[l].ship = IF Ships(n, grant, SourceOf(l)[1])
                               THEN n ELSE NoShipment
      /\ \A l \in Line : l[1] = n /\ ~(grant[SourceOf(l)] > 0) =>
            hold'[l].status = "none"
  BY RunEffect
<1>4. \A l \in Line : l[1] # n =>
         /\ hold'[l].status = hold[l].status /\ hold'[l].qty = hold[l].qty
         /\ \/ hold'[l].ship = hold[l].ship
            \/ /\ l \in Carriable(n, SourceOf(l)[1])
               /\ Ships(n, grant, SourceOf(l)[1]) /\ hold'[l].ship = n
  BY RunEffect
<1>5. \A r \in Result : /\ r = <<r[1], r[2]>> /\ r[2] \in Store /\ r[1] \in Session
  BY DEF Result
<1>6. NoResultBeforeRun'
  <2> SUFFICES ASSUME NEW r \in Result, session'[r[1]] # "completed"
               PROVE  decision'[r] = NoDecision /\ shipment'[r] = "none"
    BY DEF NoResultBeforeRun
  <2>1. r[1] # n /\ session[r[1]] # "completed"
    BY <1>1, <1>5
  <2> QED BY <1>2, <2>1 DEF NoResultBeforeRun
<1>7. ActiveLinesHold'
  BY <1>3, <1>4 DEF ActiveLinesHold
<1>8. IssuedWasAccepted'
  <2> SUFFICES ASSUME NEW l \in Line, hold'[l].status = "issued"
               PROVE  decision'[ResultOf(l)].status = "accepted"
    BY DEF IssuedWasAccepted
  <2>1. l[1] # n
    BY <1>3
  <2>2. ResultOf(l) \in Result /\ ResultOf(l)[1] = l[1]
    BY LineKeys
  <2> QED BY <1>2, <1>4, <2>1, <2>2 DEF IssuedWasAccepted
<1>9. ReturnsBooked'
  <2> SUFFICES ASSUME NEW r \in Result
               PROVE  decision'[r].revoked = OwnQuantity(r, Returned)'
    BY DEF ReturnsBooked
  <2>1. CASE r[1] = n
    <3> DEFINE after == {l \in Line : ResultOf(l) = r /\ hold'[l].status \in Returned}
    <3>1. \A l \in Line : l \in after <=> l \in {}
      BY <1>3, <2>1, LineKeys DEF Returned
    <3>2. QuantityAfter(after) = HeldQuantity({})
      BY <3>1, HeldKept
    <3>3. HeldQuantity({}) = 0
      BY HeldNothing
    <3>4. decision'[r].revoked = 0
      <4>1. r = <<n, r[2]>> /\ r[2] \in Store
        BY <1>5, <2>1
      <4>2. decision'[r] = DecisionAfterRun(n, grant, r[2])
        BY <1>2, <4>1
      <4> QED BY <4>2 DEF DecisionAfterRun
    <3> QED BY <3>2, <3>3, <3>4 DEF QuantityAfter, HeldQuantity, OwnQuantity
  <2>2. CASE r[1] # n
    <3>1. \A l \in Line : ResultOf(l) = r => l[1] # n
      BY <2>2, LineKeys
    <3>2. OwnQuantity(r, Returned)' = OwnQuantity(r, Returned)
      BY <1>4, <3>1, OwnKept
    <3> QED BY <1>2, <2>2, <3>2 DEF ReturnsBooked
  <2> QED BY <2>1, <2>2
\* Goods of earlier results that may be carried were issued.
<1>10. \A l \in Line : l \in Carriable(n, SourceOf(l)[1]) =>
          hold[l].status = "issued" /\ hold[l].ship = NoShipment
  <2> SUFFICES ASSUME NEW l \in Line, l \in Carriable(n, SourceOf(l)[1])
               PROVE  hold[l].status = "issued" /\ hold[l].ship = NoShipment
    OBVIOUS
  <2>1. /\ hold[l].status \in {"active", "issued"} /\ hold[l].ship = NoShipment
        /\ decision[ResultOf(l)].status \in {"accepted", "not_required"}
    BY DEF Carriable
  <2>2. ResultOf(l) \in Result
    BY LineKeys
  <2>3. Answerable(ResultOf(l))
    BY <2>2, PartByPart
  <2> QED BY <2>1, <2>3 DEF Answerable, OwnActive
<1>11. PendingResultAnswerable'
  <2> SUFFICES ASSUME NEW r \in Result PROVE Answerable(r)'
    BY DEF PendingResultAnswerable, Answerable
  <2>1. CASE r[1] # n
    <3>1. \A l \in Line : ResultOf(l) = r => l[1] # n
      BY <2>1, LineKeys
    <3>2. \A l \in Line : ResultOf(l) = r =>
             /\ hold'[l].qty = hold[l].qty /\ hold'[l].status = hold[l].status
             /\ hold[l].status = "active" => hold'[l].ship = hold[l].ship
      BY <1>4, <1>10, <3>1
    <3>3. Answerable(r)
      BY PartByPart
    <3> QED BY <1>2, <2>1, <3>2, <3>3, AnswerableKept
  <2>2. CASE r[1] = n
    <3> DEFINE s == r[2]
    <3>1. r = <<n, s>> /\ s \in Store
      BY <1>5, <2>2
    <3>2. decision'[r] = DecisionAfterRun(n, grant, s)
      BY <1>2, <3>1
    <3>3. shipment'[r] = ShipmentAfterRun(n, grant, s)
      BY <1>2, <3>1
    <3>4. HeldQuantity(OwnActive(r))' = GrantedTo(grant, s)
      <4>1. QuantityAfter(OwnActive(r)') = GrantedTo(grant, s)
        BY <3>1, GrantedOnHold
      <4> QED BY <4>1 DEF QuantityAfter, HeldQuantity
    <3>5. GrantedTo(grant, s) \in Nat
      BY <1>1, GrantedType
    <3>6. Actionable(r)' = GrantedTo(grant, s)
      BY <3>2, <3>5 DEF Actionable, DecisionAfterRun
    <3>7. \A l \in OwnActive(r)' :
             /\ l \in Line /\ l[1] = n /\ SourceOf(l)[1] = s /\ SourceOf(l) \in Claim
             /\ grant[SourceOf(l)] > 0
      BY <1>3, <3>1, LineKeys DEF OwnActive
    <3>8. CASE GrantedTo(grant, s) > 0
      <4>1. decision'[r].status = "pending"
        BY <3>2, <3>8 DEF DecisionAfterRun
      <4>2. shipment'[r] = IF Ships(n, grant, s) THEN "reserved" ELSE "none"
        BY <3>3, <3>8 DEF ShipmentAfterRun
      <4>3. \A l \in OwnActive(r)' :
               hold'[l].ship = IF Ships(n, grant, s) THEN n ELSE NoShipment
        BY <1>3, <3>7
      <4>4. \A l \in OwnActive(r)' :
               hold'[l].ship = IF shipment'[r] = "reserved" THEN r[1] ELSE NoShipment
        BY <3>1, <4>2, <4>3
      <4> QED BY <3>4, <3>6, <3>8, <4>1, <4>2, <4>4 DEF Answerable
    <3>9. CASE ~(GrantedTo(grant, s) > 0)
      <4>1. decision'[r].status # "pending"
        BY <3>2, <3>9 DEF DecisionAfterRun
      <4>2. ASSUME NEW l \in OwnActive(r)' PROVE FALSE
        <5>1. grant[SourceOf(l)] <= GrantedTo(grant, s) /\ grant[SourceOf(l)] \in Nat
          BY <1>1, <3>7, GrantedCovers
        <5>2. grant[SourceOf(l)] > 0
          BY <3>7
        <5> QED BY <3>5, <3>9, <5>1, <5>2
      <4> QED BY <4>1, <4>2 DEF Answerable
    <3> QED BY <3>8, <3>9
  <2> QED BY <2>1, <2>2
<1>12. OnlyConfirmedGoodsLeave'
  <2> SUFFICES ASSUME NEW l \in Line, hold'[l].ship # NoShipment,
                      hold'[l].status \in {"active", "issued"}
               PROVE  RidesWell(l)'
    BY DEF OnlyConfirmedGoodsLeave, RidesWell, CarrierOf
  <2> DEFINE s == SourceOf(l)[1]
  <2>1. s \in Store /\ l[1] \in Session /\ SourceOf(l) \in Claim
    BY LineKeys
  <2>2. CASE l[1] = n
    <3>1. grant[SourceOf(l)] > 0
      BY <1>3, <2>2
    <3>2. hold'[l].status = "active" /\ hold'[l].ship = n /\ Ships(n, grant, s)
      BY <1>3, <2>2, <3>1
    <3>3. GrantedTo(grant, s) > 0
      <4>1. grant[SourceOf(l)] <= GrantedTo(grant, s) /\ grant[SourceOf(l)] \in Nat
        BY <1>1, <2>1, GrantedCovers
      <4>2. GrantedTo(grant, s) \in Nat
        BY <1>1, GrantedType
      <4> QED BY <3>1, <4>1, <4>2
    <3>4. shipment'[<<n, s>>] = "reserved"
      BY <1>2, <2>1, <3>2, <3>3 DEF ShipmentAfterRun
    <3>5. CarrierOf(l)' = <<n, s>>
      BY <3>2 DEF CarrierOf
    <3> QED BY <2>2, <3>2, <3>4, <3>5 DEF RidesWell
  <2>3. CASE l[1] # n /\ l \in Carriable(n, s) /\ Ships(n, grant, s) /\ hold'[l].ship = n
    <3>1. hold'[l].status = "issued"
      BY <1>4, <1>10, <2>3
    <3>2. shipment'[<<n, s>>] \in {"reserved", "dispatched"}
      BY <1>2, <2>1, <2>3 DEF ShipmentAfterRun
    <3>3. CarrierOf(l)' = <<n, s>>
      BY <2>3 DEF CarrierOf
    <3> QED BY <2>3, <3>1, <3>2, <3>3 DEF RidesWell
  <2>4. CASE l[1] # n /\ hold'[l].ship = hold[l].ship
    <3>1. hold[l].ship # NoShipment /\ hold[l].status \in {"active", "issued"}
          /\ hold'[l].status = hold[l].status
      BY <1>4, <2>4
    <3>2. RidesWell(l)
      BY PartByPart
    <3>3. CarrierOf(l) \in Result
      BY <3>1, CarrierKey
    <3>4. CarrierOf(l)[1] # n
      BY <1>1, <3>1, <3>2, <3>3 DEF NoResultBeforeRun, RidesWell
    <3>5. CarrierOf(l)' = CarrierOf(l)
      BY <2>4 DEF CarrierOf
    <3> QED BY <1>2, <2>4, <3>1, <3>2, <3>3, <3>4, <3>5 DEF RidesWell
  <2> QED BY <1>4, <2>2, <2>3, <2>4
<1> QED BY <1>6, <1>7, <1>8, <1>9, <1>11, <1>12

-----------------------------------------------------------------------------
(* The other steps leave the results alone.                                *)

LEMMA UntouchedResults ==
    ASSUME ResultInv, TypeOK', NoLinesBeforeRun',
           UNCHANGED <<hold, decision, shipment, session>>
    PROVE  ResultInv'
<1>1. UNCHANGED <<NoResultBeforeRun, ActiveLinesHold, IssuedWasAccepted>>
  BY DEF NoResultBeforeRun, ActiveLinesHold, IssuedWasAccepted
<1>2. UNCHANGED <<ReturnsBooked, PendingResultAnswerable, OnlyConfirmedGoodsLeave>>
  BY DEF ReturnsBooked, OwnQuantity, HeldQuantity, PendingResultAnswerable,
         OwnActive, Actionable, OnlyConfirmedGoodsLeave
<1> QED BY <1>1, <1>2 DEF ResultInv

LEMMA CancelSessionKeepsResults ==
    ASSUME ResultInv, TypeOK', NoLinesBeforeRun', NEW n \in Session, CancelSession(n)
    PROVE  ResultInv'
<1>1. UNCHANGED <<hold, decision, shipment>>
  BY DEF CancelSession, results
<1>2. \A m \in Session : session'[m] # "completed" => session[m] # "completed"
  BY DEF CancelSession, ResultInv, TypeOK
<1>3. NoResultBeforeRun'
  BY <1>1, <1>2 DEF NoResultBeforeRun, ResultInv, Result
<1>4. UNCHANGED <<ActiveLinesHold, IssuedWasAccepted>>
  BY <1>1 DEF ActiveLinesHold, IssuedWasAccepted
<1>5. UNCHANGED <<ReturnsBooked, PendingResultAnswerable, OnlyConfirmedGoodsLeave>>
  BY <1>1 DEF ReturnsBooked, OwnQuantity, HeldQuantity, PendingResultAnswerable,
         OwnActive, Actionable, OnlyConfirmedGoodsLeave
<1> QED BY <1>3, <1>4, <1>5 DEF ResultInv

LEMMA InitResults == Init => ResultInv
<1> SUFFICES ASSUME Init PROVE ResultInv
  OBVIOUS
<1>1. TypeOK /\ NoLinesBeforeRun
  BY InitTypes, InitLines
<1>2. /\ \A l \in Line : hold[l] = NoHold
      /\ \A r \in Result : decision[r] = NoDecision /\ shipment[r] = "none"
  BY DEF Init
<1>3. \A l \in Line : hold[l].status = "none" /\ hold[l].ship = NoShipment
  BY <1>2 DEF NoHold
<1>4. NoResultBeforeRun /\ ActiveLinesHold /\ IssuedWasAccepted
  BY <1>2, <1>3 DEF NoResultBeforeRun, ActiveLinesHold, IssuedWasAccepted
<1>5. ReturnsBooked
  <2> SUFFICES ASSUME NEW r \in Result
               PROVE  decision[r].revoked = OwnQuantity(r, Returned)
    BY DEF ReturnsBooked
  <2> DEFINE own == {l \in Line : ResultOf(l) = r /\ hold[l].status \in Returned}
  <2>1. \A l \in Line : l \notin own
    BY <1>3 DEF Returned
  <2>2. HeldQuantity(own) = 0
    BY <2>1, HeldNothing
  <2> QED BY <1>2, <2>2 DEF OwnQuantity, NoDecision
<1>6. PendingResultAnswerable
  BY <1>2, <1>3 DEF PendingResultAnswerable, OwnActive, NoDecision
<1>7. OnlyConfirmedGoodsLeave
  BY <1>3 DEF OnlyConfirmedGoodsLeave
<1> QED BY <1>1, <1>4, <1>5, <1>6, <1>7 DEF ResultInv

LEMMA NextResults == ResultInv /\ [Next]_vars => ResultInv'
<1> SUFFICES ASSUME ResultInv, [Next]_vars PROVE ResultInv'
  OBVIOUS
<1>1. TypeOK /\ NoLinesBeforeRun
  BY DEF ResultInv
<1>2. TypeOK'
  BY <1>1, NextTypes
<1>3. NoLinesBeforeRun'
  BY <1>1, NextLines
<1>4. CASE Tick \/ StartTick \/ \E p \in Product : IncreaseStock(p) \/ DecreaseStock(p)
  <2>1. UNCHANGED <<hold, decision, shipment, session>>
    BY <1>4 DEF Tick, StartTick, IncreaseStock, DecreaseStock, results, sessions
  <2> QED BY <1>2, <1>3, <2>1, UntouchedResults
<1>5. CASE \E n \in Session : CancelSession(n)
  BY <1>2, <1>3, <1>5, CancelSessionKeepsResults
<1>6. CASE \E n \in Session, s \in Store, items \in Items : SubmitOrder(n, s, items)
  <2>1. UNCHANGED <<hold, decision, shipment, session>>
    BY <1>6 DEF SubmitOrder, results
  <2> QED BY <1>2, <1>3, <2>1, UntouchedResults
<1>7. CASE Snapshots
  <2>1. UNCHANGED <<hold, decision, shipment, session>>
    BY <1>7 DEF Snapshots, CaptureSnapshot, results
  <2> QED BY <1>2, <1>3, <2>1, UntouchedResults
<1>8. CASE Runs
  BY <1>2, <1>3, <1>8, RunKeepsResults DEF Runs
<1>9. CASE \E o \in Offer : AcceptOffer(o) \/ DeclineOffer(o) \/ AnswerLate(o)
  <2>1. UNCHANGED <<hold, decision, shipment, session>>
    BY <1>9 DEF AcceptOffer, DeclineOffer, AnswerLate, EndOffer, results, sessions
  <2> QED BY <1>2, <1>3, <2>1, UntouchedResults
<1>10. CASE \E r \in Result : AcceptResult(r) \/ WaitlistResult(r)
  BY <1>2, <1>3, <1>10, AcceptKeepsResults, WaitlistKeepsResults
<1>11. CASE \E t \in Ticket : CancelTicket(t)
  BY <1>2, <1>3, <1>11, CancelKeepsResults
<1>12. CASE UNCHANGED vars
  <2>1. UNCHANGED <<hold, decision, shipment, session>>
    BY <1>12 DEF vars, results, sessions
  <2> QED BY <1>2, <1>3, <2>1, UntouchedResults
<1> QED BY <1>4, <1>5, <1>6, <1>7, <1>8, <1>9, <1>10, <1>11, <1>12 DEF Next, Answers

\* The invariant of the results holds in every reachable state: goods are
\* issued only to stores that accepted, and every decision agrees with its lines.
THEOREM ResultsStayConsistent == Spec => []ResultInv
<1>1. Init => ResultInv
  BY InitResults
<1>2. ResultInv /\ [Next]_vars => ResultInv'
  BY NextResults
<1> QED BY <1>1, <1>2, PTL DEF Spec

\* A result that waits for its store can always be accepted or sent back as a
\* whole: its goods are on hold, on its own shipment, whatever was cancelled,
\* carried along or sent back before.  The integrity errors of
\* allocation-waitlist.ts and reshare-orders.ts are never thrown.
THEOREM ResultsStayAnswerable == Spec => []PendingResultAnswerable
<1>1. ResultInv => PendingResultAnswerable
  BY DEF ResultInv
<1> QED BY <1>1, ResultsStayConsistent, PTL

\* Goods leave only when their store accepted them, and goods owed to a store
\* never stay behind on a shipment that was cancelled.
THEOREM ConfirmedGoodsOnly == Spec => []OnlyConfirmedGoodsLeave
<1>1. ResultInv => OnlyConfirmedGoodsLeave
  BY DEF ResultInv
<1> QED BY <1>1, ResultsStayConsistent, PTL

-----------------------------------------------------------------------------
(* The refinement: every step of the pipeline is, for each result, a step  *)
(* of ResultDecision or none.                                              *)

Issued == {"issued"}

DecisionStep(r) == [Decision(r)!Next]_(Decision(r)!vars)

\* A result whose rows keep their statuses and quantities does not move.
LEMMA DecisionKept ==
    ASSUME NEW r \in Result,
           decision'[r] = decision[r], shipment'[r] = shipment[r],
           \A l \in Line : ResultOf(l) = r =>
               hold'[l].qty = hold[l].qty /\ hold'[l].status = hold[l].status
    PROVE  DecisionStep(r)
<1>1. OwnQuantity(r, Returned)' = OwnQuantity(r, Returned)
  BY OwnKept
<1>2. OwnQuantity(r, Issued)' = OwnQuantity(r, Issued)
  BY OwnKept
<1> QED BY <1>1, <1>2 DEF DecisionStep, Decision!vars, Returned, Issued

\* Nothing of a result was issued while the store has not accepted it.
LEMMA NothingIssued ==
    ASSUME IssuedWasAccepted, NEW r \in Result, decision[r].status # "accepted"
    PROVE  OwnQuantity(r, Issued) = 0
<1> DEFINE own == {l \in Line : ResultOf(l) = r /\ hold[l].status \in Issued}
<1>1. \A l \in Line : l \notin own
  BY DEF IssuedWasAccepted, Issued
<1>2. HeldQuantity(own) = 0
  BY <1>1, HeldNothing
<1> QED BY <1>2 DEF OwnQuantity

LEMMA InitDecisions == Init => \A r \in Result : Decision(r)!Init
<1> SUFFICES ASSUME Init, NEW r \in Result PROVE Decision(r)!Init
  OBVIOUS
<1>1. ResultInv /\ decision[r] = NoDecision /\ shipment[r] = "none"
  BY InitResults DEF Init
<1>2. OwnQuantity(r, Returned) = 0
  BY <1>1 DEF ResultInv, ReturnsBooked, NoDecision
<1>3. OwnQuantity(r, Issued) = 0
  BY <1>1, NothingIssued DEF ResultInv, NoDecision
<1> QED BY <1>1, <1>2, <1>3 DEF Decision!Init, Returned, Issued, NoDecision

LEMMA RunDecides ==
    ASSUME ResultInv, ResultInv', NEW n \in Session, NEW grant \in Grants(n),
           FinalizeAllocation(n, grant), NEW r \in Result
    PROVE  DecisionStep(r)
<1> USE DEF ResultInv
<1>1. /\ session[n] = "open" /\ grant \in [Claim -> Nat]
      /\ \A s \in Store :
            /\ decision'[<<n, s>>] = DecisionAfterRun(n, grant, s)
            /\ shipment'[<<n, s>>] = ShipmentAfterRun(n, grant, s)
      /\ \A x \in Result : x[1] # n =>
            decision'[x] = decision[x] /\ shipment'[x] = shipment[x]
      /\ \A l \in Line : l[1] # n =>
            hold'[l].status = hold[l].status /\ hold'[l].qty = hold[l].qty
  BY RunEffect
<1>2. /\ \A l \in Line : l[1] = n => hold'[l].status \in {"active", "none"}
  BY RunEffect
<1>3. CASE r[1] # n
  <2>1. \A l \in Line : ResultOf(l) = r => l[1] # n
    BY <1>3, LineKeys
  <2> QED BY <1>1, <1>3, <2>1, DecisionKept
<1>4. CASE r[1] = n
  <2> DEFINE s == r[2]
  <2>1. r = <<n, s>> /\ s \in Store
    BY <1>4 DEF Result
  <2>2. decision[r] = NoDecision /\ shipment[r] = "none"
    BY <1>1, <1>4 DEF NoResultBeforeRun
  <2>3. decision'[r] = DecisionAfterRun(n, grant, s)
    BY <1>1, <2>1
  <2>4. shipment'[r] = ShipmentAfterRun(n, grant, s)
    BY <1>1, <2>1
  <2>5. OwnQuantity(r, Returned) = 0 /\ OwnQuantity(r, Returned)' = 0
    <3>1. decision[r].revoked = 0
      BY <2>2 DEF NoDecision
    <3>2. decision'[r].revoked = 0
      BY <2>3 DEF DecisionAfterRun
    <3> QED BY <3>1, <3>2 DEF ReturnsBooked
  <2>6. OwnQuantity(r, Issued) = 0 /\ OwnQuantity(r, Issued)' = 0
    <3>1. OwnQuantity(r, Issued) = 0
      BY <2>2, NothingIssued DEF NoDecision
    <3> DEFINE after == {l \in Line : ResultOf(l) = r /\ hold'[l].status \in Issued}
    <3>2. \A l \in Line : l \in after <=> l \in {}
      BY <1>2, <1>4, LineKeys DEF Issued
    <3>3. QuantityAfter(after) = HeldQuantity({})
      BY <3>2, HeldKept
    <3>4. HeldQuantity({}) = 0
      BY HeldNothing
    <3> QED BY <3>1, <3>3, <3>4 DEF QuantityAfter, HeldQuantity, OwnQuantity
  <2>7. GrantedTo(grant, s) \in Nat
    BY <1>1, GrantedType
  <2>8. CASE GrantedTo(grant, s) > 0
    <3>1. decision'[r].status = "pending" /\ decision'[r].granted = GrantedTo(grant, s)
      BY <2>3, <2>8 DEF DecisionAfterRun
    <3>2. shipment'[r] # "dispatched"
      BY <2>4, <2>8 DEF ShipmentAfterRun
    <3>3. Decision(r)!Publish
      BY <2>2, <2>5, <2>6, <2>7, <2>8, <3>1, <3>2
         DEF Decision!Publish, NoDecision, Returned, Issued
    <3> QED BY <3>3 DEF DecisionStep, Decision!Next
  <2>9. CASE ~(GrantedTo(grant, s) > 0) /\ HasLine(n, s)
    <3>1. GrantedTo(grant, s) = 0
      BY <2>7, <2>9
    <3>2. decision'[r].status = "not_required" /\ decision'[r].granted = 0
      BY <2>3, <2>9, <3>1 DEF DecisionAfterRun
    <3>3. Decision(r)!Publish
      BY <2>2, <2>5, <2>6, <3>2 DEF Decision!Publish, NoDecision, Returned, Issued
    <3> QED BY <3>3 DEF DecisionStep, Decision!Next
  <2>10. CASE ~(GrantedTo(grant, s) > 0) /\ ~HasLine(n, s)
    <3>1. decision'[r] = NoDecision
      <4>1. GrantedTo(grant, s) = 0
        BY <2>7, <2>10
      <4> QED BY <2>3, <2>10, <4>1 DEF DecisionAfterRun, NoDecision
    <3>2. ~OrdersIn(n, s)
      <4> SUFFICES ASSUME NEW p \in Product PROVE ~(ordered[<<n, <<s, p>>>>] > 0)
        BY DEF OrdersIn
      <4>1. <<s, p, 0>> \in Claim
        BY <2>1, PipelineAssumption DEF Claim
      <4>2. Want(n)[<<s, p, 0>>] = ordered[<<n, <<s, p>>>>]
        BY <4>1 DEF Want, IsOrdinary, PairOf
      <4> QED BY <2>10, <4>1, <4>2 DEF HasLine
    <3>3. shipment'[r] = "none"
      BY <2>4, <3>2 DEF ShipmentAfterRun, Ships
    <3> QED BY <2>2, <2>5, <2>6, <3>1, <3>3
            DEF DecisionStep, Decision!vars, Returned, Issued
  <2> QED BY <2>8, <2>9, <2>10
<1> QED BY <1>3, <1>4

LEMMA AcceptDecides ==
    ASSUME ResultInv, NEW x \in Result, AcceptResult(x), NEW r \in Result
    PROVE  DecisionStep(r)
<1> USE DEF ResultInv
<1>1. /\ decision[x].status = "pending" /\ Actionable(x) > 0
      /\ HeldQuantity(OwnActive(x)) = Actionable(x)
      /\ decision'[x].status = "accepted"
      /\ decision'[x].granted = decision[x].granted
      /\ decision'[x].revoked = decision[x].revoked
      /\ \A s \in Result : s # x =>
            decision'[s] = decision[s] /\ shipment'[s] = shipment[s]
      /\ \A l \in Line :
            /\ hold'[l].qty = hold[l].qty
            /\ hold'[l].status = IF l \in OwnActive(x) THEN "issued" ELSE hold[l].status
  BY AcceptEffect
<1>2. CASE r # x
  <2>1. \A l \in Line : ResultOf(l) = r => l \notin OwnActive(x)
    BY <1>2 DEF OwnActive
  <2> QED BY <1>1, <1>2, <2>1, DecisionKept
<1>3. CASE r = x
  <2>1. OwnQuantity(r, Returned)' = OwnQuantity(r, Returned)
    <3>1. \A l \in Line : hold'[l].status \in Returned <=> hold[l].status \in Returned
      BY <1>1 DEF OwnActive, Returned
    <3> QED BY <1>1, <3>1, OwnKept
  <2>2. OwnQuantity(r, Issued)' = OwnQuantity(r, Issued) + HeldQuantity(OwnActive(r))
    <3>1. OwnActive(r) \subseteq
             {l \in Line : ResultOf(l) = r /\ hold[l].status \notin Issued}
      BY DEF OwnActive, Issued
    <3>2. \A l \in Line : ResultOf(l) = r =>
             /\ hold'[l].qty = hold[l].qty
             /\ hold'[l].status \in Issued
                   <=> hold[l].status \in Issued \/ l \in OwnActive(r)
      BY <1>1, <1>3 DEF Issued
    <3> QED BY <3>1, <3>2, OwnGrown
  <2>3. OwnQuantity(r, Issued) = 0
    BY <1>1, <1>3, NothingIssued
  <2>4. OwnQuantity(r, Returned) = decision[r].revoked
    BY DEF ReturnsBooked
  <2>5. decision[r].granted \in Nat /\ decision[r].revoked \in Nat
    BY DEF TypeOK, DecisionType
  <2>6. OwnQuantity(r, Issued)' = decision[r].granted - decision[r].revoked
    <3>1. HeldQuantity(OwnActive(r)) = decision[r].granted - decision[r].revoked
      BY <1>1, <1>3 DEF Actionable
    <3> QED BY <2>2, <2>3, <2>5, <3>1
  <2>7. decision[r].revoked < decision[r].granted
    BY <1>1, <1>3, <2>5 DEF Actionable
  <2>8. Decision(r)!Accept
    BY <1>1, <1>3, <2>1, <2>4, <2>6, <2>7 DEF Decision!Accept, Returned, Issued
  <2> QED BY <2>8 DEF DecisionStep, Decision!Next
<1> QED BY <1>2, <1>3

LEMMA WaitlistDecides ==
    ASSUME ResultInv, ResultInv', NEW x \in Result, WaitlistResult(x), NEW r \in Result
    PROVE  DecisionStep(r)
<1> USE DEF ResultInv
<1>1. /\ decision[x].status = "pending" /\ Actionable(x) > 0
      /\ decision'[x].status = "waitlisted"
      /\ decision'[x].granted = decision[x].granted
      /\ decision'[x].revoked = decision[x].granted
      /\ shipment'[x] = ClosedShipment(shipment[x])
      /\ \A s \in Result : s # x =>
            decision'[s] = decision[s] /\ shipment'[s] = shipment[s]
      /\ \A l \in Line :
            /\ hold'[l].qty = hold[l].qty
            /\ IF l \in OwnActive(x) THEN hold'[l].status \in {"skipped", "requeued"}
               ELSE hold'[l].status = hold[l].status
  BY WaitlistEffect
<1>2. CASE r # x
  <2>1. \A l \in Line : ResultOf(l) = r => l \notin OwnActive(x)
    BY <1>2 DEF OwnActive
  <2> QED BY <1>1, <1>2, <2>1, DecisionKept
<1>3. CASE r = x
  <2>1. OwnQuantity(r, Issued)' = OwnQuantity(r, Issued)
    <3>1. \A l \in Line : hold'[l].status \in Issued <=> hold[l].status \in Issued
      BY <1>1 DEF OwnActive, Issued
    <3> QED BY <1>1, <3>1, OwnKept
  <2>2. /\ OwnQuantity(r, Returned) = decision[r].revoked
        /\ OwnQuantity(r, Returned)' = decision[r].granted
    BY <1>1, <1>3 DEF ReturnsBooked
  <2>3. decision[r].revoked < decision[r].granted
    <3>1. decision[r].granted \in Nat /\ decision[r].revoked \in Nat
      BY DEF TypeOK, DecisionType
    <3> QED BY <1>1, <1>3, <3>1 DEF Actionable
  <2>4. shipment'[r] = "dispatched" <=> shipment[r] = "dispatched"
    BY <1>1, <1>3 DEF ClosedShipment
  <2>5. Decision(r)!SendBack
    BY <1>1, <1>3, <2>1, <2>2, <2>3, <2>4 DEF Decision!SendBack, Returned, Issued
  <2> QED BY <2>5 DEF DecisionStep, Decision!Next
<1> QED BY <1>2, <1>3

LEMMA CancelDecides ==
    ASSUME ResultInv, ResultInv', NEW t \in Ticket, CancelTicket(t), NEW r \in Result
    PROVE  DecisionStep(r)
<1> USE DEF ResultInv
<1>1. /\ decision'[r].granted = decision[r].granted
      /\ decision'[r].revoked = decision[r].revoked + HeldQuantity(RevokedFrom(t, r))
      /\ decision'[r].status = IF Emptied(t, r) THEN "cancelled"
                               ELSE decision[r].status
      /\ RevokedFrom(t, r) = {} => decision'[r] = decision[r]
      /\ shipment'[r] = IF Emptied(t, r) THEN ClosedShipment(shipment[r])
                        ELSE shipment[r]
  BY CancelEffect
<1>2. \A l \in Line :
         /\ hold'[l].qty = hold[l].qty
         /\ hold'[l].status = IF l \in RevocableOf(t) THEN "revoked" ELSE hold[l].status
  BY CancelEffect
<1>3. CASE RevokedFrom(t, r) = {}
  <2>1. \A l \in Line : ResultOf(l) = r => l \notin RevocableOf(t)
    BY <1>3 DEF RevokedFrom
  <2>2. shipment'[r] = shipment[r]
    BY <1>1, <1>3 DEF Emptied
  <2> QED BY <1>1, <1>2, <1>3, <2>1, <2>2, DecisionKept
<1>4. CASE RevokedFrom(t, r) # {}
  <2> DEFINE back == HeldQuantity(RevokedFrom(t, r))
             rest == HeldQuantity(OwnActive(r) \ RevokedFrom(t, r))
             granted == decision[r].granted
             revoked == decision[r].revoked
  <2>1. /\ decision[r].status = "pending" /\ back > 0
        /\ granted - revoked = back + rest
    BY <1>4, RevokedIsOwn DEF Actionable
  <2>2. granted \in Nat /\ revoked \in Nat /\ back \in Nat /\ rest \in Nat
    BY HeldTypes DEF TypeOK, DecisionType
  <2>3. Emptied(t, r) <=> back = granted - revoked
    BY <1>4 DEF Emptied, Actionable
  <2>4. OwnQuantity(r, Issued)' = OwnQuantity(r, Issued)
    <3>1. \A l \in Line : hold'[l].status \in Issued <=> hold[l].status \in Issued
      BY <1>2 DEF RevocableOf, Issued
    <3> QED BY <1>2, <3>1, OwnKept
  <2>5. /\ OwnQuantity(r, Returned) = revoked
        /\ OwnQuantity(r, Returned)' = revoked + back
    BY <1>1 DEF ReturnsBooked
  <2>6. shipment'[r] = "dispatched" <=> shipment[r] = "dispatched"
    BY <1>1 DEF ClosedShipment
  <2>7. /\ decision'[r].granted = granted
        /\ decision'[r].status = IF Emptied(t, r) THEN "cancelled" ELSE "pending"
    BY <1>1, <2>1
  <2>8. decision[r].granted = granted
    OBVIOUS
  <2> HIDE DEF back, rest, granted, revoked
  <2>9. /\ revoked + back \in revoked + 1 .. granted
        /\ Emptied(t, r) <=> revoked + back = granted
    BY <2>1, <2>2, <2>3
  <2>10. Decision(r)!TakeBack
    BY <2>1, <2>4, <2>5, <2>6, <2>7, <2>8, <2>9 DEF Decision!TakeBack, Returned, Issued
  <2> QED BY <2>10 DEF DecisionStep, Decision!Next
<1> QED BY <1>3, <1>4

LEMMA NextDecides ==
    ASSUME ResultInv, ResultInv', [Next]_vars, NEW r \in Result
    PROVE  DecisionStep(r)
<1>1. CASE UNCHANGED <<hold, decision, shipment>>
  BY <1>1, DecisionKept
<1>2. CASE Runs
  BY <1>2, RunDecides DEF Runs
<1>3. CASE \E x \in Result : AcceptResult(x) \/ WaitlistResult(x)
  BY <1>3, AcceptDecides, WaitlistDecides
<1>4. CASE \E t \in Ticket : CancelTicket(t)
  BY <1>4, CancelDecides
<1>5. CASE \/ Tick \/ StartTick
           \/ \E p \in Product : IncreaseStock(p) \/ DecreaseStock(p)
           \/ \E n \in Session : CancelSession(n)
  BY <1>1, <1>5
     DEF Tick, StartTick, IncreaseStock, DecreaseStock, CancelSession, results
<1>6. CASE \E n \in Session, s \in Store, items \in Items : SubmitOrder(n, s, items)
  BY <1>1, <1>6 DEF SubmitOrder, results
<1>7. CASE Snapshots
  BY <1>1, <1>7 DEF Snapshots, CaptureSnapshot, results
<1>8. CASE \E o \in Offer : AcceptOffer(o) \/ DeclineOffer(o) \/ AnswerLate(o)
  BY <1>1, <1>8 DEF AcceptOffer, DeclineOffer, AnswerLate, EndOffer, results
<1>9. CASE UNCHANGED vars
  BY <1>1, <1>9 DEF vars, results
<1> QED BY <1>2, <1>3, <1>4, <1>5, <1>6, <1>7, <1>8, <1>9 DEF Next, Answers

\* The pipeline implements ResultDecision for every result: what its lines
\* went through adds up to its decision, a result is answered once, goods only
\* go back while it waits, and only accepted goods are issued or sent.
THEOREM PipelineKeepsPromise == Spec => ResultsKeepPromise
<1>1. ResultInv /\ ResultInv' /\ [Next]_vars =>
         \A r \in Result : [Decision(r)!Next]_(Decision(r)!vars)
  BY NextDecides DEF DecisionStep
<1>2. Init => \A r \in Result : Decision(r)!Init
  BY InitDecisions
<1> QED BY <1>1, <1>2, ResultsStayConsistent, PTL DEF Spec, ResultsKeepPromise

-----------------------------------------------------------------------------
(* The tickets.                                                            *)

\* Every ticket satisfies the CHECK constraints of its table.
AllTicketsValid == \A t \in Ticket : ValidTicket(ticket[t])

\* A row that is no ticket yet stands for no demand.
EmptyRows == \A t \in Ticket : ticket[t].status = "none" => ticket[t] = NoTicket

\* A store waits for a product on one ticket.
SingleActive(tickets) ==
    \A t, u \in Ticket :
        PairOf(t) = PairOf(u) /\ tickets[t].status = "active"
            /\ tickets[u].status = "active" => t = u

OneActive == SingleActive(ticket)

TicketInv == AllTicketsValid /\ EmptyRows /\ OneActive

\* Demand of a store for a product has one place to go.
LEMMA OneReceiver ==
    ASSUME NEW tickets, SingleActive(tickets), NEW t \in Ticket, NEW u \in Ticket,
           PairOf(t) = PairOf(u), IsReceiver(tickets, t), IsReceiver(tickets, u)
    PROVE  t = u
<1>1. /\ t = <<t[1], t[2], t[3]>> /\ u = <<u[1], u[2], u[3]>>
      /\ t[1] = u[1] /\ t[2] = u[2]
      /\ t[3] \in 1 .. TicketSlots /\ u[3] \in 1 .. TicketSlots
  BY DEF Ticket, PairOf
<1>2. CASE tickets[t].status = "active" /\ tickets[u].status = "active"
  BY <1>2 DEF SingleActive
<1>3. CASE tickets[t].status # "active"
  <2>1. /\ tickets[t].status = "none" /\ ActiveFor(tickets, PairOf(t)) = {}
        /\ \A k \in 1 .. t[3] - 1 : tickets[<<t[1], t[2], k>>].status # "none"
    BY <1>3 DEF IsReceiver
  <2>2. tickets[u].status # "active"
    BY <2>1 DEF ActiveFor
  <2>3. /\ tickets[u].status = "none"
        /\ \A k \in 1 .. u[3] - 1 : tickets[<<u[1], u[2], k>>].status # "none"
    BY <2>2 DEF IsReceiver
  <2>4. ~(t[3] < u[3])
    <3>1. t[3] < u[3] => t[3] \in 1 .. u[3] - 1
      BY <1>1, PipelineAssumption
    <3> QED BY <1>1, <2>1, <2>3, <3>1
  <2>5. ~(u[3] < t[3])
    <3>1. u[3] < t[3] => u[3] \in 1 .. t[3] - 1
      BY <1>1, PipelineAssumption
    <3> QED BY <1>1, <2>1, <2>3, <3>1
  <2>6. t[3] = u[3]
    <3>1. t[3] \in Int /\ u[3] \in Int
      BY <1>1
    <3>2. \A i, j \in Int : ~(i < j) /\ ~(j < i) => i = j
      OBVIOUS
    <3> QED BY <2>4, <2>5, <3>1, <3>2
  <2> QED BY <1>1, <2>6
<1>4. CASE tickets[u].status # "active"
  <2>1. /\ tickets[u].status = "none" /\ ActiveFor(tickets, PairOf(u)) = {}
        /\ \A k \in 1 .. u[3] - 1 : tickets[<<u[1], u[2], k>>].status # "none"
    BY <1>4 DEF IsReceiver
  <2>2. tickets[t].status # "active"
    BY <2>1 DEF ActiveFor
  <2> QED BY <1>3, <2>2
<1> QED BY <1>2, <1>3, <1>4

\* Only a receiver becomes active, so there is still one active ticket.
LEMMA StillOneActive ==
    ASSUME NEW tickets, SingleActive(tickets),
           \A t \in Ticket : ticket'[t].status = "active" => IsReceiver(tickets, t)
    PROVE  OneActive'
<1> SUFFICES ASSUME NEW t \in Ticket, NEW u \in Ticket, PairOf(t) = PairOf(u),
                    ticket'[t].status = "active", ticket'[u].status = "active"
             PROVE  t = u
  BY DEF OneActive, SingleActive
<1> QED BY OneReceiver

\* A row whose ticket is closed or left alone stays a proper row.
LEMMA ClosedTickets ==
    ASSUME TypeOK, TicketInv,
           \A t \in Ticket :
               \/ ticket'[t] = ticket[t]
               \/ ticket[t].status = "active" /\ ticket'[t] = CloseTicket(ticket[t])
    PROVE  TicketInv'
<1>1. ASSUME NEW t \in Ticket, ticket[t].status = "active",
             ticket'[t] = CloseTicket(ticket[t])
      PROVE  ValidTicket(ticket'[t]) /\ ticket'[t].status = "cancelled"
  <2>1. ticket[t] \in TicketType /\ ValidTicket(ticket[t])
    BY DEF TypeOK, TicketInv, AllTicketsValid
  <2> QED BY <1>1, <2>1 DEF TicketType, CloseTicket, ValidTicket
<1>2. AllTicketsValid'
  <2>1. \A t \in Ticket : ValidTicket(ticket[t])
    BY DEF TicketInv, AllTicketsValid
  <2>2. \A t \in Ticket : ValidTicket(ticket'[t])
    BY <1>1, <2>1, Zenon
  <2> QED BY <2>2 DEF AllTicketsValid, ValidTicket
<1>3. EmptyRows'
  BY <1>1 DEF TicketInv, EmptyRows
<1>4. OneActive'
  <2>1. \A t \in Ticket : ticket'[t].status = "active" => ticket[t].status = "active"
    BY <1>1
  <2> QED BY <2>1 DEF TicketInv, OneActive, SingleActive
<1> QED BY <1>2, <1>3, <1>4 DEF TicketInv

-----------------------------------------------------------------------------
(* The tickets through a run.                                              *)

\* What a ticket gives up, and what it receives.
LEMMA RowEffects ==
    ASSUME NEW row \in TicketRow, NEW a \in Int, NEW b \in Int
    PROVE  /\ Fulfil(row, a).remaining = row.remaining - a
           /\ Fulfil(row, a).status = IF a > 0 /\ row.remaining = a
                                      THEN "fulfilled" ELSE row.status
           /\ row.status = "active" =>
                 /\ Receive(row, a, b).status = "active"
                 /\ Receive(row, a, b).remaining = row.remaining + a + b
           /\ row.status # "active" =>
                 /\ Receive(row, a, b).status = "active"
                 /\ Receive(row, a, b).remaining = a
           /\ Fulfil(row, 0) = row
<1>1. /\ Fulfil(row, a).remaining = row.remaining - a
      /\ Fulfil(row, a).status = IF a > 0 /\ row.remaining = a
                                 THEN "fulfilled" ELSE row.status
  BY DEF Fulfil, TicketRow
<1>2. row.status = "active" =>
         /\ Receive(row, a, b).status = "active"
         /\ Receive(row, a, b).remaining = row.remaining + a + b
  BY DEF Receive, TicketRow
<1>3. row.status # "active" =>
         /\ Receive(row, a, b).status = "active"
         /\ Receive(row, a, b).remaining = a
  BY DEF Receive, NewTicket
<1>4. Fulfil(row, 0) = row
  <2> DEFINE new == Fulfil(row, 0)
  <2>1. new \in TicketRow
    BY RowOperations
  <2>2. /\ new.original = row.original
        /\ new.remaining = row.remaining - 0 /\ new.fulfilled = row.fulfilled + 0
        /\ new.status = row.status
    BY DEF Fulfil, TicketRow
  <2>3. row.remaining - 0 = row.remaining /\ row.fulfilled + 0 = row.fulfilled
    BY DEF TicketRow
  <2>4. \A u, w \in TicketRow :
           u.original = w.original /\ u.remaining = w.remaining
              /\ u.fulfilled = w.fulfilled /\ u.status = w.status => u = w
    BY DEF TicketRow
  <2> HIDE DEF new
  <2>5. new = row
    BY <2>1, <2>2, <2>3, <2>4
  <2> QED BY <2>5 DEF new
<1> QED BY <1>1, <1>2, <1>3, <1>4

\* A run takes only from tickets with an accepted offer, and what it takes
\* the ticket gives up.
LEMMA GrantedTickets ==
    ASSUME TypeOK, TicketInv, NEW n \in Session, NEW grant \in Grants(n),
           FinalizeAllocation(n, grant), NEW t \in Ticket
    PROVE  /\ grant[t] \in Nat
           /\ TicketsAfterGrants(n, grant)[t] \in TicketRow
           /\ TicketsAfterGrants(n, grant)[t].remaining
                 = ticket[t].remaining - grant[t]
           /\ TicketsAfterGrants(n, grant)[t].status = "active" =>
                 ticket[t].status = "active"
           /\ TicketsAfterGrants(n, grant)[t].status = "none" =>
                 /\ ticket[t].status = "none" /\ grant[t] = 0
                 /\ TicketsAfterGrants(n, grant)[t] = NoTicket
<1> DEFINE old == TicketsAfterExpiry(n)[t]
           left == TicketsAfterGrants(n, grant)[t]
           q == grant[t]
<1>1. grant \in [Claim -> Nat] /\ t \in Claim /\ ~IsOrdinary(t)
  BY ChoiceTypes, ClaimKeys
<1>2. q \in Nat
  BY <1>1
<1>3. ticket[t] \in TicketType
  BY DEF TypeOK
<1>4. /\ old \in TicketType
      /\ old.remaining = ticket[t].remaining
      /\ old.status = "active" => ticket[t].status = "active"
      /\ old.status = "none" => ticket[t].status = "none" /\ old = NoTicket
  <2>1. CASE LapsedTicket(n, t)
    <3>1. old = CloseTicket(ticket[t])
      BY <2>1 DEF TicketsAfterExpiry
    <3> HIDE DEF old
    <3> QED BY <1>3, <3>1 DEF CloseTicket, TicketType, TicketStatus
  <2>2. CASE ~LapsedTicket(n, t)
    <3>1. old = ticket[t]
      BY <2>2 DEF TicketsAfterExpiry
    <3> QED BY <1>3, <3>1 DEF TicketInv, EmptyRows
  <2> QED BY <2>1, <2>2
<1>5. q > 0 => old.status = "active"
  <2>1. q \in 0 .. Want(n)[t]
    <3> DEFINE claims == {c \in Claim : c[2] = t[2]}
               want == [c \in claims |-> Want(n)[c]]
               given == [c \in claims |-> grant[c]]
    <3>1. t \in claims /\ t[2] \in Product
      BY <1>1, ClaimKeys
    <3>2. Bounded(want, given)
      BY <3>1 DEF FinalizeAllocation, IsAllocation, IsFairShare
    <3>3. given[t] \in 0 .. want[t]
      BY <3>1, <3>2 DEF Bounded
    <3> QED BY <3>1, <3>3
  <2>2. Want(n)[t] = IF <<n, t>> \in AcceptedOwn(n) THEN offer[<<n, t>>].qty ELSE 0
    BY <1>1 DEF Want
  <2>3. <<n, t>> \in AcceptedOwn(n) => old.status = "active"
    BY DEF FinalizeAllocation, RunCommits
  <2> HIDE DEF q, old
  <2> QED BY <1>2, <2>1, <2>2, <2>3
<1>6. left = Fulfil(old, q)
  BY DEF TicketsAfterGrants
<1> HIDE DEF old, left, q
<1>7. /\ left \in TicketRow
      /\ left.remaining = old.remaining - q
      /\ left.status = IF q > 0 /\ old.remaining = q THEN "fulfilled" ELSE old.status
  <2>1. old \in TicketRow /\ q \in Int
    BY <1>2, <1>4 DEF TicketType, TicketRow
  <2> QED BY <1>6, <2>1, RowOperations, RowEffects
<1>8. ASSUME left.status = "none"
      PROVE  ticket[t].status = "none" /\ q = 0 /\ left = NoTicket
  <2>1. old.status = "none"
    BY <1>7, <1>8
  <2>2. q = 0
    BY <1>2, <1>5, <2>1
  <2>3. old = NoTicket
    BY <1>4, <2>1
  <2>4. left = NoTicket
    <3>1. NoTicket \in TicketRow /\ 0 \in Int
      BY DEF NoTicket, TicketRow, TicketStatus
    <3>2. Fulfil(NoTicket, 0) = NoTicket
      BY <3>1, RowEffects, Zenon
    <3> QED BY <1>6, <2>2, <2>3, <3>2
  <2> QED BY <1>4, <2>1, <2>2, <2>4
<1>9. left.status = "active" => ticket[t].status = "active"
  BY <1>4, <1>7
<1> QED BY <1>2, <1>4, <1>7, <1>8, <1>9 DEF left, q

\* What a store's ordinary order did not get.
LEMMA ShortfallType ==
    ASSUME TypeOK, NEW n \in Session, NEW grant \in Grants(n),
           FinalizeAllocation(n, grant), NEW pair \in Pair
    PROVE  /\ Shortfall(n, grant, pair) \in Nat
           /\ grant[<<pair[1], pair[2], 0>>] \in Nat
           /\ ordered[<<n, pair>>] \in Nat
           /\ ordered[<<n, pair>>]
                 = Shortfall(n, grant, pair) + grant[<<pair[1], pair[2], 0>>]
<1> DEFINE c == <<pair[1], pair[2], 0>>
           claims == {x \in Claim : x[2] = pair[2]}
           want == [x \in claims |-> Want(n)[x]]
           given == [x \in claims |-> grant[x]]
<1>1. /\ pair = <<pair[1], pair[2]>> /\ pair[1] \in Store /\ pair[2] \in Product
      /\ c \in Claim /\ c \in claims /\ IsOrdinary(c) /\ PairOf(c) = pair
      /\ <<n, pair>> \in Session \X Pair
  BY PipelineAssumption DEF Pair, Claim, IsOrdinary, PairOf
<1>2. grant \in [Claim -> Nat]
  BY ChoiceTypes
<1>3. Bounded(want, given)
  BY <1>1 DEF FinalizeAllocation, IsAllocation, IsFairShare
<1>4. given[c] \in 0 .. want[c]
  BY <1>1, <1>3 DEF Bounded
<1>5. given[c] = grant[c] /\ want[c] = ordered[<<n, pair>>]
  BY <1>1 DEF Want
<1>6. ordered[<<n, pair>>] \in Nat
  BY <1>1 DEF TypeOK
<1>7. grant[c] \in Nat /\ grant[c] <= ordered[<<n, pair>>]
  BY <1>1, <1>2, <1>4, <1>5, <1>6
<1>8. Shortfall(n, grant, pair) = ordered[<<n, pair>>] - grant[c]
  BY DEF Shortfall
<1> HIDE DEF c
<1>9. /\ Shortfall(n, grant, pair) \in Nat
      /\ ordered[<<n, pair>>] = Shortfall(n, grant, pair) + grant[c]
  BY <1>6, <1>7, <1>8
<1> QED BY <1>6, <1>7, <1>9 DEF c

\* What a ticket receives in a run.
RunGives(n, grant, t) ==
    IF /\ Shortfall(n, grant, PairOf(t)) > 0
       /\ IsReceiver(TicketsAfterGrants(n, grant), t)
    THEN Shortfall(n, grant, PairOf(t)) ELSE 0

LEMMA TicketAfterRun ==
    ASSUME TypeOK, TicketInv, NEW n \in Session, NEW grant \in Grants(n),
           FinalizeAllocation(n, grant), NEW t \in Ticket
    PROVE  /\ RunGives(n, grant, t) \in Nat
           /\ ticket'[t].remaining + grant[t]
                 = ticket[t].remaining + RunGives(n, grant, t)
           /\ ticket'[t].status = "active" =>
                 IsReceiver(TicketsAfterGrants(n, grant), t)
           /\ ticket'[t].status = "none" => ticket'[t] = NoTicket
<1> DEFINE left == TicketsAfterGrants(n, grant)
           lack == Shortfall(n, grant, PairOf(t))
           q == grant[t]
<1>1. /\ q \in Nat /\ left[t] \in TicketRow
      /\ left[t].remaining = ticket[t].remaining - q
      /\ left[t].status = "none" => q = 0 /\ left[t] = NoTicket
  BY GrantedTickets
<1>2. PairOf(t) \in Pair
  BY ClaimKeys
<1>3. lack \in Nat
  BY <1>2, ShortfallType
<1>4. ticket[t].remaining \in Nat
  BY DEF TypeOK, TicketType
<1>5. ticket'[t] = IF lack > 0 /\ IsReceiver(left, t)
                   THEN Receive(left[t], lack, 0) ELSE left[t]
  BY DEF FinalizeAllocation, TicketsAfterRun
<1>6. RunGives(n, grant, t) = IF lack > 0 /\ IsReceiver(left, t) THEN lack ELSE 0
  BY DEF RunGives
<1>7. left[t].status = "active" => IsReceiver(left, t)
  BY DEF IsReceiver
<1>8. IsReceiver(left, t) => left[t].status \in {"active", "none"}
  BY DEF IsReceiver
<1> HIDE DEF left, lack, q
<1>9. lack > 0 /\ IsReceiver(left, t) =>
         /\ ticket'[t].remaining + q = ticket[t].remaining + lack
         /\ ticket'[t].status = "active"
  <2> SUFFICES ASSUME lack > 0, IsReceiver(left, t)
               PROVE  /\ ticket'[t].remaining + q = ticket[t].remaining + lack
                      /\ ticket'[t].status = "active"
    OBVIOUS
  <2>1. ticket'[t] = Receive(left[t], lack, 0)
    BY <1>5
  <2>2. lack \in Int /\ 0 \in Int
    BY <1>3
  <2>3. /\ ticket'[t].status = "active"
        /\ left[t].status = "active" =>
              ticket'[t].remaining = left[t].remaining + lack + 0
        /\ left[t].status # "active" => ticket'[t].remaining = lack
    BY <1>1, <2>1, <2>2, RowEffects
  <2>4. CASE left[t].status = "active"
    BY <1>1, <1>3, <1>4, <2>3, <2>4
  <2>5. CASE left[t].status = "none"
    <3>1. left[t].remaining = 0 /\ q = 0
      <4>1. NoTicket.remaining = 0
        BY DEF NoTicket
      <4>2. left[t] = NoTicket /\ q = 0
        BY <1>1, <2>5
      <4> QED BY <4>1, <4>2, Zenon
    <3> QED BY <1>1, <1>3, <1>4, <2>3, <2>5, <3>1
  <2> QED BY <1>8, <2>4, <2>5
<1>10. ~(lack > 0 /\ IsReceiver(left, t)) =>
         /\ ticket'[t] = left[t]
         /\ ticket'[t].remaining + q = ticket[t].remaining + 0
  BY <1>1, <1>4, <1>5
<1>11. /\ RunGives(n, grant, t) \in Nat
       /\ ticket'[t].remaining + q = ticket[t].remaining + RunGives(n, grant, t)
  BY <1>3, <1>6, <1>9, <1>10
<1>12. ticket'[t].status = "active" => IsReceiver(left, t)
  BY <1>7, <1>10
<1>13. ticket'[t].status = "none" => ticket'[t] = NoTicket
  BY <1>1, <1>9, <1>10
<1> QED BY <1>11, <1>12, <1>13 DEF left, q

LEMMA RunKeepsTickets ==
    ASSUME TypeOK, TicketInv, NEW n \in Session, NEW grant \in Grants(n),
           FinalizeAllocation(n, grant)
    PROVE  TicketInv'
<1> DEFINE left == TicketsAfterGrants(n, grant)
<1>1. AllTicketsValid'
  BY DEF AllTicketsValid, FinalizeAllocation, RunCommits, ValidTicket
<1>2. EmptyRows'
  BY TicketAfterRun DEF EmptyRows
<1>3. SingleActive(left)
  <2>1. \A t \in Ticket : left[t].status = "active" => ticket[t].status = "active"
    BY GrantedTickets
  <2> QED BY <2>1 DEF TicketInv, OneActive, SingleActive
<1>4. \A t \in Ticket : ticket'[t].status = "active" => IsReceiver(left, t)
  BY TicketAfterRun
<1>5. OneActive'
  BY <1>3, <1>4, StillOneActive
<1> QED BY <1>1, <1>2, <1>5 DEF TicketInv

-----------------------------------------------------------------------------
(* The tickets when a result is sent back or a ticket is cancelled.        *)

LEMMA ReturnTypes ==
    ASSUME TypeOK, NEW r, NEW pair
    PROVE  Added(r, pair) \in Nat /\ Restored(r, pair) \in Nat
BY HeldTypes DEF Added, Restored, ReturnedTo

\* Goods go back to their own ticket only while it is the active one.
LEMMA RestoredIsActive ==
    ASSUME NEW r, NEW pair, ActiveFor(ticket, pair) = {}
    PROVE  Restored(r, pair) = 0
<1> DEFINE set == {l \in {x \in OwnActive(r) : IsRestored(x)} :
                      PairOf(SourceOf(l)) = pair}
<1>1. \A l \in Line : l \notin set
  <2> SUFFICES ASSUME NEW l \in Line, l \in set PROVE FALSE
    OBVIOUS
  <2>1. SourceOf(l) \in Claim
    BY LineKeys
  <2>2. SourceOf(l) \in Ticket /\ ticket[SourceOf(l)].status = "active"
    BY <2>1, ClaimKeys DEF IsRestored
  <2> QED BY <2>2 DEF ActiveFor
<1>2. HeldQuantity(set) = 0
  BY <1>1, HeldNothing
<1> QED BY <1>2 DEF Restored, ReturnedTo

\* What a ticket receives when a result is sent back.
ReturnGives(r, t) ==
    IF Added(r, PairOf(t)) + Restored(r, PairOf(t)) > 0 /\ IsReceiver(ticket, t)
    THEN Added(r, PairOf(t)) + Restored(r, PairOf(t)) ELSE 0

LEMMA TicketAfterReturn ==
    ASSUME TypeOK, TicketInv, NEW r \in Result, WaitlistResult(r), NEW t \in Ticket
    PROVE  /\ ReturnGives(r, t) \in Nat
           /\ ticket'[t].remaining = ticket[t].remaining + ReturnGives(r, t)
           /\ ticket'[t].status = "active" => IsReceiver(ticket, t)
           /\ ticket'[t].status = "none" => ticket'[t] = NoTicket
<1> DEFINE a == Added(r, PairOf(t))
           b == Restored(r, PairOf(t))
<1>1. a \in Nat /\ b \in Nat
  BY ReturnTypes
<1>2. ticket[t] \in TicketRow /\ ticket[t].remaining \in Nat
  BY DEF TypeOK, TicketType, TicketRow
<1>3. ticket'[t] = IF a + b > 0 /\ IsReceiver(ticket, t)
                   THEN Receive(ticket[t], a, b) ELSE ticket[t]
  BY DEF WaitlistResult, TicketsAfterReturn
<1>4. ReturnGives(r, t) = IF a + b > 0 /\ IsReceiver(ticket, t) THEN a + b ELSE 0
  BY DEF ReturnGives
<1>5. IsReceiver(ticket, t) /\ ticket[t].status # "active" =>
         b = 0 /\ ticket[t].remaining = 0
  <2> SUFFICES ASSUME IsReceiver(ticket, t), ticket[t].status # "active"
               PROVE  b = 0 /\ ticket[t].remaining = 0
    OBVIOUS
  <2>1. ActiveFor(ticket, PairOf(t)) = {} /\ ticket[t].status = "none"
    BY DEF IsReceiver
  <2>2. ticket[t] = NoTicket
    BY <2>1 DEF TicketInv, EmptyRows
  <2>3. NoTicket.remaining = 0
    BY DEF NoTicket
  <2> QED BY <2>1, <2>2, <2>3, RestoredIsActive
<1>6. ticket[t].status = "active" => IsReceiver(ticket, t)
  BY DEF IsReceiver
<1>7. ticket[t].status = "none" => ticket[t] = NoTicket
  BY DEF TicketInv, EmptyRows
<1> HIDE DEF a, b
<1>8. a + b > 0 /\ IsReceiver(ticket, t) =>
         /\ ticket'[t].remaining = ticket[t].remaining + (a + b)
         /\ ticket'[t].status = "active"
  <2> SUFFICES ASSUME a + b > 0, IsReceiver(ticket, t)
               PROVE  /\ ticket'[t].remaining = ticket[t].remaining + (a + b)
                      /\ ticket'[t].status = "active"
    OBVIOUS
  <2>1. ticket'[t] = Receive(ticket[t], a, b)
    BY <1>3
  <2>2. a \in Int /\ b \in Int
    BY <1>1
  <2>3. /\ ticket'[t].status = "active"
        /\ ticket[t].status = "active" =>
              ticket'[t].remaining = ticket[t].remaining + a + b
        /\ ticket[t].status # "active" => ticket'[t].remaining = a
    BY <1>2, <2>1, <2>2, RowEffects
  <2> QED BY <1>1, <1>2, <1>5, <2>3
<1>9. ~(a + b > 0 /\ IsReceiver(ticket, t)) =>
         ticket'[t] = ticket[t] /\ ticket'[t].remaining = ticket[t].remaining + 0
  BY <1>2, <1>3
<1>10. /\ ReturnGives(r, t) \in Nat
       /\ ticket'[t].remaining = ticket[t].remaining + ReturnGives(r, t)
  BY <1>1, <1>4, <1>8, <1>9
<1>11. ticket'[t].status = "active" => IsReceiver(ticket, t)
  BY <1>6, <1>9
<1>12. ticket'[t].status = "none" => ticket'[t] = NoTicket
  BY <1>7, <1>8, <1>9
<1> QED BY <1>10, <1>11, <1>12

LEMMA WaitlistKeepsTickets ==
    ASSUME TypeOK, TicketInv, NEW r \in Result, WaitlistResult(r)
    PROVE  TicketInv'
<1>1. AllTicketsValid'
  BY DEF AllTicketsValid, WaitlistResult, ValidTicket
<1>2. EmptyRows'
  BY TicketAfterReturn DEF EmptyRows
<1>3. \A t \in Ticket : ticket'[t].status = "active" => IsReceiver(ticket, t)
  BY TicketAfterReturn
<1>4. OneActive'
  BY <1>3, StillOneActive DEF TicketInv, OneActive
<1> QED BY <1>1, <1>2, <1>4 DEF TicketInv

LEMMA CancelledTicket ==
    ASSUME TypeOK, NEW t \in Ticket, CancelTicket(t)
    PROVE  /\ ticket'[t].status = "cancelled"
           /\ ticket'[t].remaining
                 = ticket[t].remaining + HeldQuantity(RevocableOf(t))
           /\ \A u \in Ticket : u # t => ticket'[u] = ticket[u]
<1> DEFINE back == HeldQuantity(RevocableOf(t))
<1>1. ticket[t] \in TicketType
  BY DEF TypeOK
<1>2. /\ ticket'[t] = [ticket[t] EXCEPT !.status = "cancelled",
                                        !.remaining = @ + back,
                                        !.fulfilled = @ - back]
      /\ \A u \in Ticket : u # t => ticket'[u] = ticket[u]
  BY DEF CancelTicket, TypeOK
<1> HIDE DEF back
<1>3. ticket'[t].status = "cancelled" /\ ticket'[t].remaining = ticket[t].remaining + back
  BY <1>1, <1>2 DEF TicketType
<1> QED BY <1>2, <1>3 DEF back

LEMMA CancelKeepsTickets ==
    ASSUME TypeOK, TicketInv, NEW t \in Ticket, CancelTicket(t)
    PROVE  TicketInv'
<1>1. /\ ticket'[t].status = "cancelled"
      /\ \A u \in Ticket : u # t => ticket'[u] = ticket[u]
  BY CancelledTicket
<1>2. AllTicketsValid'
  <2>1. ValidTicket(ticket'[t])
    BY DEF CancelTicket
  <2>2. \A u \in Ticket : u # t => ValidTicket(ticket[u])
    BY DEF TicketInv, AllTicketsValid
  <2>3. \A u \in Ticket : ValidTicket(ticket'[u])
    BY <1>1, <2>1, <2>2, Zenon
  <2> QED BY <2>3 DEF AllTicketsValid, ValidTicket
<1>3. EmptyRows'
  BY <1>1 DEF TicketInv, EmptyRows
<1>4. OneActive'
  <2>1. \A u \in Ticket : ticket'[u].status = "active" => ticket[u].status = "active"
    BY <1>1
  <2> QED BY <2>1 DEF TicketInv, OneActive, SingleActive
<1> QED BY <1>2, <1>3, <1>4 DEF TicketInv

LEMMA EndedOfferTickets ==
    ASSUME TypeOK, TicketInv, NEW o \in Offer, DeclineOffer(o) \/ AnswerLate(o)
    PROVE  TicketInv'
<1>1. /\ ticket[o[2]].status = "active"
      /\ ticket' = [ticket EXCEPT ![o[2]] =
                      IF EndsWait(o, {o}) THEN CloseTicket(@) ELSE @]
  BY DEF DeclineOffer, AnswerLate, EndOffer
<1>2. \A t \in Ticket :
         \/ ticket'[t] = ticket[t]
         \/ ticket[t].status = "active" /\ ticket'[t] = CloseTicket(ticket[t])
  BY <1>1 DEF TypeOK
<1> QED BY <1>2, ClosedTickets

LEMMA InitTickets == Init => TicketInv
<1> SUFFICES ASSUME Init PROVE TicketInv
  OBVIOUS
<1>1. ASSUME NEW t \in Ticket
      PROVE  \/ ticket[t] = NoTicket
             \/ t[3] = 1 /\ InitialDemand[PairOf(t)] > 0
                  /\ ticket[t] = NewTicket(InitialDemand[PairOf(t)])
  BY DEF Init
<1>2. \A t \in Ticket : InitialDemand[PairOf(t)] \in Nat
  BY ClaimKeys, PipelineAssumption DEF Pair
<1>3. AllTicketsValid
  <2>1. ValidTicket(NoTicket)
    BY DEF ValidTicket, NoTicket
  <2>2. \A q \in Nat : q > 0 => ValidTicket(NewTicket(q))
    BY DEF ValidTicket, NewTicket
  <2> QED BY <1>1, <1>2, <2>1, <2>2, Zenon DEF AllTicketsValid
<1>4. EmptyRows
  <2>1. \A q : NewTicket(q).status = "active"
    BY DEF NewTicket
  <2> QED BY <1>1, <2>1 DEF EmptyRows
<1>5. OneActive
  <2> SUFFICES ASSUME NEW t \in Ticket, NEW u \in Ticket, PairOf(t) = PairOf(u),
                      ticket[t].status = "active", ticket[u].status = "active"
               PROVE  t = u
    BY DEF OneActive, SingleActive
  <2>1. t[3] = 1 /\ u[3] = 1
    BY <1>1 DEF NoTicket
  <2> QED BY <2>1 DEF Ticket, PairOf
<1> QED BY <1>3, <1>4, <1>5 DEF TicketInv

LEMMA NextTickets == TypeOK /\ TicketInv /\ [Next]_vars => TicketInv'
<1> SUFFICES ASSUME TypeOK, TicketInv, [Next]_vars PROVE TicketInv'
  OBVIOUS
<1>1. CASE ticket' = ticket
  BY <1>1, ClosedTickets
<1>2. CASE \/ Tick \/ StartTick
           \/ \E p \in Product : IncreaseStock(p) \/ DecreaseStock(p)
           \/ \E n \in Session : CancelSession(n)
  BY <1>1, <1>2 DEF Tick, StartTick, IncreaseStock, DecreaseStock, CancelSession
<1>3. CASE \E n \in Session, s \in Store, items \in Items : SubmitOrder(n, s, items)
  BY <1>1, <1>3 DEF SubmitOrder
<1>4. CASE Snapshots
  BY <1>1, <1>4 DEF Snapshots, CaptureSnapshot
<1>5. CASE Runs
  BY <1>5, RunKeepsTickets DEF Runs
<1>6. CASE \E o \in Offer : AcceptOffer(o) \/ DeclineOffer(o) \/ AnswerLate(o)
  BY <1>1, <1>6, EndedOfferTickets DEF AcceptOffer
<1>7. CASE \E r \in Result : AcceptResult(r) \/ WaitlistResult(r)
  BY <1>1, <1>7, WaitlistKeepsTickets DEF AcceptResult
<1>8. CASE \E t \in Ticket : CancelTicket(t)
  BY <1>8, CancelKeepsTickets
<1>9. CASE UNCHANGED vars
  BY <1>1, <1>9 DEF vars
<1> QED BY <1>2, <1>3, <1>4, <1>5, <1>6, <1>7, <1>8, <1>9 DEF Next, Answers

\* Through returns, runs and cancellations a store waits for a product on one
\* ticket, and every ticket satisfies the constraints of its table.
THEOREM TicketsStaySingle == Spec => []TicketInv
<1>1. Init => TypeOK /\ TicketInv
  BY InitTypes, InitTickets
<1>2. TypeOK /\ TicketInv /\ [Next]_vars => (TypeOK /\ TicketInv)'
  BY NextTypes, NextTickets
<1> QED BY <1>1, <1>2, PTL DEF Spec

-----------------------------------------------------------------------------
(* The balance of a store's demand for a product.                          *)

Asked(pair) ==
    SumOf([n \in Session |-> IF session[n] = "completed" THEN ordered[<<n, pair>>] ELSE 0])

Waiting(pair) ==
    SumOf([t \in Ticket |-> IF PairOf(t) = pair THEN ticket[t].remaining ELSE 0])

KeptStatus == {"active", "issued", "skipped"}

KeptLines(pair) ==
    {l \in Line : PairOf(SourceOf(l)) = pair /\ hold[l].status \in KeptStatus}

Kept(pair) == HeldQuantity(KeptLines(pair))

LEMMA BalanceOfPair ==
    DemandAccounted <=>
        \A pair \in Pair : InitialDemand[pair] + Asked(pair) = Waiting(pair) + Kept(pair)
BY DEF DemandAccounted, Asked, Waiting, Kept, KeptLines, KeptStatus

DemandNumbers ==
    \A pair \in Pair : Asked(pair) \in Nat /\ Waiting(pair) \in Nat /\ Kept(pair) \in Nat

LEMMA DemandTypes == TypeOK => DemandNumbers
<1> SUFFICES ASSUME TypeOK, NEW pair \in Pair
             PROVE  Asked(pair) \in Nat /\ Waiting(pair) \in Nat /\ Kept(pair) \in Nat
  BY DEF DemandNumbers
<1> DEFINE f == [n \in Session |->
                   IF session[n] = "completed" THEN ordered[<<n, pair>>] ELSE 0]
           g == [t \in Ticket |-> IF PairOf(t) = pair THEN ticket[t].remaining ELSE 0]
<1>1. f \in [Session -> Nat] /\ g \in [Ticket -> Nat]
  BY DEF TypeOK, TicketType
<1> HIDE DEF f, g
<1>2. SumOf(f) \in Nat /\ SumOf(g) \in Nat
  BY <1>1, FiniteKeys, PipelineAssumption, SumType
<1>3. Kept(pair) \in Nat
  BY HeldTypes DEF Kept
<1> QED BY <1>2, <1>3 DEF f, g, Asked, Waiting

LEMMA DemandTypesNext == TypeOK' => DemandNumbers'
BY DemandTypes, PTL

\* What the tickets of a pair gain and give up changes what waits.
LEMMA WaitingMoves ==
    ASSUME TypeOK, TypeOK', NEW pair \in Pair,
           NEW gain \in [Ticket -> Nat], NEW loss \in [Ticket -> Nat],
           \A t \in Ticket : PairOf(t) # pair => gain[t] = 0 /\ loss[t] = 0,
           \A t \in Ticket : PairOf(t) = pair =>
               ticket'[t].remaining + loss[t] = ticket[t].remaining + gain[t]
    PROVE  Waiting(pair)' + SumOf(loss) = Waiting(pair) + SumOf(gain)
<1> DEFINE f == [t \in Ticket |-> IF PairOf(t) = pair THEN ticket[t].remaining ELSE 0]
           g == [t \in Ticket |-> IF PairOf(t) = pair THEN ticket'[t].remaining ELSE 0]
<1>1. \A t \in Ticket : ticket[t].remaining \in Nat /\ ticket'[t].remaining \in Nat
  BY DEF TypeOK, TicketType
<1>2. f \in [Ticket -> Nat] /\ g \in [Ticket -> Nat]
  BY <1>1
<1>3. \A t \in Ticket : g[t] + loss[t] = f[t] + gain[t]
  BY <1>1
<1> HIDE DEF f, g
<1>4. SumOf(g) + SumOf(loss) = SumOf(f) + SumOf(gain)
  BY <1>2, <1>3, FiniteKeys, SumBalance
<1>5. SumOf(f) = Waiting(pair) /\ SumOf(g) = Waiting(pair)'
  BY DEF f, g, Waiting
<1> QED BY <1>4, <1>5

\* Demand that comes back is received once.
LEMMA OneReceives ==
    ASSUME NEW tickets, SingleActive(tickets), NEW pair \in Pair, NEW total \in Nat,
           total > 0 => HasReceiver(tickets, pair),
           NEW gain \in [Ticket -> Nat],
           \A t \in Ticket :
               gain[t] = IF PairOf(t) = pair /\ total > 0 /\ IsReceiver(tickets, t)
                         THEN total ELSE 0
    PROVE  SumOf(gain) = total
<1>1. CASE total = 0
  BY <1>1, SumZero
<1>2. CASE total > 0
  <2>1. PICK u \in Ticket : PairOf(u) = pair /\ IsReceiver(tickets, u)
    BY <1>2 DEF HasReceiver
  <2>2. \A t \in Ticket : t # u => gain[t] = 0
    BY <2>1, OneReceiver
  <2>3. SumOf(gain) = gain[u]
    BY <2>2, FiniteKeys, SumSingle
  <2> QED BY <1>2, <2>1, <2>3
<1> QED BY <1>1, <1>2

\* Lines that stop counting take their quantity with them.
LEMMA KeptShrinks ==
    ASSUME TypeOK, TypeOK', NEW pair \in Pair, NEW gone, gone \subseteq KeptLines(pair),
           \A l \in Line : PairOf(SourceOf(l)) = pair =>
               /\ hold'[l].qty = hold[l].qty
               /\ hold'[l].status \in KeptStatus
                     <=> hold[l].status \in KeptStatus /\ l \notin gone
    PROVE  Kept(pair) = Kept(pair)' + HeldQuantity(gone)
<1> DEFINE rest == KeptLines(pair) \ gone
<1>1. HeldQuantity(rest \cup gone) = HeldQuantity(rest) + HeldQuantity(gone)
  <2>1. rest \cap gone = {}
    OBVIOUS
  <2> QED BY <2>1, HeldSplit
<1>2. rest \cup gone = KeptLines(pair)
  OBVIOUS
<1>3. QuantityAfter(KeptLines(pair)') = HeldQuantity(rest)
  <2>1. \A l \in Line : l \in KeptLines(pair)' <=> l \in rest
    BY DEF KeptLines
  <2>2. \A l \in Line : l \in rest => hold'[l].qty = hold[l].qty
    BY DEF KeptLines
  <2> QED BY <2>1, <2>2, HeldKept
<1>4. Kept(pair)' = HeldQuantity(rest)
  BY <1>3 DEF Kept, QuantityAfter, HeldQuantity
<1> QED BY <1>1, <1>2, <1>4 DEF Kept

-----------------------------------------------------------------------------
(* A run.                                                                  *)

\* The grants of a pair: the ordinary order's, and those of its tickets.
LEMMA GrantsOfPair ==
    ASSUME NEW grant \in [Claim -> Nat], NEW pair \in Pair
    PROVE  SumOf([c \in Claim |-> IF PairOf(c) = pair THEN grant[c] ELSE 0])
             = grant[<<pair[1], pair[2], 0>>]
                 + SumOf([t \in Ticket |-> IF PairOf(t) = pair THEN grant[t] ELSE 0])
<1> DEFINE o == <<pair[1], pair[2], 0>>
           all == [c \in Claim |-> IF PairOf(c) = pair THEN grant[c] ELSE 0]
           one == [c \in Claim |-> IF c = o THEN grant[c] ELSE 0]
           rest == [c \in Claim |-> IF PairOf(c) = pair /\ c # o THEN grant[c] ELSE 0]
           own == [t \in Ticket |-> IF PairOf(t) = pair THEN grant[t] ELSE 0]
<1>1. o \in Claim /\ PairOf(o) = pair /\ IsOrdinary(o)
  BY PipelineAssumption DEF Pair, Claim, IsOrdinary, PairOf
<1>2. Ticket \subseteq Claim /\ \A t \in Ticket : ~IsOrdinary(t)
  BY ClaimKeys
<1>3. \A c \in Claim : PairOf(c) = pair /\ c # o => c \in Ticket
  <2> SUFFICES ASSUME NEW c \in Claim, PairOf(c) = pair, IsOrdinary(c) PROVE c = o
    BY ClaimKeys
  <2>1. c = <<c[1], c[2], c[3]>> /\ c[3] = 0 /\ c[1] = pair[1] /\ c[2] = pair[2]
    BY DEF Claim, PairOf, IsOrdinary
  <2> QED BY <2>1
<1>4. /\ all \in [Claim -> Nat] /\ one \in [Claim -> Nat] /\ rest \in [Claim -> Nat]
      /\ own \in [Ticket -> Nat]
  BY <1>2
<1>5. \A c \in Claim : all[c] = one[c] + rest[c]
  BY <1>1
<1>6. one[o] = grant[o] /\ \A c \in Claim : c # o => one[c] = 0
  BY <1>1
<1>7. /\ \A t \in Ticket : own[t] = rest[t]
      /\ \A c \in Claim : c \notin Ticket => rest[c] = 0
  BY <1>1, <1>2, <1>3
<1> HIDE DEF o, all, one, rest, own
<1>8. SumOf(all) = SumOf(one) + SumOf(rest)
  BY <1>4, <1>5, FiniteKeys, SumAdd
<1>9. SumOf(one) = grant[o]
  BY <1>1, <1>4, <1>6, FiniteKeys, SumSingle
<1>10. SumOf(rest) = SumOf(own)
  BY <1>2, <1>4, <1>7, FiniteKeys, SumExtend
<1> QED BY <1>8, <1>9, <1>10 DEF o, all, own

\* A run puts what it grants on hold, on lines that were empty.
LEMMA KeptGrows ==
    ASSUME TypeOK, TypeOK', NoLinesBeforeRun, NEW n \in Session,
           NEW grant \in Grants(n), FinalizeAllocation(n, grant), NEW pair \in Pair
    PROVE  Kept(pair)' = Kept(pair)
             + SumOf([c \in Claim |-> IF PairOf(c) = pair THEN grant[c] ELSE 0])
<1> DEFINE f == [l \in Line |-> IF l \in KeptLines(pair)' THEN hold'[l].qty ELSE 0]
           g == [l \in Line |-> IF l \in KeptLines(pair) THEN hold[l].qty ELSE 0]
           h == [l \in Line |-> IF l[1] = n /\ PairOf(SourceOf(l)) = pair
                                THEN grant[SourceOf(l)] ELSE 0]
           k == [c \in Claim |-> IF PairOf(c) = pair THEN grant[c] ELSE 0]
           key == [c \in Claim |-> <<n, c>>]
<1>1. grant \in [Claim -> Nat]
  BY ChoiceTypes
<1>2. \A l \in Line : /\ hold[l].qty \in Nat /\ hold'[l].qty \in Nat
                      /\ grant[SourceOf(l)] \in Nat
  BY <1>1, LineKeys DEF TypeOK, HoldType
<1>3. /\ f \in [Line -> Nat] /\ g \in [Line -> Nat] /\ h \in [Line -> Nat]
      /\ k \in [Claim -> Nat]
  BY <1>1, <1>2
<1>4. /\ \A l \in Line : l[1] = n /\ grant[SourceOf(l)] > 0 =>
            hold'[l].status = "active" /\ hold'[l].qty = grant[SourceOf(l)]
      /\ \A l \in Line : l[1] = n /\ ~(grant[SourceOf(l)] > 0) =>
            hold'[l].status = "none"
      /\ \A l \in Line : l[1] # n =>
            hold'[l].status = hold[l].status /\ hold'[l].qty = hold[l].qty
  BY RunEffect
<1>5. \A l \in Line : l[1] = n => hold[l].status = "none"
  BY DEF FinalizeAllocation, NoLinesBeforeRun
<1>6. ASSUME NEW l \in Line PROVE f[l] = g[l] + h[l]
  <2>1. CASE l[1] = n /\ grant[SourceOf(l)] > 0
    BY <1>2, <1>4, <1>5, <2>1 DEF KeptLines, KeptStatus
  <2>2. CASE l[1] = n /\ ~(grant[SourceOf(l)] > 0)
    BY <1>2, <1>4, <1>5, <2>2 DEF KeptLines, KeptStatus
  <2>3. CASE l[1] # n
    BY <1>2, <1>4, <2>3 DEF KeptLines
  <2> QED BY <2>1, <2>2, <2>3
<1>7. /\ key \in [Claim -> Line]
      /\ \A c, d \in Claim : key[c] = key[d] => c = d
      /\ \A c \in Claim : k[c] = h[key[c]]
  BY LineKeys DEF SourceOf
<1>8. ASSUME NEW l \in Line, h[l] > 0 PROVE \E c \in Claim : l = key[c]
  <2>1. l[1] = n
    BY <1>8
  <2> QED BY <2>1, LineKeys
<1> HIDE DEF f, g, h, k, key
<1>9. SumOf(f) = SumOf(g) + SumOf(h)
  BY <1>3, <1>6, FiniteKeys, SumAdd
<1>10. SumOf(h) = SumOf(k)
  BY <1>3, <1>7, <1>8, FiniteKeys, SumReindex
<1>11. SumOf(f) = Kept(pair)' /\ SumOf(g) = Kept(pair)
  BY DEF f, g, Kept, HeldQuantity
<1> QED BY <1>9, <1>10, <1>11 DEF k

\* The orders of its session join the balance.
LEMMA AskedGrows ==
    ASSUME TypeOK, NEW n \in Session, NEW grant, FinalizeAllocation(n, grant),
           NEW pair \in Pair
    PROVE  Asked(pair)' = Asked(pair) + ordered[<<n, pair>>]
<1> DEFINE f == [m \in Session |->
                   IF session'[m] = "completed" THEN ordered'[<<m, pair>>] ELSE 0]
           g == [m \in Session |->
                   IF session[m] = "completed" THEN ordered[<<m, pair>>] ELSE 0]
           h == [m \in Session |-> IF m = n THEN ordered[<<n, pair>>] ELSE 0]
<1>1. /\ ordered' = ordered /\ session[n] = "open" /\ session'[n] = "completed"
      /\ \A m \in Session : m # n => session'[m] = session[m]
  BY DEF FinalizeAllocation, TypeOK
<1>2. \A m \in Session : ordered[<<m, pair>>] \in Nat
  BY DEF TypeOK
<1>3. f \in [Session -> Nat] /\ g \in [Session -> Nat] /\ h \in [Session -> Nat]
  BY <1>1, <1>2
<1>4. \A m \in Session : f[m] = g[m] + h[m]
  BY <1>1, <1>2
<1>5. h[n] = ordered[<<n, pair>>] /\ \A m \in Session : m # n => h[m] = 0
  OBVIOUS
<1> HIDE DEF f, g, h
<1>6. SumOf(f) = SumOf(g) + SumOf(h)
  BY <1>3, <1>4, PipelineAssumption, SumAdd
<1>7. SumOf(h) = ordered[<<n, pair>>]
  BY <1>3, <1>5, PipelineAssumption, SumSingle
<1>8. SumOf(f) = Asked(pair)' /\ SumOf(g) = Asked(pair)
  BY DEF f, g, Asked
<1> QED BY <1>6, <1>7, <1>8

LEMMA RunBalance ==
    ASSUME TypeOK, TypeOK', NoLinesBeforeRun, TicketInv, DemandAccounted,
           NEW n \in Session, NEW grant \in Grants(n), FinalizeAllocation(n, grant)
    PROVE  DemandAccounted'
<1> SUFFICES ASSUME NEW pair \in Pair
             PROVE  InitialDemand[pair] + Asked(pair)' = Waiting(pair)' + Kept(pair)'
  BY DEF DemandAccounted, Asked, Waiting, Kept, KeptLines, KeptStatus
<1> DEFINE left == TicketsAfterGrants(n, grant)
           lack == Shortfall(n, grant, pair)
           own == grant[<<pair[1], pair[2], 0>>]
           gain == [t \in Ticket |-> IF PairOf(t) = pair THEN RunGives(n, grant, t) ELSE 0]
           loss == [t \in Ticket |-> IF PairOf(t) = pair THEN grant[t] ELSE 0]
<1>1. /\ lack \in Nat /\ own \in Nat /\ ordered[<<n, pair>>] \in Nat
      /\ ordered[<<n, pair>>] = lack + own
  BY ShortfallType
<1>2. grant \in [Claim -> Nat] /\ \A t \in Ticket : grant[t] \in Nat
  BY ChoiceTypes, ClaimKeys
<1>3. gain \in [Ticket -> Nat] /\ loss \in [Ticket -> Nat]
  BY <1>2, TicketAfterRun
<1>4. SumOf(gain) = lack
  <2>1. SingleActive(left)
    <3>1. \A t \in Ticket : left[t].status = "active" => ticket[t].status = "active"
      BY GrantedTickets
    <3> QED BY <3>1 DEF TicketInv, OneActive, SingleActive
  <2>2. lack > 0 => HasReceiver(left, pair)
    BY DEF FinalizeAllocation, SlotFree
  <2>3. \A t \in Ticket :
           gain[t] = IF PairOf(t) = pair /\ lack > 0 /\ IsReceiver(left, t)
                     THEN lack ELSE 0
    BY DEF RunGives
  <2> HIDE DEF left, lack, gain
  <2> QED BY <1>1, <1>3, <2>1, <2>2, <2>3, OneReceives
<1>5. Waiting(pair)' + SumOf(loss) = Waiting(pair) + SumOf(gain)
  <2>1. \A t \in Ticket : PairOf(t) # pair => gain[t] = 0 /\ loss[t] = 0
    OBVIOUS
  <2>2. \A t \in Ticket : PairOf(t) = pair =>
           ticket'[t].remaining + loss[t] = ticket[t].remaining + gain[t]
    BY TicketAfterRun
  <2> HIDE DEF gain, loss
  <2> QED BY <1>3, <2>1, <2>2, WaitingMoves
<1>6. Kept(pair)' = Kept(pair) + (own + SumOf(loss))
  BY <1>2, GrantsOfPair, KeptGrows
<1>7. Asked(pair)' = Asked(pair) + ordered[<<n, pair>>]
  BY AskedGrows
<1>8. /\ Asked(pair) \in Nat /\ Waiting(pair) \in Nat /\ Kept(pair) \in Nat
      /\ Waiting(pair)' \in Nat
  BY DemandTypes, DemandTypesNext DEF DemandNumbers
<1>9. SumOf(loss) \in Nat /\ InitialDemand[pair] \in Nat
  <2> HIDE DEF loss
  <2> QED BY <1>3, FiniteKeys, SumType, PipelineAssumption DEF Pair
<1>10. InitialDemand[pair] + Asked(pair) = Waiting(pair) + Kept(pair)
  BY BalanceOfPair
<1> HIDE DEF lack, own, gain, loss, left
<1> QED BY <1>1, <1>4, <1>5, <1>6, <1>7, <1>8, <1>9, <1>10

-----------------------------------------------------------------------------
(* Answers and cancellations.                                              *)

\* Steps that touch neither orders of completed sessions, nor the quantities
\* that wait, nor the lines that count.
LEMMA BalanceKept ==
    ASSUME TypeOK, TypeOK', DemandAccounted,
           \A n \in Session, pair \in Pair :
               /\ session'[n] = "completed" <=> session[n] = "completed"
               /\ session[n] = "completed" => ordered'[<<n, pair>>] = ordered[<<n, pair>>],
           \A t \in Ticket : ticket'[t].remaining = ticket[t].remaining,
           \A l \in Line :
               /\ hold'[l].qty = hold[l].qty
               /\ hold'[l].status \in KeptStatus <=> hold[l].status \in KeptStatus
    PROVE  DemandAccounted'
<1> SUFFICES ASSUME NEW pair \in Pair
             PROVE  InitialDemand[pair] + Asked(pair)' = Waiting(pair)' + Kept(pair)'
  BY DEF DemandAccounted, Asked, Waiting, Kept, KeptLines, KeptStatus
<1>1. Asked(pair)' = Asked(pair)
  <2> DEFINE f == [n \in Session |->
                     IF session'[n] = "completed" THEN ordered'[<<n, pair>>] ELSE 0]
             g == [n \in Session |->
                     IF session[n] = "completed" THEN ordered[<<n, pair>>] ELSE 0]
  <2>1. f = g
    OBVIOUS
  <2> HIDE DEF f, g
  <2>2. SumOf(f) = SumOf(g)
    BY <2>1
  <2> QED BY <2>2 DEF f, g, Asked
<1>2. Waiting(pair)' = Waiting(pair)
  <2> DEFINE f == [t \in Ticket |-> IF PairOf(t) = pair THEN ticket'[t].remaining ELSE 0]
             g == [t \in Ticket |-> IF PairOf(t) = pair THEN ticket[t].remaining ELSE 0]
  <2>1. f = g
    OBVIOUS
  <2> HIDE DEF f, g
  <2>2. SumOf(f) = SumOf(g)
    BY <2>1
  <2> QED BY <2>2 DEF f, g, Waiting
<1>3. Kept(pair)' = Kept(pair)
  <2>1. QuantityAfter(KeptLines(pair)') = HeldQuantity(KeptLines(pair))
    <3>1. \A l \in Line : l \in KeptLines(pair)' <=> l \in KeptLines(pair)
      BY DEF KeptLines
    <3> QED BY <3>1, HeldKept
  <2> QED BY <2>1 DEF Kept, QuantityAfter, HeldQuantity
<1> QED BY <1>1, <1>2, <1>3, BalanceOfPair

LEMMA AcceptBalance ==
    ASSUME TypeOK, TypeOK', DemandAccounted, NEW r \in Result, AcceptResult(r)
    PROVE  DemandAccounted'
<1>1. session' = session /\ ordered' = ordered /\ ticket' = ticket
  BY DEF AcceptResult, sessions
<1>2. \A l \in Line :
         /\ hold'[l].qty = hold[l].qty
         /\ hold'[l].status = IF l \in OwnActive(r) THEN "issued" ELSE hold[l].status
  BY AcceptEffect
<1>3. \A l \in Line :
         hold'[l].status \in KeptStatus <=> hold[l].status \in KeptStatus
  BY <1>2 DEF OwnActive, KeptStatus
<1> QED BY <1>1, <1>2, <1>3, BalanceKept

\* What a store sends back waits again, except what was for a ticket that has
\* been cancelled.
LEMMA WaitlistBalance ==
    ASSUME TypeOK, TypeOK', TicketInv, DemandAccounted, NEW r \in Result,
           WaitlistResult(r)
    PROVE  DemandAccounted'
<1> SUFFICES ASSUME NEW pair \in Pair
             PROVE  InitialDemand[pair] + Asked(pair)' = Waiting(pair)' + Kept(pair)'
  BY DEF DemandAccounted, Asked, Waiting, Kept, KeptLines, KeptStatus
<1> DEFINE a == Added(r, pair)
           b == Restored(r, pair)
           back == {l \in {x \in OwnActive(r) : IsRestored(x)} : PairOf(SourceOf(l)) = pair}
           new == {l \in {x \in OwnActive(r) : ~IsSkipped(x) /\ ~IsRestored(x)} :
                      PairOf(SourceOf(l)) = pair}
           gain == [t \in Ticket |-> IF PairOf(t) = pair THEN ReturnGives(r, t) ELSE 0]
           loss == [t \in Ticket |-> 0]
<1>1. a \in Nat /\ b \in Nat
  BY ReturnTypes
<1>2. gain \in [Ticket -> Nat] /\ loss \in [Ticket -> Nat]
  BY TicketAfterReturn
<1>3. SumOf(gain) = a + b
  <2>1. a + b > 0 => HasReceiver(ticket, pair)
    <3>1. a > 0 => HasReceiver(ticket, pair)
      BY DEF WaitlistResult
    <3>2. b > 0 => ActiveFor(ticket, pair) # {}
      BY RestoredIsActive
    <3>3. ActiveFor(ticket, pair) # {} => HasReceiver(ticket, pair)
      BY DEF ActiveFor, HasReceiver, IsReceiver
    <3> HIDE DEF a, b
    <3> QED BY <1>1, <3>1, <3>2, <3>3
  <2>2. \A t \in Ticket :
           gain[t] = IF PairOf(t) = pair /\ a + b > 0 /\ IsReceiver(ticket, t)
                     THEN a + b ELSE 0
    BY DEF ReturnGives
  <2>3. SingleActive(ticket) /\ a + b \in Nat
    BY <1>1 DEF TicketInv, OneActive
  <2> HIDE DEF a, b, gain
  <2> QED BY <1>2, <2>1, <2>2, <2>3, OneReceives
<1>4. SumOf(loss) = 0
  BY <1>2, SumZero
<1>5. Waiting(pair)' + SumOf(loss) = Waiting(pair) + SumOf(gain)
  <2>1. \A t \in Ticket : PairOf(t) # pair => gain[t] = 0 /\ loss[t] = 0
    OBVIOUS
  <2>2. \A t \in Ticket : PairOf(t) = pair =>
           ticket'[t].remaining + loss[t] = ticket[t].remaining + gain[t]
    <3>1. \A t \in Ticket : ticket'[t].remaining \in Nat
      BY DEF TypeOK, TicketType
    <3> QED BY <3>1, TicketAfterReturn
  <2> HIDE DEF gain, loss
  <2> QED BY <1>2, <2>1, <2>2, WaitingMoves
<1>6. HeldQuantity(back) = b /\ HeldQuantity(new) = a
  BY DEF Added, Restored, ReturnedTo
<1>7. HeldQuantity(back \cup new) = HeldQuantity(back) + HeldQuantity(new)
  <2>1. back \cap new = {}
    OBVIOUS
  <2> QED BY <2>1, HeldSplit
<1>8. Kept(pair) = Kept(pair)' + HeldQuantity(back \cup new)
  <2>1. \A l \in Line :
           hold'[l] = IF l \in OwnActive(r)
                      THEN [hold[l] EXCEPT !.status =
                              IF IsSkipped(l) THEN "skipped" ELSE "requeued"]
                      ELSE IF l \in Carried(r) THEN Detached(hold[l]) ELSE hold[l]
    BY DEF WaitlistResult
  <2>2. \A l \in Line : hold[l] \in HoldType
    BY DEF TypeOK
  <2>3. \A l \in Line :
           /\ hold'[l].qty = hold[l].qty
           /\ hold'[l].status = IF l \in OwnActive(r)
                                THEN IF IsSkipped(l) THEN "skipped" ELSE "requeued"
                                ELSE hold[l].status
    BY <2>1, <2>2 DEF HoldType, Detached
  <2>4. \A l \in Line : ~(IsSkipped(l) /\ IsRestored(l))
    BY DEF IsSkipped, IsRestored
  <2>5. \A l \in OwnActive(r) : l \in Line /\ hold[l].status = "active"
    BY DEF OwnActive
  <2>6. \A l \in Line : PairOf(SourceOf(l)) = pair =>
           (l \in back \cup new <=> l \in OwnActive(r) /\ ~IsSkipped(l))
    BY <2>4
  <2>7. back \cup new \subseteq KeptLines(pair)
    BY <2>5 DEF KeptLines, KeptStatus
  <2>8. \A l \in Line : PairOf(SourceOf(l)) = pair =>
           /\ hold'[l].qty = hold[l].qty
           /\ hold'[l].status \in KeptStatus
                 <=> hold[l].status \in KeptStatus /\ l \notin back \cup new
    BY <2>3, <2>5, <2>6 DEF KeptStatus
  <2> HIDE DEF back, new
  <2> QED BY <2>7, <2>8, KeptShrinks
<1>9. Asked(pair)' = Asked(pair)
  BY DEF Asked, WaitlistResult, sessions
<1>10. /\ Asked(pair) \in Nat /\ Waiting(pair) \in Nat /\ Kept(pair) \in Nat
       /\ Waiting(pair)' \in Nat /\ Kept(pair)' \in Nat
  BY DemandTypes, DemandTypesNext DEF DemandNumbers
<1>11. InitialDemand[pair] + Asked(pair) = Waiting(pair) + Kept(pair)
  BY BalanceOfPair
<1>12. Waiting(pair)' = Waiting(pair) + (a + b)
  <2> HIDE DEF a, b, gain, loss
  <2> QED BY <1>3, <1>4, <1>5, <1>10
<1>13. Kept(pair) = Kept(pair)' + (b + a)
  BY <1>6, <1>7, <1>8
<1>14. InitialDemand[pair] \in Nat
  BY PipelineAssumption DEF Pair
<1> HIDE DEF a, b, back, new, gain, loss
<1> QED BY <1>1, <1>9, <1>10, <1>11, <1>12, <1>13, <1>14

\* What a cancellation takes back ends on the cancelled ticket.
LEMMA CancelBalance ==
    ASSUME TypeOK, TypeOK', TicketInv, DemandAccounted, NEW t \in Ticket,
           CancelTicket(t)
    PROVE  DemandAccounted'
<1> SUFFICES ASSUME NEW pair \in Pair
             PROVE  InitialDemand[pair] + Asked(pair)' = Waiting(pair)' + Kept(pair)'
  BY DEF DemandAccounted, Asked, Waiting, Kept, KeptLines, KeptStatus
<1> DEFINE back == HeldQuantity(RevocableOf(t))
           gone == {l \in RevocableOf(t) : PairOf(t) = pair}
           q == IF PairOf(t) = pair THEN back ELSE 0
           gain == [u \in Ticket |-> IF u = t THEN q ELSE 0]
           loss == [u \in Ticket |-> 0]
<1>1. back \in Nat /\ q \in Nat
  BY HeldTypes
<1>2. /\ ticket'[t].remaining = ticket[t].remaining + back
      /\ \A u \in Ticket : u # t => ticket'[u] = ticket[u]
  BY CancelledTicket
<1>3. gain \in [Ticket -> Nat] /\ loss \in [Ticket -> Nat]
  BY <1>1
<1>4. SumOf(gain) = q /\ SumOf(loss) = 0
  <2>1. gain[t] = q /\ \A u \in Ticket : u # t => gain[u] = 0
    OBVIOUS
  <2>2. \A u \in Ticket : loss[u] = 0
    OBVIOUS
  <2> HIDE DEF gain, loss, q
  <2> QED BY <1>3, <2>1, <2>2, FiniteKeys, SumSingle, SumZero
<1>5. Waiting(pair)' + SumOf(loss) = Waiting(pair) + SumOf(gain)
  <2>1. \A u \in Ticket : PairOf(u) # pair => gain[u] = 0 /\ loss[u] = 0
    OBVIOUS
  <2>2. \A u \in Ticket : ticket[u].remaining \in Nat /\ ticket'[u].remaining \in Nat
    BY DEF TypeOK, TicketType
  <2>3. \A u \in Ticket : PairOf(u) = pair =>
           ticket'[u].remaining + loss[u] = ticket[u].remaining + gain[u]
    <3> HIDE DEF back
    <3> QED BY <1>1, <1>2, <2>2
  <2> HIDE DEF gain, loss
  <2> QED BY <1>3, <2>1, <2>3, WaitingMoves
<1>6. HeldQuantity(gone) = q
  <2>1. CASE PairOf(t) = pair
    <3>1. gone = RevocableOf(t)
      BY <2>1
    <3> QED BY <2>1, <3>1
  <2>2. CASE PairOf(t) # pair
    <3>1. \A l \in Line : l \notin gone
      BY <2>2
    <3> HIDE DEF gone
    <3>2. HeldQuantity(gone) = 0
      BY <3>1, HeldNothing
    <3> QED BY <2>2, <3>2
  <2> QED BY <2>1, <2>2
<1>7. Kept(pair) = Kept(pair)' + HeldQuantity(gone)
  <2>1. \A l \in Line :
           /\ hold'[l].qty = hold[l].qty
           /\ hold'[l].status = IF l \in RevocableOf(t) THEN "revoked"
                                ELSE hold[l].status
    BY CancelEffect
  <2>2. \A l \in RevocableOf(t) : l \in Line /\ SourceOf(l) = t /\ hold[l].status = "active"
    BY DEF RevocableOf
  <2>3. gone \subseteq KeptLines(pair)
    BY <2>2 DEF KeptLines, KeptStatus
  <2>4. \A l \in Line : PairOf(SourceOf(l)) = pair =>
           /\ hold'[l].qty = hold[l].qty
           /\ hold'[l].status \in KeptStatus
                 <=> hold[l].status \in KeptStatus /\ l \notin gone
    BY <2>1, <2>2 DEF KeptStatus
  <2> HIDE DEF gone
  <2> QED BY <2>3, <2>4, KeptShrinks
<1>8. Asked(pair)' = Asked(pair)
  BY DEF Asked, CancelTicket, sessions
<1>9. /\ Asked(pair) \in Nat /\ Waiting(pair) \in Nat /\ Kept(pair) \in Nat
      /\ Waiting(pair)' \in Nat /\ Kept(pair)' \in Nat
  BY DemandTypes, DemandTypesNext DEF DemandNumbers
<1>10. InitialDemand[pair] + Asked(pair) = Waiting(pair) + Kept(pair)
  BY BalanceOfPair
<1>11. InitialDemand[pair] \in Nat
  BY PipelineAssumption DEF Pair
<1> HIDE DEF back, gone, q, gain, loss
<1> QED BY <1>1, <1>4, <1>5, <1>6, <1>7, <1>8, <1>9, <1>10, <1>11

LEMMA EndedOfferBalance ==
    ASSUME TypeOK, TypeOK', DemandAccounted, NEW o \in Offer,
           DeclineOffer(o) \/ AnswerLate(o)
    PROVE  DemandAccounted'
<1>1. /\ session' = session /\ ordered' = ordered /\ hold' = hold
      /\ ticket' = [ticket EXCEPT ![o[2]] =
                      IF EndsWait(o, {o}) THEN CloseTicket(@) ELSE @]
  BY DEF DeclineOffer, AnswerLate, EndOffer, sessions, results
<1>2. ASSUME NEW t \in Ticket PROVE ticket'[t].remaining = ticket[t].remaining
  <2>1. ticket[t] \in TicketType
    BY DEF TypeOK
  <2>2. ticket'[t] = ticket[t] \/ ticket'[t] = CloseTicket(ticket[t])
    BY <1>1 DEF TypeOK
  <2> QED BY <2>1, <2>2 DEF CloseTicket, TicketType
<1> QED BY <1>1, <1>2, BalanceKept

LEMMA SessionBalance ==
    ASSUME TypeOK, TypeOK', DemandAccounted, NEW n \in Session,
           \/ CancelSession(n)
           \/ \E s \in Store, items \in Items : SubmitOrder(n, s, items)
    PROVE  DemandAccounted'
<1>1. hold' = hold /\ ticket' = ticket /\ session[n] = "open"
  BY DEF CancelSession, SubmitOrder, results
<1>2. \A m \in Session : session'[m] = "completed" <=> session[m] = "completed"
  BY DEF CancelSession, SubmitOrder, TypeOK
<1>3. \A m \in Session, pair \in Pair : m # n =>
         ordered'[<<m, pair>>] = ordered[<<m, pair>>]
  <2>1. \A m \in Session, pair \in Pair :
           /\ <<m, pair>> \in Session \X Pair
           /\ <<m, pair>>[1] = m /\ <<m, pair>>[2] = pair
    OBVIOUS
  <2>2. CASE CancelSession(n)
    BY <2>1, <2>2 DEF CancelSession
  <2>3. CASE \E s \in Store, items \in Items : SubmitOrder(n, s, items)
    BY <2>1, <2>3 DEF SubmitOrder
  <2> QED BY <2>2, <2>3
<1> QED BY <1>1, <1>2, <1>3, BalanceKept

-----------------------------------------------------------------------------
DemandInv == TypeOK /\ NoLinesBeforeRun /\ TicketInv /\ DemandAccounted

LEMMA InitDemands == Init => DemandInv
<1> SUFFICES ASSUME Init PROVE DemandInv
  OBVIOUS
<1>1. TypeOK /\ NoLinesBeforeRun /\ TicketInv
  BY InitTypes, InitLines, InitTickets
<1>2. ASSUME NEW pair \in Pair
      PROVE  InitialDemand[pair] + Asked(pair) = Waiting(pair) + Kept(pair)
  <2> DEFINE f == [n \in Session |->
                     IF session[n] = "completed" THEN ordered[<<n, pair>>] ELSE 0]
             g == [t \in Ticket |-> IF PairOf(t) = pair THEN ticket[t].remaining ELSE 0]
             first == <<pair[1], pair[2], 1>>
  <2>1. Asked(pair) = 0
    <3>1. f \in [Session -> Nat] /\ \A n \in Session : f[n] = 0
      BY DEF Init
    <3> HIDE DEF f
    <3>2. SumOf(f) = 0
      BY <3>1, SumZero
    <3> QED BY <3>2 DEF f, Asked
  <2>2. Kept(pair) = 0
    <3>1. \A l \in Line : l \notin KeptLines(pair)
      BY DEF Init, NoHold, KeptLines, KeptStatus
    <3> QED BY <3>1, HeldNothing DEF Kept
  <2>3. InitialDemand[pair] \in Nat
    BY PipelineAssumption DEF Pair
  <2>4. Waiting(pair) = InitialDemand[pair]
    <3>1. first \in Ticket /\ PairOf(first) = pair /\ first[3] = 1
      BY PipelineAssumption DEF Ticket, Pair, PairOf
    <3>2. \A t \in Ticket : PairOf(t) = pair /\ t[3] = 1 => t = first
      BY DEF Ticket, PairOf
    <3>3. \A t \in Ticket :
             ticket[t] = IF t[3] = 1 /\ InitialDemand[PairOf(t)] > 0
                         THEN NewTicket(InitialDemand[PairOf(t)]) ELSE NoTicket
      BY DEF Init
    <3>4. NoTicket.remaining = 0 /\ \A q : NewTicket(q).remaining = q
      BY DEF NoTicket, NewTicket
    <3>5. \A t \in Ticket : t # first => g[t] = 0
      BY <3>2, <3>3, <3>4
    <3>6. g[first] = InitialDemand[pair]
      <4>1. CASE InitialDemand[pair] > 0
        <5>1. ticket[first].remaining = InitialDemand[pair]
          BY <3>1, <3>3, <3>4, <4>1
        <5> QED BY <3>1, <5>1
      <4>2. CASE ~(InitialDemand[pair] > 0)
        <5>1. ticket[first].remaining = 0
          BY <3>1, <3>3, <3>4, <4>2
        <5> QED BY <2>3, <3>1, <4>2, <5>1
      <4> QED BY <4>1, <4>2
    <3>7. g \in [Ticket -> Nat]
      BY <1>1 DEF TypeOK, TicketType
    <3> HIDE DEF f, g, first
    <3>8. SumOf(g) = g[first]
      BY <3>1, <3>5, <3>7, FiniteKeys, SumSingle
    <3> QED BY <3>6, <3>8 DEF g, Waiting
  <2> QED BY <2>1, <2>2, <2>3, <2>4
<1>3. DemandAccounted
  BY <1>2, BalanceOfPair
<1> QED BY <1>1, <1>3 DEF DemandInv

LEMMA NextDemands == DemandInv /\ [Next]_vars => DemandInv'
<1> SUFFICES ASSUME DemandInv, [Next]_vars PROVE DemandInv'
  OBVIOUS
<1>1. TypeOK /\ NoLinesBeforeRun /\ TicketInv /\ DemandAccounted
  BY DEF DemandInv
<1>2. TypeOK' /\ NoLinesBeforeRun' /\ TicketInv'
  BY <1>1, NextTypes, NextLines, NextTickets
<1>3. CASE UNCHANGED <<session, ordered, ticket, hold>>
  BY <1>1, <1>2, <1>3, BalanceKept DEF DemandInv
<1>4. CASE Tick \/ StartTick \/ \E p \in Product : IncreaseStock(p) \/ DecreaseStock(p)
  BY <1>3, <1>4
     DEF Tick, StartTick, IncreaseStock, DecreaseStock, sessions, results
<1>5. CASE \/ \E n \in Session : CancelSession(n)
           \/ \E n \in Session, s \in Store, items \in Items : SubmitOrder(n, s, items)
  BY <1>1, <1>2, <1>5, SessionBalance DEF DemandInv
<1>6. CASE Snapshots
  BY <1>3, <1>6 DEF Snapshots, CaptureSnapshot, results
<1>7. CASE Runs
  BY <1>1, <1>2, <1>7, RunBalance DEF DemandInv, Runs
<1>8. CASE \E o \in Offer : AcceptOffer(o)
  BY <1>3, <1>8 DEF AcceptOffer, sessions, results
<1>9. CASE \E o \in Offer : DeclineOffer(o) \/ AnswerLate(o)
  BY <1>1, <1>2, <1>9, EndedOfferBalance DEF DemandInv
<1>10. CASE \E r \in Result : AcceptResult(r) \/ WaitlistResult(r)
  BY <1>1, <1>2, <1>10, AcceptBalance, WaitlistBalance DEF DemandInv
<1>11. CASE \E t \in Ticket : CancelTicket(t)
  BY <1>1, <1>2, <1>11, CancelBalance DEF DemandInv
<1>12. CASE UNCHANGED vars
  BY <1>3, <1>12 DEF vars, sessions, results
<1> QED BY <1>4, <1>5, <1>6, <1>7, <1>8, <1>9, <1>10, <1>11, <1>12 DEF Next, Answers

\* No bag of demand is lost or counted twice, whatever the stores answer, send
\* back or cancel.
THEOREM DemandIsKept == Spec => []DemandAccounted
<1>1. Init => DemandInv
  BY InitDemands
<1>2. DemandInv /\ [Next]_vars => DemandInv'
  BY NextDemands
<1>3. DemandInv => DemandAccounted
  BY DEF DemandInv
<1> QED BY <1>1, <1>2, <1>3, PTL DEF Spec

-----------------------------------------------------------------------------
(* The books.                                                              *)

\* Offers of a session exist only once its snapshot is taken.
NoOffersBeforeSnapshot ==
    \A o \in Offer :
        ~taken[o[1]] => offer[o].status = "none" /\ offer[o].held = 0

LEMMA OffersKept ==
    ASSUME NoOffersBeforeSnapshot, taken' = taken,
           \A o \in Offer : offer[o].status = "none" => offer'[o] = offer[o]
    PROVE  NoOffersBeforeSnapshot'
BY DEF NoOffersBeforeSnapshot

LEMMA NextOffers ==
    TypeOK /\ NoOffersBeforeSnapshot /\ [Next]_vars => NoOffersBeforeSnapshot'
<1> SUFFICES ASSUME TypeOK, NoOffersBeforeSnapshot, [Next]_vars
             PROVE  NoOffersBeforeSnapshot'
  OBVIOUS
<1> USE DEF sessions, results
<1>1. CASE UNCHANGED <<taken, offer>>
  BY <1>1 DEF NoOffersBeforeSnapshot
<1>2. CASE Tick \/ StartTick
  BY <1>1, <1>2 DEF Tick, StartTick
<1>3. CASE \E p \in Product : IncreaseStock(p) \/ DecreaseStock(p)
  BY <1>1, <1>3 DEF IncreaseStock, DecreaseStock
<1>4. CASE \E n \in Session : CancelSession(n)
  BY <1>1, <1>4 DEF CancelSession
<1>5. CASE \E n \in Session, s \in Store, items \in Items : SubmitOrder(n, s, items)
  BY <1>1, <1>5 DEF SubmitOrder
<1>6. ASSUME NEW n \in Session, NEW plan \in OfferPlans(n), CaptureSnapshot(n, plan)
      PROVE  NoOffersBeforeSnapshot'
  <2>1. SUFFICES ASSUME NEW o \in Offer, ~taken'[o[1]]
                 PROVE  offer'[o].status = "none" /\ offer'[o].held = 0
    BY DEF NoOffersBeforeSnapshot
  <2>2. o[1] # n /\ ~taken[o[1]]
    BY <1>6, <2>1, LineKeys DEF CaptureSnapshot, TypeOK
  <2>3. offer'[o] = offer[o]
    BY <1>6, <2>2 DEF CaptureSnapshot, PlannedOffer
  <2> QED BY <2>2, <2>3 DEF NoOffersBeforeSnapshot
<1>7. ASSUME NEW n \in Session, NEW grant \in Grants(n), FinalizeAllocation(n, grant)
      PROVE  NoOffersBeforeSnapshot'
  <2>1. \A o \in Offer : offer[o].status = "none" => offer'[o] = offer[o]
    BY <1>7 DEF FinalizeAllocation, Expiring, AcceptedOwn
  <2> QED BY <1>7, <2>1, OffersKept DEF FinalizeAllocation
<1>8. ASSUME NEW o \in Offer, AcceptOffer(o) \/ DeclineOffer(o) \/ AnswerLate(o)
      PROVE  NoOffersBeforeSnapshot'
  <2>1. \A x \in Offer : offer[x].status = "none" => offer'[x] = offer[x]
    BY <1>8 DEF AcceptOffer, DeclineOffer, AnswerLate, EndOffer, TypeOK
  <2> QED
    BY <1>8, <2>1, OffersKept DEF AcceptOffer, DeclineOffer, AnswerLate, EndOffer
<1>9. CASE \E r \in Result : AcceptResult(r) \/ WaitlistResult(r)
  BY <1>1, <1>9 DEF AcceptResult, WaitlistResult
<1>10. ASSUME NEW t \in Ticket, CancelTicket(t) PROVE NoOffersBeforeSnapshot'
  <2>1. \A o \in Offer : offer[o].status = "none" => offer'[o] = offer[o]
    BY <1>10 DEF CancelTicket, LiveFor, Live
  <2> QED BY <1>10, <2>1, OffersKept DEF CancelTicket
<1>11. CASE UNCHANGED vars
  BY <1>1, <1>11 DEF vars
<1> QED
  BY <1>2, <1>3, <1>4, <1>5, <1>6, <1>7, <1>8, <1>9, <1>10, <1>11
     DEF Next, Answers, Snapshots, Runs

-----------------------------------------------------------------------------
(* How the totals follow the rows.                                         *)

ActiveLines == {l \in Line : hold[l].status = "active"}

Pledged(p) == OfferHeld(Offer, p) + LineHeld(ActiveLines, p)

\* HeldTypes, also after a step.
HeldNumbers ==
    /\ \A p : OfferHeld(Offer, p) \in Nat
    /\ \A p : LineHeld(ActiveLines, p) \in Nat

LEMMA HeldTypesNext == TypeOK' => HeldNumbers'
<1>1. TypeOK => HeldNumbers
  BY HeldTypes DEF HeldNumbers
<1> QED BY <1>1, PTL

LEMMA PledgedIsReserved ==
    ReservedIsPledged <=> \A p \in Product : reserved[p] = Pledged(p)
BY DEF ReservedIsPledged, Pledged, ActiveLines

\* Closing a set of offers takes what they held off the total.
LEMMA OffersReleased ==
    ASSUME TypeOK, TypeOK', NEW set, NEW p,
           \A o \in Offer :
               offer'[o].held = IF o \in set THEN 0 ELSE offer[o].held
    PROVE  OfferHeld(Offer, p) = OfferHeld(Offer, p)' + OfferHeld(set, p)
<1> DEFINE f == [o \in Offer |->
                   IF o \in Offer /\ ProductOf(o) = p THEN offer[o].held ELSE 0]
           g == [o \in Offer |->
                   IF o \in Offer /\ ProductOf(o) = p THEN offer'[o].held ELSE 0]
           h == [o \in Offer |->
                   IF o \in set /\ ProductOf(o) = p THEN offer[o].held ELSE 0]
<1>1. \A o \in Offer : offer[o].held \in Nat /\ offer'[o].held \in Nat
  BY DEF TypeOK, OfferType
<1>2. f \in [Offer -> Nat] /\ g \in [Offer -> Nat] /\ h \in [Offer -> Nat]
  BY <1>1
<1>3. \A o \in Offer : f[o] = g[o] + h[o]
  BY <1>1
<1> HIDE DEF f, g, h
<1>4. SumOf(f) = SumOf(g) + SumOf(h)
  BY <1>2, <1>3, FiniteKeys, SumAdd
<1> QED BY <1>4, Zenon DEF f, g, h, OfferHeld

\* Offers that are none of another set add up with them.
LEMMA OffersDisjoint ==
    ASSUME TypeOK, NEW A, NEW B, NEW p, A \cap B = {}
    PROVE  OfferHeld(A \cup B, p) = OfferHeld(A, p) + OfferHeld(B, p)
<1> DEFINE f == [o \in Offer |->
                   IF o \in A \cup B /\ ProductOf(o) = p THEN offer[o].held ELSE 0]
           g == [o \in Offer |->
                   IF o \in A /\ ProductOf(o) = p THEN offer[o].held ELSE 0]
           h == [o \in Offer |->
                   IF o \in B /\ ProductOf(o) = p THEN offer[o].held ELSE 0]
<1>1. \A o \in Offer : offer[o].held \in Nat
  BY DEF TypeOK, OfferType
<1>2. f \in [Offer -> Nat] /\ g \in [Offer -> Nat] /\ h \in [Offer -> Nat]
  BY <1>1
<1>3. \A o \in Offer : f[o] = g[o] + h[o]
  BY <1>1
<1> HIDE DEF f, g, h
<1>4. SumOf(f) = SumOf(g) + SumOf(h)
  BY <1>2, <1>3, FiniteKeys, SumAdd
<1> QED BY <1>4, Zenon DEF f, g, h, OfferHeld

\* Taking active lines off hold takes their quantities off the total.
LEMMA LinesReleased ==
    ASSUME TypeOK, TypeOK', NEW set, NEW p, set \subseteq ActiveLines,
           \A l \in Line :
               /\ hold'[l].qty = hold[l].qty
               /\ hold'[l].status = "active"
                     <=> hold[l].status = "active" /\ l \notin set
    PROVE  LineHeld(ActiveLines, p) = LineHeld(ActiveLines, p)' + LineHeld(set, p)
<1> DEFINE f == [l \in Line |->
                   IF l \in ActiveLines /\ ProductOf(l) = p THEN hold[l].qty ELSE 0]
           g == [l \in Line |->
                   IF l \in ActiveLines' /\ ProductOf(l) = p THEN hold'[l].qty ELSE 0]
           h == [l \in Line |->
                   IF l \in set /\ ProductOf(l) = p THEN hold[l].qty ELSE 0]
<1>1. \A l \in Line : hold[l].qty \in Nat /\ hold'[l].qty \in Nat
  BY DEF TypeOK, HoldType
<1>2. f \in [Line -> Nat] /\ g \in [Line -> Nat] /\ h \in [Line -> Nat]
  BY <1>1
<1>3. \A l \in Line : f[l] = g[l] + h[l]
  BY <1>1 DEF ActiveLines
<1> HIDE DEF f, g, h
<1>4. SumOf(f) = SumOf(g) + SumOf(h)
  BY <1>2, <1>3, FiniteKeys, SumAdd
<1> QED BY <1>4, Zenon DEF f, g, h, LineHeld

-----------------------------------------------------------------------------
(* Every command keeps the books balanced.                                 *)

LEMMA UntouchedBooks ==
    ASSUME ReservedIsPledged, UNCHANGED <<reserved, offer, hold>>
    PROVE  ReservedIsPledged'
BY DEF ReservedIsPledged, OfferHeld, LineHeld

\* Offers closed and nothing else.
LEMMA ReleaseBooks ==
    ASSUME TypeOK, TypeOK', ReservedIsPledged, NEW set, NEW lines,
           lines \subseteq ActiveLines,
           \A o \in Offer :
               offer'[o].held = IF o \in set THEN 0 ELSE offer[o].held,
           \A l \in Line :
               /\ hold'[l].qty = hold[l].qty
               /\ hold'[l].status = "active"
                     <=> hold[l].status = "active" /\ l \notin lines,
           \A p \in Product :
               reserved'[p] = reserved[p] - OfferHeld(set, p) - LineHeld(lines, p)
    PROVE  ReservedIsPledged'
<1> SUFFICES ASSUME NEW p \in Product PROVE reserved'[p] = Pledged(p)'
  BY PledgedIsReserved DEF ReservedIsPledged, Pledged, ActiveLines
<1>1. OfferHeld(Offer, p) = OfferHeld(Offer, p)' + OfferHeld(set, p)
  BY OffersReleased
<1>2. LineHeld(ActiveLines, p) = LineHeld(ActiveLines, p)' + LineHeld(lines, p)
  BY LinesReleased
<1>3. reserved[p] = OfferHeld(Offer, p) + LineHeld(ActiveLines, p)
  BY PledgedIsReserved DEF Pledged
<1>4. /\ OfferHeld(Offer, p) \in Nat /\ OfferHeld(set, p) \in Nat
      /\ LineHeld(ActiveLines, p) \in Nat /\ LineHeld(lines, p) \in Nat
  BY HeldTypes
<1>5. OfferHeld(Offer, p)' \in Nat /\ LineHeld(ActiveLines, p)' \in Nat
  BY HeldTypesNext DEF HeldNumbers
<1> QED BY <1>1, <1>2, <1>3, <1>4, <1>5 DEF Pledged

\* The snapshot job reserves what it offers, on rows that hold nothing.
LEMMA SnapshotBooks ==
    ASSUME TypeOK, TypeOK', ReservedIsPledged, NoOffersBeforeSnapshot,
           NEW n \in Session, NEW plan \in OfferPlans(n), CaptureSnapshot(n, plan)
    PROVE  ReservedIsPledged'
<1> SUFFICES ASSUME NEW p \in Product PROVE reserved'[p] = Pledged(p)'
  BY PledgedIsReserved DEF ReservedIsPledged, Pledged, ActiveLines
<1> DEFINE f == [o \in Offer |->
                   IF o \in Offer /\ ProductOf(o) = p THEN offer'[o].held ELSE 0]
           g == [o \in Offer |->
                   IF o \in Offer /\ ProductOf(o) = p THEN offer[o].held ELSE 0]
           h == [o \in Offer |->
                   IF PlannedOffer(n, plan, o) /\ ProductOf(o) = p
                   THEN plan[o[2]] ELSE 0]
<1>1. reserved'[p] = reserved[p] + SumOf(h)
  BY DEF CaptureSnapshot
<1>2. ASSUME NEW o \in Offer
      PROVE  offer'[o].held = IF PlannedOffer(n, plan, o) THEN plan[o[2]]
                              ELSE offer[o].held
  <2> DEFINE made(x) == [status |-> "offered", qty |-> plan[x[2]],
                         eligible |-> ticket[x[2]].remaining, held |-> plan[x[2]]]
  <2>1. offer' = [x \in Offer |-> IF PlannedOffer(n, plan, x) THEN made(x)
                                  ELSE offer[x]]
    BY DEF CaptureSnapshot
  <2>2. made(o).held = plan[o[2]]
    OBVIOUS
  <2> HIDE DEF made
  <2> QED BY <2>1, <2>2
<1>3. ASSUME NEW o \in Offer, PlannedOffer(n, plan, o) PROVE offer[o].held = 0
  BY <1>3 DEF CaptureSnapshot, PlannedOffer, NoOffersBeforeSnapshot
<1>4. ASSUME NEW o \in Offer
      PROVE  /\ offer[o].held \in Nat /\ offer'[o].held \in Nat
             /\ plan[o[2]] \in Nat
  BY ChoiceTypes, LineKeys DEF TypeOK, OfferType
<1>5. f \in [Offer -> Nat] /\ g \in [Offer -> Nat] /\ h \in [Offer -> Nat]
  BY <1>4
<1>6. \A o \in Offer : f[o] = g[o] + h[o]
  BY <1>2, <1>3, <1>4
<1> HIDE DEF f, g, h
<1>7. SumOf(f) = SumOf(g) + SumOf(h)
  BY <1>5, <1>6, FiniteKeys, SumAdd
<1>8. SumOf(f) = OfferHeld(Offer, p)' /\ SumOf(g) = OfferHeld(Offer, p)
  BY Zenon DEF f, g, OfferHeld
<1>9. LineHeld(ActiveLines, p)' = LineHeld(ActiveLines, p)
  BY DEF CaptureSnapshot, results, LineHeld, ActiveLines
<1>10. /\ SumOf(g) \in Nat /\ SumOf(h) \in Nat /\ LineHeld(ActiveLines, p) \in Nat
  BY <1>5, FiniteKeys, SumType, HeldTypes
<1> QED BY <1>1, <1>7, <1>8, <1>9, <1>10, PledgedIsReserved DEF Pledged

\* Nothing holds nothing.
LEMMA NothingHeld == \A p : LineHeld({}, p) = 0 /\ OfferHeld({}, p) = 0
<1> DEFINE none == {}
<1>1. ASSUME NEW p PROVE LineHeld(none, p) = 0
  <2> DEFINE f == [l \in Line |->
                     IF l \in none /\ ProductOf(l) = p THEN hold[l].qty ELSE 0]
  <2>1. f \in [Line -> Nat] /\ \A l \in Line : f[l] = 0
    OBVIOUS
  <2> HIDE DEF f
  <2>2. SumOf(f) = 0
    BY <2>1, SumZero
  <2> QED BY <2>2, Zenon DEF f, LineHeld
<1>2. ASSUME NEW p PROVE OfferHeld(none, p) = 0
  <2> DEFINE f == [x \in Offer |->
                     IF x \in none /\ ProductOf(x) = p THEN offer[x].held ELSE 0]
  <2>1. f \in [Offer -> Nat] /\ \A x \in Offer : f[x] = 0
    OBVIOUS
  <2> HIDE DEF f
  <2>2. SumOf(f) = 0
    BY <2>1, SumZero
  <2> QED BY <2>2, Zenon DEF f, OfferHeld
<1> QED BY <1>1, <1>2

LEMMA OfferAnswerBooks ==
    ASSUME TypeOK, TypeOK', ReservedIsPledged, NEW o \in Offer,
           AcceptOffer(o) \/ DeclineOffer(o) \/ AnswerLate(o)
    PROVE  ReservedIsPledged'
<1> DEFINE one == {o}
<1>1. \A p \in Product : reserved[p] \in Nat /\ OfferHeld(one, p) \in Nat
  BY HeldTypes DEF TypeOK
<1>2. CASE AcceptOffer(o)
  <2>1. \A x \in Offer : offer'[x].held = IF x \in {} THEN 0 ELSE offer[x].held
    BY <1>2 DEF AcceptOffer, TypeOK, OfferType
  <2>2. hold' = hold /\ reserved' = reserved
    BY <1>2 DEF AcceptOffer, results, warehouse
  <2>3. \A p \in Product :
           reserved'[p] = reserved[p] - OfferHeld({}, p) - LineHeld({}, p)
    BY <1>1, <2>2, NothingHeld
  <2> QED BY <2>1, <2>2, <2>3, ReleaseBooks
<1>3. ASSUME NEW status \in OfferStatus, EndOffer(o, status) PROVE ReservedIsPledged'
  <2>1. \A x \in Offer : offer'[x].held = IF x \in one THEN 0 ELSE offer[x].held
    BY <1>3 DEF EndOffer, CloseOffer, TypeOK, OfferType
  <2>2. /\ hold' = hold
        /\ \A p \in Product : reserved'[p] = reserved[p] - OfferHeld(one, p)
    BY <1>3 DEF EndOffer, results
  <2>3. ASSUME NEW p \in Product
        PROVE  reserved'[p] = reserved[p] - OfferHeld(one, p) - LineHeld({}, p)
    <3> HIDE DEF one
    <3>1. LineHeld({}, p) = 0
      BY NothingHeld
    <3> QED BY <1>1, <2>2, <3>1
  <2> HIDE DEF one
  <2> QED BY <2>1, <2>2, <2>3, ReleaseBooks
<1>4. "declined" \in OfferStatus /\ "expired" \in OfferStatus
  BY DEF OfferStatus
<1> QED BY <1>2, <1>3, <1>4 DEF DeclineOffer, AnswerLate

\* An accepted result leaves with what it reserved, a returned one gives it up.
LEMMA ResultAnswerBooks ==
    ASSUME TypeOK, TypeOK', ReservedIsPledged, NEW r \in Result,
           AcceptResult(r) \/ WaitlistResult(r)
    PROVE  ReservedIsPledged'
<1> DEFINE own == OwnActive(r)
<1>1. own \subseteq ActiveLines
  BY DEF OwnActive, ActiveLines
<1>2. offer' = offer
  BY DEF AcceptResult, WaitlistResult
<1>3. ASSUME NEW l \in Line
      PROVE  /\ hold'[l].qty = hold[l].qty
             /\ hold'[l].status = "active" <=> hold[l].status = "active" /\ l \notin own
  <2>1. hold[l] \in HoldType
    BY DEF TypeOK
  <2>2. CASE AcceptResult(r)
    <3>1. hold'[l] = IF l \in own THEN [hold[l] EXCEPT !.status = "issued"] ELSE hold[l]
      BY <2>2 DEF AcceptResult
    <3> QED BY <2>1, <3>1 DEF HoldType
  <2>3. CASE WaitlistResult(r)
    <3> DEFINE end == IF IsSkipped(l) THEN "skipped" ELSE "requeued"
    <3>1. hold'[l] = IF l \in own THEN [hold[l] EXCEPT !.status = end]
                     ELSE IF l \in Carried(r) THEN Detached(hold[l]) ELSE hold[l]
      BY <2>3 DEF WaitlistResult
    <3>2. end # "active"
      OBVIOUS
    <3> HIDE DEF end
    <3> QED BY <2>1, <3>1, <3>2 DEF HoldType, Detached
  <2> QED BY <2>2, <2>3
<1>4. ASSUME NEW p \in Product
      PROVE  reserved'[p] = reserved[p] - OfferHeld({}, p) - LineHeld(own, p)
  <2>1. reserved'[p] = reserved[p] - LineHeld(own, p)
    BY DEF AcceptResult, WaitlistResult
  <2>2. OfferHeld({}, p) = 0
    BY NothingHeld
  <2>3. reserved[p] \in Nat /\ LineHeld(own, p) \in Nat
    BY HeldTypes DEF TypeOK
  <2> QED BY <2>1, <2>2, <2>3
<1> HIDE DEF own
<1> QED BY <1>1, <1>2, <1>3, <1>4, ReleaseBooks

\* The cancellation of a ticket releases its claims and its open grants.
LEMMA CancelBooks ==
    ASSUME TypeOK, TypeOK', ReservedIsPledged, NEW t \in Ticket, CancelTicket(t)
    PROVE  ReservedIsPledged'
<1>1. RevocableOf(t) \subseteq ActiveLines
  BY DEF RevocableOf, ActiveLines
<1>2. ASSUME NEW o \in Offer
      PROVE  offer'[o].held = IF o \in LiveFor(t) THEN 0 ELSE offer[o].held
  BY DEF CancelTicket, CloseOffer, TypeOK, OfferType
<1>3. ASSUME NEW l \in Line
      PROVE  /\ hold'[l].qty = hold[l].qty
             /\ hold'[l].status = "active"
                   <=> hold[l].status = "active" /\ l \notin RevocableOf(t)
  <2> DEFINE ship == IF Emptied(t, ResultOf(l)) THEN hold[l].ship ELSE NoShipment
             off == \E r \in Result : Emptied(t, r) /\ l \in Carried(r)
  <2>1. hold[l] \in HoldType
    BY DEF TypeOK
  <2>2. hold'[l] = IF l \in RevocableOf(t)
                   THEN [hold[l] EXCEPT !.status = "revoked", !.ship = ship]
                   ELSE IF off THEN Detached(hold[l]) ELSE hold[l]
    BY DEF CancelTicket
  <2> HIDE DEF ship, off
  <2> QED BY <2>1, <2>2 DEF HoldType, Detached
<1>4. \A p \in Product :
         reserved'[p] = reserved[p] - OfferHeld(LiveFor(t), p)
                          - LineHeld(RevocableOf(t), p)
  BY DEF CancelTicket
<1> QED BY <1>1, <1>2, <1>3, <1>4, ReleaseBooks

\* A run makes its lines on rows that hold nothing: the active lines hold
\* what they held, and what the run grants.
LEMMA LinesGranted ==
    ASSUME TypeOK, TypeOK', NoLinesBeforeRun, NEW n \in Session,
           NEW grant \in Grants(n), FinalizeAllocation(n, grant), NEW p
    PROVE  LineHeld(ActiveLines, p)' =
             LineHeld(ActiveLines, p)
               + SumOf([c \in Claim |-> IF c[2] = p THEN grant[c] ELSE 0])
<1> DEFINE f == [l \in Line |->
                   IF l \in ActiveLines' /\ ProductOf(l) = p THEN hold'[l].qty ELSE 0]
           g == [l \in Line |->
                   IF l \in ActiveLines /\ ProductOf(l) = p THEN hold[l].qty ELSE 0]
           h == [l \in Line |->
                   IF l[1] = n /\ ProductOf(l) = p THEN grant[SourceOf(l)] ELSE 0]
           k == [c \in Claim |-> IF c[2] = p THEN grant[c] ELSE 0]
           key == [c \in Claim |-> <<n, c>>]
<1>1. grant \in [Claim -> Nat]
  BY ChoiceTypes
<1>2. \A l \in Line : /\ hold[l] \in HoldType /\ hold[l].qty \in Nat
                      /\ hold'[l].qty \in Nat /\ grant[SourceOf(l)] \in Nat
  BY <1>1, LineKeys DEF TypeOK, HoldType
<1>3. /\ f \in [Line -> Nat] /\ g \in [Line -> Nat] /\ h \in [Line -> Nat]
      /\ k \in [Claim -> Nat]
  BY <1>1, <1>2
<1>4. ASSUME NEW l \in Line PROVE f[l] = g[l] + h[l]
  <2>1. hold'[l] = HoldAfterRun(n, grant, l)
    BY DEF FinalizeAllocation
  <2>2. CASE l[1] = n
    <3>1. hold[l].status = "none"
      BY <2>2 DEF FinalizeAllocation, NoLinesBeforeRun
    <3> DEFINE ship == IF Ships(n, grant, SourceOf(l)[1]) THEN n ELSE NoShipment
    <3>2. hold'[l] = IF grant[SourceOf(l)] > 0
                     THEN [status |-> "active", qty |-> grant[SourceOf(l)],
                           ship |-> ship]
                     ELSE hold[l]
      BY <2>1, <2>2 DEF HoldAfterRun
    <3> HIDE DEF ship
    <3>3. CASE grant[SourceOf(l)] > 0
      <4>1. hold'[l].status = "active" /\ hold'[l].qty = grant[SourceOf(l)]
        BY <3>2, <3>3
      <4> QED BY <1>2, <2>2, <3>1, <4>1 DEF ActiveLines
    <3>4. CASE ~(grant[SourceOf(l)] > 0)
      <4>1. hold'[l] = hold[l] /\ grant[SourceOf(l)] = 0
        BY <1>2, <3>2, <3>4
      <4> QED BY <2>2, <3>1, <4>1 DEF ActiveLines
    <3> QED BY <3>3, <3>4
  <2>3. CASE l[1] # n
    <3> DEFINE ship == IF Ships(n, grant, SourceOf(l)[1]) THEN n ELSE NoShipment
    <3>1. hold'[l] = hold[l] \/ hold'[l] = [hold[l] EXCEPT !.ship = ship]
      BY <2>1, <2>3 DEF HoldAfterRun
    <3> HIDE DEF ship
    <3>2. hold'[l].status = hold[l].status /\ hold'[l].qty = hold[l].qty
      BY <1>2, <3>1 DEF HoldType
    <3> QED BY <1>2, <2>3, <3>2 DEF ActiveLines
  <2> QED BY <2>2, <2>3
<1>5. /\ key \in [Claim -> Line]
      /\ \A c, d \in Claim : key[c] = key[d] => c = d
      /\ \A c \in Claim : k[c] = h[key[c]]
  BY LineKeys DEF ProductOf, SourceOf
<1>6. ASSUME NEW l \in Line, h[l] > 0 PROVE \E c \in Claim : l = key[c]
  <2>1. l[1] = n
    BY <1>6
  <2> QED BY <2>1, LineKeys
<1> HIDE DEF f, g, h, k, key
<1>7. SumOf(f) = SumOf(g) + SumOf(h)
  BY <1>3, <1>4, FiniteKeys, SumAdd
<1>8. SumOf(h) = SumOf(k)
  BY <1>3, <1>5, <1>6, FiniteKeys, SumReindex
<1>9. SumOf(f) = LineHeld(ActiveLines, p)' /\ SumOf(g) = LineHeld(ActiveLines, p)
  BY Zenon DEF f, g, LineHeld
<1> QED BY <1>7, <1>8, <1>9 DEF k

\* The run returns the goods of lapsed offers and of accepted ones, and
\* reserves what it grants.
LEMMA RunBooks ==
    ASSUME TypeOK, TypeOK', ReservedIsPledged, NoLinesBeforeRun,
           NEW n \in Session, NEW grant \in Grants(n), FinalizeAllocation(n, grant)
    PROVE  ReservedIsPledged'
<1> SUFFICES ASSUME NEW p \in Product PROVE reserved'[p] = Pledged(p)'
  BY PledgedIsReserved DEF ReservedIsPledged, Pledged, ActiveLines
<1> DEFINE granted == SumOf([c \in Claim |-> IF c[2] = p THEN grant[c] ELSE 0])
           lapsed == Expiring(n)
           own == AcceptedOwn(n)
           ended == lapsed \cup own
<1>1. reserved'[p] = reserved[p] - OfferHeld(lapsed, p) - OfferHeld(own, p) + granted
  BY DEF FinalizeAllocation, ReservedAfterRun, ReservedAfterExpiry
<1>2. lapsed \cap own = {}
  BY DEF Expiring, AcceptedOwn
<1>3. \A o \in Offer : offer'[o].held = IF o \in ended THEN 0 ELSE offer[o].held
  <2>1. ASSUME NEW o \in Offer
        PROVE  offer'[o] = IF o \in lapsed THEN CloseOffer(offer[o], "expired")
                           ELSE IF o \in own THEN CloseOffer(offer[o], "accepted")
                           ELSE offer[o]
    BY DEF FinalizeAllocation
  <2>2. \A o \in Offer, status \in OfferStatus : CloseOffer(offer[o], status).held = 0
    BY DEF CloseOffer, TypeOK, OfferType
  <2>3. "expired" \in OfferStatus /\ "accepted" \in OfferStatus
    BY DEF OfferStatus
  <2> HIDE DEF lapsed, own
  <2> QED BY <2>1, <2>2, <2>3
<1>4. LineHeld(ActiveLines, p)' = LineHeld(ActiveLines, p) + granted
  BY LinesGranted
<1>5. granted \in Nat
  <2> DEFINE k == [c \in Claim |-> IF c[2] = p THEN grant[c] ELSE 0]
  <2>1. k \in [Claim -> Nat]
    BY ChoiceTypes
  <2> HIDE DEF k
  <2>2. SumOf(k) \in Nat
    BY <2>1, FiniteKeys, SumType
  <2> QED BY <2>2 DEF k
<1> HIDE DEF granted, lapsed, own
<1>6. OfferHeld(Offer, p) = OfferHeld(Offer, p)' + OfferHeld(ended, p)
  <2> HIDE DEF ended
  <2> QED BY <1>3, OffersReleased
<1>7. OfferHeld(ended, p) = OfferHeld(lapsed, p) + OfferHeld(own, p)
  BY <1>2, OffersDisjoint
<1> HIDE DEF ended
<1>8. /\ OfferHeld(Offer, p) \in Nat /\ OfferHeld(lapsed, p) \in Nat
      /\ OfferHeld(own, p) \in Nat /\ LineHeld(ActiveLines, p) \in Nat
      /\ OfferHeld(ended, p) \in Nat
  BY HeldTypes
<1>9. OfferHeld(Offer, p)' \in Nat
  BY HeldTypesNext DEF HeldNumbers
<1>10. reserved[p] = OfferHeld(Offer, p) + LineHeld(ActiveLines, p)
  BY PledgedIsReserved DEF Pledged
<1> QED BY <1>1, <1>4, <1>5, <1>6, <1>7, <1>8, <1>9, <1>10 DEF Pledged

LEMMA InitBooks == Init => ReservedIsPledged /\ NoOffersBeforeSnapshot
<1> SUFFICES ASSUME Init PROVE ReservedIsPledged /\ NoOffersBeforeSnapshot
  OBVIOUS
<1>1. NoOffersBeforeSnapshot
  BY DEF Init, NoOffersBeforeSnapshot, NoOffer
<1>2. ASSUME NEW p \in Product PROVE reserved[p] = Pledged(p)
  <2> DEFINE f == [o \in Offer |->
                     IF o \in Offer /\ ProductOf(o) = p THEN offer[o].held ELSE 0]
             g == [l \in Line |->
                     IF l \in ActiveLines /\ ProductOf(l) = p THEN hold[l].qty ELSE 0]
  <2>1. f \in [Offer -> Nat] /\ \A o \in Offer : f[o] = 0
    BY DEF Init, NoOffer
  <2>2. g \in [Line -> Nat] /\ \A l \in Line : g[l] = 0
    BY DEF Init, NoHold
  <2> HIDE DEF f, g
  <2>3. SumOf(f) = 0 /\ SumOf(g) = 0
    BY <2>1, <2>2, SumZero
  <2>4. OfferHeld(Offer, p) = 0 /\ LineHeld(ActiveLines, p) = 0
    BY <2>3, Zenon DEF f, g, OfferHeld, LineHeld
  <2>5. reserved[p] = 0
    BY DEF Init
  <2> QED BY <2>4, <2>5 DEF Pledged
<1> QED BY <1>1, <1>2, PledgedIsReserved

BooksInv ==
    /\ TypeOK /\ NoLinesBeforeRun /\ NoOffersBeforeSnapshot
    /\ ReservedIsPledged

LEMMA NextBooks == BooksInv /\ [Next]_vars => BooksInv'
<1> SUFFICES ASSUME BooksInv, [Next]_vars PROVE BooksInv'
  OBVIOUS
<1> USE DEF BooksInv
<1>1. TypeOK' /\ NoLinesBeforeRun' /\ NoOffersBeforeSnapshot'
  BY NextTypes, NextLines, NextOffers
<1>2. ASSUME Tick \/ StartTick
      PROVE  ReservedIsPledged'
  BY <1>2, UntouchedBooks DEF Tick, StartTick, warehouse, results
<1>3. ASSUME \E p \in Product : IncreaseStock(p) \/ DecreaseStock(p)
      PROVE  ReservedIsPledged'
  BY <1>3, UntouchedBooks DEF IncreaseStock, DecreaseStock, results
<1>4. ASSUME \E n \in Session : CancelSession(n)
      PROVE  ReservedIsPledged'
  BY <1>4, UntouchedBooks DEF CancelSession, warehouse, results
<1>5. ASSUME \E n \in Session, s \in Store, items \in Items : SubmitOrder(n, s, items)
      PROVE  ReservedIsPledged'
  BY <1>5, UntouchedBooks DEF SubmitOrder, warehouse, results
<1>6. ASSUME Snapshots
      PROVE  ReservedIsPledged'
  BY <1>1, <1>6, SnapshotBooks DEF Snapshots
<1>7. ASSUME Runs
      PROVE  ReservedIsPledged'
  BY <1>1, <1>7, RunBooks DEF Runs
<1>8. ASSUME \E o \in Offer : AcceptOffer(o) \/ DeclineOffer(o) \/ AnswerLate(o)
      PROVE  ReservedIsPledged'
  BY <1>1, <1>8, OfferAnswerBooks
<1>9. ASSUME \E r \in Result : AcceptResult(r) \/ WaitlistResult(r)
      PROVE  ReservedIsPledged'
  BY <1>1, <1>9, ResultAnswerBooks
<1>10. ASSUME \E t \in Ticket : CancelTicket(t)
      PROVE  ReservedIsPledged'
  BY <1>1, <1>10, CancelBooks
<1>11. ASSUME UNCHANGED vars
      PROVE  ReservedIsPledged'
  BY <1>11, UntouchedBooks DEF vars, warehouse, results
<1>12. ReservedIsPledged'
  BY <1>2, <1>3, <1>4, <1>5, <1>6, <1>7, <1>8, <1>9, <1>10, <1>11 DEF Next, Answers
<1> QED BY <1>1, <1>12

\* Through any interleaving of orders, runs, answers and cancellations the
\* reserved quantity of a product is exactly what is held for someone: no
\* hold is released twice or forgotten, and none is converted into a grant
\* without the difference being booked.
THEOREM BooksBalance == Spec => []ReservedIsPledged
<1>1. Init => BooksInv
  BY InitTypes, InitLines, InitBooks DEF BooksInv
<1>2. BooksInv => ReservedIsPledged
  BY DEF BooksInv
<1> QED BY <1>1, <1>2, NextBooks, PTL DEF Spec

-----------------------------------------------------------------------------
(* What the run asks for and what it grants.                               *)

\* An accepted offer of the run's session still has its ticket, and the
\* expiry that precedes the allocation leaves that ticket alone.
LEMMA AcceptedBacked ==
    ASSUME TypeOK, LiveOfferBacked, NEW n \in Session, session[n] = "open",
           NEW o \in AcceptedOwn(n)
    PROVE  /\ o \in Offer /\ o[2] \in Ticket
           /\ TicketsAfterExpiry(n)[o[2]] = ticket[o[2]]
           /\ ticket[o[2]].status = "active"
           /\ offer[o].qty \in Nat /\ offer[o].qty <= ticket[o[2]].remaining
           /\ offer[o].held = offer[o].qty /\ offer[o].qty > 0
<1>1. o \in Offer /\ o[1] = n /\ offer[o].status = "accepted" /\ o[2] \in Ticket
  BY LineKeys DEF AcceptedOwn
<1>2. Live(o)
  BY <1>1 DEF Live
<1>3. /\ ticket[o[2]].status = "active" /\ LiveFor(o[2]) = {o}
      /\ offer[o].qty <= ticket[o[2]].remaining
      /\ offer[o].held = offer[o].qty /\ offer[o].qty > 0
  BY <1>1, <1>2 DEF LiveOfferBacked
<1>4. ~LapsedTicket(n, o[2])
  <2>1. SUFFICES ASSUME NEW x \in Expiring(n), x[2] = o[2] PROVE FALSE
    BY DEF LapsedTicket
  <2>2. x \in LiveFor(o[2]) /\ offer[x].status = "offered"
    BY <2>1 DEF Expiring, LiveFor, Live
  <2> QED BY <1>1, <1>3, <2>2
<1>5. offer[o].qty \in Nat
  BY <1>1 DEF TypeOK, OfferType
<1> QED BY <1>1, <1>3, <1>4, <1>5 DEF TicketsAfterExpiry

LEMMA WantType ==
    ASSUME TypeOK, NEW n \in Session
    PROVE  Want(n) \in [Claim -> Nat]
<1> SUFFICES ASSUME NEW c \in Claim PROVE Want(n)[c] \in Nat
  BY DEF Want
<1>1. ordered[<<n, PairOf(c)>>] \in Nat
  BY ClaimKeys DEF TypeOK
<1>2. <<n, c>> \in AcceptedOwn(n) => offer[<<n, c>>].qty \in Nat
  BY DEF AcceptedOwn, TypeOK, OfferType
<1> QED BY <1>1, <1>2 DEF Want

\* The claims on one product.
ClaimsOn(p) == {c \in Claim : c[2] = p}
WantOn(n, p) == [c \in ClaimsOn(p) |-> Want(n)[c]]
GivenOn(grant, p) == [c \in ClaimsOn(p) |-> grant[c]]

LEMMA FairOnProduct ==
    ASSUME TypeOK, NEW n \in Session, NEW grant \in Grants(n),
           IsAllocation(n, grant), NEW p \in Product
    PROVE  /\ ClaimsOn(p) \subseteq Claim /\ IsFiniteSet(ClaimsOn(p))
           /\ WantOn(n, p) \in [ClaimsOn(p) -> Nat]
           /\ GivenOn(grant, p) \in [ClaimsOn(p) -> Nat]
           /\ \A c \in ClaimsOn(p) : grant[c] <= Want(n)[c]
           /\ Exhaustive(WantOn(n, p), Allocatable(n, p), GivenOn(grant, p))
           /\ PriorityFirst(WantOn(n, p), [c \in ClaimsOn(p) |-> TierOf(c)],
                            GivenOn(grant, p))
<1>1. ClaimsOn(p) \subseteq Claim
  BY DEF ClaimsOn
<1>2. IsFiniteSet(ClaimsOn(p))
  BY <1>1, FiniteKeys, FS_Subset, Zenon
<1>3. /\ WantOn(n, p) \in [ClaimsOn(p) -> Nat]
      /\ GivenOn(grant, p) \in [ClaimsOn(p) -> Nat]
  BY <1>1, WantType, ChoiceTypes DEF WantOn, GivenOn
<1>4. IsFairShare(WantOn(n, p), [c \in ClaimsOn(p) |-> TierOf(c)],
                  Allocatable(n, p), GivenOn(grant, p))
  BY DEF IsAllocation, WantOn, GivenOn, ClaimsOn
<1>5. ASSUME NEW c \in ClaimsOn(p) PROVE grant[c] <= Want(n)[c]
  <2>1. GivenOn(grant, p)[c] \in 0 .. WantOn(n, p)[c]
    BY <1>4 DEF IsFairShare, Bounded, WantOn
  <2>2. Want(n)[c] \in Nat
    BY <1>1, WantType
  <2> QED BY <2>1, <2>2 DEF GivenOn, WantOn
<1> QED BY <1>1, <1>2, <1>3, <1>4, <1>5 DEF IsFairShare

\* The goods of a product that the run grants.
GrantOf(grant, p) == SumOf([c \in Claim |-> IF c[2] = p THEN grant[c] ELSE 0])

LEMMA GrantOfProduct ==
    ASSUME NEW n \in Session, NEW grant \in Grants(n), NEW p
    PROVE  GrantOf(grant, p) = SumOf(GivenOn(grant, p)) /\ GrantOf(grant, p) \in Nat
<1> DEFINE f == [c \in Claim |-> IF c[2] = p THEN grant[c] ELSE 0]
           g == GivenOn(grant, p)
<1>1. grant \in [Claim -> Nat]
  BY ChoiceTypes
<1>2. /\ f \in [Claim -> Nat] /\ g \in [ClaimsOn(p) -> Nat]
      /\ ClaimsOn(p) \subseteq Claim
      /\ \A c \in ClaimsOn(p) : g[c] = f[c]
      /\ \A c \in Claim : c \notin ClaimsOn(p) => f[c] = 0
  BY <1>1 DEF GivenOn, ClaimsOn
<1> HIDE DEF f, g
<1>3. SumOf(f) = SumOf(g)
  BY <1>2, FiniteKeys, SumExtend
<1>4. SumOf(f) \in Nat
  BY <1>2, FiniteKeys, SumType, Zenon
<1> QED BY <1>3, <1>4 DEF f, g, GrantOf

\* Accepted offers hold no more than is on hand after the expiry.
LEMMA HeldFits ==
    ASSUME TypeOK, ReservedIsPledged, NEW n \in Session, NEW p \in Product
    PROVE  /\ reserved[p] \in Nat /\ onHand[p] \in Nat
           /\ OfferHeld(Expiring(n), p) \in Nat /\ OfferHeld(AcceptedOwn(n), p) \in Nat
           /\ reserved[p] <= onHand[p]
           /\ OfferHeld(Expiring(n), p) + OfferHeld(AcceptedOwn(n), p) <= reserved[p]
<1> DEFINE lapsed == Expiring(n)
           own == AcceptedOwn(n)
           f == [o \in Offer |-> IF o \in lapsed \cup own /\ ProductOf(o) = p
                                 THEN offer[o].held ELSE 0]
           g == [o \in Offer |-> IF o \in Offer /\ ProductOf(o) = p
                                 THEN offer[o].held ELSE 0]
<1>1. lapsed \cap own = {}
  BY DEF Expiring, AcceptedOwn
<1>2. \A o \in Offer : offer[o].held \in Nat
  BY DEF TypeOK, OfferType
<1>3. /\ f \in [Offer -> Nat] /\ g \in [Offer -> Nat]
      /\ \A o \in Offer : f[o] <= g[o]
  BY <1>2
<1>4. OfferHeld(lapsed \cup own, p) = OfferHeld(lapsed, p) + OfferHeld(own, p)
  BY <1>1, OffersDisjoint
<1> HIDE DEF f, g
<1>5. SumOf(f) <= SumOf(g)
  BY <1>3, FiniteKeys, SumMonotone
<1>6. SumOf(f) = OfferHeld(lapsed \cup own, p) /\ SumOf(g) = OfferHeld(Offer, p)
  BY Zenon DEF f, g, OfferHeld
<1> HIDE DEF lapsed, own
<1>7. /\ OfferHeld(lapsed, p) \in Nat /\ OfferHeld(own, p) \in Nat
      /\ OfferHeld(Offer, p) \in Nat /\ LineHeld(ActiveLines, p) \in Nat
  BY HeldTypes
<1>8. reserved[p] = OfferHeld(Offer, p) + LineHeld(ActiveLines, p)
  BY PledgedIsReserved DEF Pledged
<1>9. reserved[p] \in Nat /\ onHand[p] \in Nat /\ reserved[p] <= onHand[p]
  BY DEF TypeOK, Balanced
<1>10. OfferHeld(lapsed, p) + OfferHeld(own, p) <= reserved[p]
  BY <1>4, <1>5, <1>6, <1>7, <1>8
<1> QED BY <1>7, <1>9, <1>10 DEF lapsed, own

-----------------------------------------------------------------------------
(* A due run commits.                                                      *)

\* What a run leaves reserved of a product is covered by what is on hand.
LEMMA RunFitsStock ==
    ASSUME TypeOK, ReservedIsPledged, NEW n \in Session, NEW grant \in Grants(n),
           IsAllocation(n, grant), NEW p \in Product
    PROVE  ReservedAfterRun(n, grant, p) \in 0 .. onHand[p]
<1> DEFINE lapsed == OfferHeld(Expiring(n), p)
           own == OfferHeld(AcceptedOwn(n), p)
           granted == GrantOf(grant, p)
           free == Allocatable(n, p)
           wanted == SumOf(WantOn(n, p))
<1>1. /\ reserved[p] \in Nat /\ onHand[p] \in Nat /\ lapsed \in Nat /\ own \in Nat
      /\ reserved[p] <= onHand[p] /\ lapsed + own <= reserved[p]
  BY HeldFits
<1>2. granted \in Nat /\ granted = SumOf(GivenOn(grant, p))
  BY GrantOfProduct
<1>3. wanted \in Nat /\ SumOf(GivenOn(grant, p)) = Lesser(free, wanted)
  BY FairOnProduct, SumType DEF Exhaustive
<1>4. /\ snapshot[n][p] \in Nat
      /\ free = Lesser(snapshot[n][p],
                       Greater(0, onHand[p] - (reserved[p] - lapsed)) + own)
  BY DEF Allocatable, ReservedAfterExpiry, TypeOK
<1>5. ReservedAfterRun(n, grant, p) = (reserved[p] - lapsed) - own + granted
  BY DEF ReservedAfterRun, ReservedAfterExpiry, GrantOf
<1> HIDE DEF lapsed, own, granted, free, wanted
<1>6. free <= onHand[p] - (reserved[p] - lapsed) + own /\ free \in Int
  BY <1>1, <1>4 DEF Lesser, Greater
<1>7. granted <= free
  BY <1>2, <1>3, <1>6 DEF Lesser
<1> QED BY <1>1, <1>2, <1>5, <1>6, <1>7

\* Every ticket satisfies its constraints after the run: it gives up no more
\* than its accepted offer, which it still backs, and receives something.
LEMMA RunKeepsRows ==
    ASSUME TypeOK, LiveOfferBacked, TicketInv, NEW n \in Session,
           session[n] = "open", NEW grant \in Grants(n), IsAllocation(n, grant),
           NEW t \in Ticket
    PROVE  ValidTicket(TicketsAfterRun(n, grant)[t])
<1> DEFINE old == TicketsAfterExpiry(n)[t]
           left == TicketsAfterGrants(n, grant)[t]
           q == grant[t]
           lack == Shortfall(n, grant, PairOf(t))
<1>1. /\ t \in Claim /\ ~IsOrdinary(t) /\ t[2] \in Product /\ PairOf(t) \in Pair
      /\ t \in ClaimsOn(t[2])
  BY ClaimKeys DEF ClaimsOn
<1>2. q \in Nat /\ q <= Want(n)[t]
  BY <1>1, ChoiceTypes, FairOnProduct
<1>3. ticket[t] \in TicketRow /\ ValidTicket(ticket[t])
  BY DEF TypeOK, TicketType, TicketRow, TicketInv, AllTicketsValid
<1>4. old \in TicketRow /\ ValidTicket(old)
  <2>1. CloseTicket(ticket[t]) \in TicketRow /\ ValidTicket(CloseTicket(ticket[t]))
    BY <1>3 DEF CloseTicket, TicketRow, TicketStatus, ValidTicket
  <2>2. old = CloseTicket(ticket[t]) \/ old = ticket[t]
    BY DEF TicketsAfterExpiry
  <2> HIDE DEF old
  <2> QED BY <1>3, <2>1, <2>2
<1>5. q > 0 => q <= old.remaining
  <2>1. SUFFICES ASSUME q > 0 PROVE q <= old.remaining
    OBVIOUS
  <2> DEFINE o == <<n, t>>
  <2>2. Want(n)[t] = IF o \in AcceptedOwn(n) THEN offer[o].qty ELSE 0
    BY <1>1 DEF Want
  <2>3. o \in AcceptedOwn(n) /\ q <= offer[o].qty
    <3> HIDE DEF q, o
    <3> QED BY <1>2, <2>1, <2>2
  <2>4. /\ TicketsAfterExpiry(n)[o[2]] = ticket[o[2]]
        /\ offer[o].qty \in Nat /\ offer[o].qty <= ticket[o[2]].remaining
    BY <2>3, AcceptedBacked
  <2>5. o[2] = t
    OBVIOUS
  <2>6. old = ticket[t] /\ offer[o].qty <= ticket[t].remaining
    BY <2>4, <2>5
  <2>7. ticket[t].remaining \in Int
    BY <1>3 DEF TicketRow
  <2> HIDE DEF q, o, old
  <2> QED BY <1>2, <2>3, <2>4, <2>6, <2>7
<1>6. left = Fulfil(old, q)
  BY DEF TicketsAfterGrants
<1>7. lack \in Int
  <2>1. <<n, PairOf(t)>> \in Session \X Pair
    BY <1>1
  <2>2. <<PairOf(t)[1], PairOf(t)[2], 0>> \in Claim
    BY <1>1, PipelineAssumption DEF Claim, Pair
  <2> QED BY <2>1, <2>2, ChoiceTypes DEF Shortfall, TypeOK
<1>8. TicketsAfterRun(n, grant)[t] =
         IF lack > 0 /\ IsReceiver(TicketsAfterGrants(n, grant), t)
         THEN Receive(left, lack, 0) ELSE left
  BY DEF TicketsAfterRun
<1> HIDE DEF old, left, q, lack
<1>9. left \in TicketRow /\ ValidTicket(left)
  <2>1. left \in TicketRow
    BY <1>2, <1>4, <1>6, RowOperations
  <2>2. CASE q = 0
    <3>1. 0 \in Int
      OBVIOUS
    <3>2. left = old
      BY <1>4, <1>6, <2>2, <3>1, RowEffects, Zenon
    <3> QED BY <1>4, <2>1, <3>2
  <2>3. CASE q > 0
    <3>1. /\ left.remaining = old.remaining - q
          /\ left.fulfilled = old.fulfilled + q /\ left.original = old.original
          /\ left.status = "active" => left.remaining # 0
      BY <1>2, <1>4, <1>6, <2>3 DEF Fulfil, TicketRow
    <3>2. /\ old.remaining \in Int /\ old.fulfilled \in Int /\ old.original \in Int
      BY <1>4 DEF TicketRow
    <3> QED BY <1>2, <1>4, <1>5, <2>1, <2>3, <3>1, <3>2 DEF ValidTicket
  <2> QED BY <1>2, <2>2, <2>3
<1>10. lack > 0 => ValidTicket(Receive(left, lack, 0))
  <2>1. SUFFICES ASSUME lack > 0 PROVE ValidTicket(Receive(left, lack, 0))
    OBVIOUS
  <2>2. CASE left.status = "active"
    BY <1>7, <1>9, <2>1, <2>2 DEF Receive, ValidTicket, TicketRow
  <2>3. CASE left.status # "active"
    BY <1>7, <2>1, <2>3 DEF Receive, NewTicket, ValidTicket
  <2> QED BY <2>2, <2>3
<1> QED BY <1>8, <1>9, <1>10

LEMMA CommitsWhenDue ==
    TypeOK /\ LiveOfferBacked /\ ReservedIsPledged /\ TicketInv => DueRunCommits
<1> SUFFICES ASSUME TypeOK, LiveOfferBacked, ReservedIsPledged, TicketInv,
                    NEW n \in Session, session[n] = "open",
                    NEW grant \in Grants(n), IsAllocation(n, grant)
             PROVE  RunCommits(n, grant)
  BY DEF DueRunCommits
<1>1. \A o \in AcceptedOwn(n) :
         /\ TicketsAfterExpiry(n)[o[2]].status = "active"
         /\ offer[o].qty <= TicketsAfterExpiry(n)[o[2]].remaining
  BY AcceptedBacked
<1>2. \A p \in Product : ReservedAfterRun(n, grant, p) \in 0 .. onHand[p]
  BY RunFitsStock
<1>3. \A t \in Ticket : ValidTicket(TicketsAfterRun(n, grant)[t])
  BY RunKeepsRows
<1> QED BY <1>1, <1>2, <1>3 DEF RunCommits

\* A due run never throws, whatever the stores, the staff and the stock did
\* since its snapshot.
THEOREM DueRunsCommit == Spec => []DueRunCommits
<1> DEFINE Facts == BooksInv /\ LiveOfferBacked /\ TicketInv
<1>1. Init => Facts
  BY InitTypes, InitLines, InitBooks, InitClaims, InitTickets DEF BooksInv
<1>2. Facts /\ [Next]_vars => Facts'
  <2>1. BooksInv /\ [Next]_vars => BooksInv'
    BY NextBooks
  <2>2. BooksInv => TypeOK
    BY DEF BooksInv
  <2> QED BY <2>1, <2>2, NextClaims, NextTickets
<1>3. Facts => DueRunCommits
  BY CommitsWhenDue DEF BooksInv
<1> HIDE DEF Facts
<1> QED BY <1>1, <1>2, <1>3, PTL DEF Spec

-----------------------------------------------------------------------------
(* A snapshot covers the offers made from it.                              *)

OffersOf(n) == {o \in Offer : o[1] = n}

SnapshotCoversOffers ==
    \A n \in Session, p \in Product :
        taken[n] => OfferHeld(OffersOf(n), p) <= snapshot[n][p]

CoverNumbers == \A n, p : OfferHeld(OffersOf(n), p) \in Nat

LEMMA CoverTypesNext == TypeOK' => CoverNumbers'
<1>1. TypeOK => CoverNumbers
  BY HeldTypes DEF CoverNumbers
<1> QED BY <1>1, PTL

\* Offers that give goods back hold less.
LEMMA HeldShrinks ==
    ASSUME TypeOK, TypeOK', NEW n, NEW p,
           \A o \in OffersOf(n) : offer'[o].held <= offer[o].held
    PROVE  OfferHeld(OffersOf(n), p)' <= OfferHeld(OffersOf(n), p)
<1> DEFINE f == [o \in Offer |-> IF o \in OffersOf(n) /\ ProductOf(o) = p
                                 THEN offer'[o].held ELSE 0]
           g == [o \in Offer |-> IF o \in OffersOf(n) /\ ProductOf(o) = p
                                 THEN offer[o].held ELSE 0]
<1>1. \A o \in Offer : offer[o].held \in Nat /\ offer'[o].held \in Nat
  BY DEF TypeOK, OfferType
<1>2. /\ f \in [Offer -> Nat] /\ g \in [Offer -> Nat]
      /\ \A o \in Offer : f[o] <= g[o]
  BY <1>1
<1>3. SumOf(f) = OfferHeld(OffersOf(n), p)' /\ SumOf(g) = OfferHeld(OffersOf(n), p)
  BY Zenon DEF f, g, OfferHeld, OffersOf
<1> HIDE DEF f, g
<1>4. SumOf(f) <= SumOf(g)
  BY <1>2, FiniteKeys, SumMonotone
<1> QED BY <1>3, <1>4

LEMMA CoverKept ==
    ASSUME TypeOK, TypeOK', SnapshotCoversOffers, NEW n \in Session,
           taken'[n] => taken[n] /\ snapshot'[n] = snapshot[n],
           \A o \in OffersOf(n) : offer'[o].held <= offer[o].held
    PROVE  \A p \in Product :
              taken'[n] => OfferHeld(OffersOf(n), p)' <= snapshot'[n][p]
<1> SUFFICES ASSUME NEW p \in Product, taken'[n]
             PROVE  OfferHeld(OffersOf(n), p)' <= snapshot'[n][p]
  OBVIOUS
<1>1. OfferHeld(OffersOf(n), p) <= snapshot[n][p] /\ snapshot'[n] = snapshot[n]
  BY DEF SnapshotCoversOffers
<1>2. OfferHeld(OffersOf(n), p)' <= OfferHeld(OffersOf(n), p)
  BY HeldShrinks
<1>3. OfferHeld(OffersOf(n), p) \in Nat /\ snapshot[n][p] \in Nat
  BY HeldTypes DEF TypeOK
<1>4. OfferHeld(OffersOf(n), p)' \in Nat
  BY CoverTypesNext DEF CoverNumbers, OffersOf
<1> QED BY <1>1, <1>2, <1>3, <1>4

\* The offers of a new snapshot share out no more than it counted.
LEMMA SnapshotCovers ==
    ASSUME TypeOK, TypeOK', NoOffersBeforeSnapshot, NEW n \in Session,
           NEW plan \in OfferPlans(n), CaptureSnapshot(n, plan), NEW p \in Product
    PROVE  OfferHeld(OffersOf(n), p)' <= snapshot'[n][p]
<1> DEFINE tickets == {t \in Offerable(n) : t[2] = p}
           f == [o \in Offer |-> IF o \in OffersOf(n) /\ ProductOf(o) = p
                                 THEN offer'[o].held ELSE 0]
           g == [t \in tickets |-> plan[t]]
           want == [t \in tickets |-> ticket[t].remaining]
           key == [t \in tickets |-> <<n, t>>]
           free == Lesser(Historical(n, p), Available(p))
<1>1. plan \in [Ticket -> Nat]
  BY ChoiceTypes
<1>2. tickets \subseteq Ticket /\ tickets \subseteq Offerable(n)
  BY DEF Offerable
<1>3. IsFiniteSet(tickets)
  BY <1>2, FiniteKeys, FS_Subset, Zenon
<1>4. g \in [tickets -> Nat] /\ want \in [tickets -> Nat]
  BY <1>1, <1>2 DEF TypeOK, TicketType
<1>5. SumOf(g) = Lesser(free, SumOf(want))
  BY DEF CaptureSnapshot, IsOfferPlan, IsFairShare, Exhaustive
<1>6. /\ snapshot'[n][p] = Historical(n, p)
      /\ Historical(n, p) \in Nat /\ Available(p) \in Nat
  BY AvailableType DEF CaptureSnapshot, TypeOK, Historical
<1>7. ASSUME NEW o \in Offer, o \in OffersOf(n)
      PROVE  offer'[o].held = IF PlannedOffer(n, plan, o) THEN plan[o[2]] ELSE 0
  <2> DEFINE made(x) == [status |-> "offered", qty |-> plan[x[2]],
                         eligible |-> ticket[x[2]].remaining, held |-> plan[x[2]]]
  <2>1. offer' = [x \in Offer |-> IF PlannedOffer(n, plan, x) THEN made(x)
                                  ELSE offer[x]]
    BY DEF CaptureSnapshot
  <2>2. made(o).held = plan[o[2]]
    OBVIOUS
  <2>3. offer[o].held = 0
    BY <1>7 DEF OffersOf, NoOffersBeforeSnapshot, CaptureSnapshot
  <2> HIDE DEF made
  <2> QED BY <2>1, <2>2, <2>3
<1>8. f \in [Offer -> Nat]
  BY DEF TypeOK, OfferType
<1>9. /\ key \in [tickets -> Offer]
      /\ \A t, u \in tickets : key[t] = key[u] => t = u
  BY <1>2, LineKeys
<1>10. ASSUME NEW t \in tickets PROVE g[t] = f[key[t]]
  <2> DEFINE o == <<n, t>>
  <2>1. o \in Offer /\ o \in OffersOf(n) /\ o[1] = n /\ o[2] = t /\ ProductOf(o) = p
    BY <1>2, LineKeys DEF OffersOf, ProductOf
  <2>2. f[o] = IF PlannedOffer(n, plan, o) THEN plan[t] ELSE 0
    BY <1>7, <2>1
  <2>3. PlannedOffer(n, plan, o) <=> plan[t] > 0
    BY <1>2, <2>1 DEF PlannedOffer
  <2>4. plan[t] \in Nat
    BY <1>1, <1>2
  <2>5. f[o] = plan[t]
    BY <2>2, <2>3, <2>4
  <2> QED BY <2>5
<1>11. ASSUME NEW o \in Offer, f[o] > 0 PROVE \E t \in tickets : o = key[t]
  <2>1. o[1] = n /\ ProductOf(o) = p /\ PlannedOffer(n, plan, o)
    BY <1>7, <1>11 DEF OffersOf
  <2>2. o[2] \in tickets /\ o = <<n, o[2]>>
    BY <2>1, LineKeys DEF PlannedOffer, ProductOf
  <2> QED BY <2>2
<1>12. SumOf(f) = OfferHeld(OffersOf(n), p)'
  BY Zenon DEF f, OfferHeld, OffersOf
<1> HIDE DEF tickets, f, g, want, key
<1>13. SumOf(f) = SumOf(g)
  BY <1>3, <1>4, <1>8, <1>9, <1>10, <1>11, FiniteKeys, SumReindex
<1>14. SumOf(want) \in Nat
  BY <1>3, <1>4, SumType, Zenon
<1>15. free \in Nat /\ free <= Historical(n, p)
  BY <1>6 DEF Lesser
<1> HIDE DEF free
<1>16. SumOf(g) <= Historical(n, p)
  BY <1>5, <1>6, <1>14, <1>15 DEF Lesser
<1> QED BY <1>6, <1>12, <1>13, <1>16

LEMMA NextCovers ==
    /\ TypeOK /\ NoOffersBeforeSnapshot /\ SnapshotCoversOffers
    /\ [Next]_vars
    => SnapshotCoversOffers'
<1> SUFFICES ASSUME TypeOK, NoOffersBeforeSnapshot, SnapshotCoversOffers, [Next]_vars
             PROVE  SnapshotCoversOffers'
  OBVIOUS
<1> USE DEF sessions, results
<1>1. TypeOK'
  BY NextTypes
<1>2. \A o \in Offer : offer[o].held \in Nat
  BY DEF TypeOK, OfferType
<1>3. ASSUME taken' = taken, snapshot' = snapshot,
             \A o \in Offer : offer'[o].held <= offer[o].held
      PROVE  SnapshotCoversOffers'
  <2>1. ASSUME NEW n \in Session
        PROVE  \A p \in Product :
                  taken'[n] => OfferHeld(OffersOf(n), p)' <= snapshot'[n][p]
    BY <1>1, <1>3, CoverKept DEF OffersOf
  <2> QED BY <2>1 DEF SnapshotCoversOffers, OffersOf
<1>4. CASE UNCHANGED <<taken, snapshot, offer>>
  BY <1>2, <1>3, <1>4
<1>5. \A o \in Offer, status \in OfferStatus : CloseOffer(offer[o], status).held = 0
  BY DEF CloseOffer, TypeOK, OfferType
<1>6. {"declined", "expired", "accepted", "cancelled"} \subseteq OfferStatus
  BY DEF OfferStatus
<1>7. CASE Tick \/ StartTick \/ \E p \in Product : IncreaseStock(p) \/ DecreaseStock(p)
  BY <1>4, <1>7 DEF Tick, StartTick, IncreaseStock, DecreaseStock
<1>8. CASE \/ \E n \in Session : CancelSession(n)
           \/ \E n \in Session, s \in Store, items \in Items : SubmitOrder(n, s, items)
  BY <1>4, <1>8 DEF CancelSession, SubmitOrder
<1>9. ASSUME NEW n \in Session, NEW plan \in OfferPlans(n), CaptureSnapshot(n, plan)
      PROVE  SnapshotCoversOffers'
  <2>1. ASSUME NEW m \in Session, m # n
        PROVE  \A p \in Product :
                  taken'[m] => OfferHeld(OffersOf(m), p)' <= snapshot'[m][p]
    <3>1. taken'[m] = taken[m] /\ snapshot'[m] = snapshot[m]
      BY <1>9, <2>1 DEF CaptureSnapshot, TypeOK
    <3>2. \A o \in OffersOf(m) : offer'[o].held <= offer[o].held
      <4>1. \A o \in OffersOf(m) : offer'[o] = offer[o] /\ o \in Offer
        BY <1>9, <2>1 DEF CaptureSnapshot, PlannedOffer, OffersOf
      <4> QED BY <1>2, <4>1
    <3> QED BY <1>1, <3>1, <3>2, CoverKept
  <2>2. \A p \in Product : OfferHeld(OffersOf(n), p)' <= snapshot'[n][p]
    BY <1>1, <1>9, SnapshotCovers
  <2> QED BY <2>1, <2>2 DEF SnapshotCoversOffers, OffersOf
<1>10. ASSUME NEW n \in Session, NEW grant \in Grants(n), FinalizeAllocation(n, grant)
       PROVE  SnapshotCoversOffers'
  <2>1. \A o \in Offer : offer'[o].held <= offer[o].held
    BY <1>2, <1>5, <1>6, <1>10 DEF FinalizeAllocation
  <2> QED BY <1>3, <1>10, <2>1 DEF FinalizeAllocation
<1>11. ASSUME NEW o \in Offer, AcceptOffer(o) PROVE SnapshotCoversOffers'
  <2>1. \A x \in Offer : offer'[x].held = offer[x].held
    BY <1>11 DEF AcceptOffer, TypeOK, OfferType
  <2> QED BY <1>2, <1>3, <1>11, <2>1 DEF AcceptOffer
<1>12. ASSUME NEW o \in Offer, DeclineOffer(o) \/ AnswerLate(o)
       PROVE  SnapshotCoversOffers'
  <2>1. PICK status \in OfferStatus : EndOffer(o, status)
    BY <1>6, <1>12 DEF DeclineOffer, AnswerLate
  <2>2. \A x \in Offer : offer'[x] = IF x = o THEN CloseOffer(offer[x], status)
                                     ELSE offer[x]
    BY <2>1 DEF EndOffer, TypeOK
  <2>3. \A x \in Offer : offer'[x].held <= offer[x].held
    BY <1>2, <1>5, <2>2
  <2> QED BY <1>3, <2>1, <2>3 DEF EndOffer
<1>13. CASE \E r \in Result : AcceptResult(r) \/ WaitlistResult(r)
  BY <1>4, <1>13 DEF AcceptResult, WaitlistResult
<1>14. ASSUME NEW t \in Ticket, CancelTicket(t) PROVE SnapshotCoversOffers'
  <2>1. \A o \in Offer : offer'[o].held <= offer[o].held
    <3>1. \A o \in Offer :
             \/ offer'[o] = offer[o]
             \/ offer'[o] = CloseOffer(offer[o], "cancelled")
      BY <1>14 DEF CancelTicket
    <3> QED BY <1>2, <1>5, <1>6, <3>1
  <2> QED BY <1>3, <1>14, <2>1 DEF CancelTicket
<1>15. CASE UNCHANGED vars
  BY <1>4, <1>15 DEF vars
<1> QED
  BY <1>7, <1>8, <1>9, <1>10, <1>11, <1>12, <1>13, <1>14, <1>15
     DEF Next, Answers, Snapshots, Runs

LEMMA InitCovers == Init => SnapshotCoversOffers
BY DEF Init, SnapshotCoversOffers

-----------------------------------------------------------------------------
(* An accepted offer is honoured.                                          *)

\* What accepted offers hold of a product is what their claims ask for.
LEMMA AcceptedWant ==
    ASSUME TypeOK, LiveOfferBacked, NEW n \in Session, session[n] = "open",
           NEW p \in Product
    PROVE  SumOf([c \in ClaimsOn(p) |-> IF TierOf(c) = 1 THEN Want(n)[c] ELSE 0])
              = OfferHeld(AcceptedOwn(n), p)
<1> DEFINE first == [c \in ClaimsOn(p) |-> IF TierOf(c) = 1 THEN Want(n)[c] ELSE 0]
           f == [l \in Line |-> IF l \in AcceptedOwn(n) /\ ProductOf(l) = p
                                THEN offer[l].held ELSE 0]
           g == [o \in Offer |-> IF o \in AcceptedOwn(n) /\ ProductOf(o) = p
                                 THEN offer[o].held ELSE 0]
           key == [c \in ClaimsOn(p) |-> <<n, c>>]
<1>1. ClaimsOn(p) \subseteq Claim /\ IsFiniteSet(ClaimsOn(p))
  <2>1. ClaimsOn(p) \subseteq Claim
    BY DEF ClaimsOn
  <2> QED BY <2>1, FiniteKeys, FS_Subset, Zenon
<1>2. first \in [ClaimsOn(p) -> Nat]
  BY <1>1, WantType
<1>3. \A o \in Offer : offer[o].held \in Nat
  BY DEF TypeOK, OfferType
<1>4. AcceptedOwn(n) \subseteq Offer /\ Offer \subseteq Line
  BY LineKeys DEF AcceptedOwn
<1>5. /\ f \in [Line -> Nat] /\ g \in [Offer -> Nat]
      /\ \A o \in Offer : g[o] = f[o]
      /\ \A l \in Line : l \notin Offer => f[l] = 0
  BY <1>3, <1>4
<1>6. /\ key \in [ClaimsOn(p) -> Line]
      /\ \A c, d \in ClaimsOn(p) : key[c] = key[d] => c = d
  BY <1>1, LineKeys
<1>7. ASSUME NEW c \in ClaimsOn(p) PROVE first[c] = f[key[c]]
  <2> DEFINE l == <<n, c>>
  <2>1. l \in Line /\ l[1] = n /\ l[2] = c /\ ProductOf(l) = p /\ c \in Claim
    BY <1>1, LineKeys DEF ProductOf, ClaimsOn
  <2>2. f[l] = IF l \in AcceptedOwn(n) THEN offer[l].held ELSE 0
    BY <2>1
  <2>3. l \in AcceptedOwn(n) => ~IsOrdinary(c) /\ offer[l].held = offer[l].qty
    <3>1. SUFFICES ASSUME l \in AcceptedOwn(n)
                   PROVE  ~IsOrdinary(c) /\ offer[l].held = offer[l].qty
      OBVIOUS
    <3>2. l[2] \in Ticket /\ offer[l].held = offer[l].qty
      BY <3>1, AcceptedBacked
    <3> QED BY <2>1, <3>2, ClaimKeys
  <2>4. first[c] = IF ~IsOrdinary(c) /\ l \in AcceptedOwn(n) THEN offer[l].qty ELSE 0
    BY <2>1 DEF TierOf, Want
  <2>5. first[c] = f[l]
    <3> HIDE DEF first, f, l
    <3> QED BY <2>2, <2>3, <2>4
  <2> QED BY <2>5
<1>8. ASSUME NEW l \in Line, f[l] > 0 PROVE \E c \in ClaimsOn(p) : l = key[c]
  <2>1. l \in AcceptedOwn(n) /\ ProductOf(l) = p
    BY <1>8
  <2>2. l[1] = n /\ l[2] \in ClaimsOn(p) /\ l = <<n, l[2]>>
    BY <2>1, LineKeys DEF AcceptedOwn, ProductOf, ClaimsOn
  <2> QED BY <2>2
<1> HIDE DEF first, f, g, key
<1>9. SumOf(f) = SumOf(first)
  BY <1>1, <1>2, <1>5, <1>6, <1>7, <1>8, FiniteKeys, SumReindex
<1>10. SumOf(f) = SumOf(g)
  BY <1>4, <1>5, FiniteKeys, SumExtend
<1>11. SumOf(g) = OfferHeld(AcceptedOwn(n), p)
  BY Zenon DEF g, OfferHeld
<1> QED BY <1>9, <1>10, <1>11 DEF first

\* The snapshot covers the goods held for the accepted offers of its session.
LEMMA SnapshotCoversAccepted ==
    ASSUME TypeOK, SnapshotCoversOffers, NEW n \in Session, taken[n],
           NEW p \in Product
    PROVE  OfferHeld(AcceptedOwn(n), p) <= snapshot[n][p]
<1> DEFINE f == [o \in Offer |-> IF o \in AcceptedOwn(n) /\ ProductOf(o) = p
                                 THEN offer[o].held ELSE 0]
           g == [o \in Offer |-> IF o \in OffersOf(n) /\ ProductOf(o) = p
                                 THEN offer[o].held ELSE 0]
<1>1. \A o \in Offer : offer[o].held \in Nat
  BY DEF TypeOK, OfferType
<1>2. AcceptedOwn(n) \subseteq OffersOf(n)
  BY DEF AcceptedOwn, OffersOf
<1>3. /\ f \in [Offer -> Nat] /\ g \in [Offer -> Nat]
      /\ \A o \in Offer : f[o] <= g[o]
  BY <1>1, <1>2
<1> HIDE DEF f, g
<1>4. SumOf(f) <= SumOf(g)
  BY <1>3, FiniteKeys, SumMonotone
<1>5. SumOf(f) = OfferHeld(AcceptedOwn(n), p) /\ SumOf(g) = OfferHeld(OffersOf(n), p)
  BY Zenon DEF f, g, OfferHeld
<1>6. OfferHeld(OffersOf(n), p) <= snapshot[n][p]
  BY DEF SnapshotCoversOffers
<1>7. /\ OfferHeld(OffersOf(n), p) \in Nat /\ snapshot[n][p] \in Nat
      /\ OfferHeld(AcceptedOwn(n), p) \in Nat
  BY HeldTypes DEF TypeOK
<1> QED BY <1>4, <1>5, <1>6, <1>7

\* If the claim of an accepted offer were short, ordinary orders would get
\* nothing, so less would be granted than the accepted offers hold; but the
\* snapshot covers what they hold, and the run uses up what it may allocate.
LEMMA AcceptedGranted ==
    ASSUME TypeOK, LiveOfferBacked, SnapshotCoversOffers, NEW n \in Session,
           session[n] = "open", taken[n], NEW grant \in Grants(n),
           IsAllocation(n, grant), NEW o \in AcceptedOwn(n)
    PROVE  grant[o[2]] = offer[o].qty
<1> DEFINE t == o[2]
           p == t[2]
           given == GivenOn(grant, p)
           want == WantOn(n, p)
           tier == [c \in ClaimsOn(p) |-> TierOf(c)]
           first == [c \in ClaimsOn(p) |-> IF TierOf(c) = 1 THEN Want(n)[c] ELSE 0]
           own == OfferHeld(AcceptedOwn(n), p)
           free == Allocatable(n, p)
<1>1. /\ o \in Offer /\ t \in Ticket /\ offer[o].qty \in Nat /\ offer[o].qty > 0
      /\ o = <<n, t>>
  BY AcceptedBacked, LineKeys DEF AcceptedOwn
<1>2. /\ t \in Claim /\ ~IsOrdinary(t) /\ p \in Product /\ t \in ClaimsOn(p)
  BY <1>1, ClaimKeys DEF ClaimsOn
<1>3. Want(n)[t] = offer[o].qty /\ TierOf(t) = 1
  BY <1>1, <1>2 DEF Want, TierOf
<1> HIDE DEF t, p
<1>4. /\ ClaimsOn(p) \subseteq Claim /\ IsFiniteSet(ClaimsOn(p))
      /\ want \in [ClaimsOn(p) -> Nat] /\ given \in [ClaimsOn(p) -> Nat]
      /\ \A c \in ClaimsOn(p) : grant[c] <= Want(n)[c]
      /\ SumOf(given) = Lesser(free, SumOf(want))
      /\ PriorityFirst(want, tier, given)
  BY <1>2, FairOnProduct DEF Exhaustive
<1>5. \A c \in ClaimsOn(p) :
         /\ given[c] = grant[c] /\ want[c] = Want(n)[c] /\ tier[c] = TierOf(c)
         /\ first[c] = IF TierOf(c) = 1 THEN Want(n)[c] ELSE 0
         /\ given[c] \in Nat /\ want[c] \in Nat
  BY <1>4 DEF GivenOn, WantOn
<1>6. first \in [ClaimsOn(p) -> Nat] /\ \A c \in ClaimsOn(p) : first[c] <= want[c]
  BY <1>5
<1>7. SumOf(first) = own
  BY <1>2, AcceptedWant
<1>8. own \in Nat /\ snapshot[n][p] \in Nat
  BY <1>2, HeldTypes DEF TypeOK
<1>9. own <= snapshot[n][p]
  BY <1>2, SnapshotCoversAccepted
<1>10. free = Lesser(snapshot[n][p],
                     Greater(0, onHand[p] - ReservedAfterExpiry(n, p)) + own)
  BY DEF Allocatable
<1>11. onHand[p] - ReservedAfterExpiry(n, p) \in Int
  BY <1>2, HeldTypes DEF ReservedAfterExpiry, TypeOK
<1>12. own <= free /\ free \in Int
  <2> HIDE DEF own, free
  <2> QED BY <1>8, <1>9, <1>10, <1>11 DEF Lesser, Greater
<1>13. grant[t] <= Want(n)[t] /\ grant[t] \in Nat
  BY <1>2, <1>4, <1>5
<1> SUFFICES ASSUME grant[t] < Want(n)[t] PROVE FALSE
  <2>1. ~(grant[t] < Want(n)[t]) => grant[t] = Want(n)[t]
    BY <1>1, <1>3, <1>13
  <2> QED BY <1>3, <2>1 DEF t
<1>14. ASSUME NEW c \in ClaimsOn(p) PROVE given[c] <= first[c]
  <2>1. CASE TierOf(c) = 1
    BY <1>4, <1>5, <2>1
  <2>2. CASE TierOf(c) # 1
    <3>1. TierOf(t) < TierOf(c)
      BY <1>3, <2>2 DEF TierOf
    <3>2. given[c] > 0 => given[t] = want[t]
      BY <1>2, <1>4, <1>5, <3>1 DEF PriorityFirst, WantOn
    <3>3. ~(given[c] > 0)
      BY <1>2, <1>5, <1>13, <3>2
    <3> QED BY <1>5, <2>2, <3>3
  <2> QED BY <2>1, <2>2
<1>15. given[t] < first[t]
  BY <1>2, <1>3, <1>5
<1> HIDE DEF given, want, first, own, free
<1>16. SumOf(given) < SumOf(first)
  BY <1>2, <1>4, <1>6, <1>14, <1>15, SumStrict
<1>17. SumOf(first) <= SumOf(want)
  BY <1>4, <1>6, SumMonotone
<1>18. SumOf(given) \in Nat /\ SumOf(want) \in Nat
  BY <1>4, SumType, Zenon
<1> QED BY <1>4, <1>7, <1>8, <1>12, <1>16, <1>17, <1>18 DEF Lesser

\* Only its run completes a session.
LEMMA OnlyRunsComplete ==
    ASSUME TypeOK, [Next]_vars, NEW n \in Session, session[n] = "open",
           session'[n] = "completed"
    PROVE  \E grant \in Grants(n) : FinalizeAllocation(n, grant)
<1> USE DEF sessions
<1>1. CASE Tick \/ StartTick \/ \E p \in Product : IncreaseStock(p) \/ DecreaseStock(p)
  BY <1>1 DEF Tick, StartTick, IncreaseStock, DecreaseStock
<1>2. CASE \/ \E m \in Session : CancelSession(m)
           \/ \E m \in Session, s \in Store, items \in Items : SubmitOrder(m, s, items)
  BY <1>2 DEF CancelSession, SubmitOrder, TypeOK
<1>3. CASE Snapshots
  BY <1>3 DEF Snapshots, CaptureSnapshot
<1>4. CASE Runs
  <2>1. PICK m \in Session : \E grant \in Grants(m) : FinalizeAllocation(m, grant)
    BY <1>4 DEF Runs
  <2>2. m = n
    BY <2>1 DEF FinalizeAllocation, TypeOK
  <2> QED BY <2>1, <2>2
<1>5. CASE \E o \in Offer : AcceptOffer(o) \/ DeclineOffer(o) \/ AnswerLate(o)
  BY <1>5 DEF AcceptOffer, DeclineOffer, AnswerLate, EndOffer
<1>6. CASE \E r \in Result : AcceptResult(r) \/ WaitlistResult(r)
  BY <1>6 DEF AcceptResult, WaitlistResult
<1>7. CASE \E t \in Ticket : CancelTicket(t)
  BY <1>7 DEF CancelTicket
<1>8. CASE UNCHANGED vars
  BY <1>8 DEF vars
<1> QED BY <1>1, <1>2, <1>3, <1>4, <1>5, <1>6, <1>7, <1>8 DEF Next, Answers

Honoured ==
    \A o \in Offer :
        offer[o].status = "accepted" /\ session[o[1]] = "open"
            /\ session'[o[1]] = "completed"
        => hold'[o].qty = offer[o].qty

LEMMA RunHonours ==
    ASSUME TypeOK, LiveOfferBacked, SnapshotCoversOffers, NoLinesBeforeRun, [Next]_vars
    PROVE  Honoured
<1> SUFFICES ASSUME NEW o \in Offer, offer[o].status = "accepted",
                    session[o[1]] = "open", session'[o[1]] = "completed"
             PROVE  hold'[o].qty = offer[o].qty
  BY DEF Honoured
<1> DEFINE n == o[1]
<1>1. n \in Session /\ o \in Line /\ SourceOf(o) = o[2] /\ o \in AcceptedOwn(n)
  BY LineKeys DEF AcceptedOwn
<1>2. PICK grant \in Grants(n) : FinalizeAllocation(n, grant)
  BY <1>1, OnlyRunsComplete
<1>3. grant[o[2]] = offer[o].qty
  BY <1>1, <1>2, AcceptedGranted DEF FinalizeAllocation
<1>4. offer[o].qty > 0
  BY <1>1, AcceptedBacked
<1> QED BY <1>1, <1>2, <1>3, <1>4, RunEffect

\* An offer accepted in time is granted in full by the run of its session,
\* also when stock left the warehouse after the snapshot.
THEOREM AcceptedOffersHonoured == Spec => AcceptedOfferHonoured
<1> DEFINE Facts ==
        TypeOK /\ NoLinesBeforeRun /\ NoOffersBeforeSnapshot /\ LiveOfferBacked
           /\ SnapshotCoversOffers
<1>1. Init => Facts
  BY InitTypes, InitLines, InitBooks, InitClaims, InitCovers
<1>2. Facts /\ [Next]_vars => Facts'
  BY NextTypes, NextLines, NextOffers, NextClaims, NextCovers
<1>3. Facts /\ [Next]_vars => [Honoured]_vars
  BY RunHonours
<1>4. AcceptedOfferHonoured <=> [][Honoured]_vars
  BY DEF AcceptedOfferHonoured, Honoured
<1> HIDE DEF Facts
<1> QED BY <1>1, <1>2, <1>3, <1>4, PTL DEF Spec
=============================================================================
