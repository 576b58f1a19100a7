------------------------- MODULE CommandAuthority -------------------------
(***************************************************************************)
(* Who may give which command, and what a right taken away meanwhile still *)
(* allows.  Every route that writes reads the session once (authenticate), *)
(* lets in a list of roles (requireRole), and the repository checks the    *)
(* store against the principal of that session; most commands then look    *)
(* again inside their own transaction.  That transaction is serializable:  *)
(* it reads the snapshot of its first statement, which is the advisory     *)
(* lock it may wait for, while the Admin's changes of an account, of its   *)
(* assignments and of a store are transactions of another kind.  A check   *)
(* that reads FOR SHARE holds the rows until the commit; a plain one does  *)
(* not.                                                                    *)
(***************************************************************************)
EXTENDS Naturals, FiniteSets

CONSTANTS
    Commands,       \* the commands this instance looks at
    Requests,       \* requests that repeat the command under one key
    MaxChanges      \* bound on the Admin's changes of the rights

VARIABLES
    command,        \* the command given
    who,            \* the account: its role, whether the store is its own
    kind,           \* the kind of the store the command is about
    world,          \* active, assigned, open: the rights as they stand
    stamp,          \* which change last wrote the row of each right
    changes,        \* number of changes so far
    done,           \* the key has a completed record
    request         \* the state of every request

vars == <<command, who, kind, world, stamp, changes, done, request>>

Everyone == {"ADMIN", "HTKD", "STORE", "WHOLESALE"}
Managers == {"ADMIN", "HTKD"}
Admins == {"ADMIN"}
StoreSide == {"STORE", "WHOLESALE"}
Receivers == {"STORE", "WHOLESALE", "HTKD"}
Shops == {"STORE"}
Recorders == {"STORE", "HTKD"}

(***************************************************************************)
(* What a route and its repository function check: the roles let in, the   *)
(* check of the session's principal, the check inside the transaction,     *)
(* whether an exact replay passes that check too, and whether the command  *)
(* is about one store.                                                     *)
(***************************************************************************)
Checks(roles, entry, inside, replay, store) ==
    [roles |-> roles, entry |-> entry, inside |-> inside,
     replay |-> replay, store |-> store]

SubmitOrderRoute == Everyone
SubmitOrder == Checks(SubmitOrderRoute, "order", "order", FALSE, TRUE)

CancelOrderRoute == Everyone
CancelOrder == Checks(CancelOrderRoute, "scope", "none", FALSE, TRUE)

RespondDecisionRoute == Receivers
RespondDecision == Checks(RespondDecisionRoute, "responder", "responder", TRUE, TRUE)

UpdateReshareStatusRoute == Managers
UpdateReshareStatus == Checks(UpdateReshareStatusRoute, "role", "reshare", TRUE, FALSE)

CreateSessionRoute == Admins
CreateSession == Checks(CreateSessionRoute, "role", "none", FALSE, FALSE)

TransitionSessionRoute == Admins
TransitionSession == Checks(TransitionSessionRoute, "role", "admin", FALSE, FALSE)

CreateProductRoute == Managers
CreateProduct == Checks(CreateProductRoute, "role", "none", FALSE, FALSE)

UpdateProductRoute == Managers
UpdateProduct == Checks(UpdateProductRoute, "role", "none", FALSE, FALSE)

CreateConversionRoute == Managers
CreateConversion == Checks(CreateConversionRoute, "role", "none", FALSE, FALSE)

ReplaceConversionRoute == Managers
ReplaceConversion == Checks(ReplaceConversionRoute, "role", "none", FALSE, FALSE)

RetireConversionRoute == Managers
RetireConversion == Checks(RetireConversionRoute, "role", "none", FALSE, FALSE)

AdjustStockRoute == Admins
AdjustStock == Checks(AdjustStockRoute, "role", "admin", TRUE, FALSE)

ResolveShortageRoute == Admins
ResolveShortage == Checks(ResolveShortageRoute, "role", "admin", FALSE, FALSE)

CreateSourceRoute == Managers
CreateSource == Checks(CreateSourceRoute, "role", "reshare", TRUE, FALSE)

AddSourceProductsRoute == Managers
AddSourceProducts == Checks(AddSourceProductsRoute, "role", "reshare", TRUE, FALSE)

ConfirmObservationRoute == Managers
ConfirmObservation == Checks(ConfirmObservationRoute, "role", "reshare", TRUE, FALSE)

RecordSupplierOrderRoute == Managers
RecordSupplierOrder == Checks(RecordSupplierOrderRoute, "role", "reshare", TRUE, FALSE)

CancelSupplierOrderRoute == Managers
CancelSupplierOrder == Checks(CancelSupplierOrderRoute, "role", "reshare", TRUE, FALSE)

ReturnToSourceRoute == Managers
ReturnToSource == Checks(ReturnToSourceRoute, "role", "reshare", TRUE, FALSE)

ReceiveInboundRoute == Managers
ReceiveInbound == Checks(ReceiveInboundRoute, "role", "warehouse", FALSE, FALSE)

ConfirmInboundCostsRoute == Managers
ConfirmInboundCosts == Checks(ConfirmInboundCostsRoute, "role", "warehouse", FALSE, FALSE)

CancelInboundRoute == Managers
CancelInbound == Checks(CancelInboundRoute, "role", "warehouse", FALSE, FALSE)

CreateGroupRoute == Admins
CreateGroup == Checks(CreateGroupRoute, "role", "none", FALSE, FALSE)

UpdateGroupRoute == Admins
UpdateGroup == Checks(UpdateGroupRoute, "role", "none", FALSE, FALSE)

CreateStoreRoute == Admins
CreateStore == Checks(CreateStoreRoute, "role", "none", FALSE, FALSE)

UpdateStoreRoute == Admins
UpdateStore == Checks(UpdateStoreRoute, "role", "none", FALSE, FALSE)

DispatchOutboundRoute == Managers
DispatchOutbound == Checks(DispatchOutboundRoute, "scope", "dispatcher", FALSE, TRUE)

SubmitPriorityOrderRoute == Managers
SubmitPriorityOrder == Checks(SubmitPriorityOrderRoute, "role", "priorityOrder", TRUE, FALSE)

UpdatePriorityStatusRoute == Managers
UpdatePriorityStatus == Checks(UpdatePriorityStatusRoute, "role", "priority", TRUE, FALSE)

DeclareReceiptRoute == StoreSide
DeclareReceipt == Checks(DeclareReceiptRoute, "receipt", "declarer", FALSE, TRUE)

SubmitReceiptRoute == StoreSide
SubmitReceipt == Checks(SubmitReceiptRoute, "receipt", "declarer", FALSE, TRUE)

ReturnReceiptRoute == Managers
ReturnReceipt == Checks(ReturnReceiptRoute, "scope", "reviewer", FALSE, TRUE)

FinalizeReceiptRoute == Managers
FinalizeReceipt == Checks(FinalizeReceiptRoute, "scope", "reviewer", FALSE, TRUE)

ReportAdjustmentRoute == StoreSide
ReportAdjustment == Checks(ReportAdjustmentRoute, "role", "storeParty", FALSE, TRUE)

ActOnAdjustmentRoute == Everyone
ActOnAdjustment == Checks(ActOnAdjustmentRoute, "scope", "party", FALSE, TRUE)

CreateReturnRoute == StoreSide
CreateReturn == Checks(CreateReturnRoute, "scope", "storeParty", FALSE, TRUE)

ActOnReturnRoute == Everyone
ActOnReturn == Checks(ActOnReturnRoute, "scope", "party", FALSE, TRUE)

OpenBagRoute == Shops
OpenBag == Checks(OpenBagRoute, "shop", "shop", FALSE, TRUE)

RecordPartnerInboundRoute == Recorders
RecordPartnerInbound == Checks(RecordPartnerInboundRoute, "partner", "partner", FALSE, TRUE)

CreateOutboundRoute == Shops
CreateOutbound == Checks(CreateOutboundRoute, "shop", "shop", FALSE, TRUE)

ReviewOutboundRoute == Managers
ReviewOutbound == Checks(ReviewOutboundRoute, "scope", "reviewer", FALSE, TRUE)

SortRoute == Shops
Sort == Checks(SortRoute, "shop", "retailShop", FALSE, TRUE)

MoveCharityToSaleRoute == Shops
MoveCharityToSale == Checks(MoveCharityToSaleRoute, "shop", "retailShop", FALSE, TRUE)

ExportCharityRoute == Shops
ExportCharity == Checks(ExportCharityRoute, "shop", "retailShop", FALSE, TRUE)

MoveProductCharityToSaleRoute == Shops
MoveProductCharityToSale == Checks(MoveProductCharityToSaleRoute, "shop", "retailShop", FALSE, TRUE)

MoveProductCancelToSaleRoute == Shops
MoveProductCancelToSale == Checks(MoveProductCancelToSaleRoute, "shop", "retailShop", FALSE, TRUE)

FinalizeCancelRoute == Shops
FinalizeCancel == Checks(FinalizeCancelRoute, "shop", "retailShop", FALSE, TRUE)

MoveProductSaleToCharityRoute == Shops
MoveProductSaleToCharity == Checks(MoveProductSaleToCharityRoute, "shop", "retailShop", FALSE, TRUE)

MoveProductSaleToCancelRoute == Shops
MoveProductSaleToCancel == Checks(MoveProductSaleToCancelRoute, "shop", "retailShop", FALSE, TRUE)

CreateCharityExportRoute == Shops
CreateCharityExport == Checks(CreateCharityExportRoute, "shop", "retailShop", FALSE, TRUE)

CreateSaleTransferRoute == Shops
CreateSaleTransfer == Checks(CreateSaleTransferRoute, "shop", "retailShop", FALSE, TRUE)

ReceiveSaleTransferRoute == Shops
ReceiveSaleTransfer == Checks(ReceiveSaleTransferRoute, "shop", "retailShop", FALSE, TRUE)

CancelSaleTransferRoute == Shops
CancelSaleTransfer == Checks(CancelSaleTransferRoute, "shop", "retailShop", FALSE, TRUE)

ReceiveTransferRoute == Shops
ReceiveTransfer == Checks(ReceiveTransferRoute, "shop", "retailShop", FALSE, TRUE)

CancelTransferRoute == Shops
CancelTransfer == Checks(CancelTransferRoute, "shop", "retailShop", FALSE, TRUE)

CancelWaitRoute == Everyone
CancelWait == Checks(CancelWaitRoute, "ownShop", "canceller", TRUE, TRUE)

CancelWaitDocumentRoute == Everyone
CancelWaitDocument == Checks(CancelWaitDocumentRoute, "ownShop", "canceller", TRUE, TRUE)

AnswerOfferRoute == Receivers
AnswerOffer == Checks(AnswerOfferRoute, "ownShop", "answerer", TRUE, TRUE)

\* Every command of the API that writes and passes a key, and the catalogue's.
AllCommands ==
    {SubmitOrder, CancelOrder, RespondDecision, UpdateReshareStatus,
     CreateSession, TransitionSession, CreateProduct, UpdateProduct,
     CreateConversion, ReplaceConversion, RetireConversion, AdjustStock,
     ResolveShortage, CreateSource, AddSourceProducts, ConfirmObservation,
     RecordSupplierOrder, CancelSupplierOrder, ReturnToSource,
     ReceiveInbound, ConfirmInboundCosts, CancelInbound, CreateGroup,
     UpdateGroup, CreateStore, UpdateStore, DispatchOutbound,
     SubmitPriorityOrder, UpdatePriorityStatus, DeclareReceipt,
     SubmitReceipt, ReturnReceipt, FinalizeReceipt, ReportAdjustment,
     ActOnAdjustment, CreateReturn, ActOnReturn, OpenBag,
     RecordPartnerInbound, CreateOutbound, ReviewOutbound, Sort,
     MoveCharityToSale, ExportCharity, MoveProductCharityToSale,
     MoveProductCancelToSale, FinalizeCancel, MoveProductSaleToCharity,
     MoveProductSaleToCancel, CreateCharityExport, CreateSaleTransfer,
     ReceiveSaleTransfer, CancelSaleTransfer, ReceiveTransfer,
     CancelTransfer, CancelWait, CancelWaitDocument, AnswerOffer}

AuthorityAssumption == Commands \subseteq AllCommands /\ MaxChanges \in Nat

(***************************************************************************)
(* The rights of the account over the store.  A role never changes; an     *)
(* HTKD has the stores assigned to it, the wholesale desk every wholesale  *)
(* store, a store account its own.                                         *)
(***************************************************************************)
Reach(w) ==
    \/ who.role = "ADMIN"
    \/ who.role = "STORE" /\ who.own
    \/ who.role = "HTKD" /\ w.assigned
    \/ who.role = "WHOLESALE" /\ kind = "wholesale"

\* credentialsFromRow: the desk's principal lists the stores open just then.
PrincipalScope(w) == Reach(w) /\ (who.role = "WHOLESALE" => w.open)

(***************************************************************************)
(* The checks before the transaction: of the principal, and of the store   *)
(* as it stands.  An account of another store has that store open.         *)
(***************************************************************************)
RetailShop(w) == who.own => kind = "retail" /\ w.open
OwnShop(w) == who.role = "STORE" => RetailShop(w)

Receiver(scope, w) ==
    \/ who.role = "STORE" /\ who.own /\ RetailShop(w)
    \/ who.role = "WHOLESALE" /\ scope /\ kind = "wholesale" /\ w.open

Recorder(scope, w) ==
    \/ who.role = "STORE" /\ who.own /\ RetailShop(w)
    \/ who.role = "HTKD" /\ scope /\ kind = "retail" /\ w.open

(***************************************************************************)
(* The checks inside the transaction.                                      *)
(***************************************************************************)
MayAccessStore(w) == w.open /\ w.active /\ Reach(w)

ActiveAdministrator(w) == w.active /\ who.role = "ADMIN"

Dispatcher(w) == w.active /\ who.role \in Managers /\ Reach(w)

ActiveStoreActor(w) == w.open /\ w.active /\ who.role = "STORE" /\ who.own

RetailStoreActor(w) == ActiveStoreActor(w) /\ kind = "retail"

PartnerRecorder(w) ==
    w.open /\ kind = "retail" /\ w.active /\ who.role # "WHOLESALE" /\ Reach(w)

Declarer(w) == w.open /\ w.active /\ who.role \in StoreSide /\ Reach(w)

Reviewer(w) == w.open /\ w.active /\ who.role \in Managers /\ Reach(w)

Party(w) == w.open /\ w.active /\ Reach(w)

WarehouseActor(w) == w.active /\ who.role \in Managers

ReshareManager(w) == w.active /\ who.role \in Managers

PriorityManager(w) == w.active /\ who.role \in Managers

Responder(w) ==
    /\ w.active /\ w.open
    /\ \/ who.role = "STORE" /\ who.own /\ kind = "retail"
       \/ who.role \in {"WHOLESALE", "HTKD"} /\ Reach(w)

OfferAnswerer(w) == w.open /\ w.active /\ Reach(w)

WaitCanceller(w) ==
    w.active /\ (who.role = "ADMIN" \/ (w.open /\ Reach(w)))

EntryChecks(scope, w) ==
    [role |-> TRUE, scope |-> scope, order |-> OwnShop(w) /\ scope,
     ownShop |-> OwnShop(w), shop |-> OwnShop(w) /\ who.own,
     receipt |-> Receiver(scope, w), partner |-> Recorder(scope, w),
     responder |-> OwnShop(w) /\ scope /\ Responder(w)]

InsideChecks(w) ==
    [none |-> TRUE, order |-> MayAccessStore(w), admin |-> ActiveAdministrator(w),
     dispatcher |-> Dispatcher(w), shop |-> ActiveStoreActor(w),
     retailShop |-> RetailStoreActor(w), partner |-> PartnerRecorder(w),
     declarer |-> Declarer(w), reviewer |-> Reviewer(w), party |-> Party(w),
     storeParty |-> Party(w) /\ who.role \in StoreSide,
     warehouse |-> WarehouseActor(w), reshare |-> ReshareManager(w),
     priority |-> PriorityManager(w), priorityOrder |-> PriorityManager(w) /\ w.open,
     responder |-> Responder(w), answerer |-> OfferAnswerer(w),
     canceller |-> WaitCanceller(w)]

Rows == {"account", "assignment", "store"}

\* Mutant of SharedRows: the offer's and the ticket's checks read plainly.
PlainRows(check) ==
    CASE check = "priority" -> {"account"}
      [] check = "priorityOrder" -> {"account", "store"}
      [] OTHER -> {}

\* The rows a check reads FOR SHARE.
SharedRows(check) ==
    CASE check \in {"answerer", "canceller"} ->
            {"account", "store"} \cup IF who.role = "HTKD" THEN {"assignment"} ELSE {}
      [] check = "priority" -> {"account"}
      [] check = "priorityOrder" -> {"account", "store"}
      [] OTHER -> {}

Now == [world |-> world, stamp |-> stamp, done |-> done]

Rights == [active : BOOLEAN, assigned : BOOLEAN, open : BOOLEAN]

TypeOK ==
    /\ command \in Commands
    /\ who \in [role : Everyone, own : BOOLEAN]
    /\ kind \in {"retail", "wholesale"}
    /\ world \in Rights
    /\ stamp \in [Rows -> 0..MaxChanges]
    /\ changes \in 0..MaxChanges
    /\ done \in BOOLEAN
    /\ request \in [Requests ->
            [at : {"new", "known", "entered", "begun", "checked",
                   "done", "replayed", "refused"},
             scope : BOOLEAN,
             snap : [world : Rights, stamp : [Rows -> 0..MaxChanges],
                     done : BOOLEAN]]]

Init ==
    /\ command \in Commands
    /\ who \in [role : command.roles, own : BOOLEAN]
    /\ kind \in {"retail", "wholesale"}
    /\ who.own => who.role = "STORE" /\ kind = "retail"
    /\ world \in [active : {TRUE}, assigned : BOOLEAN, open : BOOLEAN]
    /\ world.assigned => who.role = "HTKD"
    /\ who.own => world.open
    /\ stamp = [x \in Rows |-> 0] /\ changes = 0 /\ done = FALSE
    /\ request = [r \in Requests |-> [at |-> "new", scope |-> FALSE, snap |-> Now]]

Goes(r, at) == request' = [request EXCEPT ![r].at = at]

Same == UNCHANGED <<command, who, kind, world, stamp, changes>>

\* authenticate and requireRole: the one reading of the session.
Authenticate(r) ==
    /\ request[r].at = "new" /\ world.active
    /\ request' = [request EXCEPT ![r].at = "known",
                                  ![r].scope = PrincipalScope(world)]
    /\ UNCHANGED done /\ Same

\* The repository function's checks before its transaction.
Enter(r) ==
    /\ request[r].at = "known"
    /\ Goes(r, IF EntryChecks(request[r].scope, world)[command.entry]
               THEN "entered" ELSE "refused")
    /\ UNCHANGED done /\ Same

\* The first statement of the transaction: the snapshot, then the lock's queue.
Begin(r) ==
    /\ request[r].at = "entered"
    /\ request' = [request EXCEPT ![r].at = "begun", ![r].snap = Now]
    /\ UNCHANGED done /\ Same

\* The lock of the key is free: nobody else is at work under it.
Locked(r) ==
    /\ request[r].at = "begun"
    /\ \A other \in Requests : request[other].at # "checked"

Passes(r) == InsideChecks(request[r].snap.world)[command.inside]

\* A shared row, or the key's record, written since the snapshot: the
\* transaction fails with 40001 and starts over.
Stale(r) ==
    \/ request[r].snap.done # done
    \/ \E x \in SharedRows(command.inside) : stamp[x] # request[r].snap.stamp[x]

StartOver(r) == Locked(r) /\ Stale(r) /\ Goes(r, "entered") /\ UNCHANGED done /\ Same

Replay(r) ==
    /\ Locked(r) /\ ~Stale(r) /\ done /\ (command.replay => Passes(r))
    /\ Goes(r, "replayed") /\ UNCHANGED done /\ Same

Refuse(r) ==
    /\ Locked(r) /\ ~Passes(r)
    /\ command.replay \/ (~done /\ ~Stale(r))
    /\ Goes(r, "refused") /\ UNCHANGED done /\ Same

Check(r) ==
    /\ Locked(r) /\ ~Stale(r) /\ ~done /\ Passes(r)
    /\ Goes(r, "checked") /\ UNCHANGED done /\ Same

Commit(r) ==
    /\ request[r].at = "checked"
    /\ Goes(r, "done") /\ done' = TRUE /\ Same

(***************************************************************************)
(* The Admin's changes: an account locked or unlocked, an assignment given *)
(* or taken away, a store closed (its account is disabled with it) or      *)
(* reopened.  Each waits for the rows read FOR SHARE.                      *)
(***************************************************************************)
Writes(rows, rights) ==
    /\ changes < MaxChanges /\ changes' = changes + 1
    /\ \A r \in Requests : request[r].at = "checked" =>
            SharedRows(command.inside) \cap rows = {}
    /\ world' = rights
    /\ stamp' = [x \in Rows |-> IF x \in rows THEN changes' ELSE stamp[x]]
    /\ UNCHANGED <<command, who, kind, done, request>>

SetStatus ==
    /\ ~world.active /\ who.own => world.open
    /\ Writes({"account"}, [world EXCEPT !.active = ~@])

Reassign ==
    /\ who.role = "HTKD" /\ world.active
    /\ Writes({"assignment"}, [world EXCEPT !.assigned = ~@])

SetOpen ==
    Writes({"store"} \cup IF who.own /\ world.open THEN {"account"} ELSE {},
           [world EXCEPT !.open = ~@, !.active = @ /\ ~(who.own /\ world.open)])

Step(r) ==
    \/ Authenticate(r) \/ Enter(r) \/ Begin(r) \/ StartOver(r) \/ Replay(r)
    \/ Refuse(r) \/ Check(r) \/ Commit(r)

Next == (\E r \in Requests : Step(r)) \/ SetStatus \/ Reassign \/ SetOpen

Spec == Init /\ [][Next]_vars

(***************************************************************************)
(* Properties.                                                             *)
(***************************************************************************)
Finished(r) == request[r].at \in {"checked", "done"}

\* No command about a store takes effect for an account that did not have that
\* store, either when its session was read or when its transaction began.
ActedInScope ==
    \A r \in Requests : Finished(r) /\ command.store =>
        request[r].scope \/ Reach(request[r].snap.world)

\* A command that looks again inside its transaction takes effect only for an
\* account active, and holding the store, when that transaction began.
BeganWithRights ==
    \A r \in Requests : Finished(r) /\ command.inside # "none" =>
        /\ request[r].snap.world.active
        /\ command.store => Reach(request[r].snap.world)

\* A closed store is left alone by everyone below Admin, apart from a shipment
\* released to it and an order request of it cancelled.
ClosedStoreLeftAlone ==
    \A r \in Requests :
        /\ Finished(r) /\ command.store /\ who.role # "ADMIN"
        /\ command \notin {CancelOrder, DispatchOutbound}
        => request[r].snap.world.open

\* Between the check of an answer to an offer, of a cancelled wait or of an
\* emergency order and its commit the rights cannot be taken away.
SharedRightsStand ==
    \A r \in Requests :
        /\ request[r].at = "checked"
        /\ command.inside \in {"answerer", "canceller", "priority", "priorityOrder"}
        => world.active /\ (command.store => Reach(world))

\* "a locked account [...] never gets a stored answer back": where the hook
\* exists, an account locked before the transaction began is not answered.
ReplayedToTheEntitled ==
    \A r \in Requests : request[r].at = "replayed" /\ command.replay =>
        request[r].snap.world.active

\* A command acts within the rights of its account: the parts together.
RightsHold ==
    /\ TypeOK /\ ActedInScope /\ BeganWithRights /\ ClosedStoreLeftAlone
    /\ SharedRightsStand /\ ReplayedToTheEntitled
=============================================================================
