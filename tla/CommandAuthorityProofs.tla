----------------------- MODULE CommandAuthorityProofs -----------------------
(***************************************************************************)
(* What a right taken away meanwhile still allows, for any commands of the *)
(* API, any repetitions under one key and any number of changes of the     *)
(* rights (CommandAuthority).                                              *)
(*                                                                         *)
(* A request carries the checks it passed with it (EntryHeld, InsideHeld). *)
(* Whether the rights still are what its snapshot shows is read off the    *)
(* stamps of the rows (StampsTell), and the rows a check reads FOR SHARE   *)
(* keep their stamps until the commit (SharedStand).  What each command    *)
(* checks is the table of CommandAuthority (ChecksOfCommands).             *)
(***************************************************************************)
EXTENDS CommandAuthority, TLAPS

-----------------------------------------------------------------------------
(* The checks.                                                             *)

EntryOfScope == {"scope", "order", "responder"}
EntryOfReach == {"receipt", "partner"}
InsideOfStore ==
    {"order", "dispatcher", "shop", "retailShop", "partner", "declarer", "reviewer", "party",
     "storeParty", "responder", "answerer", "canceller"}
InsideOfWarehouse == {"admin", "warehouse", "reshare", "priority", "priorityOrder"}

\* A command about a store looks at the store, before or in its transaction,
\* and one that checks replays looks again.
LooksAtStore(c) ==
    /\ c.inside \in InsideOfStore \cup InsideOfWarehouse \cup {"none"}
    /\ c.store => \/ c.entry \in EntryOfScope \cup EntryOfReach \cup {"shop"}
                  \/ c.inside \in {"storeParty", "answerer", "canceller"}
    /\ c.store => c.inside \in InsideOfStore \cup {"none"}
    /\ c.store /\ c \notin {CancelOrder, DispatchOutbound} => c.inside \in InsideOfStore \ {"dispatcher"}
    /\ c.replay => c.inside # "none"

LEMMA ChecksOfCommands ==
    ASSUME AuthorityAssumption
    PROVE  \A c \in Commands : LooksAtStore(c)
<1> USE DEF Checks, LooksAtStore, EntryOfScope, EntryOfReach, InsideOfStore, InsideOfWarehouse
<1>1. \A c \in {SubmitOrder} : LooksAtStore(c)
  BY DEF SubmitOrder
<1>2. \A c \in {CancelOrder} : LooksAtStore(c)
  BY DEF CancelOrder
<1>3. \A c \in {RespondDecision} : LooksAtStore(c)
  BY DEF RespondDecision
<1>4. \A c \in {UpdateReshareStatus, CreateSource, AddSourceProducts, ConfirmObservation,
        RecordSupplierOrder, CancelSupplierOrder, ReturnToSource} : LooksAtStore(c)
  BY DEF UpdateReshareStatus, CreateSource, AddSourceProducts, ConfirmObservation,
       RecordSupplierOrder, CancelSupplierOrder, ReturnToSource
<1>5. \A c \in {CreateSession, CreateProduct, UpdateProduct, CreateConversion, ReplaceConversion,
        RetireConversion, CreateGroup, UpdateGroup, CreateStore, UpdateStore} : LooksAtStore(c)
  BY DEF CreateSession, CreateProduct, UpdateProduct, CreateConversion, ReplaceConversion,
       RetireConversion, CreateGroup, UpdateGroup, CreateStore, UpdateStore
<1>6. \A c \in {TransitionSession, ResolveShortage} : LooksAtStore(c)
  BY DEF TransitionSession, ResolveShortage
<1>7. \A c \in {AdjustStock} : LooksAtStore(c)
  BY DEF AdjustStock
<1>8. \A c \in {ReceiveInbound, ConfirmInboundCosts, CancelInbound} : LooksAtStore(c)
  BY DEF ReceiveInbound, ConfirmInboundCosts, CancelInbound
<1>9. \A c \in {DispatchOutbound} : LooksAtStore(c)
  BY DEF DispatchOutbound
<1>10. \A c \in {SubmitPriorityOrder} : LooksAtStore(c)
  BY DEF SubmitPriorityOrder
<1>11. \A c \in {UpdatePriorityStatus} : LooksAtStore(c)
  BY DEF UpdatePriorityStatus
<1>12. \A c \in {DeclareReceipt, SubmitReceipt} : LooksAtStore(c)
  BY DEF DeclareReceipt, SubmitReceipt
<1>13. \A c \in {ReturnReceipt, FinalizeReceipt, ReviewOutbound} : LooksAtStore(c)
  BY DEF ReturnReceipt, FinalizeReceipt, ReviewOutbound
<1>14. \A c \in {ReportAdjustment} : LooksAtStore(c)
  BY DEF ReportAdjustment
<1>15. \A c \in {ActOnAdjustment, ActOnReturn} : LooksAtStore(c)
  BY DEF ActOnAdjustment, ActOnReturn
<1>16. \A c \in {CreateReturn} : LooksAtStore(c)
  BY DEF CreateReturn
<1>17. \A c \in {OpenBag, CreateOutbound} : LooksAtStore(c)
  BY DEF OpenBag, CreateOutbound
<1>18. \A c \in {RecordPartnerInbound} : LooksAtStore(c)
  BY DEF RecordPartnerInbound
<1>19. \A c \in {Sort, MoveCharityToSale, ExportCharity, MoveProductCharityToSale,
        MoveProductCancelToSale, FinalizeCancel, MoveProductSaleToCharity,
        MoveProductSaleToCancel, CreateCharityExport, CreateSaleTransfer,
        ReceiveSaleTransfer, CancelSaleTransfer, ReceiveTransfer, CancelTransfer} : LooksAtStore(c)
  BY DEF Sort, MoveCharityToSale, ExportCharity, MoveProductCharityToSale,
       MoveProductCancelToSale, FinalizeCancel, MoveProductSaleToCharity,
       MoveProductSaleToCancel, CreateCharityExport, CreateSaleTransfer,
       ReceiveSaleTransfer, CancelSaleTransfer, ReceiveTransfer, CancelTransfer
<1>20. \A c \in {CancelWait, CancelWaitDocument} : LooksAtStore(c)
  BY DEF CancelWait, CancelWaitDocument
<1>21. \A c \in {AnswerOffer} : LooksAtStore(c)
  BY DEF AnswerOffer
<1> HIDE DEF LooksAtStore
<1> QED BY <1>1, <1>2, <1>3, <1>4, <1>5, <1>6, <1>7, <1>8, <1>9, <1>10, <1>11, <1>12, <1>13,
       <1>14, <1>15, <1>16, <1>17, <1>18, <1>19, <1>20, <1>21
       DEF AuthorityAssumption, AllCommands

LEMMA RolesOfCommands ==
    ASSUME AuthorityAssumption
    PROVE  \A c \in Commands : c.roles \subseteq Everyone
<1> USE DEF Checks, Everyone, Managers, Admins, StoreSide, Receivers, Shops, Recorders
<1>1. \A c \in {SubmitOrder, CancelOrder, RespondDecision, UpdateReshareStatus, CreateSession,
        TransitionSession, CreateProduct, UpdateProduct, CreateConversion,
        ReplaceConversion} :
        c.roles \subseteq Everyone
  BY DEF SubmitOrder, CancelOrder, RespondDecision, UpdateReshareStatus, CreateSession,
     TransitionSession, CreateProduct, UpdateProduct, CreateConversion, ReplaceConversion,
     SubmitOrderRoute, CancelOrderRoute, RespondDecisionRoute, UpdateReshareStatusRoute,
     CreateSessionRoute, TransitionSessionRoute, CreateProductRoute, UpdateProductRoute,
     CreateConversionRoute, ReplaceConversionRoute
<1>2. \A c \in {RetireConversion, AdjustStock, ResolveShortage, CreateSource, AddSourceProducts,
        ConfirmObservation, RecordSupplierOrder, CancelSupplierOrder, ReturnToSource,
        ReceiveInbound} :
        c.roles \subseteq Everyone
  BY DEF RetireConversion, AdjustStock, ResolveShortage, CreateSource, AddSourceProducts,
     ConfirmObservation, RecordSupplierOrder, CancelSupplierOrder, ReturnToSource,
     ReceiveInbound,
     RetireConversionRoute, AdjustStockRoute, ResolveShortageRoute, CreateSourceRoute,
     AddSourceProductsRoute, ConfirmObservationRoute, RecordSupplierOrderRoute,
     CancelSupplierOrderRoute, ReturnToSourceRoute, ReceiveInboundRoute
<1>3. \A c \in {ConfirmInboundCosts, CancelInbound, CreateGroup, UpdateGroup, CreateStore,
        UpdateStore, DispatchOutbound, SubmitPriorityOrder, UpdatePriorityStatus,
        DeclareReceipt} :
        c.roles \subseteq Everyone
  BY DEF ConfirmInboundCosts, CancelInbound, CreateGroup, UpdateGroup, CreateStore,
     UpdateStore, DispatchOutbound, SubmitPriorityOrder, UpdatePriorityStatus,
     DeclareReceipt,
     ConfirmInboundCostsRoute, CancelInboundRoute, CreateGroupRoute, UpdateGroupRoute,
     CreateStoreRoute, UpdateStoreRoute, DispatchOutboundRoute, SubmitPriorityOrderRoute,
     UpdatePriorityStatusRoute, DeclareReceiptRoute
<1>4. \A c \in {SubmitReceipt, ReturnReceipt, FinalizeReceipt, ReportAdjustment, ActOnAdjustment,
        CreateReturn, ActOnReturn, OpenBag, RecordPartnerInbound, CreateOutbound} :
        c.roles \subseteq Everyone
  BY DEF SubmitReceipt, ReturnReceipt, FinalizeReceipt, ReportAdjustment, ActOnAdjustment,
     CreateReturn, ActOnReturn, OpenBag, RecordPartnerInbound, CreateOutbound,
     SubmitReceiptRoute, ReturnReceiptRoute, FinalizeReceiptRoute, ReportAdjustmentRoute,
     ActOnAdjustmentRoute, CreateReturnRoute, ActOnReturnRoute, OpenBagRoute,
     RecordPartnerInboundRoute, CreateOutboundRoute
<1>5. \A c \in {ReviewOutbound, Sort, MoveCharityToSale, ExportCharity, MoveProductCharityToSale,
        MoveProductCancelToSale, FinalizeCancel, MoveProductSaleToCharity,
        MoveProductSaleToCancel, CreateCharityExport} :
        c.roles \subseteq Everyone
  BY DEF ReviewOutbound, Sort, MoveCharityToSale, ExportCharity, MoveProductCharityToSale,
     MoveProductCancelToSale, FinalizeCancel, MoveProductSaleToCharity,
     MoveProductSaleToCancel, CreateCharityExport,
     ReviewOutboundRoute, SortRoute, MoveCharityToSaleRoute, ExportCharityRoute,
     MoveProductCharityToSaleRoute, MoveProductCancelToSaleRoute, FinalizeCancelRoute,
     MoveProductSaleToCharityRoute, MoveProductSaleToCancelRoute, CreateCharityExportRoute
<1>6. \A c \in {CreateSaleTransfer, ReceiveSaleTransfer, CancelSaleTransfer, ReceiveTransfer,
        CancelTransfer, CancelWait, CancelWaitDocument, AnswerOffer} :
        c.roles \subseteq Everyone
  BY DEF CreateSaleTransfer, ReceiveSaleTransfer, CancelSaleTransfer, ReceiveTransfer,
     CancelTransfer, CancelWait, CancelWaitDocument, AnswerOffer,
     CreateSaleTransferRoute, ReceiveSaleTransferRoute, CancelSaleTransferRoute,
     ReceiveTransferRoute, CancelTransferRoute, CancelWaitRoute, CancelWaitDocumentRoute,
     AnswerOfferRoute
<1> QED BY <1>1, <1>2, <1>3, <1>4, <1>5, <1>6 DEF AuthorityAssumption, AllCommands

\* What a check in the transaction says of the snapshot.
LEMMA InsideSays ==
    ASSUME NEW w, NEW check, InsideChecks(w)[check], who.own => who.role = "STORE"
    PROVE  /\ check \in InsideOfStore \cup InsideOfWarehouse => w.active
           /\ check \in InsideOfStore => Reach(w)
           /\ check \in InsideOfStore \ {"dispatcher"} /\ who.role # "ADMIN" => w.open
<1>1. /\ check = "order" => MayAccessStore(w)
      /\ check = "admin" => ActiveAdministrator(w)
      /\ check = "dispatcher" => Dispatcher(w)
      /\ check = "shop" => ActiveStoreActor(w)
      /\ check = "retailShop" => RetailStoreActor(w)
      /\ check = "partner" => PartnerRecorder(w)
  BY DEF InsideChecks
<1>2. /\ check = "declarer" => Declarer(w)
      /\ check = "reviewer" => Reviewer(w)
      /\ check = "party" => Party(w)
      /\ check = "warehouse" => WarehouseActor(w)
      /\ check = "reshare" => ReshareManager(w)
      /\ check = "priority" => PriorityManager(w)
  BY DEF InsideChecks
<1>3. /\ InsideChecks(w).storeParty => Party(w)
      /\ InsideChecks(w).priorityOrder => PriorityManager(w)
  BY DEF InsideChecks
<1>4. /\ check = "responder" => Responder(w)
      /\ check = "answerer" => OfferAnswerer(w)
      /\ check = "canceller" => WaitCanceller(w)
  BY DEF InsideChecks
<1>5. CASE check \in {"order", "admin", "dispatcher", "shop", "retailShop", "partner"}
  BY <1>1, <1>5 DEF MayAccessStore, ActiveAdministrator, Dispatcher, ActiveStoreActor,
     RetailStoreActor, PartnerRecorder, Reach, InsideOfStore, InsideOfWarehouse
<1>6. CASE check \in {"declarer", "reviewer", "party", "storeParty", "warehouse", "reshare", "priority",
                     "priorityOrder"}
  BY <1>2, <1>3, <1>6 DEF Declarer, Reviewer, Party, WarehouseActor, ReshareManager, PriorityManager,
     InsideOfStore, InsideOfWarehouse
<1>7. CASE check \in {"responder", "answerer", "canceller"}
  BY <1>4, <1>7 DEF Responder, OfferAnswerer, WaitCanceller, Reach, InsideOfStore, InsideOfWarehouse
<1> QED BY <1>5, <1>6, <1>7 DEF InsideOfStore, InsideOfWarehouse

\* What a check before the transaction says of the session that was read.
LEMMA EntrySays ==
    ASSUME NEW scope, NEW w, NEW check, EntryChecks(scope, w)[check]
    PROVE  /\ check \in EntryOfScope => scope
           /\ check \in EntryOfReach => scope \/ who.own
           /\ check = "shop" => who.own
<1>1. /\ check = "receipt" => Receiver(scope, w)
      /\ check = "partner" => Recorder(scope, w)
  BY DEF EntryChecks
<1>2. /\ EntryChecks(scope, w).scope => scope
      /\ EntryChecks(scope, w).order => scope
      /\ EntryChecks(scope, w).responder => scope
  BY DEF EntryChecks
<1>3. EntryChecks(scope, w).shop => who.own
  BY DEF EntryChecks
<1> QED BY <1>1, <1>2, <1>3 DEF EntryOfScope, Receiver, Recorder, EntryOfReach

-----------------------------------------------------------------------------
(* The invariant.                                                          *)

RequestState ==
    [at : {"new", "known", "entered", "begun", "checked", "done", "replayed", "refused"},
     scope : BOOLEAN,
     snap : [world : Rights, stamp : [Rows -> 0..MaxChanges], done : BOOLEAN]]

AccountStands == (who.own => who.role = "STORE") /\ \A x \in Rows : stamp[x] <= changes

\* A row not written since the snapshot says what the snapshot says.
StampsTell(q) ==
    /\ \A x \in Rows : q.snap.stamp[x] <= stamp[x]
    /\ q.snap.stamp["account"] = stamp["account"] => q.snap.world.active = world.active
    /\ q.snap.stamp["assignment"] = stamp["assignment"] => q.snap.world.assigned = world.assigned
    /\ q.snap.stamp["store"] = stamp["store"] => q.snap.world.open = world.open

EntryHeld(q) ==
    /\ command.entry \in EntryOfScope => q.scope
    /\ command.entry \in EntryOfReach => q.scope \/ who.own
    /\ command.entry = "shop" => who.own

InsideHeld(q) ==
    command.inside # "none" =>
        /\ q.snap.world.active
        /\ command.inside \in InsideOfStore => Reach(q.snap.world)
        /\ command.inside \in InsideOfStore \ {"dispatcher"} /\ who.role # "ADMIN" =>
              q.snap.world.open

SharedStand(q) == \A x \in SharedRows(command.inside) : stamp[x] = q.snap.stamp[x]

Carries(q) ==
    /\ StampsTell(q)
    /\ q.at \in {"entered", "begun", "checked", "done"} => EntryHeld(q)
    /\ q.at \in {"checked", "done"} \/ (q.at = "replayed" /\ command.replay) => InsideHeld(q)
    /\ q.at = "checked" => SharedStand(q)

AuthorityInv == TypeOK /\ AccountStands /\ \A r \in Requests : Carries(request[r])

-----------------------------------------------------------------------------
(* The steps.                                                              *)

LEMMA PassesSays ==
    ASSUME AuthorityAssumption, TypeOK, AccountStands, NEW r \in Requests, Passes(r)
    PROVE  InsideHeld(request[r])
<1>1. LooksAtStore(command)
  BY ChecksOfCommands DEF TypeOK
<1>2. SUFFICES ASSUME command.inside # "none"
               PROVE  /\ request[r].snap.world.active
                      /\ command.inside \in InsideOfStore => Reach(request[r].snap.world)
                      /\ command.inside \in InsideOfStore \ {"dispatcher"} /\ who.role # "ADMIN" =>
                            request[r].snap.world.open
  BY DEF InsideHeld
<1>3. command.inside \in InsideOfStore \cup InsideOfWarehouse
  BY <1>1, <1>2 DEF LooksAtStore
<1> QED BY <1>3, InsideSays DEF AccountStands, Passes

\* A step of a request changes its own state alone.
LEMMA RequestKeeps ==
    ASSUME AuthorityInv, NEW r \in Requests, NEW q \in RequestState, Same, done' \in BOOLEAN,
           request' = [request EXCEPT ![r] = q], Carries(q)
    PROVE  AuthorityInv'
<1>1. request \in [Requests -> RequestState]
  BY DEF AuthorityInv, TypeOK, RequestState
<1>2. request' \in [Requests -> RequestState]
  BY <1>1
<1>3. TypeOK'
  BY <1>2 DEF AuthorityInv, TypeOK, RequestState, Same
<1>4. AccountStands'
  BY DEF AuthorityInv, AccountStands, Same
<1>5. \A p : Carries(p)' <=> Carries(p)
  BY DEF Same, Carries, StampsTell, EntryHeld, InsideHeld, SharedStand, SharedRows, Reach
<1>6. ASSUME NEW p \in Requests PROVE Carries(request'[p])
  BY <1>1 DEF AuthorityInv
<1>7. \A p \in Requests : Carries(request[p])'
  BY <1>5, <1>6
<1> QED BY <1>3, <1>4, <1>7 DEF AuthorityInv

LEMMA AuthenticateKeeps ==
    ASSUME AuthorityInv, NEW r \in Requests, Authenticate(r)
    PROVE  AuthorityInv'
<1> DEFINE q == [request[r] EXCEPT !.at = "known", !.scope = PrincipalScope(world)]
<1>1. request[r] \in RequestState /\ world \in Rights
  BY DEF AuthorityInv, TypeOK, RequestState
<1>2. PrincipalScope(world) \in BOOLEAN
  BY DEF PrincipalScope
<1>3. q \in RequestState /\ q.at = "known" /\ q.snap = request[r].snap
  BY <1>1, <1>2 DEF RequestState
<1>4. request' = [request EXCEPT ![r] = q] /\ Same /\ done' \in BOOLEAN
  BY <1>1 DEF Authenticate, AuthorityInv, TypeOK
<1> HIDE DEF q
<1>5. Carries(q)
  BY <1>3 DEF AuthorityInv, Carries, StampsTell
<1> QED BY <1>3, <1>4, <1>5, RequestKeeps

\* The steps that move a request and leave the rest of its state.
LEMMA MoveKeeps ==
    ASSUME AuthorityInv, NEW r \in Requests, Same, done' \in BOOLEAN,
           NEW at \in {"entered", "begun", "checked", "done", "replayed", "refused"}, Goes(r, at),
           at \in {"entered", "begun", "checked", "done"} => EntryHeld(request[r]),
           at \in {"checked", "done"} \/ (at = "replayed" /\ command.replay) => InsideHeld(request[r]),
           at = "checked" => SharedStand(request[r])
    PROVE  AuthorityInv'
<1> DEFINE q == [request[r] EXCEPT !.at = at]
<1>1. request[r] \in RequestState
  BY DEF AuthorityInv, TypeOK, RequestState
<1>2. q \in RequestState /\ q.at = at /\ q.snap = request[r].snap /\ q.scope = request[r].scope
  BY <1>1 DEF RequestState
<1>3. request' = [request EXCEPT ![r] = q]
  BY DEF Goes
<1> HIDE DEF q
<1>4. Carries(q)
  BY <1>2 DEF AuthorityInv, Carries, StampsTell, EntryHeld, InsideHeld, SharedStand
<1> QED BY <1>2, <1>3, <1>4, RequestKeeps

LEMMA BeginKeeps ==
    ASSUME AuthorityInv, NEW r \in Requests, Begin(r)
    PROVE  AuthorityInv'
<1> DEFINE q == [request[r] EXCEPT !.at = "begun", !.snap = Now]
<1>1. /\ request[r] \in RequestState /\ request[r].at = "entered"
      /\ Now \in [world : Rights, stamp : [Rows -> 0..MaxChanges], done : BOOLEAN]
  BY DEF AuthorityInv, TypeOK, RequestState, Begin, Now
<1>2. q \in RequestState /\ q.at = "begun" /\ q.snap = Now /\ q.scope = request[r].scope
  BY <1>1 DEF RequestState
<1>3. request' = [request EXCEPT ![r] = q] /\ Same /\ done' \in BOOLEAN
  BY DEF Begin, AuthorityInv, TypeOK
<1> HIDE DEF q
<1>4. StampsTell(q)
  <2>1. \A x \in Rows : stamp[x] \in Nat
    BY DEF AuthorityInv, TypeOK
  <2> QED BY <1>2, <2>1 DEF StampsTell, Now
<1>5. EntryHeld(q)
  BY <1>1, <1>2 DEF AuthorityInv, Carries, EntryHeld
<1> QED BY <1>2, <1>3, <1>4, <1>5, RequestKeeps DEF Carries

LEMMA RequestStepKeeps ==
    ASSUME AuthorityAssumption, AuthorityInv, NEW r \in Requests, Step(r)
    PROVE  AuthorityInv'
<1>1. Carries(request[r]) /\ done \in BOOLEAN
  BY DEF AuthorityInv, TypeOK
<1>2. CASE Enter(r)
  <2>1. Same /\ done' = done
    BY <1>2 DEF Enter
  <2>2. CASE EntryChecks(request[r].scope, world)[command.entry]
    <3>1. Goes(r, "entered")
      BY <1>2, <2>2 DEF Enter
    <3>2. EntryHeld(request[r])
      BY <2>2, EntrySays DEF EntryHeld
    <3> QED BY <1>1, <2>1, <3>1, <3>2, MoveKeeps
  <2>3. CASE ~EntryChecks(request[r].scope, world)[command.entry]
    <3>1. Goes(r, "refused")
      BY <1>2, <2>3 DEF Enter
    <3> QED BY <1>1, <2>1, <3>1, MoveKeeps
  <2> QED BY <2>2, <2>3
<1>3. CASE StartOver(r)
  <2>1. Same /\ done' = done /\ Goes(r, "entered") /\ request[r].at = "begun"
    BY <1>3 DEF StartOver, Locked
  <2> QED BY <1>1, <2>1, MoveKeeps DEF Carries
<1>4. CASE Replay(r)
  <2>1. Same /\ done' = done /\ Goes(r, "replayed") /\ (command.replay => Passes(r))
    BY <1>4 DEF Replay
  <2>2. command.replay => InsideHeld(request[r])
    BY <2>1, PassesSays DEF AuthorityInv
  <2> QED BY <1>1, <2>1, <2>2, MoveKeeps
<1>5. CASE Refuse(r)
  <2>1. Same /\ done' = done /\ Goes(r, "refused")
    BY <1>5 DEF Refuse
  <2> QED BY <1>1, <2>1, MoveKeeps
<1>6. CASE Check(r)
  <2>1. Same /\ done' = done /\ Goes(r, "checked") /\ Passes(r) /\ request[r].at = "begun" /\ ~Stale(r)
    BY <1>6 DEF Check, Locked
  <2>2. InsideHeld(request[r])
    BY <2>1, PassesSays DEF AuthorityInv
  <2>3. SharedStand(request[r])
    BY <2>1 DEF Stale, SharedStand
  <2> QED BY <1>1, <2>1, <2>2, <2>3, MoveKeeps DEF Carries
<1>7. CASE Commit(r)
  <2>1. Same /\ done' = TRUE /\ Goes(r, "done") /\ request[r].at = "checked"
    BY <1>7 DEF Commit
  <2> QED BY <1>1, <2>1, MoveKeeps DEF Carries
<1> QED BY <1>2, <1>3, <1>4, <1>5, <1>6, <1>7, AuthenticateKeeps, BeginKeeps DEF Step

\* A change stamps the rows it writes, and waits for the rows that are shared.
LEMMA WritesKeeps ==
    ASSUME AuthorityAssumption, AuthorityInv, NEW rows \in SUBSET Rows, NEW rights \in Rights,
           Writes(rows, rights),
           "account" \in rows \/ rights.active = world.active,
           "assignment" \in rows \/ rights.assigned = world.assigned,
           "store" \in rows \/ rights.open = world.open
    PROVE  AuthorityInv'
<1>1. /\ changes \in 0..MaxChanges /\ changes < MaxChanges /\ changes' = changes + 1
      /\ world' = rights /\ UNCHANGED <<command, who, kind, done, request>>
      /\ stamp' = [x \in Rows |-> IF x \in rows THEN changes' ELSE stamp[x]]
      /\ \A x \in Rows : stamp[x] \in 0..MaxChanges /\ stamp[x] <= changes
      /\ MaxChanges \in Nat
  BY DEF Writes, AuthorityInv, AccountStands, TypeOK, AuthorityAssumption
<1>2. /\ changes' \in 0..MaxChanges
      /\ \A x \in Rows : stamp'[x] \in 0..MaxChanges /\ stamp'[x] <= changes'
      /\ \A x \in rows : stamp'[x] = changes'
      /\ \A x \in Rows \ rows : stamp'[x] = stamp[x]
  BY <1>1
<1>3. stamp' \in [Rows -> 0..MaxChanges]
  BY <1>1, <1>2
<1>4. TypeOK'
  BY <1>1, <1>2, <1>3 DEF AuthorityInv, TypeOK
<1>5. AccountStands'
  BY <1>1, <1>2 DEF AuthorityInv, AccountStands
<1>6. ASSUME NEW r \in Requests PROVE Carries(request[r])'
  <2> DEFINE q == request[r]
  <2>1. Carries(q) /\ q' = q /\ \A x \in Rows : q.snap.stamp[x] \in 0..MaxChanges
    BY <1>1 DEF AuthorityInv, TypeOK
  <2> HIDE DEF q
  <2>2. \A x \in rows : q.snap.stamp[x] < stamp'[x]
    BY <1>1, <1>2, <2>1 DEF Carries, StampsTell
  <2>3. \A x \in Rows : q.snap.stamp[x] <= stamp'[x]
    BY <1>2, <2>1, <2>2 DEF Carries, StampsTell
  <2>4. StampsTell(q)'
    BY <1>1, <1>2, <2>1, <2>2, <2>3 DEF Carries, StampsTell, Rows
  <2>5. EntryHeld(q)' <=> EntryHeld(q)
    BY <1>1, <2>1 DEF EntryHeld
  <2>6. InsideHeld(q)' <=> InsideHeld(q)
    BY <1>1, <2>1 DEF InsideHeld, Reach
  <2>7. q.at = "checked" => SharedStand(q)'
    <3>1. SUFFICES ASSUME q.at = "checked" PROVE SharedStand(q)'
      OBVIOUS
    <3>2. SharedRows(command.inside) \cap rows = {}
      BY <3>1 DEF Writes, q
    <3>3. SharedRows(command.inside) \subseteq Rows
      BY DEF SharedRows, Rows
    <3>4. SharedRows(command.inside)' = SharedRows(command.inside)
      BY <1>1 DEF SharedRows
    <3> QED BY <1>2, <2>1, <3>1, <3>2, <3>3, <3>4 DEF Carries, SharedStand
  <2>8. Carries(q)'
    BY <1>1, <2>1, <2>4, <2>5, <2>6, <2>7 DEF Carries
  <2> QED BY <2>8 DEF q
<1> QED BY <1>4, <1>5, <1>6 DEF AuthorityInv

LEMMA ChangeKeeps ==
    ASSUME AuthorityAssumption, AuthorityInv, SetStatus \/ Reassign \/ SetOpen
    PROVE  AuthorityInv'
<1>1. world \in Rights
  BY DEF AuthorityInv, TypeOK
<1>2. CASE SetStatus
  <2> DEFINE rights == [world EXCEPT !.active = ~@]
  <2>1. /\ rights \in Rights /\ rights.assigned = world.assigned /\ rights.open = world.open
    BY <1>1 DEF Rights
  <2>2. Writes({"account"}, rights)
    BY <1>2 DEF SetStatus
  <2> HIDE DEF rights
  <2> QED BY <2>1, <2>2, WritesKeeps DEF Rows
<1>3. CASE Reassign
  <2> DEFINE rights == [world EXCEPT !.assigned = ~@]
  <2>1. /\ rights \in Rights /\ rights.active = world.active /\ rights.open = world.open
    BY <1>1 DEF Rights
  <2>2. Writes({"assignment"}, rights)
    BY <1>3 DEF Reassign
  <2> HIDE DEF rights
  <2> QED BY <2>1, <2>2, WritesKeeps DEF Rows
<1>4. CASE SetOpen
  <2> DEFINE rights == [world EXCEPT !.open = ~@, !.active = @ /\ ~(who.own /\ world.open)]
             rows == {"store"} \cup IF who.own /\ world.open THEN {"account"} ELSE {}
  <2>1. /\ rights \in Rights /\ rights.assigned = world.assigned
        /\ (who.own /\ world.open) \/ rights.active = world.active
    BY <1>1 DEF Rights
  <2>2. Writes(rows, rights)
    BY <1>4 DEF SetOpen
  <2>3. rows \in SUBSET Rows /\ "store" \in rows /\ (who.own /\ world.open => "account" \in rows)
    BY DEF Rows
  <2> HIDE DEF rights, rows
  <2> QED BY <2>1, <2>2, <2>3, WritesKeeps
<1> QED BY <1>2, <1>3, <1>4

LEMMA InitAuthority ==
    ASSUME AuthorityAssumption, Init
    PROVE  AuthorityInv
<1>1. /\ command \in Commands /\ who \in [role : command.roles, own : BOOLEAN]
      /\ kind \in {"retail", "wholesale"} /\ world \in Rights /\ done = FALSE
      /\ who.own => who.role = "STORE"
      /\ stamp = [x \in Rows |-> 0] /\ changes = 0 /\ MaxChanges \in Nat
      /\ request = [r \in Requests |-> [at |-> "new", scope |-> FALSE, snap |-> Now]]
  BY DEF Init, Rights, AuthorityAssumption
<1>2. command.roles \subseteq Everyone
  BY <1>1, RolesOfCommands
<1>3. /\ Now \in [world : Rights, stamp : [Rows -> 0..MaxChanges], done : BOOLEAN]
      /\ Now.world = world /\ Now.stamp = stamp
  <2>1. stamp \in [Rows -> 0..MaxChanges]
    BY <1>1
  <2>2. done \in BOOLEAN
    BY <1>1
  <2> QED BY <1>1, <2>1, <2>2 DEF Now
<1>4. request \in [Requests -> RequestState]
  BY <1>1, <1>3 DEF RequestState
<1>5. TypeOK
  <2>1. who \in [role : Everyone, own : BOOLEAN]
    BY <1>1, <1>2
  <2>2. stamp \in [Rows -> 0..MaxChanges] /\ changes \in 0..MaxChanges
    BY <1>1
  <2> QED BY <1>1, <1>4, <2>1, <2>2 DEF TypeOK, RequestState
<1>6. AccountStands
  BY <1>1 DEF AccountStands
<1>7. ASSUME NEW r \in Requests PROVE Carries(request[r])
  <2>1. request[r].at = "new" /\ request[r].snap = Now
    BY <1>1
  <2>2. \A x \in Rows : stamp[x] = 0
    BY <1>1
  <2> QED BY <1>3, <2>1, <2>2 DEF Carries, StampsTell
<1> QED BY <1>5, <1>6, <1>7 DEF AuthorityInv

-----------------------------------------------------------------------------
(* What it shows.                                                          *)

LEMMA AuthorityAlways ==
    ASSUME AuthorityAssumption
    PROVE  Spec => []AuthorityInv
<1>1. Init => AuthorityInv
  BY InitAuthority
<1>2. AuthorityInv /\ [Next]_vars => AuthorityInv'
  <2>1. SUFFICES ASSUME AuthorityInv, [Next]_vars PROVE AuthorityInv'
    OBVIOUS
  <2>2. CASE Next
    BY <2>1, <2>2, RequestStepKeeps, ChangeKeeps DEF Next
  <2>3. CASE UNCHANGED vars
    BY <2>1, <2>3 DEF vars, AuthorityInv, TypeOK, AccountStands, Carries, StampsTell, EntryHeld,
       InsideHeld, SharedStand, SharedRows, Reach
  <2> QED BY <2>1, <2>2, <2>3
<1> QED BY <1>1, <1>2, PTL DEF Spec

LEMMA WhatAuthorityKeeps ==
    ASSUME AuthorityAssumption, AuthorityInv
    PROVE  RightsHold
<1>1. LooksAtStore(command)
  BY ChecksOfCommands DEF AuthorityInv, TypeOK
<1>2. ASSUME NEW r \in Requests, Finished(r)
      PROVE  EntryHeld(request[r]) /\ InsideHeld(request[r])
  BY <1>2 DEF AuthorityInv, Carries, Finished
<1>3. who.own => who.role = "STORE"
  BY DEF AuthorityInv, AccountStands
<1>4. ActedInScope
  <2>1. SUFFICES ASSUME NEW r \in Requests, Finished(r), command.store
                 PROVE  request[r].scope \/ Reach(request[r].snap.world)
    BY DEF ActedInScope
  <2>2. who.own => Reach(request[r].snap.world)
    BY <1>3 DEF Reach
  <2>3. EntryHeld(request[r]) /\ InsideHeld(request[r])
    BY <1>2, <2>1
  <2>4. CASE command.entry \in EntryOfScope \cup EntryOfReach \cup {"shop"}
    BY <2>2, <2>3, <2>4 DEF EntryHeld
  <2>5. CASE command.inside \in {"storeParty", "answerer", "canceller"}
    BY <2>3, <2>5 DEF InsideHeld, InsideOfStore
  <2> QED BY <1>1, <2>1, <2>4, <2>5 DEF LooksAtStore
<1>5. BeganWithRights
  BY <1>1, <1>2 DEF BeganWithRights, InsideHeld, LooksAtStore
<1>6. ClosedStoreLeftAlone
  BY <1>1, <1>2 DEF ClosedStoreLeftAlone, InsideHeld, LooksAtStore, InsideOfStore
<1>7. SharedRightsStand
  <2>1. SUFFICES ASSUME NEW r \in Requests, request[r].at = "checked",
                        command.inside \in {"answerer", "canceller", "priority", "priorityOrder"}
                 PROVE  world.active /\ (command.store => Reach(world))
    BY DEF SharedRightsStand
  <2>2. InsideHeld(request[r]) /\ SharedStand(request[r]) /\ StampsTell(request[r])
    BY <2>1 DEF AuthorityInv, Carries
  <2>3. world.active
    BY <2>1, <2>2 DEF InsideHeld, SharedStand, StampsTell, SharedRows
  <2>4. command.store => Reach(world)
    <3>1. SUFFICES ASSUME command.store PROVE Reach(world)
      OBVIOUS
    <3>2. Reach(request[r].snap.world) /\ command.inside \in {"answerer", "canceller"}
      BY <1>1, <2>1, <2>2, <3>1 DEF InsideHeld, LooksAtStore, InsideOfStore
    <3>3. who.role = "HTKD" => request[r].snap.world.assigned = world.assigned
      BY <2>2, <3>2 DEF SharedStand, StampsTell, SharedRows
    <3> QED BY <3>2, <3>3 DEF Reach
  <2> QED BY <2>3, <2>4
<1>8. ReplayedToTheEntitled
  BY <1>1 DEF ReplayedToTheEntitled, AuthorityInv, Carries, InsideHeld, LooksAtStore
<1> QED BY <1>4, <1>5, <1>6, <1>7, <1>8 DEF AuthorityInv, RightsHold

\* Every command acts within the rights of its account: the types and the five
\* invariants below.
THEOREM RightsStayHeld ==
    ASSUME AuthorityAssumption
    PROVE  Spec => []RightsHold
<1>1. AuthorityInv => RightsHold
  BY WhatAuthorityKeeps
<1> QED BY <1>1, AuthorityAlways, PTL

\* No command about a store takes effect for an account that never had it.
THEOREM ScopeIsKept ==
    ASSUME AuthorityAssumption
    PROVE  Spec => []ActedInScope
<1>1. RightsHold => ActedInScope
  BY DEF RightsHold
<1> QED BY <1>1, RightsStayHeld, PTL

\* A command that looks again in its transaction acts for an account active,
\* and holding the store, when the transaction began, and below Admin only on
\* an open store.
THEOREM SecondLookCounts ==
    ASSUME AuthorityAssumption
    PROVE  Spec => [](BeganWithRights /\ ClosedStoreLeftAlone)
<1>1. RightsHold => BeganWithRights /\ ClosedStoreLeftAlone
  BY DEF RightsHold
<1> QED BY <1>1, RightsStayHeld, PTL

\* Rights read FOR SHARE stand until the commit (assertActorMayAccessStore).
THEOREM SharedRightsLast ==
    ASSUME AuthorityAssumption
    PROVE  Spec => []SharedRightsStand
<1>1. RightsHold => SharedRightsStand
  BY DEF RightsHold
<1> QED BY <1>1, RightsStayHeld, PTL

\* A stored answer goes to an account active when the repetition began.
THEOREM AnswersToTheEntitled ==
    ASSUME AuthorityAssumption
    PROVE  Spec => []ReplayedToTheEntitled
<1>1. RightsHold => ReplayedToTheEntitled
  BY DEF RightsHold
<1> QED BY <1>1, RightsStayHeld, PTL
=============================================================================
