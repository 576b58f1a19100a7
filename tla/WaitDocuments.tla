--------------------------- MODULE WaitDocuments ---------------------------
(*****************************************************************************)
(* The wait document of one store: at most one current document lists, per  *)
(* product, the demand still open (bags waiting on the store's tickets plus *)
(* bags granted from them in results not answered yet).  Every command that *)
(* changes this demand ends by reconciling the document, which is closed    *)
(* and followed by a successor.  The tickets, the results they feed, the    *)
(* offers, the cancellations confirmed from a preview and the shortages of  *)
(* a receipt are modelled with it.  Every command is one serializable       *)
(* transaction under the stock-jobs lock, so it is one action.              *)
(*****************************************************************************)
EXTENDS Integers, FiniteSets, FiniteSetsExt, TLC

CONSTANTS
    Products,      \* products the store waits for
    ProductOf,     \* [Tickets -> Products]: identifiers a new ticket may take
    Results,       \* numbers of the results of the store, in the order of their runs
    Users,         \* accounts that hold a preview open
    Fresh,         \* the source of bags granted to an ordinary order
    MaxOrder,      \* bags an order asks for
    MaxDocuments   \* bound: documents opened

Tickets == DOMAIN ProductOf

WaitDocumentsAssumption ==
    /\ \A t \in Tickets : ProductOf[t] \in Products
    /\ Fresh \notin Tickets
    /\ MaxOrder \in Nat \ {0} /\ MaxDocuments \in Nat \ {0}
    /\ IsFiniteSet(Products) /\ IsFiniteSet(Tickets)
    /\ Results \subseteq Nat \ {0}

VARIABLES
    ticket,     \* wait_tickets
    offer,      \* the live priority offer of each ticket
    result,     \* allocation_result_decisions with the bags of their lines
    document,   \* the current document, in a set of at most one
    closed,     \* the document closed last, in a set of at most one
    opened,     \* documents opened so far
    preview,    \* per user, the confirmed preview, in a set of at most one
    old         \* the previous release is still running | it changed tickets unseen

vars == <<ticket, offer, result, document, closed, opened, preview, old>>
-----------------------------------------------------------------------------
(* Live demand *)

NoTicket == [status |-> "unused", remaining |-> 0, fulfilled |-> 0, kind |-> "none"]
NoOffer == [state |-> "none", bags |-> 0, full |-> FALSE]
Nothing == [from |-> Fresh, bags |-> 0, short |-> 0, gone |-> FALSE]
NoResult == [status |-> "none", version |-> 0, lines |-> [p \in Products |-> Nothing]]

ActiveOf(tk, p) == {t \in Tickets : ProductOf[t] = p /\ tk[t].status = "active"}
UnusedOf(tk, p) == {t \in Tickets : ProductOf[t] = p /\ tk[t].status = "unused"}

\* The bags of a pending result granted from a ticket.
HeldFrom(res, r, t) ==
    LET line == res[r].lines[ProductOf[t]]
    IN  IF res[r].status = "pending" /\ line.from = t THEN line.bags ELSE 0

Held(res, t) == MapThenSumSet(LAMBDA r : HeldFrom(res, r, t), Results)
OpenOf(tk, res, t) ==
    (IF tk[t].status = "active" THEN tk[t].remaining ELSE 0) + Held(res, t)

Live(tk, res) ==
    [p \in Products |->
        MapThenSumSet(LAMBDA t : OpenOf(tk, res, t), {t \in Tickets : ProductOf[t] = p})]
-----------------------------------------------------------------------------
(* The document *)

Categories == {"confirmed", "cancelled", "adjusted"}
None == [p \in Products |-> [c \in Categories |-> 0]]
Declare(c, quantity) ==
    [p \in Products |-> [d \in Categories |-> IF d = c THEN quantity[p] ELSE 0]]
AllOf(amounts) == amounts["confirmed"] + amounts["cancelled"] + amounts["adjusted"]

Open(doc, p) == doc.lines[p].carried + doc.lines[p].added
Lesser(a, b) == IF a < b THEN a ELSE b

\* What the event resolved of one product: the declared bags, clamped to what is open in the
\* order of the categories, then an undeclared drop under the category of the event.
Clamped(declared, open) ==
    LET confirmed == Lesser(declared["confirmed"], open)
        cancelled == Lesser(declared["cancelled"], open - confirmed)
        adjusted  == Lesser(declared["adjusted"], open - confirmed - cancelled)
    IN  [c \in Categories |-> CASE c = "confirmed" -> confirmed
                                [] c = "cancelled" -> cancelled
                                [] OTHER -> adjusted]

\* Mutant of Resolved: a drop nobody declared is carried on all the same.
ResolvedDeclared(open, next, declared, undeclared) == Clamped(declared, open)

Resolved(open, next, declared, undeclared) ==
    LET taken == Clamped(declared, open)
        left  == open - AllOf(taken)
    IN  [taken EXCEPT ![undeclared] = @ + (left - Lesser(left, next))]

Outcome(closing, opening) ==
    IF \E p \in Products : opening[p].carried + opening[p].added > 0
    THEN IF \E p \in Products : opening[p].added > 0 THEN "merged" ELSE "rolled_over"
    ELSE IF \A p \in Products : closing[p]["confirmed"] + closing[p]["adjusted"] = 0
         THEN "cancelled" ELSE "completed"

Unchanged(doc, live, declared) ==
    /\ declared = None
    /\ \A p \in Products : Open(doc, p) = live[p]

\* reconcileStoreWaitDocumentsInTransaction: the last write of every command.
Reconcile(tk, res, declared, undeclared) ==
    LET live    == Live(tk, res)
        fresh   == [p \in Products |-> [carried |-> 0, added |-> live[p]]]
        anyLive == \E p \in Products : live[p] > 0
    IN  IF document = {}
        THEN /\ document' = IF anyLive THEN {[id |-> opened + 1, lines |-> fresh]} ELSE {}
             /\ opened' = IF anyLive THEN opened + 1 ELSE opened
             /\ UNCHANGED closed
        ELSE LET doc     == CHOOSE d \in document : TRUE
                 closing == [p \in Products |->
                               Resolved(Open(doc, p), live[p], declared[p], undeclared)]
                 carried == [p \in Products |-> Open(doc, p) - AllOf(closing[p])]
                 opening == [p \in Products |->
                               [carried |-> carried[p], added |-> live[p] - carried[p]]]
             IN  IF Unchanged(doc, live, declared)
                 THEN UNCHANGED <<document, closed, opened>>
                 ELSE /\ closed' = {[id |-> doc.id, status |-> Outcome(closing, opening),
                                     lines |-> doc.lines, resolved |-> closing,
                                     carriedOut |-> carried]}
                      /\ document' = IF anyLive THEN {[id |-> opened + 1, lines |-> opening]} ELSE {}
                      /\ opened' = IF anyLive THEN opened + 1 ELSE opened

\* A wait given up after a shortage was declared: that shortage has no wait to reduce any more.
GivenUpNow(tk, p) ==
    \E t \in Tickets : /\ ProductOf[t] = p
                       /\ ticket[t].status # "cancelled" /\ tk[t].status = "cancelled"
                       /\ tk[t].kind \in {"person", "offer"}
Marked(tk, res) ==
    [r \in Results |-> [res[r] EXCEPT !.lines =
        [p \in Products |-> [@[p] EXCEPT !.gone =
            @ \/ (res[r].lines[p].short > 0 /\ GivenUpNow(tk, p))]]]]

\* A command's last write also brings in what the previous release changed.
Written(tk, res, declared, undeclared) ==
    /\ ticket' = tk /\ result' = Marked(tk, res)
    /\ Reconcile(tk, res, declared, undeclared)
    /\ opened' <= MaxDocuments
    /\ old' = [old EXCEPT !.unseen = FALSE]
-----------------------------------------------------------------------------
(* Tickets *)

\* New waiting demand: added to the active ticket of the product, or to a new one.
CanQueue(tk, p, n) == n = 0 \/ ActiveOf(tk, p) # {} \/ UnusedOf(tk, p) # {}
Queue(tk, p, n) ==
    IF n = 0 THEN tk
    ELSE IF ActiveOf(tk, p) # {}
    THEN [tk EXCEPT ![CHOOSE t \in ActiveOf(tk, p) : TRUE].remaining = @ + n]
    ELSE [tk EXCEPT ![CHOOSE t \in UnusedOf(tk, p) : TRUE] =
            [NoTicket EXCEPT !.status = "active", !.remaining = n]]

\* The bags of an ended full offer, and the ticket it then cancels.
Covers(t, tk) == offer[t].full /\ tk[t].status = "active" /\ tk[t].remaining <= offer[t].bags
CancelAutomatically(tk, gone) ==
    [t \in Tickets |-> IF t \in gone THEN [tk[t] EXCEPT !.status = "cancelled", !.kind = "offer"]
                       ELSE tk[t]]
RemainingOf(tk, gone) ==
    [p \in Products |->
        MapThenSumSet(LAMBDA t : tk[t].remaining, {t \in gone : ProductOf[t] = p})]

Init ==
    /\ ticket = [t \in Tickets |-> NoTicket]
    /\ offer = [t \in Tickets |-> NoOffer]
    /\ result = [r \in Results |-> NoResult]
    /\ document = {} /\ closed = {} /\ opened = 0
    /\ preview = [u \in Users |-> {}]
    /\ old \in [running : BOOLEAN, unseen : {FALSE}]

\* 08:00: a ticket is offered all it waits for, or a part of it.
MakeOffer(t, bags) ==
    /\ ticket[t].status = "active" /\ offer[t].state = "none"
    /\ bags \in 1..ticket[t].remaining
    /\ offer' = [offer EXCEPT ![t] =
                    [state |-> "offered", bags |-> bags, full |-> bags = ticket[t].remaining]]
    /\ UNCHANGED <<ticket, result, document, closed, opened, preview, old>>

AcceptOffer(t) ==
    /\ offer[t].state = "offered"
    /\ offer' = [offer EXCEPT ![t].state = "accepted"]
    /\ Written(ticket, result, None, "cancelled")
    /\ UNCHANGED preview

\* A declined full offer ends the demand it stood for; a declined part keeps it.
DeclineOffer(t) ==
    /\ offer[t].state = "offered"
    /\ offer' = [offer EXCEPT ![t] = NoOffer]
    /\ LET gone == IF Covers(t, ticket) THEN {t} ELSE {}
       IN  Written(CancelAutomatically(ticket, gone), result,
                   Declare("cancelled", RemainingOf(ticket, gone)), "cancelled")
    /\ UNCHANGED preview

\* 09:00: unanswered full offers lapse, accepted offers are served, then the orders of products
\* the store does not wait for; what an order lacks starts to wait.
Served(p, tk, n) ==
    IF ActiveOf(tk, p) # {}
    THEN LET t == CHOOSE u \in ActiveOf(tk, p) : TRUE
         IN  [tk EXCEPT ![t] = [@ EXCEPT !.remaining = @ - n, !.fulfilled = @ + n,
                                !.status = IF tk[t].remaining = n THEN "fulfilled" ELSE "active"]]
    ELSE tk

LineOf(p, tk, n) ==
    IF n = 0 THEN Nothing
    ELSE [from |-> IF ActiveOf(tk, p) # {} THEN CHOOSE t \in ActiveOf(tk, p) : TRUE ELSE Fresh,
          bags |-> n, short |-> 0, gone |-> FALSE]

\* One operation per product; each touches the tickets of its product only.
PerProduct(Op(_, _), tk) == [t \in Tickets |-> Op(ProductOf[t], tk)[t]]

Run(r, ordered, granted) ==
    LET lapsed == {t \in Tickets : offer[t].state = "offered" /\ Covers(t, ticket)}
        kept   == CancelAutomatically(ticket, lapsed)
        waits  == {p \in Products : ActiveOf(kept, p) # {}}
        short  == [p \in Products |-> IF p \in waits THEN 0 ELSE ordered[p] - granted[p]]
        served == PerProduct(LAMBDA p, tk : Served(p, tk, granted[p]), kept)
        after  == PerProduct(LAMBDA p, tk : Queue(tk, p, short[p]), served)
        lines  == [p \in Products |-> LineOf(p, kept, granted[p])]
        status == IF \E p \in Products : granted[p] > 0 THEN "pending" ELSE "empty"
    IN  /\ result[r].status = "none" /\ \A q \in Results : q < r => result[q].status # "none"
        \* A store cannot order a product it waits for.
        /\ \A p \in Products : ActiveOf(ticket, p) # {} => ordered[p] = 0
        /\ \A p \in Products :
              /\ p \notin waits => granted[p] <= ordered[p]
              /\ \A t \in ActiveOf(kept, p) :
                    granted[p] <= IF offer[t].state = "accepted" THEN offer[t].bags ELSE 0
              /\ CanQueue(served, p, short[p])
        /\ offer' = [t \in Tickets |-> NoOffer]
        /\ Written(after, [result EXCEPT ![r] = [status |-> status, version |-> 1, lines |-> lines]],
                   Declare("cancelled", RemainingOf(ticket, lapsed)), "adjusted")
        /\ UNCHANGED preview
-----------------------------------------------------------------------------
(* Answers *)

Granted(line) == IF line.from = Fresh THEN 0 ELSE line.bags

AcceptResult(r) ==
    /\ result[r].status = "pending"
    /\ Written(ticket, [result EXCEPT ![r].status = "accepted", ![r].version = @ + 1],
               Declare("confirmed", [p \in Products |-> Granted(result[r].lines[p])]), "confirmed")
    /\ UNCHANGED <<offer, preview>>

\* planWaitlistRequeue: bags of the active ticket go back to it, others become new demand; the
\* demand of a cancelled ticket is not queued again.
Requeued(tk, p, line) ==
    IF line.from # Fresh /\ tk[line.from].status = "cancelled" THEN tk
    ELSE IF line.from # Fresh /\ tk[line.from].status = "active"
    THEN [tk EXCEPT ![line.from].remaining = @ + line.bags, ![line.from].fulfilled = @ - line.bags]
    ELSE Queue(tk, p, line.bags)

WaitlistResult(r) ==
    LET after == PerProduct(LAMBDA p, tk : Requeued(tk, p, result[r].lines[p]), ticket)
    IN  /\ result[r].status = "pending"
        /\ \A p \in Products : CanQueue(ticket, p, result[r].lines[p].bags)
        /\ Written(after, [result EXCEPT ![r] =
                              [@ EXCEPT !.status = "waitlisted", !.version = @ + 1]],
                   None, "cancelled")
        /\ UNCHANGED <<offer, preview>>
-----------------------------------------------------------------------------
(* Cancellations *)

Cancellable(t) ==
    /\ ticket[t].status \in {"active", "fulfilled"}
    /\ OpenOf(ticket, result, t) > 0

\* loadCancellationScope: what a cancellation of the ticket would touch, and its fingerprint.
TicketPrint(t) ==
    [ticket |-> ticket[t], offer |-> offer[t].state,
     lines |-> [r \in {q \in Results : result[q].lines[ProductOf[t]].from = t
                                       /\ result[q].status \in {"pending", "accepted", "received"}}
                  |-> <<result[r].status, result[r].version, result[r].lines[ProductOf[t]].bags>>]]

LiveTickets == {t \in Tickets : OpenOf(ticket, result, t) > 0}
CancelSet == {t \in LiveTickets : Cancellable(t)}
DocumentPrint ==
    [document |-> {d.id : d \in document},
     tickets |-> [t \in CancelSet |-> TicketPrint(t)],
     awaiting |-> [t \in LiveTickets \ CancelSet |-> Held(result, t)]]

PreviewTicket(u, t) ==
    /\ ticket[t].status # "unused"
    /\ preview' = [preview EXCEPT ![u] = {[of |-> {t}, print |-> TicketPrint(t)]}]
    /\ UNCHANGED <<ticket, offer, result, document, closed, opened, old>>

PreviewDocument(u) ==
    /\ document # {}
    /\ preview' = [preview EXCEPT ![u] =
                      {[of |-> {d.id : d \in document}, print |-> DocumentPrint]}]
    /\ UNCHANGED <<ticket, offer, result, document, closed, opened, old>>

\* revokeResultHoldsInTransaction: the bags of the tickets leave their pending results; a result
\* left with nothing is cancelled.
Revoke(gone) ==
    [r \in Results |->
        LET touched == {p \in Products : /\ result[r].status = "pending"
                                         /\ result[r].lines[p].from \in gone}
            lines   == [p \in Products |-> IF p \in touched THEN Nothing ELSE result[r].lines[p]]
        IN  IF touched = {} THEN result[r]
            ELSE [status |-> IF \A p \in Products : lines[p].bags = 0 THEN "cancelled" ELSE "pending",
                  version |-> result[r].version + 1, lines |-> lines]]

CancelByHand(tk, gone) ==
    [t \in Tickets |->
        IF t \in gone
        THEN [status |-> "cancelled", remaining |-> tk[t].remaining + Held(result, t),
              fulfilled |-> tk[t].fulfilled - Held(result, t), kind |-> "person"]
        ELSE tk[t]]

OpenQuantity(gone) ==
    [p \in Products |-> MapThenSumSet(LAMBDA t : ticket[t].remaining + Held(result, t),
                                      {t \in gone : ProductOf[t] = p})]
CancelTickets(gone) ==
    /\ offer' = [t \in Tickets |-> IF t \in gone THEN NoOffer ELSE offer[t]]
    /\ Written(CancelByHand(ticket, gone), Revoke(gone),
               Declare("cancelled", OpenQuantity(gone)), "cancelled")

\* A ticket is cancelled from a confirmed preview; only one that revokes nothing may go without.
Confirmed(u, t) == \E seen \in preview[u] : seen.of = {t} /\ seen.print = TicketPrint(t)

CancelTicket(u, t) ==
    /\ Cancellable(t)
    /\ Confirmed(u, t) \/ Held(result, t) = 0
    /\ CancelTickets({t})
    /\ preview' = [preview EXCEPT ![u] = {}]

\* The whole document, always from a preview, and never its successor instead.
DocumentConfirmed(u) ==
    \E seen \in preview[u] : seen.of = {d.id : d \in document} /\ seen.print = DocumentPrint

CancelDocument(u) ==
    /\ document # {} /\ DocumentConfirmed(u)
    /\ CancelSet # {}
    /\ CancelTickets(CancelSet)
    /\ document' # document
    /\ preview' = [preview EXCEPT ![u] = {}]
-----------------------------------------------------------------------------
(* Shortages of a receipt *)

\* restoreShortageWait: the missing bags wait again on the ticket they came from; a newer active
\* ticket is folded into it.  A ticket somebody gave up is never reopened.
GivenUp(t) == ticket[t].kind \in {"person", "offer"}

Restored(tk, p, source, n) ==
    LET active == ActiveOf(tk, p)
        reopen == [tk[source] EXCEPT !.status = "active", !.remaining = @ + n, !.fulfilled = @ - n,
                                     !.kind = "none"]
    IN  IF source = Fresh \/ GivenUp(source) THEN Queue(tk, p, n)
        ELSE IF active \subseteq {source} THEN [tk EXCEPT ![source] = reopen]
        ELSE LET other == CHOOSE t \in active : TRUE
             IN  [tk EXCEPT ![source] = [reopen EXCEPT !.remaining = @ + tk[other].remaining],
                            ![other] = [@ EXCEPT !.status = "cancelled", !.kind = "merge"]]

CanRestore(p, source, n) ==
    IF source = Fresh \/ GivenUp(source) THEN CanQueue(ticket, p, n)
    ELSE ticket[source].fulfilled >= n

\* undoShortageWait: a corrected shortage leaves the active ticket of the product.
CanUndo(p, source, n) ==
    \E t \in ActiveOf(ticket, p) :
        /\ ticket[t].remaining >= n /\ offer[t].state = "none"
        /\ source \in {Fresh, t}
Undone(tk, p, source, n) ==
    LET t == CHOOSE u \in ActiveOf(tk, p) : TRUE
        left == tk[t].remaining - n
    IN  [tk EXCEPT ![t] =
          IF source # Fresh
          THEN [@ EXCEPT !.remaining = left, !.fulfilled = @ + n,
                         !.status = IF left = 0 THEN "fulfilled" ELSE "active"]
          ELSE IF left = 0 /\ tk[t].fulfilled = 0
          THEN [@ EXCEPT !.status = "cancelled", !.kind = "corrected"]
          ELSE [@ EXCEPT !.remaining = left, !.status = IF left = 0 THEN "fulfilled" ELSE "active"]]

DeclareReceipt(r, p, n) ==
    LET line == result[r].lines[p]
        more == n > line.short
        after == IF more THEN Restored(ticket, p, line.from, n - line.short)
                 ELSE IF line.gone THEN ticket
                 ELSE Undone(ticket, p, line.from, line.short - n)
    IN  /\ result[r].status = "accepted" /\ n \in 0..line.bags /\ n # line.short
        /\ IF more THEN CanRestore(p, line.from, n - line.short)
           ELSE line.gone \/ CanUndo(p, line.from, line.short - n)
        /\ Written(after, [result EXCEPT ![r].lines[p] = [@ EXCEPT !.short = n, !.gone = FALSE]],
                   None, "adjusted")
        /\ UNCHANGED <<offer, preview>>

FinalizeReceipt(r) ==
    /\ result[r].status = "accepted"
    /\ Written(ticket, [result EXCEPT ![r].status = "received"], None, "adjusted")
    /\ UNCHANGED <<offer, preview>>
-----------------------------------------------------------------------------
(* A deployment *)

\* The previous release changes tickets without touching the documents.
OldRelease(t) ==
    /\ old.running
    /\ ticket[t].status = "active" /\ offer[t].state = "none" /\ Held(result, t) = 0
    /\ ticket' = [ticket EXCEPT ![t].status = "cancelled", ![t].kind = "person"]
    /\ old' = [old EXCEPT !.unseen = TRUE]
    /\ result' = Marked(ticket', result)
    /\ UNCHANGED <<offer, document, closed, opened, preview>>

OldReleaseStops ==
    /\ old.running /\ old' = [old EXCEPT !.running = FALSE]
    /\ UNCHANGED <<ticket, offer, result, document, closed, opened, preview>>

\* Worker start-up: every store is brought in step.
Sync ==
    /\ Written(ticket, result, None, "adjusted")
    /\ UNCHANGED <<offer, preview>>

Next ==
    \/ \E t \in Tickets :
        \/ \E bags \in 1..(2 * MaxOrder) : MakeOffer(t, bags)
        \/ AcceptOffer(t) \/ DeclineOffer(t) \/ OldRelease(t)
        \/ \E u \in Users : PreviewTicket(u, t) \/ CancelTicket(u, t)
    \/ \E u \in Users : PreviewDocument(u) \/ CancelDocument(u)
    \/ \E r \in Results :
        \/ \E ordered \in [Products -> 0..MaxOrder], granted \in [Products -> 0..(2 * MaxOrder)] :
              Run(r, ordered, granted)
        \/ AcceptResult(r) \/ WaitlistResult(r) \/ FinalizeReceipt(r)
        \/ \E p \in Products, n \in 0..(2 * MaxOrder) : DeclareReceipt(r, p, n)
    \/ OldReleaseStops
    \/ Sync

Spec == Init /\ [][Next]_vars
-----------------------------------------------------------------------------
(* Properties *)

Quantity == 0..(2 * MaxOrder * Cardinality(Results))

TypeOK ==
    /\ \A t \in Tickets :
        /\ ticket[t].status \in {"unused", "active", "fulfilled", "cancelled"}
        /\ ticket[t].remaining \in Nat /\ ticket[t].fulfilled \in Nat
        /\ (ticket[t].status = "active") => ticket[t].remaining > 0
        /\ ticket[t].kind \in {"none", "person", "offer", "merge", "corrected"}
    /\ \A r \in Results, p \in Products :
        result[r].lines[p].short <= result[r].lines[p].bags
    /\ \A p \in Products : Cardinality(ActiveOf(ticket, p)) <= 1
    /\ Cardinality(document) <= 1 /\ opened \in 0..MaxDocuments

\* The demand of a store, counted from its tickets and unanswered results alone.
Demand(p) ==
    MapThenSumSet(LAMBDA t : IF ticket[t].status = "active" THEN ticket[t].remaining ELSE 0,
                  {t \in Tickets : ProductOf[t] = p})
    + MapThenSumSet(LAMBDA r : result[r].lines[p].bags,
                    {r \in Results : result[r].status = "pending"
                                     /\ result[r].lines[p].from # Fresh})

\* Unless the previous release changed a ticket since the last write, the current document shows
\* exactly the open demand, and there is none when nothing is open.
DocumentInStep ==
    ~old.unseen =>
        /\ document = {} => \A p \in Products : Demand(p) = 0
        /\ \A d \in document :
            /\ \A p \in Products : d.lines[p].carried + d.lines[p].added = Demand(p)
            /\ \E p \in Products : Demand(p) > 0

\* Every bag of a closed document is confirmed, cancelled, adjusted or carried on, and the
\* successor carries in exactly what was carried out.
ChainConserves ==
    \A c \in closed :
        /\ \A p \in Products :
            /\ c.carriedOut[p] \in Nat /\ \A k \in Categories : c.resolved[p][k] \in Nat
            /\ c.lines[p].carried + c.lines[p].added
                 = c.resolved[p]["confirmed"] + c.resolved[p]["cancelled"]
                   + c.resolved[p]["adjusted"] + c.carriedOut[p]
        /\ c.status \in {"completed", "cancelled"} => \A p \in Products : c.carriedOut[p] = 0
        /\ \A d \in document : d.id = c.id + 1 /\ c.status \in {"merged", "rolled_over"} =>
              \A p \in Products : d.lines[p].carried = c.carriedOut[p] /\ d.lines[p].added >= 0

\* What the step closed, by product and category.
Recorded(p, c) ==
    IF closed' = closed THEN 0 ELSE (CHOOSE d \in closed' : TRUE).resolved[p][c]
Answered(p) ==
    MapThenSumSet(LAMBDA r : result[r].lines[p].bags,
                  {r \in Results : /\ result[r].status = "pending" /\ result'[r].status = "accepted"
                                   /\ result[r].lines[p].from # Fresh})
Ended(t) == ticket[t].status \in {"active", "fulfilled"} /\ ticket'[t].status = "cancelled"
Abandoned(p) ==
    MapThenSumSet(LAMBDA t : ticket[t].remaining + Held(result, t) - Held(result', t),
                  {t \in Tickets : ProductOf[t] = p /\ Ended(t) /\ ticket'[t].kind \in {"person", "offer"}})
    + MapThenSumSet(LAMBDA r : result[r].lines[p].bags,
                    {r \in Results : /\ result[r].status = "pending"
                                     /\ result'[r].status = "waitlisted"
                                     /\ result[r].lines[p].from # Fresh
                                     /\ ticket[result[r].lines[p].from].status = "cancelled"})
Reduced(p) ==
    MapThenSumSet(LAMBDA r : result[r].lines[p].short - result'[r].lines[p].short,
                  {r \in Results : /\ result[r].status = "accepted" /\ ~result[r].lines[p].gone
                                   /\ result'[r].lines[p].short < result[r].lines[p].short})

\* The closed document says what became of the demand: confirmed bags are those the store's answer
\* confirmed, cancelled bags those somebody gave up, adjusted bags those of a corrected shortage.
\* A step of the previous release, or the catch-up after it, is outside.
RecordsWhatHappened ==
    (~old.unseen /\ ~old'.unseen) =>
      \A p \in Products : /\ Recorded(p, "confirmed") = Answered(p)
                          /\ Recorded(p, "cancelled") = Abandoned(p)
                          /\ Recorded(p, "adjusted") = Reduced(p)

\* A document is replaced only when the open demand changed or some of it was resolved: a run that
\* moves bags from waiting to a result, an answer about other goods or a catch-up leaves it.
NoEmptyTurnover ==
    (~old.unseen /\ ~old'.unseen /\ document' # document) =>
      \E p \in Products : \/ Demand(p)' # Demand(p)
                          \/ \E c \in Categories : Recorded(p, c) > 0

\* Bags leave a result that waits for its answer only by that answer, or in a cancellation whose
\* confirmed preview showed exactly these bags under this version of the result.
ShownBags(u, r, t) ==
    \E seen \in preview[u] :
        LET print == IF seen.of = {t} THEN {seen.print}
                     ELSE IF seen.of \subseteq Nat /\ t \in DOMAIN seen.print.tickets
                     THEN {seen.print.tickets[t]} ELSE {}
        IN  \E ps \in print : /\ r \in DOMAIN ps.lines
                              /\ ps.lines[r] = <<"pending", result[r].version, HeldFrom(result, r, t)>>
RevokedAsShown ==
    \A r \in Results, t \in Tickets :
      (/\ HeldFrom(result, r, t) > 0 /\ result'[r].status \in {"pending", "cancelled"}
       /\ result'[r].lines[ProductOf[t]].bags < HeldFrom(result, r, t))
      => \E u \in Users : ShownBags(u, r, t) /\ preview'[u] = {}
=============================================================================
