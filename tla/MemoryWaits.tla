------------------------------ MODULE MemoryWaits ------------------------------
(***************************************************************************)
(* Wait tickets, their priority offers and the wait document of one store  *)
(* in the in-memory server. The document is not stored: it is the set of   *)
(* open tickets, named by a hash of what they say. Clients confirm a       *)
(* cancellation from a preview, and send a command again, with its key,    *)
(* when the answer does not arrive.                                        *)
(***************************************************************************)
EXTENDS Naturals, FiniteSets, Sequences

CONSTANTS
    Tickets,      \* ticket rows; each is of a product of its own in its time
    Products,
    MaxUnits,     \* bags a ticket waits for (bound)
    MaxCommands,  \* commands the clients send (bound)
    Scopes        \* what clients cancel: single tickets, whole documents

MemoryWaitBounds ==
    MaxUnits \in Nat /\ MaxCommands \in Nat /\ Scopes \subseteq {"TICKET", "DOCUMENT"}

VARIABLES
    ticket,       \* waitTickets
    offer,        \* priorityOffers by ticket: one at most
    expired,      \* the offers' response time is over
    commands,     \* commands sent, numbered by their keys
    done,         \* keys remembered with a result (waitMutationIdempotency)
    refused       \* keys that were told a refusal after they were done

vars == <<ticket, offer, expired, commands, done, refused>>

Open(t) == ticket[t].status = "OPEN"
\* effectivePriorityOffer
OfferNow(t) == IF offer[t].status = "PENDING" /\ expired THEN "EXPIRED" ELSE offer[t].status
\* effectiveWaitTicket
TicketNow(t) == IF ~Open(t) THEN ticket[t].status
                ELSE IF OfferNow(t) = "PENDING" THEN "OFFERED" ELSE "WAITING"

\* memoryWaitFingerprint; nothing is ever fulfilled in memory.
Fingerprint(t) == <<t, TicketNow(t), ticket[t].remaining>>

\* memoryWaitDocuments: what is open, as the hash tells it.
Members == {t \in Tickets : Open(t) /\ ticket[t].remaining > 0}
Document == {Fingerprint(t) : t \in Members}

Init ==
    /\ ticket \in [Tickets -> [status : {"none", "OPEN"}, product : Products, remaining : 1 .. MaxUnits]]
    /\ \A t, u \in Tickets : t # u /\ Open(t) /\ Open(u) => ticket[t].product # ticket[u].product
    /\ offer \in [Tickets -> [status : {"none", "PENDING"}, offered : {1}, full : BOOLEAN]]
    /\ \A t \in Tickets : offer[t].status = "PENDING"
          => Open(t) /\ (offer[t].full <=> ticket[t].remaining = 1)
    /\ \A t \in Tickets : offer[t].status = "none" => ~offer[t].full
    /\ expired = FALSE
    /\ commands = <<>> /\ done = {} /\ refused = {}

Expire ==
    /\ ~expired
    /\ expired' = TRUE
    /\ UNCHANGED <<ticket, offer, commands, done, refused>>

Active(p) == {t \in Tickets : Open(t) /\ ticket[t].product = p}

\* requeueMemoryDemand: a declined result joins the open ticket of its product.
Requeue(p, n) ==
    /\ IF Active(p) # {}
       THEN \E t \in Active(p) :
              /\ ticket[t].remaining + n <= MaxUnits
              /\ ticket' = [ticket EXCEPT ![t].remaining = @ + n]
       ELSE \E t \in Tickets :
              /\ ticket[t].status = "none"
              /\ ticket' = [ticket EXCEPT ![t] = [status |-> "OPEN", product |-> p, remaining |-> n]]
    /\ UNCHANGED <<offer, expired, commands, done, refused>>

-----------------------------------------------------------------------------
(* Commands: a client sends what its preview shows, any number of times. *)

Send(command) ==
    /\ Len(commands) < MaxCommands
    /\ commands' = Append(commands, command)
    /\ UNCHANGED <<ticket, offer, expired, done, refused>>

\* A command names its tickets, the fingerprints and the bags its page shows.
Intent(does, ts) ==
    [does |-> does, of |-> ts, seen |-> {Fingerprint(t) : t \in ts},
     bags |-> [t \in ts |-> ticket[t].remaining]]
PreviewTicket(t) == Open(t) /\ Send(Intent("CANCEL", {t}))
PreviewDocument == Members # {} /\ Send(Intent("CANCEL_ALL", Members))
SeeOffer(t, answer) == OfferNow(t) = "PENDING" /\ Send(Intent(answer, {t}))

\* The waits end, and with them what was offered or promised for them.
Closed(ts) ==
    /\ ticket' = [t \in Tickets |-> IF t \in ts THEN [ticket[t] EXCEPT !.status = "CANCELLED"] ELSE ticket[t]]
    /\ offer' = [t \in Tickets |->
                  IF t \in ts /\ OfferNow(t) \in {"PENDING", "ACCEPTED"}
                  THEN [offer[t] EXCEPT !.status = "CANCELLED"] ELSE offer[t]]

Remember(k) == done' = done \cup {k} /\ UNCHANGED <<expired, commands, refused>>
Refuse(k) == /\ refused' = IF k \in done THEN refused \cup {k} ELSE refused
             /\ UNCHANGED <<ticket, offer, expired, commands, done>>

\* replayWaitMutation: ticket cancellations and offer answers look their key up
\* first; the cancellation of a document has no record of its own.
Replays(k) == k \in done /\ commands[k].does # "CANCEL_ALL"

CancelTicket(k) ==
    /\ commands[k].does = "CANCEL" /\ ~Replays(k)
    /\ \E t \in commands[k].of :
          IF Open(t) /\ commands[k].seen = {Fingerprint(t)}
          THEN Closed({t}) /\ Remember(k)
          ELSE Refuse(k)

\* The document is found by what it says, previewed again, then its tickets are
\* cancelled one after the other.
CancelDocument(k) ==
    /\ commands[k].does = "CANCEL_ALL" /\ ~Replays(k)
    /\ IF commands[k].seen = Document
       THEN Closed(Members) /\ Remember(k)
       ELSE Refuse(k)

\* A full offer that is declined ends the wait, unless demand was added since.
EndsWait(t) == offer[t].full /\ ticket[t].remaining <= offer[t].offered

Answer(k) ==
    /\ commands[k].does \in {"ACCEPT", "DECLINE"} /\ ~Replays(k)
    /\ \E t \in commands[k].of :
          IF OfferNow(t) = "PENDING" /\ Open(t)
          THEN /\ offer' = [offer EXCEPT ![t].status =
                              IF commands[k].does = "ACCEPT" THEN "ACCEPTED" ELSE "DECLINED"]
               /\ ticket' = IF commands[k].does = "DECLINE" /\ EndsWait(t)
                            THEN [ticket EXCEPT ![t].status = "CANCELLED"] ELSE ticket
               /\ Remember(k)
          ELSE Refuse(k)

Next ==
    \/ Expire
    \/ \E p \in Products, n \in 1 .. MaxUnits : Requeue(p, n)
    \/ \E t \in Tickets : \/ "TICKET" \in Scopes /\ PreviewTicket(t)
                          \/ \E a \in {"ACCEPT", "DECLINE"} : SeeOffer(t, a)
    \/ "DOCUMENT" \in Scopes /\ PreviewDocument
    \/ \E k \in DOMAIN commands : CancelTicket(k) \/ CancelDocument(k) \/ Answer(k)

Spec == Init /\ [][Next]_vars

-----------------------------------------------------------------------------
(* Properties. *)

\* Rows have their shape, and a store waits once per product.
TypeOK ==
    /\ ticket \in [Tickets -> [status : {"none", "OPEN", "CANCELLED"}, product : Products, remaining : 1 .. MaxUnits]]
    /\ \A t, u \in Tickets : t # u /\ Open(t) /\ Open(u) => ticket[t].product # ticket[u].product
    /\ \A t \in Tickets : offer[t].status \in {"none", "PENDING", "ACCEPTED", "DECLINED", "CANCELLED"}

\* No offer can be answered, or was accepted, for a wait that ended.
OffersEndWithTheirWait ==
    \A t \in Tickets : ticket[t].status = "CANCELLED" => OfferNow(t) \notin {"PENDING", "ACCEPTED"}

\* A command that was done is told so again, whenever it is repeated.
DoneIsToldAgain == refused = {}

\* A wait ends only as a client saw it: in a cancellation it confirmed, with the
\* bags it was shown, or with the full offer it declined.
EndsAsSeen ==
    \A t \in Tickets : Open(t) /\ ~Open(t)' =>
     \E k \in done' \ done :
         /\ t \in commands[k].of
         /\ commands[k].does = "DECLINE" => ticket[t].remaining = offer[t].offered
         /\ commands[k].does # "DECLINE" => ticket[t].remaining = commands[k].bags[t]
=============================================================================
