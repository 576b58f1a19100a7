----------------------------- MODULE WebCommands -----------------------------
(***************************************************************************)
(* The forms of the web application that send commands, and the part of    *)
(* the API that runs them.                                                 *)
(*                                                                         *)
(* A command carries an idempotency key.  The browser gives a request up   *)
(* after two minutes, or when the network fails, and then does not know    *)
(* whether it was carried out: the server may still be running it.  The    *)
(* form keeps the key so that sending the same thing again is a repeat     *)
(* and not a second command.  The forms of the application do this in      *)
(* different ways, which are the values of Forms:                          *)
(*   keeps  one key, one per fingerprint ("all"), or none at all;          *)
(*   edit   whether editing the draft leaves the kept key alone, drops     *)
(*          it, or is impossible while one is kept; in the last two cases  *)
(*          the request itself is kept with the key;                       *)
(*   print  what a fingerprint holds besides the contents of the draft:    *)
(*          the version or identity of the data shown, the clock; one      *)
(*          form leaves part of its contents out of it;                    *)
(*   frees  the answers after which the key is dropped;                    *)
(*   guard  what the server compares besides the key: the version or state *)
(*          of the data acted on, a unique name in the contents, nothing.  *)
(***************************************************************************)
EXTENDS Naturals, FiniteSets

CONSTANTS Contents,     \* what a draft may say
          Forms,        \* the forms of this instance
          MaxSends,     \* bound on requests sent by the page
          MaxChanges    \* bound on changes of the data by somebody else

VARIABLES form,       \* the form the user works with
          content,    \* what the draft says
          shown,      \* the version of the data on the screen
          kept,       \* the keys kept for a repeat
          awaited,    \* the request whose answer the form awaits, at most one
          answer,     \* its answer on the way back, at most one
          sent,       \* every request sent, in the order of their numbers
          waiting,    \* the numbers of requests the server has not taken up
          running,    \* the numbers of requests in a transaction of the server
          done,       \* the requests that took effect
          version,    \* the version of the data in the database
          round       \* how often the user's wish for each content was settled

page == <<content, shown, kept, awaited, answer, sent, round>>
server == <<waiting, running, done, version>>
vars == <<form, page, server>>

-----------------------------------------------------------------------------
(* The forms.  Each is named for the command it sends.                     *)

Slot(frees, guard) ==
    [keeps |-> "one", edit |-> "leaves", frees |-> frees, guard |-> guard,
     print |-> IF guard = "version" THEN {"shown"} ELSE {}]
Map(frees, guard) == [Slot(frees, guard) EXCEPT !.keeps = "all"]
Frozen(edit, frees, guard) == [Slot(frees, guard) EXCEPT !.edit = edit]

Refusals == {"refused", "conflict", "busy"}

AllocationAnswer == Slot({"ok"} \cup Refusals, "version")
OfferAnswer == Slot({"ok"}, "version")
OfferNoticeAnswer == Slot({"ok"}, "version")
TicketCancellation == Slot({"ok"} \cup Refusals, "version")
DocumentCancellation == Slot({"ok"}, "version")
StockAdjustment == Slot({"ok"}, "version")
Observation == Slot({"ok"}, "version")
ReshareStatus == Slot({"ok", "conflict"}, "version")
SourceSetting == Slot({"ok"}, "name")
SupplierOrder == Slot({"ok"}, "name")
SupplierOrderCancellation == Slot({"ok"}, "version")
StoreEdit == Map({"ok", "conflict"}, "version")
ReceiptCommand == Map({"ok"}, "none")
BagOpening == Map({"ok"}, "version")
Sorting == Map({"ok"}, "version")
BucketMove == Map({"ok"}, "none")
TransferCommand == Map({"ok"}, "version")
SaleTransfer == Map({"ok"}, "none")
SaleTransferReceipt == Map({}, "version")
SaleTransferCancellation == Map({}, "version")
ShortageDecision == [Map({}, "version") EXCEPT !.print = {"shown", "no contents"}]
GoodsReceipt == Map({"ok"}, "version")
SessionCommand == Map({"ok"}, "version")
OrderCancellation == Map({"ok"}, "version")
WarehouseInbound == Frozen("drops", {"ok"}, "none")
EmergencyOrder == Frozen("locked", {"ok"} \cup Refusals, "none")
EmergencyStatus == Frozen("locked", {"ok"} \cup Refusals, "version")
PartnerInbound ==
    [Frozen("drops", {"ok"}, "none") EXCEPT !.print = {"clock"}]
AccountForm == [Slot({"ok"}, "name") EXCEPT !.keeps = "none"]

-----------------------------------------------------------------------------
Init ==
    /\ form \in Forms
    /\ content \in Contents
    /\ shown = 0 /\ version = 0
    /\ kept = {} /\ awaited = {} /\ answer = {}
    /\ sent = {}
    /\ waiting = {} /\ running = {} /\ done = {}
    /\ round = [c \in Contents |-> 0]

Number == Cardinality(sent) + 1
Request(n) == CHOOSE r \in sent : r.number = n
Settled(cs) == [c \in Contents |-> IF c \in cs THEN round[c] + 1 ELSE round[c]]

\* What tells one command of the form from another.
Fingerprint ==
    <<IF "no contents" \in form.print THEN {} ELSE {content},
      IF "shown" \in form.print THEN shown ELSE 0,
      IF "clock" \in form.print THEN Number ELSE 0>>

\* The kept key that a press of the button uses again.
Fits(k) ==
    \/ form.edit # "leaves" /\ "clock" \notin form.print
    \/ k.print = Fingerprint

\* The user changes the draft.
Edit(c) ==
    /\ awaited = {} /\ c # content
    /\ form.edit = "locked" => kept = {}
    /\ content' = c
    /\ kept' = IF form.edit = "drops" THEN {} ELSE kept
    /\ round' = IF form.edit = "drops" /\ kept # {} THEN Settled(Contents) ELSE round
    /\ UNCHANGED <<form, shown, awaited, answer, sent, server>>

\* Mutant of Kept: the key is not kept at all.
KeptNever(k) == {}

\* The keys kept once a request goes out with k.
Kept(k) == IF form.keeps = "none" THEN {}
           ELSE IF form.keeps = "one" THEN {k} ELSE kept \cup {k}

\* The button: a kept key that fits, with its request, or a new key.
Submit ==
    /\ awaited = {} /\ Number <= MaxSends
    /\ LET fitting == {k \in kept : Fits(k)}
           fresh == [print |-> Fingerprint, key |-> Number, content |-> content,
                     basis |-> shown, round |-> round[content]]
           k == IF fitting = {} THEN fresh ELSE CHOOSE f \in fitting : TRUE
           frozen == form.edit # "leaves"
           r == [number |-> Number, key |-> k.key,
                 content |-> IF frozen THEN k.content ELSE content,
                 basis |-> IF frozen THEN k.basis ELSE shown,
                 round |-> IF frozen THEN k.round ELSE round[content]]
       IN /\ kept' = Kept(k)
          /\ sent' = sent \cup {r}
          /\ awaited' = {r.number}
          /\ waiting' = waiting \cup {r.number}
          \* another command in a single slot gives the former one up
          /\ round' = IF form.keeps = "one" /\ fitting = {} /\ kept # {}
                      THEN [c \in Contents |-> IF c = content THEN round[c] ELSE round[c] + 1]
                      ELSE round
    /\ UNCHANGED <<form, content, shown, answer, running, done, version>>

-----------------------------------------------------------------------------
(* The server: a command whose key is known is answered again, one whose   *)
(* key is being used waits until its own time is up, another runs in a     *)
(* transaction that ends with an effect or with nothing.                   *)

Recorded(r) == {d \in done : d.key = r.key}
InUse(r) == \E n \in running : Request(n).key = r.key

\* Whether the data still are what the request was made for.
Current(r) ==
    CASE form.guard = "version" -> version = r.basis
      [] form.guard = "name"    -> \A d \in done : d.content # r.content
      [] OTHER                  -> TRUE

Reply(n, what) == answer' = IF awaited = {n} THEN {what} ELSE answer

SameRequest(d, r) == d.content = r.content /\ d.basis = r.basis

Replay(n) ==
    /\ n \in waiting /\ Recorded(Request(n)) # {}
    /\ Reply(n, IF \A d \in Recorded(Request(n)) : SameRequest(d, Request(n))
                THEN "ok" ELSE "refused")
    /\ waiting' = waiting \ {n}
    /\ UNCHANGED <<form, content, shown, kept, awaited, sent, round, running, done, version>>

Begin(n) ==
    /\ n \in waiting /\ Recorded(Request(n)) = {} /\ ~InUse(Request(n))
    /\ waiting' = waiting \ {n}
    /\ running' = running \cup {n}
    /\ UNCHANGED <<form, page, done, version>>

Busy(n) ==
    /\ n \in waiting /\ InUse(Request(n))
    /\ waiting' = waiting \ {n}
    /\ Reply(n, "busy")
    /\ UNCHANGED <<form, content, shown, kept, awaited, sent, round, running, done, version>>

\* The effect, its record and the new version are one transaction.
Commit(n) ==
    /\ n \in running /\ Current(Request(n))
    /\ running' = running \ {n}
    /\ done' = done \cup {Request(n)}
    /\ version' = IF form.guard = "version" THEN version + 1 ELSE version
    /\ Reply(n, "ok")
    /\ UNCHANGED <<form, content, shown, kept, awaited, sent, round, waiting>>

\* A rule of the domain or a version refuses the command, or it fails.
Refuse(n) ==
    /\ n \in running
    /\ running' = running \ {n}
    /\ Reply(n, IF Current(Request(n)) THEN "refused" ELSE "conflict")
    /\ UNCHANGED <<form, content, shown, kept, awaited, sent, round, waiting, done, version>>

\* A request the network lost never reaches the server.
LoseRequest(n) ==
    /\ n \in waiting
    /\ waiting' = waiting \ {n}
    /\ UNCHANGED <<form, page, running, done, version>>

\* Somebody else changes the data.
Change ==
    /\ form.guard = "version" /\ version < Cardinality(done) + MaxChanges
    /\ version' = version + 1
    /\ UNCHANGED <<form, page, waiting, running, done>>

-----------------------------------------------------------------------------
(* The page again.                                                         *)

\* Whether an answer makes the form drop the key it was sent with.
Freed(what) == what \in form.frees

Remaining(what) ==
    IF ~Freed(what) THEN kept
    ELSE {k \in kept : k.key # Request(CHOOSE n \in awaited : TRUE).key}

\* What a screen that turns to newer data says of the user's earlier wishes.
Reread(v) == IF v # shown /\ "shown" \in form.print THEN Settled(Contents) ELSE round

\* An answer arrives: done, or refused for good.
Receive ==
    /\ awaited # {} /\ answer # {}
    /\ LET what == CHOOSE a \in answer : TRUE
           r == Request(CHOOSE n \in awaited : TRUE)
       IN /\ kept' = Remaining(what)
          /\ \E v \in IF what = "ok" THEN {version} ELSE {shown, version} :
                /\ shown' = v
                /\ round' = IF what = "ok" THEN Settled({r.content}) ELSE Reread(v)
    /\ awaited' = {} /\ answer' = {}
    /\ UNCHANGED <<form, content, sent, server>>

\* No answer, or none that can be read: the outcome is unknown.
GiveUp ==
    /\ awaited # {}
    /\ kept' = Remaining("unknown")
    /\ awaited' = {} /\ answer' = {}
    /\ UNCHANGED <<form, content, shown, sent, round, server>>

Refetch ==
    /\ awaited = {} /\ shown # version
    /\ shown' = version
    /\ round' = Reread(version)
    /\ UNCHANGED <<form, content, kept, awaited, answer, sent, server>>

\* Reloading the page, which a reset of the data forces, forgets everything.
Reload ==
    /\ sent # {} /\ (kept # {} \/ awaited # {})
    /\ kept' = {} /\ awaited' = {} /\ answer' = {}
    /\ shown' = version
    /\ round' = Settled(Contents)
    /\ UNCHANGED <<form, content, sent, server>>

Next ==
    \/ \E c \in Contents : Edit(c)
    \/ Submit
    \/ \E n \in waiting \cup running :
          Replay(n) \/ Begin(n) \/ Busy(n) \/ Commit(n) \/ Refuse(n) \/ LoseRequest(n)
    \/ Change
    \/ Receive \/ GiveUp \/ Refetch \/ Reload

Spec == Init /\ [][Next]_vars

-----------------------------------------------------------------------------
TypeOK ==
    /\ form \in Forms /\ content \in Contents
    /\ shown \in Nat /\ version \in Nat
    /\ Cardinality(awaited) <= 1 /\ Cardinality(answer) <= Cardinality(awaited)
    /\ awaited \cup waiting \cup running \subseteq 1..Cardinality(sent)
    /\ waiting \cap running = {} /\ done \subseteq sent
    /\ \A k \in kept : k.key \in 1..Cardinality(sent)

\* However often a command is sent until its outcome is known, and whatever
\* arrives late, it takes effect once.  Guards: the retained keys of every
\* form, which a lost answer, an edit or another command must not drop.
DoneOnce ==
    \A d, e \in done : d.content = e.content /\ d.round = e.round => d = e

\* The server compares the contents of a repeat with the first request of
\* its key and refuses one that differs, so a form must never send two
\* different things with one key.
KeyNamesOneRequest ==
    \A r, s \in sent : r.key = s.key => r.content = s.content /\ r.basis = s.basis

\* A success the user is shown is a success of exactly what was sent, also
\* when it is the answer of an earlier attempt.
SuccessIsReal ==
    answer = {"ok"} =>
        \A n \in awaited : \E d \in done :
            d.key = Request(n).key /\ d.content = Request(n).content

=============================================================================
