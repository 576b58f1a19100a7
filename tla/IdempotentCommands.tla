------------------------- MODULE IdempotentCommands -------------------------
(***************************************************************************)
(* How a command travels from a form in the browser to the database, and   *)
(* why it takes effect once.  The browser names each attempt with a key;   *)
(* the server runs the command in a serializable transaction that first    *)
(* takes the advisory lock of the key and then looks the key up in         *)
(* idempotency_keys.  Answers can be lost, the browser gives up waiting    *)
(* and sends again, transactions fail and are retried, records expire.     *)
(*                                                                         *)
(* The transaction reads the snapshot it took BEFORE it waited for the     *)
(* lock: pg_advisory_xact_lock is its first statement.  What it finds can  *)
(* be stale, and only the serialization failure of its write tells.        *)
(***************************************************************************)
EXTENDS Naturals, FiniteSets

CONSTANTS
    User,         \* forms, one command at a time each
    Panel,        \* those that keep a key by document, not by content
    Body,         \* request bodies (their hash)
    NoBody,
    Ttl,          \* DEFAULT_TTL_MS
    Retention,    \* RETENTION.idempotencyDays, counted from the expiry
    MaxAttempts,  \* of a serializable transaction
    MaxRequests,  \* bound: requests sent
    MaxTime       \* bound: the clock

CommandAssumption ==
    /\ NoBody \notin Body /\ Panel \subseteq User
    /\ Ttl \in Nat \ {0} /\ Retention \in Nat
    /\ MaxAttempts \in Nat \ {0}
    /\ MaxRequests \in Nat /\ MaxTime \in Nat

Request == 1 .. MaxRequests
Key     == 1 .. MaxRequests     \* crypto.randomUUID(): never drawn twice
NoKey   == 0
Nobody  == 0                    \* no request

VARIABLES
    now,
    form,      \* the browser: what each user's form believes; chain is a
               \* history of the requests that repeated one command
    sent,      \* number of requests sent
    drawn,     \* number of keys drawn
    request,   \* where each request is, and its transaction
    holder,    \* pg_advisory_xact_lock of each key
    record,    \* committed rows of idempotency_keys
    effects    \* history: the operations that committed

vars == <<now, form, sent, drawn, request, holder, record, effects>>

NoRow == [body |-> NoBody, by |-> Nobody, expires |-> 0]
Row   == [body: Body \cup {NoBody}, by: Request \cup {Nobody}, expires: Nat]

Unsent == [phase |-> "unsent", key |-> NoKey, body |-> NoBody, attempt |-> 0,
           seen |-> NoRow, answer |-> "none", result |-> Nobody]
IdleForm == [state |-> "idle", key |-> NoKey, body |-> NoBody,
             request |-> Nobody, chain |-> {}]

TypeOK ==
    /\ now \in 0 .. MaxTime
    /\ form \in [User -> [state: {"idle", "waiting", "unsure", "done", "refused"},
                          key: Key \cup {NoKey}, body: Body \cup {NoBody},
                          request: Request \cup {Nobody},
                          chain: SUBSET Request]]
    /\ sent \in 0 .. MaxRequests /\ drawn \in 0 .. MaxRequests
    /\ request \in
         [Request -> [phase: {"unsent", "sent", "waiting", "locked",
                              "answered", "gone"},
                      key: Key \cup {NoKey}, body: Body \cup {NoBody},
                      attempt: 0 .. MaxAttempts, seen: Row,
                      answer: {"none", "ok", "conflict", "refused", "busy",
                               "failed"},
                      result: Request \cup {Nobody}]]
    /\ holder \in [Key -> Request \cup {Nobody}]
    /\ record \in [Key -> Row]
    /\ effects \subseteq [key: Key, body: Body, by: Request, at: Nat]

Init ==
    /\ now = 0
    /\ form = [u \in User |-> IdleForm]
    /\ sent = 0 /\ drawn = 0
    /\ request = [r \in Request |-> Unsent]
    /\ holder = [k \in Key |-> Nobody]
    /\ record = [k \in Key |-> NoRow]
    /\ effects = {}

-----------------------------------------------------------------------------
(* The browser.                                                            *)

(* The user repeats a command whose outcome is open.                       *)
Repeats(u, b) == form[u].state = "unsure" /\ form[u].body = b

(* retainIdempotencyForExactRetry: the form still holds the key of the     *)
(* attempt it repeats.  The shortage panel files its keys by check, version *)
(* and decision: it reuses one after any failure, for another reason too.  *)
RetainsKey(u, b) ==
    \/ Repeats(u, b)
    \/ u \in Panel /\ form[u].state \in {"unsure", "refused"}

(* A click.  The same content goes out again under the same key.           *)
Send(u, b) ==
    /\ form[u].state # "waiting"
    /\ sent < MaxRequests
    /\ LET key == IF RetainsKey(u, b) THEN form[u].key ELSE drawn + 1
       IN /\ drawn' = IF RetainsKey(u, b) THEN drawn ELSE drawn + 1
          /\ form' = [form EXCEPT ![u] =
                         [state |-> "waiting", key |-> key, body |-> b,
                          request |-> sent + 1,
                          chain |-> {sent + 1} \cup
                                    IF Repeats(u, b) THEN @.chain ELSE {}]]
          /\ request' = [request EXCEPT ![sent + 1].phase = "sent",
                                        ![sent + 1].key = key,
                                        ![sent + 1].body = b]
    /\ sent' = sent + 1
    /\ UNCHANGED <<now, holder, record, effects>>

(* The browser's deadline passes, or the connection breaks: the request    *)
(* may still be anywhere.                                                  *)
GiveUp(u) ==
    /\ form[u].state = "waiting"
    /\ form' = [form EXCEPT ![u].state = "unsure"]
    /\ UNCHANGED <<now, sent, drawn, request, holder, record, effects>>

(* The page is reloaded: the retained attempt lived in memory.             *)
Reload(u) ==
    /\ form[u].state # "idle"
    /\ form' = [form EXCEPT ![u] = IdleForm]
    /\ UNCHANGED <<now, sent, drawn, request, holder, record, effects>>

(* isUncertainOutcome: only a server failure leaves the outcome open, any  *)
(* refusal is final and frees the key.                                     *)
Belief(answer) == CASE answer = "ok" -> "done"
                    [] answer = "failed" -> "unsure"
                    [] OTHER -> "refused"

Receive(u) ==
    /\ form[u].state = "waiting"
    /\ LET r == form[u].request
       IN /\ request[r].phase = "answered"
          /\ form' = [form EXCEPT ![u].state = Belief(request[r].answer)]
          /\ request' = [request EXCEPT ![r].phase = "gone"]
    /\ UNCHANGED <<now, sent, drawn, holder, record, effects>>

(* A request or its answer is lost on the way.                             *)
Lose(r) ==
    /\ request[r].phase \in {"sent", "answered"}
    /\ request' = [request EXCEPT ![r].phase = "gone"]
    /\ UNCHANGED <<now, form, sent, drawn, holder, record, effects>>

-----------------------------------------------------------------------------
(* The server: one transaction per attempt.                                *)

(* Mutant of Freed: the lock outlives the transaction.                     *)
KeptLocked(r) == holder

(* Advisory locks are released with their transaction.                     *)
Freed(r) == [k \in Key |-> IF holder[k] = r THEN Nobody ELSE holder[k]]

Answer(r, answer, result) ==
    /\ request' = [request EXCEPT ![r].phase = "answered",
                                  ![r].answer = answer,
                                  ![r].result = result]
    /\ holder' = Freed(r)

(* The transaction begins, and with its first statement takes both its     *)
(* snapshot and a place in the queue for the lock of its key.              *)
Begin(r) ==
    /\ request[r].phase = "sent"
    /\ request' = [request EXCEPT ![r].phase = "waiting",
                                  ![r].attempt = @ + 1,
                                  ![r].seen = record[request[r].key]]
    /\ UNCHANGED <<now, form, sent, drawn, holder, record, effects>>

LockIsFree(r) == holder[request[r].key] = Nobody

Lock(r) ==
    /\ request[r].phase = "waiting" /\ LockIsFree(r)
    /\ request' = [request EXCEPT ![r].phase = "locked"]
    /\ holder' = [holder EXCEPT ![request[r].key] = r]
    /\ UNCHANGED <<now, form, sent, drawn, record, effects>>

(* lock_timeout of the session: the API answers 409 CONFLICT.              *)
LockTimeout(r) ==
    /\ request[r].phase = "waiting" /\ ~LockIsFree(r)
    /\ Answer(r, "busy", Nobody)
    /\ UNCHANGED <<now, form, sent, drawn, record, effects>>

(* statement_timeout (503), or the connection or the process dies: the     *)
(* transaction is rolled back.                                             *)
Fail(r) ==
    /\ request[r].phase \in {"waiting", "locked"}
    /\ \/ Answer(r, "failed", Nobody)
       \/ /\ request' = [request EXCEPT ![r].phase = "gone"]
          /\ holder' = Freed(r)
    /\ UNCHANGED <<now, form, sent, drawn, record, effects>>

(* The record the transaction found still counts.                          *)
Recorded(r) == request[r].seen # NoRow /\ request[r].seen.expires > now
SameBody(r) == request[r].seen.body = request[r].body

(* IdempotencyConflictError                                                *)
RefuseOtherBody(r) ==
    /\ request[r].phase = "locked" /\ Recorded(r) /\ ~SameBody(r)
    /\ Answer(r, "conflict", Nobody)
    /\ UNCHANGED <<now, form, sent, drawn, record, effects>>

(* A completed record answers for its operation.  A record in progress is  *)
(* never seen: it is completed in the transaction that writes it.          *)
Replay(r) ==
    /\ request[r].phase = "locked" /\ Recorded(r) /\ SameBody(r)
    /\ Answer(r, "ok", request[r].seen.by)
    /\ UNCHANGED <<now, form, sent, drawn, record, effects>>

(* Mutant of Stale: the write of a stale reader goes through.              *)
NeverStale(r) == FALSE

(* Writing a row that another transaction changed since the snapshot fails *)
(* with 40001.                                                             *)
Stale(r) == record[request[r].key] # request[r].seen

MustRun(r) == request[r].phase = "locked" /\ ~Recorded(r)

Commit(r) ==
    /\ MustRun(r) /\ ~Stale(r)
    /\ LET k == request[r].key
           b == request[r].body
       IN /\ record' = [record EXCEPT ![k] = [body |-> b, by |-> r,
                                              expires |-> now + Ttl]]
          /\ effects' = effects \cup {[key |-> k, body |-> b, by |-> r,
                                       at |-> now]}
    /\ Answer(r, "ok", r)
    /\ UNCHANGED <<now, form, sent, drawn>>

(* The operation itself refuses; nothing is recorded.                      *)
RefuseOperation(r) ==
    /\ MustRun(r)
    /\ Answer(r, "refused", Nobody)
    /\ UNCHANGED <<now, form, sent, drawn, record, effects>>

MayRetry(r) == request[r].attempt < MaxAttempts

(* withSerializableTransaction starts over with a fresh snapshot, until    *)
(* its attempts are used up (409 CONFLICT).                                *)
SerializationFailure(r) ==
    /\ MustRun(r) /\ Stale(r)
    /\ IF MayRetry(r)
       THEN /\ request' = [request EXCEPT ![r].phase = "sent"]
            /\ holder' = Freed(r)
       ELSE Answer(r, "busy", Nobody)
    /\ UNCHANGED <<now, form, sent, drawn, record, effects>>

(* pruneOperationalHistory                                                 *)
Prunable(k) == record[k] # NoRow /\ record[k].expires + Retention < now

Prune(k) ==
    /\ Prunable(k)
    /\ record' = [record EXCEPT ![k] = NoRow]
    /\ UNCHANGED <<now, form, sent, drawn, request, holder, effects>>

Tick ==
    /\ now < MaxTime
    /\ now' = now + 1
    /\ UNCHANGED <<form, sent, drawn, request, holder, record, effects>>

Serve(r) ==
    \/ Begin(r) \/ Lock(r) \/ RefuseOtherBody(r) \/ Replay(r) \/ Commit(r)
    \/ RefuseOperation(r) \/ SerializationFailure(r)

Next ==
    \/ \E u \in User :
         \/ \E b \in Body : Send(u, b)
         \/ GiveUp(u) \/ Reload(u) \/ Receive(u)
    \/ \E r \in Request : Serve(r) \/ Lose(r) \/ LockTimeout(r) \/ Fail(r)
    \/ \E k \in Key : Prune(k)
    \/ Tick

Spec == Init /\ [][Next]_vars

(* A running server serves the requests that reached it.                   *)
FairSpec == Spec /\ \A r \in 1 .. MaxRequests : WF_vars(Serve(r))

-----------------------------------------------------------------------------
(* An operation takes effect once: two effects under one key are further   *)
(* apart than the life of its record, whatever was repeated or retried     *)
(* meanwhile (withIdempotency).                                            *)
OneEffectPerKey ==
    \A d, e \in effects :
        d.key = e.key /\ d # e => d.at >= e.at + Ttl \/ e.at >= d.at + Ttl

(* Whoever is told that a command succeeded is told the result of an       *)
(* operation with exactly its content, and under its key.                  *)
AnswerIsOfThisCommand ==
    \A r \in Request : request[r].answer = "ok" =>
        \E e \in effects :
            /\ e.by = request[r].result
            /\ e.key = request[r].key /\ e.body = request[r].body

(* A user who, unsure of the outcome, sends the same command again and     *)
(* again, does it once: of all those requests one takes effect, in the     *)
(* life of a record (the promise of respondErrorMessage).                  *)
RepeatingIsSafe ==
    \A u \in User : \A d, e \in effects :
        {d.by, e.by} \subseteq form[u].chain /\ d # e
            => d.at >= e.at + Ttl \/ e.at >= d.at + Ttl

(* What withIdempotency promises of every command, however it is repeated. *)
CommandsOnce ==
    TypeOK /\ OneEffectPerKey /\ AnswerIsOfThisCommand /\ RepeatingIsSafe
=============================================================================
