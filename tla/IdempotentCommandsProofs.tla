---------------------- MODULE IdempotentCommandsProofs ----------------------
(***************************************************************************)
(* A command takes effect once, for every number of forms, keys, requests  *)
(* and attempts and every life of a record (IdempotentCommands, named      *)
(* Once(c) for the constants that c holds).                                *)
(*                                                                         *)
(* OneEffectPerKey is inductive together with EffectsAged: a record        *)
(* outlives the life of its effects, and where there is none they are all  *)
(* older than a life.  That answers are of the own command rests on Told:  *)
(* rows, snapshots and answers name committed effects.  That repeating is  *)
(* safe rests on Chained: the repetitions of a command share its key.      *)
(*                                                                         *)
(* The second half is about the forms that send the commands (WebCommands, *)
(* named Web(c) for the constants that c holds): a wish is settled once,   *)
(* by the version it was sent with, by the key that is kept until it has   *)
(* succeeded, or by the name of what it makes.                             *)
(***************************************************************************)
EXTENDS Naturals, FiniteSetTheorems, TLAPS

\* A command that is repeated under its key
VARIABLES now, form, sent, drawn, request, holder, record, effects

\* The forms of the web application
VARIABLES draftForm, content, shown, kept, awaited, answer, posted, waiting,
          running, done, dataVersion, round

-----------------------------------------------------------------------------
(* Commands and their keys.                                                *)

\* IdempotentCommands with the constants that c names.
Once(c) == INSTANCE IdempotentCommands WITH
    User <- c.user, Panel <- c.panel, Body <- c.body, NoBody <- c.noBody,
    Ttl <- c.ttl, Retention <- c.retention, MaxAttempts <- c.maxAttempts,
    MaxRequests <- c.maxRequests, MaxTime <- c.maxTime

-----------------------------------------------------------------------------
(* Types.                                                                  *)

(* Requests are numbered as they are sent, each with a key; whoever has    *)
(* sent something knows under which key.                                   *)
Orderly(c) ==
    /\ drawn <= sent
    /\ \A r \in Once(c)!Request : r > sent => request[r] = Once(c)!Unsent
    /\ \A r \in Once(c)!Request : r <= sent => request[r].key \in Once(c)!Key
       /\ request[r].body \in c.body
    /\ \A r \in Once(c)!Request : request[r].phase = "sent"
       => request[r].attempt < c.maxAttempts
    /\ \A u \in c.user : form[u].state # "idle" =>
          form[u].key \in Once(c)!Key /\ form[u].request \in Once(c)!Request

Typed(c) == Once(c)!TypeOK /\ Orderly(c)

LEMMA InitTyped ==
    ASSUME NEW CONSTANT c, Once(c)!CommandAssumption, Once(c)!Init
    PROVE  Typed(c)
BY DEF Once!CommandAssumption, Once!Init, Typed, Once!TypeOK, Orderly, Once!Request,
       Once!Key, Once!NoKey, Once!Nobody, Once!NoRow,
       Once!Row, Once!Unsent, Once!IdleForm

LEMMA SendTyped ==
    ASSUME NEW CONSTANT c, Once(c)!CommandAssumption, Typed(c), NEW u \in c.user,
           NEW b \in c.body, Once(c)!Send(u, b)
    PROVE  Typed(c)'
<1> DEFINE key == IF Once(c)!RetainsKey(u, b) THEN form[u].key ELSE drawn + 1
           chain == {sent + 1} \cup IF Once(c)!Repeats(u, b) THEN form[u].chain ELSE {}
           n == sent + 1
<1>1. /\ drawn \in 0 .. c.maxRequests /\ sent \in 0 .. c.maxRequests /\ drawn <= sent
      /\ sent < c.maxRequests /\ c.maxRequests \in Nat
  BY DEF Once!CommandAssumption, Typed, Once!TypeOK, Orderly, Once!Send
<1>2. key \in Once(c)!Key
  BY <1>1 DEF Typed, Orderly, Once!RetainsKey, Once!Repeats, Once!Key
<1>3. n \in Once(c)!Request /\ chain \in SUBSET Once(c)!Request
  BY <1>1 DEF Typed, Once!TypeOK, Once!Request
<1>4. /\ drawn' \in 0 .. c.maxRequests /\ drawn' <= sent' /\ sent' = n
         /\ sent' \in 0 .. c.maxRequests
  BY <1>1 DEF Once!Send
<1>5. /\ form' = [form EXCEPT ![u] = [state |-> "waiting", key |-> key, body |-> b,
                                      request |-> n, chain |-> chain]]
      /\ request' = [request EXCEPT ![n].phase = "sent", ![n].key = key, ![n].body = b]
      /\ UNCHANGED <<now, holder, record, effects>>
  BY DEF Once!Send
<1>6. request[n] = Once(c)!Unsent
  BY <1>1, <1>3 DEF Typed, Orderly
<1> HIDE DEF key, chain, n
<1>7. Once(c)!TypeOK'
  BY <1>2, <1>3, <1>4, <1>5, <1>6 DEF Typed, Once!TypeOK, Once!Unsent
<1>8. Orderly(c)'
  <2>1. /\ \A r \in Once(c)!Request : r # n => request'[r] = request[r]
        /\ request'[n].phase = "sent" /\ request'[n].key = key /\ request'[n].body = b
        /\ request'[n].attempt = request[n].attempt
    BY <1>3, <1>5 DEF Typed, Once!TypeOK
  <2>2. \A r \in Once(c)!Request : r > n => request'[r] = Once(c)!Unsent
    BY <1>1, <1>3, <2>1 DEF Typed, Orderly, Once!Request, n
  <2>3. \A r \in Once(c)!Request : r <= n => request'[r].key \in Once(c)!Key
        /\ request'[r].body \in c.body
    BY <1>1, <1>2, <1>3, <2>1 DEF Typed, Orderly, Once!Request, n
  <2>4. \A r \in Once(c)!Request : request'[r].phase = "sent"
        => request'[r].attempt < c.maxAttempts
    BY <1>3, <1>6, <2>1 DEF Typed, Orderly, Once!Unsent, Once!CommandAssumption
  <2>5. \A w \in c.user : form'[w].state # "idle" =>
           form'[w].key \in Once(c)!Key /\ form'[w].request \in Once(c)!Request
    BY <1>2, <1>3, <1>5 DEF Typed, Once!TypeOK, Orderly
  <2> QED BY <1>4, <2>2, <2>3, <2>4, <2>5 DEF Orderly
<1> QED BY <1>7, <1>8 DEF Typed

RequestState(c) ==
    [phase: {"unsent", "sent", "waiting", "locked", "answered", "gone"},
     key: Once(c)!Key \cup {Once(c)!NoKey}, body: c.body \cup {c.noBody},
     attempt: 0 .. c.maxAttempts, seen: Once(c)!Row,
     answer: {"none", "ok", "conflict", "refused", "busy", "failed"},
     result: Once(c)!Request \cup {Once(c)!Nobody}]

(* What a step may do to a request that is under way.                      *)
Advances(c, r) ==
    /\ request[r].phase # "unsent"
    /\ request' = [request EXCEPT ![r] = request'[r]]
    /\ request'[r] \in RequestState(c)
    /\ request'[r].key = request[r].key /\ request'[r].body = request[r].body
    /\ request'[r].phase = "sent" => request'[r].attempt < c.maxAttempts
    /\ UNCHANGED <<sent, drawn>>

LEMMA AdvanceOrderly ==
    ASSUME NEW CONSTANT c, Once(c)!CommandAssumption, Typed(c),
           NEW r \in Once(c)!Request, Advances(c, r), UNCHANGED form
    PROVE  /\ Orderly(c)'
           /\ request' \in [Once(c)!Request -> RequestState(c)]
           /\ request[r].key \in Once(c)!Key /\ request[r].body \in c.body /\ r <= sent
           /\ \A q \in Once(c)!Request : q # r => request'[q] = request[q]
<1>1. request \in [Once(c)!Request -> RequestState(c)]
  BY DEF Typed, Once!TypeOK, RequestState
<1>2. request' \in [Once(c)!Request -> RequestState(c)] /\ \A q \in Once(c)!Request : q # r
      => request'[q] = request[q]
  BY <1>1 DEF Advances
<1>3. r <= sent /\ sent \in Nat /\ c.maxRequests \in Nat
  BY DEF Typed, Once!TypeOK, Orderly, Advances, Once!Unsent, Once!Request,
         Once!CommandAssumption
<1>4. request[r].key \in Once(c)!Key /\ request[r].body \in c.body
  BY <1>3 DEF Typed, Orderly
<1>5. /\ \A q \in Once(c)!Request : q > sent => request'[q] = Once(c)!Unsent
      /\ \A q \in Once(c)!Request : q <= sent => request'[q].key \in Once(c)!Key
         /\ request'[q].body \in c.body
      /\ \A q \in Once(c)!Request : request'[q].phase = "sent"
         => request'[q].attempt < c.maxAttempts
  <2>1. ASSUME NEW q \in Once(c)!Request
        PROVE  /\ q > sent => request'[q] = Once(c)!Unsent
               /\ q <= sent => request'[q].key \in Once(c)!Key /\ request'[q].body \in c.body
               /\ request'[q].phase = "sent" => request'[q].attempt < c.maxAttempts
    <3>1. CASE q = r
      BY <1>3, <1>4, <3>1 DEF Advances, Once!Request
    <3>2. CASE q # r
      BY <1>2, <3>2 DEF Typed, Orderly
    <3> QED BY <3>1, <3>2
  <2> QED BY <2>1
<1>6. Orderly(c)'
  BY <1>5 DEF Typed, Orderly, Advances
<1> QED BY <1>2, <1>3, <1>4, <1>6

(* Releasing the locks of a request.                                       *)
LEMMA FreedTyped ==
    ASSUME NEW CONSTANT c, Typed(c), NEW r
    PROVE  Once(c)!Freed(r) \in [Once(c)!Key -> Once(c)!Request \cup {Once(c)!Nobody}]
BY DEF Typed, Once!TypeOK, Once!Freed

LEMMA AnswerAdvances ==
    ASSUME NEW CONSTANT c, Typed(c), NEW r \in Once(c)!Request,
           request[r].phase # "unsent",
           NEW told \in {"ok", "conflict", "refused", "busy", "failed"},
           NEW result \in Once(c)!Request \cup {Once(c)!Nobody},
           Once(c)!Answer(r, told, result),
           UNCHANGED <<sent, drawn>>
    PROVE  /\ Advances(c, r) /\ request'[r].seen = request[r].seen
           /\ request'[r].answer = told /\ request'[r].result = result
           /\ holder' \in [Once(c)!Key -> Once(c)!Request \cup {Once(c)!Nobody}]
<1>1. request \in [Once(c)!Request -> RequestState(c)]
  BY DEF Typed, Once!TypeOK, RequestState
<1>2. request' = [request EXCEPT ![r] = [request[r] EXCEPT !.phase = "answered",
                                                           !.answer = told,
                                                           !.result = result]]
  BY <1>1 DEF Once!Answer
<1>3. request'[r] = [request[r] EXCEPT !.phase = "answered", !.answer = told, !.result = result]
  BY <1>1, <1>2
<1>4. request' = [request EXCEPT ![r] = request'[r]]
  BY <1>2, <1>3
<1>5. /\ request'[r] \in RequestState(c) /\ request'[r].seen = request[r].seen
      /\ request'[r].key = request[r].key /\ request'[r].body = request[r].body
      /\ request'[r].phase = "answered"
      /\ request'[r].answer = told /\ request'[r].result = result
  <2>1. request[r] \in RequestState(c)
    BY <1>1
  <2> DEFINE q == request[r]
             s == request'[r]
  <2>2. s = [q EXCEPT !.phase = "answered", !.answer = told, !.result = result]
    BY <1>3
  <2> HIDE DEF q, s
  <2>3. q \in RequestState(c)
    BY <2>1 DEF q
  <2>4. s \in RequestState(c)
    BY <2>2, <2>3 DEF RequestState
  <2>5. /\ s.seen = q.seen /\ s.key = q.key /\ s.body = q.body
        /\ s.phase = "answered" /\ s.answer = told /\ s.result = result
    BY <2>2, <2>3 DEF RequestState
  <2> QED BY <2>4, <2>5 DEF q, s
<1>6. holder' \in [Once(c)!Key -> Once(c)!Request \cup {Once(c)!Nobody}]
  BY FreedTyped DEF Once!Answer
<1> QED BY <1>4, <1>5, <1>6 DEF Advances

(* What serves a request advances it.                                      *)
LEMMA ServiceAdvances ==
    ASSUME NEW CONSTANT c, Once(c)!CommandAssumption, Typed(c),
           NEW r \in Once(c)!Request,
           Once(c)!Serve(r) \/ Once(c)!Lose(r) \/ Once(c)!LockTimeout(r) \/ Once(c)!Fail(r)
    PROVE  /\ Advances(c, r) /\ UNCHANGED <<now, form>>
           /\ holder' \in [Once(c)!Key -> Once(c)!Request \cup {Once(c)!Nobody}]
<1>0. /\ request \in [Once(c)!Request -> RequestState(c)]
         /\ holder \in [Once(c)!Key -> Once(c)!Request \cup {Once(c)!Nobody}]
      /\ record \in [Once(c)!Key -> Once(c)!Row] /\ c.maxAttempts \in Nat
      /\ r \in Once(c)!Request \cup {Once(c)!Nobody}
         /\ Once(c)!Nobody \in Once(c)!Request \cup {Once(c)!Nobody}
  BY DEF Typed, Once!TypeOK, RequestState, Once!CommandAssumption
<1>1. ASSUME NEW v \in RequestState(c), request' = [request EXCEPT ![r] = v],
             request[r].phase # "unsent",
             v.key = request[r].key, v.body = request[r].body,
             v.phase = "sent" => v.attempt < c.maxAttempts,
             UNCHANGED <<sent, drawn>>
      PROVE  Advances(c, r)
  BY <1>0, <1>1 DEF Advances
<1>2. request[r].key \in Once(c)!Key \/ request[r].phase = "unsent"
  <2>1. r \in Nat /\ sent \in Nat
    BY DEF Once!Request, Typed, Once!TypeOK, Once!CommandAssumption
  <2>2. CASE r > sent
    BY <2>2 DEF Typed, Orderly, Once!Unsent
  <2>3. CASE r <= sent
    BY <2>3 DEF Typed, Orderly
  <2> QED BY <2>1, <2>2, <2>3
<1>3. CASE Once(c)!Begin(r)
  <2> DEFINE v == [request[r] EXCEPT !.phase = "waiting", !.attempt = @ + 1,
                                     !.seen = record[request[r].key]]
  <2>1. request' = [request EXCEPT ![r] = v] /\ request[r].phase = "sent"
        /\ UNCHANGED <<now, form, sent, drawn, holder>>
    BY <1>0, <1>3 DEF Once!Begin
  <2>2. request[r].attempt < c.maxAttempts /\ request[r].attempt \in 0 .. c.maxAttempts
    BY <1>0, <2>1 DEF Typed, Orderly, RequestState
  <2>3. record[request[r].key] \in Once(c)!Row
    BY <1>0, <1>2, <2>1
  <2>4. request[r].attempt + 1 \in 0 .. c.maxAttempts
    BY <1>0, <2>2
  <2>5. /\ v \in RequestState(c) /\ v.key = request[r].key /\ v.body = request[r].body
        /\ v.phase = "waiting"
    BY <1>0, <2>3, <2>4 DEF RequestState
  <2> HIDE DEF v
  <2> QED BY <1>0, <1>1, <2>1, <2>5
<1>4. CASE Once(c)!Lock(r)
  <2> DEFINE v == [request[r] EXCEPT !.phase = "locked"]
  <2>1. request' = [request EXCEPT ![r] = v] /\ request[r].phase = "waiting"
        /\ UNCHANGED <<now, form, sent, drawn>>
    BY <1>0, <1>4 DEF Once!Lock
  <2>2. /\ v \in RequestState(c) /\ v.key = request[r].key /\ v.body = request[r].body
        /\ v.phase = "locked"
    BY <1>0 DEF RequestState
  <2>3. holder' \in [Once(c)!Key -> Once(c)!Request \cup {Once(c)!Nobody}]
    BY <1>0, <1>4 DEF Once!Lock
  <2> HIDE DEF v
  <2> QED BY <1>1, <2>1, <2>2, <2>3
<1>5. ASSUME request' = [request EXCEPT ![r].phase = "gone"],
             request[r].phase # "unsent",
             UNCHANGED <<sent, drawn>>
      PROVE  Advances(c, r)
  <2> DEFINE v == [request[r] EXCEPT !.phase = "gone"]
  <2>1. request' = [request EXCEPT ![r] = v]
    BY <1>0, <1>5
  <2>2. /\ v \in RequestState(c) /\ v.key = request[r].key /\ v.body = request[r].body
        /\ v.phase = "gone"
    BY <1>0 DEF RequestState
  <2> HIDE DEF v
  <2> QED BY <1>1, <1>5, <2>1, <2>2
<1>6. CASE Once(c)!Lose(r)
  BY <1>0, <1>5, <1>6 DEF Once!Lose
<1>7. CASE Once(c)!LockTimeout(r)
  BY <1>0, <1>7, AnswerAdvances DEF Once!LockTimeout
<1>8. CASE Once(c)!Fail(r)
  BY <1>0, <1>5, <1>8, AnswerAdvances, FreedTyped DEF Once!Fail
<1>9. CASE Once(c)!RefuseOtherBody(r)
  BY <1>0, <1>9, AnswerAdvances DEF Once!RefuseOtherBody
<1>10. CASE Once(c)!Replay(r)
  <2>1. request[r].seen.by \in Once(c)!Request \cup {Once(c)!Nobody}
    BY <1>0 DEF RequestState, Once!Row
  <2> QED BY <1>10, <2>1, AnswerAdvances DEF Once!Replay
<1>11. CASE Once(c)!Commit(r)
  BY <1>0, <1>11, AnswerAdvances DEF Once!Commit, Once!MustRun
<1>12. CASE Once(c)!RefuseOperation(r)
  BY <1>0, <1>12, AnswerAdvances DEF Once!RefuseOperation, Once!MustRun
<1>13. CASE Once(c)!SerializationFailure(r)
  <2>1. CASE Once(c)!MayRetry(r)
    <3> DEFINE v == [request[r] EXCEPT !.phase = "sent"]
    <3>1. request' = [request EXCEPT ![r] = v] /\ request[r].phase = "locked"
          /\ UNCHANGED <<now, form, sent, drawn>> /\ holder' = Once(c)!Freed(r)
      BY <1>0, <1>13, <2>1 DEF Once!SerializationFailure, Once!MustRun
    <3>2. /\ v \in RequestState(c) /\ v.key = request[r].key /\ v.body = request[r].body
          /\ v.attempt < c.maxAttempts
      BY <1>0, <2>1 DEF RequestState, Once!MayRetry
    <3> HIDE DEF v
    <3> QED BY <1>1, <3>1, <3>2, FreedTyped
  <2>2. CASE ~Once(c)!MayRetry(r)
    BY <1>0, <1>13, <2>2, AnswerAdvances DEF Once!SerializationFailure, Once!MustRun
  <2> QED BY <2>1, <2>2
<1> QED BY <1>3, <1>4, <1>6, <1>7, <1>8, <1>9, <1>10, <1>11, <1>12,
           <1>13 DEF Once!Serve

LEMMA NextTyped ==
    ASSUME NEW CONSTANT c, Once(c)!CommandAssumption, Typed(c),
           [Once(c)!Next]_(Once(c)!vars)
    PROVE  Typed(c)'
<1>1. ASSUME NEW r \in Once(c)!Request,
             Once(c)!Serve(r) \/ Once(c)!Lose(r) \/ Once(c)!LockTimeout(r) \/ Once(c)!Fail(r)
      PROVE  Typed(c)'
  <2>1. /\ Advances(c, r) /\ UNCHANGED <<now, form>>
        /\ holder' \in [Once(c)!Key -> Once(c)!Request \cup {Once(c)!Nobody}]
    BY <1>1, ServiceAdvances
  <2>2. /\ Orderly(c)' /\ request' \in [Once(c)!Request -> RequestState(c)]
        /\ request[r].key \in Once(c)!Key /\ request[r].body \in c.body
    BY <2>1, AdvanceOrderly
  <2>3. /\ record' \in [Once(c)!Key -> Once(c)!Row]
        /\ effects' \subseteq [key: Once(c)!Key, body: c.body, by: Once(c)!Request, at: Nat]
    <3>1. CASE Once(c)!Commit(r)
      BY <2>2, <3>1 DEF Once!Commit, Typed, Once!TypeOK, Once!Row,
                        Once!CommandAssumption
    <3>2. CASE ~Once(c)!Commit(r)
      BY <1>1, <3>2 DEF Once!Serve, Once!Begin, Once!Lock, Once!RefuseOtherBody,
                        Once!Replay, Once!RefuseOperation,
            Once!SerializationFailure, Once!Lose, Once!LockTimeout, Once!Fail,
            Typed, Once!TypeOK
    <3> QED BY <3>1, <3>2
  <2>4. Once(c)!TypeOK'
    BY <2>1, <2>2, <2>3 DEF Typed, Once!TypeOK, RequestState, Advances
  <2> QED BY <2>2, <2>4 DEF Typed
<1>2. ASSUME NEW u \in c.user, NEW b \in c.body, Once(c)!Send(u, b)
      PROVE  Typed(c)'
  BY <1>2, SendTyped
<1>3. ASSUME NEW u \in c.user, Once(c)!GiveUp(u) \/ Once(c)!Reload(u)
      PROVE  Typed(c)'
  <2>1. Once(c)!TypeOK'
    BY <1>3 DEF Once!GiveUp, Once!Reload, Once!IdleForm, Typed, Once!TypeOK
  <2>2. Orderly(c)'
    BY <1>3 DEF Once!GiveUp, Once!Reload, Once!IdleForm, Typed, Once!TypeOK, Orderly
  <2> QED BY <2>1, <2>2 DEF Typed
<1>4. ASSUME NEW u \in c.user, Once(c)!Receive(u)
      PROVE  Typed(c)'
  <2> DEFINE r == form[u].request
             v == [request[r] EXCEPT !.phase = "gone"]
             w == [form[u] EXCEPT !.state = Once(c)!Belief(request[r].answer)]
  <2>1. /\ form[u].state = "waiting" /\ r \in Once(c)!Request
        /\ request \in [Once(c)!Request -> RequestState(c)]
    BY <1>4 DEF Once!Receive, Typed, Once!TypeOK, Orderly, RequestState
  <2>2. /\ request' = [request EXCEPT ![r] = v] /\ form' = [form EXCEPT ![u] = w]
        /\ request[r].phase = "answered"
        /\ UNCHANGED <<now, sent, drawn, holder, record, effects>>
    BY <1>4, <2>1 DEF Once!Receive, Typed, Once!TypeOK
  <2>3. Once(c)!Belief(request[r].answer) \in {"done", "unsure", "refused"}
    BY DEF Once!Belief
  <2>4. form' \in [c.user -> [state: {"idle", "waiting", "unsure", "done", "refused"},
                          key: Once(c)!Key \cup {Once(c)!NoKey},
                          body: c.body \cup {c.noBody},
                          request: Once(c)!Request \cup {Once(c)!Nobody},
                          chain: SUBSET Once(c)!Request]]
    BY <2>2, <2>3 DEF Typed, Once!TypeOK
  <2>5. /\ v \in RequestState(c) /\ v.key = request[r].key /\ v.body = request[r].body
        /\ v.phase = "gone"
    BY <2>1 DEF RequestState
  <2>6. \A x \in c.user : form'[x].key = form[x].key /\ form'[x].request = form[x].request
                          /\ (form'[x].state # "idle" => form[x].state # "idle")
    BY <2>1, <2>2, <2>3 DEF Typed, Once!TypeOK
  <2> HIDE DEF v, w
  <2>7. /\ request' \in [Once(c)!Request -> RequestState(c)]
        /\ \A q \in Once(c)!Request :
           IF q = r THEN request'[q] = v ELSE request'[q] = request[q]
    BY <2>1, <2>2, <2>5
  <2>8. Once(c)!TypeOK'
    BY <2>2, <2>4, <2>7 DEF Typed, Once!TypeOK, RequestState
  <2>9. Orderly(c)'
    <3>1. ~(r > sent)
      BY <2>1, <2>2 DEF Typed, Orderly, Once!Unsent
    <3>2. \A q \in Once(c)!Request : q > sent => request'[q] = Once(c)!Unsent
      BY <2>7, <3>1 DEF Typed, Orderly
    <3>3. \A q \in Once(c)!Request : q <= sent => request'[q].key \in Once(c)!Key
          /\ request'[q].body \in c.body
      BY <2>5, <2>7 DEF Typed, Orderly
    <3>4. \A q \in Once(c)!Request : request'[q].phase = "sent"
          => request'[q].attempt < c.maxAttempts
      BY <2>5, <2>7 DEF Typed, Orderly
    <3>5. \A x \in c.user : form'[x].state # "idle" => form'[x].key \in Once(c)!Key
          /\ form'[x].request \in Once(c)!Request
      BY <2>6 DEF Typed, Orderly
    <3> QED BY <2>2, <3>2, <3>3, <3>4, <3>5 DEF Typed, Orderly
  <2> QED BY <2>8, <2>9 DEF Typed
<1>5. ASSUME NEW k \in Once(c)!Key, Once(c)!Prune(k)
      PROVE  Typed(c)'
  <2>1. Once(c)!NoRow \in Once(c)!Row
    BY DEF Once!NoRow, Once!Row, Once!Nobody
  <2>2. Once(c)!TypeOK'
    BY <1>5, <2>1 DEF Once!Prune, Typed, Once!TypeOK
  <2>3. Orderly(c)'
    BY <1>5 DEF Once!Prune, Typed, Orderly
  <2> QED BY <2>2, <2>3 DEF Typed
<1>6. CASE Once(c)!Tick
  <2>1. Once(c)!TypeOK'
    BY <1>6 DEF Once!Tick, Typed, Once!TypeOK, Once!CommandAssumption
  <2>2. Orderly(c)'
    BY <1>6 DEF Once!Tick, Typed, Orderly
  <2> QED BY <2>1, <2>2 DEF Typed
<1>7. CASE UNCHANGED Once(c)!vars
  BY <1>7 DEF Once!vars, Typed, Once!TypeOK, Orderly
<1> QED BY <1>1, <1>2, <1>3, <1>4, <1>5, <1>6, <1>7 DEF Once!Next

-----------------------------------------------------------------------------
(* One effect.                                                             *)

(* A record outlives the life of every effect under its key; when it is    *)
(* gone, so is the life of the effects.                                    *)
EffectsAged(c) ==
    \A e \in effects :
        /\ e.at <= now
        /\ record[e.key] = Once(c)!NoRow => e.at + c.ttl <= now
        /\ record[e.key] # Once(c)!NoRow => e.at + c.ttl <= record[e.key].expires

OnceInv(c) == EffectsAged(c) /\ Once(c)!OneEffectPerKey

LEMMA InitOnce ==
    ASSUME NEW CONSTANT c, Once(c)!Init
    PROVE  OnceInv(c)
BY DEF Once!Init, OnceInv, EffectsAged, Once!OneEffectPerKey

(* A transaction commits over a row only when the snapshot it read is what *)
(* is there, and lets the row be overwritten only when it has expired.     *)
LEMMA CommitOnce ==
    ASSUME NEW CONSTANT c, Once(c)!CommandAssumption, Typed(c), OnceInv(c),
           NEW r \in Once(c)!Request, Once(c)!Commit(r)
    PROVE  OnceInv(c)'
<1> DEFINE k == request[r].key
           b == request[r].body
           new == [key |-> k, body |-> b, by |-> r, at |-> now]
           row == [body |-> b, by |-> r, expires |-> now + c.ttl]
<1>1. /\ now \in Nat /\ c.ttl \in Nat /\ c.ttl > 0 /\ now' = now
      /\ record \in [Once(c)!Key -> Once(c)!Row]
      /\ effects \subseteq [key: Once(c)!Key, body: c.body, by: Once(c)!Request, at: Nat]
  BY DEF Once!CommandAssumption, Typed, Once!TypeOK, Once!Commit
<1>2. k \in Once(c)!Key
  BY DEF Typed, Once!TypeOK, Orderly, Once!Unsent, Once!Request,
         Once!CommandAssumption, Once!Commit, Once!MustRun
<1>3. /\ record' = [record EXCEPT ![k] = row] /\ effects' = effects \cup {new}
      /\ record[k] = Once(c)!NoRow \/ record[k].expires <= now
  <2>1. record' = [record EXCEPT ![k] = row] /\ effects' = effects \cup {new}
    BY DEF Once!Commit
  <2>2. record[k] = request[r].seen
        /\ (request[r].seen = Once(c)!NoRow \/ ~(request[r].seen.expires > now))
    BY DEF Once!Commit, Once!MustRun, Once!Recorded, Once!Stale
  <2>3. record[k].expires \in Nat
    BY <1>1, <1>2 DEF Once!Row
  <2> QED BY <1>1, <2>1, <2>2, <2>3
<1>4. row # Once(c)!NoRow /\ row.expires = now + c.ttl
  BY <1>1 DEF Once!NoRow
<1>5. new.key = k /\ new.at = now
  OBVIOUS
<1> HIDE DEF k, b, new, row
<1>6. ASSUME NEW e \in effects, e.key = k PROVE e.at + c.ttl <= now
  <2>1. e.at \in Nat /\ record[k].expires \in Nat
    BY <1>1, <1>2 DEF Once!Row
  <2>2. /\ record[k] = Once(c)!NoRow => e.at + c.ttl <= now
        /\ record[k] # Once(c)!NoRow => e.at + c.ttl <= record[k].expires
    BY <1>6 DEF OnceInv, EffectsAged
  <2> QED BY <1>1, <1>3, <2>1, <2>2
<1>7. EffectsAged(c)'
  <2> SUFFICES ASSUME NEW e \in effects'
               PROVE  /\ e.at <= now
                      /\ record'[e.key] = Once(c)!NoRow => e.at + c.ttl <= now
                      /\ record'[e.key] # Once(c)!NoRow
                         => e.at + c.ttl <= record'[e.key].expires
    BY <1>1 DEF EffectsAged
  <2>1. CASE e = new
    BY <1>1, <1>2, <1>3, <1>4, <1>5, <2>1
  <2>2. CASE e \in effects /\ e.key = k
    <3>1. e.at \in Nat /\ e.at + c.ttl <= now /\ record'[e.key] = row
      BY <1>1, <1>2, <1>3, <1>6, <2>2
    <3> QED BY <1>1, <1>4, <3>1
  <2>3. CASE e \in effects /\ e.key # k
    <3>1. record'[e.key] = record[e.key]
      BY <1>1, <1>3, <2>3
    <3> QED BY <2>3, <3>1 DEF OnceInv, EffectsAged
  <2> QED BY <1>3, <2>1, <2>2, <2>3
<1>8. Once(c)!OneEffectPerKey'
  <2> SUFFICES ASSUME NEW d \in effects', NEW e \in effects', d.key = e.key, d # e
               PROVE  d.at >= e.at + c.ttl \/ e.at >= d.at + c.ttl
    BY DEF Once!OneEffectPerKey
  <2>1. CASE d \in effects /\ e \in effects
    BY <2>1 DEF OnceInv, Once!OneEffectPerKey
  <2>2. CASE d = new /\ e \in effects
    <3>1. e.at \in Nat /\ e.at + c.ttl <= now
      BY <1>1, <1>5, <1>6, <2>2
    <3> QED BY <1>1, <1>5, <2>2, <3>1
  <2>3. CASE e = new /\ d \in effects
    <3>1. d.at \in Nat /\ d.at + c.ttl <= now
      BY <1>1, <1>5, <1>6, <2>3
    <3> QED BY <1>1, <1>5, <2>3, <3>1
  <2> QED BY <1>3, <2>1, <2>2, <2>3
<1> QED BY <1>7, <1>8 DEF OnceInv

LEMMA NextOnce ==
    ASSUME NEW CONSTANT c, Once(c)!CommandAssumption, Typed(c), OnceInv(c),
           [Once(c)!Next]_(Once(c)!vars)
    PROVE  OnceInv(c)'
<1>0. /\ now \in Nat /\ c.ttl \in Nat /\ c.retention \in Nat
         /\ record \in [Once(c)!Key -> Once(c)!Row]
      /\ effects \subseteq [key: Once(c)!Key, body: c.body, by: Once(c)!Request, at: Nat]
  BY DEF Once!CommandAssumption, Typed, Once!TypeOK
<1>1. ASSUME UNCHANGED <<now, record, effects>> PROVE OnceInv(c)'
  BY <1>1 DEF OnceInv, EffectsAged, Once!OneEffectPerKey
<1>2. ASSUME NEW k \in Once(c)!Key, Once(c)!Prune(k) PROVE OnceInv(c)'
  <2>1. /\ record' = [record EXCEPT ![k] = Once(c)!NoRow] /\ UNCHANGED <<now, effects>>
        /\ record[k] # Once(c)!NoRow /\ record[k].expires + c.retention < now
    BY <1>2 DEF Once!Prune, Once!Prunable
  <2>2. EffectsAged(c)'
    <3> SUFFICES ASSUME NEW e \in effects
                 PROVE  /\ e.at <= now
                        /\ record'[e.key] = Once(c)!NoRow => e.at + c.ttl <= now
                        /\ record'[e.key] # Once(c)!NoRow
                           => e.at + c.ttl <= record'[e.key].expires
      BY <2>1 DEF EffectsAged
    <3>1. /\ e.at <= now
          /\ record[e.key] = Once(c)!NoRow => e.at + c.ttl <= now
          /\ record[e.key] # Once(c)!NoRow => e.at + c.ttl <= record[e.key].expires
      BY DEF OnceInv, EffectsAged
    <3>2. CASE e.key = k
      <4>1. record[k].expires \in Nat /\ e.at \in Nat /\ record'[k] = Once(c)!NoRow
        BY <1>0, <2>1 DEF Once!Row
      <4> QED BY <1>0, <2>1, <3>1, <3>2, <4>1
    <3>3. CASE e.key # k
      BY <1>0, <2>1, <3>1, <3>3
    <3> QED BY <3>2, <3>3
  <2>3. Once(c)!OneEffectPerKey'
    BY <2>1 DEF OnceInv, Once!OneEffectPerKey
  <2> QED BY <2>2, <2>3 DEF OnceInv
<1>3. CASE Once(c)!Tick
  <2>1. now' = now + 1 /\ UNCHANGED <<record, effects>>
    BY <1>3 DEF Once!Tick
  <2>2. \A e \in effects : e.at \in Nat
    BY <1>0
  <2>3. EffectsAged(c)'
    BY <1>0, <2>1, <2>2 DEF OnceInv, EffectsAged
  <2>4. Once(c)!OneEffectPerKey'
    BY <2>1 DEF OnceInv, Once!OneEffectPerKey
  <2> QED BY <2>3, <2>4 DEF OnceInv
<1>4. ASSUME NEW u \in c.user,
             (\E b \in c.body : Once(c)!Send(u, b)) \/ Once(c)!GiveUp(u)
                \/ Once(c)!Reload(u) \/ Once(c)!Receive(u)
      PROVE  OnceInv(c)'
  BY <1>1, <1>4 DEF Once!Send, Once!GiveUp, Once!Reload, Once!Receive
<1>5. ASSUME NEW r \in Once(c)!Request,
             Once(c)!Serve(r) \/ Once(c)!Lose(r) \/ Once(c)!LockTimeout(r) \/ Once(c)!Fail(r)
      PROVE  OnceInv(c)'
  BY <1>1, <1>5, CommitOnce DEF Once!Serve, Once!Begin, Once!Lock,
                                Once!RefuseOtherBody, Once!Replay,
                                Once!RefuseOperation,
     Once!SerializationFailure, Once!Lose, Once!LockTimeout, Once!Fail
<1>6. CASE UNCHANGED Once(c)!vars
  BY <1>1, <1>6 DEF Once!vars
<1> QED BY <1>2, <1>3, <1>4, <1>5, <1>6 DEF Once!Next

-----------------------------------------------------------------------------
(* Answers.                                                                *)

(* What a record, in the table or in a snapshot, says of its operation.    *)
RowsTold(c) ==
    \A k \in Once(c)!Key : record[k] # Once(c)!NoRow =>
        \E e \in effects : e.key = k /\ e.by = record[k].by /\ e.body = record[k].body
SeenTold(c) ==
    \A r \in Once(c)!Request : request[r].seen # Once(c)!NoRow =>
        \E e \in effects : /\ e.key = request[r].key
                           /\ e.by = request[r].seen.by /\ e.body = request[r].seen.body

Told(c) == RowsTold(c) /\ SeenTold(c) /\ Once(c)!AnswerIsOfThisCommand

LEMMA InitTold ==
    ASSUME NEW CONSTANT c, Once(c)!Init
    PROVE  Told(c)
BY DEF Once!Init, Told, RowsTold, SeenTold, Once!AnswerIsOfThisCommand, Once!Unsent

(* What is told stays true, since effects stay; new are a row that is      *)
(* written with its effect, a row that is read, and an answer of a row.    *)
LEMMA ToldStays ==
    ASSUME NEW CONSTANT c, Told(c), effects \subseteq effects',
           \A k \in Once(c)!Key :
               \/ record'[k] = record[k] \/ record'[k] = Once(c)!NoRow
               \/ \E e \in effects' : /\ e.key = k /\ e.by = record'[k].by
                                      /\ e.body = record'[k].body,
           \A r \in Once(c)!Request :
               \/ request'[r].seen = Once(c)!NoRow
               \/ /\ request'[r].key = request[r].key
                  /\ \/ request'[r].seen = request[r].seen
                     \/ /\ request[r].key \in Once(c)!Key
                        /\ request'[r].seen = record[request[r].key],
           \A r \in Once(c)!Request :
               \/ request'[r].answer # "ok"
               \/ /\ request'[r].key = request[r].key /\ request'[r].body = request[r].body
                  /\ request'[r].answer = request[r].answer
                  /\ request'[r].result = request[r].result
               \/ \E e \in effects' : /\ e.by = request'[r].result
                                      /\ e.key = request'[r].key /\ e.body = request'[r].body
    PROVE  Told(c)'
<1>1. RowsTold(c)'
  BY DEF Told, RowsTold
<1>2. SeenTold(c)'
  BY DEF Told, RowsTold, SeenTold
<1>3. Once(c)!AnswerIsOfThisCommand'
  BY DEF Told, Once!AnswerIsOfThisCommand
<1> QED BY <1>1, <1>2, <1>3 DEF Told

(* What serving a request does to its answer.                              *)
LEMMA ServiceTells ==
    ASSUME NEW CONSTANT c, Once(c)!CommandAssumption, Typed(c), Told(c),
           NEW r \in Once(c)!Request,
           Once(c)!Serve(r) \/ Once(c)!Lose(r) \/ Once(c)!LockTimeout(r) \/ Once(c)!Fail(r)
    PROVE  Told(c)'
<1>0. /\ request \in [Once(c)!Request -> RequestState(c)]
         /\ record \in [Once(c)!Key -> Once(c)!Row]
      /\ r \in Once(c)!Request \cup {Once(c)!Nobody}
         /\ Once(c)!Nobody \in Once(c)!Request \cup {Once(c)!Nobody}
  BY DEF Typed, Once!TypeOK, RequestState
<1>1. Advances(c, r)
  BY ServiceAdvances
<1>2. /\ request[r].key \in Once(c)!Key
      /\ \A q \in Once(c)!Request : q # r => request'[q] = request[q]
      /\ request'[r].key = request[r].key /\ request'[r].body = request[r].body
  <2>1. UNCHANGED form
    BY ServiceAdvances
  <2> QED BY <1>1, <2>1, AdvanceOrderly DEF Advances
<1>3. ASSUME UNCHANGED <<record, effects>>,
             \/ request'[r].seen = request[r].seen
             \/ request'[r].seen = record[request[r].key],
             \/ request'[r].answer # "ok"
             \/ request'[r].answer = request[r].answer /\ request'[r].result = request[r].result
             \/ \E e \in effects : /\ e.by = request'[r].result
                                   /\ e.key = request[r].key /\ e.body = request[r].body
      PROVE  Told(c)'
  <2>1. ASSUME NEW q \in Once(c)!Request
        PROVE  /\ \/ request'[q].seen = Once(c)!NoRow
                  \/ /\ request'[q].key = request[q].key
                     /\ \/ request'[q].seen = request[q].seen
                        \/ /\ request[q].key \in Once(c)!Key
                           /\ request'[q].seen = record[request[q].key]
               /\ \/ request'[q].answer # "ok"
                  \/ /\ request'[q].key = request[q].key /\ request'[q].body = request[q].body
                     /\ request'[q].answer = request[q].answer
                     /\ request'[q].result = request[q].result
                  \/ \E e \in effects' : /\ e.by = request'[q].result
                                         /\ e.key = request'[q].key /\ e.body = request'[q].body
    <3>1. CASE q = r
      BY <1>2, <1>3, <3>1
    <3>2. CASE q # r
      BY <1>2, <3>2
    <3> QED BY <3>1, <3>2
  <2> QED BY <1>3, <2>1, ToldStays
<1>4. ASSUME NEW told \in {"conflict", "refused", "busy", "failed"},
             Once(c)!Answer(r, told, Once(c)!Nobody),
             UNCHANGED <<sent, drawn, record, effects>>,
             request[r].phase # "unsent"
      PROVE  Told(c)'
  BY <1>0, <1>3, <1>4, AnswerAdvances
<1>5. ASSUME request' = [request EXCEPT ![r].phase = "gone"],
             UNCHANGED <<record, effects>>
      PROVE  Told(c)'
  BY <1>0, <1>3, <1>5 DEF RequestState
<1>6. CASE Once(c)!Begin(r)
  <2>1. request'[r].seen = record[request[r].key] /\ UNCHANGED <<record, effects>>
        /\ request'[r].answer = request[r].answer /\ request'[r].result = request[r].result
    BY <1>0, <1>6 DEF Once!Begin, RequestState
  <2> QED BY <1>3, <2>1
<1>7. CASE Once(c)!Lock(r)
  <2>1. request'[r].seen = request[r].seen /\ UNCHANGED <<record, effects>>
        /\ request'[r].answer = request[r].answer /\ request'[r].result = request[r].result
    BY <1>0, <1>7 DEF Once!Lock, RequestState
  <2> QED BY <1>3, <2>1
<1>8. CASE Once(c)!Lose(r)
  BY <1>5, <1>8 DEF Once!Lose
<1>9. CASE Once(c)!LockTimeout(r)
  BY <1>4, <1>9 DEF Once!LockTimeout
<1>10. CASE Once(c)!Fail(r)
  BY <1>4, <1>5, <1>10 DEF Once!Fail
<1>11. CASE Once(c)!RefuseOtherBody(r)
  BY <1>4, <1>11 DEF Once!RefuseOtherBody
<1>12. CASE Once(c)!RefuseOperation(r)
  BY <1>4, <1>12 DEF Once!RefuseOperation, Once!MustRun
<1>13. CASE Once(c)!SerializationFailure(r)
  <2>1. CASE Once(c)!MayRetry(r)
    <3>1. request'[r].seen = request[r].seen /\ UNCHANGED <<record, effects>>
          /\ request'[r].answer = request[r].answer /\ request'[r].result = request[r].result
      BY <1>0, <1>13, <2>1 DEF Once!SerializationFailure, RequestState
    <3> QED BY <1>3, <3>1
  <2>2. CASE ~Once(c)!MayRetry(r)
    BY <1>4, <1>13, <2>2 DEF Once!SerializationFailure, Once!MustRun
  <2> QED BY <2>1, <2>2
<1>14. CASE Once(c)!Replay(r)
  <2>1. /\ Once(c)!Answer(r, "ok", request[r].seen.by)
           /\ UNCHANGED <<sent, drawn, record, effects>>
        /\ request[r].phase = "locked" /\ request[r].seen # Once(c)!NoRow
        /\ request[r].seen.body = request[r].body
    BY <1>14 DEF Once!Replay, Once!Recorded, Once!SameBody
  <2>2. request[r].seen.by \in Once(c)!Request \cup {Once(c)!Nobody}
    BY <1>0 DEF RequestState, Once!Row
  <2>3. request'[r].seen = request[r].seen /\ request'[r].result = request[r].seen.by
    BY <1>0, <2>1, <2>2, AnswerAdvances
  <2>4. \E e \in effects : /\ e.by = request'[r].result
                           /\ e.key = request[r].key /\ e.body = request[r].body
    BY <2>1, <2>3 DEF Told, SeenTold
  <2> QED BY <1>3, <2>1, <2>3, <2>4
<1>15. CASE Once(c)!Commit(r)
  <2> DEFINE k == request[r].key
             b == request[r].body
             new == [key |-> k, body |-> b, by |-> r, at |-> now]
  <2>1. /\ Once(c)!Answer(r, "ok", r) /\ UNCHANGED <<sent, drawn>>
           /\ request[r].phase = "locked"
        /\ record' = [record EXCEPT ![k] = [body |-> b, by |-> r, expires |-> now + c.ttl]]
        /\ effects' = effects \cup {new}
    BY <1>15 DEF Once!Commit, Once!MustRun
  <2>2. request'[r].seen = request[r].seen /\ request'[r].result = r
    BY <1>0, <2>1, AnswerAdvances
  <2>3. new \in effects' /\ new.key = k /\ new.body = b /\ new.by = r
        /\ effects \subseteq effects'
    BY <2>1
  <2>4. /\ record'[k].by = r /\ record'[k].body = b
        /\ \A j \in Once(c)!Key : j # k => record'[j] = record[j]
    BY <1>0, <1>2, <2>1
  <2> HIDE DEF new
  <2>5. \A j \in Once(c)!Key :
           \/ record'[j] = record[j]
           \/ \E e \in effects' : e.key = j /\ e.by = record'[j].by /\ e.body = record'[j].body
    BY <2>3, <2>4
  <2>6. ASSUME NEW q \in Once(c)!Request
        PROVE  /\ request'[q].key = request[q].key /\ request'[q].seen = request[q].seen
               /\ \/ /\ request'[q].body = request[q].body
                     /\ request'[q].answer = request[q].answer
                     /\ request'[q].result = request[q].result
                  \/ \E e \in effects' : /\ e.by = request'[q].result
                                         /\ e.key = request'[q].key /\ e.body = request'[q].body
    <3>1. CASE q = r
      BY <1>2, <2>2, <2>3, <3>1
    <3>2. CASE q # r
      BY <1>2, <3>2
    <3> QED BY <3>1, <3>2
  <2> QED BY <2>3, <2>5, <2>6, ToldStays
<1> QED BY <1>6, <1>7, <1>8, <1>9, <1>10, <1>11, <1>12, <1>13, <1>14,
           <1>15 DEF Once!Serve

LEMMA NextTold ==
    ASSUME NEW CONSTANT c, Once(c)!CommandAssumption, Typed(c), Told(c),
           [Once(c)!Next]_(Once(c)!vars)
    PROVE  Told(c)'
<1>0. /\ request \in [Once(c)!Request -> RequestState(c)]
         /\ record \in [Once(c)!Key -> Once(c)!Row]
      /\ sent \in Nat
  BY DEF Typed, Once!TypeOK, RequestState, Once!CommandAssumption
<1>1. ASSUME UNCHANGED <<request, record, effects>> PROVE Told(c)'
  BY <1>1, ToldStays
<1>2. ASSUME NEW u \in c.user, NEW b \in c.body, Once(c)!Send(u, b)
      PROVE  Told(c)'
  <2> DEFINE n == sent + 1
  <2>1. /\ n \in Once(c)!Request /\ request[n] = Once(c)!Unsent /\ UNCHANGED <<record, effects>>
        /\ \A q \in Once(c)!Request : q # n => request'[q] = request[q]
        /\ request'[n].seen = request[n].seen /\ request'[n].answer = request[n].answer
    BY <1>0, <1>2 DEF Once!Send, Typed, Once!TypeOK, Orderly, Once!Request,
                      Once!CommandAssumption, RequestState
  <2>2. request'[n].seen = Once(c)!NoRow /\ request'[n].answer = "none"
    BY <2>1 DEF Once!Unsent
  <2> HIDE DEF n
  <2> QED BY <2>1, <2>2, ToldStays
<1>3. ASSUME NEW u \in c.user, Once(c)!GiveUp(u) \/ Once(c)!Reload(u)
      PROVE  Told(c)'
  BY <1>1, <1>3 DEF Once!GiveUp, Once!Reload
<1>4. ASSUME NEW u \in c.user, Once(c)!Receive(u)
      PROVE  Told(c)'
  <2>1. request' = [request EXCEPT ![form[u].request].phase = "gone"]
        /\ UNCHANGED <<record, effects>>
    BY <1>4 DEF Once!Receive
  <2>2. \A q \in Once(c)!Request : /\ request'[q].key = request[q].key
                                      /\ request'[q].body = request[q].body
                                   /\ request'[q].seen = request[q].seen
                                   /\ request'[q].answer = request[q].answer
                                   /\ request'[q].result = request[q].result
    BY <1>0, <2>1 DEF RequestState
  <2> QED BY <2>1, <2>2, ToldStays
<1>5. ASSUME NEW k \in Once(c)!Key, Once(c)!Prune(k)
      PROVE  Told(c)'
  <2>1. /\ \A j \in Once(c)!Key : record'[j] = record[j] \/ record'[j] = Once(c)!NoRow
        /\ UNCHANGED <<request, effects>>
    BY <1>0, <1>5 DEF Once!Prune
  <2> QED BY <2>1, ToldStays
<1>6. CASE Once(c)!Tick
  BY <1>1, <1>6 DEF Once!Tick
<1>7. CASE UNCHANGED Once(c)!vars
  BY <1>1, <1>7 DEF Once!vars
<1> QED BY <1>2, <1>3, <1>4, <1>5, <1>6, <1>7, ServiceTells DEF Once!Next

-----------------------------------------------------------------------------
(* Repeating.                                                              *)

(* All requests that repeat a command carry the key of its form, and an    *)
(* effect the key of the request it was committed for.                     *)
Chained(c) ==
    /\ \A e \in effects : e.by <= sent /\ e.key = request[e.by].key
    /\ \A u \in c.user : \A r \in form[u].chain :
          r <= sent /\ request[r].key = form[u].key

LEMMA InitChained ==
    ASSUME NEW CONSTANT c, Once(c)!Init
    PROVE  Chained(c)
BY DEF Once!Init, Chained, Once!IdleForm

LEMMA NextChained ==
    ASSUME NEW CONSTANT c, Once(c)!CommandAssumption, Typed(c), Chained(c),
           [Once(c)!Next]_(Once(c)!vars)
    PROVE  Chained(c)'
<1>0. /\ request \in [Once(c)!Request -> RequestState(c)] /\ sent \in Nat
      /\ effects \subseteq [key: Once(c)!Key, body: c.body, by: Once(c)!Request, at: Nat]
      /\ \A u \in c.user : form[u].chain \subseteq Once(c)!Request
  BY DEF Typed, Once!TypeOK, RequestState, Once!CommandAssumption
<1>1. ASSUME \A r \in Once(c)!Request : request'[r].key = request[r].key,
             \A u \in c.user : \/ form'[u].chain = {}
                               \/ form'[u].chain = form[u].chain /\ form'[u].key = form[u].key,
             sent' = sent, effects' = effects
      PROVE  Chained(c)'
  BY <1>0, <1>1 DEF Chained
<1>2. ASSUME NEW u \in c.user, NEW b \in c.body, Once(c)!Send(u, b)
      PROVE  Chained(c)'
  <2> DEFINE n == sent + 1
             key == IF Once(c)!RetainsKey(u, b) THEN form[u].key ELSE drawn + 1
             chain == {n} \cup IF Once(c)!Repeats(u, b) THEN form[u].chain ELSE {}
  <2>1. /\ n \in Once(c)!Request /\ sent' = n /\ effects' = effects
        /\ \A q \in Once(c)!Request : q # n => request'[q] = request[q]
        /\ request'[n].key = key
    BY <1>0, <1>2 DEF Once!Send, Typed, Once!TypeOK, Orderly, Once!Request,
                      Once!CommandAssumption, RequestState
  <2>2. /\ \A w \in c.user : w # u => form'[w] = form[w]
        /\ form'[u].chain = chain /\ form'[u].key = key
    BY <1>2 DEF Once!Send, Typed, Once!TypeOK
  <2>3. Once(c)!Repeats(u, b) => key = form[u].key
    BY DEF Once!RetainsKey
  <2>4. \A r \in Once(c)!Request : r <= sent => r # n /\ r <= n
    BY <1>0 DEF Once!Request
  <2> HIDE DEF n, key
  <2>5. \A e \in effects : e.by <= n /\ e.key = request'[e.by].key
    BY <1>0, <2>1, <2>4 DEF Chained
  <2>6. ASSUME NEW w \in c.user, NEW r \in form'[w].chain
        PROVE  r <= n /\ request'[r].key = form'[w].key
    <3>1. CASE w # u
      <4>1. r \in form[w].chain /\ r \in Once(c)!Request /\ form'[w].key = form[w].key
        BY <1>0, <2>2, <2>6, <3>1
      <4> QED BY <2>1, <2>4, <4>1 DEF Chained
    <3>2. CASE w = u /\ r = n
      BY <1>0, <2>1, <2>2, <3>2 DEF n
    <3>3. CASE w = u /\ r # n
      <4>1. Once(c)!Repeats(u, b) /\ r \in form[u].chain /\ r \in Once(c)!Request
        BY <1>0, <2>2, <2>6, <3>3
      <4> QED BY <2>1, <2>2, <2>3, <2>4, <3>3, <4>1 DEF Chained
    <3> QED BY <3>1, <3>2, <3>3
  <2> QED BY <2>1, <2>5, <2>6 DEF Chained
<1>3. ASSUME NEW u \in c.user, Once(c)!GiveUp(u) \/ Once(c)!Reload(u)
      PROVE  Chained(c)'
  <2>1. UNCHANGED <<request, sent, effects>>
    BY <1>3 DEF Once!GiveUp, Once!Reload
  <2>2. \A w \in c.user : \/ form'[w].chain = {}
                          \/ form'[w].chain = form[w].chain /\ form'[w].key = form[w].key
    BY <1>3 DEF Once!GiveUp, Once!Reload, Once!IdleForm, Typed, Once!TypeOK
  <2> QED BY <1>1, <2>1, <2>2
<1>4. ASSUME NEW u \in c.user, Once(c)!Receive(u)
      PROVE  Chained(c)'
  <2>1. /\ \A r \in Once(c)!Request : request'[r].key = request[r].key
        /\ UNCHANGED <<sent, effects>>
    BY <1>0, <1>4 DEF Once!Receive, RequestState
  <2>2. \A w \in c.user : form'[w].chain = form[w].chain /\ form'[w].key = form[w].key
    BY <1>4 DEF Once!Receive, Typed, Once!TypeOK
  <2> QED BY <1>1, <2>1, <2>2
<1>5. ASSUME NEW r \in Once(c)!Request,
             Once(c)!Serve(r) \/ Once(c)!Lose(r) \/ Once(c)!LockTimeout(r) \/ Once(c)!Fail(r)
      PROVE  Chained(c)'
  <2>1. Advances(c, r) /\ UNCHANGED <<form, sent>>
    BY <1>5, ServiceAdvances DEF Advances
  <2>2. /\ \A q \in Once(c)!Request : request'[q].key = request[q].key
        /\ r <= sent
    BY <2>1, AdvanceOrderly DEF Advances
  <2>3. CASE Once(c)!Commit(r)
    <3> DEFINE new == [key |-> request[r].key, body |-> request[r].body, by |-> r, at |-> now]
    <3>1. effects' = effects \cup {new} /\ new.by = r /\ new.key = request[r].key
      BY <2>3 DEF Once!Commit
    <3> HIDE DEF new
    <3>2. \A e \in effects' : e.by <= sent /\ e.key = request'[e.by].key
      BY <1>0, <2>2, <3>1 DEF Chained
    <3>3. \A u \in c.user : \A q \in form[u].chain : q <= sent /\ request'[q].key = form[u].key
      BY <1>0, <2>2 DEF Chained
    <3> QED BY <2>1, <3>2, <3>3 DEF Chained
  <2>4. CASE ~Once(c)!Commit(r)
    <3>1. effects' = effects
      BY <1>5, <2>4 DEF Once!Serve, Once!Begin, Once!Lock, Once!RefuseOtherBody,
                        Once!Replay, Once!RefuseOperation,
            Once!SerializationFailure, Once!Lose, Once!LockTimeout, Once!Fail
    <3> QED BY <1>1, <2>1, <2>2, <3>1
  <2> QED BY <2>3, <2>4
<1>6. ASSUME UNCHANGED <<form, sent, request, effects>> PROVE Chained(c)'
  BY <1>1, <1>6
<1>7. CASE (\E k \in Once(c)!Key : Once(c)!Prune(k)) \/ Once(c)!Tick \/ UNCHANGED Once(c)!vars
  BY <1>6, <1>7 DEF Once!Prune, Once!Tick, Once!vars
<1> QED BY <1>2, <1>3, <1>4, <1>5, <1>7 DEF Once!Next

(* The requests of one command share its key, and a key has one effect in  *)
(* the life of a record.                                                   *)
LEMMA RepeatsOfChain ==
    ASSUME NEW CONSTANT c, Typed(c), Once(c)!OneEffectPerKey, Chained(c)
    PROVE  Once(c)!RepeatingIsSafe
<1> SUFFICES ASSUME NEW u \in c.user, NEW d \in effects, NEW e \in effects,
                    d.by \in form[u].chain, e.by \in form[u].chain, d # e
             PROVE  d.at >= e.at + c.ttl \/ e.at >= d.at + c.ttl
  BY DEF Once!RepeatingIsSafe
<1>1. d.key = form[u].key /\ e.key = form[u].key
  BY DEF Chained
<1> QED BY <1>1 DEF Once!OneEffectPerKey

-----------------------------------------------------------------------------
(* The theorems.                                                           *)

(* The requests, records and forms keep their types; in particular no key  *)
(* is drawn without a request and no transaction is tried too often.       *)
THEOREM CommandsTyped ==
    ASSUME NEW CONSTANT c, Once(c)!CommandAssumption
    PROVE  Once(c)!Spec => []Once(c)!TypeOK
<1>1. Once(c)!Init => Typed(c)
  BY InitTyped
<1>2. Typed(c) /\ [Once(c)!Next]_(Once(c)!vars) => Typed(c)'
  BY NextTyped
<1>3. Typed(c) => Once(c)!TypeOK
  BY DEF Typed
<1> QED BY <1>1, <1>2, <1>3, PTL DEF Once!Spec

(* withIdempotency lets an operation take effect once in the life of its   *)
(* record, under any interleaving of requests, retries, lost answers,      *)
(* stale snapshots, expiry and pruning.                                    *)
THEOREM KeysActOnce ==
    ASSUME NEW CONSTANT c, Once(c)!CommandAssumption
    PROVE  Once(c)!Spec => []Once(c)!OneEffectPerKey
<1>1. Once(c)!Init => Typed(c) /\ OnceInv(c)
  BY InitTyped, InitOnce
<1>2. Typed(c) /\ OnceInv(c) /\ [Once(c)!Next]_(Once(c)!vars) => (Typed(c) /\ OnceInv(c))'
  BY NextTyped, NextOnce
<1>3. OnceInv(c) => Once(c)!OneEffectPerKey
  BY DEF OnceInv
<1> QED BY <1>1, <1>2, <1>3, PTL DEF Once!Spec

(* Whoever is told that a command succeeded is told the result of an       *)
(* operation with its content and key, also when the answer is a replay    *)
(* of a record read in a snapshot that is no longer the latest.            *)
THEOREM AnswersAreOwn ==
    ASSUME NEW CONSTANT c, Once(c)!CommandAssumption
    PROVE  Once(c)!Spec => []Once(c)!AnswerIsOfThisCommand
<1>1. Once(c)!Init => Typed(c) /\ Told(c)
  BY InitTyped, InitTold
<1>2. Typed(c) /\ Told(c) /\ [Once(c)!Next]_(Once(c)!vars) => (Typed(c) /\ Told(c))'
  BY NextTyped, NextTold
<1>3. Told(c) => Once(c)!AnswerIsOfThisCommand
  BY DEF Told
<1> QED BY <1>1, <1>2, <1>3, PTL DEF Once!Spec

(* A user who is unsure of the outcome may send the same command again and *)
(* again: it is done once in the life of a record.                         *)
THEOREM RepeatsAreSafe ==
    ASSUME NEW CONSTANT c, Once(c)!CommandAssumption
    PROVE  Once(c)!Spec => []Once(c)!RepeatingIsSafe
<1>1. Once(c)!Init => Typed(c) /\ OnceInv(c) /\ Chained(c)
  BY InitTyped, InitOnce, InitChained
<1>2. Typed(c) /\ OnceInv(c) /\ Chained(c) /\ [Once(c)!Next]_(Once(c)!vars)
      => (Typed(c) /\ OnceInv(c) /\ Chained(c))'
  BY NextTyped, NextOnce, NextChained
<1>3. Typed(c) /\ OnceInv(c) /\ Chained(c) => Once(c)!RepeatingIsSafe
  BY RepeatsOfChain DEF OnceInv
<1> QED BY <1>1, <1>2, <1>3, PTL DEF Once!Spec

(* Together: what withIdempotency promises of every command.               *)
THEOREM CommandsActOnce ==
    ASSUME NEW CONSTANT c, Once(c)!CommandAssumption
    PROVE  Once(c)!Spec => []Once(c)!CommandsOnce
<1>1. Once(c)!TypeOK /\ Once(c)!OneEffectPerKey /\ Once(c)!AnswerIsOfThisCommand
      /\ Once(c)!RepeatingIsSafe
        => Once(c)!CommandsOnce
  BY DEF Once!CommandsOnce
<1> QED BY <1>1, CommandsTyped, KeysActOnce, AnswersAreOwn, RepeatsAreSafe, PTL

-----------------------------------------------------------------------------
(* Forms that send commands.                                               *)

\* WebCommands with the constants that c names.
Web(c) == INSTANCE WebCommands WITH
    Contents <- c.contents, Forms <- c.forms, MaxSends <- c.maxSends,
    MaxChanges <- c.maxChanges, form <- draftForm, sent <- posted,
    version <- dataVersion

Answers == {"ok", "refused", "conflict", "busy"}
Posts(c) == [number : Nat, key : Nat, content : c.contents, basis : Nat, round : Nat]
Numbers == 1 .. Cardinality(posted)

\* Requests are numbered as they are sent.
PostsNumbered(c) ==
    /\ IsFiniteSet(posted) /\ posted \subseteq Posts(c)
    /\ \A r \in posted : r.number \in Numbers /\ r.key \in Numbers
    /\ \A r, s \in posted : r.number = s.number => r = s
    /\ \A n \in Numbers : \E r \in posted : r.number = n

PageTyped(c) ==
    /\ draftForm \in c.forms /\ content \in c.contents
    /\ shown \in Nat /\ dataVersion \in Nat /\ shown <= dataVersion
    /\ round \in [c.contents -> Nat]
    /\ awaited = {} \/ \E n \in Numbers : awaited = {n}
    /\ answer = {} \/ (awaited # {} /\ \E a \in Answers : answer = {a})

ServerTyped ==
    /\ waiting \subseteq Numbers /\ running \subseteq Numbers
    /\ waiting \cap running = {}
    /\ done \subseteq posted

\* A kept key is that of a request that was sent with what is kept, and what
\* was sent was shown, and wished then or before.
KeptWereSent ==
    \A k \in kept : \E r \in posted :
        /\ r.key = k.key /\ r.content = k.content
        /\ r.basis = k.basis /\ r.round = k.round

SentBefore ==
    \A r \in posted : r.basis <= shown /\ r.round <= round[r.content]

WebTyped(c) ==
    /\ PostsNumbered(c) /\ PageTyped(c) /\ ServerTyped
    /\ KeptWereSent /\ SentBefore

\* The instance counts as FiniteSets does.
LEMMA WebCardinality ==
    ASSUME NEW CONSTANT c, NEW S
    PROVE  Web(c)!Cardinality(S) = Cardinality(S)
BY DEF Cardinality, Web!Cardinality

LEMMA RequestFound ==
    ASSUME NEW CONSTANT c, PostsNumbered(c), NEW n \in Numbers
    PROVE  /\ Web(c)!Request(n) \in posted
           /\ Web(c)!Request(n).number = n
           /\ \A r \in posted : r.number = n => r = Web(c)!Request(n)
<1>1. PICK r \in posted : r.number = n
  BY DEF PostsNumbered
<1>2. Web(c)!Request(n) \in posted /\ Web(c)!Request(n).number = n
  BY <1>1 DEF Web!Request
<1> QED BY <1>2 DEF PostsNumbered

\* What a press of the button sends: a new key for what is on the screen, or a
\* kept one.
PostOf(c, r, k) ==
    /\ r.number = Cardinality(posted) + 1 /\ r \in Posts(c)
    /\ r.key = k.key
    /\ IF draftForm.edit # "leaves"
       THEN r.content = k.content /\ r.basis = k.basis /\ r.round = k.round
       ELSE r.content = content /\ r.basis = shown /\ r.round = round[content]
    /\ kept' = Web(c)!Kept(k) /\ posted' = posted \cup {r}
    /\ awaited' = {r.number} /\ waiting' = waiting \cup {r.number}

Afresh(c, k) ==
    /\ \A f \in kept : ~Web(c)!Fits(f)
    /\ k.print = Web(c)!Fingerprint /\ k.key = Cardinality(posted) + 1
    /\ k.content = content /\ k.basis = shown /\ k.round = round[content]

LEMMA Pressed ==
    ASSUME NEW CONSTANT c, WebTyped(c), Web(c)!Submit
    PROVE  \E r, k : /\ PostOf(c, r, k)
                     /\ Afresh(c, k) \/ (k \in kept /\ Web(c)!Fits(k))
                     /\ round' = IF draftForm.keeps = "one" /\ Afresh(c, k) /\ kept # {}
                                 THEN [d \in c.contents |->
                                          IF d = content THEN round[d] ELSE round[d] + 1]
                                 ELSE round
<1> DEFINE fitting == {k \in kept : Web(c)!Fits(k)}
           fresh == [print |-> Web(c)!Fingerprint, key |-> Web(c)!Number, content |-> content,
                     basis |-> shown, round |-> round[content]]
           k == IF fitting = {} THEN fresh ELSE CHOOSE f \in fitting : TRUE
           frozen == draftForm.edit # "leaves"
           r == [number |-> Web(c)!Number, key |-> k.key,
                 content |-> IF frozen THEN k.content ELSE content,
                 basis |-> IF frozen THEN k.basis ELSE shown,
                 round |-> IF frozen THEN k.round ELSE round[content]]
<1>1. /\ kept' = Web(c)!Kept(k) /\ posted' = posted \cup {r}
      /\ awaited' = {r.number} /\ waiting' = waiting \cup {r.number}
      /\ round' = IF draftForm.keeps = "one" /\ fitting = {} /\ kept # {}
                  THEN [d \in c.contents |-> IF d = content THEN round[d] ELSE round[d] + 1]
                  ELSE round
  BY DEF Web!Submit
<1>2. Cardinality(posted) \in Nat
  BY FS_CardinalityType DEF WebTyped, PostsNumbered
<1>3. Web(c)!Number = Cardinality(posted) + 1 /\ Web(c)!Number \in Nat
  BY <1>2, WebCardinality DEF Web!Number
<1>4. fitting = {} => Afresh(c, k)
  BY <1>3 DEF Afresh
<1>5. fitting # {} => k \in kept /\ Web(c)!Fits(k) /\ ~Afresh(c, k)
  BY DEF Afresh
<1>6. k.key \in Nat /\ k.content \in c.contents /\ k.basis \in Nat /\ k.round \in Nat
  <2>1. CASE fitting = {}
    BY <1>3, <2>1 DEF WebTyped, PageTyped
  <2>2. CASE fitting # {}
    <3>1. PICK s \in posted : /\ s.key = k.key /\ s.content = k.content
                              /\ s.basis = k.basis /\ s.round = k.round
      BY <1>5, <2>2 DEF WebTyped, KeptWereSent
    <3> QED BY <3>1 DEF WebTyped, PostsNumbered, Posts
  <2> QED BY <2>1, <2>2
<1>7. content \in c.contents /\ shown \in Nat /\ round[content] \in Nat
  BY DEF WebTyped, PageTyped
<1> HIDE DEF k, fitting
<1>8. r \in Posts(c)
  BY <1>3, <1>6, <1>7 DEF Posts
<1>9. PostOf(c, r, k)
  BY <1>1, <1>3, <1>8 DEF PostOf
<1> QED BY <1>1, <1>4, <1>5, <1>9

\* Sending counts the request and leaves the others where they are.
LEMMA PostAdded ==
    ASSUME NEW CONSTANT c, WebTyped(c), NEW r, NEW k, PostOf(c, r, k)
    PROVE  /\ IsFiniteSet(posted') /\ r \notin posted
           /\ Cardinality(posted) \in Nat
           /\ Cardinality(posted') = Cardinality(posted) + 1
<1>1. Cardinality(posted) \in Nat /\ IsFiniteSet(posted)
  BY FS_CardinalityType DEF WebTyped, PostsNumbered
<1>2. r \notin posted
  BY <1>1 DEF WebTyped, PostsNumbered, Numbers, PostOf
<1> QED BY <1>1, <1>2, FS_AddElement DEF PostOf

LEMMA PostKeepsTypes ==
    ASSUME NEW CONSTANT c, WebTyped(c), NEW r, NEW k, PostOf(c, r, k),
           Afresh(c, k) \/ (k \in kept /\ Web(c)!Fits(k))
    PROVE  PostsNumbered(c)' /\ \A n \in Numbers : n \in Numbers' /\ r.number \in Numbers'
<1>1. /\ IsFiniteSet(posted') /\ Cardinality(posted) \in Nat
      /\ Cardinality(posted') = Cardinality(posted) + 1
  BY PostAdded
<1>2. posted' = posted \cup {r} /\ r \in Posts(c) /\ r.number = Cardinality(posted) + 1
  BY DEF PostOf
<1>3. \A n \in Numbers : n \in Numbers' /\ n < r.number
  BY <1>1, <1>2 DEF Numbers
<1>4. r.number \in Numbers' /\ \A n \in Numbers' : n \in Numbers \/ n = r.number
  BY <1>1, <1>2 DEF Numbers
<1>5. r.key \in Numbers'
  BY <1>1, <1>3, <1>4, <1>2 DEF PostOf, Afresh, WebTyped, KeptWereSent, PostsNumbered
<1>6. PostsNumbered(c)
  BY DEF WebTyped
<1>7. posted' \subseteq Posts(c)
  BY <1>2, <1>6 DEF PostsNumbered
<1>8. \A s \in posted' : s.number \in Numbers' /\ s.key \in Numbers'
  BY <1>2, <1>3, <1>4, <1>5, <1>6 DEF PostsNumbered
<1>9. \A s, t \in posted' : s.number = t.number => s = t
  BY <1>2, <1>3, <1>6 DEF PostsNumbered, Numbers
<1>10. \A n \in Numbers' : \E s \in posted' : s.number = n
  BY <1>2, <1>4, <1>6 DEF PostsNumbered
<1> HIDE DEF Numbers
<1> QED BY <1>1, <1>3, <1>4, <1>7, <1>8, <1>9, <1>10 DEF PostsNumbered

LEMMA SameRequests ==
    ASSUME NEW CONSTANT c, WebTyped(c), NEW r, NEW k, PostOf(c, r, k),
           Afresh(c, k) \/ (k \in kept /\ Web(c)!Fits(k))
    PROVE  /\ \A n \in Numbers : Web(c)!Request(n)' = Web(c)!Request(n)
           /\ Web(c)!Request(r.number)' = r
<1>1. PostsNumbered(c)' /\ \A n \in Numbers : n \in Numbers' /\ r.number \in Numbers'
  BY PostKeepsTypes
<1>2. posted' = posted \cup {r} /\ PostsNumbered(c)
  BY DEF PostOf, WebTyped
<1>3. \A n \in Numbers' : \A s \in posted' : s.number = n => s = Web(c)!Request(n)'
  <2> SUFFICES ASSUME NEW n \in Numbers', NEW s \in posted', s.number = n
               PROVE  s = Web(c)!Request(n)'
    OBVIOUS
  <2>1. Web(c)!Request(n)' \in posted' /\ Web(c)!Request(n)'.number = n
    BY DEF Web!Request
  <2> QED BY <1>1, <2>1 DEF PostsNumbered
<1>4. r.number \in Numbers'
  <2>1. Cardinality(posted') = Cardinality(posted) + 1 /\ Cardinality(posted) \in Nat
    BY PostAdded
  <2> QED BY <2>1 DEF PostOf, Numbers
<1>5. \A n \in Numbers : Web(c)!Request(n) \in posted /\ Web(c)!Request(n).number = n
  BY <1>2, RequestFound
<1> QED BY <1>1, <1>2, <1>3, <1>4, <1>5

-----------------------------------------------------------------------------
(* Every step keeps the types.                                             *)

\* The steps of the server leave the page alone but for the answer.
Served(c, n) ==
    \/ Web(c)!Replay(n) \/ Web(c)!Begin(n) \/ Web(c)!Busy(n) \/ Web(c)!Commit(n)
    \/ Web(c)!Refuse(n) \/ Web(c)!LoseRequest(n)

LEMMA ServedChanges ==
    ASSUME NEW CONSTANT c, WebTyped(c), NEW n \in waiting \cup running, Served(c, n)
    PROVE  /\ UNCHANGED <<draftForm, content, shown, kept, awaited, posted, round>>
           /\ n \in Numbers
           /\ dataVersion' \in Nat /\ dataVersion <= dataVersion'
           /\ answer' = answer
              \/ \E a \in Answers : answer' = IF awaited = {n} THEN {a} ELSE answer
           /\ ServerTyped'
<1>1. n \in Numbers /\ ServerTyped /\ PostsNumbered(c) /\ dataVersion \in Nat
  BY DEF WebTyped, ServerTyped, PageTyped
<1>2. Web(c)!Request(n) \in posted
  BY <1>1, RequestFound
<1>3. UNCHANGED <<draftForm, content, shown, kept, awaited, posted, round>>
  BY DEF Served, Web!Replay, Web!Begin, Web!Busy, Web!Commit, Web!Refuse, Web!LoseRequest,
     Web!page
<1>4. answer' = answer \/ \E a \in Answers : answer' = IF awaited = {n} THEN {a} ELSE answer
  BY DEF Served, Web!Replay, Web!Begin, Web!Busy, Web!Commit, Web!Refuse, Web!LoseRequest,
     Web!page,
     Web!Reply, Answers
<1>5. dataVersion' \in Nat /\ dataVersion <= dataVersion'
  BY <1>1 DEF Served, Web!Replay, Web!Begin, Web!Busy, Web!Commit, Web!Refuse, Web!LoseRequest
<1>6. ServerTyped'
  <2>1. Numbers' = Numbers
    BY <1>3 DEF Numbers
  <2>2. done' = done \/ done' = done \cup {Web(c)!Request(n)}
    BY DEF Served, Web!Replay, Web!Begin, Web!Busy, Web!Commit, Web!Refuse, Web!LoseRequest
  <2>3. \/ waiting' = waiting \ {n} /\ running' = running
        \/ waiting' = waiting \ {n} /\ running' = running \cup {n}
        \/ waiting' = waiting /\ running' = running \ {n}
    BY DEF Served, Web!Replay, Web!Begin, Web!Busy, Web!Commit, Web!Refuse, Web!LoseRequest
  <2> QED BY <1>1, <1>2, <1>3, <2>1, <2>2, <2>3 DEF ServerTyped
<1> QED BY <1>1, <1>3, <1>4, <1>5, <1>6

LEMMA WebSteps ==
    ASSUME NEW CONSTANT c, [Web(c)!Next]_(Web(c)!vars)
    PROVE  \/ \E d \in c.contents : Web(c)!Edit(d)
           \/ Web(c)!Submit
           \/ \E n \in waiting \cup running : Served(c, n)
           \/ Web(c)!Change \/ Web(c)!Receive \/ Web(c)!GiveUp \/ Web(c)!Refetch
           \/ Web(c)!Reload
           \/ UNCHANGED <<draftForm, content, shown, kept, awaited, answer, posted, waiting,
                          running, done, dataVersion, round>>
BY DEF Web!Next, Web!vars, Web!page, Web!server, Served

\* Without a request being sent.
LEMMA QuietTypes ==
    ASSUME NEW CONSTANT c, WebTyped(c), UNCHANGED <<draftForm, posted>>,
           kept' \subseteq kept, ServerTyped',
           content' \in c.contents, shown' \in Nat, shown <= shown', shown' <= dataVersion',
           dataVersion' \in Nat, round' \in [c.contents -> Nat],
           \A d \in c.contents : round[d] <= round'[d],
           awaited' = awaited \/ awaited' = {},
           answer' = {} \/ (awaited' # {} /\ \E a \in Answers : answer' = {a})
    PROVE  WebTyped(c)'
<1>1. PostsNumbered(c)'
  BY DEF WebTyped, PostsNumbered, Numbers
<1>2. PageTyped(c)'
  BY DEF WebTyped, PageTyped, Numbers
<1>3. KeptWereSent'
  BY DEF WebTyped, KeptWereSent
<1>4. SentBefore'
  <2> SUFFICES ASSUME NEW r \in posted
               PROVE  r.basis <= shown' /\ r.round <= round'[r.content]
    BY DEF SentBefore
  <2>1. r \in Posts(c) /\ r.basis <= shown /\ r.round <= round[r.content]
    BY DEF WebTyped, PostsNumbered, SentBefore
  <2>2. shown \in Nat /\ round[r.content] \in Nat /\ round'[r.content] \in Nat
    BY <2>1 DEF WebTyped, PageTyped, Posts
  <2> QED BY <2>1, <2>2 DEF Posts
<1> QED BY <1>1, <1>2, <1>3, <1>4 DEF WebTyped

LEMMA SettledGrows ==
    ASSUME NEW CONSTANT c, WebTyped(c), NEW cs
    PROVE  /\ Web(c)!Settled(cs) \in [c.contents -> Nat]
           /\ \A d \in c.contents : Web(c)!Settled(cs)[d] =
                 IF d \in cs THEN round[d] + 1 ELSE round[d]
           /\ \A d \in c.contents : round[d] <= Web(c)!Settled(cs)[d]
BY DEF Web!Settled, WebTyped, PageTyped

LEMMA ReceiveMoves ==
    ASSUME NEW CONSTANT c, WebTyped(c), Web(c)!Receive
    PROVE  \E n \in Numbers, what \in Answers :
              /\ awaited = {n} /\ answer = {what}
              /\ kept' = IF what \notin draftForm.frees THEN kept
                         ELSE {k \in kept : k.key # Web(c)!Request(n).key}
              /\ \/ what = "ok" /\ shown' = dataVersion
                    /\ round' = Web(c)!Settled({Web(c)!Request(n).content})
                 \/ what # "ok" /\ shown' \in {shown, dataVersion}
                    /\ round' = Web(c)!Reread(shown')
              /\ awaited' = {} /\ answer' = {}
              /\ UNCHANGED <<draftForm, content, posted, waiting, running, done, dataVersion>>
<1>1. PICK n \in Numbers : awaited = {n}
  BY DEF WebTyped, PageTyped, Web!Receive
<1>2. PICK what \in Answers : answer = {what}
  BY DEF WebTyped, PageTyped, Web!Receive
<1>3. (CHOOSE a \in answer : TRUE) = what /\ (CHOOSE m \in awaited : TRUE) = n
  BY <1>1, <1>2
<1> QED BY <1>1, <1>2, <1>3 DEF Web!Receive, Web!Remaining, Web!Freed, Web!server

LEMMA WebTypedStep ==
    ASSUME NEW CONSTANT c, WebTyped(c), [Web(c)!Next]_(Web(c)!vars)
    PROVE  WebTyped(c)'
<1>1. /\ content \in c.contents /\ shown \in Nat /\ dataVersion \in Nat /\ shown <= dataVersion
      /\ round \in [c.contents -> Nat] /\ ServerTyped
      /\ \A d \in c.contents : round[d] <= round[d]
  BY DEF WebTyped, PageTyped
<1>2. answer = {} \/ (awaited # {} /\ \E a \in Answers : answer = {a})
  BY DEF WebTyped, PageTyped
<1>3. ASSUME UNCHANGED <<posted, waiting, running, done>>
      PROVE  ServerTyped'
  BY <1>1, <1>3 DEF ServerTyped, Numbers
<1>4. \A v : /\ Web(c)!Reread(v) \in [c.contents -> Nat]
             /\ \A d \in c.contents : round[d] <= Web(c)!Reread(v)[d]
  BY <1>1, SettledGrows DEF Web!Reread
<1>5. CASE \E d \in c.contents : Web(c)!Edit(d)
  <2>1. /\ UNCHANGED <<draftForm, shown, awaited, answer, posted, waiting, running, done,
                       dataVersion>>
        /\ content' \in c.contents /\ kept' \subseteq kept
        /\ round' = round \/ round' = Web(c)!Settled(c.contents)
    BY <1>5 DEF Web!Edit, Web!server
  <2>2. round' \in [c.contents -> Nat] /\ \A d \in c.contents : round[d] <= round'[d]
    BY <1>1, <2>1, SettledGrows
  <2> QED BY <1>1, <1>2, <1>3, <2>1, <2>2, QuietTypes
<1>6. CASE Web(c)!Submit
  <2>1. PICK r, k : /\ PostOf(c, r, k)
                    /\ Afresh(c, k) \/ (k \in kept /\ Web(c)!Fits(k))
                    /\ round' = IF draftForm.keeps = "one" /\ Afresh(c, k) /\ kept # {}
                                THEN [d \in c.contents |->
                                         IF d = content THEN round[d] ELSE round[d] + 1]
                                ELSE round
    BY <1>6, Pressed
  <2>2. PostsNumbered(c)' /\ \A n \in Numbers : n \in Numbers' /\ r.number \in Numbers'
    BY <2>1, PostKeepsTypes
  <2>3. /\ posted' = posted \cup {r} /\ awaited' = {r.number}
           /\ waiting' = waiting \cup {r.number}
        /\ r \in Posts(c) /\ kept' \subseteq kept \cup {k} /\ r.key = k.key
    BY <2>1 DEF PostOf, Web!Kept
  <2>4. UNCHANGED <<draftForm, content, shown, answer, running, done, dataVersion>>
        /\ awaited = {}
    BY <1>6 DEF Web!Submit
  <2>5. round' \in [c.contents -> Nat] /\ \A d \in c.contents : round[d] <= round'[d]
    BY <1>1, <2>1
  <2>6. r.number \in Numbers' /\ r.number \notin Numbers
    <3>1. Cardinality(posted') = Cardinality(posted) + 1 /\ Cardinality(posted) \in Nat
      BY <2>1, PostAdded
    <3> QED BY <2>1, <3>1 DEF PostOf, Numbers
  <2>7. PageTyped(c)'
    BY <2>2, <2>3, <2>4, <2>5, <2>6 DEF WebTyped, PageTyped
  <2>8. ServerTyped'
    BY <1>1, <2>2, <2>3, <2>4, <2>6 DEF ServerTyped
  <2>9. KeptWereSent'
    <3>1. ASSUME k \notin kept
          PROVE  r.content = k.content /\ r.basis = k.basis /\ r.round = k.round
      BY <2>1, <3>1 DEF PostOf, Afresh
    <3> QED BY <2>3, <3>1 DEF WebTyped, KeptWereSent
  <2>10. r.basis <= shown /\ r.round <= round[r.content]
    <3>1. \A s \in posted : s.basis <= shown /\ s.round <= round[s.content]
      BY DEF WebTyped, SentBefore
    <3>2. CASE r.content = content /\ r.basis = shown /\ r.round = round[content]
      BY <1>1, <3>2
    <3>3. CASE \E s \in posted : r.content = s.content /\ r.basis = s.basis /\ r.round = s.round
      BY <3>1, <3>3
    <3>4. \A f \in kept : \E s \in posted :
             /\ s.key = f.key /\ s.content = f.content
             /\ s.basis = f.basis /\ s.round = f.round
      BY DEF WebTyped, KeptWereSent
    <3> QED BY <2>1, <3>2, <3>3, <3>4 DEF PostOf, Afresh
  <2>11. SentBefore'
    <3>1. \A s \in posted' : s.content \in c.contents /\ s.basis <= shown
          /\ s.round <= round[s.content] /\ s.round \in Nat
      BY <2>3, <2>10 DEF WebTyped, SentBefore, PostsNumbered, Posts
    <3> QED BY <1>1, <2>4, <2>5, <3>1 DEF SentBefore
  <2> QED BY <2>2, <2>7, <2>8, <2>9, <2>11 DEF WebTyped
<1>7. ASSUME NEW n \in waiting \cup running, Served(c, n)
      PROVE  WebTyped(c)'
  <2>1. /\ UNCHANGED <<draftForm, content, shown, kept, awaited, posted, round>>
        /\ n \in Numbers /\ dataVersion' \in Nat /\ dataVersion <= dataVersion'
        /\ answer' = answer
           \/ \E a \in Answers : answer' = IF awaited = {n} THEN {a} ELSE answer
        /\ ServerTyped'
    BY <1>7, ServedChanges
  <2>2. answer' = {} \/ (awaited' # {} /\ \E a \in Answers : answer' = {a})
    BY <1>2, <2>1
  <2>3. shown' <= dataVersion' /\ shown <= shown'
    BY <1>1, <2>1
  <2> QED BY <1>1, <2>1, <2>2, <2>3, QuietTypes
<1>8. CASE Web(c)!Change
  <2>1. /\ UNCHANGED <<draftForm, content, shown, kept, awaited, answer, posted, waiting,
                       running, done, round>>
        /\ dataVersion' = dataVersion + 1
    BY <1>8 DEF Web!Change, Web!page
  <2>2. dataVersion' \in Nat /\ shown' <= dataVersion' /\ shown <= shown'
    BY <1>1, <2>1
  <2> QED BY <1>1, <1>2, <1>3, <2>1, <2>2, QuietTypes
<1>9. CASE Web(c)!Receive
  <2>1. PICK n \in Numbers, what \in Answers :
              /\ kept' = IF what \notin draftForm.frees THEN kept
                         ELSE {k \in kept : k.key # Web(c)!Request(n).key}
              /\ \/ what = "ok" /\ shown' = dataVersion
                    /\ round' = Web(c)!Settled({Web(c)!Request(n).content})
                 \/ what # "ok" /\ shown' \in {shown, dataVersion}
                    /\ round' = Web(c)!Reread(shown')
              /\ awaited' = {} /\ answer' = {}
              /\ UNCHANGED <<draftForm, content, posted, waiting, running, done, dataVersion>>
    BY <1>9, ReceiveMoves
  <2>2. round' \in [c.contents -> Nat] /\ \A d \in c.contents : round[d] <= round'[d]
    BY <1>4, <2>1, SettledGrows
  <2>3. kept' \subseteq kept /\ shown' \in Nat /\ shown <= shown' /\ shown' <= dataVersion'
    BY <1>1, <2>1
  <2> QED BY <1>1, <1>3, <2>1, <2>2, <2>3, QuietTypes
<1>10. CASE Web(c)!GiveUp
  <2>1. /\ UNCHANGED <<draftForm, content, shown, posted, round, waiting, running, done,
                       dataVersion>>
        /\ kept' \subseteq kept /\ awaited' = {} /\ answer' = {}
    BY <1>10 DEF Web!GiveUp, Web!Remaining, Web!server
  <2> QED BY <1>1, <1>3, <2>1, QuietTypes
<1>11. CASE Web(c)!Refetch
  <2>1. /\ UNCHANGED <<draftForm, content, kept, awaited, answer, posted, waiting, running,
                       done, dataVersion>>
        /\ shown' = dataVersion /\ round' = Web(c)!Reread(dataVersion)
    BY <1>11 DEF Web!Refetch, Web!server
  <2> QED BY <1>1, <1>2, <1>3, <1>4, <2>1, QuietTypes
<1>12. CASE Web(c)!Reload
  <2>1. /\ UNCHANGED <<draftForm, content, posted, waiting, running, done, dataVersion>>
        /\ kept' = {} /\ awaited' = {} /\ answer' = {} /\ shown' = dataVersion
        /\ round' = Web(c)!Settled(c.contents)
    BY <1>12 DEF Web!Reload, Web!server
  <2> QED BY <1>1, <1>3, <2>1, SettledGrows, QuietTypes
<1>13. CASE UNCHANGED <<draftForm, content, shown, kept, awaited, answer, posted, waiting,
                        running, done, dataVersion, round>>
  BY <1>1, <1>2, <1>3, <1>13, QuietTypes
<1> QED BY <1>5, <1>6, <1>7, <1>8, <1>9, <1>10, <1>11, <1>12, <1>13, WebSteps

LEMMA WebInitTyped ==
    ASSUME NEW CONSTANT c, Web(c)!Init
    PROVE  WebTyped(c)
<1>1. posted = {} /\ IsFiniteSet(posted) /\ Cardinality(posted) = 0
  BY FS_EmptySet DEF Web!Init
<1> QED BY <1>1 DEF Web!Init, WebTyped, PostsNumbered, PageTyped, ServerTyped, KeptWereSent,
           SentBefore, Numbers

LEMMA WebTypes ==
    ASSUME NEW CONSTANT c
    PROVE  Web(c)!Spec => []WebTyped(c)
<1>1. Web(c)!Init => WebTyped(c)
  BY WebInitTyped
<1>2. WebTyped(c) /\ [Web(c)!Next]_(Web(c)!vars) => WebTyped(c)'
  BY WebTypedStep
<1> QED BY <1>1, <1>2, PTL DEF Web!Spec

LEMMA WebTypedTypeOK ==
    ASSUME NEW CONSTANT c, WebTyped(c)
    PROVE  Web(c)!TypeOK
<1>1. Cardinality(posted) \in Nat
  BY FS_CardinalityType DEF WebTyped, PostsNumbered
<1>2. (awaited = {} /\ Cardinality(awaited) = 0)
      \/ (awaited # {} /\ Cardinality(awaited) = 1)
  BY FS_EmptySet, FS_Singleton DEF WebTyped, PageTyped
<1>3. Cardinality(answer) = 0 \/ (awaited # {} /\ Cardinality(answer) = 1)
  BY FS_EmptySet, FS_Singleton DEF WebTyped, PageTyped
<1>4. awaited \cup waiting \cup running \subseteq Numbers
  BY DEF WebTyped, PageTyped, ServerTyped
<1>5. \A k \in kept : k.key \in Numbers
  BY DEF WebTyped, KeptWereSent, PostsNumbered
<1> QED BY <1>1, <1>2, <1>3, <1>4, <1>5, WebCardinality
       DEF WebTyped, PageTyped, ServerTyped, Numbers, Web!TypeOK

-----------------------------------------------------------------------------
(* The server runs a key once and tells what it did.                       *)

OneWorkPerKey(c) ==
    /\ \A n, m \in running : Web(c)!Request(n).key = Web(c)!Request(m).key => n = m
    /\ \A n \in running : \A d \in done : d.key # Web(c)!Request(n).key
    /\ \A d, e \in done : d.key = e.key => d = e

ToldTruly(c) ==
    answer = {"ok"} => \A n \in awaited : \E d \in done :
        /\ d.key = Web(c)!Request(n).key /\ d.content = Web(c)!Request(n).content
        /\ d.basis = Web(c)!Request(n).basis

\* Data without versions stay at the first.
Unversioned == draftForm.guard # "version" => dataVersion = 0

LEMMA RequestsStay ==
    ASSUME NEW CONSTANT c, WebTyped(c), [Web(c)!Next]_(Web(c)!vars)
    PROVE  \A n \in Numbers : Web(c)!Request(n)' = Web(c)!Request(n)
<1>1. CASE Web(c)!Submit
  BY <1>1, Pressed, SameRequests
<1>2. CASE posted' = posted
  BY <1>2 DEF Web!Request
<1>3. ASSUME NEW n \in waiting \cup running, Served(c, n)
      PROVE  posted' = posted
  BY <1>3, ServedChanges
<1> QED BY <1>1, <1>2, <1>3, WebSteps DEF Web!Edit, Web!Change, Web!page, Web!server,
    Web!Receive,
           Web!GiveUp, Web!Refetch, Web!Reload

\* What a step of the server does to what runs and is done.
Working(c, n) ==
    \/ Web(c)!Commit(n) /\ n \in running
    \/ Web(c)!Begin(n) /\ done' = done
    \/ done' = done /\ running' \subseteq running

LEMMA ServedWork ==
    ASSUME NEW CONSTANT c, NEW n, Served(c, n)
    PROVE  Working(c, n)
BY DEF Served, Working, Web!Replay, Web!Begin, Web!Busy, Web!Commit, Web!Refuse,
   Web!LoseRequest,
   Web!page

LEMMA PageWork ==
    ASSUME NEW CONSTANT c, [Web(c)!Next]_(Web(c)!vars)
    PROVE  \/ \E n \in waiting \cup running : Served(c, n)
           \/ UNCHANGED <<running, done>>
BY WebSteps DEF Web!Edit, Web!Submit, Web!Change, Web!page, Web!server, Web!Receive,
           Web!GiveUp, Web!Refetch, Web!Reload

LEMMA OneWorkStep ==
    ASSUME NEW CONSTANT c, WebTyped(c), OneWorkPerKey(c), [Web(c)!Next]_(Web(c)!vars)
    PROVE  OneWorkPerKey(c)'
<1>1. \A n \in Numbers : Web(c)!Request(n)' = Web(c)!Request(n)
  BY RequestsStay
<1>2. waiting \subseteq Numbers /\ running \subseteq Numbers
  BY DEF WebTyped, ServerTyped
<1>3. CASE done' = done /\ running' \subseteq running
  BY <1>1, <1>2, <1>3 DEF OneWorkPerKey
<1>4. ASSUME NEW n \in waiting \cup running, Web(c)!Begin(n), done' = done
      PROVE  OneWorkPerKey(c)'
  <2>1. /\ running' = running \cup {n} /\ n \in Numbers
        /\ \A d \in done : d.key # Web(c)!Request(n).key
        /\ \A m \in running : Web(c)!Request(m).key # Web(c)!Request(n).key
    BY <1>2, <1>4 DEF Web!Begin, Web!Recorded, Web!InUse
  <2> QED BY <1>1, <1>2, <1>4, <2>1 DEF OneWorkPerKey
<1>5. ASSUME NEW n \in running, Web(c)!Commit(n)
      PROVE  OneWorkPerKey(c)'
  <2>1. running' = running \ {n} /\ done' = done \cup {Web(c)!Request(n)}
    BY <1>5 DEF Web!Commit
  <2> QED BY <1>1, <1>2, <2>1 DEF OneWorkPerKey
<1> QED BY <1>3, <1>4, <1>5, ServedWork, PageWork DEF Working

LEMMA ToldStep ==
    ASSUME NEW CONSTANT c, WebTyped(c), ToldTruly(c), [Web(c)!Next]_(Web(c)!vars)
    PROVE  ToldTruly(c)'
<1>1. \A n \in Numbers : Web(c)!Request(n)' = Web(c)!Request(n)
  BY RequestsStay
<1>2. waiting \subseteq Numbers /\ running \subseteq Numbers /\ awaited \subseteq Numbers
  BY DEF WebTyped, ServerTyped, PageTyped
<1>3. CASE awaited' \subseteq awaited /\ done \subseteq done' /\ answer' \in {answer, {}}
  BY <1>1, <1>2, <1>3 DEF ToldTruly
<1>4. CASE Web(c)!Submit
  BY <1>4 DEF Web!Submit, WebTyped, PageTyped, ToldTruly
<1>5. ASSUME NEW n \in waiting \cup running, Served(c, n)
      PROVE  ToldTruly(c)'
  <2>1. UNCHANGED awaited /\ n \in Numbers
    BY <1>5, ServedChanges
  <2>2. done \subseteq done'
    BY <1>5 DEF Served, Web!Replay, Web!Begin, Web!Busy, Web!Commit, Web!Refuse, Web!LoseRequest
  <2>3. CASE answer' = answer
    BY <1>3, <2>1, <2>2, <2>3
  <2>4. CASE answer' # answer /\ answer' = {"ok"}
    <3>1. awaited = {n}
      BY <1>5, <2>4 DEF Served, Web!Replay, Web!Begin, Web!Busy, Web!Commit, Web!Refuse,
         Web!LoseRequest, Web!Reply, Web!page
    <3>2. CASE Web(c)!Replay(n)
      <4>1. PICK d \in done : d.key = Web(c)!Request(n).key
        BY <3>2 DEF Web!Replay, Web!Recorded
      <4>2. \A e \in Web(c)!Recorded(Web(c)!Request(n)) :
               Web(c)!SameRequest(e, Web(c)!Request(n))
        BY <2>4, <3>1, <3>2 DEF Web!Replay, Web!Reply
      <4>3. /\ d.key = Web(c)!Request(n).key
            /\ d.content = Web(c)!Request(n).content /\ d.basis = Web(c)!Request(n).basis
        BY <4>1, <4>2 DEF Web!Recorded, Web!SameRequest
      <4> QED BY <1>1, <2>1, <2>2, <3>1, <4>1, <4>3 DEF ToldTruly
    <3>3. CASE Web(c)!Commit(n)
      <4>1. Web(c)!Request(n) \in done'
        BY <3>3 DEF Web!Commit
      <4> QED BY <1>1, <2>1, <3>1, <4>1 DEF ToldTruly
    <3>4. ~Web(c)!Busy(n) /\ ~Web(c)!Refuse(n) /\ ~Web(c)!Begin(n) /\ ~Web(c)!LoseRequest(n)
      BY <2>4, <3>1 DEF Web!Busy, Web!Refuse, Web!Begin, Web!LoseRequest, Web!Reply, Web!page
    <3> QED BY <1>5, <3>2, <3>3, <3>4 DEF Served
  <2>5. CASE answer' # {"ok"}
    BY <2>5 DEF ToldTruly
  <2> QED BY <2>3, <2>4, <2>5
<1>6. ASSUME ~Web(c)!Submit, ~\E n \in waiting \cup running : Served(c, n)
      PROVE  awaited' \subseteq awaited /\ done \subseteq done' /\ answer' \in {answer, {}}
  BY <1>6, WebSteps DEF Web!Edit, Web!Change, Web!page, Web!server, Web!Receive,
           Web!GiveUp, Web!Refetch, Web!Reload
<1> QED BY <1>3, <1>4, <1>5, <1>6

LEMMA UnversionedStep ==
    ASSUME NEW CONSTANT c, Unversioned, [Web(c)!Next]_(Web(c)!vars)
    PROVE  Unversioned' /\ draftForm' = draftForm
<1>1. draftForm' = draftForm
  BY WebSteps DEF Served, Web!Edit, Web!Submit, Web!Change, Web!page, Web!server, Web!Receive,
     Web!GiveUp, Web!Refetch, Web!Reload, Web!Replay, Web!Begin, Web!Busy, Web!Commit,
     Web!Refuse, Web!LoseRequest
<1>2. dataVersion' = dataVersion \/ draftForm.guard = "version"
  BY WebSteps DEF Served, Web!Edit, Web!Submit, Web!Change, Web!page, Web!server, Web!Receive,
     Web!GiveUp, Web!Refetch, Web!Reload, Web!Replay, Web!Begin, Web!Busy, Web!Commit,
     Web!Refuse, Web!LoseRequest
<1> QED BY <1>1, <1>2 DEF Unversioned

-----------------------------------------------------------------------------
(* What of a form makes its key good.                                      *)

Freezes(f) == f.edit # "leaves"

\* Two different things do not share a key.
TellsApart(f) ==
    ~Freezes(f) => /\ "no contents" \notin f.print
                   /\ f.guard = "version" => "shown" \in f.print

\* The server compares versions, and newer data on the screen are a new wish.
VersionForm(f) ==
    /\ f.guard = "version" /\ "shown" \in f.print
    /\ Freezes(f) => f.keeps = "one" /\ "ok" \in f.frees /\ "clock" \notin f.print

\* The server compares nothing, and only a success drops a key.
KeyedForm(f) ==
    /\ f.guard = "none" /\ "shown" \notin f.print /\ "clock" \notin f.print
    /\ f.frees \subseteq {"ok"}
    /\ f.keeps = IF Freezes(f) THEN "one" ELSE "all"
    /\ ~Freezes(f) => "no contents" \notin f.print

\* The server compares names.
NamedForm(f) == f.guard = "name"

NamesDiffer == \A d, e \in done : d.content = e.content => d = e

\* A key is of one thing, and its print tells of which.
KeysTell ==
    /\ \A r, s \in posted : r.key = s.key => r.content = s.content /\ r.basis = s.basis
    /\ \A k \in kept, r \in posted : r.key = k.key => r.content = k.content /\ r.basis = k.basis
    /\ ~Freezes(draftForm) => \A k \in kept :
          k.print[1] = {k.content} /\ ("shown" \in draftForm.print => k.print[2] = k.basis)

LEMMA NamesStep ==
    ASSUME NEW CONSTANT c, WebTyped(c), NamedForm(draftForm), NamesDiffer,
           [Web(c)!Next]_(Web(c)!vars)
    PROVE  NamesDiffer'
<1>1. ASSUME NEW n \in running, Web(c)!Commit(n)
      PROVE  NamesDiffer'
  <2>1. /\ done' = done \cup {Web(c)!Request(n)}
        /\ \A d \in done : d.content # Web(c)!Request(n).content
    BY <1>1 DEF Web!Commit, Web!Current, NamedForm
  <2> QED BY <2>1 DEF NamesDiffer
<1>2. CASE done' = done
  BY <1>2 DEF NamesDiffer
<1>3. ASSUME NEW n \in waiting \cup running, Web(c)!Begin(n)
      PROVE  done' = done
  BY <1>3 DEF Web!Begin
<1> QED BY <1>1, <1>2, <1>3, ServedWork, PageWork DEF Working

\* Except when something is sent, no request and no key is new.
LEMMA NothingSent ==
    ASSUME NEW CONSTANT c, WebTyped(c), [Web(c)!Next]_(Web(c)!vars), ~Web(c)!Submit
    PROVE  posted' = posted /\ kept' \subseteq kept
<1>1. ASSUME NEW n \in waiting \cup running, Served(c, n)
      PROVE  UNCHANGED <<kept, posted>>
  BY <1>1, ServedChanges
<1> QED BY <1>1, WebSteps DEF Web!Edit, Web!Change, Web!page, Web!server, Web!Receive,
           Web!GiveUp, Web!Refetch, Web!Reload, Web!Remaining

LEMMA KeysTellStep ==
    ASSUME NEW CONSTANT c, WebTyped(c), Unversioned, TellsApart(draftForm), KeysTell,
           [Web(c)!Next]_(Web(c)!vars)
    PROVE  KeysTell'
<1>1. draftForm' = draftForm
  BY UnversionedStep
<1>2. CASE ~Web(c)!Submit
  BY <1>1, <1>2, NothingSent DEF KeysTell
<1>3. CASE Web(c)!Submit
  <2>1. PICK r, k : PostOf(c, r, k) /\ (Afresh(c, k) \/ (k \in kept /\ Web(c)!Fits(k)))
    BY <1>3, Pressed
  <2>2. posted' = posted \cup {r} /\ kept' \subseteq kept \cup {k} /\ r.key = k.key
    BY <2>1 DEF PostOf, Web!Kept
  <2>3. /\ \A s \in posted : s.key \in Nat /\ s.key < Cardinality(posted) + 1
        /\ \A l \in kept : \E s \in posted : s.key = l.key /\ s.content = l.content
           /\ s.basis = l.basis
    <3>1. Cardinality(posted) \in Nat
      BY FS_CardinalityType DEF WebTyped, PostsNumbered
    <3> QED BY <3>1 DEF WebTyped, PostsNumbered, Posts, Numbers, KeptWereSent
  <2>4. CASE Afresh(c, k)
    <3>1. /\ k.key = Cardinality(posted) + 1 /\ r.content = k.content /\ r.basis = k.basis
          /\ ~Freezes(draftForm) => k.print[1] = {k.content}
          /\ "shown" \in draftForm.print => k.print[2] = k.basis
      <4>1. /\ k.print = Web(c)!Fingerprint /\ k.key = Cardinality(posted) + 1
            /\ k.content = content /\ k.basis = shown
        BY <2>4 DEF Afresh
      <4>2. r.content = k.content /\ r.basis = k.basis
        BY <2>1, <4>1 DEF PostOf
      <4>3. ~Freezes(draftForm) => Web(c)!Fingerprint[1] = {content}
        BY DEF Web!Fingerprint, TellsApart
      <4>4. "shown" \in draftForm.print => Web(c)!Fingerprint[2] = shown
        BY DEF Web!Fingerprint
      <4> QED BY <4>1, <4>2, <4>3, <4>4
    <3>2. \A s \in posted : s.key # k.key
      BY <2>3, <3>1
    <3>3. \A l \in kept : l.key # k.key
      BY <2>3, <3>2
    <3> QED BY <1>1, <2>2, <3>1, <3>2, <3>3 DEF KeysTell
  <2>5. CASE k \in kept /\ Web(c)!Fits(k)
    <3>1. r.content = k.content /\ r.basis = k.basis
      <4>1. CASE Freezes(draftForm)
        BY <2>1, <4>1 DEF PostOf, Freezes
      <4>2. CASE ~Freezes(draftForm)
        <5>1. k.print = Web(c)!Fingerprint /\ r.content = content /\ r.basis = shown
          BY <2>1, <2>5, <4>2 DEF PostOf, Freezes, Web!Fits
        <5>2. k.content = content
          <6>1. Web(c)!Fingerprint[1] = {content}
            BY <4>2 DEF Web!Fingerprint, TellsApart
          <6> QED BY <2>5, <4>2, <5>1, <6>1 DEF KeysTell
        <5>3. k.basis = shown
          <6>1. CASE "shown" \in draftForm.print
            <7>1. Web(c)!Fingerprint[2] = shown
              BY <6>1 DEF Web!Fingerprint
            <7> QED BY <2>5, <4>2, <5>1, <6>1, <7>1 DEF KeysTell
          <6>2. CASE "shown" \notin draftForm.print
            <7>1. dataVersion = 0 /\ shown = 0
              <8>1. draftForm.guard # "version"
                BY <4>2, <6>2 DEF TellsApart
              <8>2. dataVersion \in Nat /\ shown \in Nat /\ shown <= dataVersion
                BY DEF WebTyped, PageTyped
              <8> QED BY <8>1, <8>2 DEF Unversioned
            <7>2. \A s \in posted : s.basis = 0
              BY <7>1 DEF WebTyped, SentBefore, PostsNumbered, Posts
            <7>3. PICK s \in posted : s.basis = k.basis
              BY <2>3, <2>5
            <7> QED BY <7>1, <7>2, <7>3
          <6> QED BY <6>1, <6>2
        <5> QED BY <5>1, <5>2, <5>3
      <4> QED BY <4>1, <4>2
    <3>2. kept' \subseteq kept
      BY <2>2, <2>5
    <3>3. PICK s \in posted : s.key = k.key /\ s.content = k.content /\ s.basis = k.basis
      BY <2>3, <2>5
    <3>4. \A t \in posted : t.key = r.key => t.content = r.content /\ t.basis = r.basis
      BY <2>2, <3>1, <3>3 DEF KeysTell
    <3>5. \A l \in kept : r.key = l.key => r.content = l.content /\ r.basis = l.basis
      BY <2>2, <3>1, <3>3 DEF KeysTell
    <3> QED BY <1>1, <2>2, <3>2, <3>4, <3>5 DEF KeysTell
  <2> QED BY <2>1, <2>4, <2>5
<1> QED BY <1>2, <1>3

-----------------------------------------------------------------------------
(* Forms whose versions the server compares.                               *)

\* What was sent last under each wish has been settled since.
AllSettled == \A s \in posted : s.round # round[s.content]

DoneByVersion ==
    /\ \A d \in done : d.basis < dataVersion
    /\ \A d, e \in done : d.basis = e.basis => d = e
    /\ \A d \in done : d.round = round[d.content] => d.basis = shown
    /\ \A d \in done, s \in posted :
          s.content = d.content /\ s.round = d.round => s.basis <= d.basis

\* What is awaited or frozen is of the data shown, unless these are newer.
AwaitedIsShown(c) ==
    /\ \A n \in awaited : Web(c)!Request(n).basis = shown \/ AllSettled
    /\ Freezes(draftForm) =>
          /\ \A k \in kept : k.basis = shown \/ AllSettled
          /\ \A k, l \in kept : k = l
          /\ \A n \in awaited : \A k \in kept : k.key = Web(c)!Request(n).key

VersionsTell(c) == DoneByVersion /\ AwaitedIsShown(c)

LEMMA SettledAll ==
    ASSUME NEW CONSTANT c, WebTyped(c), posted' = posted,
           round' = Web(c)!Settled(c.contents)
    PROVE  AllSettled'
<1> SUFFICES ASSUME NEW s \in posted
             PROVE  s.round # round'[s.content]
  BY DEF AllSettled
<1>1. s.content \in c.contents /\ s.round \in Nat /\ s.round <= round[s.content]
  BY DEF WebTyped, PostsNumbered, Posts, SentBefore
<1>2. round'[s.content] = round[s.content] + 1 /\ round[s.content] \in Nat
  BY <1>1, SettledGrows DEF WebTyped, PageTyped
<1> QED BY <1>1, <1>2

\* Nothing is done, and where the data shown change, everything is settled.
LEMMA ShownAnew ==
    ASSUME NEW CONSTANT c, WebTyped(c), VersionsTell(c), [Web(c)!Next]_(Web(c)!vars),
           UNCHANGED <<draftForm, posted, done>>, dataVersion <= dataVersion',
           kept' \subseteq kept, awaited' \subseteq awaited,
           \/ UNCHANGED <<shown, round>>
           \/ round' = Web(c)!Settled(c.contents)
    PROVE  VersionsTell(c)'
<1>1. \A n \in Numbers : Web(c)!Request(n)' = Web(c)!Request(n)
  BY RequestsStay
<1>2. awaited \subseteq Numbers
  BY DEF WebTyped, PageTyped
<1>3. UNCHANGED <<shown, round>> \/ AllSettled'
  BY SettledAll
<1>4. done \subseteq posted /\ dataVersion \in Nat /\ dataVersion' \in Nat
      /\ \A d \in done : d.basis \in Nat
  BY WebTypedStep DEF WebTyped, ServerTyped, PageTyped, PostsNumbered, Posts
<1>5. DoneByVersion'
  BY <1>3, <1>4 DEF VersionsTell, DoneByVersion, AllSettled
<1>6. AwaitedIsShown(c)'
  <2>1. CASE UNCHANGED <<shown, round>>
    BY <1>1, <1>2, <2>1 DEF VersionsTell, AwaitedIsShown, AllSettled
  <2>2. CASE AllSettled'
    BY <1>1, <1>2, <2>2 DEF VersionsTell, AwaitedIsShown
  <2> QED BY <1>3, <2>1, <2>2
<1> QED BY <1>5, <1>6 DEF VersionsTell

LEMMA VersionsTellStep ==
    ASSUME NEW CONSTANT c, WebTyped(c), VersionForm(draftForm), OneWorkPerKey(c),
           ToldTruly(c), VersionsTell(c), [Web(c)!Next]_(Web(c)!vars)
    PROVE  VersionsTell(c)'
<1>1. draftForm.guard = "version" /\ "shown" \in draftForm.print
      /\ (Freezes(draftForm) => draftForm.keeps = "one" /\ "ok" \in draftForm.frees
                                /\ "clock" \notin draftForm.print)
  BY DEF VersionForm
<1>2. /\ shown \in Nat /\ dataVersion \in Nat /\ shown <= dataVersion
      /\ round \in [c.contents -> Nat] /\ done \subseteq posted
      /\ waiting \subseteq Numbers /\ running \subseteq Numbers
      /\ awaited \subseteq Numbers
  BY DEF WebTyped, PageTyped, ServerTyped
<1>3. \A s \in posted : /\ s.content \in c.contents /\ s.round \in Nat /\ s.basis \in Nat
                        /\ s.basis <= shown /\ s.round <= round[s.content]
  BY DEF WebTyped, PostsNumbered, Posts, SentBefore
<1>4. \A n \in Numbers : Web(c)!Request(n)' = Web(c)!Request(n)
  BY RequestsStay
<1>5. \A n \in Numbers : Web(c)!Request(n) \in posted
  BY RequestFound DEF WebTyped
<1>6. CASE \E d \in c.contents : Web(c)!Edit(d)
  <2>1. /\ UNCHANGED <<draftForm, shown, awaited, posted, done, dataVersion>>
        /\ kept' \subseteq kept
        /\ round' = round \/ round' = Web(c)!Settled(c.contents)
    BY <1>6 DEF Web!Edit, Web!server
  <2> QED BY <1>2, <2>1, ShownAnew
<1>7. CASE Web(c)!Submit
  <2>1. PICK r, k : /\ PostOf(c, r, k)
                    /\ Afresh(c, k) \/ (k \in kept /\ Web(c)!Fits(k))
                    /\ round' = IF draftForm.keeps = "one" /\ Afresh(c, k) /\ kept # {}
                                THEN [d \in c.contents |->
                                         IF d = content THEN round[d] ELSE round[d] + 1]
                                ELSE round
    BY <1>7, Pressed
  <2>2. /\ posted' = posted \cup {r} /\ awaited' = {r.number} /\ r.key = k.key
        /\ UNCHANGED <<draftForm, shown, done, dataVersion>>
    BY <1>7, <2>1 DEF PostOf, Web!Submit
  <2>3. Web(c)!Request(r.number)' = r
    BY <2>1, SameRequests
  <2>4. content \in c.contents /\ r \in Posts(c)
    BY <2>1 DEF PostOf, WebTyped, PageTyped
  <2>5. /\ \A d \in c.contents : round'[d] = round[d]
           \/ (d # content /\ round'[d] = round[d] + 1)
        /\ round'[content] = round[content]
    BY <1>2, <2>1, <2>4
  <2>6. CASE ~Freezes(draftForm) \/ Afresh(c, k)
    <3>1. r.content = content /\ r.basis = shown /\ r.round = round[content]
      BY <2>1, <2>6 DEF PostOf, Freezes, Afresh
    <3>2. \A d \in done : d.round = round'[d.content] => d.basis = shown
      BY <1>2, <1>3, <2>5 DEF VersionsTell, DoneByVersion
    <3>3. \A d \in done : d.content = content /\ d.round = r.round => d.basis = shown
      BY <3>1 DEF VersionsTell, DoneByVersion
    <3>4. DoneByVersion'
      BY <1>2, <1>3, <2>2, <3>1, <3>2, <3>3 DEF VersionsTell, DoneByVersion
    <3>5. ASSUME Freezes(draftForm)
          PROVE  kept' = {k} /\ k.basis = shown
      BY <1>1, <2>1, <2>6, <3>5 DEF PostOf, Web!Kept, Afresh
    <3> QED BY <2>2, <2>3, <3>1, <3>4, <3>5 DEF VersionsTell, AwaitedIsShown
  <2>7. CASE Freezes(draftForm) /\ k \in kept
    <3>1. PICK s \in posted : /\ s.key = k.key /\ s.content = k.content
                              /\ s.basis = k.basis /\ s.round = k.round
      BY <2>7 DEF WebTyped, KeptWereSent
    <3>2. r.content = s.content /\ r.basis = s.basis /\ r.round = s.round
      BY <2>1, <2>7, <3>1 DEF PostOf, Freezes
    <3>3. Web(c)!Fits(k)
      BY <1>1, <2>7 DEF Web!Fits, Freezes
    <3>4. round' = round
      BY <2>1, <2>7, <3>3 DEF Afresh
    <3>5. DoneByVersion'
      BY <2>2, <3>1, <3>2, <3>4 DEF VersionsTell, DoneByVersion
    <3>6. kept' = {k}
      BY <1>1, <2>1, <2>7 DEF PostOf, Web!Kept
    <3>7. k.basis = shown \/ AllSettled
      BY <2>7 DEF VersionsTell, AwaitedIsShown
    <3>8. k.basis = shown \/ AllSettled'
      BY <2>2, <3>1, <3>2, <3>4, <3>7 DEF AllSettled
    <3>9. r.basis = k.basis
      BY <3>1, <3>2
    <3> QED BY <2>2, <2>3, <3>5, <3>6, <3>8, <3>9 DEF VersionsTell, AwaitedIsShown
  <2> QED BY <2>1, <2>6, <2>7
<1>8. ASSUME NEW n \in waiting \cup running, Served(c, n)
      PROVE  VersionsTell(c)'
  <2>1. /\ UNCHANGED <<draftForm, content, shown, kept, awaited, posted, round>>
        /\ dataVersion' \in Nat /\ dataVersion <= dataVersion'
    BY <1>8, ServedChanges
  <2>2. AwaitedIsShown(c)'
    BY <1>2, <1>4, <2>1 DEF VersionsTell, AwaitedIsShown, AllSettled
  <2>3. CASE done' = done
    BY <2>1, <2>3, ShownAnew
  <2>4. CASE n \in running /\ Web(c)!Commit(n)
    <3>1. /\ done' = done \cup {Web(c)!Request(n)} /\ dataVersion' = dataVersion + 1
          /\ Web(c)!Request(n).basis = dataVersion
      BY <1>1, <2>4 DEF Web!Commit, Web!Current
    <3>2. Web(c)!Request(n) \in posted /\ Web(c)!Request(n).basis = shown
      BY <1>2, <1>3, <1>5, <2>4, <3>1
    <3>3. \A d \in done : d.basis \in Nat /\ d.basis < dataVersion
      BY <1>2, <1>3 DEF VersionsTell, DoneByVersion
    <3>4. DoneByVersion'
      BY <1>2, <1>3, <2>1, <3>1, <3>2, <3>3 DEF VersionsTell, DoneByVersion
    <3> QED BY <2>2, <3>4 DEF VersionsTell
  <2>5. \/ n \in running /\ Web(c)!Commit(n)
        \/ done' = done
    BY <1>8, ServedWork DEF Working
  <2> QED BY <2>3, <2>4, <2>5
<1>9. CASE Web(c)!Change
  <2>1. /\ UNCHANGED <<draftForm, shown, kept, awaited, posted, done, round>>
        /\ dataVersion' = dataVersion + 1
    BY <1>9 DEF Web!Change, Web!page
  <2> QED BY <1>2, <2>1, ShownAnew
<1>10. CASE Web(c)!Receive
  <2>1. PICK n \in Numbers, what \in Answers :
              /\ awaited = {n} /\ answer = {what}
              /\ kept' = IF what \notin draftForm.frees THEN kept
                         ELSE {k \in kept : k.key # Web(c)!Request(n).key}
              /\ \/ what = "ok" /\ shown' = dataVersion
                    /\ round' = Web(c)!Settled({Web(c)!Request(n).content})
                 \/ what # "ok" /\ shown' \in {shown, dataVersion}
                    /\ round' = Web(c)!Reread(shown')
              /\ awaited' = {} /\ answer' = {}
              /\ UNCHANGED <<draftForm, content, posted, waiting, running, done, dataVersion>>
    BY <1>10, ReceiveMoves
  <2>2. kept' \subseteq kept
    BY <2>1
  <2>3. CASE what # "ok"
    <3>1. UNCHANGED <<shown, round>> \/ round' = Web(c)!Settled(c.contents)
      BY <1>1, <2>1, <2>3 DEF Web!Reread
    <3> QED BY <1>2, <2>1, <2>2, <3>1, ShownAnew
  <2>4. CASE what = "ok"
    <3> DEFINE r == Web(c)!Request(n)
    <3>1. PICK e \in done : e.content = r.content /\ e.basis = r.basis
      BY <2>1, <2>4 DEF ToldTruly
    <3>2. r \in posted /\ (r.basis = shown \/ AllSettled)
      BY <1>5, <2>1 DEF VersionsTell, AwaitedIsShown
    <3> HIDE DEF r
    <3>3. /\ \A d \in c.contents : round'[d] = IF d = r.content THEN round[d] + 1 ELSE round[d]
          /\ shown' = dataVersion
      BY <2>1, <2>4, SettledGrows DEF r
    <3>4. \A d \in done : d.round # round'[d.content]
      <4> SUFFICES ASSUME NEW d \in done, d.round = round'[d.content]
                   PROVE  FALSE
        OBVIOUS
      <4>1. d.content # r.content /\ d.round = round[d.content]
        BY <1>2, <1>3, <3>3
      <4>2. d.basis = shown /\ ~AllSettled
        BY <1>2, <4>1 DEF VersionsTell, DoneByVersion, AllSettled
      <4>3. e = d
        BY <3>1, <3>2, <4>2 DEF VersionsTell, DoneByVersion
      <4> QED BY <3>1, <4>1, <4>3
    <3>5. DoneByVersion'
      BY <2>1, <3>4 DEF VersionsTell, DoneByVersion
    <3>6. Freezes(draftForm) => kept' = {}
      BY <1>1, <2>1, <2>4 DEF VersionsTell, AwaitedIsShown
    <3> QED BY <2>1, <3>5, <3>6 DEF VersionsTell, AwaitedIsShown
  <2> QED BY <2>3, <2>4
<1>11. CASE Web(c)!GiveUp
  <2>1. /\ UNCHANGED <<draftForm, shown, posted, round, done, dataVersion>>
        /\ kept' \subseteq kept /\ awaited' = {}
    BY <1>11 DEF Web!GiveUp, Web!Remaining, Web!server
  <2> QED BY <1>2, <2>1, ShownAnew
<1>12. CASE Web(c)!Refetch
  <2>1. /\ UNCHANGED <<draftForm, kept, awaited, posted, done, dataVersion>>
        /\ round' = Web(c)!Settled(c.contents)
    BY <1>1, <1>12 DEF Web!Refetch, Web!server, Web!Reread
  <2> QED BY <1>2, <2>1, ShownAnew
<1>13. CASE Web(c)!Reload
  <2>1. /\ UNCHANGED <<draftForm, posted, done, dataVersion>>
        /\ kept' = {} /\ awaited' = {} /\ round' = Web(c)!Settled(c.contents)
    BY <1>13 DEF Web!Reload, Web!server
  <2> QED BY <1>2, <2>1, ShownAnew
<1>14. CASE UNCHANGED <<draftForm, content, shown, kept, awaited, answer, posted, waiting,
                        running, done, dataVersion, round>>
  BY <1>2, <1>14, ShownAnew
<1> QED BY <1>6, <1>7, <1>8, <1>9, <1>10, <1>11, <1>12, <1>13, <1>14, WebSteps

-----------------------------------------------------------------------------
(* Forms whose commands the server knows by their keys alone.              *)

\* A wish that is not settled has its key kept, and keeps it.
WishesKeyed ==
    /\ \A r \in posted : r.round = round[r.content] =>
          \E k \in kept : k.key = r.key /\ k.content = r.content
    /\ \A r, s \in posted : r.content = s.content /\ r.round = s.round => r.key = s.key
    /\ \A k, l \in kept : Freezes(draftForm) \/ k.content = l.content => k = l
    /\ ~Freezes(draftForm) => \A k \in kept : k.print = <<{k.content}, 0, 0>>

LEMMA WishesSettled ==
    ASSUME NEW CONSTANT c, WebTyped(c), WishesKeyed, UNCHANGED <<draftForm, posted>>,
           kept' \subseteq kept, round' = Web(c)!Settled(c.contents)
    PROVE  WishesKeyed'
<1>1. AllSettled'
  BY SettledAll
<1> QED BY <1>1 DEF WishesKeyed, AllSettled

LEMMA WishesKeyedStep ==
    ASSUME NEW CONSTANT c, WebTyped(c), KeyedForm(draftForm), Unversioned, KeysTell,
           WishesKeyed, [Web(c)!Next]_(Web(c)!vars)
    PROVE  WishesKeyed'
<1>1. /\ draftForm.guard = "none" /\ "shown" \notin draftForm.print
      /\ "clock" \notin draftForm.print /\ draftForm.frees \subseteq {"ok"}
      /\ ~Freezes(draftForm) => draftForm.keeps = "all" /\ "no contents" \notin draftForm.print
      /\ Freezes(draftForm) => draftForm.keeps = "one"
  BY DEF KeyedForm
<1>2. /\ content \in c.contents /\ round \in [c.contents -> Nat]
      /\ \A s \in posted : /\ s.content \in c.contents /\ s.round \in Nat
                           /\ s.round <= round[s.content]
  BY DEF WebTyped, PageTyped, PostsNumbered, Posts, SentBefore
<1>3. draftForm' = draftForm
  BY UnversionedStep
<1>4. CASE UNCHANGED <<posted, kept, round>>
  BY <1>3, <1>4 DEF WishesKeyed
<1>5. CASE \E d \in c.contents : Web(c)!Edit(d)
  <2>1. \/ UNCHANGED <<posted, kept, round>>
        \/ posted' = posted /\ kept' = {} /\ round' = Web(c)!Settled(c.contents)
    BY <1>5 DEF Web!Edit, Web!server
  <2> QED BY <1>3, <1>4, <2>1, WishesSettled
<1>6. CASE Web(c)!Submit
  <2>1. PICK r, k : /\ PostOf(c, r, k)
                    /\ Afresh(c, k) \/ (k \in kept /\ Web(c)!Fits(k))
                    /\ round' = IF draftForm.keeps = "one" /\ Afresh(c, k) /\ kept # {}
                                THEN [d \in c.contents |->
                                         IF d = content THEN round[d] ELSE round[d] + 1]
                                ELSE round
    BY <1>6, Pressed
  <2>2. posted' = posted \cup {r} /\ r.key = k.key
    BY <2>1 DEF PostOf
  <2>3. Freezes(draftForm) => \A f \in kept : Web(c)!Fits(f)
    BY <1>1 DEF Web!Fits, Freezes
  <2>4. ~Freezes(draftForm) => Web(c)!Fingerprint = <<{content}, 0, 0>>
    BY <1>1 DEF Web!Fingerprint
  <2>5. ~Freezes(draftForm) => \A f \in kept : Web(c)!Fits(f) <=> f.content = content
    <3>1. ASSUME NEW d, {d} = {content}
          PROVE  d = content
      BY <3>1
    <3>2. ~Freezes(draftForm) => \A f \in kept : Web(c)!Fits(f)
          <=> f.print = <<{content}, 0, 0>>
      BY <2>4 DEF Web!Fits, Freezes
    <3>3. ~Freezes(draftForm) => \A f \in kept : f.print = <<{f.content}, 0, 0>>
      BY DEF WishesKeyed
    <3>4. ~Freezes(draftForm) => \A f \in kept : {f.content} = f.print[1]
      BY <3>3
    <3> QED BY <3>1, <3>2, <3>3, <3>4
  <2>6. round' = round
    BY <1>1, <2>1, <2>3 DEF Afresh
  <2>7. kept' = IF Freezes(draftForm) THEN {k} ELSE kept \cup {k}
    BY <1>1, <2>1 DEF PostOf, Web!Kept
  \* a new key is made only where no wish for the same was left open
  <2>8. k \in kept \/ \A s \in posted :
           s.round = round[s.content] => ~Freezes(draftForm) /\ s.content # content
    BY <2>1, <2>3, <2>5 DEF Afresh, WishesKeyed
  <2>9. ~Freezes(draftForm) \/ Afresh(c, k) => r.content = content /\ r.round = round[content]
    BY <2>1 DEF PostOf, Freezes, Afresh
  <2>10. ~Freezes(draftForm) \/ Afresh(c, k) => k.content = content
    BY <2>1, <2>5 DEF Afresh
  <2>11. Freezes(draftForm) /\ k \in kept => \E s \in posted :
            /\ s.key = k.key /\ s.content = k.content /\ s.round = k.round
            /\ s.content = r.content /\ s.round = r.round
    BY <2>1 DEF PostOf, Freezes, WebTyped, KeptWereSent
  <2>12. r.content = k.content
    BY <2>1, <2>9, <2>10, <2>11
  <2>13. ASSUME NEW s \in posted, s.content = r.content, s.round = r.round
         PROVE  s.key = r.key
    <3>1. CASE Freezes(draftForm) /\ k \in kept
      BY <2>2, <2>11, <2>13, <3>1 DEF WishesKeyed
    <3>2. CASE ~Freezes(draftForm) \/ k \notin kept
      <4>1. s.content = content /\ s.round = round[s.content]
        BY <2>1, <2>9, <2>13, <3>2
      <4>2. k \in kept /\ ~Freezes(draftForm)
        BY <2>8, <3>2, <4>1
      <4>3. PICK l \in kept : l.key = s.key /\ l.content = s.content
        BY <4>1 DEF WishesKeyed
      <4>4. l = k
        BY <2>10, <4>1, <4>2, <4>3 DEF WishesKeyed
      <4> QED BY <2>2, <4>3, <4>4
    <3> QED BY <3>1, <3>2
  <2>14. \A s \in posted' : s.round = round'[s.content] =>
            \E l \in kept' : l.key = s.key /\ l.content = s.content
    <3>1. ASSUME NEW s \in posted, s.round = round[s.content]
          PROVE  \E l \in kept' : l.key = s.key /\ l.content = s.content
      <4>1. PICK l \in kept : l.key = s.key /\ l.content = s.content
        BY <3>1 DEF WishesKeyed
      <4>2. Freezes(draftForm) => l = k
        BY <2>8, <3>1, <4>1 DEF WishesKeyed
      <4> QED BY <2>7, <4>1, <4>2
    <3> QED BY <2>2, <2>6, <2>7, <2>12, <3>1
  <2>15. ASSUME ~Freezes(draftForm), k \notin kept
         PROVE  \A l \in kept : l.content # k.content
    BY <2>1, <2>5, <2>10, <2>15 DEF Afresh
  <2>16. ~Freezes(draftForm) /\ k \notin kept => k.print = <<{k.content}, 0, 0>>
    BY <2>1, <2>4, <2>10 DEF Afresh
  <2> QED BY <1>3, <2>2, <2>7, <2>13, <2>14, <2>15, <2>16 DEF WishesKeyed
<1>7. ASSUME NEW n \in waiting \cup running, Served(c, n)
      PROVE  UNCHANGED <<posted, kept, round>>
  BY <1>7, ServedChanges
<1>8. CASE Web(c)!Receive
  <2>1. PICK n \in Numbers, what \in Answers :
              /\ awaited = {n} /\ answer = {what}
              /\ kept' = IF what \notin draftForm.frees THEN kept
                         ELSE {k \in kept : k.key # Web(c)!Request(n).key}
              /\ \/ what = "ok" /\ shown' = dataVersion
                    /\ round' = Web(c)!Settled({Web(c)!Request(n).content})
                 \/ what # "ok" /\ shown' \in {shown, dataVersion}
                    /\ round' = Web(c)!Reread(shown')
              /\ awaited' = {} /\ answer' = {}
              /\ UNCHANGED <<draftForm, content, posted, waiting, running, done, dataVersion>>
    BY <1>8, ReceiveMoves
  <2>2. CASE what # "ok"
    BY <1>1, <1>4, <2>1, <2>2 DEF Web!Reread
  <2>3. CASE what = "ok"
    <3> DEFINE r == Web(c)!Request(n)
    <3>1. r \in posted
      BY <2>1, RequestFound DEF WebTyped
    <3>2. \A d \in c.contents : round'[d] = IF d = r.content THEN round[d] + 1 ELSE round[d]
      BY <2>1, <2>3, SettledGrows
    <3>3. kept' \subseteq kept /\ \A k \in kept : k.key # r.key => k \in kept'
      BY <2>1
    <3> HIDE DEF r
    <3>4. ASSUME NEW s \in posted, s.round = round'[s.content]
          PROVE  \E k \in kept' : k.key = s.key /\ k.content = s.content
      <4>1. s.content # r.content /\ s.round = round[s.content]
        BY <1>2, <3>2, <3>4
      <4>2. PICK k \in kept : k.key = s.key /\ k.content = s.content
        BY <4>1 DEF WishesKeyed
      <4>3. k.key # r.key
        BY <3>1, <4>1, <4>2 DEF KeysTell
      <4> QED BY <3>3, <4>2, <4>3
    <3> QED BY <1>3, <2>1, <3>3, <3>4 DEF WishesKeyed
  <2> QED BY <2>2, <2>3
<1>9. CASE Web(c)!GiveUp
  <2>1. UNCHANGED <<posted, kept, round>>
    BY <1>1, <1>9 DEF Web!GiveUp, Web!Remaining, Web!Freed, Web!server
  <2> QED BY <1>4, <2>1
<1>10. CASE Web(c)!Refetch
  <2>1. UNCHANGED <<posted, kept, round>>
    BY <1>1, <1>10 DEF Web!Refetch, Web!Reread, Web!server
  <2> QED BY <1>4, <2>1
<1>11. CASE Web(c)!Reload
  <2>1. posted' = posted /\ kept' = {} /\ round' = Web(c)!Settled(c.contents)
    BY <1>11 DEF Web!Reload, Web!server
  <2> QED BY <1>3, <2>1, WishesSettled
<1>12. CASE Web(c)!Change
  BY <1>4, <1>12 DEF Web!Change, Web!page
<1> QED BY <1>4, <1>5, <1>6, <1>7, <1>8, <1>9, <1>10, <1>11, <1>12, WebSteps

-----------------------------------------------------------------------------
(* What holds of every form, by its kind.                                  *)

FormsInv(c) ==
    /\ WebTyped(c) /\ Unversioned /\ OneWorkPerKey(c) /\ ToldTruly(c)
    /\ TellsApart(draftForm) => KeysTell
    /\ NamedForm(draftForm) => NamesDiffer
    /\ VersionForm(draftForm) => VersionsTell(c)
    /\ KeyedForm(draftForm) => WishesKeyed

LEMMA KeyedTellsApart == ASSUME KeyedForm(draftForm) PROVE TellsApart(draftForm)
BY DEF KeyedForm, TellsApart

LEMMA FormsInvAlways ==
    ASSUME NEW CONSTANT c
    PROVE  Web(c)!Spec => []FormsInv(c)
<1>1. Web(c)!Init => FormsInv(c)
  <2> SUFFICES ASSUME Web(c)!Init PROVE FormsInv(c)
    OBVIOUS
  <2>1. WebTyped(c)
    BY WebInitTyped
  <2>2. /\ posted = {} /\ done = {} /\ kept = {} /\ awaited = {} /\ running = {} /\ answer = {}
        /\ dataVersion = 0
    BY DEF Web!Init
  <2> QED BY <2>1, <2>2 DEF FormsInv, Unversioned, OneWorkPerKey, ToldTruly, KeysTell,
      NamesDiffer,
             VersionsTell, DoneByVersion, AwaitedIsShown, WishesKeyed
<1>2. FormsInv(c) /\ [Web(c)!Next]_(Web(c)!vars) => FormsInv(c)'
  <2> SUFFICES ASSUME FormsInv(c), [Web(c)!Next]_(Web(c)!vars)
               PROVE  FormsInv(c)'
    OBVIOUS
  <2>1. WebTyped(c) /\ Unversioned /\ OneWorkPerKey(c) /\ ToldTruly(c)
    BY DEF FormsInv
  <2>2. WebTyped(c)' /\ OneWorkPerKey(c)' /\ ToldTruly(c)'
    BY <2>1, WebTypedStep, OneWorkStep, ToldStep
  <2>3. Unversioned' /\ draftForm' = draftForm
    BY <2>1, UnversionedStep
  <2>4. TellsApart(draftForm) => KeysTell'
    BY <2>1, KeysTellStep DEF FormsInv
  <2>5. NamedForm(draftForm) => NamesDiffer'
    BY <2>1, NamesStep DEF FormsInv
  <2>6. VersionForm(draftForm) => VersionsTell(c)'
    BY <2>1, VersionsTellStep DEF FormsInv
  <2>7. KeyedForm(draftForm) => WishesKeyed'
    BY <2>1, WishesKeyedStep, KeyedTellsApart DEF FormsInv
  <2> QED BY <2>2, <2>3, <2>4, <2>5, <2>6, <2>7 DEF FormsInv
<1> QED BY <1>1, <1>2, PTL DEF Web!Spec

\* A command of a form takes effect once for each wish of its user, however
\* often it is sent again, if its versions or names are compared by the server
\* or only a success makes the form drop its key (lib/idempotency-retry.ts).
THEOREM WishesDoneOnce ==
    ASSUME NEW CONSTANT c,
           \A f \in c.forms : VersionForm(f) \/ KeyedForm(f) \/ NamedForm(f)
    PROVE  Web(c)!Spec => []Web(c)!DoneOnce
<1>1. FormsInv(c) => Web(c)!DoneOnce
  <2> SUFFICES ASSUME FormsInv(c), NEW d \in done, NEW e \in done,
                      d.content = e.content /\ d.round = e.round
               PROVE  d = e
    BY DEF Web!DoneOnce
  <2>1. draftForm \in c.forms /\ done \subseteq posted /\ posted \subseteq Posts(c)
    BY DEF FormsInv, WebTyped, PageTyped, ServerTyped, PostsNumbered
  <2>2. CASE VersionForm(draftForm)
    <3>1. d.basis <= e.basis /\ e.basis <= d.basis
      BY <2>1, <2>2 DEF FormsInv, VersionsTell, DoneByVersion
    <3>2. d.basis = e.basis
      BY <2>1, <3>1 DEF Posts
    <3> QED BY <2>2, <3>2 DEF FormsInv, VersionsTell, DoneByVersion
  <2>3. CASE KeyedForm(draftForm)
    BY <2>1, <2>3 DEF FormsInv, WishesKeyed, OneWorkPerKey
  <2>4. CASE NamedForm(draftForm)
    BY <2>4 DEF FormsInv, NamesDiffer
  <2> QED BY <2>1, <2>2, <2>3, <2>4
<1> QED BY <1>1, FormsInvAlways, PTL

\* A form that prints what it sends never sends two things with one key, so the
\* server has no reason to refuse a repetition (idempotency.ts, the hash of the
\* request).
THEOREM KeysNameOneRequest ==
    ASSUME NEW CONSTANT c, \A f \in c.forms : TellsApart(f)
    PROVE  Web(c)!Spec => []Web(c)!KeyNamesOneRequest
<1>1. FormsInv(c) => Web(c)!KeyNamesOneRequest
  BY DEF FormsInv, WebTyped, PageTyped, KeysTell, Web!KeyNamesOneRequest
<1> QED BY <1>1, FormsInvAlways, PTL

\* Whatever the form, a success that is shown is of what was sent.
THEOREM SuccessesAreReal ==
    ASSUME NEW CONSTANT c
    PROVE  Web(c)!Spec => [](Web(c)!TypeOK /\ Web(c)!SuccessIsReal)
<1>1. FormsInv(c) => Web(c)!TypeOK
  BY WebTypedTypeOK DEF FormsInv
<1>2. FormsInv(c) => Web(c)!SuccessIsReal
  BY DEF FormsInv, ToldTruly, Web!SuccessIsReal
<1> QED BY <1>1, <1>2, FormsInvAlways, PTL
=============================================================================
