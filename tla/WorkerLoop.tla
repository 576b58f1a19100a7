----------------------------- MODULE WorkerLoop -----------------------------
(***************************************************************************)
(* The loop of the allocation worker: processes that list the sessions     *)
(* whose jobs are due, attempt them one by one, record a heartbeat and     *)
(* report whether they are ready.  What a job does is in                   *)
(* AllocationPipeline; here it succeeds or fails.                          *)
(*                                                                         *)
(* Time is counted in instants, DayLength to a day; the polls are far      *)
(* closer than that, so an instant ends only after one complete tick that  *)
(* found the database up (Clock).                                          *)
(***************************************************************************)
EXTENDS Integers, Sequences, FiniteSets

LOCAL INSTANCE SequencesExt

CONSTANTS
    Replicas,
    N,             \* sessions are 1 .. N, in the order they are listed
    DayOf,         \* the business date of each session, from 0
    Manual,        \* sessions of administrators; the others are the days' own
    Faulty,        \* sessions whose jobs may fail for a reason of their own
    SnapshotHour, CutoffHour, DayLength,
    CatchUp,       \* days a session is still attempted after its own
    Limit,         \* sessions of a tick
    MaxAge,        \* instants an operational tick keeps a process ready
    MaxTime,       \* bound of the clock
    MaxFaults      \* bound: restarts, database outages and faults together

Session == 1 .. N

LoopAssumption ==
    /\ DayOf \in [Session -> Nat] /\ Manual \subseteq Session /\ Faulty \subseteq Session
    /\ \A s, t \in Session : s < t => DayOf[s] <= DayOf[t]
    /\ SnapshotHour \in 0 .. DayLength - 1 /\ CutoffHour \in SnapshotHour .. DayLength - 1
    /\ CatchUp \in Nat /\ Limit \in Nat \ {0} /\ MaxAge \in Nat \ {0}

VARIABLES
    now,
    polled,    \* a complete tick began in this instant
    dbUp,
    exists,    \* order_sessions
    taken,     \* sessions whose snapshot is completed
    done,      \* sessions whose run is completed
    cancelled,
    broken,    \* the job of a faulty session that fails
    proc,      \* the processes
    row,       \* worker_heartbeats
    faults

rows == <<exists, taken, done, cancelled>>
vars == <<now, polled, dbUp, rows, broken, proc, row, faults>>

Never == -1
SnapshotAt(s) == DayOf[s] * DayLength + SnapshotHour
FinalAt(s)    == DayOf[s] * DayLength + CutoffHour
InWindow(s, t) == DayOf[s] >= t \div DayLength - CatchUp

Started(t) ==
    [up |-> "running", since |-> t, tick |-> "idle", at |-> t, queue |-> <<>>, jobs |-> {},
     clean |-> FALSE, failing |-> {}, error |-> FALSE, operational |-> Never]

Init ==
    /\ now = 0 /\ polled = FALSE /\ dbUp = TRUE
    /\ exists = Manual /\ taken = {} /\ done = {} /\ cancelled = {}
    /\ broken = [s \in Session |-> "none"]
    /\ proc = [w \in Replicas |-> Started(0)]
    /\ row = [at |-> Never, started |-> Never, failing |-> {}, error |-> FALSE]
    /\ faults = 0

-----------------------------------------------------------------------------
(* One tick. *)

Working(w, step) == proc[w].up # "down" /\ proc[w].tick = step

StartTick(w) ==
    /\ proc[w].up = "running" /\ proc[w].tick = "idle"
    /\ proc' = [proc EXCEPT ![w].tick = "list", ![w].at = now, ![w].jobs = {}, ![w].clean = TRUE]
    /\ UNCHANGED <<now, polled, dbUp, rows, broken, row, faults>>

Today(t) == {s \in Session \ Manual : DayOf[s] = t \div DayLength}

Due(present, t) ==
    {s \in present \ (done \cup cancelled) : InWindow(s, t) /\ SnapshotAt(s) <= t}

FirstOf(S) == {s \in S : Cardinality({t \in S : t < s}) < Limit}

InOrder(S) == SetToSortSeq(S, <)

NextJob(queue) == IF queue = <<>> THEN "end" ELSE "snapshot"

\* The day's own session is prepared, then the due sessions are listed.  When
\* the listing fails the tick ends, and what the last one said of jobs stays.
List(w) ==
    LET t == proc[w].at
        present == exists \cup Today(t)
        queue == InOrder(FirstOf(Due(present, t)))
    IN  /\ Working(w, "list")
        /\ IF dbUp
           THEN /\ exists' = present
                /\ proc' = [proc EXCEPT ![w].queue = queue, ![w].tick = NextJob(queue)]
           ELSE /\ proc' = [proc EXCEPT ![w].tick = "beat", ![w].error = TRUE, ![w].clean = FALSE]
                /\ UNCHANGED exists
        /\ UNCHANGED <<now, polled, dbUp, taken, done, cancelled, broken, row, faults>>

\* The job of the session at the head of the queue is over.
Advance(w, failed, next) ==
    LET p == proc[w]
        queue == IF next = "final" THEN p.queue ELSE Tail(p.queue)
    IN  proc' = [proc EXCEPT ![w].jobs = IF failed THEN @ \cup {Head(p.queue)} ELSE @,
                             ![w].queue = queue,
                             ![w].clean = @ /\ dbUp,
                             ![w].tick = IF next = "final" THEN "final" ELSE NextJob(queue)]

\* A snapshot that was taken before is replayed; when it fails the final run
\* is blocked, and the next session's turn comes.
Snapshot(w) ==
    LET s == Head(proc[w].queue)
        ok == dbUp /\ (s \in taken \/ (s \notin cancelled /\ broken[s] # "snapshot"))
    IN  /\ Working(w, "snapshot")
        /\ taken' = IF ok THEN taken \cup {s} ELSE taken
        /\ Advance(w, ~ok, IF ok /\ FinalAt(s) <= proc[w].at THEN "final" ELSE "next")
        /\ UNCHANGED <<now, polled, dbUp, exists, done, cancelled, broken, row, faults>>

Final(w) ==
    LET s == Head(proc[w].queue)
        ok == dbUp /\ (s \in done \/ (s \in taken \ cancelled /\ broken[s] # "final"))
    IN  /\ Working(w, "final")
        /\ done' = IF ok THEN done \cup {s} ELSE done
        /\ Advance(w, ~ok, "next")
        /\ UNCHANGED <<now, polled, dbUp, exists, taken, cancelled, broken, row, faults>>

\* Mutant of EndTick: the failures are not kept for the heartbeat.
EndTickForgets(w) ==
    /\ Working(w, "end")
    /\ proc' = [proc EXCEPT ![w].tick = "beat", ![w].operational = now,
                            ![w].failing = {}, ![w].error = FALSE]
    /\ UNCHANGED <<now, polled, dbUp, rows, broken, row, faults>>

EndTick(w) ==
    LET p == proc[w] IN
    /\ Working(w, "end")
    /\ proc' = [proc EXCEPT ![w].tick = "beat", ![w].operational = now,
                            ![w].failing = p.jobs, ![w].error = p.jobs # {}]
    /\ UNCHANGED <<now, polled, dbUp, rows, broken, row, faults>>

\* One row for all processes; failing to write it is only logged.
Heartbeat(w) ==
    LET p == proc[w] IN
    /\ Working(w, "beat")
    /\ row' = IF dbUp THEN [at |-> now, started |-> p.at, failing |-> p.failing, error |-> p.error]
              ELSE row
    /\ polled' = (polled \/ (dbUp /\ p.clean /\ p.at = now))
    /\ proc' = [proc EXCEPT ![w].tick = "idle"]
    /\ UNCHANGED <<now, dbUp, rows, broken, faults>>

-----------------------------------------------------------------------------
(* The process. *)

Ready(w) ==
    LET p == proc[w] IN
    /\ p.up = "running" /\ dbUp /\ p.operational # Never
    /\ \/ now - p.operational <= MaxAge
       \/ p.tick \notin {"idle", "beat"} /\ now - p.at <= MaxAge

Fault == faults < MaxFaults /\ faults' = faults + 1

\* The signal; the tick in flight is waited for.
Stop(w) ==
    /\ proc[w].up = "running" /\ Fault
    /\ proc' = [proc EXCEPT ![w].up = "stopping"]
    /\ UNCHANGED <<now, polled, dbUp, rows, broken, row>>

Exit(w) ==
    /\ proc[w].up = "stopping" /\ proc[w].tick = "idle"
    /\ proc' = [proc EXCEPT ![w].up = "down"]
    /\ UNCHANGED <<now, polled, dbUp, rows, broken, row, faults>>

\* A crash, or the end of the grace period; the transaction is rolled back.
Kill(w) ==
    /\ proc[w].up # "down" /\ Fault
    /\ proc' = [proc EXCEPT ![w].up = "down", ![w].tick = "idle"]
    /\ UNCHANGED <<now, polled, dbUp, rows, broken, row>>

Start(w) ==
    /\ proc[w].up = "down"
    /\ proc' = [proc EXCEPT ![w] = Started(now)]
    /\ UNCHANGED <<now, polled, dbUp, rows, broken, row, faults>>

-----------------------------------------------------------------------------
(* Around it. *)

Cancel(s) ==
    /\ s \in exists \ (done \cup cancelled) /\ Fault
    /\ cancelled' = cancelled \cup {s}
    /\ UNCHANGED <<now, polled, dbUp, exists, taken, done, broken, proc, row>>

Break(s) ==
    /\ s \in Faulty /\ broken[s] = "none" /\ Fault
    /\ \E job \in {"snapshot", "final"} : broken' = [broken EXCEPT ![s] = job]
    /\ UNCHANGED <<now, polled, dbUp, rows, proc, row>>

Repair(s) ==
    /\ broken[s] # "none"
    /\ broken' = [broken EXCEPT ![s] = "none"]
    /\ UNCHANGED <<now, polled, dbUp, rows, proc, row, faults>>

Outage == dbUp /\ Fault /\ dbUp' = FALSE /\ UNCHANGED <<now, polled, rows, broken, proc, row>>

Restore == ~dbUp /\ dbUp' = TRUE /\ UNCHANGED <<now, polled, rows, broken, proc, row, faults>>

Clock ==
    /\ polled /\ now < MaxTime
    /\ now' = now + 1 /\ polled' = FALSE
    /\ UNCHANGED <<dbUp, rows, broken, proc, row, faults>>

TickStep(w) == List(w) \/ Snapshot(w) \/ Final(w) \/ EndTick(w) \/ Heartbeat(w)

Next ==
    \/ \E w \in Replicas :
          StartTick(w) \/ TickStep(w) \/ Stop(w) \/ Exit(w) \/ Kill(w) \/ Start(w)
    \/ \E s \in Session : Cancel(s) \/ Break(s) \/ Repair(s)
    \/ Outage \/ Restore \/ Clock

Spec == Init /\ [][Next]_vars

\* The loop polls again and again and its promises settle; what was stopped is
\* started again (restart: unless-stopped), and outages end.
FairSpec ==
    /\ Spec /\ WF_vars(Restore)
    /\ \A w \in Replicas :
          WF_vars(StartTick(w)) /\ WF_vars(TickStep(w)) /\ WF_vars(Exit(w)) /\ WF_vars(Start(w))

-----------------------------------------------------------------------------
Steps == {"idle", "list", "snapshot", "final", "end", "beat"}

\* A run needs its snapshot; a process has a job only while it has a queue.
TypeOK ==
    /\ now \in 0 .. MaxTime /\ row.at <= now /\ row.started <= row.at
    /\ done \subseteq taken /\ taken \cup cancelled \subseteq exists /\ exists \subseteq Session
    /\ \A w \in Replicas :
          /\ proc[w].tick \in Steps /\ proc[w].at <= now
          /\ proc[w].tick \in {"snapshot", "final"} <=> (proc[w].queue # <<>> /\ proc[w].tick # "idle")
          /\ proc[w].up = "down" => proc[w].tick = "idle"

\* One broken session never stops the others: a session whose own jobs do not
\* fail is completed within the instant of its allocation.
SoundRunsOnTime ==
    \A s \in Session \ Faulty : now > FinalAt(s) => s \in done \cup cancelled

Healthy == row.failing = {} /\ ~row.error

\* A healthy heartbeat says that every run that was due when its tick began is
\* completed.
HealthyIsTrue ==
    row.at # Never /\ Healthy =>
        \A s \in exists : FinalAt(s) <= row.started /\ InWindow(s, row.started)
                             => s \in done \cup cancelled

\* A run that is still open after its instant is seen as failing.
BrokenIsSeen ==
    \A s \in exists : now > FinalAt(s) /\ InWindow(s, now) /\ s \notin done \cup cancelled => ~Healthy

\* A process that has been polling is ready, whatever becomes of its jobs.
PollingIsReady ==
    \A w \in Replicas : proc[w].up = "running" /\ proc[w].since + 1 < now /\ dbUp => Ready(w)

=============================================================================
