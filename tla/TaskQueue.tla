------------------------------ MODULE TaskQueue ------------------------------
(* The queue with its clock: claims under SKIP LOCKED, the sweep of rows whose *)
(* worker has been silent for too long, retries after a delay, the recurring   *)
(* pass that schedules its own successor, the worker's loop with its wake-ups  *)
(* and its orderly stop, and workers that die.  A step is one transaction.     *)
(* Time passes in Tick, in units of which every constant below is a count;     *)
(* a worker spends it on tasks and on waiting, its own statements take none.   *)
EXTENDS Integers, FiniteSets

CONSTANTS
    Workers,        \* worker processes
    Jobs,           \* rows the API and the handlers enqueue, each once
    Passes,         \* bound: rows of the recurring pass that exist at a time
    MaxAttempts,    \* tasks.max_attempts of a new row
    ExtraAttempts,  \* what a dead-letter retry adds to the attempts made
    LongestTask,    \* how long a task may run
    StaleSeconds,   \* task_stale_seconds
    IdleSeconds,    \* worker_idle_seconds
    Delay,          \* how far ahead a retry or a follow-up is scheduled
    Interval,       \* reconcile_interval_seconds
    QueueSize,      \* SUBSCRIBER_QUEUE_SIZE
    MaxKills,       \* bound: workers killed
    MaxStops,       \* bound: workers asked to stop
    MaxRaises,      \* bound: passes that raise
    MaxRequeues,    \* bound: dead letters an operator puts back
    MaxDeaf         \* bound: workers that lose their LISTEN connection

\* task_stale_seconds "must exceed the longest real task" (config.py).
ASSUME TimesAssumption ==
    /\ Jobs \cap Passes = {}
    /\ <<>> \notin Jobs \cup Passes
    /\ {MaxAttempts, ExtraAttempts, IdleSeconds, Delay, Interval, QueueSize} \subseteq Nat \ {0}
    /\ {LongestTask, StaleSeconds} \subseteq Nat
    /\ {MaxKills, MaxStops, MaxRaises, MaxRequeues, MaxDeaf} \subseteq Nat
    /\ LongestTask <= StaleSeconds

VARIABLES
    row,            \* row[k]: status, attempts made, attempts allowed
    due,            \* due[k]: time left until run_at
    since,          \* since[k]: time since it was claimed, or could be
    told,           \* told[k]: pending, and a NOTIFY said so
    pc,             \* pc[w]: where worker w is in its loop
    job,            \* job[w]: the row it has locked or runs, Nothing if none
    timer,          \* timer[w]: time spent on the task, or waiting
    asked,          \* asked[w]: time since it was asked to stop, or NotAsked
    woken,          \* woken[w]: frames in its wake queue
    ear,            \* ear[w]: its LISTEN connection is up
    faults          \* faults spent so far, and dead letters put back

vars == <<row, due, since, told, pc, job, timer, asked, woken, ear, faults>>

-----------------------------------------------------------------------------
Rows      == Jobs \cup Passes
Nothing   == <<>>
NotAsked  == -1
Forever   == 1 + (IF StaleSeconds > IdleSeconds THEN StaleSeconds ELSE IdleSeconds)

NoRow     == [status |-> "none", attempts |-> 0, max |-> 0]
NewRow    == [status |-> "pending", attempts |-> 0, max |-> MaxAttempts]

Between   == {"sweep", "seed", "drain", "empty"}    \* the loop, outside of tasks
Outcomes  == {"done", "dead", "retry"}      \* what a handler returned
Gone      == {"stopped", "killed"}
Places    == Between \cup {"claim", "run", "wait"} \cup Outcomes \cup Gone

Init ==
    /\ row    = [k \in Rows |-> NoRow]
    /\ due    = [k \in Rows |-> 0]
    /\ since  = [k \in Rows |-> 0]
    /\ told   = [k \in Rows |-> FALSE]
    /\ pc     = [w \in Workers |-> "sweep"]
    /\ job    = [w \in Workers |-> Nothing]
    /\ timer  = [w \in Workers |-> 0]
    /\ asked  = [w \in Workers |-> NotAsked]
    /\ woken  = [w \in Workers |-> 0]
    /\ ear    = [w \in Workers |-> TRUE]
    /\ faults = [kills |-> 0, stops |-> 0, raises |-> 0, requeues |-> 0, deaf |-> 0]

-----------------------------------------------------------------------------
(* Rows.                                                                       *)

Live(k)      == row[k].status \in {"pending", "running"}
Claimable(k) == row[k].status = "pending" /\ due[k] = 0
Locked(k)    == \E w \in Workers : pc[w] = "claim" /\ job[w] = k
Spent(k)     == row[k].attempts >= row[k].max

\* Row k becomes r, to run in d; the clock on it starts over.
Put(k, r, d, announced) ==
    /\ row'   = [row EXCEPT ![k] = r]
    /\ due'   = [due EXCEPT ![k] = d]
    /\ since' = [since EXCEPT ![k] = 0]
    /\ told'  = [told EXCEPT ![k] = announced]

SameRows == UNCHANGED <<row, due, since, told>>

\* Mutant: a wake queue without a bound.
PublishUnbounded ==
    woken' = [w \in Workers |-> IF ear[w] /\ pc[w] \notin Gone
                                THEN woken[w] + 1 ELSE woken[w]]

\* A NOTIFY on WAKE_CHANNEL, delivered at commit to every worker that listens;
\* a full queue drops it.
Publish ==
    woken' = [w \in Workers |-> IF ear[w] /\ pc[w] \notin Gone /\ woken[w] < QueueSize
                                THEN woken[w] + 1 ELSE woken[w]]

\* enqueue: now, with a NOTIFY, or for later, without.
Enqueue(k, later) ==
    /\ k \in Jobs
    /\ row[k] = NoRow
    /\ Put(k, NewRow, IF later THEN Delay ELSE 0, ~later)
    /\ IF later THEN UNCHANGED woken ELSE Publish
    /\ UNCHANGED <<pc, job, timer, asked, ear, faults>>

\* requeue, by an operator: any dead letter, a recurring pass included.
Requeue(k) ==
    /\ row[k].status = "failed"
    /\ faults.requeues < MaxRequeues
    /\ Put(k, [row[k] EXCEPT !.status = "pending", !.max = row[k].attempts + ExtraAttempts],
           0, TRUE)
    /\ Publish
    /\ faults' = [faults EXCEPT !.requeues = @ + 1]
    /\ UNCHANGED <<pc, job, timer, asked, ear>>

\* Mutant: a successor is scheduled whatever else is queued.
ScheduleSuccessorAnyway(successorOf) ==
    IF \/ successorOf = {} /\ \E k \in Passes : Live(k)
       \/ \A k \in Passes : row[k] # NoRow
    THEN SameRows
    ELSE \E k \in Passes :
            /\ row[k] = NoRow
            /\ Put(k, NewRow, Interval, FALSE)

\* Mutant: a dead letter counts as scheduled.
ScheduleUnlessDead(successorOf) ==
    IF \E k \in Passes \ successorOf : row[k] # NoRow
    THEN SameRows
    ELSE \E k \in Passes :
            /\ row[k] = NoRow
            /\ Put(k, NewRow, Interval, FALSE)

\* schedule_once, whose lock makes the check and the insert one step.
ScheduleOnce(successorOf) ==
    IF \E k \in Passes \ successorOf : Live(k)
    THEN SameRows
    ELSE \E k \in Passes :
            /\ row[k] = NoRow
            /\ Put(k, NewRow, Interval, FALSE)

-----------------------------------------------------------------------------
(* The worker's loop (worker/loop.py).                                         *)

\* Worker w goes on to a place where it has no row.
Goto(w, place) ==
    /\ pc'    = [pc EXCEPT ![w] = place]
    /\ job'   = [job EXCEPT ![w] = Nothing]
    /\ timer' = [timer EXCEPT ![w] = 0]

\* Mutant: a row is stale as soon as somebody else looks at it.
StaleAtOnce(k) == row[k].status = "running"

\* Mutant: a row that has used up its attempts is not swept.
StaleWithBudget(k) == row[k].status = "running" /\ since[k] > StaleSeconds /\ ~Spent(k)

Stale(k) == row[k].status = "running" /\ since[k] > StaleSeconds

\* sweep_stale: every stale row in one statement.
Sweep(w) ==
    /\ pc[w] = "sweep"
    /\ asked[w] = NotAsked
    /\ row' = [k \in Rows |->
                  IF Stale(k)
                  THEN [row[k] EXCEPT !.status = IF Spent(k) THEN "failed" ELSE "pending"]
                  ELSE row[k]]
    /\ since' = [k \in Rows |-> IF Stale(k) THEN 0 ELSE since[k]]
    /\ Goto(w, "seed")
    /\ UNCHANGED <<due, told, asked, woken, ear, faults>>

\* ensure_scheduled.
Seed(w) ==
    /\ pc[w] = "seed"
    /\ ScheduleOnce({})
    /\ Goto(w, "drain")
    /\ UNCHANGED <<asked, woken, ear, faults>>

\* Mutant: a row another claim has locked is not skipped.
FreeOrLocked(k) == Claimable(k)

Free(k) == Claimable(k) /\ ~Locked(k)

\* Mutant: the flag is looked at between waits only.
LockWhenStopping(w, k) ==
    /\ pc[w] = "drain"
    /\ Free(k)
    /\ pc'   = [pc EXCEPT ![w] = "claim"]
    /\ job'  = [job EXCEPT ![w] = k]
    /\ told' = [told EXCEPT ![k] = FALSE]
    /\ UNCHANGED <<row, due, since, timer, asked, woken, ear, faults>>

\* claim_next, first half: the row is locked for this transaction.
Lock(w, k) ==
    /\ pc[w] = "drain"
    /\ asked[w] = NotAsked
    /\ Free(k)
    /\ pc'   = [pc EXCEPT ![w] = "claim"]
    /\ job'  = [job EXCEPT ![w] = k]
    /\ told' = [told EXCEPT ![k] = FALSE]
    /\ UNCHANGED <<row, due, since, timer, asked, woken, ear, faults>>

\* claim_next, second half: its commit.
Claim(w) ==
    LET k == job[w] IN
    /\ pc[w] = "claim"
    /\ row'   = [row EXCEPT ![k].status = "running", ![k].attempts = @ + 1]
    /\ since' = [since EXCEPT ![k] = 0]
    /\ pc'    = [pc EXCEPT ![w] = "run"]
    /\ timer' = [timer EXCEPT ![w] = 0]
    /\ UNCHANGED <<due, told, job, asked, woken, ear, faults>>

\* A handler ends, as it likes.
RunJob(w, outcome) ==
    /\ pc[w] = "run"
    /\ job[w] \in Jobs
    /\ pc' = [pc EXCEPT ![w] = outcome]
    /\ SameRows
    /\ UNCHANGED <<job, timer, asked, woken, ear, faults>>

\* The recurring pass commits what it did together with its successor.
RunPass(w) ==
    /\ pc[w] = "run"
    /\ job[w] \in Passes
    /\ ScheduleOnce({job[w]})
    /\ pc' = [pc EXCEPT ![w] = "done"]
    /\ UNCHANGED <<job, timer, asked, woken, ear, faults>>

\* Or it raises, and nothing of it is kept.
Raise(w) ==
    /\ pc[w] = "run"
    /\ job[w] \in Passes
    /\ faults.raises < MaxRaises
    /\ faults' = [faults EXCEPT !.raises = @ + 1]
    /\ pc' = [pc EXCEPT ![w] = "retry"]
    /\ SameRows
    /\ UNCHANGED <<job, timer, asked, woken, ear>>

\* A pass that succeeded is read by no rule: its place is free.
Succeeded(k) == IF k \in Passes THEN NoRow ELSE [row[k] EXCEPT !.status = "succeeded"]

\* Mutant: one task for each time the worker wakes.
FinishAndWait(w) ==
    LET k == job[w] IN
    /\ pc[w] \in Outcomes
    /\ Put(k, CASE pc[w] = "done" -> Succeeded(k)
                [] pc[w] = "retry" /\ ~Spent(k) -> [row[k] EXCEPT !.status = "pending"]
                [] OTHER -> [row[k] EXCEPT !.status = "failed"],
           IF pc[w] = "retry" /\ ~Spent(k) THEN Delay ELSE 0, FALSE)
    /\ Goto(w, "wait")
    /\ UNCHANGED <<asked, woken, ear, faults>>

\* The end of execute: finish, or retry_later.
Finish(w) ==
    LET k == job[w] IN
    /\ pc[w] \in Outcomes
    /\ Put(k, CASE pc[w] = "done" -> Succeeded(k)
                [] pc[w] = "retry" /\ ~Spent(k) -> [row[k] EXCEPT !.status = "pending"]
                [] OTHER -> [row[k] EXCEPT !.status = "failed"],
           IF pc[w] = "retry" /\ ~Spent(k) THEN Delay ELSE 0, FALSE)
    /\ Goto(w, "drain")
    /\ UNCHANGED <<asked, woken, ear, faults>>

\* claim_next found nothing.
NothingDue(w) ==
    /\ pc[w] = "drain"
    /\ asked[w] = NotAsked
    /\ \A k \in Rows : ~Free(k)
    /\ Goto(w, "empty")
    /\ SameRows
    /\ UNCHANGED <<asked, woken, ear, faults>>

\* Mutant: frames that came while the worker was busy are thrown away.
PauseDeaf(w) ==
    /\ pc[w] = "empty"
    /\ Goto(w, "wait")
    /\ woken' = [woken EXCEPT ![w] = 0]
    /\ SameRows
    /\ UNCHANGED <<asked, ear, faults>>

\* Then it begins to wait, a moment later.
Pause(w) ==
    /\ pc[w] = "empty"
    /\ Goto(w, "wait")
    /\ SameRows
    /\ UNCHANGED <<asked, woken, ear, faults>>

\* Until a frame comes, or for as long as worker_idle_seconds.
Wake(w) ==
    /\ pc[w] = "wait"
    /\ woken[w] > 0 \/ timer[w] = IdleSeconds
    /\ woken' = [woken EXCEPT ![w] = IF @ > 0 THEN @ - 1 ELSE @]
    /\ Goto(w, "sweep")
    /\ SameRows
    /\ UNCHANGED <<asked, ear, faults>>

\* Asked to stop: it leaves the loop wherever it looks at the flag.
Stop(w) ==
    /\ pc[w] \in {"sweep", "drain", "wait"}
    /\ asked[w] # NotAsked
    /\ Goto(w, "stopped")
    /\ woken' = [woken EXCEPT ![w] = 0]
    /\ SameRows
    /\ UNCHANGED <<asked, ear, faults>>

-----------------------------------------------------------------------------
(* What happens to workers, and time.                                          *)

\* SIGTERM sets the flag.
Ask(w) ==
    /\ pc[w] \notin Gone
    /\ asked[w] = NotAsked
    /\ faults.stops < MaxStops
    /\ asked'  = [asked EXCEPT ![w] = 0]
    /\ faults' = [faults EXCEPT !.stops = @ + 1]
    /\ SameRows
    /\ UNCHANGED <<pc, job, timer, woken, ear>>

\* SIGKILL: an open claim is rolled back, a task in hand stays running.
Kill(w) ==
    /\ pc[w] \notin Gone
    /\ faults.kills < MaxKills
    /\ since'  = [k \in Rows |-> IF pc[w] = "claim" /\ job[w] = k THEN 0 ELSE since[k]]
    /\ Goto(w, "killed")
    /\ woken'  = [woken EXCEPT ![w] = 0]
    /\ faults' = [faults EXCEPT !.kills = @ + 1]
    /\ UNCHANGED <<row, due, told, asked, ear>>

\* A new process takes the place of one that is gone, and listens first.
Restart(w) ==
    /\ pc[w] \in Gone
    /\ Goto(w, "sweep")
    /\ asked' = [asked EXCEPT ![w] = NotAsked]
    /\ ear'   = [ear EXCEPT ![w] = TRUE]
    /\ SameRows
    /\ UNCHANGED <<woken, faults>>

\* The LISTEN connection is lost.  Nobody opens it again.
Deafen(w) ==
    /\ pc[w] \notin Gone
    /\ ear[w]
    /\ faults.deaf < MaxDeaf
    /\ ear'    = [ear EXCEPT ![w] = FALSE]
    /\ faults' = [faults EXCEPT !.deaf = @ + 1]
    /\ SameRows
    /\ UNCHANGED <<pc, job, timer, asked, woken>>

\* Who can do something without waiting for time to pass.
Busy(w) ==
    \/ pc[w] \in Between \cup {"claim"} \cup Outcomes
    \/ pc[w] = "run" /\ timer[w] = LongestTask
    \/ pc[w] = "wait" /\ (woken[w] > 0 \/ timer[w] = IdleSeconds \/ asked[w] # NotAsked)

Later(n) == IF n < Forever THEN n + 1 ELSE n

Tick ==
    /\ \A w \in Workers : ~Busy(w)
    /\ due'   = [k \in Rows |-> IF due[k] > 0 THEN due[k] - 1 ELSE 0]
    /\ since' = [k \in Rows |-> IF Live(k) /\ due[k] = 0 THEN Later(since[k]) ELSE since[k]]
    /\ timer' = [w \in Workers |-> IF pc[w] \in Gone THEN 0 ELSE timer[w] + 1]
    /\ asked' = [w \in Workers |-> IF asked[w] = NotAsked \/ pc[w] \in Gone
                                   THEN asked[w] ELSE asked[w] + 1]
    /\ UNCHANGED <<row, told, pc, job, woken, ear, faults>>

-----------------------------------------------------------------------------
\* What a worker does of itself.
Proceed(w) ==
    \/ Sweep(w) \/ Seed(w) \/ NothingDue(w) \/ Pause(w) \/ Wake(w) \/ Stop(w)
    \/ \E k \in Rows : Lock(w, k)
    \/ Claim(w) \/ RunPass(w) \/ Finish(w)
    \/ \E outcome \in Outcomes : RunJob(w, outcome)

Next ==
    \/ \E k \in Rows : Requeue(k) \/ \E later \in BOOLEAN : Enqueue(k, later)
    \/ \E w \in Workers : Proceed(w) \/ Raise(w) \/ Ask(w) \/ Kill(w) \/ Restart(w) \/ Deafen(w)
    \/ Tick

Spec == Init /\ [][Next]_vars

\* A worker goes on, time goes on, and Docker starts what is gone again
\* (restart: unless-stopped).  Nobody need enqueue, put back, kill or stop.
Fairness ==
    /\ WF_vars(Tick)
    /\ \A w \in Workers : WF_vars(Proceed(w)) /\ WF_vars(Restart(w))

FairSpec == Spec /\ Fairness

-----------------------------------------------------------------------------
(* Properties.                                                                 *)

TypeOK ==
    /\ row \in [Rows -> [status : {"none", "pending", "running", "succeeded", "failed"},
                         attempts : Nat, max : Nat]]
    /\ due \in [Rows -> Nat]
    /\ since \in [Rows -> Nat]
    /\ told \in [Rows -> BOOLEAN]
    /\ pc \in [Workers -> Places]
    /\ job \in [Workers -> Rows \cup {Nothing}]
    /\ \A w \in Workers : pc[w] \in {"claim", "run"} \cup Outcomes <=> job[w] # Nothing
    /\ timer \in [Workers -> Nat]
    /\ asked \in [Workers -> Nat \cup {NotAsked}]
    /\ woken \in [Workers -> 0 .. QueueSize]
    /\ ear \in [Workers -> BOOLEAN]
    /\ faults \in [kills : Nat, stops : Nat, raises : Nat, requeues : Nat, deaf : Nat]

\* No task is run by two workers at once: SKIP LOCKED keeps claims apart, and no
\* row is swept while its worker lives, since a task ends before it is stale
\* (test_task_queue.py: "for work that moves money" this is "a double payment").
RunByOne ==
    \A v, w \in Workers : v # w /\ job[v] # Nothing => job[v] # job[w]

\* A worker that waits has left nothing behind for longer than it has waited: no
\* work, scheduled, retried, swept or dropped by a claim that died, lies about for
\* more than worker_idle_seconds while a worker is idle (loop.py: "so scheduled
\* work and dead workers still get noticed").
NothingLiesAbout ==
    \A w \in Workers, k \in Rows :
        pc[w] = "wait" /\ Free(k) => since[k] <= timer[w]

\* No wake-up is lost: a worker that listens and waits without a frame has no
\* work before it that somebody announced, though the frame may have come while
\* it was busy, or between its last look and its wait, or been dropped because its
\* queue was full.
NoLostWakeup ==
    \A w \in Workers, k \in Rows :
        pc[w] = "wait" /\ ear[w] /\ woken[w] = 0 => ~(Claimable(k) /\ told[k])

\* A worker that is asked to stop takes no longer than the task in its hands
\* (shutdown.py: it "exits once the task in hand is done").
StopsInTime ==
    \A w \in Workers : asked[w] > LongestTask => pc[w] \in Gone

\* The queue as its users know it: each row run by one worker at a time, within
\* its budget, given back only when its worker is gone.
Running(w) == IF pc[w] = "claim" THEN Nothing ELSE job[w]
Promise == INSTANCE WorkQueue WITH
               row <- row, holder <- [w \in Workers |-> Running(w)]
RefinesQueue == Promise!QueueSpec

\* Every task comes to an end, or to an operator, whoever dies, stops or goes
\* deaf on the way.
EveryTaskEnds ==
    \A k \in Jobs : row[k].status = "pending" ~> row[k].status \in {"succeeded", "failed"}

\* Reconciliation goes on forever: a chain that is lost is started again
\* (loop.py: "every pass, so a lost reconcile chain restarts itself").
PassesGoOn == []<>(\E w \in Workers : pc[w] = "done" /\ job[w] \in Passes)

\* Once the faults are over there is one chain of passes again (schedule_once: a
\* successor "ends its chain if another is already pending").
ChainsMerge == <>[](Cardinality({k \in Passes : row[k].status = "pending"}) <= 1)

-----------------------------------------------------------------------------
(* What the repository says of itself and the code does not keep.              *)

\* "There is one chain however many workers run" (worker/reconcile.py): no two
\* workers run a pass at the same time.
OnePassAtATime ==
    \A v, w \in Workers :
        pc[v] = "run" /\ job[v] \in Passes /\ pc[w] = "run" /\ job[w] \in Passes => v = w
=============================================================================
