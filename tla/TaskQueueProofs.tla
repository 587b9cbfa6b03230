--------------------------- MODULE TaskQueueProofs ---------------------------
(* Theorems about TaskQueue, for every value of its constants.                 *)
EXTENDS TaskQueue, TLAPS

-----------------------------------------------------------------------------
(* Rows, places, and what the parts of the steps do.                           *)

RowState == [status : {"none", "pending", "running", "succeeded", "failed"},
             attempts : Nat, max : Nat]

\* A worker has a row from the claim to the end of execute.
Holding == {"claim", "run"} \cup Outcomes

\* Where a worker is when it has no row.
Idle == Between \cup {"wait"} \cup Gone

\* A row is not the absence of one.
LEMMA RowIsSomething == Nothing \notin Rows
BY TimesAssumption DEF Nothing, Rows

\* Rows start well formed.
LEMMA FreshRows == NoRow \in RowState /\ NewRow \in RowState
BY TimesAssumption DEF NoRow, NewRow, RowState

\* The places of the loop, those with a row and those without.
LEMMA PlacesSplit ==
    /\ Idle \subseteq Places
    /\ Holding \subseteq Places
    /\ Idle \cap Holding = {}
    /\ Places = Idle \cup Holding
BY DEF Idle, Holding, Places, Between, Outcomes, Gone

\* A row put back stays one, and the rest of the table with it.
LEMMA PutIsTyped ==
    ASSUME TypeOK, NEW k \in Rows, NEW r \in RowState, NEW d \in Nat,
           NEW announced \in BOOLEAN, Put(k, r, d, announced)
    PROVE  /\ row' \in [Rows -> RowState]
           /\ due' \in [Rows -> Nat]
           /\ since' \in [Rows -> Nat]
           /\ told' \in [Rows -> BOOLEAN]
BY DEF TypeOK, Put, RowState

\* So does the table when a pass is scheduled.
LEMMA ScheduleIsTyped ==
    ASSUME TypeOK, NEW successorOf, ScheduleOnce(successorOf)
    PROVE  /\ row' \in [Rows -> RowState]
           /\ due' \in [Rows -> Nat]
           /\ since' \in [Rows -> Nat]
           /\ told' \in [Rows -> BOOLEAN]
<1>1. CASE SameRows
  BY <1>1 DEF SameRows, TypeOK, RowState
<1>2. CASE \E k \in Passes : row[k] = NoRow /\ Put(k, NewRow, Interval, FALSE)
  BY <1>2, PutIsTyped, FreshRows, TimesAssumption DEF Rows
<1>3. QED
  BY <1>1, <1>2 DEF ScheduleOnce

\* A worker that goes on without a row leaves the workers typed.
LEMMA GotoIsTyped ==
    ASSUME TypeOK, NEW w \in Workers, NEW place \in Idle, Goto(w, place)
    PROVE  /\ pc' \in [Workers -> Places]
           /\ job' \in [Workers -> Rows \cup {Nothing}]
           /\ \A v \in Workers : pc'[v] \in Holding <=> job'[v] # Nothing
           /\ timer' \in [Workers -> Nat]
BY PlacesSplit DEF TypeOK, Goto, Holding

\* A wake-up leaves the queues within their bound.
LEMMA PublishIsTyped ==
    ASSUME TypeOK, Publish
    PROVE  woken' \in [Workers -> 0 .. QueueSize]
<1>1. woken \in [Workers -> 0 .. QueueSize]
  BY DEF TypeOK
<1>2. QueueSize \in Nat
  BY TimesAssumption
<1>3. ASSUME NEW w \in Workers PROVE woken'[w] \in 0 .. QueueSize
  BY <1>1, <1>2 DEF Publish
<1>4. QED
  BY <1>3 DEF Publish

\* A worker outside of tasks has no row.
LEMMA IdleHasNothing ==
    ASSUME TypeOK, NEW w \in Workers, pc[w] \in Idle
    PROVE  job[w] = Nothing
BY PlacesSplit DEF TypeOK, Holding

\* A worker at a task has one.
LEMMA HolderHasRow ==
    ASSUME TypeOK, NEW w \in Workers, pc[w] \in Holding
    PROVE  job[w] \in Rows
BY DEF TypeOK, Holding

-----------------------------------------------------------------------------
(* Type correctness.                                                           *)

LEMMA TypeInit == Init => TypeOK
<1> SUFFICES ASSUME Init PROVE TypeOK
  OBVIOUS
<1>1. "sweep" \in Places /\ "sweep" \notin {"claim", "run"} \cup Outcomes
  BY DEF Places, Between, Outcomes
<1>2. QED
  BY <1>1, FreshRows, TimesAssumption DEF Init, TypeOK, RowState, NotAsked

LEMMA TypeStep == TypeOK /\ [Next]_vars => TypeOK'
<1> SUFFICES ASSUME TypeOK, [Next]_vars PROVE TypeOK'
  OBVIOUS
<1>0. /\ Between \cup {"wait"} \cup Gone = Idle
      /\ {"sweep", "seed", "drain", "empty"} = Between
      /\ {"stopped", "killed"} = Gone
      /\ {"done", "dead", "retry"} = Outcomes
      /\ {"claim", "run"} \cup Outcomes = Holding
  BY DEF Idle, Holding, Between, Gone, Outcomes
<1>1. ASSUME NEW k \in Rows, NEW later \in BOOLEAN, Enqueue(k, later) PROVE TypeOK'
  <2>1. woken' \in [Workers -> 0 .. QueueSize]
    BY <1>1, PublishIsTyped DEF Enqueue, TypeOK
  <2>2. Put(k, NewRow, IF later THEN Delay ELSE 0, ~later)
    BY <1>1 DEF Enqueue
  <2>3. (IF later THEN Delay ELSE 0) \in Nat /\ (~later) \in BOOLEAN
    BY TimesAssumption
  <2>4. /\ row' \in [Rows -> RowState] /\ due' \in [Rows -> Nat]
        /\ since' \in [Rows -> Nat] /\ told' \in [Rows -> BOOLEAN]
    BY <2>2, <2>3, PutIsTyped, FreshRows
  <2>5. QED
    BY <1>1, <2>1, <2>4 DEF Enqueue, TypeOK, RowState
<1>2. ASSUME NEW k \in Rows, Requeue(k) PROVE TypeOK'
  <2> DEFINE r == [row[k] EXCEPT !.status = "pending", !.max = row[k].attempts + ExtraAttempts]
  <2>1. woken' \in [Workers -> 0 .. QueueSize]
    BY <1>2, PublishIsTyped DEF Requeue
  <2>2. r \in RowState
    <3>1. row[k] \in RowState /\ ExtraAttempts \in Nat
      BY TimesAssumption DEF TypeOK, RowState
    <3>2. row[k].attempts + ExtraAttempts \in Nat
      BY <3>1 DEF RowState
    <3>3. QED
      BY <3>1, <3>2 DEF RowState
  <2>3. Put(k, r, 0, TRUE)
    BY <1>2 DEF Requeue
  <2>4. /\ row' \in [Rows -> RowState] /\ due' \in [Rows -> Nat]
        /\ since' \in [Rows -> Nat] /\ told' \in [Rows -> BOOLEAN]
    BY <2>2, <2>3, PutIsTyped
  <2>5. faults' \in [kills : Nat, stops : Nat, raises : Nat, requeues : Nat, deaf : Nat]
    BY <1>2 DEF Requeue, TypeOK
  <2> HIDE DEF r
  <2>6. QED
    BY <1>2, <2>1, <2>4, <2>5 DEF Requeue, TypeOK, RowState
<1>3. ASSUME NEW w \in Workers, Sweep(w) PROVE TypeOK'
  <2>1. row' \in [Rows -> RowState] /\ since' \in [Rows -> Nat]
    BY <1>3 DEF Sweep, TypeOK, RowState
  <2>2. "seed" \in Idle /\ Goto(w, "seed")
    BY <1>0, <1>3 DEF Sweep
  <2>3. QED
    BY <1>3, <2>1, <2>2, GotoIsTyped DEF Sweep, TypeOK, RowState, Holding
<1>4. ASSUME NEW w \in Workers, Seed(w) PROVE TypeOK'
  <2>1. "drain" \in Idle /\ Goto(w, "drain") /\ ScheduleOnce({})
    BY <1>0, <1>4 DEF Seed
  <2>2. QED
    BY <1>4, <2>1, GotoIsTyped, ScheduleIsTyped DEF Seed, TypeOK, RowState, Holding
<1>5. ASSUME NEW w \in Workers, NEW k \in Rows, Lock(w, k) PROVE TypeOK'
  BY <1>5, PlacesSplit, RowIsSomething DEF Lock, TypeOK, Holding
<1>6. ASSUME NEW w \in Workers, Claim(w) PROVE TypeOK'
  <2>1. job[w] \in Rows
    BY <1>6, HolderHasRow DEF Claim, Holding
  <2>2. row' \in [Rows -> RowState]
    BY <1>6, <2>1 DEF Claim, TypeOK, RowState
  <2>3. pc' \in [Workers -> Places]
        /\ \A v \in Workers : pc'[v] \in {"claim", "run"} \cup Outcomes <=> job'[v] # Nothing
    BY <1>6, PlacesSplit DEF Claim, TypeOK, Holding
  <2>4. QED
    BY <1>6, <2>1, <2>2, <2>3 DEF Claim, TypeOK, RowState
<1>7. ASSUME NEW w \in Workers, NEW place \in Outcomes,
             pc[w] = "run", pc' = [pc EXCEPT ![w] = place], UNCHANGED job
      PROVE  /\ pc' \in [Workers -> Places]
             /\ \A v \in Workers : pc'[v] \in {"claim", "run"} \cup Outcomes <=> job'[v] # Nothing
  BY <1>7, PlacesSplit DEF TypeOK, Holding
<1>8. ASSUME NEW w \in Workers, NEW outcome \in Outcomes, RunJob(w, outcome) PROVE TypeOK'
  BY <1>7, <1>8 DEF RunJob, SameRows, TypeOK
<1>9. ASSUME NEW w \in Workers, RunPass(w) PROVE TypeOK'
  <2>1. ScheduleOnce({job[w]}) /\ "done" \in Outcomes
    BY <1>0, <1>9 DEF RunPass
  <2>2. QED
    BY <1>7, <1>9, <2>1, ScheduleIsTyped DEF RunPass, TypeOK, RowState
<1>10. ASSUME NEW w \in Workers, Raise(w) PROVE TypeOK'
  <2>1. faults' \in [kills : Nat, stops : Nat, raises : Nat, requeues : Nat, deaf : Nat]
    BY <1>10 DEF Raise, TypeOK
  <2>2. "retry" \in Outcomes
    BY <1>0
  <2>3. QED
    BY <1>7, <1>10, <2>1, <2>2 DEF Raise, SameRows, TypeOK
<1>11. ASSUME NEW w \in Workers, Finish(w) PROVE TypeOK'
  <2> DEFINE k == job[w]
             r == CASE pc[w] = "done" -> Succeeded(k)
                    [] pc[w] = "retry" /\ ~Spent(k) -> [row[k] EXCEPT !.status = "pending"]
                    [] OTHER -> [row[k] EXCEPT !.status = "failed"]
             d == IF pc[w] = "retry" /\ ~Spent(k) THEN Delay ELSE 0
  <2>1. k \in Rows
    BY <1>11, HolderHasRow DEF Finish, Holding
  <2>2. r \in RowState
    BY <2>1, FreshRows DEF TypeOK, RowState, Succeeded
  <2>3. d \in Nat
    BY TimesAssumption
  <2>4. Put(k, r, d, FALSE) /\ Goto(w, "drain") /\ "drain" \in Idle
    BY <1>0, <1>11 DEF Finish
  <2> HIDE DEF r, d
  <2>5. QED
    BY <1>11, <2>1, <2>2, <2>3, <2>4, PutIsTyped, GotoIsTyped
    DEF Finish, TypeOK, RowState, Holding
<1>12. ASSUME NEW w \in Workers, NothingDue(w) \/ Pause(w) \/ Wake(w) \/ Stop(w) \/ Restart(w)
       PROVE  TypeOK'
  <2>1. PICK place \in Idle : Goto(w, place)
    BY <1>0, <1>12 DEF NothingDue, Pause, Wake, Stop, Restart, Idle, Between, Gone
  <2>2. woken' \in [Workers -> 0 .. QueueSize]
    <3>1. woken \in [Workers -> 0 .. QueueSize] /\ QueueSize \in Nat
      BY TimesAssumption DEF TypeOK
    <3>2. PICK n \in 0 .. QueueSize : woken' = [woken EXCEPT ![w] = n] \/ UNCHANGED woken
      BY <1>12, <3>1 DEF NothingDue, Pause, Wake, Stop, Restart
    <3>3. QED
      BY <3>1, <3>2
  <2>3. asked' \in [Workers -> Nat \cup {NotAsked}] /\ ear' \in [Workers -> BOOLEAN]
    BY <1>12 DEF NothingDue, Pause, Wake, Stop, Restart, TypeOK
  <2>4. SameRows /\ UNCHANGED faults
    BY <1>12 DEF NothingDue, Pause, Wake, Stop, Restart
  <2>5. QED
    BY <2>1, <2>2, <2>3, <2>4, GotoIsTyped DEF SameRows, TypeOK, Holding
<1>13. ASSUME NEW w \in Workers, Ask(w) PROVE TypeOK'
  BY <1>13 DEF Ask, SameRows, TypeOK
<1>14. ASSUME NEW w \in Workers, Deafen(w) PROVE TypeOK'
  BY <1>14 DEF Deafen, SameRows, TypeOK
<1>15. ASSUME NEW w \in Workers, Kill(w) PROVE TypeOK'
  <2>1. Goto(w, "killed") /\ "killed" \in Idle
    BY <1>0, <1>15 DEF Kill
  <2>2. since' \in [Rows -> Nat] /\ woken' \in [Workers -> 0 .. QueueSize]
    <3>1. since \in [Rows -> Nat] /\ woken \in [Workers -> 0 .. QueueSize]
      BY DEF TypeOK
    <3>2. since' \in [Rows -> Nat]
      BY <1>15, <3>1 DEF Kill
    <3>3. 0 \in 0 .. QueueSize /\ woken' = [woken EXCEPT ![w] = 0]
      BY <1>15, TimesAssumption DEF Kill
    <3>4. QED
      BY <3>1, <3>2, <3>3
  <2>3. faults' \in [kills : Nat, stops : Nat, raises : Nat, requeues : Nat, deaf : Nat]
    BY <1>15 DEF Kill, TypeOK
  <2>4. QED
    BY <1>15, <2>1, <2>2, <2>3, GotoIsTyped DEF Kill, TypeOK, Holding
<1>16. ASSUME Tick PROVE TypeOK'
  <2>1. due' \in [Rows -> Nat] /\ since' \in [Rows -> Nat]
    BY <1>16 DEF Tick, TypeOK, Later
  <2>2. timer' \in [Workers -> Nat] /\ asked' \in [Workers -> Nat \cup {NotAsked}]
    BY <1>16 DEF Tick, TypeOK
  <2>3. QED
    BY <1>16, <2>1, <2>2 DEF Tick, TypeOK
<1>17. CASE UNCHANGED vars
  BY <1>17 DEF vars, TypeOK
<1>18. QED
  BY <1>1, <1>2, <1>3, <1>4, <1>5, <1>6, <1>8, <1>9, <1>10, <1>11, <1>12, <1>13, <1>14,
     <1>15, <1>16, <1>17
  DEF Next, Proceed

\* Rows, clocks and workers have their types, and a worker has a row exactly from
\* its claim to the end of execute.
THEOREM TypeCorrect == Spec => []TypeOK
<1>1. QED
  BY TypeInit, TypeStep, PTL DEF Spec

-----------------------------------------------------------------------------
(* The inductive invariant.                                                    *)

\* Worker w has claimed a row and not yet settled it.
InHand(w) == pc[w] \in {"run"} \cup Outcomes

\* A row in hand is running, for no longer than its worker has run it; a row being
\* claimed is due, and its announcement has been answered.
HeldRows ==
    \A w \in Workers :
        /\ pc[w] = "claim" => Claimable(job[w]) /\ ~told[job[w]]
        /\ InHand(w) => /\ row[job[w]].status = "running"
                        /\ due[job[w]] = 0
                        /\ since[job[w]] <= timer[w]
                        /\ timer[w] <= LongestTask

\* The clock of a row that is scheduled has not begun to run.
DelayedRows == \A k \in Rows : due[k] > 0 => since[k] = 0

\* What was announced can be claimed.
ToldRows == \A k \in Rows : told[k] => Claimable(k)

\* A worker asked to stop has not yet done more than the task in its hands.
AskedInTime ==
    \A w \in Workers :
        /\ pc[w] \notin Gone => asked[w] <= LongestTask
        /\ pc[w] = "claim" => asked[w] <= 0
        /\ InHand(w) => asked[w] <= timer[w]

\* NothingLiesAbout, from the last look at the queue on.
NothingOlder ==
    \A w \in Workers, k \in Rows :
        Free(k) => /\ pc[w] = "empty" => since[k] = 0
                   /\ pc[w] = "wait" => since[k] <= timer[w]

\* NoLostWakeup, from the last look at the queue on.
NothingMissed ==
    \A w \in Workers, k \in Rows :
        pc[w] \in {"empty", "wait"} /\ ear[w] /\ woken[w] = 0 => ~told[k]

QueueInv == HeldRows /\ RunByOne /\ DelayedRows /\ ToldRows /\ AskedInTime
            /\ NothingOlder /\ NothingMissed

-----------------------------------------------------------------------------
(* The steps, by what they can disturb.                                        *)

\* Every step but time passing and the two halves of a claim.
Quiet ==
    \/ \E k \in Rows : Requeue(k) \/ \E later \in BOOLEAN : Enqueue(k, later)
    \/ \E w \in Workers :
          \/ Sweep(w) \/ Seed(w) \/ NothingDue(w) \/ Pause(w) \/ Wake(w) \/ Stop(w)
          \/ RunPass(w) \/ Finish(w) \/ \E outcome \in Outcomes : RunJob(w, outcome)
          \/ Raise(w) \/ Ask(w) \/ Kill(w) \/ Restart(w) \/ Deafen(w)
    \/ UNCHANGED vars

LEMMA StepKinds ==
    ASSUME [Next]_vars
    PROVE  Quiet \/ Tick \/ \E w \in Workers : Claim(w) \/ \E k \in Rows : Lock(w, k)
BY DEF Next, Proceed, Quiet

\* A row stays as it is, and so does the lock on it; or its clock starts over, and
\* it is announced only if it can be claimed.
KeptRow(k) == /\ row'[k] = row[k] /\ due'[k] = due[k]
              /\ since'[k] = since[k] /\ told'[k] = told[k]
Stays(k)   == KeptRow(k) /\ (Locked(k) => Locked(k)')
Renewed(k) == since'[k] = 0 /\ (told'[k] => Claimable(k)')

\* A worker keeps what it has, or has nothing.
Keeps(w) ==
    /\ pc'[w] = pc[w] \/ (pc[w] = "run" /\ pc'[w] \in Outcomes)
    /\ job'[w] = job[w] /\ timer'[w] = timer[w]
    /\ pc[w] \in Holding => KeptRow(job[w])
KeepsOrNothing(w) == pc'[w] \in Idle \/ Keeps(w)

\* Putting a row that nobody has changes neither the others nor the workers'.
LEMMA PutKeeps ==
    ASSUME TypeOK, HeldRows, NEW k \in Rows, row[k].status \notin {"pending", "running"},
           NEW r, NEW d, NEW announced, Put(k, r, d, announced)
    PROVE  /\ \A j \in Rows \ {k} : KeptRow(j)
           /\ \A v \in Workers : pc[v] \in Holding => KeptRow(job[v])
           /\ since'[k] = 0 /\ told'[k] = announced /\ row'[k] = r /\ due'[k] = d
<1>1. /\ \A j \in Rows \ {k} : KeptRow(j)
      /\ since'[k] = 0 /\ told'[k] = announced /\ row'[k] = r /\ due'[k] = d
  BY DEF Put, TypeOK, KeptRow
<1>2. ASSUME NEW v \in Workers, pc[v] \in Holding PROVE job[v] \in Rows \ {k}
  BY <1>2, HolderHasRow DEF HeldRows, InHand, Holding, Claimable
<1>3. QED
  BY <1>1, <1>2

\* So does scheduling a pass.
LEMMA ScheduleKeeps ==
    ASSUME TypeOK, HeldRows, NEW successorOf, ScheduleOnce(successorOf)
    PROVE  /\ \A j \in Rows : KeptRow(j) \/ (since'[j] = 0 /\ ~told'[j])
           /\ \A v \in Workers : pc[v] \in Holding => KeptRow(job[v])
<1>1. CASE SameRows
  BY <1>1, HolderHasRow DEF SameRows, KeptRow
<1>2. CASE \E k \in Passes : row[k] = NoRow /\ Put(k, NewRow, Interval, FALSE)
  <2>1. PICK k \in Passes : row[k] = NoRow /\ Put(k, NewRow, Interval, FALSE)
    BY <1>2
  <2>2. k \in Rows /\ row[k].status \notin {"pending", "running"}
    BY <2>1 DEF Rows, NoRow
  <2>3. QED
    BY <2>1, <2>2, PutKeeps
<1>3. QED
  BY <1>1, <1>2 DEF ScheduleOnce

\* A worker that goes on without a row, and the others.
LEMMA GotoKeeps ==
    ASSUME TypeOK, NEW w \in Workers, NEW place \in Idle, Goto(w, place),
           \A v \in Workers \ {w} : pc[v] \in Holding => KeptRow(job[v])
    PROVE  /\ pc'[w] = place /\ timer'[w] = 0
           /\ \A v \in Workers \ {w} : pc'[v] = pc[v] /\ timer'[v] = timer[v]
           /\ \A v \in Workers : KeepsOrNothing(v)
BY DEF Goto, TypeOK, KeepsOrNothing, Keeps

\* The locks of a step in which no claiming worker moves.
LEMMA LocksStay ==
    ASSUME TypeOK, NEW k \in Rows,
           \A v \in Workers : pc[v] = "claim" => pc'[v] = "claim" /\ job'[v] = job[v]
    PROVE  Locked(k) => Locked(k)'
BY DEF Locked

\* The sets of places, spelled out.
LEMMA PlacesAre ==
    /\ Idle = {"sweep", "seed", "drain", "empty", "wait", "stopped", "killed"}
    /\ Holding = {"claim", "run", "done", "dead", "retry"}
    /\ Outcomes = {"done", "dead", "retry"}
    /\ Gone = {"stopped", "killed"}
BY DEF Idle, Holding, Outcomes, Gone, Between

\* What a quiet step does to workers and to rows.
LEMMA QuietStep ==
    ASSUME TypeOK, HeldRows, RunByOne, ToldRows, Quiet
    PROVE  /\ \A v \in Workers : KeepsOrNothing(v)
           /\ \A j \in Rows : Stays(j) \/ Renewed(j)
<1> DEFINE Goal == /\ \A v \in Workers : KeepsOrNothing(v)
                   /\ \A j \in Rows : Stays(j) \/ Renewed(j)
<1>1. ASSUME UNCHANGED <<pc, job, timer>>,
             \A v \in Workers : pc[v] \in Holding => KeptRow(job[v])
      PROVE  /\ \A v \in Workers : KeepsOrNothing(v)
             /\ \A j \in Rows : Locked(j) => Locked(j)'
  BY <1>1, LocksStay DEF KeepsOrNothing, Keeps
<1>2. ASSUME NEW k \in Rows, NEW later \in BOOLEAN, Enqueue(k, later) PROVE Goal
  <2>1. /\ row[k].status \notin {"pending", "running"}
        /\ Put(k, NewRow, IF later THEN Delay ELSE 0, ~later)
        /\ UNCHANGED <<pc, job, timer>>
    BY <1>2 DEF Enqueue, NoRow
  <2>2. /\ \A j \in Rows \ {k} : KeptRow(j)
        /\ \A v \in Workers : pc[v] \in Holding => KeptRow(job[v])
        /\ since'[k] = 0 /\ told'[k] = ~later /\ row'[k] = NewRow
        /\ due'[k] = IF later THEN Delay ELSE 0
    BY <2>1, PutKeeps
  <2>3. CASE later
    BY <1>1, <2>1, <2>2, <2>3 DEF Stays, Renewed
  <2>4. CASE ~later
    BY <1>1, <2>1, <2>2, <2>4 DEF Stays, Renewed, Claimable, NewRow
  <2>5. QED
    BY <2>3, <2>4
<1>3. ASSUME NEW k \in Rows, Requeue(k) PROVE Goal
  <2> DEFINE r == [row[k] EXCEPT !.status = "pending", !.max = row[k].attempts + ExtraAttempts]
  <2>1. /\ row[k].status \notin {"pending", "running"} /\ Put(k, r, 0, TRUE)
        /\ UNCHANGED <<pc, job, timer>>
    BY <1>3 DEF Requeue
  <2>2. r.status = "pending"
    BY DEF TypeOK
  <2> HIDE DEF r
  <2>3. /\ \A j \in Rows \ {k} : KeptRow(j)
        /\ \A v \in Workers : pc[v] \in Holding => KeptRow(job[v])
        /\ since'[k] = 0 /\ told'[k] = TRUE /\ row'[k] = r /\ due'[k] = 0
    BY <2>1, PutKeeps
  <2>4. Renewed(k)
    BY <2>2, <2>3 DEF Renewed, Claimable
  <2>5. QED
    BY <1>1, <2>1, <2>3, <2>4 DEF Stays
<1>4. ASSUME NEW w \in Workers, Sweep(w) PROVE Goal
  <2>1. /\ \A j \in Rows : ~Stale(j) => row'[j] = row[j] /\ since'[j] = since[j]
        /\ \A j \in Rows : Stale(j) => since'[j] = 0
        /\ UNCHANGED <<due, told>> /\ Goto(w, "seed")
    BY <1>4 DEF Sweep, TypeOK
  <2>2. ASSUME NEW v \in Workers, pc[v] \in Holding PROVE ~Stale(job[v])
    <3>1. job[v] \in Rows
      BY <2>2, HolderHasRow
    <3>2. CASE pc[v] = "claim"
      BY <3>2 DEF HeldRows, Claimable, Stale
    <3>3. CASE InHand(v)
      <4>1. since[job[v]] <= timer[v] /\ timer[v] <= LongestTask
        BY <3>3 DEF HeldRows
      <4>2. since[job[v]] \in Nat /\ timer[v] \in Nat
        BY <3>1 DEF TypeOK
      <4>3. QED
        BY <4>1, <4>2, TimesAssumption DEF Stale
    <3>4. QED
      BY <2>2, <3>2, <3>3 DEF Holding, InHand
  <2>3. \A v \in Workers : pc[v] \in Holding => KeptRow(job[v])
    BY <2>1, <2>2, HolderHasRow DEF KeptRow
  <2>4. "seed" \in Idle /\ pc[w] # "claim"
    BY <1>4, PlacesAre DEF Sweep
  <2>5. /\ \A v \in Workers : KeepsOrNothing(v)
        /\ \A v \in Workers \ {w} : pc'[v] = pc[v]
    BY <2>1, <2>3, <2>4, GotoKeeps
  <2>6. \A v \in Workers : pc[v] = "claim" => pc'[v] = "claim" /\ job'[v] = job[v]
    BY <2>4, <2>5, PlacesAre DEF KeepsOrNothing, Keeps
  <2>7. \A j \in Rows : Stale(j) => ~told[j]
    BY DEF ToldRows, Claimable, Stale
  <2>8. QED
    BY <2>1, <2>5, <2>6, <2>7, LocksStay DEF Stays, KeptRow, Renewed
<1>5. ASSUME NEW w \in Workers, Seed(w) PROVE Goal
  <2>1. ScheduleOnce({}) /\ Goto(w, "drain") /\ "drain" \in Idle /\ pc[w] # "claim"
    BY <1>5, PlacesAre DEF Seed
  <2>2. /\ \A j \in Rows : KeptRow(j) \/ (since'[j] = 0 /\ ~told'[j])
        /\ \A v \in Workers : pc[v] \in Holding => KeptRow(job[v])
    BY <2>1, ScheduleKeeps
  <2>3. /\ \A v \in Workers : KeepsOrNothing(v)
        /\ \A v \in Workers \ {w} : pc'[v] = pc[v]
    BY <2>1, <2>2, GotoKeeps
  <2>4. \A v \in Workers : pc[v] = "claim" => pc'[v] = "claim" /\ job'[v] = job[v]
    BY <2>1, <2>3, PlacesAre DEF KeepsOrNothing, Keeps
  <2>5. QED
    BY <2>2, <2>3, <2>4, LocksStay DEF Stays, Renewed
<1>6. ASSUME NEW w \in Workers,
             NothingDue(w) \/ Pause(w) \/ Wake(w) \/ Stop(w) \/ Restart(w)
      PROVE  Goal
  <2>1. PICK place \in Idle : Goto(w, place)
    BY <1>6, PlacesAre DEF NothingDue, Pause, Wake, Stop, Restart
  <2>2. SameRows /\ pc[w] # "claim"
    BY <1>6, PlacesAre DEF NothingDue, Pause, Wake, Stop, Restart
  <2>3. /\ \A j \in Rows : KeptRow(j)
        /\ \A v \in Workers : pc[v] \in Holding => KeptRow(job[v])
    BY <2>2 DEF SameRows, KeptRow
  <2>4. /\ \A v \in Workers : KeepsOrNothing(v)
        /\ \A v \in Workers \ {w} : pc'[v] = pc[v]
    BY <2>1, <2>3, GotoKeeps
  <2>5. \A v \in Workers : pc[v] = "claim" => pc'[v] = "claim" /\ job'[v] = job[v]
    BY <2>2, <2>4, PlacesAre DEF KeepsOrNothing, Keeps
  <2>6. QED
    BY <2>3, <2>4, <2>5, LocksStay DEF Stays
<1>7. ASSUME NEW w \in Workers, NEW place \in Outcomes,
             pc[w] = "run", pc' = [pc EXCEPT ![w] = place], UNCHANGED <<job, timer>>,
             \A v \in Workers : pc[v] \in Holding => KeptRow(job[v])
      PROVE  /\ \A v \in Workers : KeepsOrNothing(v)
             /\ \A j \in Rows : Locked(j) => Locked(j)'
  <2>1. \A v \in Workers : KeepsOrNothing(v)
    BY <1>7 DEF TypeOK, KeepsOrNothing, Keeps
  <2>2. \A v \in Workers : pc[v] = "claim" => pc'[v] = "claim" /\ job'[v] = job[v]
    BY <1>7 DEF TypeOK
  <2>3. QED
    BY <2>1, <2>2, LocksStay
<1>8. ASSUME NEW w \in Workers, RunPass(w) PROVE Goal
  <2>1. /\ ScheduleOnce({job[w]}) /\ pc[w] = "run" /\ UNCHANGED <<job, timer>>
        /\ pc' = [pc EXCEPT ![w] = "done"] /\ "done" \in Outcomes
    BY <1>8, PlacesAre DEF RunPass
  <2>2. QED
    BY <1>7, <2>1, ScheduleKeeps DEF Stays, Renewed
<1>9. ASSUME NEW w \in Workers, Raise(w) \/ \E outcome \in Outcomes : RunJob(w, outcome)
      PROVE  Goal
  <2>1. /\ SameRows /\ pc[w] = "run" /\ UNCHANGED <<job, timer>>
        /\ \E place \in Outcomes : pc' = [pc EXCEPT ![w] = place]
    BY <1>9, PlacesAre DEF RunJob, Raise
  <2>2. \A j : KeptRow(j)
    BY <2>1 DEF SameRows, KeptRow
  <2>3. QED
    BY <1>7, <2>1, <2>2 DEF Stays
<1>10. ASSUME NEW w \in Workers, Finish(w) PROVE Goal
  <2> DEFINE k == job[w]
             r == CASE pc[w] = "done" -> Succeeded(k)
                    [] pc[w] = "retry" /\ ~Spent(k) -> [row[k] EXCEPT !.status = "pending"]
                    [] OTHER -> [row[k] EXCEPT !.status = "failed"]
             d == IF pc[w] = "retry" /\ ~Spent(k) THEN Delay ELSE 0
  <2>1. Put(k, r, d, FALSE) /\ Goto(w, "drain") /\ "drain" \in Idle /\ pc[w] # "claim"
    BY <1>10, PlacesAre DEF Finish
  <2>2. k \in Rows /\ k # Nothing
    BY <1>10, HolderHasRow, RowIsSomething DEF Finish, Holding
  <2> HIDE DEF k, r, d
  <2>3. /\ \A j \in Rows \ {k} : KeptRow(j)
        /\ since'[k] = 0 /\ told'[k] = FALSE
    BY <2>1, <2>2 DEF Put, TypeOK, KeptRow
  <2>4. ASSUME NEW v \in Workers \ {w}, pc[v] \in Holding PROVE KeptRow(job[v])
    <3>1. job[v] \in Rows /\ job[v] # k
      BY <2>2, <2>4, HolderHasRow DEF RunByOne, k
    <3>2. QED
      BY <2>3, <3>1
  <2>5. /\ \A v \in Workers : KeepsOrNothing(v)
        /\ \A v \in Workers \ {w} : pc'[v] = pc[v]
    BY <2>1, <2>4, GotoKeeps
  <2>6. \A v \in Workers : pc[v] = "claim" => pc'[v] = "claim" /\ job'[v] = job[v]
    BY <2>1, <2>5, PlacesAre DEF KeepsOrNothing, Keeps
  <2>7. QED
    BY <2>3, <2>5, <2>6, LocksStay DEF Stays, Renewed
<1>11. ASSUME NEW w \in Workers, Ask(w) \/ Deafen(w) PROVE Goal
  <2>1. SameRows /\ UNCHANGED <<pc, job, timer>>
    BY <1>11 DEF Ask, Deafen
  <2>2. \A j : KeptRow(j)
    BY <2>1 DEF SameRows, KeptRow
  <2>3. QED
    BY <1>1, <2>1, <2>2 DEF Stays
<1>12. ASSUME NEW w \in Workers, Kill(w) PROVE Goal
  <2>1. Goto(w, "killed") /\ "killed" \in Idle /\ UNCHANGED <<row, due, told>>
    BY <1>12, PlacesAre DEF Kill
  <2>2. \A j \in Rows : since'[j] = IF pc[w] = "claim" /\ job[w] = j THEN 0 ELSE since[j]
    BY <1>12 DEF Kill
  <2>3. \A j \in Rows : KeptRow(j) \/ (pc[w] = "claim" /\ job[w] = j)
    BY <2>1, <2>2 DEF KeptRow
  <2>4. ASSUME NEW v \in Workers \ {w}, pc[v] \in Holding PROVE KeptRow(job[v])
    <3>1. job[v] \in Rows /\ job[v] # job[w]
      BY <2>4, HolderHasRow, RowIsSomething DEF RunByOne
    <3>2. QED
      BY <2>3, <3>1
  <2>5. /\ \A v \in Workers : KeepsOrNothing(v)
        /\ \A v \in Workers \ {w} : pc'[v] = pc[v] /\ job'[v] = job[v]
    BY <2>1, <2>4, GotoKeeps DEF Goto, TypeOK
  <2>6. ASSUME NEW j \in Rows, pc[w] = "claim", job[w] = j PROVE Renewed(j)
    BY <2>1, <2>2, <2>6 DEF HeldRows, Renewed
  <2>7. ASSUME NEW j \in Rows, ~(pc[w] = "claim" /\ job[w] = j) PROVE Stays(j)
    BY <2>3, <2>5, <2>7 DEF Stays, Locked
  <2>8. QED
    BY <2>5, <2>6, <2>7
<1>13. CASE UNCHANGED vars
  <2>1. UNCHANGED <<pc, job, timer>> /\ \A j : KeptRow(j)
    BY <1>13 DEF vars, KeptRow
  <2>2. QED
    BY <1>1, <2>1 DEF Stays
<1>14. QED
  BY <1>2, <1>3, <1>4, <1>5, <1>6, <1>8, <1>9, <1>10, <1>11, <1>12, <1>13 DEF Quiet

\* What a quiet step does to requests to stop.
LEMMA QuietAsked ==
    ASSUME TypeOK, Quiet, NEW v \in Workers
    PROVE  \/ asked'[v] <= 0
           \/ asked'[v] = asked[v] /\ (pc[v] \in Gone => pc'[v] \in Gone)
<1> DEFINE Goal == \/ asked'[v] <= 0
                   \/ asked'[v] = asked[v] /\ (pc[v] \in Gone => pc'[v] \in Gone)
<1>1. ASSUME NEW w \in Workers, NEW place,
             UNCHANGED asked, pc[w] \notin Gone, pc' = [pc EXCEPT ![w] = place]
      PROVE  Goal
  BY <1>1 DEF TypeOK
<1>2. ASSUME NEW w \in Workers, Ask(w) \/ Restart(w) PROVE Goal
  <2>1. CASE v = w
    <3>1. asked'[v] \in {0, NotAsked}
      BY <1>2, <2>1 DEF Ask, Restart, TypeOK
    <3>2. QED
      BY <3>1 DEF NotAsked
  <2>2. CASE v # w
    BY <1>2, <2>2 DEF Ask, Restart, Goto, TypeOK
  <2>3. QED
    BY <2>1, <2>2
<1>3. ASSUME NEW w \in Workers,
             \/ Sweep(w) \/ Seed(w) \/ NothingDue(w) \/ Pause(w) \/ Wake(w) \/ Stop(w)
             \/ Finish(w) \/ Kill(w) \/ RunPass(w) \/ Raise(w)
             \/ \E outcome \in Outcomes : RunJob(w, outcome)
      PROVE  Goal
  <2>1. PICK place \in Idle \cup Holding :
             UNCHANGED asked /\ pc[w] \notin Gone /\ pc' = [pc EXCEPT ![w] = place]
    BY <1>3, PlacesAre
    DEF Sweep, Seed, NothingDue, Pause, Wake, Stop, Finish, Kill, RunPass, Raise, RunJob, Goto
  <2>2. QED
    BY <1>1, <2>1
<1>4. ASSUME UNCHANGED <<pc, asked>> PROVE Goal
  BY <1>4
<1>5. ASSUME NEW k \in Rows, Requeue(k) \/ \E later \in BOOLEAN : Enqueue(k, later)
      PROVE  Goal
  BY <1>4, <1>5 DEF Requeue, Enqueue
<1>6. ASSUME NEW w \in Workers, Deafen(w) PROVE Goal
  BY <1>4, <1>6 DEF Deafen
<1>7. CASE UNCHANGED vars
  BY <1>4, <1>7 DEF vars
<1>8. QED
  BY <1>2, <1>3, <1>5, <1>6, <1>7 DEF Quiet

\* How a worker comes to wait in a quiet step.
LEMMA QuietWaits ==
    ASSUME TypeOK, Quiet, NEW v \in Workers, pc'[v] \in {"empty", "wait"}
    PROVE  \/ pc'[v] = pc[v] /\ timer'[v] = timer[v]
           \/ pc'[v] = "wait" /\ pc[v] = "empty" /\ timer'[v] = 0 /\ SameRows
           \/ pc'[v] = "empty" /\ SameRows /\ \A k \in Rows : ~Free(k)
<1> DEFINE Goal == \/ pc'[v] = pc[v] /\ timer'[v] = timer[v]
                   \/ pc'[v] = "wait" /\ pc[v] = "empty" /\ timer'[v] = 0 /\ SameRows
                   \/ pc'[v] = "empty" /\ SameRows /\ \A k \in Rows : ~Free(k)
<1>1. ASSUME NEW w \in Workers, NEW place, pc' = [pc EXCEPT ![w] = place],
             place \notin {"empty", "wait"}, timer' = [timer EXCEPT ![w] = 0] \/ UNCHANGED timer
      PROVE  Goal
  BY <1>1 DEF TypeOK
<1>2. ASSUME NEW w \in Workers, NothingDue(w) \/ Pause(w) PROVE Goal
  BY <1>2 DEF NothingDue, Pause, Goto, TypeOK
<1>3. ASSUME NEW w \in Workers,
             \/ Sweep(w) \/ Seed(w) \/ Wake(w) \/ Stop(w) \/ Restart(w)
             \/ Finish(w) \/ Kill(w) \/ RunPass(w) \/ Raise(w)
             \/ \E outcome \in Outcomes : RunJob(w, outcome)
      PROVE  Goal
  <2>1. PICK place \in {"sweep", "seed", "drain", "stopped", "killed"} \cup Outcomes :
             /\ pc' = [pc EXCEPT ![w] = place]
             /\ timer' = [timer EXCEPT ![w] = 0] \/ UNCHANGED timer
    BY <1>3, PlacesAre
    DEF Sweep, Seed, Wake, Stop, Restart, Finish, Kill, RunPass, Raise, RunJob, Goto
  <2>2. QED
    BY <1>1, <2>1, PlacesAre
<1>4. ASSUME UNCHANGED <<pc, timer>> PROVE Goal
  BY <1>4
<1>5. ASSUME NEW k \in Rows, Requeue(k) \/ \E later \in BOOLEAN : Enqueue(k, later)
      PROVE  Goal
  BY <1>4, <1>5 DEF Requeue, Enqueue
<1>6. ASSUME NEW w \in Workers, Ask(w) \/ Deafen(w) PROVE Goal
  BY <1>4, <1>6 DEF Ask, Deafen
<1>7. CASE UNCHANGED vars
  BY <1>4, <1>7 DEF vars
<1>8. QED
  BY <1>2, <1>3, <1>5, <1>6, <1>7 DEF Quiet

\* What is announced anew wakes who listens.
LEMMA QuietTold ==
    ASSUME TypeOK, ToldRows, HeldRows, Quiet, NEW k \in Rows, told'[k]
    PROVE  told[k] \/ (Publish /\ UNCHANGED <<pc, ear>>)
<1>1. ASSUME NEW j \in Rows, Requeue(j) \/ \E later \in BOOLEAN : Enqueue(j, later)
      PROVE  told[k] \/ (Publish /\ UNCHANGED <<pc, ear>>)
  <2>1. CASE Requeue(j)
    BY <2>1 DEF Requeue
  <2>2. ASSUME NEW later \in BOOLEAN, Enqueue(j, later)
        PROVE  told[k] \/ (Publish /\ UNCHANGED <<pc, ear>>)
    <3>1. CASE later
      BY <2>2, <3>1 DEF Enqueue, Put, TypeOK
    <3>2. CASE ~later
      BY <2>2, <3>2 DEF Enqueue
    <3>3. QED
      BY <3>1, <3>2
  <2>3. QED
    BY <1>1, <2>1, <2>2
<1>2. ASSUME NEW successorOf, ScheduleOnce(successorOf) PROVE told[k]
  BY <1>2, ScheduleKeeps DEF KeptRow
<1>3. ASSUME NEW w \in Workers, Finish(w) PROVE told[k]
  BY <1>3, HolderHasRow DEF Finish, Put, TypeOK, Holding
<1>4. ASSUME NEW w \in Workers,
             \/ Sweep(w) \/ NothingDue(w) \/ Pause(w) \/ Wake(w) \/ Stop(w)
             \/ Raise(w) \/ Ask(w) \/ Kill(w) \/ Restart(w) \/ Deafen(w)
             \/ \E outcome \in Outcomes : RunJob(w, outcome)
      PROVE  UNCHANGED told
  BY <1>4 DEF Sweep, NothingDue, Pause, Wake, Stop, Raise, Ask, Kill, Restart, Deafen, RunJob,
              SameRows
<1>5. ASSUME NEW w \in Workers, Seed(w) \/ RunPass(w) PROVE told[k]
  BY <1>2, <1>5 DEF Seed, RunPass
<1>6. CASE UNCHANGED vars
  BY <1>6 DEF vars
<1>7. QED
  BY <1>1, <1>3, <1>4, <1>5, <1>6 DEF Quiet

\* What a quiet step does to the frames of a worker that goes on waiting.
LEMMA QuietFrames ==
    ASSUME TypeOK, Quiet, NEW v \in Workers, pc'[v] \in {"empty", "wait"},
           ear'[v], woken'[v] = 0
    PROVE  ear[v] /\ woken[v] = 0
<1>1. CASE UNCHANGED <<woken, ear>>
  BY <1>1
<1>2. CASE Publish /\ UNCHANGED ear
  <2>1. woken[v] \in 0 .. QueueSize /\ QueueSize \in Nat
    BY TimesAssumption DEF TypeOK
  <2>2. woken'[v] \in {woken[v], woken[v] + 1}
    BY <1>2 DEF Publish
  <2>3. QED
    BY <1>2, <2>1, <2>2
<1>3. ASSUME NEW w \in Workers, Wake(w) \/ Stop(w) \/ Kill(w) \/ Restart(w)
      PROVE  v # w /\ woken'[v] = woken[v] /\ ear'[v] = ear[v]
  <2>1. pc'[w] \notin {"empty", "wait"}
    BY <1>3 DEF Wake, Stop, Kill, Restart, Goto, TypeOK
  <2>2. woken \in [Workers -> 0 .. QueueSize] /\ ear \in [Workers -> BOOLEAN]
    BY DEF TypeOK
  <2>3. /\ \E n : woken' = [woken EXCEPT ![w] = n]
        /\ \E heard : ear' = [ear EXCEPT ![w] = heard]
    <3>1. woken = [woken EXCEPT ![w] = woken[w]] /\ ear = [ear EXCEPT ![w] = ear[w]]
      BY <2>2
    <3>2. QED
      BY <1>3, <3>1 DEF Wake, Stop, Kill, Restart
  <2>4. QED
    BY <2>1, <2>2, <2>3
<1>4. ASSUME NEW w \in Workers, Deafen(w) PROVE ear[v] /\ woken[v] = 0
  BY <1>4 DEF Deafen, TypeOK
<1>5. ASSUME NEW w \in Workers,
             \/ Sweep(w) \/ Seed(w) \/ NothingDue(w) \/ Pause(w) \/ Finish(w) \/ RunPass(w)
             \/ Raise(w) \/ Ask(w) \/ \E outcome \in Outcomes : RunJob(w, outcome)
      PROVE  UNCHANGED <<woken, ear>>
  BY <1>5 DEF Sweep, Seed, NothingDue, Pause, Finish, RunPass, Raise, Ask, RunJob
<1>6. ASSUME NEW k \in Rows, Requeue(k) \/ \E later \in BOOLEAN : Enqueue(k, later)
      PROVE  (Publish \/ UNCHANGED woken) /\ UNCHANGED ear
  BY <1>6 DEF Requeue, Enqueue
<1>7. CASE UNCHANGED vars
  BY <1>1, <1>7 DEF vars
<1>8. QED
  BY <1>1, <1>2, <1>3, <1>4, <1>5, <1>6, <1>7 DEF Quiet

-----------------------------------------------------------------------------
(* The inductive invariant is kept.                                            *)

LEMMA QueueInvInit == Init => QueueInv
<1> SUFFICES ASSUME Init PROVE QueueInv
  OBVIOUS
<1>1. \A w \in Workers : /\ pc[w] = "sweep" /\ job[w] = Nothing
                         /\ asked[w] = NotAsked /\ ~InHand(w)
  BY DEF Init, InHand, Outcomes
<1>2. \A k \in Rows : due[k] = 0 /\ since[k] = 0 /\ ~told[k]
  BY DEF Init
<1>3. NotAsked <= LongestTask
  BY TimesAssumption DEF NotAsked
<1>4. QED
  BY <1>1, <1>2, <1>3
  DEF QueueInv, HeldRows, RunByOne, DelayedRows, ToldRows, AskedInTime, NothingOlder, NothingMissed

\* Rows in hand, and whose they are.
LEMMA HeldStep ==
    TypeOK /\ TypeOK' /\ QueueInv /\ [Next]_vars => HeldRows' /\ RunByOne'
<1> SUFFICES ASSUME TypeOK, TypeOK', QueueInv, [Next]_vars PROVE HeldRows' /\ RunByOne'
  OBVIOUS
<1> USE DEF QueueInv
<1>1. CASE Quiet
  <2>1. \A v \in Workers : KeepsOrNothing(v)
    BY <1>1, QuietStep
  <2>2. \A v \in Workers : pc'[v] \in Idle => job'[v] = Nothing
    BY PlacesSplit DEF TypeOK, Holding
  <2>3. RunByOne'
    BY <2>1, <2>2 DEF RunByOne, KeepsOrNothing, Keeps
  <2>4. ASSUME NEW v \in Workers, pc'[v] \notin Idle
        PROVE  /\ pc'[v] = "claim" => Claimable(job[v])' /\ ~told'[job'[v]]
               /\ InHand(v)' => /\ row'[job'[v]].status = "running"
                                /\ due'[job'[v]] = 0
                                /\ since'[job'[v]] <= timer'[v]
                                /\ timer'[v] <= LongestTask
    <3>1. Keeps(v) /\ pc[v] \in Holding
      BY <2>1, <2>4, PlacesSplit, PlacesAre DEF KeepsOrNothing, Keeps, TypeOK
    <3>2. KeptRow(job[v]) /\ job'[v] = job[v] /\ timer'[v] = timer[v]
      BY <3>1 DEF Keeps
    <3>3. CASE pc'[v] = "claim"
      <4>1. pc[v] = "claim"
        BY <3>1, <3>3, PlacesAre DEF Keeps
      <4>2. Claimable(job[v]) /\ ~told[job[v]]
        BY <4>1 DEF HeldRows
      <4>3. QED
        BY <3>2, <3>3, <4>2, PlacesAre DEF KeptRow, Claimable, InHand
    <3>4. CASE InHand(v)'
      <4>1. InHand(v)
        BY <3>1, <3>4, PlacesAre DEF Keeps, InHand
      <4>2. QED
        BY <3>2, <3>4, <4>1, PlacesAre DEF KeptRow, HeldRows, InHand
    <3>5. QED
      BY <3>3, <3>4
  <2>5. \A v \in Workers : pc'[v] \in Idle => pc'[v] # "claim" /\ ~InHand(v)'
    BY PlacesAre DEF InHand
  <2>6. HeldRows'
    BY <2>4, <2>5 DEF HeldRows
  <2>7. QED
    BY <2>3, <2>6
<1>2. ASSUME NEW w \in Workers, NEW k \in Rows, Lock(w, k) PROVE HeldRows' /\ RunByOne'
  <2>1. \A v \in Workers : job[v] # k
    BY <1>2, IdleHasNothing, RowIsSomething, PlacesAre
    DEF Lock, Free, Claimable, Locked, HeldRows, InHand, TypeOK
  <2>2. RunByOne'
    BY <1>2, <2>1 DEF Lock, RunByOne, TypeOK
  <2>3. /\ pc'[w] = "claim" /\ job'[w] = k /\ Claimable(k)' /\ ~told'[k]
        /\ ~InHand(w)'
    BY <1>2, PlacesAre DEF Lock, Free, Claimable, TypeOK, InHand
  <2>4. ASSUME NEW v \in Workers \ {w}
        PROVE  /\ pc'[v] = pc[v] /\ job'[v] = job[v]
               /\ pc[v] = "claim" => ~told'[job[v]]
               /\ UNCHANGED <<row, due, since, timer>>
    <3>1. pc[v] = "claim" => job[v] \in Rows /\ job[v] # k /\ ~told[job[v]]
      BY <2>1, HolderHasRow, PlacesAre DEF HeldRows
    <3>2. QED
      BY <1>2, <3>1 DEF Lock, TypeOK
  <2>5. HeldRows'
    BY <2>3, <2>4 DEF HeldRows, InHand, Claimable
  <2>6. QED
    BY <2>2, <2>5
<1>3. ASSUME NEW w \in Workers, Claim(w) PROVE HeldRows' /\ RunByOne'
  <2>1. job[w] \in Rows /\ job[w] # Nothing /\ Claimable(job[w])
    BY <1>3, HolderHasRow, RowIsSomething, PlacesAre DEF Claim, HeldRows
  <2>2. RunByOne'
    BY <1>3 DEF Claim, RunByOne
  <2>3. /\ pc'[w] = "run" /\ timer'[w] = 0 /\ job'[w] = job[w]
        /\ row'[job[w]].status = "running" /\ due'[job[w]] = 0 /\ since'[job[w]] = 0
    BY <1>3, <2>1 DEF Claim, Claimable, TypeOK
  <2>4. ASSUME NEW v \in Workers \ {w}
        PROVE  /\ pc'[v] = pc[v] /\ job'[v] = job[v] /\ timer'[v] = timer[v]
               /\ pc[v] \in Holding => KeptRow(job[v])
    <3>1. pc[v] \in Holding => job[v] \in Rows /\ job[v] # job[w]
      BY <2>1, HolderHasRow, RowIsSomething DEF RunByOne
    <3>2. QED
      BY <1>3, <3>1 DEF Claim, KeptRow, TypeOK
  <2>5. 0 <= LongestTask
    BY TimesAssumption
  <2>6. ASSUME NEW v \in Workers \ {w}
        PROVE  /\ pc'[v] = "claim" => Claimable(job[v])' /\ ~told'[job'[v]]
               /\ InHand(v)' => /\ row'[job'[v]].status = "running"
                                /\ due'[job'[v]] = 0
                                /\ since'[job'[v]] <= timer'[v]
                                /\ timer'[v] <= LongestTask
    BY <2>4, <2>6, PlacesAre DEF HeldRows, KeptRow, Claimable, InHand
  <2>7. HeldRows'
    BY <2>3, <2>5, <2>6 DEF HeldRows
  <2>8. QED
    BY <2>2, <2>7
<1>4. CASE Tick
  <2>1. UNCHANGED <<row, told, pc, job>> /\ RunByOne'
    BY <1>4 DEF Tick, RunByOne
  <2>2. ASSUME NEW v \in Workers
        PROVE  pc[v] # "claim" /\ (InHand(v) => pc[v] = "run" /\ timer[v] # LongestTask)
    BY <1>4 DEF Tick, Busy, InHand
  <2>3. ASSUME NEW v \in Workers, InHand(v)
        PROVE  /\ due'[job[v]] = 0 /\ since'[job[v]] <= timer'[v]
               /\ timer'[v] <= LongestTask
    <3>1. job[v] \in Rows
      BY <2>3, HolderHasRow, PlacesAre DEF InHand
    <3>2. /\ due[job[v]] = 0 /\ since[job[v]] <= timer[v] /\ timer[v] <= LongestTask
          /\ timer[v] # LongestTask /\ pc[v] = "run"
      BY <2>2, <2>3 DEF HeldRows
    <3>3. since[job[v]] \in Nat /\ timer[v] \in Nat /\ LongestTask \in Nat
      BY <3>1, TimesAssumption DEF TypeOK
    <3>4. timer'[v] = timer[v] + 1 /\ due'[job[v]] = 0
      BY <1>4, <3>1, <3>2, PlacesAre DEF Tick
    <3>5. since'[job[v]] \in {since[job[v]], since[job[v]] + 1}
      BY <1>4, <3>1 DEF Tick, Later
    <3>6. QED
      BY <3>2, <3>3, <3>4, <3>5
  <2>4. HeldRows'
    BY <2>1, <2>2, <2>3 DEF HeldRows, InHand
  <2>5. QED
    BY <2>1, <2>4
<1>5. QED
  BY <1>1, <1>2, <1>3, <1>4, StepKinds

\* A row that is scheduled has not been waiting.
LEMMA DelayedStep ==
    TypeOK /\ QueueInv /\ [Next]_vars => DelayedRows'
<1> SUFFICES ASSUME TypeOK, QueueInv, [Next]_vars, NEW k \in Rows, due'[k] > 0
             PROVE  since'[k] = 0
  BY DEF DelayedRows
<1> USE DEF QueueInv
<1>1. CASE Quiet
  BY <1>1, QuietStep DEF Stays, KeptRow, Renewed, DelayedRows
<1>2. CASE \E w \in Workers : Claim(w) \/ \E j \in Rows : Lock(w, j)
  BY <1>2 DEF Claim, Lock, TypeOK, DelayedRows
<1>3. CASE Tick
  <2>1. due[k] > 0
    BY <1>3 DEF Tick, TypeOK
  <2>2. since[k] = 0 /\ due[k] # 0
    BY <2>1 DEF DelayedRows
  <2>3. QED
    BY <1>3, <2>2 DEF Tick
<1>4. QED
  BY <1>1, <1>2, <1>3, StepKinds

\* A row that is announced can be claimed.
LEMMA ToldStep ==
    TypeOK /\ QueueInv /\ [Next]_vars => ToldRows'
<1> SUFFICES ASSUME TypeOK, QueueInv, [Next]_vars, NEW k \in Rows, told'[k]
             PROVE  Claimable(k)'
  BY DEF ToldRows
<1> USE DEF QueueInv
<1>1. CASE Quiet
  BY <1>1, QuietStep DEF Stays, KeptRow, Renewed, ToldRows, Claimable
<1>2. ASSUME NEW w \in Workers, NEW j \in Rows, Lock(w, j) PROVE Claimable(k)'
  BY <1>2 DEF Lock, TypeOK, ToldRows, Claimable
<1>3. ASSUME NEW w \in Workers, Claim(w) PROVE Claimable(k)'
  <2>1. told[k] /\ k # job[w]
    BY <1>3 DEF Claim, HeldRows
  <2>2. QED
    BY <1>3, <2>1 DEF Claim, TypeOK, ToldRows, Claimable
<1>4. CASE Tick
  BY <1>4 DEF Tick, ToldRows, Claimable
<1>5. QED
  BY <1>1, <1>2, <1>3, <1>4, StepKinds

\* A worker asked to stop.
LEMMA AskedStep ==
    TypeOK /\ TypeOK' /\ QueueInv /\ [Next]_vars => AskedInTime'
<1> SUFFICES ASSUME TypeOK, TypeOK', QueueInv, [Next]_vars, NEW v \in Workers
             PROVE  /\ pc'[v] \notin Gone => asked'[v] <= LongestTask
                    /\ pc'[v] = "claim" => asked'[v] <= 0
                    /\ InHand(v)' => asked'[v] <= timer'[v]
  BY DEF AskedInTime
<1> USE DEF QueueInv
<1>1. /\ asked[v] \in Nat \cup {-1} /\ timer[v] \in Nat /\ timer'[v] \in Nat
      /\ asked'[v] \in Nat \cup {-1} /\ LongestTask \in Nat
  BY TimesAssumption DEF TypeOK, NotAsked
<1>2. /\ pc[v] \notin Gone => asked[v] <= LongestTask
      /\ pc[v] = "claim" => asked[v] <= 0
      /\ InHand(v) => asked[v] <= timer[v]
  BY DEF AskedInTime
<1>3. CASE Quiet
  <2>1. CASE asked'[v] <= 0
    BY <1>1, <2>1
  <2>2. CASE asked'[v] = asked[v] /\ (pc[v] \in Gone => pc'[v] \in Gone)
    <3>1. KeepsOrNothing(v)
      BY <1>3, QuietStep
    <3>2. CASE pc'[v] \in Idle
      BY <1>2, <2>2, <3>2, PlacesAre DEF InHand
    <3>3. CASE Keeps(v)
      BY <1>2, <2>2, <3>3, PlacesAre DEF Keeps, InHand
    <3>4. QED
      BY <3>1, <3>2, <3>3 DEF KeepsOrNothing
  <2>3. QED
    BY <1>3, <2>1, <2>2, QuietAsked
<1>4. ASSUME NEW w \in Workers, NEW k \in Rows, Lock(w, k)
      PROVE  /\ pc'[v] \notin Gone => asked'[v] <= LongestTask
             /\ pc'[v] = "claim" => asked'[v] <= 0
             /\ InHand(v)' => asked'[v] <= timer'[v]
  <2>1. asked' = asked /\ timer' = timer
    BY <1>4 DEF Lock
  <2>2. CASE v = w
    BY <1>1, <1>4, <2>1, <2>2, PlacesAre DEF Lock, TypeOK, InHand, NotAsked
  <2>3. CASE v # w
    BY <1>2, <1>4, <2>1, <2>3 DEF Lock, TypeOK, InHand
  <2>4. QED
    BY <2>2, <2>3
<1>5. ASSUME NEW w \in Workers, Claim(w)
      PROVE  /\ pc'[v] \notin Gone => asked'[v] <= LongestTask
             /\ pc'[v] = "claim" => asked'[v] <= 0
             /\ InHand(v)' => asked'[v] <= timer'[v]
  <2>1. asked' = asked
    BY <1>5 DEF Claim
  <2>2. CASE v = w
    <3>1. pc[v] = "claim" /\ pc'[v] = "run" /\ timer'[v] = 0
      BY <1>5, <2>2 DEF Claim, TypeOK
    <3>2. QED
      BY <1>1, <1>2, <2>1, <3>1
  <2>3. CASE v # w
    BY <1>2, <1>5, <2>1, <2>3 DEF Claim, TypeOK, InHand
  <2>4. QED
    BY <2>2, <2>3
<1>6. CASE Tick
  <2>1. pc' = pc /\ ~Busy(v)
    BY <1>6 DEF Tick
  <2>2. CASE pc[v] \in Gone
    BY <2>1, <2>2, PlacesAre DEF InHand
  <2>3. CASE pc[v] \notin Gone /\ asked[v] = NotAsked
    <3>1. asked'[v] = NotAsked
      BY <1>6, <2>3 DEF Tick
    <3>2. QED
      BY <1>1, <3>1 DEF NotAsked
  <2>4. CASE pc[v] \notin Gone /\ asked[v] # NotAsked
    <3>1. pc[v] = "run" /\ timer[v] # LongestTask
      BY <2>1, <2>4, PlacesAre DEF Busy, TypeOK, Places, Between
    <3>2. InHand(v)
      BY <3>1 DEF InHand
    <3>3. asked[v] <= timer[v] /\ timer[v] <= LongestTask
      BY <1>2, <3>2 DEF HeldRows
    <3>4. asked'[v] = asked[v] + 1 /\ timer'[v] = timer[v] + 1
      BY <1>6, <2>4 DEF Tick
    <3>5. QED
      BY <1>1, <2>1, <3>1, <3>3, <3>4 DEF NotAsked
  <2>5. QED
    BY <2>2, <2>3, <2>4
<1>7. QED
  BY <1>3, <1>4, <1>5, <1>6, StepKinds

\* What lies about.
LEMMA OlderStep ==
    TypeOK /\ TypeOK' /\ QueueInv /\ [Next]_vars => NothingOlder'
<1> SUFFICES ASSUME TypeOK, TypeOK', QueueInv, [Next]_vars,
                    NEW v \in Workers, NEW k \in Rows, Free(k)'
             PROVE  /\ pc'[v] = "empty" => since'[k] = 0
                    /\ pc'[v] = "wait" => since'[k] <= timer'[v]
  BY DEF NothingOlder
<1> USE DEF QueueInv
<1>1. since[k] \in Nat /\ timer[v] \in Nat /\ since'[k] \in Nat /\ timer'[v] \in Nat
  BY DEF TypeOK
<1>2. /\ Free(k) /\ pc[v] = "empty" => since[k] = 0
      /\ Free(k) /\ pc[v] = "wait" => since[k] <= timer[v]
  BY DEF NothingOlder
<1>3. CASE Quiet
  <2>1. CASE Renewed(k)
    BY <1>1, <2>1 DEF Renewed
  <2>2. CASE Stays(k) /\ pc'[v] \in {"empty", "wait"}
    <3>1. Free(k) /\ since'[k] = since[k]
      BY <2>2 DEF Stays, KeptRow, Free, Claimable
    <3>2. \/ pc'[v] = pc[v] /\ timer'[v] = timer[v]
          \/ pc'[v] = "wait" /\ pc[v] = "empty" /\ timer'[v] = 0
      BY <1>3, <2>2, <3>1, QuietWaits
    <3>3. QED
      BY <1>1, <1>2, <3>1, <3>2
  <2>3. QED
    BY <1>3, <2>1, <2>2, QuietStep
<1>4. ASSUME NEW w \in Workers, NEW j \in Rows, Lock(w, j)
      PROVE  /\ pc'[v] = "empty" => since'[k] = 0
             /\ pc'[v] = "wait" => since'[k] <= timer'[v]
  <2>1. Free(k) /\ since' = since /\ timer' = timer
    BY <1>4 DEF Lock, Free, Claimable, Locked, TypeOK
  <2>2. pc'[v] \in {"empty", "wait"} => pc'[v] = pc[v]
    BY <1>4 DEF Lock, TypeOK
  <2>3. QED
    BY <1>2, <2>1, <2>2
<1>5. ASSUME NEW w \in Workers, Claim(w)
      PROVE  /\ pc'[v] = "empty" => since'[k] = 0
             /\ pc'[v] = "wait" => since'[k] <= timer'[v]
  <2>1. pc'[v] \in {"empty", "wait"} => pc'[v] = pc[v] /\ timer'[v] = timer[v]
    BY <1>5 DEF Claim, TypeOK
  <2>2. CASE k = job[w]
    BY <1>1, <1>5, <2>2 DEF Claim, TypeOK
  <2>3. CASE k # job[w]
    <3>1. row'[k] = row[k] /\ due'[k] = due[k] /\ since'[k] = since[k]
      BY <1>5, <2>3 DEF Claim, TypeOK
    <3>2. ~Locked(k)
      BY <1>5, <2>3 DEF Claim, Locked, Free, TypeOK
    <3>3. Free(k)
      BY <3>1, <3>2 DEF Free, Claimable
    <3>4. QED
      BY <1>2, <2>1, <3>1, <3>3
  <2>4. QED
    BY <2>2, <2>3
<1>6. CASE Tick
  <2>1. pc' = pc /\ job' = job /\ row' = row /\ pc[v] # "empty"
    BY <1>6 DEF Tick, Busy, Between
  <2>2. ASSUME pc[v] = "wait" PROVE since'[k] <= timer'[v]
    <3>1. timer'[v] = timer[v] + 1
      BY <1>6, <2>2, PlacesAre DEF Tick
    <3>2. CASE due[k] = 0
      <4>1. Free(k)
        BY <2>1, <3>2 DEF Free, Claimable, Locked
      <4>2. since'[k] \in {since[k], since[k] + 1}
        BY <1>6 DEF Tick, Later
      <4>3. QED
        BY <1>1, <1>2, <2>2, <3>1, <4>1, <4>2
    <3>3. CASE due[k] # 0
      <4>1. since[k] = 0
        BY <3>3 DEF DelayedRows, TypeOK
      <4>2. since'[k] = 0
        BY <1>6, <3>3, <4>1 DEF Tick
      <4>3. QED
        BY <1>1, <4>2
    <3>4. QED
      BY <3>2, <3>3
  <2>3. QED
    BY <2>1, <2>2
<1>7. QED
  BY <1>3, <1>4, <1>5, <1>6, StepKinds

\* What was announced to who listens.
LEMMA MissedStep ==
    TypeOK /\ QueueInv /\ [Next]_vars => NothingMissed'
<1> SUFFICES ASSUME TypeOK, QueueInv, [Next]_vars, NEW v \in Workers, NEW k \in Rows,
                    pc'[v] \in {"empty", "wait"}, ear'[v], woken'[v] = 0, told'[k]
             PROVE  FALSE
  BY DEF NothingMissed
<1> USE DEF QueueInv
<1>1. CASE Quiet
  <2>1. ear[v] /\ woken[v] = 0
    BY <1>1, QuietFrames
  <2>2. CASE Publish /\ UNCHANGED <<pc, ear>>
    <3>1. pc[v] \notin Gone
      BY <2>2, PlacesAre
    <3>2. 0 < QueueSize
      BY TimesAssumption
    <3>3. woken'[v] = woken[v] + 1
      BY <2>1, <2>2, <3>1, <3>2 DEF Publish
    <3>4. QED
      BY <2>1, <3>3
  <2>3. CASE told[k]
    <3>1. CASE pc[v] \in {"empty", "wait"}
      BY <2>1, <2>3, <3>1 DEF NothingMissed
    <3>2. CASE \A j \in Rows : ~Free(j)
      BY <2>3, <3>2 DEF Free, Locked, ToldRows, HeldRows
    <3>3. QED
      BY <1>1, <3>1, <3>2, QuietWaits
  <2>4. QED
    BY <1>1, <2>2, <2>3, QuietTold
<1>2. ASSUME NEW w \in Workers, Claim(w) PROVE FALSE
  <2>1. pc[v] \in {"empty", "wait"} /\ ear[v] /\ woken[v] = 0 /\ told[k]
    BY <1>2 DEF Claim, TypeOK
  <2>2. QED
    BY <2>1 DEF NothingMissed
<1>3. ASSUME NEW w \in Workers, NEW j \in Rows, Lock(w, j) PROVE FALSE
  <2>1. pc[v] \in {"empty", "wait"} /\ ear[v] /\ woken[v] = 0 /\ told[k]
    BY <1>3 DEF Lock, TypeOK
  <2>2. QED
    BY <2>1 DEF NothingMissed
<1>4. CASE Tick
  BY <1>4 DEF Tick, NothingMissed
<1>5. QED
  BY <1>1, <1>2, <1>3, <1>4, StepKinds

LEMMA QueueInvStep == TypeOK /\ TypeOK' /\ QueueInv /\ [Next]_vars => QueueInv'
<1> SUFFICES ASSUME TypeOK, TypeOK', QueueInv, [Next]_vars PROVE QueueInv'
  OBVIOUS
<1>1. HeldRows' /\ RunByOne'
  BY HeldStep
<1>2. DelayedRows' /\ ToldRows' /\ NothingMissed'
  BY DelayedStep, ToldStep, MissedStep
<1>3. AskedInTime' /\ NothingOlder'
  BY AskedStep, OlderStep
<1>4. QED
  BY <1>1, <1>2, <1>3 DEF QueueInv

\* The parts of the invariant, and NothingLiesAbout, NoLostWakeup, RunByOne and
\* StopsInTime with them, hold of every state the queue and its workers reach.
THEOREM QueueCorrect == Spec => []QueueInv
<1>1. QED
  BY QueueInvInit, QueueInvStep, TypeCorrect, PTL DEF Spec

\* No task is run by two workers at once, however many workers there are and
\* whatever is killed, as long as a task ends before it is stale.
THEOREM RowsRunByOne == Spec => []RunByOne
<1>1. QueueInv => RunByOne
  BY DEF QueueInv
<1>2. QED
  BY <1>1, QueueCorrect, PTL

\* A worker that waits has left nothing behind for longer than it has waited.
THEOREM NothingIsLeft == Spec => []NothingLiesAbout
<1>1. QueueInv => NothingLiesAbout
  BY DEF QueueInv, NothingOlder, NothingLiesAbout
<1>2. QED
  BY <1>1, QueueCorrect, PTL

\* A worker that listens and waits without a frame has no announced work before it.
THEOREM WakeupsArrive == Spec => []NoLostWakeup
<1>1. QueueInv => NoLostWakeup
  BY DEF QueueInv, NothingMissed, NoLostWakeup
<1>2. QED
  BY <1>1, QueueCorrect, PTL

\* A worker that is asked to stop takes no longer than the task in its hands.
THEOREM StopsOnTime == Spec => []StopsInTime
<1>1. ASSUME TypeOK, QueueInv, NEW w \in Workers, asked[w] > LongestTask
      PROVE  pc[w] \in Gone
  <2>1. asked[w] \in Nat \cup {-1} /\ LongestTask \in Nat
    BY <1>1, TimesAssumption DEF TypeOK, NotAsked
  <2>2. pc[w] \notin Gone => asked[w] <= LongestTask
    BY <1>1 DEF QueueInv, AskedInTime
  <2>3. QED
    BY <1>1, <2>1, <2>2
<1>2. TypeOK /\ QueueInv => StopsInTime
  BY <1>1 DEF StopsInTime
<1>3. QED
  BY <1>2, TypeCorrect, QueueCorrect, PTL

-----------------------------------------------------------------------------
(* The queue keeps its promise.                                                *)

\* Who runs what.
Holder == [w \in Workers |-> Running(w)]

\* A row is as it was to those who use the queue.
Unseen == UNCHANGED <<row, Holder>>

\* Whoever stays where it is goes on running what it runs.
LEMMA SameHolder ==
    ASSUME UNCHANGED <<pc, job>>
    PROVE  UNCHANGED Holder
BY DEF Holder, Running

\* A worker without a row that goes on runs nothing before and after.
LEMMA IdleGoes ==
    ASSUME TypeOK, NEW w \in Workers, NEW place \in Idle, Goto(w, place), ~InHand(w)
    PROVE  UNCHANGED Holder
<1>1. job[w] = Nothing \/ pc[w] = "claim"
  BY PlacesAre DEF TypeOK, InHand, Holding
<1>2. \A v \in Workers : Running(v)' = Running(v)
  BY <1>1, PlacesAre DEF Goto, Running, TypeOK
<1>3. QED
  BY <1>2 DEF Holder

\* One that has a row in hand lets go of it.
LEMMA HolderGoes ==
    ASSUME TypeOK, NEW w \in Workers, NEW place \in Idle, Goto(w, place), InHand(w)
    PROVE  /\ Holder[w] = job[w] /\ job[w] \in Rows /\ job[w] # Nothing
           /\ Holder' = [Holder EXCEPT ![w] = Nothing]
<1>1. pc[w] # "claim" /\ job[w] \in Rows /\ job[w] # Nothing
  BY HolderHasRow, RowIsSomething, PlacesAre DEF InHand
<1>2. Running(w)' = Nothing
  BY PlacesAre DEF Goto, Running, TypeOK
<1>3. \A v \in Workers \ {w} : Running(v)' = Running(v)
  BY DEF Goto, Running, TypeOK
<1>4. QED
  BY <1>1, <1>2, <1>3 DEF Holder, Running

\* Going on from run to the end of execute is no change either.
LEMMA OutcomeGoes ==
    ASSUME TypeOK, NEW w \in Workers, NEW place \in Outcomes, pc[w] = "run",
           pc' = [pc EXCEPT ![w] = place], UNCHANGED job
    PROVE  UNCHANGED Holder
<1>1. \A v \in Workers : Running(v)' = Running(v)
  BY PlacesAre DEF Running, TypeOK
<1>2. QED
  BY <1>1 DEF Holder

\* Scheduling a pass is an enqueue, or nothing.
LEMMA ScheduleEnqueues ==
    ASSUME NEW successorOf, ScheduleOnce(successorOf), UNCHANGED Holder
    PROVE  Unseen \/ \E k \in Rows : Promise!Enqueue(k)
<1>1. CASE SameRows
  BY <1>1 DEF SameRows, Unseen
<1>2. CASE \E k \in Passes : row[k] = NoRow /\ Put(k, NewRow, Interval, FALSE)
  BY <1>2 DEF Put, Promise!Enqueue, Promise!NoRow, Promise!NewRow, NoRow, NewRow, Rows, Holder
<1>3. QED
  BY <1>1, <1>2 DEF ScheduleOnce

\* A stale row is run by no worker, so the sweep gives back what was abandoned.
LEMMA SweepGivesBack ==
    ASSUME TypeOK, HeldRows, NEW w \in Workers, Sweep(w)
    PROVE  \E abandoned \in SUBSET Rows : Promise!GiveBack(abandoned)
<1> DEFINE abandoned == {k \in Rows : Stale(k)}
<1>1. "seed" \in Idle /\ ~InHand(w)
  BY PlacesAre DEF Sweep, InHand
<1>2. UNCHANGED Holder
  BY <1>1, IdleGoes DEF Sweep
<1>3. ASSUME NEW v \in Workers, NEW k \in Rows, Stale(k) PROVE Running(v) # k
  <2>1. CASE InHand(v)
    <3>1. since[job[v]] <= timer[v] /\ timer[v] <= LongestTask /\ job[v] \in Rows
      BY <2>1, HolderHasRow, PlacesAre DEF HeldRows, InHand
    <3>2. since[job[v]] \in Nat /\ timer[v] \in Nat
      BY <3>1 DEF TypeOK
    <3>3. ~Stale(job[v])
      BY <3>1, <3>2, TimesAssumption DEF Stale
    <3>4. QED
      BY <1>3, <2>1, <3>3, PlacesAre DEF Running, InHand
  <2>2. CASE ~InHand(v)
    <3>1. Running(v) = Nothing
      BY <2>2, PlacesAre DEF Running, InHand, TypeOK
    <3>2. QED
      BY <3>1, RowIsSomething
  <2>3. QED
    BY <2>1, <2>2
<1>4. \A k \in abandoned : row[k].status = "running" /\ k \notin Promise!Held
  BY <1>3 DEF Promise!Held, Stale
<1>5. row' = [k \in Rows |-> IF k \in abandoned THEN Promise!GivenBack(k) ELSE row[k]]
  BY DEF Sweep, Promise!GivenBack, Promise!Spent, Spent
<1>6. QED
  BY <1>2, <1>4, <1>5 DEF Promise!GiveBack, Holder

\* A claim takes the row.
LEMMA ClaimTakes ==
    ASSUME TypeOK, HeldRows, NEW w \in Workers, Claim(w)
    PROVE  \E k \in Rows : Promise!Take(w, k)
<1>1. job[w] \in Rows /\ row[job[w]].status = "pending" /\ Running(w) = Nothing
  BY HolderHasRow, PlacesAre DEF Claim, HeldRows, Claimable, Running
<1>2. Running(w)' = job[w] /\ \A v \in Workers \ {w} : Running(v)' = Running(v)
  BY DEF Claim, Running, TypeOK
<1>3. Holder[w] = Nothing /\ Holder' = [Holder EXCEPT ![w] = job[w]]
  BY <1>1, <1>2 DEF Holder
<1>4. row' = [row EXCEPT ![job[w]].status = "running", ![job[w]].attempts = @ + 1]
  BY DEF Claim
<1>5. QED
  BY <1>1, <1>3, <1>4 DEF Promise!Take, Promise!Nothing, Nothing, Holder

\* The end of execute settles it.
LEMMA FinishSettles ==
    ASSUME TypeOK, NEW w \in Workers, Finish(w)
    PROVE  Promise!Settle(w)
<1> DEFINE k == job[w]
           r == CASE pc[w] = "done" -> Succeeded(k)
                  [] pc[w] = "retry" /\ ~Spent(k) -> [row[k] EXCEPT !.status = "pending"]
                  [] OTHER -> [row[k] EXCEPT !.status = "failed"]
<1>1. InHand(w) /\ "drain" \in Idle /\ Goto(w, "drain")
  BY PlacesAre DEF Finish, InHand
<1>2. Holder[w] = k /\ k # Nothing /\ Holder' = [Holder EXCEPT ![w] = Nothing]
  BY <1>1, HolderGoes
<1>3. r \in Promise!Settled(k)
  BY DEF Promise!Settled, Promise!NoRow, Promise!Spent, NoRow, Spent, Succeeded
<1>4. row' = [row EXCEPT ![k] = r]
  BY DEF Finish, Put
<1> HIDE DEF k, r
<1>5. QED
  BY <1>2, <1>3, <1>4 DEF Promise!Settle, Promise!Nothing, Nothing, Holder

\* A worker that dies abandons what it runs.
LEMMA KillAbandons ==
    ASSUME TypeOK, NEW w \in Workers, Kill(w)
    PROVE  Unseen \/ Promise!Abandon(w)
<1>1. Goto(w, "killed") /\ "killed" \in Idle /\ UNCHANGED row
  BY PlacesAre DEF Kill
<1>2. CASE InHand(w)
  BY <1>1, <1>2, HolderGoes DEF Promise!Abandon, Promise!Nothing, Nothing, Holder
<1>3. CASE ~InHand(w)
  BY <1>1, <1>3, IdleGoes DEF Unseen
<1>4. QED
  BY <1>2, <1>3

\* An operator puts a dead letter back.
LEMMA RequeuePutsBack ==
    ASSUME TypeOK, NEW k \in Rows, Requeue(k)
    PROVE  Promise!PutBack(k)
<1>1. UNCHANGED Holder
  BY SameHolder DEF Requeue
<1>2. row' = [row EXCEPT ![k] = [row[k] EXCEPT !.status = "pending",
                                              !.max = row[k].attempts + ExtraAttempts]]
  BY DEF Requeue, Put
<1>3. row' = [row EXCEPT ![k].status = "pending", ![k].max = row[k].attempts + ExtraAttempts]
  BY <1>2 DEF TypeOK
<1>4. QED
  BY <1>1, <1>3 DEF Requeue, Promise!PutBack, Holder

LEMMA QueueStep ==
    TypeOK /\ QueueInv /\ [Next]_vars => [Promise!QueueNext]_(Promise!queue)
<1> SUFFICES ASSUME TypeOK, QueueInv, [Next]_vars PROVE Promise!QueueNext \/ Unseen
  BY DEF Unseen, Holder, Promise!queue
<1> USE DEF QueueInv
<1>1. ASSUME NEW k \in Rows, NEW later \in BOOLEAN, Enqueue(k, later) PROVE Promise!QueueNext
  <2>1. UNCHANGED Holder
    BY <1>1, SameHolder DEF Enqueue
  <2>2. Promise!Enqueue(k)
    BY <1>1, <2>1
    DEF Enqueue, Put, Promise!Enqueue, Promise!NoRow, Promise!NewRow, NoRow, NewRow, Holder
  <2>3. QED
    BY <2>2 DEF Promise!QueueNext
<1>2. ASSUME NEW k \in Rows, Requeue(k) PROVE Promise!QueueNext
  BY <1>2, RequeuePutsBack DEF Promise!QueueNext
<1>3. ASSUME NEW w \in Workers, Sweep(w) PROVE Promise!QueueNext
  BY <1>3, SweepGivesBack DEF Promise!QueueNext
<1>4. ASSUME NEW w \in Workers, Seed(w) PROVE Promise!QueueNext \/ Unseen
  <2>1. Goto(w, "drain") /\ "drain" \in Idle /\ ~InHand(w)
    BY <1>4, PlacesAre DEF Seed, InHand
  <2>2. QED
    BY <1>4, <2>1, IdleGoes, ScheduleEnqueues DEF Seed, Promise!QueueNext
<1>5. ASSUME NEW w \in Workers,
             NothingDue(w) \/ Pause(w) \/ Wake(w) \/ Stop(w) \/ Restart(w)
      PROVE  Unseen
  <2>1. PICK place \in Idle : Goto(w, place)
    BY <1>5, PlacesAre DEF NothingDue, Pause, Wake, Stop, Restart
  <2>2. SameRows /\ ~InHand(w)
    BY <1>5, PlacesAre DEF NothingDue, Pause, Wake, Stop, Restart, InHand
  <2>3. QED
    BY <2>1, <2>2, IdleGoes DEF SameRows, Unseen
<1>6. ASSUME NEW w \in Workers, NEW k \in Rows, Lock(w, k) PROVE Unseen
  <2>1. \A v \in Workers : Running(v)' = Running(v)
    BY <1>6, PlacesAre DEF Lock, Running, TypeOK
  <2>2. QED
    BY <1>6, <2>1 DEF Lock, Unseen, Holder
<1>7. ASSUME NEW w \in Workers, Claim(w) PROVE Promise!QueueNext
  BY <1>7, ClaimTakes DEF Promise!QueueNext
<1>8. ASSUME NEW w \in Workers, RunPass(w) PROVE Promise!QueueNext \/ Unseen
  <2>1. UNCHANGED Holder
    BY <1>8, OutcomeGoes, PlacesAre DEF RunPass
  <2>2. QED
    BY <1>8, <2>1, ScheduleEnqueues DEF RunPass, Promise!QueueNext
<1>9. ASSUME NEW w \in Workers, Raise(w) \/ \E outcome \in Outcomes : RunJob(w, outcome)
      PROVE  Unseen
  <2>1. PICK place \in Outcomes : /\ pc[w] = "run" /\ pc' = [pc EXCEPT ![w] = place]
                                  /\ UNCHANGED <<row, job>>
    BY <1>9, PlacesAre DEF Raise, RunJob, SameRows
  <2>2. QED
    BY <2>1, OutcomeGoes DEF Unseen
<1>10. ASSUME NEW w \in Workers, Finish(w) PROVE Promise!QueueNext
  BY <1>10, FinishSettles DEF Promise!QueueNext
<1>11. ASSUME NEW w \in Workers, Kill(w) PROVE Promise!QueueNext \/ Unseen
  BY <1>11, KillAbandons DEF Promise!QueueNext
<1>12. ASSUME UNCHANGED <<row, pc, job>> PROVE Unseen
  BY <1>12, SameHolder DEF Unseen
<1>13. ASSUME NEW w \in Workers, Ask(w) \/ Deafen(w) PROVE Unseen
  BY <1>12, <1>13 DEF Ask, Deafen, SameRows
<1>14. CASE Tick \/ UNCHANGED vars
  BY <1>12, <1>14 DEF Tick, vars
<1>15. QED
  BY <1>1, <1>2, <1>3, <1>4, <1>5, <1>6, <1>7, <1>8, <1>9, <1>10, <1>11, <1>13, <1>14
  DEF Next, Proceed

\* The queue with its clock, its wake-ups and its dying workers keeps what it
\* promises: each row run by one worker at a time, within its budget, and given
\* back only when its worker is gone.
THEOREM QueueKeepsPromise == Spec => RefinesQueue
<1>1. Init => Promise!QueueInit
  BY DEF Init, Promise!QueueInit, Promise!NoRow, Promise!Nothing, NoRow, Nothing, Running
<1>2. QED
  BY <1>1, QueueStep, TypeCorrect, QueueCorrect, PTL DEF Spec, RefinesQueue, Promise!QueueSpec
=============================================================================
