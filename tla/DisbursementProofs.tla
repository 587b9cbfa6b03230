------------------------- MODULE DisbursementProofs -------------------------
(* Theorems about Disbursement, for every value of its constants.              *)
EXTENDS Disbursement, TLAPS

-----------------------------------------------------------------------------
(* Facts about the parts the steps are built from.                             *)

\* A task is not the absence of one.
LEMMA TaskIsSomething == Nothing \notin TaskId
BY DEF Nothing, TaskId

\* The slots of a transfer are tasks.
LEMMA SlotIsTask ==
    ASSUME NEW t \in Transfers, NEW i \in 0 .. SettleSlots
    PROVE  <<t, i>> \in TaskId
BY DEF TaskId

\* A task is about a transfer.
LEMMA TaskNamesTransfer ==
    ASSUME NEW k \in TaskId
    PROVE  k[1] \in Transfers
BY DEF TaskId

\* Rows start well formed.
LEMMA FreshRows ==
    /\ NoTask \in TaskRow
    /\ NewTask \in TaskRow
    /\ NoTransfer \in TransferRow
    /\ NoJournals \in JournalCounts
BY ConstantsAssumption
   DEF NoTask, NewTask, TaskRow, TaskStatus, NoTransfer, TransferRow, TransferStatus,
       NoJournals, JournalCounts

\* The journal counts of a transfer stay counts when one is posted.
LEMMA PostedIsTyped ==
    ASSUME journals \in [Transfers -> JournalCounts], NEW t \in Transfers,
           NEW kind \in {"authorized", "settled", "reversed"}
    PROVE  Posted(t, kind) \in [Transfers -> JournalCounts]
BY DEF Posted, JournalCounts

\* A transfer row stays one when its status moves.
LEMMA MovedIsTyped ==
    ASSUME transfer \in [Transfers -> TransferRow], NEW t \in Transfers,
           NEW s \in TransferStatus
    PROVE  Moved(t, s) \in [Transfers -> TransferRow]
BY DEF Moved, TransferRow

-----------------------------------------------------------------------------
(* Type correctness.                                                           *)

\* What the transition of a worker from one step to another leaves typed.
LEMMA StepIsTyped ==
    ASSUME TypeOK, NEW w \in Workers, NEW step \in Steps,
           pc[w] \in HandlerSteps, step \in HandlerSteps \cup Outcomes,
           pc' = [pc EXCEPT ![w] = step], UNCHANGED job
    PROVE  /\ pc' \in [Workers -> Steps]
           /\ job' \in [Workers -> TaskId \cup {Nothing}]
           /\ \A v \in Workers : pc'[v] \in HandlerSteps \cup Outcomes <=> job'[v] # Nothing
BY DEF TypeOK

\* A worker inside a handler or at its outcome runs a task.
LEMMA BusyWorkerHasTask ==
    ASSUME TypeOK, NEW w \in Workers, pc[w] \in HandlerSteps \cup Outcomes
    PROVE  job[w] \in TaskId /\ job[w][1] \in Transfers
BY TaskNamesTransfer DEF TypeOK

\* Queueing a check on a payment keeps the queue typed.
LEMMA EnqueueIsTyped ==
    ASSUME TypeOK, NEW t \in Transfers, EnqueueSettle(t)
    PROVE  task' \in [TaskId -> TaskRow]
<1>1. PICK i \in FreeSlots(t) : task' = [task EXCEPT ![<<t, i>>] = NewTask]
  BY DEF EnqueueSettle
<1>2. QED
  BY <1>1, FreshRows DEF TypeOK

LEMMA TypeInit == Init => TypeOK
<1> SUFFICES ASSUME Init PROVE TypeOK
  OBVIOUS
<1>1. Nothing \in TaskId \cup {Nothing} /\ "idle" \in Steps
  BY DEF Steps
<1>2. NoPass \in PassState
  BY FreshRows DEF NoPass, PassState, PaymentStatus
<1>3. "idle" \notin HandlerSteps \cup Outcomes
  BY DEF HandlerSteps, Outcomes
<1>4. QED
  BY <1>1, <1>2, <1>3, FreshRows DEF Init, TypeOK, PaymentStatus

LEMMA TypeStep == TypeOK /\ [Next]_vars => TypeOK'
<1> SUFFICES ASSUME TypeOK, [Next]_vars PROVE TypeOK'
  OBVIOUS
<1>1. ASSUME NEW t \in Transfers, Authorize(t) PROVE TypeOK'
  <2>1. <<t, 0>> \in TaskId
    BY SlotIsTask, ConstantsAssumption
  <2>2. transfer' \in [Transfers -> TransferRow] /\ journals' \in [Transfers -> JournalCounts]
    BY <1>1, MovedIsTyped, PostedIsTyped DEF Authorize, TypeOK, TransferStatus
  <2>3. task' \in [TaskId -> TaskRow]
    BY <1>1, <2>1, FreshRows DEF Authorize, TypeOK
  <2>4. QED
    BY <1>1, <2>2, <2>3 DEF Authorize, TypeOK
<1>2. ASSUME NEW t \in Transfers, NEW outcome \in Finished, Advance(t, outcome) PROVE TypeOK'
  BY <1>2 DEF Advance, TypeOK, Finished, PaymentStatus
<1>3. ASSUME NEW k \in TaskId, RetryDeadLetter(k) PROVE TypeOK'
  <2>1. task[k].attempts + ExtraAttempts \in Nat
    BY ConstantsAssumption DEF TypeOK, TaskRow
  <2>2. task' \in [TaskId -> TaskRow]
    <3>1. task' = [task EXCEPT ![k].status = "pending",
                              ![k].max = task[k].attempts + ExtraAttempts]
      BY <1>3 DEF RetryDeadLetter
    <3>2. task \in [TaskId -> TaskRow]
      BY DEF TypeOK
    <3>3. QED
      BY <2>1, <3>1, <3>2 DEF TaskRow, TaskStatus
  <2>3. faults' \in [crashes : Nat, raises : Nat, requeues : Nat]
    BY <1>3 DEF RetryDeadLetter, TypeOK
  <2>4. QED
    BY <1>3, <2>2, <2>3 DEF RetryDeadLetter, TypeOK
<1>4. ASSUME NEW w \in Workers, NEW k \in TaskId, Claim(w, k) PROVE TypeOK'
  <2>1. task' \in [TaskId -> TaskRow]
    BY <1>4 DEF Claim, TypeOK, TaskRow, TaskStatus
  <2>2. /\ pc' \in [Workers -> Steps]
        /\ job' \in [Workers -> TaskId \cup {Nothing}]
        /\ \A v \in Workers : pc'[v] \in HandlerSteps \cup Outcomes <=> job'[v] # Nothing
    BY <1>4, TaskIsSomething DEF Claim, TypeOK, Steps, HandlerSteps
  <2>3. QED
    BY <1>4, <2>1, <2>2 DEF Claim, TypeOK
<1>5. ASSUME NEW w \in Workers, NEW k \in TaskId, Sweep(w, k) PROVE TypeOK'
  <2>1. task' \in [TaskId -> TaskRow]
    BY <1>5 DEF Sweep, TypeOK, TaskRow, TaskStatus
  <2>2. QED
    BY <1>5, <2>1 DEF Sweep, TypeOK
<1>6. ASSUME NEW w \in Workers, ListPayments(w) PROVE TypeOK'
  <2>1. /\ pc' \in [Workers -> Steps]
        /\ \A v \in Workers : pc'[v] \in HandlerSteps \cup Outcomes <=> job'[v] # Nothing
    BY <1>6 DEF ListPayments, TypeOK, Steps, PassSteps, HandlerSteps, Outcomes
  <2>2. pass' \in [Workers -> PassState]
    BY <1>6 DEF ListPayments, TypeOK, PassState
  <2>3. QED
    BY <1>6, <2>1, <2>2 DEF ListPayments, TypeOK
<1>7. ASSUME NEW w \in Workers, Proceed(w) PROVE TypeOK'
  <2>1. ASSUME Load(w) PROVE TypeOK'
    <3>1. AfterLoad(job[w], transfer[job[w][1]]) \in {"send", "poll", "done", "dead"}
      BY DEF AfterLoad
    <3>2. QED
      BY <2>1, <3>1, StepIsTyped
      DEF Load, Goto, TypeOK, HandlerSteps, Outcomes, Steps
  <2>2. ASSUME Accept(w) PROVE TypeOK'
    <3>1. payment' \in [Transfers -> PaymentStatus]
      BY <2>2 DEF Accept, TypeOK, PaymentStatus
    <3>2. QED
      BY <2>2, <3>1, StepIsTyped DEF Accept, Goto, TypeOK, HandlerSteps, Outcomes, Steps
  <2>3. ASSUME Record(w) PROVE TypeOK'
    <3>1. job[w][1] \in Transfers
      BY <2>3, BusyWorkerHasTask DEF Record, HandlerSteps
    <3>2. task' \in [TaskId -> TaskRow]
      BY <2>3, <3>1, EnqueueIsTyped DEF Record
    <3>3. transfer' \in [Transfers -> TransferRow] /\ journals' = journals
      BY <2>3, <3>1 DEF Record, MarkProcessing, TypeOK, TransferRow, TransferStatus
    <3>4. QED
      BY <2>3, <3>2, <3>3, StepIsTyped
      DEF Record, Goto, TypeOK, HandlerSteps, Outcomes, Steps
  <2>4. ASSUME NEW retryable \in BOOLEAN, Refuse(w, retryable) PROVE TypeOK'
    <3>1. job[w][1] \in Transfers
      BY <2>4, BusyWorkerHasTask DEF Refuse, HandlerSteps
    <3>2. transfer' \in [Transfers -> TransferRow] /\ journals' \in [Transfers -> JournalCounts]
      BY <2>4, <3>1, MovedIsTyped, PostedIsTyped
      DEF Refuse, MarkFailed, TypeOK, TransferStatus, books
    <3>3. PICK step \in {"retry", "dead"} : Goto(w, step)
      BY <2>4 DEF Refuse
    <3>4. QED
      BY <2>4, <3>2, <3>3, StepIsTyped
      DEF Refuse, Goto, TypeOK, HandlerSteps, Outcomes, Steps
  <2>5. ASSUME Poll(w) PROVE TypeOK'
    <3>1. job[w][1] \in Transfers
      BY <2>5, BusyWorkerHasTask DEF Poll, HandlerSteps
    <3>2. \/ UNCHANGED <<transfer, journals, task>>
          \/ EnqueueSettle(job[w][1]) /\ UNCHANGED books
          \/ MarkSucceeded(job[w][1]) /\ UNCHANGED task
          \/ MarkFailed(job[w][1]) /\ UNCHANGED task
      BY <2>5, <3>1 DEF Poll, TypeOK, PaymentStatus
    <3>3. /\ transfer' \in [Transfers -> TransferRow]
          /\ journals' \in [Transfers -> JournalCounts]
          /\ task' \in [TaskId -> TaskRow]
      <4>1. CASE UNCHANGED <<transfer, journals, task>>
        BY <4>1 DEF TypeOK
      <4>2. CASE EnqueueSettle(job[w][1]) /\ UNCHANGED books
        BY <3>1, <4>2, EnqueueIsTyped DEF TypeOK, books
      <4>3. CASE MarkSucceeded(job[w][1]) /\ UNCHANGED task
        BY <3>1, <4>3, MovedIsTyped, PostedIsTyped DEF MarkSucceeded, TypeOK, TransferStatus
      <4>4. CASE MarkFailed(job[w][1]) /\ UNCHANGED task
        BY <3>1, <4>4, MovedIsTyped, PostedIsTyped DEF MarkFailed, TypeOK, TransferStatus
      <4>5. QED
        BY <3>2, <4>1, <4>2, <4>3, <4>4
    <3>4. PICK step \in {"done", "dead"} : Goto(w, step)
      BY <2>5, <3>1 DEF Poll, TypeOK, PaymentStatus
    <3>5. QED
      BY <2>5, <3>3, <3>4, StepIsTyped
      DEF Poll, Goto, TypeOK, HandlerSteps, Outcomes, Steps
  <2>6. ASSUME Finish(w) PROVE TypeOK'
    <3>1. job[w] \in TaskId
      BY <2>6, BusyWorkerHasTask DEF Finish
    <3>2. task' \in [TaskId -> TaskRow]
      <4>1. Concluded(job[w]) \in TaskRow
        BY <3>1, FreshRows DEF Concluded, TypeOK, TaskRow, TaskStatus
      <4>2. QED
        BY <2>6, <3>1, <4>1 DEF Finish, TypeOK, TaskRow, TaskStatus
    <3>3. /\ pc' \in [Workers -> Steps]
          /\ job' \in [Workers -> TaskId \cup {Nothing}]
          /\ \A v \in Workers : pc'[v] \in HandlerSteps \cup Outcomes <=> job'[v] # Nothing
      BY <2>6 DEF Finish, TypeOK, Steps, HandlerSteps, Outcomes
    <3>4. QED
      BY <2>6, <3>2, <3>3 DEF Finish, TypeOK
  <2>7. ASSUME ReadTransfers(w) PROVE TypeOK'
    <3>1. /\ pc' \in [Workers -> Steps]
          /\ \A v \in Workers : pc'[v] \in HandlerSteps \cup Outcomes <=> job'[v] # Nothing
      BY <2>7 DEF ReadTransfers, TypeOK, Steps, PassSteps, HandlerSteps, Outcomes
    <3>2. pass' \in [Workers -> PassState]
      <4>1. /\ pass \in [Workers -> PassState] /\ transfer \in [Transfers -> TransferRow]
            /\ pass' = [pass EXCEPT ![w].ours = transfer,
                                    ![w].todo = {t \in Transfers : Unsent(transfer[t])}]
        BY <2>7 DEF ReadTransfers, TypeOK
      <4>2. {t \in Transfers : Unsent(transfer[t])} \subseteq Transfers
        OBVIOUS
      <4>3. QED
        BY <4>1, <4>2 DEF PassState
    <3>3. QED
      BY <2>7, <3>1, <3>2 DEF ReadTransfers, TypeOK
  <2>8. ASSUME NEW t \in Transfers, LookForDeadLetter(w, t) PROVE TypeOK'
    <3>1. pass' \in [Workers -> PassState]
      <4>1. pass \in [Workers -> PassState]
        BY DEF TypeOK
      <4>2. PICK held \in {pass[w].held, pass[w].held \cup {t}} :
                pass' = [pass EXCEPT ![w].todo = @ \ {t}, ![w].held = held]
        BY <2>8, <4>1 DEF LookForDeadLetter
      <4>3. held \subseteq Transfers /\ pass[w].todo \ {t} \subseteq Transfers
        BY <4>1 DEF PassState
      <4>4. QED
        BY <4>1, <4>2, <4>3 DEF PassState
    <3>2. QED
      BY <2>8, <3>1 DEF LookForDeadLetter, TypeOK
  <2>9. ASSUME CommitPass(w) PROVE TypeOK'
    <3> pass[w] \in PassState
      BY DEF TypeOK
    <3>1. transfer' \in [Transfers -> TransferRow]
      <4> SUFFICES ASSUME NEW t \in Transfers PROVE Healed(pass[w], t) \in TransferRow
        BY <2>9 DEF CommitPass
      <4>1. t \in Behind(pass[w]) => pass[w].theirs[t] \in Finished
        BY DEF Behind
      <4>2. transfer[t] \in TransferRow
        BY DEF TypeOK
      <4>3. QED
        BY <4>1, <4>2 DEF Healed, TransferRow, TransferStatus, Finished
    <3>2. journals' \in [Transfers -> JournalCounts]
      <4> SUFFICES ASSUME NEW t \in Transfers PROVE HealedJournals(pass[w], t) \in JournalCounts
        BY <2>9 DEF CommitPass
      <4>1. journals[t] \in JournalCounts
        BY DEF TypeOK
      <4>2. QED
        BY <4>1 DEF HealedJournals, JournalCounts
    <3>3. Reported(pass[w]) \subseteq FindingKind \X Transfers
      <4>1. /\ pass[w].held \subseteq Transfers /\ Behind(pass[w]) \subseteq Transfers
            /\ Contradicted(pass[w]) \subseteq Transfers /\ Missing(pass[w]) \subseteq Transfers
            /\ Compared(pass[w]) \subseteq Transfers /\ Orphans(pass[w]) \subseteq Transfers
        BY DEF PassState, Behind, Contradicted, Missing, Compared, Orphans, Agreeing,
               Referenced, Followed, GivenBack
      <4>2. QED
        BY <4>1 DEF Reported, FindingKind
    <3>4. pass' \in [Workers -> PassState]
      <4>1. NoPass \in PassState
        BY FreshRows DEF NoPass, PassState, PaymentStatus
      <4>2. QED
        BY <2>9, <4>1 DEF CommitPass, TypeOK
    <3>5. /\ pc' \in [Workers -> Steps]
          /\ \A v \in Workers : pc'[v] \in HandlerSteps \cup Outcomes <=> job'[v] # Nothing
      BY <2>9 DEF CommitPass, TypeOK, Steps, HandlerSteps, Outcomes
    <3>6. QED
      BY <2>9, <3>1, <3>2, <3>3, <3>4, <3>5 DEF CommitPass, TypeOK
  <2>10. QED
    BY <1>7, <2>1, <2>2, <2>3, <2>4, <2>5, <2>6, <2>7, <2>8, <2>9 DEF Proceed
<1>8. ASSUME NEW w \in Workers, NEW retryable \in BOOLEAN, PollFails(w, retryable) PROVE TypeOK'
  BY <1>8 DEF PollFails, TypeOK, HandlerSteps, Outcomes, Steps
<1>9. ASSUME NEW w \in Workers, Raise(w) PROVE TypeOK'
  BY <1>9 DEF Raise, TypeOK, HandlerSteps, Outcomes, Steps
<1>10. ASSUME NEW w \in Workers, Crash(w) PROVE TypeOK'
  <2>1. NoPass \in PassState
    BY FreshRows DEF NoPass, PassState, PaymentStatus
  <2>2. QED
    BY <1>10, <2>1 DEF Crash, TypeOK, HandlerSteps, Outcomes, Steps
<1>11. CASE UNCHANGED vars
  BY <1>11 DEF vars, TypeOK
<1>12. QED
  BY <1>1, <1>2, <1>3, <1>4, <1>5, <1>6, <1>7, <1>8, <1>9, <1>10, <1>11 DEF Next

\* In every state the rows, the workers' steps and the pass hold what the code
\* can put in them.
THEOREM TypeCorrect == Spec => []TypeOK
BY TypeInit, TypeStep, PTL DEF Spec

-----------------------------------------------------------------------------
(* The retry budget.                                                           *)

LEMMA EnqueueKeepsBudget ==
    ASSUME TypeOK, RetryBudgetRespected, NEW t \in Transfers, EnqueueSettle(t)
    PROVE  RetryBudgetRespected'
<1>1. PICK i \in FreeSlots(t) : task' = [task EXCEPT ![<<t, i>>] = NewTask]
  BY DEF EnqueueSettle
<1>2. NewTask.attempts = 0 /\ NewTask.max \in Nat \ {0} /\ NewTask.status = "pending"
  BY ConstantsAssumption DEF NewTask
<1>3. ASSUME NEW k \in TaskId
      PROVE  task'[k].attempts <= task'[k].max
             /\ (task'[k].status = "pending" => task'[k].attempts < task'[k].max)
  BY <1>1, <1>2 DEF RetryBudgetRespected, TypeOK, TaskRow
<1>4. QED
  BY <1>3 DEF RetryBudgetRespected

LEMMA BudgetStep == TypeOK /\ RetryBudgetRespected /\ [Next]_vars => RetryBudgetRespected'
<1> SUFFICES ASSUME TypeOK, RetryBudgetRespected, [Next]_vars PROVE RetryBudgetRespected'
  OBVIOUS
<1> DEFINE Within(row) == /\ row.attempts <= row.max
                          /\ row.status = "pending" => row.attempts < row.max
<1>1. \A k \in TaskId : task[k] \in TaskRow /\ Within(task[k])
  BY DEF TypeOK, RetryBudgetRespected
<1>2. Within(NewTask) /\ Within(NoTask)
  BY ConstantsAssumption DEF NewTask, NoTask
<1>3. SUFFICES (\A k \in TaskId : Within(task'[k])) \/ UNCHANGED task \/ RetryBudgetRespected'
  BY DEF RetryBudgetRespected
<1>4. ASSUME NEW t \in Transfers, Authorize(t) PROVE \A k \in TaskId : Within(task'[k])
  BY <1>1, <1>2, <1>4, SlotIsTask, ConstantsAssumption DEF Authorize, TypeOK
<1>5. ASSUME NEW k \in TaskId, RetryDeadLetter(k) PROVE \A j \in TaskId : Within(task'[j])
  <2>1. ExtraAttempts \in Nat \ {0}
    BY ConstantsAssumption
  <2>2. QED
    BY <1>1, <1>5, <2>1 DEF RetryDeadLetter, TypeOK, TaskRow
<1>6. ASSUME NEW w \in Workers, NEW k \in TaskId, Claim(w, k)
      PROVE  \A j \in TaskId : Within(task'[j])
  BY <1>1, <1>6 DEF Claim, TypeOK, TaskRow
<1>7. ASSUME NEW w \in Workers, NEW k \in TaskId, Sweep(w, k)
      PROVE  \A j \in TaskId : Within(task'[j])
  BY <1>1, <1>7 DEF Sweep, TypeOK, TaskRow, BudgetSpent
<1>8. ASSUME NEW w \in Workers, Finish(w) PROVE \A j \in TaskId : Within(task'[j])
  <2>1. job[w] \in TaskId
    BY <1>8, BusyWorkerHasTask DEF Finish
  <2>2. Within(Concluded(job[w]))
    BY <1>1, <1>2, <2>1 DEF Concluded, TaskRow
  <2>3. QED
    BY <1>1, <1>8, <2>1, <2>2 DEF Finish, TypeOK, TaskRow, BudgetSpent
<1>9. ASSUME NEW w \in Workers, Record(w) PROVE RetryBudgetRespected'
  BY <1>9, EnqueueKeepsBudget, BusyWorkerHasTask DEF Record, HandlerSteps
<1>10. ASSUME NEW w \in Workers, Poll(w) PROVE UNCHANGED task \/ RetryBudgetRespected'
  <2>1. job[w][1] \in Transfers
    BY <1>10, BusyWorkerHasTask DEF Poll, HandlerSteps
  <2>2. EnqueueSettle(job[w][1]) \/ UNCHANGED task
    BY <1>10, <2>1 DEF Poll, TypeOK, PaymentStatus
  <2>3. QED
    BY <2>1, <2>2, EnqueueKeepsBudget
<1>11. QED
  BY <1>4, <1>5, <1>6, <1>7, <1>8, <1>9, <1>10
  DEF Next, Proceed, vars, Load, Accept, Refuse, ReadTransfers, LookForDeadLetter, CommitPass,
      Advance, ListPayments, PollFails, Raise, Crash

\* No task runs more often than its budget, however claims, retries, sweeps and
\* dead-letter retries interleave.
THEOREM BudgetIsRespected == Spec => []RetryBudgetRespected
<1>1. Init => RetryBudgetRespected
  BY DEF Init, RetryBudgetRespected, NoTask
<1>2. QED
  BY <1>1, BudgetStep, TypeCorrect, PTL DEF Spec

-----------------------------------------------------------------------------
(* What a step does to the pass a worker runs, however many others there are.  *)

PassKept(v) ==
    /\ pass'[v] = pass[v]
    /\ pc'[v] = pc[v] \/ (pc[v] \notin PassSteps /\ pc'[v] \notin PassSteps)
PassListed(v) ==
    /\ pass'[v] = [pass[v] EXCEPT !.theirs = payment]
    /\ pc'[v] = "listed" /\ pc[v] = "idle"
    /\ UNCHANGED <<transfer, payment, task, job, findings>>
PassRead(v) ==
    /\ pass'[v] = [pass[v] EXCEPT !.ours = transfer,
                                  !.todo = {t \in Transfers : Unsent(transfer[t])}]
    /\ pc'[v] = "compare" /\ pc[v] = "listed"
    /\ UNCHANGED <<transfer, payment, task, job, findings>>
PassLooked(v, t) ==
    /\ t \in pass[v].todo
    /\ pass'[v] = [pass[v] EXCEPT !.todo = @ \ {t},
                                  !.held = IF task[<<t, 0>>].status = "failed"
                                           THEN @ \cup {t} ELSE @]
    /\ pc'[v] = "compare" /\ pc[v] = "compare"
    /\ UNCHANGED <<transfer, payment, task, job, findings>>
PassEnded(v) == pass'[v] = NoPass /\ pc'[v] = "idle"

PassMoved(v) == \/ PassKept(v)
                \/ PassListed(v)
                \/ PassRead(v)
                \/ \E t \in Transfers : PassLooked(v, t)
                \/ PassEnded(v)

LEMMA PassMoves ==
    ASSUME TypeOK, [Next]_vars, NEW v \in Workers
    PROVE  PassMoved(v)
<1>1. /\ {"idle"} \cup HandlerSteps \cup Outcomes \subseteq Steps \ PassSteps
      /\ HandlerSteps = {"claimed", "send", "sent", "poll"}
      /\ Outcomes = {"done", "dead", "retry"} /\ PassSteps = {"listed", "compare"}
  BY DEF Steps, HandlerSteps, Outcomes, PassSteps
<1>2. ASSUME NEW w \in Workers, NEW step \in Steps \ PassSteps, pc[w] \notin PassSteps,
             pc' = [pc EXCEPT ![w] = step], UNCHANGED pass
      PROVE  PassKept(v)
  BY <1>2 DEF PassKept, TypeOK
<1>3. ASSUME NEW w \in Workers, NEW step, NEW p, v # w,
             pc' = [pc EXCEPT ![w] = step], pass' = [pass EXCEPT ![w] = p]
      PROVE  PassKept(v)
  BY <1>3 DEF PassKept, TypeOK
<1>4. ASSUME NEW w \in Workers, ListPayments(w) PROVE PassMoved(v)
  <2>1. CASE v = w
    BY <1>4, <2>1 DEF ListPayments, PassListed, PassMoved, TypeOK
  <2>2. CASE v # w
    BY <1>4, <2>2 DEF ListPayments, PassKept, PassMoved, TypeOK
  <2>3. QED
    BY <2>1, <2>2
<1>5. ASSUME NEW w \in Workers, ReadTransfers(w) PROVE PassMoved(v)
  <2>1. CASE v = w
    BY <1>5, <2>1 DEF ReadTransfers, PassRead, PassMoved, TypeOK, PassState
  <2>2. CASE v # w
    BY <1>5, <2>2 DEF ReadTransfers, PassKept, PassMoved, TypeOK
  <2>3. QED
    BY <2>1, <2>2
<1>6. ASSUME NEW w \in Workers, NEW t \in Transfers, LookForDeadLetter(w, t) PROVE PassMoved(v)
  <2>1. CASE v = w
    <3>1. PassLooked(v, t)
      BY <1>6, <2>1 DEF LookForDeadLetter, PassLooked, TypeOK, PassState
    <3>2. QED
      BY <3>1 DEF PassMoved
  <2>2. CASE v # w
    BY <1>6, <2>2 DEF LookForDeadLetter, PassKept, PassMoved, TypeOK
  <2>3. QED
    BY <2>1, <2>2
<1>7. ASSUME NEW w \in Workers, CommitPass(w) \/ Crash(w) PROVE PassMoved(v)
  <2>1. pc' = [pc EXCEPT ![w] = "idle"] /\ pass' = [pass EXCEPT ![w] = NoPass]
    BY <1>7 DEF CommitPass, Crash
  <2>2. CASE v = w
    BY <2>1, <2>2 DEF PassEnded, PassMoved, TypeOK
  <2>3. CASE v # w
    BY <1>3, <2>1, <2>3 DEF PassMoved
  <2>4. QED
    BY <2>2, <2>3
<1>8. ASSUME NEW w \in Workers, Load(w) PROVE PassKept(v)
  <2>1. AfterLoad(job[w], transfer[job[w][1]]) \in {"send", "poll", "done", "dead"}
    BY DEF AfterLoad
  <2>2. QED
    BY <1>1, <1>2, <1>8, <2>1 DEF Load, Goto
<1>9. ASSUME NEW w \in Workers, Poll(w) PROVE PassKept(v)
  <2>1. pc[w] = "poll" /\ (Goto(w, "dead") \/ Goto(w, "done"))
    BY <1>9, BusyWorkerHasTask DEF Poll, HandlerSteps, TypeOK, PaymentStatus
  <2>2. QED
    BY <1>1, <1>2, <2>1 DEF Goto
<1>10. ASSUME NEW w \in Workers, NEW retryable \in BOOLEAN,
              \/ \E k \in TaskId : Claim(w, k)
              \/ Accept(w) \/ Record(w) \/ Refuse(w, retryable) \/ Finish(w)
              \/ PollFails(w, retryable) \/ Raise(w)
       PROVE  PassKept(v)
  BY <1>1, <1>2, <1>10 DEF Claim, Accept, Record, Refuse, Finish, PollFails, Raise, Goto
<1>11. ASSUME UNCHANGED <<pc, pass>> PROVE PassKept(v)
  BY <1>11 DEF PassKept
<1>12. QED
  <2>1. PassKept(v) => PassMoved(v)
    BY DEF PassMoved
  <2>2. QED
    BY <1>4, <1>5, <1>6, <1>7, <1>8, <1>9, <1>10, <1>11, <2>1
    DEF Next, Proceed, vars, Authorize, Advance, RetryDeadLetter, Sweep

\* A listing is made of the payments there are, kept, or dropped with its pass.
LEMMA ListingsAre ==
    ASSUME TypeOK, [Next]_vars, NEW v \in Workers
    PROVE  \/ pass'[v].theirs = payment /\ pc'[v] = "listed" /\ UNCHANGED payment
           \/ pass'[v].theirs = pass[v].theirs /\ (pc'[v] \in PassSteps => pc[v] \in PassSteps)
           \/ pass'[v] = NoPass /\ pc'[v] = "idle"
<1>1. pass[v] \in PassState
  BY DEF TypeOK
<1>2. CASE PassKept(v)
  BY <1>2 DEF PassKept
<1>3. CASE PassListed(v)
  BY <1>1, <1>3 DEF PassListed, PassState
<1>4. CASE PassRead(v) \/ \E t \in Transfers : PassLooked(v, t)
  BY <1>1, <1>4 DEF PassRead, PassLooked, PassState, PassSteps
<1>5. CASE PassEnded(v)
  BY <1>5 DEF PassEnded
<1>6. QED
  BY <1>2, <1>3, <1>4, <1>5, PassMoves DEF PassMoved

-----------------------------------------------------------------------------
(* No payment of ours is taken for a stranger's.  A payment exists only for a  *)
(* transfer that existed before it, so whatever the pass listed it finds among *)
(* the transfers it reads afterwards.                                          *)

Exists(t) == transfer[t].status # "none"

EveryTaskHasTransfer ==
    /\ \A k \in TaskId : task[k].status # "none" => Exists(k[1])
    /\ \A w \in Workers : job[w] # Nothing => Exists(job[w][1])

EveryPaymentHasTransfer ==
    \A t \in Transfers :
        /\ payment[t] # "none" => Exists(t)
        /\ \A w \in Workers : pass[w].theirs[t] # "none" => Exists(t)

ListedIsRead ==
    \A w \in Workers, t \in Transfers :
        pc[w] = "compare" /\ pass[w].theirs[t] # "none" => pass[w].ours[t].status # "none"

OrphanInv == /\ EveryTaskHasTransfer
             /\ EveryPaymentHasTransfer
             /\ ListedIsRead
             /\ NoFalseOrphan

\* A transfer never stops existing.
LEMMA TransfersStay ==
    ASSUME TypeOK, [Next]_vars, NEW t \in Transfers, Exists(t)
    PROVE  Exists(t)'
<1>1. ASSUME NEW u \in Transfers, NEW s \in TransferStatus \ {"none"}, transfer' = Moved(u, s)
      PROVE  Exists(t)'
  BY <1>1 DEF Exists, Moved, TypeOK, TransferRow
<1>2. ASSUME NEW w \in Workers, Record(w) PROVE Exists(t)'
  <2>1. job[w][1] \in Transfers
    BY <1>2, BusyWorkerHasTask DEF Record, HandlerSteps
  <2>2. QED
    BY <1>2, <2>1 DEF Record, MarkProcessing, Exists, TypeOK
<1>3. ASSUME NEW w \in Workers, CommitPass(w) PROVE Exists(t)'
  <2>1. Healed(pass[w], t).status # "none"
    <3>1. t \in Behind(pass[w]) => pass[w].theirs[t] # "none"
      BY DEF Behind, Finished
    <3>2. QED
      BY <3>1 DEF Healed, Exists, TypeOK, TransferRow
  <2>2. QED
    BY <1>3, <2>1 DEF CommitPass, Exists
<1>4. ASSUME NEW w \in Workers, NEW retryable \in BOOLEAN, Refuse(w, retryable) PROVE Exists(t)'
  <2>1. job[w][1] \in Transfers
    BY <1>4, BusyWorkerHasTask DEF Refuse, HandlerSteps
  <2>2. UNCHANGED transfer \/ transfer' = Moved(job[w][1], "failed")
    BY <1>4 DEF Refuse, MarkFailed, books
  <2>3. QED
    BY <1>1, <2>1, <2>2 DEF Exists, TransferStatus
<1>5. ASSUME NEW w \in Workers, Poll(w) PROVE Exists(t)'
  <2>1. job[w][1] \in Transfers
    BY <1>5, BusyWorkerHasTask DEF Poll, HandlerSteps
  <2>2. \/ UNCHANGED transfer
        \/ transfer' = Moved(job[w][1], "failed")
        \/ transfer' = Moved(job[w][1], "succeeded")
    BY <1>5, <2>1 DEF Poll, MarkFailed, MarkSucceeded, books, TypeOK, PaymentStatus
  <2>3. QED
    BY <1>1, <2>1, <2>2 DEF Exists, TransferStatus
<1>6. ASSUME NEW u \in Transfers, Authorize(u) PROVE Exists(t)'
  BY <1>1, <1>6 DEF Authorize, TransferStatus
<1>7. QED
  BY <1>2, <1>3, <1>4, <1>5, <1>6
  DEF Next, Proceed, vars, Exists, Load, Accept, Finish, ReadTransfers, LookForDeadLetter,
      Advance, RetryDeadLetter, Claim, Sweep, ListPayments, PollFails, Raise, Crash

\* A pass that has read both sides finds no orphan among the payments of ours.
LEMMA NothingIsOrphan ==
    ASSUME TypeOK, OrphanInv, NEW w \in Workers, CommitPass(w)
    PROVE  Orphans(pass[w]) = {}
<1>1. SUFFICES ASSUME NEW t \in Transfers, pass[w].theirs[t] # "none" PROVE t \in Matched(pass[w])
  BY DEF Orphans
<1>2. pass[w].ours[t].status # "none"
  BY <1>1 DEF CommitPass, OrphanInv, ListedIsRead
<1>3. CASE pass[w].ours[t].ref
  BY <1>1, <1>3 DEF Matched, Compared, Missing, Referenced
<1>4. CASE ~pass[w].ours[t].ref
  BY <1>1, <1>2, <1>4 DEF Matched
<1>5. QED
  BY <1>3, <1>4

LEMMA OrphanStep == TypeOK /\ OrphanInv /\ [Next]_vars => OrphanInv'
<1> SUFFICES ASSUME TypeOK, OrphanInv, [Next]_vars PROVE OrphanInv'
  OBVIOUS
<1>1. \A t \in Transfers : Exists(t) => Exists(t)'
  BY TransfersStay
<1>2. EveryTaskHasTransfer'
  <2>1. ASSUME NEW t \in Transfers, EnqueueSettle(t), Exists(t), UNCHANGED job
        PROVE  EveryTaskHasTransfer'
    <3>1. PICK i \in FreeSlots(t) : task' = [task EXCEPT ![<<t, i>>] = NewTask]
      BY <2>1 DEF EnqueueSettle
    <3>2. \A k \in TaskId : k = <<t, i>> \/ task'[k] = task[k]
      BY <3>1 DEF TypeOK
    <3>3. QED
      BY <1>1, <2>1, <3>2, TaskNamesTransfer DEF OrphanInv, EveryTaskHasTransfer, TypeOK
  <2>2. ASSUME UNCHANGED task, job' = job \/ \E w \in Workers : job' = [job EXCEPT ![w] = Nothing]
        PROVE  EveryTaskHasTransfer'
    BY <1>1, <2>2, TaskNamesTransfer DEF OrphanInv, EveryTaskHasTransfer, TypeOK
  <2>3. ASSUME NEW t \in Transfers, Authorize(t) PROVE EveryTaskHasTransfer'
    <3>1. Exists(t)'
      BY <2>3 DEF Authorize, Moved, Exists, TypeOK, TransferRow
    <3>2. \A k \in TaskId : k = <<t, 0>> \/ task'[k] = task[k]
      BY <2>3 DEF Authorize, TypeOK
    <3>3. UNCHANGED job
      BY <2>3 DEF Authorize
    <3>4. QED
      BY <1>1, <3>1, <3>2, <3>3, TaskNamesTransfer DEF OrphanInv, EveryTaskHasTransfer, TypeOK
  <2>4. ASSUME NEW k \in TaskId, task[k].status # "none",
               \A j \in TaskId : j = k \/ task'[j] = task[j],
               \A w \in Workers : job'[w] \in {job[w], k, Nothing}
        PROVE  EveryTaskHasTransfer'
    BY <1>1, <2>4, TaskNamesTransfer DEF OrphanInv, EveryTaskHasTransfer, TypeOK
  <2>5. ASSUME NEW k \in TaskId, RetryDeadLetter(k) PROVE EveryTaskHasTransfer'
    BY <2>4, <2>5 DEF RetryDeadLetter, TypeOK
  <2>6. ASSUME NEW w \in Workers, NEW k \in TaskId, Claim(w, k) \/ Sweep(w, k)
        PROVE  EveryTaskHasTransfer'
    BY <2>4, <2>6 DEF Claim, Sweep, TypeOK
  <2>7. ASSUME NEW w \in Workers, Finish(w) PROVE EveryTaskHasTransfer'
    <3>1. job[w] \in TaskId /\ job[w] # Nothing
      BY <2>7, BusyWorkerHasTask, TaskIsSomething DEF Finish
    <3>2. Exists(job[w][1])
      BY <3>1 DEF OrphanInv, EveryTaskHasTransfer
    <3>3. \A j \in TaskId : j = job[w] \/ task'[j] = task[j]
      BY <2>7, <3>1 DEF Finish, TypeOK
    <3>4. \A v \in Workers : job'[v] \in {job[v], Nothing}
      BY <2>7 DEF Finish, TypeOK
    <3>5. QED
      BY <1>1, <3>1, <3>2, <3>3, <3>4, TaskNamesTransfer
      DEF OrphanInv, EveryTaskHasTransfer, TypeOK
  <2>8. ASSUME NEW w \in Workers, Record(w) \/ Poll(w) PROVE EveryTaskHasTransfer'
    <3>1. pc[w] \in HandlerSteps /\ job[w] \in TaskId /\ job[w][1] \in Transfers
      BY <2>8, BusyWorkerHasTask DEF Record, Poll, HandlerSteps
    <3>2. Exists(job[w][1])
      BY <3>1, TaskIsSomething DEF OrphanInv, EveryTaskHasTransfer
    <3>3. EnqueueSettle(job[w][1]) \/ UNCHANGED task
      BY <2>8, <3>1 DEF Record, Poll, TypeOK, PaymentStatus
    <3>4. UNCHANGED job
      BY <2>8, <3>1 DEF Record, Poll, Goto, TypeOK, PaymentStatus
    <3>5. QED
      BY <2>1, <2>2, <3>1, <3>2, <3>3, <3>4
  <2>9. QED
    BY <2>2, <2>3, <2>5, <2>6, <2>7, <2>8
    DEF Next, Proceed, vars, Load, Goto, Accept, Refuse, ReadTransfers, LookForDeadLetter,
        CommitPass, Advance, ListPayments, PollFails, Raise, Crash
<1>3. EveryPaymentHasTransfer'
  <2>1. ASSUME NEW t \in Transfers, payment'[t] # "none" PROVE Exists(t)'
    <3>1. ASSUME NEW w \in Workers, Accept(w) PROVE Exists(t)'
      <4>1. job[w] # Nothing /\ job[w][1] \in Transfers
        BY <3>1, BusyWorkerHasTask, TaskIsSomething DEF Accept, HandlerSteps
      <4>2. Exists(job[w][1])
        BY <4>1 DEF OrphanInv, EveryTaskHasTransfer
      <4>3. t = job[w][1] \/ payment'[t] = payment[t]
        BY <3>1 DEF Accept, TypeOK
      <4>4. QED
        BY <1>1, <2>1, <4>2, <4>3 DEF OrphanInv, EveryPaymentHasTransfer
    <3>2. ASSUME NEW u \in Transfers, NEW outcome \in Finished, Advance(u, outcome)
          PROVE  Exists(t)'
      BY <1>1, <2>1, <3>2 DEF Advance, OrphanInv, EveryPaymentHasTransfer, TypeOK
    <3>3. ASSUME NEW w \in Workers, Poll(w) PROVE UNCHANGED payment
      BY <3>3 DEF Poll
    <3>4. ASSUME UNCHANGED payment PROVE Exists(t)'
      BY <1>1, <2>1, <3>4 DEF OrphanInv, EveryPaymentHasTransfer
    <3>5. QED
      BY <3>1, <3>2, <3>3, <3>4
      DEF Next, Proceed, vars, Load, Record, Refuse, Finish, ReadTransfers, LookForDeadLetter,
          CommitPass, Authorize, RetryDeadLetter, Claim, Sweep, ListPayments, PollFails, Raise,
          Crash
  <2>2. ASSUME NEW t \in Transfers, NEW w \in Workers, pass'[w].theirs[t] # "none"
        PROVE  Exists(t)'
    BY <1>1, <2>2, ListingsAre DEF NoPass, OrphanInv, EveryPaymentHasTransfer
  <2>3. QED
    BY <2>1, <2>2 DEF EveryPaymentHasTransfer
<1>4. ListedIsRead'
  <2> SUFFICES ASSUME NEW w \in Workers, NEW t \in Transfers, pc'[w] = "compare",
                      pass'[w].theirs[t] # "none"
               PROVE  pass'[w].ours[t].status # "none"
    BY DEF ListedIsRead
  <2>1. pass[w] \in PassState
    BY DEF TypeOK
  <2>2. CASE PassKept(w)
    BY <2>2 DEF PassKept, PassSteps, OrphanInv, ListedIsRead
  <2>3. CASE PassRead(w)
    BY <2>1, <2>3 DEF PassRead, PassState, OrphanInv, EveryPaymentHasTransfer, Exists
  <2>4. CASE \E u \in Transfers : PassLooked(w, u)
    BY <2>1, <2>4 DEF PassLooked, PassState, OrphanInv, ListedIsRead
  <2>5. CASE PassListed(w) \/ PassEnded(w)
    BY <2>5 DEF PassListed, PassEnded
  <2>6. QED
    BY <2>2, <2>3, <2>4, <2>5, PassMoves DEF PassMoved
<1>5. NoFalseOrphan'
  <2>1. ASSUME NEW w \in Workers, CommitPass(w) PROVE NoFalseOrphan'
    <3>1. \A t \in Transfers : <<"unknown_to_us", t>> \notin Reported(pass[w])
      BY <2>1, NothingIsOrphan DEF Reported
    <3>2. QED
      BY <2>1, <3>1 DEF CommitPass, OrphanInv, NoFalseOrphan
  <2>2. ASSUME NEW w \in Workers, Poll(w) PROVE UNCHANGED findings
    BY <2>2, BusyWorkerHasTask DEF Poll, Goto, HandlerSteps, TypeOK, PaymentStatus
  <2>3. ASSUME UNCHANGED findings PROVE NoFalseOrphan'
    BY <2>3 DEF OrphanInv, NoFalseOrphan
  <2>4. QED
    BY <2>1, <2>2, <2>3
    DEF Next, Proceed, vars, Load, Goto, Accept, Record, Refuse, Finish, ReadTransfers,
        LookForDeadLetter, Authorize, Advance, RetryDeadLetter, Claim, Sweep, ListPayments,
        PollFails, Raise, Crash
<1>6. QED
  BY <1>2, <1>3, <1>4, <1>5 DEF OrphanInv

LEMMA OrphanInit == Init => OrphanInv
<1>1. ASSUME Init PROVE EveryTaskHasTransfer /\ EveryPaymentHasTransfer
  BY <1>1 DEF Init, NoTask, NoPass, EveryTaskHasTransfer, EveryPaymentHasTransfer
<1>2. ASSUME Init PROVE ListedIsRead /\ NoFalseOrphan
  BY <1>2 DEF Init, ListedIsRead, NoFalseOrphan
<1>3. QED
  BY <1>1, <1>2 DEF OrphanInv

\* However many workers run and whatever they do while a pass is under way, it
\* never reports a payment of ours as unknown to us.
THEOREM OrphansAreStrangers == Spec => []NoFalseOrphan
<1>1. OrphanInv => NoFalseOrphan
  BY DEF OrphanInv
<1>2. QED
  BY <1>1, OrphanInit, OrphanStep, TypeCorrect, PTL DEF Spec

-----------------------------------------------------------------------------
(* A transfer is shown as paid only when the provider paid it: it never takes  *)
(* that back, so neither an old answer nor an old listing can mislead.         *)

PaidInv ==
    /\ PaidMeansPaid
    /\ \A w \in Workers, t \in Transfers :
          pass[w].theirs[t] = "succeeded" => payment[t] = "succeeded"

LEMMA PaidStep == TypeOK /\ PaidInv /\ [Next]_vars => PaidInv'
<1> SUFFICES ASSUME TypeOK, PaidInv, [Next]_vars PROVE PaidInv'
  OBVIOUS
<1>1. \A t \in Transfers : payment[t] = "succeeded" => payment'[t] = "succeeded"
  <2>1. ASSUME NEW w \in Workers, Poll(w) PROVE UNCHANGED payment
    BY <2>1 DEF Poll
  <2>2. QED
    BY <2>1
    DEF Next, Proceed, vars, TypeOK, Load, Accept, Record, Refuse, Finish, ReadTransfers,
        LookForDeadLetter, CommitPass, Authorize, Advance, RetryDeadLetter, Claim, Sweep,
        ListPayments, PollFails, Raise, Crash
<1>2. \A w \in Workers, t \in Transfers :
          pass'[w].theirs[t] \in {pass[w].theirs[t], payment[t], "none"}
  BY ListingsAre DEF NoPass
<1>3. ASSUME NEW t \in Transfers, transfer'[t].status = "succeeded"
      PROVE  transfer[t].status = "succeeded" \/ payment[t] = "succeeded"
  <2> DEFINE WasPaid == transfer[t].status = "succeeded" \/ payment[t] = "succeeded"
  <2>1. ASSUME NEW w \in Workers, Poll(w) PROVE WasPaid
    <3>1. job[w][1] \in Transfers
      BY <2>1, BusyWorkerHasTask DEF Poll, HandlerSteps
    <3>2. \/ UNCHANGED transfer
          \/ transfer' = Moved(job[w][1], "failed")
          \/ transfer' = Moved(job[w][1], "succeeded") /\ payment[job[w][1]] = "succeeded"
      BY <2>1, <3>1 DEF Poll, MarkFailed, MarkSucceeded, books, TypeOK, PaymentStatus
    <3>3. QED
      BY <1>3, <3>1, <3>2 DEF Moved, TypeOK, TransferRow
  <2>2. ASSUME NEW w \in Workers, CommitPass(w) PROVE WasPaid
    <3>1. transfer'[t] = Healed(pass[w], t)
      BY <2>2 DEF CommitPass
    <3>2. t \in Behind(pass[w]) => pass[w].theirs[t] \in {"succeeded", "failed"}
      BY DEF Behind, Finished
    <3>3. QED
      BY <1>3, <3>1, <3>2 DEF Healed, PaidInv, TypeOK, TransferRow
  <2>3. ASSUME NEW w \in Workers, NEW retryable \in BOOLEAN, Refuse(w, retryable) PROVE WasPaid
    <3>1. job[w][1] \in Transfers
      BY <2>3, BusyWorkerHasTask DEF Refuse, HandlerSteps
    <3>2. UNCHANGED transfer \/ transfer' = Moved(job[w][1], "failed")
      BY <2>3 DEF Refuse, MarkFailed, books
    <3>3. QED
      BY <1>3, <3>1, <3>2 DEF Moved, TypeOK, TransferRow
  <2>4. ASSUME NEW w \in Workers, Record(w) PROVE WasPaid
    BY <1>3, <2>4, BusyWorkerHasTask DEF Record, MarkProcessing, HandlerSteps, TypeOK
  <2>5. ASSUME NEW u \in Transfers, Authorize(u) PROVE WasPaid
    BY <1>3, <2>5 DEF Authorize, Moved, TypeOK, TransferRow
  <2>6. ASSUME UNCHANGED transfer PROVE WasPaid
    BY <1>3, <2>6
  <2> HIDE DEF WasPaid
  <2>7. WasPaid
    BY <2>1, <2>2, <2>3, <2>4, <2>5, <2>6
    DEF Next, Proceed, vars, Load, Accept, Finish, ReadTransfers, LookForDeadLetter, Advance,
        RetryDeadLetter, Claim, Sweep, ListPayments, PollFails, Raise, Crash
  <2>8. QED
    BY <2>7 DEF WasPaid
<1>4. QED
  BY <1>1, <1>2, <1>3 DEF PaidInv, PaidMeansPaid

\* Any number of workers: no transfer is shown as paid that the provider did not
\* pay.
THEOREM PaidIsPaid == Spec => []PaidMeansPaid
<1>1. Init => PaidInv
  BY DEF Init, PaidInv, PaidMeansPaid, NoTransfer, NoPass
<1>2. PaidInv => PaidMeansPaid
  BY DEF PaidInv
<1>3. QED
  BY <1>1, <1>2, PaidStep, TypeCorrect, PTL DEF Spec

-----------------------------------------------------------------------------
(* With one worker (docker-compose.yml) the books always match, and the whole  *)
(* system implements the lifecycle.  What a handler or a pass read is then     *)
(* still true when it commits: only the API moves anything meanwhile, and it   *)
(* only creates transfers.                                                     *)

OneWorker == \A v, w \in Workers : v = w

HandlersAreFresh ==
    \A w \in Workers :
        /\ pc[w] \in {"send", "sent"} => transfer[job[w][1]].status = "pending"
        /\ pc[w] = "poll" => transfer[job[w][1]].status = "processing"

PassIsFresh ==
    \A w \in Workers, t \in Transfers :
        pc[w] = "compare" /\ pass[w].ours[t].status # "none" => pass[w].ours[t] = transfer[t]

HeldArePending ==
    \A w \in Workers :
        /\ \A t \in pass[w].held \cup pass[w].todo : Unsent(pass[w].ours[t])
        /\ pc[w] # "compare" => pass[w].held = {} /\ pass[w].todo = {}

ReferencedWasSent ==
    \A t \in Transfers : transfer[t].ref => transfer[t].status \notin {"none", "pending"}

BooksInv == /\ BooksMatchStatus
            /\ HandlersAreFresh
            /\ PassIsFresh
            /\ HeldArePending
            /\ ReferencedWasSent

\* One transfer's part of a lifecycle step.
Promised(t) == \/ Promise!Kept(t)
               \/ Promise!Authorized(t)
               \/ Promise!HandedOver(t)
               \/ Promise!Paid(t)
               \/ Promise!Reversed(t)

\* What each way of writing the books is in the lifecycle.
LEMMA KeepIsPromised ==
    ASSUME UNCHANGED books, NEW t \in Transfers
    PROVE  Promised(t)
BY DEF Promised, Promise!Kept, books

LEMMA FailIsPromised ==
    ASSUME TypeOK, NEW u \in Transfers, MarkFailed(u),
           transfer[u].status \in {"pending", "processing"}, NEW t \in Transfers
    PROVE  Promised(t)
<1>1. CASE t = u
  <2>1. transfer'[t].status = "failed"
    BY <1>1 DEF MarkFailed, Moved, TypeOK, TransferRow
  <2>2. journals'[t] = [journals[t] EXCEPT !.reversed = @ + 1]
    BY <1>1 DEF MarkFailed, Posted, TypeOK, JournalCounts
  <2>3. QED
    BY <1>1, <2>1, <2>2 DEF Promised, Promise!Reversed
<1>2. CASE t # u
  BY <1>2 DEF MarkFailed, Moved, Posted, TypeOK, Promised, Promise!Kept
<1>3. QED
  BY <1>1, <1>2

LEMMA SucceedIsPromised ==
    ASSUME TypeOK, NEW u \in Transfers, MarkSucceeded(u),
           transfer[u].status \in {"pending", "processing"}, NEW t \in Transfers
    PROVE  Promised(t)
<1>1. CASE t = u
  <2>1. transfer'[t].status = "succeeded"
    BY <1>1 DEF MarkSucceeded, Moved, TypeOK, TransferRow
  <2>2. journals'[t] = [journals[t] EXCEPT !.settled = @ + 1]
    BY <1>1 DEF MarkSucceeded, Posted, TypeOK, JournalCounts
  <2>3. QED
    BY <1>1, <2>1, <2>2 DEF Promised, Promise!Paid
<1>2. CASE t # u
  BY <1>2 DEF MarkSucceeded, Moved, Posted, TypeOK, Promised, Promise!Kept
<1>3. QED
  BY <1>1, <1>2

LEMMA AuthorizeIsPromised ==
    ASSUME TypeOK, NEW u \in Transfers, Authorize(u), NEW t \in Transfers
    PROVE  Promised(t)
<1>1. CASE t = u
  <2>1. transfer'[t].status = "pending" /\ transfer[t].status = "none"
    BY <1>1 DEF Authorize, Moved, TypeOK, TransferRow
  <2>2. journals'[t] = [journals[t] EXCEPT !.authorized = @ + 1]
    BY <1>1 DEF Authorize, Posted, TypeOK, JournalCounts
  <2>3. QED
    BY <1>1, <2>1, <2>2 DEF Promised, Promise!Authorized
<1>2. CASE t # u
  BY <1>2 DEF Authorize, Moved, Posted, TypeOK, Promised, Promise!Kept
<1>3. QED
  BY <1>1, <1>2

LEMMA ProcessIsPromised ==
    ASSUME TypeOK, NEW u \in Transfers, MarkProcessing(u),
           transfer[u].status = "pending", NEW t \in Transfers
    PROVE  Promised(t)
<1>1. CASE t = u
  BY <1>1 DEF MarkProcessing, TypeOK, Promised, Promise!HandedOver
<1>2. CASE t # u
  BY <1>2 DEF MarkProcessing, TypeOK, Promised, Promise!Kept
<1>3. QED
  BY <1>1, <1>2

\* A pass that is up to date moves every transfer as the lifecycle allows.
LEMMA CommitIsPromised ==
    ASSUME TypeOK, BooksInv, NEW w \in Workers, CommitPass(w), NEW t \in Transfers
    PROVE  Promised(t)
<1>1. transfer'[t] = Healed(pass[w], t) /\ journals'[t] = HealedJournals(pass[w], t)
  BY DEF CommitPass
<1>2. journals[t] \in JournalCounts /\ transfer[t] \in TransferRow
  BY DEF TypeOK
<1>3. pass[w].ours[t].status # "none" => pass[w].ours[t] = transfer[t]
  BY DEF CommitPass, BooksInv, PassIsFresh
<1>4. t \in pass[w].held => pass[w].ours[t].status = "pending" /\ ~pass[w].ours[t].ref
  BY DEF BooksInv, HeldArePending, Unsent
<1>5. CASE t \in GivenBack(pass[w])
  <2>1. t \in pass[w].held /\ t \notin Behind(pass[w])
    BY <1>4, <1>5
    DEF GivenBack, Behind, Agreeing, Compared, Referenced, Missing, Followed
  <2>2. transfer[t].status = "pending"
    BY <1>3, <1>4, <2>1
  <2>3. transfer'[t].status = "failed"
    <3>1. t \notin Followed(pass[w]) \ Behind(pass[w])
      BY <1>5 DEF Followed
    <3>2. transfer'[t] = [transfer[t] EXCEPT !.status = "failed"]
      BY <1>1, <1>5, <2>1, <3>1 DEF Healed
    <3>3. QED
      BY <1>2, <3>2 DEF TransferRow
  <2>4. journals'[t] = [journals[t] EXCEPT !.reversed = @ + 1]
    BY <1>1, <1>2, <1>5, <2>1
    DEF HealedJournals, HealedAsSettled, HealedAsReversed, JournalCounts
  <2>5. QED
    BY <2>2, <2>3, <2>4 DEF Promised, Promise!Reversed
<1>6. CASE t \in Behind(pass[w])
  <2>1. t \notin GivenBack(pass[w])
    BY <1>4, <1>6
    DEF GivenBack, Behind, Agreeing, Compared, Referenced, Missing, Followed
  <2>2. transfer[t].status \in {"pending", "processing"}
    <3>1. CASE t \in Followed(pass[w])
      BY <1>3, <1>4, <3>1 DEF Followed
    <3>2. CASE t \notin Followed(pass[w])
      BY <1>3, <1>6, <3>2 DEF Behind, StatusSeen
    <3>3. QED
      BY <3>1, <3>2
  <2>3. transfer'[t].status = pass[w].theirs[t] /\ pass[w].theirs[t] \in {"succeeded", "failed"}
    BY <1>1, <1>6, <2>1 DEF Healed, Behind, Finished
  <2>4. CASE pass[w].theirs[t] = "succeeded"
    <3>1. journals'[t] = [journals[t] EXCEPT !.settled = @ + 1]
      BY <1>1, <1>2, <1>6, <2>1, <2>4
      DEF HealedJournals, HealedAsSettled, HealedAsReversed, JournalCounts
    <3>2. QED
      BY <2>2, <2>3, <2>4, <3>1 DEF Promised, Promise!Paid
  <2>5. CASE pass[w].theirs[t] = "failed"
    <3>1. journals'[t] = [journals[t] EXCEPT !.reversed = @ + 1]
      BY <1>1, <1>2, <1>6, <2>1, <2>5
      DEF HealedJournals, HealedAsSettled, HealedAsReversed, JournalCounts
    <3>2. QED
      BY <2>2, <2>3, <2>5, <3>1 DEF Promised, Promise!Reversed
  <2>6. QED
    BY <2>3, <2>4, <2>5
<1>7. CASE t \notin GivenBack(pass[w]) /\ t \notin Behind(pass[w])
  <2>1. journals'[t] = journals[t]
    BY <1>1, <1>2, <1>7
    DEF HealedJournals, HealedAsSettled, HealedAsReversed, JournalCounts
  <2>2. CASE t \in Followed(pass[w])
    <3>1. transfer[t].status = "pending"
      BY <1>3, <1>4, <2>2 DEF Followed
    <3>2. transfer'[t].status = "processing"
      BY <1>1, <1>7, <2>2 DEF Healed
    <3>3. QED
      BY <2>1, <3>1, <3>2 DEF Promised, Promise!HandedOver
  <2>3. CASE t \notin Followed(pass[w])
    BY <1>1, <1>7, <2>1, <2>3 DEF Healed, Promised, Promise!Kept
  <2>4. QED
    BY <2>2, <2>3
<1>8. QED
  BY <1>5, <1>6, <1>7

LEMMA StepIsPromised ==
    ASSUME TypeOK, BooksInv, [Next]_vars, NEW t \in Transfers
    PROVE  Promised(t)
<1>1. ASSUME NEW u \in Transfers, Authorize(u) PROVE Promised(t)
  BY <1>1, AuthorizeIsPromised
<1>2. ASSUME NEW w \in Workers, Record(w) PROVE Promised(t)
  <2>1. job[w][1] \in Transfers
    BY <1>2, BusyWorkerHasTask DEF Record, HandlerSteps
  <2>2. transfer[job[w][1]].status = "pending" /\ MarkProcessing(job[w][1])
    BY <1>2 DEF Record, BooksInv, HandlersAreFresh
  <2>3. QED
    BY <2>1, <2>2, ProcessIsPromised
<1>3. ASSUME NEW w \in Workers, NEW retryable \in BOOLEAN, Refuse(w, retryable) PROVE Promised(t)
  <2>1. job[w][1] \in Transfers
    BY <1>3, BusyWorkerHasTask DEF Refuse, HandlerSteps
  <2>2. transfer[job[w][1]].status = "pending"
    BY <1>3 DEF Refuse, BooksInv, HandlersAreFresh
  <2>3. UNCHANGED books \/ MarkFailed(job[w][1])
    BY <1>3 DEF Refuse
  <2>4. QED
    BY <2>1, <2>2, <2>3, KeepIsPromised, FailIsPromised
<1>4. ASSUME NEW w \in Workers, Poll(w) PROVE Promised(t)
  <2>1. job[w][1] \in Transfers
    BY <1>4, BusyWorkerHasTask DEF Poll, HandlerSteps
  <2>2. transfer[job[w][1]].status = "processing"
    BY <1>4 DEF Poll, BooksInv, HandlersAreFresh
  <2>3. UNCHANGED books \/ MarkFailed(job[w][1]) \/ MarkSucceeded(job[w][1])
    BY <1>4, <2>1 DEF Poll, TypeOK, PaymentStatus, books
  <2>4. QED
    BY <2>1, <2>2, <2>3, KeepIsPromised, FailIsPromised, SucceedIsPromised
<1>5. ASSUME NEW w \in Workers, CommitPass(w) PROVE Promised(t)
  BY <1>5, CommitIsPromised
<1>6. ASSUME UNCHANGED books PROVE Promised(t)
  BY <1>6, KeepIsPromised
<1>7. QED
  BY <1>1, <1>2, <1>3, <1>4, <1>5, <1>6
  DEF Next, Proceed, vars, books, Load, Accept, Finish, ReadTransfers, LookForDeadLetter,
      Advance, RetryDeadLetter, Claim, Sweep, ListPayments, PollFails, Raise, Crash

\* Each lifecycle step posts the journal its status calls for.
LEMMA PromiseKeepsBooks ==
    ASSUME TypeOK, BooksMatchStatus, \A t \in Transfers : Promised(t)
    PROVE  BooksMatchStatus'
<1> SUFFICES ASSUME NEW t \in Transfers PROVE journals'[t] = Booked(transfer'[t].status)
  BY DEF BooksMatchStatus
<1>1. journals[t] = Booked(transfer[t].status) /\ Promised(t)
  BY DEF BooksMatchStatus
<1>2. QED
  BY <1>1 DEF Promised, Promise!Kept, Promise!Authorized, Promise!HandedOver, Promise!Paid,
              Promise!Reversed, Booked

LEMMA ReferenceStep ==
    ASSUME TypeOK, BooksInv, [Next]_vars
    PROVE  ReferencedWasSent'
<1> SUFFICES ASSUME NEW t \in Transfers, transfer'[t].ref
             PROVE  transfer'[t].status \notin {"none", "pending"}
  BY DEF ReferencedWasSent
<1> DEFINE WasSent == transfer'[t].status \notin {"none", "pending"}
<1>1. transfer[t].ref => transfer[t].status \notin {"none", "pending"}
  BY DEF BooksInv, ReferencedWasSent
<1>2. ASSUME NEW u \in Transfers, NEW s \in {"succeeded", "failed"}, transfer' = Moved(u, s)
      PROVE  WasSent
  BY <1>1, <1>2 DEF Moved, TypeOK, TransferRow
<1>3. ASSUME NEW u \in Transfers, Authorize(u) PROVE WasSent
  BY <1>1, <1>3 DEF Authorize, Moved, TypeOK, TransferRow
<1>4. ASSUME NEW w \in Workers, Record(w) PROVE WasSent
  <2>1. job[w][1] \in Transfers
    BY <1>4, BusyWorkerHasTask DEF Record, HandlerSteps
  <2>2. QED
    BY <1>1, <1>4, <2>1 DEF Record, MarkProcessing, TypeOK
<1>5. ASSUME NEW w \in Workers, NEW retryable \in BOOLEAN, Refuse(w, retryable) PROVE WasSent
  <2>1. job[w][1] \in Transfers
    BY <1>5, BusyWorkerHasTask DEF Refuse, HandlerSteps
  <2>2. UNCHANGED transfer \/ transfer' = Moved(job[w][1], "failed")
    BY <1>5 DEF Refuse, MarkFailed, books
  <2>3. QED
    BY <1>1, <1>2, <2>1, <2>2
<1>6. ASSUME NEW w \in Workers, Poll(w) PROVE WasSent
  <2>1. job[w][1] \in Transfers
    BY <1>6, BusyWorkerHasTask DEF Poll, HandlerSteps
  <2>2. \/ UNCHANGED transfer
        \/ transfer' = Moved(job[w][1], "failed")
        \/ transfer' = Moved(job[w][1], "succeeded")
    BY <1>6, <2>1 DEF Poll, MarkFailed, MarkSucceeded, books, TypeOK, PaymentStatus
  <2>3. QED
    BY <1>1, <1>2, <2>1, <2>2
<1>7. ASSUME NEW w \in Workers, CommitPass(w) PROVE WasSent
  <2>1. transfer'[t] = Healed(pass[w], t) /\ transfer[t] \in TransferRow
    BY <1>7 DEF CommitPass, TypeOK
  <2>2. Healed(pass[w], t).status \in {"succeeded", "failed", "processing"} \/ Healed(pass[w], t) = transfer[t]
    BY <2>1 DEF Healed, Behind, Finished, TransferRow
  <2>3. QED
    BY <1>1, <2>1, <2>2
<1>8. ASSUME UNCHANGED transfer PROVE WasSent
  BY <1>1, <1>8
<1> HIDE DEF WasSent
<1>9. WasSent
  BY <1>3, <1>4, <1>5, <1>6, <1>7, <1>8
  DEF Next, Proceed, vars, Load, Accept, Finish, ReadTransfers, LookForDeadLetter,
      Advance, RetryDeadLetter, Claim, Sweep, ListPayments, PollFails, Raise, Crash
<1>10. QED
  BY <1>9 DEF WasSent

\* The API only creates transfers; it leaves the others alone.
LEMMA AuthorizeKeepsOthers ==
    ASSUME TypeOK, NEW u \in Transfers, Authorize(u), NEW t \in Transfers,
           transfer[t].status # "none"
    PROVE  transfer'[t] = transfer[t]
BY DEF Authorize, Moved, TypeOK

LEMMA HandlerStep ==
    ASSUME TypeOK, BooksInv, OneWorker, [Next]_vars
    PROVE  HandlersAreFresh'
<1>1. ASSUME NEW u \in Transfers, Authorize(u) PROVE HandlersAreFresh'
  <2> SUFFICES ASSUME NEW w \in Workers
               PROVE  /\ pc[w] \in {"send", "sent"} => transfer'[job[w][1]].status = "pending"
                      /\ pc[w] = "poll" => transfer'[job[w][1]].status = "processing"
    BY <1>1 DEF Authorize, HandlersAreFresh
  <2>1. pc[w] \in {"send", "sent", "poll"} => job[w][1] \in Transfers
    BY BusyWorkerHasTask DEF HandlerSteps
  <2>2. QED
    BY <1>1, <2>1, AuthorizeKeepsOthers DEF BooksInv, HandlersAreFresh
<1>2. ASSUME NEW w \in Workers, NEW step \in Steps \ {"send", "sent", "poll"},
             pc' = [pc EXCEPT ![w] = step]
      PROVE  HandlersAreFresh'
  BY <1>2 DEF OneWorker, HandlersAreFresh, TypeOK
<1>3. ASSUME NEW w \in Workers, Load(w) PROVE HandlersAreFresh'
  <2>1. job[w][1] \in Transfers
    BY <1>3, BusyWorkerHasTask DEF Load, HandlerSteps
  <2> DEFINE row == transfer[job[w][1]]
  <2>2. row \in TransferRow /\ (row.ref => row.status \notin {"none", "pending"})
    BY <2>1 DEF BooksInv, ReferencedWasSent, TypeOK
  <2>3. /\ AfterLoad(job[w], row) \in {"send", "poll", "done", "dead"}
        /\ AfterLoad(job[w], row) = "send" => row.status = "pending"
        /\ AfterLoad(job[w], row) = "poll" => row.ref /\ row.status \notin {"succeeded", "failed"}
    BY DEF AfterLoad, Finished
  <2>4. AfterLoad(job[w], row) = "poll" => row.status = "processing"
    BY <2>2, <2>3 DEF TransferRow, TransferStatus
  <2>5. pc'[w] = AfterLoad(job[w], row) /\ UNCHANGED <<transfer, job>>
    BY <1>3 DEF Load, Goto, TypeOK
  <2>6. QED
    BY <2>3, <2>4, <2>5 DEF OneWorker, HandlersAreFresh
<1>4. ASSUME NEW w \in Workers, Accept(w) PROVE HandlersAreFresh'
  BY <1>4 DEF Accept, Goto, OneWorker, BooksInv, HandlersAreFresh, TypeOK
<1>5. ASSUME UNCHANGED <<transfer, pc, job>> PROVE HandlersAreFresh'
  BY <1>5 DEF BooksInv, HandlersAreFresh
<1>6. Outcomes \cup PassSteps \cup {"idle", "claimed"} \subseteq Steps \ {"send", "sent", "poll"}
  BY DEF Steps, Outcomes, PassSteps, HandlerSteps
<1>7. ASSUME NEW w \in Workers, Poll(w) PROVE HandlersAreFresh'
  <2>1. Goto(w, "dead") \/ Goto(w, "done")
    BY <1>7, BusyWorkerHasTask DEF Poll, HandlerSteps, TypeOK, PaymentStatus
  <2>2. QED
    BY <1>2, <1>6, <2>1 DEF Goto, Outcomes
<1>8. ASSUME NEW w \in Workers, Proceed(w) PROVE HandlersAreFresh'
  BY <1>2, <1>3, <1>4, <1>5, <1>6, <1>7, <1>8
  DEF Proceed, Record, Refuse, Goto, Finish, ReadTransfers, LookForDeadLetter, CommitPass,
      Outcomes, PassSteps
<1>9. ASSUME NEW w \in Workers, Crash(w) PROVE HandlersAreFresh'
  BY <1>2, <1>6, <1>9 DEF Crash
<1>10. QED
  BY <1>1, <1>2, <1>5, <1>6, <1>8, <1>9
  DEF Next, vars, Advance, RetryDeadLetter, Claim, Sweep, ListPayments, PollFails, Raise,
      Outcomes, PassSteps

\* What a pass looks into it has read as pending, without a reference.
LEMMA HeldStep ==
    ASSUME TypeOK, HeldArePending, [Next]_vars
    PROVE  HeldArePending'
<1> SUFFICES ASSUME NEW w \in Workers
             PROVE  /\ \A t \in pass'[w].held \cup pass'[w].todo : Unsent(pass'[w].ours[t])
                    /\ pc'[w] # "compare" => pass'[w].held = {} /\ pass'[w].todo = {}
  BY DEF HeldArePending, Unsent
<1>1. /\ pass[w] \in PassState
      /\ \A t \in pass[w].held \cup pass[w].todo : Unsent(pass[w].ours[t])
      /\ pc[w] # "compare" => pass[w].held = {} /\ pass[w].todo = {}
  BY DEF TypeOK, HeldArePending
<1>2. CASE PassKept(w)
  BY <1>1, <1>2 DEF PassKept, PassSteps
<1>3. CASE PassListed(w)
  BY <1>1, <1>3 DEF PassListed, PassState
<1>4. CASE PassRead(w)
  <2>1. /\ pass'[w].ours = transfer /\ pass'[w].held = {} /\ pc'[w] = "compare"
        /\ pass'[w].todo = {t \in Transfers : Unsent(transfer[t])}
    BY <1>1, <1>4 DEF PassRead, PassState
  <2>2. QED
    BY <2>1
<1>5. CASE \E t \in Transfers : PassLooked(w, t)
  <2>1. /\ pass'[w].ours = pass[w].ours /\ pc'[w] = "compare"
        /\ pass'[w].todo \cup pass'[w].held \subseteq pass[w].todo \cup pass[w].held
    BY <1>1, <1>5 DEF PassLooked, PassState
  <2>2. QED
    BY <1>1, <2>1
<1>6. CASE PassEnded(w)
  BY <1>6 DEF PassEnded, NoPass
<1>7. QED
  BY <1>2, <1>3, <1>4, <1>5, <1>6, PassMoves DEF PassMoved

\* While the only worker compares, nothing else moves a transfer that exists.
LEMMA NothingMovesMeanwhile ==
    ASSUME OneWorker, TypeOK, [Next]_vars, NEW w \in Workers, pc[w] = "compare",
           pc'[w] = "compare", NEW t \in Transfers, transfer[t].status # "none"
    PROVE  transfer'[t] = transfer[t]
<1>1. ASSUME NEW u \in Transfers, Authorize(u) PROVE transfer'[t] = transfer[t]
  BY <1>1, AuthorizeKeepsOthers
<1>2. \A v \in Workers : v = w
  BY DEF OneWorker
<1>3. ASSUME NEW v \in Workers, CommitPass(v) PROVE FALSE
  BY <1>2, <1>3 DEF CommitPass, TypeOK
<1>4. QED
  BY <1>1, <1>2, <1>3
  DEF Next, Proceed, vars, Load, Accept, Record, Refuse, Poll, Finish, ReadTransfers,
      LookForDeadLetter, Advance, RetryDeadLetter, Claim, Sweep, ListPayments, PollFails,
      Raise, Crash

LEMMA FreshStep ==
    ASSUME TypeOK, BooksInv, OneWorker, [Next]_vars
    PROVE  PassIsFresh'
<1> SUFFICES ASSUME NEW w \in Workers, NEW t \in Transfers, pc'[w] = "compare",
                    pass'[w].ours[t].status # "none"
             PROVE  pass'[w].ours[t] = transfer'[t]
  BY DEF PassIsFresh
<1>1. /\ pass[w] \in PassState
      /\ pc[w] = "compare" /\ pass[w].ours[t].status # "none" => pass[w].ours[t] = transfer[t]
  BY DEF TypeOK, BooksInv, PassIsFresh
<1>2. CASE PassKept(w)
  BY <1>1, <1>2, NothingMovesMeanwhile DEF PassKept, PassSteps
<1>3. CASE PassRead(w)
  BY <1>1, <1>3 DEF PassRead, PassState
<1>4. CASE \E u \in Transfers : PassLooked(w, u)
  BY <1>1, <1>4 DEF PassLooked, PassState
<1>5. CASE PassListed(w) \/ PassEnded(w)
  BY <1>5 DEF PassListed, PassEnded
<1>6. QED
  BY <1>2, <1>3, <1>4, <1>5, PassMoves DEF PassMoved

LEMMA BooksInit == Init => BooksInv
<1> SUFFICES ASSUME Init PROVE BooksInv
  OBVIOUS
<1>1. BooksMatchStatus
  BY DEF Init, BooksMatchStatus, Booked, NoTransfer, NoJournals
<1>2. HandlersAreFresh /\ PassIsFresh /\ ReferencedWasSent
  BY DEF Init, HandlersAreFresh, PassIsFresh, ReferencedWasSent, NoTransfer
<1>3. HeldArePending
  BY DEF Init, HeldArePending, NoPass
<1>4. QED
  BY <1>1, <1>2, <1>3 DEF BooksInv

LEMMA BooksStep == OneWorker /\ TypeOK /\ BooksInv /\ [Next]_vars => BooksInv'
<1> SUFFICES ASSUME OneWorker, TypeOK, BooksInv, [Next]_vars PROVE BooksInv'
  OBVIOUS
<1>1. BooksMatchStatus'
  BY StepIsPromised, PromiseKeepsBooks DEF BooksInv
<1>2. QED
  BY <1>1, HandlerStep, FreshStep, HeldStep, ReferenceStep DEF BooksInv

\* With one worker the ledger agrees with every transfer's status, whatever is
\* retried, swept, reconciled, requeued or lost on the way.
THEOREM OneWorkerBooksMatch == OneWorker => (Spec => []BooksMatchStatus)
<1> SUFFICES ASSUME OneWorker PROVE Spec => []BooksMatchStatus
  OBVIOUS
<1>1. BooksInv => BooksMatchStatus
  BY DEF BooksInv
<1>2. TypeOK /\ BooksInv /\ [Next]_vars => BooksInv'
  BY BooksStep
<1>3. QED
  BY <1>1, <1>2, BooksInit, TypeCorrect, PTL DEF Spec

\* With one worker a transfer is closed by one journal: what two workers break, as
\* two handlers act on a row that both have read.
THEOREM OneWorkerClosesOnce == OneWorker => (Spec => []ClosedOnce)
<1> SUFFICES ASSUME OneWorker PROVE Spec => []ClosedOnce
  OBVIOUS
<1>1. TypeOK /\ BooksMatchStatus => ClosedOnce
  <2> SUFFICES ASSUME TypeOK, BooksMatchStatus, NEW t \in Transfers
               PROVE  journals[t].settled + journals[t].reversed <= 1
    BY DEF ClosedOnce
  <2>1. journals[t] = Booked(transfer[t].status)
    BY DEF BooksMatchStatus
  <2>2. QED
    BY <2>1 DEF Booked, NoJournals
<1>2. QED
  BY <1>1, OneWorkerBooksMatch, TypeCorrect, PTL

\* With one worker the system implements the lifecycle transfer_service promises.
THEOREM OneWorkerKeepsPromise == OneWorker => (Spec => RefinesLifecycle)
<1> SUFFICES ASSUME OneWorker PROVE Spec => RefinesLifecycle
  OBVIOUS
<1>1. Init => Promise!LifecycleInit
  BY DEF Init, Promise!LifecycleInit, Promise!NothingPosted, NoTransfer, NoJournals
<1>2. TypeOK /\ TypeOK' /\ BooksInv /\ [Next]_vars
         => [Promise!LifecycleNext]_(Promise!lifecycleVars)
  <2> SUFFICES ASSUME TypeOK, TypeOK', BooksInv, [Next]_vars PROVE Promise!LifecycleNext
    OBVIOUS
  <2>1. \A t \in Transfers : Promised(t)
    BY StepIsPromised
  <2>2. journals' = [t \in Transfers |-> journals'[t]]
    BY DEF TypeOK
  <2>3. QED
    BY <2>1, <2>2 DEF Promise!LifecycleNext, Promised
<1>3. TypeOK /\ BooksInv /\ [Next]_vars => BooksInv'
  BY BooksStep
<1>4. QED
  BY <1>1, <1>2, <1>3, BooksInit, TypeCorrect, PTL
  DEF Spec, RefinesLifecycle, Promise!LifecycleSpec
=============================================================================
