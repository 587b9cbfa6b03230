---------------------------- MODULE Disbursement ----------------------------
(* One transfer's way from authorization to its end: the queue of tasks, the   *)
(* workers that run them, the provider that moves the money, the periodic      *)
(* reconciliation pass, the operator who retries dead letters, and the faults  *)
(* in between (a worker dies, a handler raises, the provider refuses).         *)
(* Every transaction is one step; what a handler read before it commits stays  *)
(* as old as it is in the code, which runs at READ COMMITTED and takes no lock *)
(* on a transfer row.                                                          *)
EXTENDS Integers, FiniteSets, FiniteSetsExt

CONSTANTS
    Transfers,      \* the transfers that may be authorized, one minor unit each
    Workers,        \* worker processes
    MaxAttempts,    \* tasks.max_attempts of a new row
    ExtraAttempts,  \* what a dead-letter retry adds to the attempts made
    SettleSlots,    \* bound: live settle_transfer rows per transfer
    Opening,        \* what the program fund holds at the start
    Mismatched,     \* transfers the provider recorded with another amount
    MaxCrashes,     \* bound: worker deaths
    MaxRaises,      \* bound: handlers that raise, status queries that fail
    MaxRequeues     \* bound: dead letters the operator retries

ASSUME ConstantsAssumption ==
    /\ Mismatched \subseteq Transfers
    /\ {MaxAttempts, ExtraAttempts, SettleSlots} \subseteq Nat \ {0}
    /\ {Opening, MaxCrashes, MaxRaises, MaxRequeues} \subseteq Nat

VARIABLES
    transfer,   \* transfer[t]: the row's status and whether it has a reference
    journals,   \* journals[t]: how many journals of each kind name t
    payment,    \* payment[t]: the provider's record under the key t
    task,       \* task[<<t, 0>>]: t's disburse row; task[<<t, i>>]: a settle row
    pc,         \* pc[w]: how far worker w is in the task it runs
    job,        \* job[w]: the task worker w runs, Nothing if none
    pass,       \* pass[w]: what the reconciliation pass worker w runs has read
    findings,   \* <<kind, transfer>> pairs reconciliation has committed
    faults      \* faults spent so far, and dead letters retried

books == <<transfer, journals>>
vars  == <<transfer, journals, payment, task, pc, job, pass, findings, faults>>

-----------------------------------------------------------------------------
(* Rows and what may be in them.                                               *)

TransferStatus == {"none", "pending", "processing", "succeeded", "failed"}
Finished       == {"succeeded", "failed"}
TransferRow    == [status : TransferStatus, ref : BOOLEAN]
NoTransfer     == [status |-> "none", ref |-> FALSE]

JournalCounts  == [authorized : Nat, settled : Nat, reversed : Nat]
NoJournals     == [authorized |-> 0, settled |-> 0, reversed |-> 0]

PaymentStatus  == {"none", "pending", "succeeded", "failed"}

TaskId     == Transfers \X (0 .. SettleSlots)
Nothing    == <<>>
TaskStatus == {"none", "pending", "running", "succeeded", "failed"}
TaskRow    == [status : TaskStatus, attempts : Nat, max : Nat]
NoTask     == [status |-> "none", attempts |-> 0, max |-> 0]
NewTask    == [status |-> "pending", attempts |-> 0, max |-> MaxAttempts]

\* Inside execute: a handler's steps, then the outcome it returned.
HandlerSteps == {"claimed", "send", "sent", "poll"}
Outcomes     == {"done", "dead", "retry"}
PassSteps    == {"listed", "compare"}
Steps        == {"idle"} \cup HandlerSteps \cup Outcomes \cup PassSteps

PassState == [theirs : [Transfers -> PaymentStatus], ours : [Transfers -> TransferRow],
              todo : SUBSET Transfers, held : SUBSET Transfers]
NoPass == [theirs |-> [t \in Transfers |-> "none"],
           ours   |-> [t \in Transfers |-> NoTransfer],
           todo   |-> {},
           held   |-> {}]

FindingKind == {"send_abandoned", "status_behind", "status_contradicted",
                "missing_at_provider", "unknown_to_us", "amount_mismatch"}

Init ==
    /\ transfer = [t \in Transfers |-> NoTransfer]
    /\ journals = [t \in Transfers |-> NoJournals]
    /\ payment  = [t \in Transfers |-> "none"]
    /\ task     = [k \in TaskId |-> NoTask]
    /\ pc       = [w \in Workers |-> "idle"]
    /\ job      = [w \in Workers |-> Nothing]
    /\ pass     = [w \in Workers |-> NoPass]
    /\ findings = {}
    /\ faults   = [crashes |-> 0, raises |-> 0, requeues |-> 0]

-----------------------------------------------------------------------------
(* The books (transfer_service.py): a status is written with its journal.      *)

Moved(t, s) == [transfer EXCEPT ![t].status = s]
\* Mutant: a journal is taken back instead of posted.
PostedBackwards(t, kind) == [journals EXCEPT ![t][kind] = @ - 1]

Posted(t, kind) == [journals EXCEPT ![t][kind] = @ + 1]

\* The callers hold a row that was not finished when they read it, so the early
\* return of both (131-132, 161-162) is never taken.
MarkSucceeded(t) ==
    /\ transfer' = Moved(t, "succeeded")
    /\ journals' = Posted(t, "settled")

MarkFailed(t) ==
    /\ transfer' = Moved(t, "failed")
    /\ journals' = Posted(t, "reversed")

MarkProcessing(t) ==
    /\ transfer' = [transfer EXCEPT ![t] = [status |-> "processing", ref |-> TRUE]]
    /\ UNCHANGED journals

\* The balance of the program fund: what the journals leave of the opening.
Fund == Opening - MapThenSumSet(LAMBDA t : journals[t].authorized, Transfers)
                + MapThenSumSet(LAMBDA t : journals[t].reversed, Transfers)

-----------------------------------------------------------------------------
(* The queue (task_service.py).                                                *)

\* Mutant: one attempt too many.
BudgetSpentLate(k) == task[k].attempts > task[k].max

BudgetSpent(k) == task[k].attempts >= task[k].max

\* A settle row that succeeded is read by no rule, so its slot is free again.
Concluded(k) == IF k[2] = 0 THEN [task[k] EXCEPT !.status = "succeeded"] ELSE NoTask

FreeSlots(t) == {i \in 1 .. SettleSlots : task[<<t, i>>].status = "none"}

EnqueueSettle(t) ==
    \E i \in FreeSlots(t) :
        /\ \A j \in FreeSlots(t) : i <= j
        /\ task' = [task EXCEPT ![<<t, i>>] = NewTask]

\* claim_next: skip locked, so one worker gets the row.  run_at only delays it.
Claim(w, k) ==
    /\ pc[w] = "idle"
    /\ task[k].status = "pending"
    /\ task' = [task EXCEPT ![k].status = "running", ![k].attempts = @ + 1]
    /\ pc'   = [pc EXCEPT ![w] = "claimed"]
    /\ job'  = [job EXCEPT ![w] = k]
    /\ UNCHANGED <<transfer, journals, payment, pass, findings, faults>>

\* sweep_stale, run by a worker between tasks.  A row is stale only when the
\* worker that claimed it is gone: task_stale_seconds exceeds the longest task.
Sweep(w, k) ==
    /\ pc[w] = "idle"
    /\ task[k].status = "running"
    /\ \A v \in Workers : job[v] # k
    /\ task' = [task EXCEPT ![k].status = IF BudgetSpent(k) THEN "failed" ELSE "pending"]
    /\ UNCHANGED <<transfer, journals, payment, pc, job, pass, findings, faults>>

\* The end of execute: the row is retried, dead-lettered or succeeded.
Finish(w) ==
    LET k == job[w] IN
    /\ pc[w] \in Outcomes
    /\ task' = [task EXCEPT ![k] =
                  CASE pc[w] = "done" -> Concluded(k)
                    [] pc[w] = "retry" /\ ~BudgetSpent(k) -> [@ EXCEPT !.status = "pending"]
                    [] OTHER -> [@ EXCEPT !.status = "failed"]]
    /\ pc'  = [pc EXCEPT ![w] = "idle"]
    /\ job' = [job EXCEPT ![w] = Nothing]
    /\ UNCHANGED <<transfer, journals, payment, pass, findings, faults>>

Goto(w, step) ==
    /\ pc' = [pc EXCEPT ![w] = step]
    /\ UNCHANGED <<job, pass, findings, faults>>

-----------------------------------------------------------------------------
(* The API's two writes.                                                       *)

\* transfer_service.initiate, under the lock on the fund: row, journal and send
\* task land in one transaction.
Authorize(t) ==
    /\ transfer[t].status = "none"
    /\ Fund >= 1
    /\ transfer' = Moved(t, "pending")
    /\ journals' = Posted(t, "authorized")
    /\ task'     = [task EXCEPT ![<<t, 0>>] = NewTask]
    /\ UNCHANGED <<payment, pc, job, pass, findings, faults>>

\* Mutant: a pass looks for dead letters without locking them.
LockedByNobody(t) == FALSE

\* A pass holds the row lock on t's dead letter.
Locked(t) == \E v \in Workers : t \in pass[v].held

\* dead_letter_service.retry: an operator puts a dead letter back.  Its row lock
\* waits for a pass that holds the row.
RetryDeadLetter(k) ==
    /\ faults.requeues < MaxRequeues
    /\ task[k].status = "failed"
    /\ transfer[k[1]].status \notin Finished
    /\ ~(k[2] = 0 /\ Locked(k[1]))
    /\ task'   = [task EXCEPT ![k].status = "pending",
                              ![k].max = task[k].attempts + ExtraAttempts]
    /\ faults' = [faults EXCEPT !.requeues = @ + 1]
    /\ UNCHANGED <<transfer, journals, payment, pc, job, pass, findings>>

-----------------------------------------------------------------------------
(* disburse_transfer (worker/disburse.py).                                     *)

\* Mutant: disburse sends without looking at the transfer's status.
AfterLoadSendsAgain(k, row) ==
    IF k[2] = 0 THEN "send"
    ELSE CASE row.status \in Finished -> "done"
           [] row.status \notin Finished /\ ~row.ref -> "dead"
           [] OTHER -> "poll"

\* Mutant: settle asks again about a transfer that has ended.
AfterLoadPollsAgain(k, row) ==
    IF k[2] = 0
    THEN IF row.status = "pending" THEN "send" ELSE "done"
    ELSE IF row.ref THEN "poll" ELSE "dead"

\* What the handler decides on the row it loads.  "send" and "poll" stand for a
\* row read as pending, or as in flight with a reference.
AfterLoad(k, row) ==
    IF k[2] = 0
    THEN IF row.status = "pending" THEN "send" ELSE "done"
    ELSE CASE row.status \in Finished -> "done"
           [] row.status \notin Finished /\ ~row.ref -> "dead"
           [] OTHER -> "poll"

Load(w) ==
    /\ pc[w] = "claimed"
    /\ Goto(w, AfterLoad(job[w], transfer[job[w][1]]))
    /\ UNCHANGED <<transfer, journals, payment, task>>

\* send_payment: the provider accepts, or replays the payment it has for the key.
Accept(w) ==
    LET t == job[w][1] IN
    /\ pc[w] = "send"
    /\ payment' = [payment EXCEPT ![t] = IF @ = "none" THEN "pending" ELSE @]
    /\ Goto(w, "sent")
    /\ UNCHANGED <<transfer, journals, task>>

\* The rest of disburse, one commit: the reference is recorded and the first
\* check on the payment is queued.
Record(w) ==
    LET t == job[w][1] IN
    /\ pc[w] = "sent"
    /\ MarkProcessing(t)
    /\ EnqueueSettle(t)
    /\ Goto(w, "done")
    /\ UNCHANGED payment

\* _handle_provider_error: a refusal, or the last attempt, reverses the transfer.
Refuse(w, retryable) ==
    LET t == job[w][1] IN
    /\ pc[w] = "send"
    /\ IF retryable /\ ~BudgetSpent(job[w])
       THEN /\ Goto(w, "retry")
            /\ UNCHANGED books
       ELSE /\ MarkFailed(t)
            /\ Goto(w, "dead")
    /\ UNCHANGED <<payment, task>>

-----------------------------------------------------------------------------
(* settle_transfer: ask the provider, and write down the answer (_apply).      *)

\* Mutant: a payment the provider has not failed is taken as made.
PollImpatient(w) ==
    LET t == job[w][1] IN
    /\ pc[w] = "poll"
    /\ CASE payment[t] = "none"   -> Goto(w, "dead") /\ UNCHANGED books
         [] payment[t] = "failed" -> MarkFailed(t) /\ Goto(w, "done")
         [] OTHER                 -> MarkSucceeded(t) /\ Goto(w, "done")
    /\ UNCHANGED <<payment, task>>

Poll(w) ==
    LET t == job[w][1] IN
    /\ pc[w] = "poll"
    /\ CASE payment[t] = "none"      -> Goto(w, "dead") /\ UNCHANGED <<transfer, journals, task>>
         [] payment[t] = "pending"   -> EnqueueSettle(t) /\ Goto(w, "done") /\ UNCHANGED books
         [] payment[t] = "succeeded" -> MarkSucceeded(t) /\ Goto(w, "done") /\ UNCHANGED task
         [] payment[t] = "failed"    -> MarkFailed(t) /\ Goto(w, "done") /\ UNCHANGED task
    /\ UNCHANGED payment

\* get_payment raises a ProviderError.
PollFails(w, retryable) ==
    /\ pc[w] = "poll"
    /\ faults.raises < MaxRaises
    /\ pc'     = [pc EXCEPT ![w] = IF retryable THEN "retry" ELSE "dead"]
    /\ faults' = [faults EXCEPT !.raises = @ + 1]
    /\ UNCHANGED <<transfer, journals, payment, task, job, pass, findings>>

-----------------------------------------------------------------------------
(* The reconciliation pass (reconciliation_service.run).  It lists the         *)
(* provider's payments, then reads our transfers, then looks for dead letters, *)
(* and commits once; every decision is taken on what it read.  Workers may run *)
(* a pass each: schedule_once does not count a dead-lettered one, which an     *)
(* operator may put back beside its successor.                                 *)

\* Mutant: the listing leaves out payments still in flight.
ListSettledPayments(w) ==
    /\ pc[w] = "idle"
    /\ pass' = [pass EXCEPT ![w].theirs =
                   [t \in Transfers |-> IF payment[t] = "pending" THEN "none" ELSE payment[t]]]
    /\ pc'   = [pc EXCEPT ![w] = "listed"]
    /\ UNCHANGED <<transfer, journals, payment, task, job, findings, faults>>

ListPayments(w) ==
    /\ pc[w] = "idle"
    /\ pass' = [pass EXCEPT ![w].theirs = payment]
    /\ pc'   = [pc EXCEPT ![w] = "listed"]
    /\ UNCHANGED <<transfer, journals, payment, task, job, findings, faults>>

\* Mutant: only a transfer that was handed over is looked into.
UnsentWithReference(row) == row.status = "pending" /\ row.ref

\* Pending without a reference: what _recover_if_abandoned looks into.
Unsent(row) == row.status = "pending" /\ ~row.ref

ReadTransfers(w) ==
    /\ pc[w] = "listed"
    /\ pass' = [pass EXCEPT ![w].ours = transfer,
                            ![w].todo = {t \in Transfers : Unsent(transfer[t])}]
    /\ pc'   = [pc EXCEPT ![w] = "compare"]
    /\ UNCHANGED <<transfer, journals, payment, task, job, findings, faults>>

\* dead_letter_for: the row stays locked until the pass commits, and another pass
\* that looks for it waits.
LookForDeadLetter(w, t) ==
    /\ pc[w] = "compare"
    /\ t \in pass[w].todo
    /\ ~Locked(t)
    /\ pass' = [pass EXCEPT ![w].todo = @ \ {t},
                            ![w].held = IF task[<<t, 0>>].status = "failed"
                                     THEN @ \cup {t} ELSE @]
    /\ UNCHANGED <<transfer, journals, payment, task, pc, job, findings, faults>>

\* What a pass p concludes when it commits.

\* Mutant: the payment is looked up by reference, which such a transfer has not.
GivenBackByReference(p) == {t \in p.held : ~p.ours[t].ref}

\* A send that was given up: reversed if they have no payment, else followed.
GivenBack(p) == {t \in p.held : p.theirs[t] = "none"}
Followed(p)  == p.held \ GivenBack(p)

\* Transfers that name a reference, and those that _compare looks at.
Referenced(p) == {t \in Transfers : p.ours[t].ref}
Missing(p)    == {t \in Referenced(p) : p.theirs[t] = "none"}
Compared(p)   == (Referenced(p) \ Missing(p)) \cup Followed(p)

\* The row's status by the time _compare sees it.
StatusSeen(p, t) == IF t \in Followed(p) THEN "processing" ELSE p.ours[t].status

\* Mutant: statuses are compared on top of a mismatched amount.
AgreeingAnyway(p) == Compared(p)

Agreeing(p) == Compared(p) \ Mismatched

\* A settlement poll that was missed: healed.
Behind(p) == {t \in Agreeing(p) : StatusSeen(p, t) = "processing" /\ p.theirs[t] \in Finished}

Contradicted(p) ==
    {t \in Agreeing(p) : \/ StatusSeen(p, t) = "succeeded" /\ p.theirs[t] = "failed"
                         \/ StatusSeen(p, t) = "failed" /\ p.theirs[t] = "succeeded"}

\* Mutant: payments are matched by reference only.
MatchedByReference(p) == Compared(p)

\* Payments tied to a transfer of ours, by reference or by our key.
Matched(p) == Compared(p) \cup
              {t \in Transfers : p.ours[t].status # "none" /\ ~p.ours[t].ref
                                 /\ p.theirs[t] # "none"}

\* The others, unless a transfer outside the window read has the reference.
Orphans(p) == {t \in Transfers : /\ p.theirs[t] # "none"
                                 /\ t \notin Matched(p)
                                 /\ ~transfer[t].ref}

Reported(p) == ({"send_abandoned"} \X p.held)
          \cup ({"status_behind"} \X Behind(p))
          \cup ({"status_contradicted"} \X Contradicted(p))
          \cup ({"missing_at_provider"} \X Missing(p))
          \cup ({"amount_mismatch"} \X (Compared(p) \cap Mismatched))
          \cup ({"unknown_to_us"} \X Orphans(p))

\* Mutant: whatever the provider settled is taken as paid.
HealedAsPaid(p, t) ==
    CASE t \in GivenBack(p)            -> [transfer[t] EXCEPT !.status = "failed"]
      [] t \in Behind(p)               -> [status |-> "succeeded", ref |-> TRUE]
      [] t \in Followed(p) \ Behind(p) -> [status |-> "processing", ref |-> TRUE]
      [] OTHER                         -> transfer[t]

\* What the commit leaves of a transfer, and which journals it adds.
Healed(p, t) ==
    CASE t \in GivenBack(p)            -> [transfer[t] EXCEPT !.status = "failed"]
      [] t \in Behind(p)               -> [status |-> p.theirs[t], ref |-> TRUE]
      [] t \in Followed(p) \ Behind(p) -> [status |-> "processing", ref |-> TRUE]
      [] OTHER                         -> transfer[t]

HealedAsSettled(p, t)  == t \in Behind(p) /\ p.theirs[t] = "succeeded"
HealedAsReversed(p, t) == t \in GivenBack(p) \/ (t \in Behind(p) /\ p.theirs[t] = "failed")

HealedJournals(p, t) ==
    [authorized |-> journals[t].authorized,
     settled    |-> journals[t].settled + (IF HealedAsSettled(p, t) THEN 1 ELSE 0),
     reversed   |-> journals[t].reversed + (IF HealedAsReversed(p, t) THEN 1 ELSE 0)]

CommitPass(w) ==
    /\ pc[w] = "compare"
    /\ pass[w].todo = {}
    /\ transfer' = [t \in Transfers |-> Healed(pass[w], t)]
    /\ journals' = [t \in Transfers |-> HealedJournals(pass[w], t)]
    /\ findings' = findings \cup Reported(pass[w])
    /\ pass'     = [pass EXCEPT ![w] = NoPass]
    /\ pc'       = [pc EXCEPT ![w] = "idle"]
    /\ UNCHANGED <<payment, task, job, faults>>

-----------------------------------------------------------------------------
(* Faults, and the provider's own clock.                                       *)

\* A handler that raises is rolled back and fails its row, retryably.
Raise(w) ==
    /\ pc[w] \in HandlerSteps
    /\ faults.raises < MaxRaises
    /\ faults' = [faults EXCEPT !.raises = @ + 1]
    /\ pc'     = [pc EXCEPT ![w] = "retry"]
    /\ UNCHANGED <<transfer, journals, payment, task, job, pass, findings>>

\* A worker dies and a new one takes its place.  Its transaction is rolled back;
\* its task stays running until the sweeper finds it.  A pass that raises, or that
\* Postgres ends to break a deadlock of two, stops the same way: nothing is kept.
Crash(w) ==
    /\ pc[w] # "idle"
    /\ faults.crashes < MaxCrashes
    /\ faults' = [faults EXCEPT !.crashes = @ + 1]
    /\ pc'     = [pc EXCEPT ![w] = "idle"]
    /\ job'    = [job EXCEPT ![w] = Nothing]
    /\ pass'   = [pass EXCEPT ![w] = NoPass]
    /\ UNCHANGED <<transfer, journals, payment, task, findings>>

\* The provider settles a payment it accepted.
Advance(t, outcome) ==
    /\ payment[t] = "pending"
    /\ payment' = [payment EXCEPT ![t] = outcome]
    /\ UNCHANGED <<transfer, journals, task, pc, job, pass, findings, faults>>

-----------------------------------------------------------------------------
\* What a worker does once it has started something: it always goes on.
Proceed(w) ==
    \/ Load(w)
    \/ Accept(w)
    \/ Record(w)
    \/ \E retryable \in BOOLEAN : Refuse(w, retryable)
    \/ Poll(w)
    \/ Finish(w)
    \/ ReadTransfers(w)
    \/ \E t \in Transfers : LookForDeadLetter(w, t)
    \/ CommitPass(w)

Next ==
    \/ \E t \in Transfers : Authorize(t)
    \/ \E t \in Transfers, outcome \in Finished : Advance(t, outcome)
    \/ \E k \in TaskId : RetryDeadLetter(k)
    \/ \E w \in Workers :
          \/ \E k \in TaskId : Claim(w, k) \/ Sweep(w, k)
          \/ ListPayments(w)
          \/ Proceed(w)
          \/ \E retryable \in BOOLEAN : PollFails(w, retryable)
          \/ Raise(w)
          \/ Crash(w)

Spec == Init /\ [][Next]_vars

\* A worker goes on with what it started; each transfer's tasks, the sweep and the
\* next pass get their turn, though other work keeps taking the worker away
\* (claims go by run_at, every tick sweeps, every pass schedules the next); the
\* provider settles what it accepted.  Authorizing, retrying and every fault
\* may never happen.
Fairness ==
    /\ \A w \in Workers : WF_vars(Proceed(w))
    /\ \A t \in Transfers :
          SF_vars(\E w \in Workers, i \in 0 .. SettleSlots : Claim(w, <<t, i>>))
    /\ SF_vars(\E w \in Workers, k \in TaskId : Sweep(w, k))
    /\ SF_vars(\E w \in Workers : ListPayments(w))
    /\ \A t \in Transfers : WF_vars(\E outcome \in Finished : Advance(t, outcome))

FairSpec == Spec /\ Fairness

-----------------------------------------------------------------------------
(* Properties.                                                                 *)

TypeOK ==
    /\ transfer \in [Transfers -> TransferRow]
    /\ journals \in [Transfers -> JournalCounts]
    /\ payment \in [Transfers -> PaymentStatus]
    /\ task \in [TaskId -> TaskRow]
    /\ pc \in [Workers -> Steps]
    /\ job \in [Workers -> TaskId \cup {Nothing}]
    /\ \A w \in Workers : pc[w] \in HandlerSteps \cup Outcomes <=> job[w] # Nothing
    /\ pass \in [Workers -> PassState]
    /\ findings \subseteq FindingKind \X Transfers
    /\ faults \in [crashes : Nat, raises : Nat, requeues : Nat]

\* The journals a transfer of each status has behind it.
Booked(status) == [authorized |-> IF status = "none" THEN 0 ELSE 1,
                   settled    |-> IF status = "succeeded" THEN 1 ELSE 0,
                   reversed   |-> IF status = "failed" THEN 1 ELSE 0]

\* The ledger agrees with every transfer's status: authorized once, then settled
\* once or reversed once or neither (mark_succeeded and mark_failed post before
\* they write the status, on a row that other transactions may have moved).
BooksMatchStatus == \A t \in Transfers : journals[t] = Booked(transfer[t].status)

\* A transfer goes only forward and ends once, each step with its own journal,
\* whatever is retried, swept, reconciled or lost: the detailed system is an
\* implementation of the lifecycle transfer_service promises.
Promise == INSTANCE Lifecycle WITH
               status <- [t \in Transfers |-> transfer[t].status],
               posted <- journals
RefinesLifecycle == Promise!LifecycleSpec

\* The books follow the provider: a recipient shown as paid was paid, a transfer
\* that was handed over is reversed only when the provider failed it, and one in
\* flight is known to the provider (_apply, _compare, _recover_if_abandoned).
BooksFollowProvider ==
    \A t \in Transfers :
        /\ transfer[t].status = "succeeded" => payment[t] = "succeeded"
        /\ transfer[t].status = "failed" /\ transfer[t].ref => payment[t] = "failed"
        /\ transfer[t].status = "processing" => payment[t] # "none"

\* A recipient our books show as paid was paid, however the handlers interleave.
PaidMeansPaid ==
    \A t \in Transfers : transfer[t].status = "succeeded" => payment[t] = "succeeded"

\* A pass reverses a send that was given up only when, as it commits, the provider
\* has no payment for it or failed the one it has (_recover_if_abandoned: "if the
\* provider has the payment, follow it; if not, it was never made").
RecoveryRespectsProvider ==
    [][\A w \in Workers, t \in Transfers :
          /\ CommitPass(w)
          /\ transfer[t].status = "pending" /\ transfer'[t].status = "failed"
          => payment[t] \in {"none", "failed"}]_vars

\* Reconciliation never takes a payment of ours for a stranger's, not even one
\* whose send has not been recorded yet (run: "that is not an orphan").
NoFalseOrphan == \A t \in Transfers : <<"unknown_to_us", t>> \notin findings

\* A running pass listed the provider's payments before they had one for t.
Overlooked(t) == \E w \in Workers : pc[w] \in PassSteps /\ pass[w].theirs[t] = "none"

\* t's payment is recorded, in every running pass's listing, and not reported.
Accounted(t) == /\ transfer[t].ref
                /\ ~Overlooked(t)
                /\ <<"missing_at_provider", t>> \notin findings

\* A payment sent and recorded between the two reads of a pass is reported as
\* missing, but by that pass alone: once every running pass has listed it, no pass
\* ever takes it to be missing, however many run at once (run: the provider's
\* listing is read before our transfers, and neither a reference nor a payment
\* goes away).
AccountedForGood == [][\A t \in Transfers : Accounted(t) => Accounted(t)']_vars

\* "Still queued or running: the worker will get to it" (_recover_if_abandoned):
\* from when a pass finds that a send was given up until it commits, no worker runs
\* that send and none can claim it, whoever retries it meanwhile.
GivenUpStaysSo ==
    \A w \in Workers : \A t \in pass[w].held :
        /\ task[<<t, 0>>].status = "failed"
        /\ \A v \in Workers : job[v] # <<t, 0>>

\* A task never runs more often than its budget, and what waits to run has some
\* left: claims, retries, sweeps and dead-letter retries agree on the count.
RetryBudgetRespected ==
    \A k \in TaskId :
        /\ task[k].attempts <= task[k].max
        /\ task[k].status = "pending" => task[k].attempts < task[k].max

\* Whatever dies or raises on the way, an authorized transfer comes to an end:
\* the fund is never left debited for a payment nobody is following.
AuthorizedEnds ==
    \A t \in Transfers :
        transfer[t].status = "pending" ~> transfer[t].status \in Finished

\* A disagreement over an amount is a person's to settle: a pass leaves a transfer
\* the provider has another amount for unfinished, given up or not (_compare:
\* healing "would settle the wrong amount").
MismatchNotHealed ==
    [][\A w \in Workers, t \in Mismatched :
          /\ CommitPass(w)
          /\ payment[t] # "none" /\ transfer[t].status \notin Finished
          => transfer'[t].status \notin Finished]_vars

-----------------------------------------------------------------------------
(* What the repository says of itself and the code does not keep.              *)

\* "The same dollar cannot be promised twice" (transfer_service.py): the provider
\* is never asked to pay out more than the fund held.
NoDollarPromisedTwice ==
    Cardinality({t \in Transfers : payment[t] \in {"pending", "succeeded"}}) <= Opening

\* "A reversal the provider actually paid is reported" (test_reconciliation.py).
ReversalPaidIsReported ==
    \A t \in Transfers :
        transfer[t].status = "failed" /\ payment[t] = "succeeded"
            ~> <<"status_contradicted", t>> \in findings

\* "Each handler checks the transfer's state before acting" (disburse.py): a
\* transfer is closed by one journal, which settles or reverses it.
ClosedOnce == \A t \in Transfers : journals[t].settled + journals[t].reversed <= 1
=============================================================================
