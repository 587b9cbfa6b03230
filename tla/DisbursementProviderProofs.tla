---------------------- MODULE DisbursementProviderProofs ----------------------
(* What a pass may rely on, however many workers run one: what it found to be  *)
(* given up stays so, and what it has listed is never missed again.  With one  *)
(* worker the books follow the provider besides.  These theorems about         *)
(* Disbursement rest on those of DisbursementProofs.                           *)
EXTENDS DisbursementProofs

-----------------------------------------------------------------------------
(* A send that was given up stays so while a pass holds its dead letter: it is *)
(* no worker's, and only the operator could put it back, who waits for the row.*)

\* The row of a task that a worker runs says so, and no two workers run one.
JobsAreRunning == \A v \in Workers : job[v] # Nothing => task[job[v]].status = "running"

JobsDiffer == \A v, w \in Workers : job[v] # Nothing /\ job[v] = job[w] => v = w

GivenUpInv == JobsAreRunning /\ JobsDiffer /\ GivenUpStaysSo

\* Queueing a check on a payment touches no row that is there.
LEMMA EnqueueAdds ==
    ASSUME TypeOK, NEW t \in Transfers, EnqueueSettle(t), NEW k \in TaskId, task'[k] # task[k]
    PROVE  k[2] # 0 /\ task[k].status = "none"
<1>1. PICK i \in FreeSlots(t) : task' = [task EXCEPT ![<<t, i>>] = NewTask]
  BY DEF EnqueueSettle
<1>2. k = <<t, i>> /\ i # 0 /\ task[<<t, i>>].status = "none"
  BY <1>1, ConstantsAssumption DEF FreeSlots, TypeOK
<1>3. QED
  BY <1>2

\* What a step may do to the row of one task, and to who runs it.
RowKept(k)    == task'[k] = task[k] /\ \A v \in Workers : job'[v] = k => job[v] = k
RowMade(k)    == UNCHANGED job /\ (task[k].status = "none" \/ ~Exists(k[1]))
RowClaimed(k) == /\ task[k].status = "pending" /\ task'[k].status = "running"
                 /\ \E w \in Workers : job' = [job EXCEPT ![w] = k]
RowSwept(k)   == UNCHANGED job /\ task[k].status = "running" /\ \A v \in Workers : job[v] # k
RowRetried(k) == UNCHANGED job /\ task[k].status = "failed" /\ ~(k[2] = 0 /\ Locked(k[1]))
RowLeft(k)    == \E w \in Workers : job[w] = k /\ job' = [job EXCEPT ![w] = Nothing]

LEMMA RowMoves ==
    ASSUME TypeOK, [Next]_vars, NEW k \in TaskId
    PROVE  RowKept(k) \/ RowMade(k) \/ RowClaimed(k) \/ RowSwept(k) \/ RowRetried(k) \/ RowLeft(k)
<1> DEFINE Moves == \/ RowKept(k) \/ RowMade(k) \/ RowClaimed(k)
                    \/ RowSwept(k) \/ RowRetried(k) \/ RowLeft(k)
<1>0. k # Nothing
  BY TaskIsSomething
<1>1. ASSUME NEW t \in Transfers, Authorize(t) PROVE Moves
  <2>1. CASE k = <<t, 0>>
    BY <1>1, <2>1 DEF Authorize, RowMade, Exists
  <2>2. CASE k # <<t, 0>>
    BY <1>1, <2>2 DEF Authorize, RowKept, TypeOK
  <2>3. QED
    BY <2>1, <2>2
<1>2. ASSUME NEW j \in TaskId, RetryDeadLetter(j) PROVE Moves
  <2>1. CASE k = j
    BY <1>2, <2>1 DEF RetryDeadLetter, RowRetried
  <2>2. CASE k # j
    BY <1>2, <2>2 DEF RetryDeadLetter, RowKept, TypeOK
  <2>3. QED
    BY <2>1, <2>2
<1>3. ASSUME NEW w \in Workers, NEW j \in TaskId, Claim(w, j) PROVE Moves
  <2>1. CASE k = j
    <3>1. task'[k].status = "running"
      BY <1>3, <2>1 DEF Claim, TypeOK, TaskRow
    <3>2. QED
      BY <1>3, <2>1, <3>1 DEF Claim, RowClaimed
  <2>2. CASE k # j
    BY <1>3, <2>2 DEF Claim, RowKept, TypeOK
  <2>3. QED
    BY <2>1, <2>2
<1>4. ASSUME NEW w \in Workers, NEW j \in TaskId, Sweep(w, j) PROVE Moves
  <2>1. CASE k = j
    BY <1>4, <2>1 DEF Sweep, RowSwept
  <2>2. CASE k # j
    BY <1>4, <2>2 DEF Sweep, RowKept, TypeOK
  <2>3. QED
    BY <2>1, <2>2
<1>5. ASSUME NEW w \in Workers, Finish(w) PROVE Moves
  <2>1. CASE k = job[w]
    BY <1>5, <2>1 DEF Finish, RowLeft
  <2>2. CASE k # job[w]
    BY <1>0, <1>5, <2>2 DEF Finish, RowKept, TypeOK
  <2>3. QED
    BY <2>1, <2>2
<1>6. ASSUME NEW w \in Workers, Record(w) \/ Poll(w) PROVE Moves
  <2>1. job[w][1] \in Transfers
    BY <1>6, BusyWorkerHasTask DEF Record, Poll, HandlerSteps
  <2>2. UNCHANGED job /\ (EnqueueSettle(job[w][1]) \/ UNCHANGED task)
    BY <1>6, <2>1 DEF Record, Poll, Goto, TypeOK, PaymentStatus
  <2>3. QED
    BY <2>1, <2>2, EnqueueAdds DEF RowMade, RowKept
<1>7. ASSUME NEW w \in Workers, Crash(w) PROVE Moves
  BY <1>0, <1>7 DEF Crash, RowKept, TypeOK
<1>8. ASSUME UNCHANGED <<task, job>> PROVE Moves
  BY <1>8 DEF RowKept
<1> HIDE DEF Moves
<1>9. Moves
  BY <1>1, <1>2, <1>3, <1>4, <1>5, <1>6, <1>7, <1>8
  DEF Next, Proceed, vars, Goto, Load, Accept, Refuse, ReadTransfers, LookForDeadLetter,
      CommitPass, Advance, ListPayments, PollFails, Raise
<1>10. QED
  BY <1>9 DEF Moves

LEMMA JobStep ==
    ASSUME TypeOK, OrphanInv, GivenUpInv, [Next]_vars
    PROVE  JobsAreRunning' /\ JobsDiffer'
<1> SUFFICES ASSUME NEW v \in Workers, job'[v] # Nothing
             PROVE  /\ task'[job'[v]].status = "running"
                    /\ \A w \in Workers : job'[w] = job'[v] => w = v
  BY DEF JobsAreRunning, JobsDiffer
<1>1. PICK k \in TaskId \cup {Nothing} : k = job'[v]
  BY TypeStep DEF TypeOK
<1>2. k \in TaskId
  BY <1>1
<1>3. /\ \A w \in Workers : job[w] = k => task[k].status = "running"
      /\ \A w, u \in Workers : job[w] = k /\ job[u] = k => w = u
  BY <1>2, TaskIsSomething DEF GivenUpInv, JobsAreRunning, JobsDiffer
<1>4. CASE RowKept(k)
  BY <1>1, <1>3, <1>4 DEF RowKept
<1>5. CASE RowMade(k)
  <2>1. job[v] = k /\ task[k].status = "running"
    BY <1>1, <1>3, <1>5 DEF RowMade
  <2>2. Exists(k[1])
    BY <1>2, <2>1, TaskIsSomething DEF OrphanInv, EveryTaskHasTransfer
  <2>3. QED
    BY <1>5, <2>1, <2>2 DEF RowMade
<1>6. CASE RowClaimed(k)
  <2>1. PICK w \in Workers : job' = [job EXCEPT ![w] = k]
    BY <1>6 DEF RowClaimed
  <2>2. \A u \in Workers : job[u] # k
    BY <1>3, <1>6 DEF RowClaimed
  <2>3. QED
    BY <1>1, <1>6, <2>1, <2>2 DEF RowClaimed, TypeOK
<1>7. CASE RowSwept(k) \/ RowRetried(k)
  BY <1>1, <1>3, <1>7 DEF RowSwept, RowRetried
<1>8. CASE RowLeft(k)
  <2>1. PICK w \in Workers : job[w] = k /\ job' = [job EXCEPT ![w] = Nothing]
    BY <1>8 DEF RowLeft
  <2>2. v # w
    BY <1>1, <1>2, <2>1, TaskIsSomething DEF TypeOK
  <2>3. QED
    BY <1>1, <1>3, <2>1, <2>2 DEF TypeOK
<1>9. QED
  BY <1>2, <1>4, <1>5, <1>6, <1>7, <1>8, RowMoves

LEMMA GivenUpStep == TypeOK /\ OrphanInv /\ GivenUpInv /\ [Next]_vars => GivenUpInv'
<1> SUFFICES ASSUME TypeOK, OrphanInv, GivenUpInv, [Next]_vars PROVE GivenUpInv'
  OBVIOUS
<1>1. GivenUpStaysSo'
  <2> SUFFICES ASSUME NEW w \in Workers, NEW t \in pass'[w].held
               PROVE  task'[<<t, 0>>].status = "failed" /\ \A v \in Workers : job'[v] # <<t, 0>>
    BY DEF GivenUpStaysSo
  <2>1. pass[w] \in PassState /\ pass'[w] \in PassState
    BY TypeStep DEF TypeOK
  <2>2. t \in Transfers /\ <<t, 0>> \in TaskId /\ <<t, 0>> # Nothing
    BY <2>1, SlotIsTask, ConstantsAssumption, TaskIsSomething DEF PassState
  <2>3. CASE t \in pass[w].held
    <3>1. task[<<t, 0>>].status = "failed" /\ \A v \in Workers : job[v] # <<t, 0>>
      BY <2>3 DEF GivenUpInv, GivenUpStaysSo
    <3>2. Locked(t)
      BY <2>3 DEF Locked
    <3>3. Exists(t)
      BY <2>2, <3>1 DEF OrphanInv, EveryTaskHasTransfer
    <3>4. RowKept(<<t, 0>>)
      BY <2>2, <3>1, <3>2, <3>3, RowMoves DEF RowMade, RowClaimed, RowSwept, RowRetried, RowLeft
    <3>5. QED
      BY <3>1, <3>4 DEF RowKept
  <2>4. CASE t \notin pass[w].held
    <3>1. \E u \in Transfers : PassLooked(w, u)
      <4>1. CASE PassKept(w) \/ PassListed(w) \/ PassRead(w)
        BY <2>1, <2>4, <4>1 DEF PassKept, PassListed, PassRead, PassState
      <4>2. CASE PassEnded(w)
        BY <4>2 DEF PassEnded, NoPass
      <4>3. QED
        BY <4>1, <4>2, PassMoves DEF PassMoved
    <3>2. UNCHANGED <<task, job>> /\ task[<<t, 0>>].status = "failed"
      BY <2>1, <2>4, <3>1 DEF PassLooked, PassState
    <3>3. \A v \in Workers : job[v] # <<t, 0>>
      BY <2>2, <3>2 DEF GivenUpInv, JobsAreRunning
    <3>4. QED
      BY <3>2, <3>3
  <2>5. QED
    BY <2>3, <2>4
<1>2. QED
  BY <1>1, JobStep DEF GivenUpInv

\* However many workers run, and whoever retries dead letters meanwhile: a send a
\* pass has found to be given up is run by nobody before the pass commits.
THEOREM GivenUpIsForGood == Spec => []GivenUpStaysSo
<1>1. Init => GivenUpInv
  BY DEF Init, NoPass, GivenUpInv, JobsAreRunning, JobsDiffer, GivenUpStaysSo
<1>2. GivenUpInv => GivenUpStaysSo
  BY DEF GivenUpInv
<1>3. QED
  BY <1>1, <1>2, GivenUpStep, OrphanInit, OrphanStep, TypeCorrect, PTL DEF Spec

-----------------------------------------------------------------------------
(* What has been sent, listed or recorded is known to the provider, which      *)
(* takes nothing back: a payment that every running pass has listed is never   *)
(* missed again.                                                               *)

\* What has been sent is known to the provider.
SentIsKnown ==
    \A w \in Workers : pc[w] = "sent" => payment[job[w][1]] # "none"

\* What a listing holds is there, and what it calls settled has not changed since.
ListingIsTrue ==
    \A w \in Workers, t \in Transfers :
        /\ pass[w].theirs[t] # "none" => payment[t] # "none"
        /\ pass[w].theirs[t] \in Finished => payment[t] = pass[w].theirs[t]

\* A reference is the provider's.
ReferencedIsPaid == \A t \in Transfers : transfer[t].ref => payment[t] # "none"

KnownInv == SentIsKnown /\ ListingIsTrue /\ ReferencedIsPaid

LEMMA PaymentsStay ==
    ASSUME TypeOK, [Next]_vars, NEW t \in Transfers
    PROVE  /\ payment[t] # "none" => payment'[t] # "none"
           /\ payment[t] \in Finished => payment'[t] = payment[t]
<1> DEFINE Stays == /\ payment[t] # "none" => payment'[t] # "none"
                    /\ payment[t] \in Finished => payment'[t] = payment[t]
<1>1. ASSUME NEW w \in Workers, Accept(w) PROVE Stays
  <2>1. payment' = [payment EXCEPT ![job[w][1]] = IF @ = "none" THEN "pending" ELSE @]
    BY <1>1 DEF Accept
  <2>2. QED
    BY <2>1 DEF TypeOK, Finished
<1>2. ASSUME NEW u \in Transfers, NEW outcome \in Finished, Advance(u, outcome) PROVE Stays
  BY <1>2 DEF Advance, TypeOK, Finished
<1>3. ASSUME NEW w \in Workers, Poll(w) PROVE Stays
  BY <1>3 DEF Poll
<1>4. ASSUME UNCHANGED payment PROVE Stays
  BY <1>4
<1> HIDE DEF Stays
<1>5. Stays
  BY <1>1, <1>2, <1>3, <1>4
  DEF Next, Proceed, vars, Load, Record, Refuse, Finish, ReadTransfers, LookForDeadLetter,
      CommitPass, Authorize, RetryDeadLetter, Claim, Sweep, ListPayments, PollFails, Raise, Crash
<1>6. QED
  BY <1>5 DEF Stays

LEMMA SentStep ==
    ASSUME TypeOK, SentIsKnown, [Next]_vars
    PROVE  SentIsKnown'
<1> SUFFICES ASSUME NEW v \in Workers, pc'[v] = "sent" PROVE payment'[job'[v][1]] # "none"
  BY DEF SentIsKnown
<1> DEFINE Known == payment'[job'[v][1]] # "none"
<1>1. ASSUME NEW w \in Workers, NEW step \in Steps \ {"sent"}, pc' = [pc EXCEPT ![w] = step],
             \A u \in Workers \ {w} : job'[u] = job[u]
      PROVE  Known
  <2>1. v # w /\ pc[v] = "sent" /\ job'[v] = job[v]
    BY <1>1 DEF TypeOK
  <2>2. job[v][1] \in Transfers /\ payment[job[v][1]] # "none"
    BY <2>1, BusyWorkerHasTask DEF HandlerSteps, SentIsKnown
  <2>3. QED
    BY <2>1, <2>2, PaymentsStay
<1>2. ASSUME UNCHANGED <<pc, job>> PROVE Known
  <2>1. job[v][1] \in Transfers /\ payment[job[v][1]] # "none"
    BY <1>2, BusyWorkerHasTask DEF HandlerSteps, SentIsKnown
  <2>2. QED
    BY <1>2, <2>1, PaymentsStay
<1>3. ASSUME NEW w \in Workers, Accept(w) PROVE Known
  <2>1. job[w][1] \in Transfers
    BY <1>3, BusyWorkerHasTask DEF Accept, HandlerSteps
  <2>2. payment'[job[w][1]] # "none"
    BY <1>3, <2>1 DEF Accept, TypeOK
  <2>3. CASE v = w
    BY <1>3, <2>2, <2>3 DEF Accept, Goto
  <2>4. CASE v # w
    <3>1. pc[v] = "sent" /\ job'[v] = job[v]
      BY <1>3, <2>4 DEF Accept, Goto, TypeOK
    <3>2. job[v][1] \in Transfers /\ payment[job[v][1]] # "none"
      BY <3>1, BusyWorkerHasTask DEF HandlerSteps, SentIsKnown
    <3>3. QED
      BY <3>1, <3>2, PaymentsStay
  <2>5. QED
    BY <2>3, <2>4
<1>4. /\ {"idle", "claimed", "send", "poll"} \cup Outcomes \cup PassSteps \subseteq Steps \ {"sent"}
      /\ Outcomes = {"done", "dead", "retry"} /\ PassSteps = {"listed", "compare"}
  BY DEF Steps, HandlerSteps, Outcomes, PassSteps
<1>5. ASSUME NEW w \in Workers, Load(w) PROVE Known
  <2>1. AfterLoad(job[w], transfer[job[w][1]]) \in {"send", "poll", "done", "dead"}
    BY DEF AfterLoad
  <2>2. QED
    BY <1>1, <1>4, <1>5, <2>1 DEF Load, Goto
<1>6. ASSUME NEW w \in Workers, Poll(w) PROVE Known
  <2>1. Goto(w, "dead") \/ Goto(w, "done")
    BY <1>6, BusyWorkerHasTask DEF Poll, HandlerSteps, TypeOK, PaymentStatus
  <2>2. QED
    BY <1>1, <1>4, <2>1 DEF Goto
<1>7. ASSUME NEW w \in Workers, NEW k \in TaskId, Claim(w, k) PROVE Known
  BY <1>1, <1>4, <1>7 DEF Claim, TypeOK
<1>8. ASSUME NEW w \in Workers, Finish(w) \/ Crash(w) PROVE Known
  <2>1. pc' = [pc EXCEPT ![w] = "idle"] /\ job' = [job EXCEPT ![w] = Nothing]
    BY <1>8 DEF Finish, Crash
  <2>2. \A u \in Workers \ {w} : job'[u] = job[u]
    BY <2>1 DEF TypeOK
  <2>3. QED
    BY <1>1, <1>4, <2>1, <2>2
<1>9. ASSUME NEW w \in Workers, NEW retryable \in BOOLEAN,
             \/ Record(w) \/ Refuse(w, retryable) \/ PollFails(w, retryable) \/ Raise(w)
             \/ ReadTransfers(w) \/ ListPayments(w) \/ CommitPass(w)
      PROVE  Known
  BY <1>1, <1>4, <1>9
  DEF Record, Refuse, PollFails, Raise, ReadTransfers, ListPayments, CommitPass, Goto
<1> HIDE DEF Known
<1>10. Known
  BY <1>2, <1>3, <1>5, <1>6, <1>7, <1>8, <1>9
  DEF Next, Proceed, vars, Authorize, Advance, RetryDeadLetter, Sweep, LookForDeadLetter
<1>11. QED
  BY <1>10 DEF Known

LEMMA TrueStep ==
    ASSUME TypeOK, ListingIsTrue, [Next]_vars
    PROVE  ListingIsTrue'
<1> SUFFICES ASSUME NEW w \in Workers, NEW t \in Transfers
             PROVE  /\ pass'[w].theirs[t] # "none" => payment'[t] # "none"
                    /\ pass'[w].theirs[t] \in Finished => payment'[t] = pass'[w].theirs[t]
  BY DEF ListingIsTrue
<1>1. CASE pass'[w].theirs = payment /\ UNCHANGED payment
  BY <1>1
<1>2. CASE pass'[w].theirs = pass[w].theirs
  BY <1>2, PaymentsStay DEF ListingIsTrue
<1>3. CASE pass'[w] = NoPass
  BY <1>3 DEF NoPass, Finished
<1>4. QED
  BY <1>1, <1>2, <1>3, ListingsAre

\* A reference stays, and a new one is the provider's.
LEMMA ReferencesAre ==
    ASSUME TypeOK, KnownInv, [Next]_vars, NEW t \in Transfers
    PROVE  /\ transfer[t].ref => transfer'[t].ref
           /\ transfer'[t].ref => transfer[t].ref \/ payment[t] # "none"
<1> DEFINE Are == /\ transfer[t].ref => transfer'[t].ref
                  /\ transfer'[t].ref => transfer[t].ref \/ payment[t] # "none"
<1>1. ASSUME NEW u \in Transfers, NEW s, transfer' = Moved(u, s) PROVE Are
  BY <1>1 DEF Moved, TypeOK, TransferRow
<1>2. ASSUME NEW u \in Transfers, Authorize(u) PROVE Are
  BY <1>1, <1>2 DEF Authorize
<1>3. ASSUME NEW w \in Workers, Record(w) PROVE Are
  <2>1. job[w][1] \in Transfers /\ payment[job[w][1]] # "none"
    BY <1>3, BusyWorkerHasTask DEF Record, HandlerSteps, KnownInv, SentIsKnown
  <2>2. QED
    BY <1>3, <2>1 DEF Record, MarkProcessing, TypeOK
<1>4. ASSUME NEW w \in Workers, NEW retryable \in BOOLEAN, Refuse(w, retryable) PROVE Are
  <2>1. job[w][1] \in Transfers
    BY <1>4, BusyWorkerHasTask DEF Refuse, HandlerSteps
  <2>2. UNCHANGED transfer \/ transfer' = Moved(job[w][1], "failed")
    BY <1>4 DEF Refuse, MarkFailed, books
  <2>3. QED
    BY <1>1, <2>1, <2>2
<1>5. ASSUME NEW w \in Workers, Poll(w) PROVE Are
  <2>1. job[w][1] \in Transfers
    BY <1>5, BusyWorkerHasTask DEF Poll, HandlerSteps
  <2>2. \/ UNCHANGED transfer
        \/ transfer' = Moved(job[w][1], "failed")
        \/ transfer' = Moved(job[w][1], "succeeded")
    BY <1>5, <2>1 DEF Poll, MarkFailed, MarkSucceeded, books, TypeOK, PaymentStatus
  <2>3. QED
    BY <1>1, <2>1, <2>2
<1>6. ASSUME NEW w \in Workers, CommitPass(w) PROVE Are
  <2>1. transfer'[t] = Healed(pass[w], t) /\ transfer[t] \in TransferRow
    BY <1>6 DEF CommitPass, TypeOK
  <2>2. t \in Behind(pass[w]) \cup Followed(pass[w]) => payment[t] # "none"
    BY DEF Behind, Followed, GivenBack, Finished, KnownInv, ListingIsTrue
  <2>3. CASE t \in Behind(pass[w]) /\ t \notin GivenBack(pass[w])
    <3>1. Healed(pass[w], t) = [status |-> pass[w].theirs[t], ref |-> TRUE]
      BY <2>3 DEF Healed
    <3>2. QED
      BY <2>1, <2>2, <2>3, <3>1
  <2>4. CASE t \in Followed(pass[w]) /\ t \notin Behind(pass[w]) /\ t \notin GivenBack(pass[w])
    <3>1. Healed(pass[w], t) = [status |-> "processing", ref |-> TRUE]
      BY <2>4 DEF Healed
    <3>2. QED
      BY <2>1, <2>2, <2>4, <3>1
  <2>5. CASE t \in GivenBack(pass[w])
    <3>1. t \notin Behind(pass[w]) /\ t \notin Followed(pass[w])
      BY <2>5 DEF GivenBack, Behind, Followed, Finished
    <3>2. Healed(pass[w], t) = [transfer[t] EXCEPT !.status = "failed"]
      BY <2>5, <3>1 DEF Healed
    <3>3. QED
      BY <2>1, <3>2 DEF TransferRow
  <2>6. CASE t \notin Behind(pass[w]) \cup Followed(pass[w]) \cup GivenBack(pass[w])
    BY <2>1, <2>6 DEF Healed
  <2>7. QED
    BY <2>3, <2>4, <2>5, <2>6
<1>7. ASSUME UNCHANGED transfer PROVE Are
  BY <1>7
<1> HIDE DEF Are
<1>8. Are
  BY <1>2, <1>3, <1>4, <1>5, <1>6, <1>7
  DEF Next, Proceed, vars, Load, Accept, Finish, ReadTransfers, LookForDeadLetter,
      Advance, RetryDeadLetter, Claim, Sweep, ListPayments, PollFails, Raise, Crash
<1>9. QED
  BY <1>8 DEF Are

LEMMA KnownStep == TypeOK /\ KnownInv /\ [Next]_vars => KnownInv'
<1> SUFFICES ASSUME TypeOK, KnownInv, [Next]_vars PROVE KnownInv'
  OBVIOUS
<1>1. SentIsKnown' /\ ListingIsTrue'
  BY SentStep, TrueStep DEF KnownInv
<1>2. ReferencedIsPaid'
  BY ReferencesAre, PaymentsStay DEF KnownInv, ReferencedIsPaid
<1>3. QED
  BY <1>1, <1>2 DEF KnownInv

LEMMA KnownInit == Init => KnownInv
BY DEF Init, NoPass, NoTransfer, Finished, KnownInv, SentIsKnown, ListingIsTrue, ReferencedIsPaid

LEMMA AccountedStep ==
    ASSUME TypeOK, KnownInv, [Next]_vars, NEW t \in Transfers, Accounted(t)
    PROVE  Accounted(t)'
<1>1. transfer[t].ref /\ ~Overlooked(t) /\ <<"missing_at_provider", t>> \notin findings
  BY DEF Accounted
<1>2. transfer'[t].ref
  BY <1>1, ReferencesAre
<1>3. ~Overlooked(t)'
  <2> SUFFICES ASSUME NEW w \in Workers, pc'[w] \in PassSteps, pass'[w].theirs[t] = "none"
               PROVE  FALSE
    BY DEF Overlooked
  <2>1. CASE pass'[w].theirs = payment
    BY <1>1, <2>1 DEF KnownInv, ReferencedIsPaid
  <2>2. CASE pass'[w].theirs = pass[w].theirs /\ pc[w] \in PassSteps
    BY <1>1, <2>2 DEF Overlooked
  <2>3. QED
    BY <2>1, <2>2, ListingsAre DEF PassSteps
<1>4. <<"missing_at_provider", t>> \notin findings'
  <2>1. ASSUME NEW w \in Workers, CommitPass(w) PROVE <<"missing_at_provider", t>> \notin findings'
    <3>1. t \notin Missing(pass[w])
      BY <1>1, <2>1 DEF CommitPass, Missing, Overlooked, PassSteps
    <3>2. <<"missing_at_provider", t>> \notin Reported(pass[w])
      BY <3>1 DEF Reported
    <3>3. QED
      BY <1>1, <2>1, <3>2 DEF CommitPass
  <2>2. ASSUME NEW w \in Workers, Poll(w) PROVE UNCHANGED findings
    BY <2>2, BusyWorkerHasTask DEF Poll, Goto, HandlerSteps, TypeOK, PaymentStatus
  <2>3. ASSUME UNCHANGED findings PROVE <<"missing_at_provider", t>> \notin findings'
    BY <1>1, <2>3
  <2>4. QED
    BY <2>1, <2>2, <2>3
    DEF Next, Proceed, vars, Goto, Load, Accept, Record, Refuse, Finish, ReadTransfers,
        LookForDeadLetter, Authorize, Advance, RetryDeadLetter, Claim, Sweep, ListPayments,
        PollFails, Raise, Crash
<1>5. QED
  BY <1>2, <1>3, <1>4 DEF Accounted

\* However many workers run, and however many passes at once: a payment that is
\* recorded and listed by every pass under way is never reported as missing.
THEOREM AccountedIsForGood == Spec => AccountedForGood
<1> DEFINE Stays == \A t \in Transfers : Accounted(t) => Accounted(t)'
<1>1. TypeOK /\ KnownInv /\ [Next]_vars => [Stays]_vars
  BY AccountedStep
<1> HIDE DEF Stays
<1>2. Spec => [][Stays]_vars
  BY <1>1, KnownInit, KnownStep, TypeCorrect, PTL DEF Spec
<1>3. QED
  BY <1>2 DEF Stays, AccountedForGood

-----------------------------------------------------------------------------
(* With one worker.  Nothing is sent while a pass runs, so its listing lacks   *)
(* nothing.                                                                    *)

ListingIsComplete ==
    \A w \in Workers, t \in Transfers :
        pc[w] \in PassSteps /\ pass[w].theirs[t] = "none" => payment[t] = "none"

ProviderInv == BooksFollowProvider /\ KnownInv /\ ListingIsComplete

\* BooksFollowProvider, for one row and one payment.
Follows(r, p) == /\ r.status = "succeeded" => p = "succeeded"
                 /\ r.status = "failed" /\ r.ref => p = "failed"
                 /\ r.status = "processing" => p # "none"

\* A row that follows a payment follows what becomes of it.
LEMMA StillFollows ==
    ASSUME TypeOK, [Next]_vars, NEW t \in Transfers, NEW r, Follows(r, payment[t])
    PROVE  Follows(r, payment'[t])
BY PaymentsStay DEF Follows, Finished

\* A pass that commits leaves a row that follows the provider.
LEMMA HealedFollows ==
    ASSUME TypeOK, BooksInv, ProviderInv, NEW w \in Workers, CommitPass(w), NEW t \in Transfers
    PROVE  Follows(Healed(pass[w], t), payment[t])
<1>1. transfer[t] \in TransferRow /\ Follows(transfer[t], payment[t])
  BY DEF TypeOK, ProviderInv, BooksFollowProvider, Follows
<1>2. ASSUME t \in pass[w].held PROVE transfer[t].status = "pending" /\ ~transfer[t].ref
  <2>1. pass[w].ours[t].status = "pending" /\ ~pass[w].ours[t].ref
    BY <1>2 DEF BooksInv, HeldArePending, Unsent
  <2>2. QED
    BY <2>1 DEF CommitPass, BooksInv, PassIsFresh
<1>3. CASE t \in GivenBack(pass[w])
  <2>1. t \in pass[w].held
    BY <1>3 DEF GivenBack
  <2>2. Healed(pass[w], t) = [transfer[t] EXCEPT !.status = "failed"]
    <3>1. ~pass[w].ours[t].ref
      BY <2>1 DEF BooksInv, HeldArePending, Unsent
    <3>2. t \notin Behind(pass[w])
      BY <1>3, <3>1 DEF Behind, Agreeing, Compared, Referenced, Missing, Followed
    <3>3. t \notin Followed(pass[w]) \ Behind(pass[w])
      BY <1>3 DEF Followed
    <3>4. QED
      BY <1>3, <3>2, <3>3 DEF Healed
  <2>3. Healed(pass[w], t).status = "failed" /\ ~Healed(pass[w], t).ref
    BY <1>1, <1>2, <2>1, <2>2 DEF TransferRow
  <2>4. QED
    BY <2>3 DEF Follows
<1>4. CASE t \notin GivenBack(pass[w]) /\ t \in Behind(pass[w])
  <2>1. Healed(pass[w], t) = [status |-> pass[w].theirs[t], ref |-> TRUE]
    BY <1>4 DEF Healed
  <2>2. pass[w].theirs[t] \in Finished /\ payment[t] = pass[w].theirs[t]
    BY <1>4 DEF Behind, ProviderInv, KnownInv, ListingIsTrue
  <2>3. QED
    BY <2>1, <2>2 DEF Follows, Finished
<1>5. CASE t \notin GivenBack(pass[w]) /\ t \notin Behind(pass[w]) /\ t \in Followed(pass[w])
  <2>1. Healed(pass[w], t) = [status |-> "processing", ref |-> TRUE]
    BY <1>5 DEF Healed
  <2>2. payment[t] # "none"
    BY <1>5 DEF Followed, GivenBack, ProviderInv, KnownInv, ListingIsTrue
  <2>3. QED
    BY <2>1, <2>2 DEF Follows
<1>6. CASE t \notin GivenBack(pass[w]) /\ t \notin Behind(pass[w]) /\ t \notin Followed(pass[w])
  BY <1>1, <1>6 DEF Healed
<1>7. QED
  BY <1>3, <1>4, <1>5, <1>6

LEMMA FollowStep ==
    ASSUME TypeOK, BooksInv, ProviderInv, [Next]_vars
    PROVE  BooksFollowProvider'
<1> SUFFICES ASSUME NEW t \in Transfers PROVE Follows(transfer'[t], payment'[t])
  BY DEF BooksFollowProvider, Follows
<1> DEFINE Follow == Follows(transfer'[t], payment[t])
<1>1. transfer[t] \in TransferRow /\ Follows(transfer[t], payment[t])
  BY DEF TypeOK, ProviderInv, BooksFollowProvider, Follows
<1>2. transfer[t].ref => transfer[t].status \notin {"none", "pending"}
  BY DEF BooksInv, ReferencedWasSent
<1>3. ASSUME NEW u \in Transfers, Authorize(u) PROVE Follow
  <2>1. u = t => transfer'[t].status = "pending"
    BY <1>1, <1>3 DEF Authorize, Moved, TypeOK, TransferRow
  <2>2. u # t => transfer'[t] = transfer[t]
    BY <1>3 DEF Authorize, Moved, TypeOK
  <2>3. QED
    BY <1>1, <2>1, <2>2 DEF Follows
<1>4. ASSUME NEW w \in Workers, Record(w) PROVE Follow
  <2>1. payment[job[w][1]] # "none"
    BY <1>4 DEF Record, ProviderInv, KnownInv, SentIsKnown
  <2>2. transfer' = [transfer EXCEPT ![job[w][1]] = [status |-> "processing", ref |-> TRUE]]
    BY <1>4 DEF Record, MarkProcessing
  <2>3. QED
    BY <1>1, <2>1, <2>2 DEF Follows, TypeOK
<1>5. ASSUME NEW w \in Workers, NEW retryable \in BOOLEAN, Refuse(w, retryable) PROVE Follow
  <2>1. UNCHANGED transfer \/ transfer' = Moved(job[w][1], "failed")
    BY <1>5 DEF Refuse, MarkFailed, books
  <2>2. job[w][1] = t => transfer[t].status = "pending"
    BY <1>5 DEF Refuse, BooksInv, HandlersAreFresh
  <2>3. job[w][1] = t /\ transfer' = Moved(t, "failed")
           => transfer'[t].status = "failed" /\ ~transfer'[t].ref
    BY <1>1, <1>2, <2>2 DEF Moved, TypeOK, TransferRow
  <2>4. job[w][1] # t => transfer'[t] = transfer[t]
    BY <2>1 DEF Moved, TypeOK
  <2>5. QED
    BY <1>1, <2>1, <2>3, <2>4 DEF Follows
<1>6. ASSUME NEW w \in Workers, Poll(w) PROVE Follow
  <2>1. job[w][1] \in Transfers
    BY <1>6, BusyWorkerHasTask DEF Poll, HandlerSteps
  <2>2. \/ UNCHANGED transfer
        \/ payment[job[w][1]] \in Finished /\ transfer' = Moved(job[w][1], payment[job[w][1]])
    BY <1>6, <2>1 DEF Poll, MarkFailed, MarkSucceeded, books, TypeOK, PaymentStatus, Finished
  <2>3. CASE UNCHANGED transfer
    BY <1>1, <2>3
  <2>4. CASE payment[job[w][1]] \in Finished /\ transfer' = Moved(job[w][1], payment[job[w][1]])
    <3>1. job[w][1] = t => transfer'[t].status = payment[t] /\ payment[t] \in Finished
      BY <1>1, <2>4 DEF Moved, TypeOK, TransferRow
    <3>2. job[w][1] # t => transfer'[t] = transfer[t]
      BY <2>4 DEF Moved, TypeOK
    <3>3. QED
      BY <1>1, <3>1, <3>2 DEF Follows, Finished
  <2>5. QED
    BY <2>2, <2>3, <2>4
<1>7. ASSUME NEW w \in Workers, CommitPass(w) PROVE Follow
  <2>1. transfer'[t] = Healed(pass[w], t)
    BY <1>7 DEF CommitPass
  <2>2. QED
    BY <1>7, <2>1, HealedFollows
<1>8. ASSUME UNCHANGED transfer PROVE Follow
  BY <1>1, <1>8
<1> HIDE DEF Follow
<1>9. Follow
  BY <1>3, <1>4, <1>5, <1>6, <1>7, <1>8
  DEF Next, Proceed, vars, Load, Accept, Finish, ReadTransfers, LookForDeadLetter,
      Advance, RetryDeadLetter, Claim, Sweep, ListPayments, PollFails, Raise, Crash
<1>10. QED
  BY <1>9, StillFollows DEF Follow

\* A payment comes about only while its send is under way.
LEMMA OnlySendsPay ==
    ASSUME TypeOK, [Next]_vars, NEW t \in Transfers, payment[t] = "none", payment'[t] # "none"
    PROVE  \E w \in Workers : pc[w] = "send"
<1>1. ASSUME NEW w \in Workers, Accept(w) PROVE pc[w] = "send"
  BY <1>1 DEF Accept
<1>2. ASSUME NEW u \in Transfers, NEW outcome \in Finished, Advance(u, outcome) PROVE FALSE
  BY <1>2 DEF Advance, TypeOK
<1>3. ASSUME NEW w \in Workers, Poll(w) PROVE FALSE
  BY <1>3 DEF Poll
<1>4. ASSUME UNCHANGED payment PROVE FALSE
  BY <1>4
<1>5. QED
  BY <1>1, <1>2, <1>3, <1>4
  DEF Next, Proceed, vars, Load, Record, Refuse, Finish, ReadTransfers, LookForDeadLetter,
      CommitPass, Authorize, RetryDeadLetter, Claim, Sweep, ListPayments, PollFails, Raise, Crash

LEMMA CompleteStep ==
    ASSUME OneWorker, TypeOK, ProviderInv, [Next]_vars
    PROVE  ListingIsComplete'
<1> SUFFICES ASSUME NEW w \in Workers, NEW t \in Transfers, pc'[w] \in PassSteps,
                    pass'[w].theirs[t] = "none"
             PROVE  payment'[t] = "none"
  BY DEF ListingIsComplete
<1>1. CASE pass'[w].theirs = payment /\ UNCHANGED payment
  BY <1>1
<1>2. CASE pass'[w].theirs = pass[w].theirs /\ pc[w] \in PassSteps
  <2>1. payment[t] = "none"
    BY <1>2 DEF ProviderInv, ListingIsComplete
  <2>2. \A v \in Workers : pc[v] # "send"
    BY <1>2 DEF OneWorker, PassSteps
  <2>3. QED
    BY <2>1, <2>2, OnlySendsPay
<1>3. QED
  BY <1>1, <1>2, ListingsAre DEF PassSteps

LEMMA ProviderInit == Init => ProviderInv
<1> SUFFICES ASSUME Init PROVE ProviderInv
  OBVIOUS
<1>1. BooksFollowProvider /\ ListingIsComplete
  BY DEF Init, NoTransfer, PassSteps, BooksFollowProvider, ListingIsComplete
<1>2. QED
  BY <1>1, KnownInit DEF ProviderInv

LEMMA ProviderStep ==
    OneWorker /\ TypeOK /\ BooksInv /\ ProviderInv /\ [Next]_vars => ProviderInv'
<1> SUFFICES ASSUME OneWorker, TypeOK, BooksInv, ProviderInv, [Next]_vars PROVE ProviderInv'
  OBVIOUS
<1>1. KnownInv'
  BY KnownStep DEF ProviderInv
<1>2. QED
  BY <1>1, FollowStep, CompleteStep DEF ProviderInv

\* A pass that commits ends a transfer as the provider did, or one it has no
\* payment for, and none over an amount it disagrees on.
LEMMA CommitEnds ==
    ASSUME TypeOK, BooksInv, ProviderInv, NEW w \in Workers, CommitPass(w), NEW t \in Transfers,
           transfer[t].status \notin Finished, transfer'[t].status \in Finished
    PROVE  \/ pass[w].theirs[t] = "none" /\ payment[t] = "none"
           \/ t \notin Mismatched /\ payment[t] = transfer'[t].status
<1>1. transfer'[t] = Healed(pass[w], t)
  BY DEF CommitPass
<1>2. CASE t \in GivenBack(pass[w])
  BY <1>2 DEF GivenBack, CommitPass, ProviderInv, ListingIsComplete, PassSteps
<1>3. CASE t \notin GivenBack(pass[w]) /\ t \in Behind(pass[w])
  <2>1. transfer'[t].status = pass[w].theirs[t]
    BY <1>1, <1>3 DEF Healed
  <2>2. t \notin Mismatched /\ payment[t] = pass[w].theirs[t]
    BY <1>3 DEF Behind, Agreeing, ProviderInv, KnownInv, ListingIsTrue
  <2>3. QED
    BY <2>1, <2>2
<1>4. CASE t \notin GivenBack(pass[w]) /\ t \notin Behind(pass[w])
  BY <1>1, <1>4 DEF Healed, Finished
<1>5. QED
  BY <1>2, <1>3, <1>4

\* With one worker the books follow the provider: what they show as paid was
\* paid, what was handed over is reversed only when the provider failed it, and
\* what is in flight is known to the provider.
THEOREM OneWorkerFollowsProvider == OneWorker => (Spec => []BooksFollowProvider)
<1> SUFFICES ASSUME OneWorker PROVE Spec => []BooksFollowProvider
  OBVIOUS
<1>1. ProviderInv => BooksFollowProvider
  BY DEF ProviderInv
<1>2. TypeOK /\ BooksInv /\ [Next]_vars => BooksInv'
  BY BooksStep
<1>3. TypeOK /\ BooksInv /\ ProviderInv /\ [Next]_vars => ProviderInv'
  BY ProviderStep
<1>4. QED
  BY <1>1, <1>2, <1>3, BooksInit, ProviderInit, TypeCorrect, PTL DEF Spec

\* With one worker a pass reverses a send that was given up only when the provider
\* has no payment for it, or failed the one it has.
THEOREM OneWorkerRecovers == OneWorker => (Spec => RecoveryRespectsProvider)
<1> SUFFICES ASSUME OneWorker PROVE Spec => RecoveryRespectsProvider
  OBVIOUS
<1> DEFINE Respects == \A w \in Workers, t \in Transfers :
                          /\ CommitPass(w)
                          /\ transfer[t].status = "pending" /\ transfer'[t].status = "failed"
                          => payment[t] \in {"none", "failed"}
<1>1. TypeOK /\ BooksInv /\ ProviderInv => Respects
  BY CommitEnds DEF Finished
<1>2. TypeOK /\ BooksInv /\ [Next]_vars => BooksInv'
  BY BooksStep
<1>3. TypeOK /\ BooksInv /\ ProviderInv /\ [Next]_vars => ProviderInv'
  BY ProviderStep
<1> HIDE DEF Respects
<1>4. Spec => [][Respects]_vars
  BY <1>1, <1>2, <1>3, BooksInit, ProviderInit, TypeCorrect, PTL DEF Spec
<1>5. QED
  BY <1>4 DEF Respects, RecoveryRespectsProvider

\* With one worker a pass leaves a transfer whose amount the provider disputes as
\* unfinished as it was.
THEOREM OneWorkerLeavesMismatch == OneWorker => (Spec => MismatchNotHealed)
<1> SUFFICES ASSUME OneWorker PROVE Spec => MismatchNotHealed
  OBVIOUS
<1> DEFINE Leaves == \A w \in Workers, t \in Mismatched :
                        /\ CommitPass(w)
                        /\ payment[t] # "none" /\ transfer[t].status \notin Finished
                        => transfer'[t].status \notin Finished
<1>1. TypeOK /\ BooksInv /\ ProviderInv => Leaves
  BY CommitEnds, ConstantsAssumption
<1>2. TypeOK /\ BooksInv /\ [Next]_vars => BooksInv'
  BY BooksStep
<1>3. TypeOK /\ BooksInv /\ ProviderInv /\ [Next]_vars => ProviderInv'
  BY ProviderStep
<1> HIDE DEF Leaves
<1>4. Spec => [][Leaves]_vars
  BY <1>1, <1>2, <1>3, BooksInit, ProviderInit, TypeCorrect, PTL DEF Spec
<1>5. QED
  BY <1>4 DEF Leaves, MismatchNotHealed
=============================================================================
