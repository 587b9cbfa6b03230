# Payout Ledger in TLA+

Specifications of the disbursement service in `src/`: what happens to the money
between a request and the recipient, to the books, the queue and the consoles,
under retries, crashes, lost answers, dropped notices and two workers. TLC checks them on
small instances; TLAPS proves the theorems for every value of the constants.

Paths below are relative to `src/backend/app/` unless they say otherwise.

## The system

A client asks the API to authorize one transfer (`POST /transfers`) or many
(`POST /runs`). One database transaction claims the request's idempotency key,
debits the program fund, creates the transfers, queues a task for each and
records the answer. Worker processes claim tasks from the same database: a
`disburse_transfer` task hands the payment to the provider and queues a
`settle_transfer` task, which asks the provider what became of it, again and
again while the payment is pending. A `reconcile` task compares both sides'
records every 30 seconds and repairs what is merely late. A sweeper returns the
tasks of dead workers to the queue; a task out of attempts is a dead letter,
which an operator may put back. Every change sends a NOTIFY that wakes workers
and tells open consoles to read again.

| Component | State | Operations | Talks to |
| --- | --- | --- | --- |
| Transfer lifecycle (`services/transfer_service.py`) | `transfers` | initiate, mark processing / succeeded / failed | ledger, queue, inside the caller's transaction |
| Ledger (`services/ledger_service.py`, triggers) | `journal_entries`, `ledger_entries`, `accounts` | post, balance, lock an account | - |
| Runs (`services/run_service.py`) | `payment_runs` | initiate all or none | transfers, ledger |
| Idempotency (`services/idempotency_service.py`, `api/idempotent.py`) | `idempotency_keys` | claim, replay, record the response | every request that moves money |
| Queue (`services/task_service.py`) | `tasks` | enqueue, claim, retry, finish, sweep, requeue, schedule once | workers, bus |
| Worker (`worker/loop.py`, `worker/handlers.py`) | the task in hand | tick, drain, execute, stop | queue, handlers |
| Handlers (`worker/disburse.py`) | a transfer row read before an await | disburse, settle | provider, transfers, queue |
| Reconciliation (`services/reconciliation_service.py`, `worker/reconcile.py`) | `reconciliation_findings`, what the pass has read | list, read, compare, recover, commit | provider, transfers, queue |
| Dead letters (`services/dead_letter_service.py`) | - | retry | queue, transfers |
| Provider (`provider/mock.py`) | `provider_payments` | send, get, list, settle in time | handlers, reconciliation |
| Bus and stream (`bus.py`, `api/routes/events.py`) | the LISTEN connection, subscribers' queues | publish, subscribe, fan out, stream | worker, console |
| Console (`src/frontend/src`) | key per attempt, caches, stream status | send, retry, listen, poll | API |
| Seeder (`seed.py`) | - | chart of accounts, opening deposit, on every boot | ledger |

What is hard here, and what would make it right:

* **Stale rows.** Handlers and the pass read a transfer, await the provider and
  then write, at READ COMMITTED and without a row lock. Right means: the journals
  of a transfer are those of its status, and it is closed once.
* **Two records of one payment.** The provider may have what we never wrote down
  (a worker died in between) and may settle when nobody asks. Right means: what
  the books call paid was paid, what they reversed was not, and a pass neither
  invents a finding nor reverses a payment that was made.
* **Budgets.** A retry, a sweep, a handler's last attempt and a requeued dead
  letter each compare `attempts` with `max_attempts`. Right means: no task outruns
  its budget and no transfer is left debited with nobody following it.
* **Repeated requests.** Answers get lost, keys get reused, transactions race for
  the fund. Right means: one commit per key, one answer, no overdraft, no deadlock.
* **Time and silence.** A worker is known to be dead only by its silence, is woken by
  frames that may be dropped, and must stop when asked. Right means: no row has two
  workers, no due work is left lying, no wake-up is lost, every task ends, and the
  recurring pass goes on.
* **Notices.** Streams break or hang, queues overflow, a change may fall between a read
  and the stream. Right means: an open stream never leaves a page wrong without a read
  or a notice on its way, and every page catches up in the end.
* **Journals.** Two lines, flushed one by one, in transactions that race and roll back;
  a deposit that no constraint makes unique. Right means: the balances say what the
  statuses say, and the program is funded once.

`PROJECT.json` lists every hazard at its line with the properties about it.

## Modules

| Module | What it is |
| --- | --- |
| `Lifecycle` | What the service promises about a transfer: authorized, perhaps handed over, closed once, each step with its journal. No queue, worker or provider. |
| `Disbursement` | How the code does it: transfers, journals, tasks, workers, provider, pass, operator and faults in one state machine. Implements `Lifecycle` (one worker). |
| `OncePerKey` | What an idempotency key promises: one request takes effect under it, once and in full, and whatever a client is told is true. No transactions, no locks. |
| `Authorization` | The requests' transactions: key, fund, transfers, answer. Implements `OncePerKey`. |
| `Ledger` | The books line by line: accounts, journals, balances, triggers, the seeder. Implements `Lifecycle`. |
| `WorkQueue` | What the queue promises: a row is run by one worker, within its budget, and given back when the worker is gone. No clock, no wake-ups. |
| `TaskQueue` | How the code does it: claims, the sweep and its clock, delayed retries, the recurring pass, the worker's loop, wake-ups, stop, kill. Implements `WorkQueue`. |
| `LiveUpdates` | How consoles stay current: NOTIFY, the bus, streams, batches, reads, polling. |
| `...Proofs` | Theorems about the module of that name. |
| `DisbursementProviderProofs` | Theorems about `Disbursement` and the provider, which rest on those of `DisbursementProofs`. |
| `LedgerBalanceProofs` | Theorems about the balances of `Ledger`, which rest on those of `LedgerProofs`. |
| `Sums` | Lemmas about sums over finite sets, for the theorems about money. |
| `MC...` | Sets, functions and symmetry of its instances for TLC. |

The modules share no variables; each takes from another only what that one promises.
`Disbursement` uses the queue as `WorkQueue` has it: a task is run by one worker at a
time and is swept only when its worker has died. `TaskQueue` shows that the code's clock
delivers this. `Disbursement` writes a journal and a status in one step; `Ledger` shows
that lines, flushes and rollbacks deliver that. `Authorize` in `Disbursement` is the
commit of a request that `Authorization` takes apart.

### Disbursement

`transfer[t]` is the row's status and whether it has a `provider_reference`.
`journals[t]` counts the journals that name `t`, by kind. `payment[t]` is the
provider's record under the key `t`. `task[<<t, 0>>]` is the disburse row of `t`
and `task[<<t, 1>>]`, ... are settle rows; one that succeeded is read by no rule,
so its slot is free again. `pc[w]` and `job[w]` say how far worker `w` is in which
task. `pass[w]` is what the reconciliation pass that worker `w` runs has read, and which
dead letters it holds locked.

One action is one transaction or one call to the provider, because that is what
other processes can see:

* `Authorize` is what is left of a request once it commits; the request itself is
  the subject of `Authorization`.
* `Claim`, `Sweep`, `Finish`, `RetryDeadLetter` are the queue's transactions.
* A disburse task goes `Load`, `Accept` (the provider has it), `Record` (we know);
  or `Refuse`. A settle task goes `Load`, `Poll` or `PollFails`. `Load` and what
  follows are apart, so the row a handler acts on may be out of date.
* A pass goes `ListPayments`, `ReadTransfers`, `LookForDeadLetter` once for each
  pending transfer, then `CommitPass`, which writes everything the pass decided in
  one step, on the current rows, from what it had read. Each worker may run one: the
  chain of passes is meant to be single, but a dead-lettered pass is not counted
  (`one_pass`), so two can run at once. They meet only in the row lock of
  `dead_letter_for` (`Locked`), for which the other pass and the operator wait. Two that
  wait for each other are a deadlock, of which Postgres ends one: that is a `Crash`.
* `Raise` and `Crash` can come between any two of these.

Left out of it: amounts (one unit each; a disagreement about an amount is the set
`Mismatched`), `run_at` and backoff (they only delay: `TaskQueue`), the one-day window,
payloads the API never writes, and the ledger's lines. The operator's check of the
transfer's status and the requeue are one step, though another worker may finish a
transfer in between; the row would then be claimed, found finished and dropped.

### Authorization

Each request is a small program: `TakeKey` or `FindKey`, `Object`, `LockFund`,
`CheckFund`, `AuthorizeNext` for each recipient, `Commit`, `Answer`, and `RefuseNext`
or `Lose` along the way. `holder[k]` is the transaction whose uncommitted row has
the key, for which another insert of `k` waits; `fundLock` is the row lock taken by
`lock_account`. A client keeps its key until it is told that the money was
authorized (`useDisburse`, `useCreateRun`). The body of a request is an endpoint, a
size and where the first unknown recipient is.

Reversals, which add to the fund, are in `Disbursement` and `Ledger` and not here: they
make money available and never take it. `Ledger` has them beside the requests, and its
`FundNeverShort` is about the fund as its lines give it.

`OncePerKey` takes the committed row of a key for the request that took effect, and the
last answer for what its client knows: created or replayed says *authorized*, an unknown
recipient or a malformed run *improper*, a lost answer nothing. An answer may be given
only while it is true of the key and the fund.

### Ledger

`accounts`, `lines` and `status` are what is committed. A session, one for each transfer
and one for the seeder, has one transaction at a time: `pc`, `journal`, `made`, `draft`
and `todo` are what it has and has still to flush, seen by nobody else. `Post` makes the
checks of `post`, `InsertLine` flushes a line, `Commit` lets the deferred trigger look at
the journal and then publishes all of it; `Abort` may come at any point. `Balance` adds
up lines in the account's natural direction. `UpsertPayable` waits for another session's
insert of the same account, as ON CONFLICT DO NOTHING does. `LockFund` is `initiate` up to
the row lock; `Covered` reads the balance under it. `Boot`, `SeedChart`, `SkipDeposit` and
`SeedDeposit` are the seeder's own transactions, and `Die` falls between them.

Two writers of one transfer are not in it: that is the subject of `Disbursement`.

### TaskQueue

`row[k]` is status, `attempts` and `max_attempts`; `due[k]` how long until `run_at`;
`since[k]` how long ago it was claimed, or became due. `pc[w]` is where worker `w` is in
`run_forever`: `sweep`, `seed` (`ensure_scheduled`), `drain`, `claim` (the row locked, not
yet committed), `run`, the outcome in hand, `empty` (nothing claimed, not yet waiting) and
`wait`. `woken[w]` counts the frames in its wake queue. Time passes in `Tick`, and only when
no worker has anything to do at once; tasks and waiting take time, statements do not.

* `Jobs` are the rows the API and the handlers enqueue, with a NOTIFY or for later without
  one (`Enqueue`); how their handlers end is any of the `Outcomes`. `Passes` are places
  for rows of the recurring pass, which `ScheduleOnce` fills: from a tick (`Seed`), or from
  a pass that commits (`RunPass`).
* `Lock` and `Claim` are the two halves of `claim_next`, because SKIP LOCKED is about what
  other workers see between them; a worker killed there leaves its row free.
* `told[k]` is no state of the code: it remembers that a pending row was announced, for
  `NoLostWakeup`.

### LiveUpdates

`txn` holds the frames of the open transaction; `conn` and `listening` are the API's one
connection and what it LISTENs to; `link[b]` is how far the stream of console `b` is,
seen from both ends; `queue[b]` is what the bus holds for it and `pending[b]` the batch
`useLiveUpdates` gathers. A page has one query on screen, `view[b]`. What the database says
is reduced to whether `shown[b]`, and the read under way in `fetch[b]`, are current: a
`Commit` whose frames the query depends on (`Reads`, from the routes) makes them outdated.
`Transactions` are the frames that commits announce, in the code's order: one row, a run
(task, then transfer, for each), the hand-over of a transfer, a sweep, a pass with what it
moved, found and scheduled. That
the notices reach the right queries is then a question about `KeysToInvalidate`, which is
`events.ts` with its pruning of covered keys. `lapse[b]` is no state of the code: it
remembers a dropped frame or a failed read, which `NothingGoesUnseen` excuses.

When the LISTEN connection is lost nobody opens it again (`bus.start` is called once), and
streams that come later join those that are there without asking Postgres; only
`RestartApi` helps. A LISTEN asked for while the connection still carries an UNLISTEN is
refused, as asyncpg does.

## What the runs show

| Run | Instance | Question |
| --- | --- | --- |
| `one_worker` | 2 transfers, one of disputed amount, 1 worker; a crash, a raise, a requeue | Do the books match the statuses and the provider, does a pass heal and reverse only what it should, and is the whole a `Lifecycle`? |
| `two_workers` | 1 transfer, 2 workers, a pass on either or both; the same faults; fair | What survives concurrency: budgets, no false orphans, nothing listed is missed, given up stays so, paid means paid, and every authorized transfer paid or reversed in the end. |
| `repeated` | 5 requests, 2 keys, fair | One commit per key, one answer, one balance, all or none, no overdraft, everybody answered, when requests are repeated, keys reused and bodies bad; and is the whole a `OncePerKey`? |
| `ledger` | 4 transfers, 2 recipients, 1 unknown currency; 3 boots, 2 rollbacks | Do balances say what statuses say, does the fund's own stay above zero, is the program funded once, and do the books, line by line, implement `Lifecycle`? |
| `queue` | 2 workers, 1 job, 2 passes; a kill, a stop, a requeue, a lost LISTEN | One worker to a row, no work left lying, no lost wake-up, a stop in time, and the queue a `WorkQueue`? |
| `queue_ends` | 1 worker, 1 job, 3 passes; a kill, two raises, a requeue, a lost LISTEN; fair | Does every task end, does reconciliation go on, do two chains of it become one? |
| `live` | 2 consoles, 2 transfers; 2 faults; fair | Is no change unseen while a stream is open, and does every page and every stream recover? |

The runs below look for something the repository says of itself, and find that the
code does not do it. `PROJECT.json` quotes the lines.

| Run | What happens |
| --- | --- |
| `promised_twice` | The provider accepts; the worker dies before recording it; the next attempt fails and reverses; the money is authorized and paid again. |
| `reversal_paid` | That reversed transfer has no reference, so a pass matches its payment by key and returns: the contradiction is never reported. |
| `closed_twice` | A send is claimed and loaded. A pass on the other worker lists and reads; the transfer is pending. The provider refuses, the worker reverses and dead-letters the task. The pass finds the dead letter and reverses again: the fund is credited twice. |
| `stale_listing` | A send is claimed and loaded. A pass on the other worker lists. The provider accepts, the handler raises, and raises again on its last attempt: a dead letter. The pass reads, finds it and reverses for want of a payment, which the provider has. |
| `one_pass` | A pass raises until it is a dead letter, which the next tick does not count; its successor runs; an operator retries the dead letter, and two passes run at once. |

The first two need one worker. The others need two, which is what
`src/docker-compose.prod.yml:112-113` deploys; `one_worker` and the theorems about
one worker show that they need no fewer. `closed_twice` is the shortest of several such
races: `mark_succeeded` checks the row in hand as `mark_failed` does, so a settle handler
and a pass can settle one transfer twice in the same way.

One false report is not among them. A payment sent and recorded between the two reads of a
pass is reported missing, in the words "which the provider has no record of"
(`reconciliation_service.py:84-85`), and stays reported. With one worker nothing is sent
between them. What holds for any number of workers and passes is that only a pass which was
running when the payment was made can be so mistaken: `AccountedForGood`.

### Bounds

* `MaxAttempts` is 2 and `ExtraAttempts` 1 where the code has 3 and 3: a first attempt,
  a last one and one more after a requeue are the cases its rules tell apart. In
  `two_workers` they are 1 and 2, which are the same cases in another order: the first
  attempt is the last, and a requeue gives a first and a last again.
* `SettleSlots` bounds settle rows of one transfer that are not yet done. A chain has
  one at a time; a crash between `Record` or `Poll` and `Finish` starts a second, a
  dead letter keeps its slot. In every passing run a slot is free whenever one is
  needed (checked over their reachable states), so the bound never holds a handler up.
* `MaxCrashes`, `MaxRaises`, `MaxRequeues` bound faults, 1 each in the passing runs of
  `Disbursement`. A crash and a raise use up both attempts, or the one attempt, which is
  how the sweeper and `execute` give up.
* `Opening` is what all transfers of the instance need, except in `promised_twice`,
  where the fund holds one of two, and in `repeated`, where it holds 4: enough for the
  transfer of 2 or the run of 3, not both.
* `MaxSends` is how often each request is sent: twice for one client of each key.
* `Ledger`: two transfers share a recipient and the deposit covers one of them; one
  recipient is paid in a currency without accounts, for which nothing can be posted. Two
  rollbacks can hit a journal twice, or a transfer and the seeder.
* `TaskQueue`: `LongestTask = StaleSeconds` in `queue`, the edge `config.py:26` warns of;
  `StaleSeconds` longer than the rest in `queue_ends`. A wake queue of 1 overflows with two
  frames. Passes have as many places as chains and dead letters can fill: a third comes to
  use only beside a dead letter, so only `queue_ends` and `one_pass` have it.
* `LiveUpdates`: a queue of 1 overflows on one authorized transfer, which sends two frames,
  and on a run of two or a sweep, whose first frame may be about the other transfer, so that
  the one dropped is the only one the page needs. `MaxTogether` is 2: rows of a kind in one
  transaction. One commit can fall at any point of two streams' lives; two faults of any
  kind, so a break can follow a lost connection. Both consoles show one transfer's detail,
  the query about which most kinds of frame may or may not be.

Symmetry is used in `queue` only, whose properties are all about safety and name no worker.
Deadlock is checked in every run of `Disbursement`, `TaskQueue` and `LiveUpdates`: a pass can
always start, time can always pass, a page can always poll. The transfers of `Ledger` and the
requests of `Authorization` come to an end, so their runs do not check it; `EveryRequestEnds`
does for the requests.

### Fairness

`Disbursement`: a worker goes on with what it began (weak: nothing else can stop it but
a fault, and faults are bounded). The tasks of each transfer, the sweep and the next
pass get their turn though other work keeps taking the worker away (strong): claims go
by `run_at`, so a row cannot be passed over forever; `tick` sweeps before it drains; a
pass schedules its successor when it commits. The provider settles what it accepted.
Nothing makes a client authorize, an operator retry or a fault happen.

`Authorization`: Postgres queues those who wait for a lock, so a request that can often
go on does (strong). Nothing makes a client send.

`TaskQueue`: a worker goes on, time goes on, and what is gone is started again, as
`restart: unless-stopped` of `docker-compose.prod.yml` does (all weak). Nobody need enqueue,
requeue, kill or stop, and no job is favoured over another: that a claim goes to the row
which has waited longest is not needed for one job and the passes.

`LiveUpdates`: the browser's timers fire, the two event loops run, and Postgres answers
UNLISTEN (all weak). Nothing breaks by necessity, and nothing restarts the API: `GoesLive` is
about the time the LISTEN connection holds.

## What is proved

| Theorem | Says | For |
| --- | --- | --- |
| `DisbursementProofs!TypeCorrect` | `TypeOK` | any number of workers |
| `BudgetIsRespected` | `RetryBudgetRespected` | any number of workers |
| `OrphansAreStrangers` | `NoFalseOrphan` | any number of workers |
| `PaidIsPaid` | `PaidMeansPaid` | any number of workers |
| `OneWorkerBooksMatch`, `OneWorkerClosesOnce` | `BooksMatchStatus`, `ClosedOnce` | one worker |
| `OneWorkerKeepsPromise` | `Spec => RefinesLifecycle` | one worker |
| `DisbursementProviderProofs!OneWorkerFollowsProvider` | `BooksFollowProvider` | one worker |
| `AccountedIsForGood`, `GivenUpIsForGood` | `AccountedForGood`, `GivenUpStaysSo` | any number of workers |
| `OneWorkerRecovers`, `OneWorkerLeavesMismatch` | `RecoveryRespectsProvider`, `MismatchNotHealed` | one worker |
| `AuthorizationProofs!TypeCorrect` | `TypeOK` | any requests, keys, bodies |
| `FundIsSafe`, `OneBalance` | `FundNeverOverdrawn`, `DecidedAgainstOneBalance` | the same |
| `OneCommitPerKey`, `OneAnswerPerKey`, `NobodyWaits` | `KeyWorksOnce`, `SameAnswerForAll`, `NobodyIsToldToWait` | the same |
| `DollarsHaveKeys` | `EveryDollarHasItsKey` | the same |
| `RequestsKeepPromise` | `Spec => RefinesOncePerKey` | the same |
| `TaskQueueProofs!TypeCorrect` | `TypeOK` | any workers, rows and times |
| `RowsRunByOne`, `NothingIsLeft` | `RunByOne`, `NothingLiesAbout` | the same |
| `WakeupsArrive`, `StopsOnTime` | `NoLostWakeup`, `StopsInTime` | the same |
| `QueueKeepsPromise` | `Spec => RefinesQueue` | the same |
| `LiveUpdatesProofs!TypeCorrect` | `TypeOK` | any consoles, transfers, runs, screens |
| `PagesAreTold` | `NothingGoesUnseen` | the same |
| `LedgerProofs!TypeCorrect` | `TypeOK` | any transfers, recipients, currencies, amounts |
| `ProgramFundedOnce` | `FundedOnce` | the same |
| `BooksKeepPromise` | `Spec => RefinesLifecycle` | the same |
| `LedgerBalanceProofs!StatusesExplained` | `BooksExplainStatuses` | the same |
| `FundStaysCovered` | `FundNeverShort` | the same |

They assume only the ASSUME of the module in question (`ConstantsAssumption`,
`RequestsAssumption`, `TimesAssumption`, `ConsolesAssumption`, `BooksAssumption`), which TLC
evaluates in every run. `TimesAssumption` holds what `config.py:26` asks for, that no task
runs longer than `task_stale_seconds`. "One worker" is the hypothesis `OneWorker` of the theorem.

The arguments:

* *Budgets*: a pending or running row has the attempts its status implies; every
  writer of `attempts` or `max` keeps that.
* *Orphans*: a payment belongs to a transfer that exists, because a task does and a
  handler sends only for its task. A listing is older than the pass's read of our
  transfers, so whatever it holds is a transfer that read has; matched by its reference,
  or by its key while it has none.
* *Paid*: a payment that succeeded stays so, hence a status taken from a poll or from a
  listing is still true when it is written, however old.
* *Books, one worker*: a status and its journal are written together, so the journals
  can only be wrong if the row was out of date. `HandlersAreFresh` and its companion for
  the pass say that it is not: what the handler or the pass read is what the row still
  is, since only the worker in question could have changed it. Two workers break exactly
  this conjunct, and `closed_twice` shows it.
* *Accounted for*: a handler records only what it has sent (`SentIsKnown`), so a row with a
  reference has a payment (`ReferencedIsPaid`), which a pass that starts now will list; a
  listing that holds a payment keeps it until its pass ends, and neither a payment nor a
  reference goes away. So once every running pass has listed it, none ever misses it.
* *Given up*: a pass holds the row it found failed. A claim takes only a pending row, a sweep
  only a running one, and the operator waits for the lock; the worker that failed it has let
  go of it, for a row is one worker's (`JobsDiffer`) and running while it is
  (`JobsAreRunning`). `GivenUpInv` is the three together.
* *Provider, one worker*: nothing is sent while the only worker runs a pass, so its listing
  has every payment there is (`ListingIsComplete`), and what it calls settled stays so
  (`ListingIsTrue`). So whatever a row says of its payment is still true of it.
* *Promise*: under that invariant each action is a `Lifecycle` step of the transfers it
  moves, or leaves statuses and journals alone.
* *Fund*: who is past the balance check holds the lock, so `fund` has not changed since,
  and `left <= fund - posted` is kept by each transfer authorized.
* *Keys*: who works on a request holds its key, a held key has no committed row, and
  `work` and `row` say the same. A commit therefore finds no earlier work under its key.
* *Dollars*: what a request has posted and what is left of it add up to its amount
  (`PostedInFull`), so a commit takes the whole of it; its key had no row before, so the sum
  over the keys in use (`Used`, a finite set) grows by exactly that.
* *Promise of the key*: a row names the request that took effect, whose body it has
  (`RowsNameTheirRequest`); nobody unknown lies behind a run that is being authorized
  (`NobodyUnknownBehind`), so what commits could be paid in full; nobody who knows that the
  money was authorized asks again (`AskedInNeed`). A refusal is given while the key is held,
  hence unused, and one for want of money while the fund is locked, hence short. That a run
  could be refused as short halfway is excluded by *Fund*.
* *Sums*: that `Sum` adds up over any finite set is shown without induction on a number: of
  the subsets for which a fact fails there is one with no smaller one among them; it is not
  empty, and without one of its elements it is smaller.
* *Ledger*: `IInv` says which journals a transfer of each status has. The balance check of
  `post` and of the trigger is not needed for this: the pairs balance by construction, so no
  commit is refused. The seeder's one journal is the first of its kind, because `Funded` is
  true from the commit that posts it.
* *Balances*: what a session has in draft, with what it has still to insert, is the one pair
  of lines of its journal (`DraftsAreWhole`, `AtHome`), so a commit adds exactly that pair, of
  a journal that had no line before. A pair moves one amount from one account to another, and
  the status written with it moves the same amount from one sum to the other (`SumsInv`).
* *The fund, line by line*: whoever has found the fund sufficient holds its lock until the
  commit, and the journals of others in that time credit the fund (a reversal, a deposit)
  or leave it alone, so the balance has only grown (`StillCovered`).
* *Queue*: `QueueInv` has seven parts. A row in a worker's hands is running and no older
  than its time on the task (`HeldRows`), so it is not stale while its worker lives, and no
  sweep or claim can give it to another (`RunByOne`). A claimable row is no older than the
  wait of a waiting worker, and new for one that has just looked (`NothingOlder`): time stands
  still while anybody is busy. An announced row is due, and lies before a listening worker
  at `empty` or `wait` only together with a frame (`NothingMissed`): a frame is dropped only
  when another is there. Who was asked to stop has been at its task for all of that time
  (`AskedInTime`). The sets that `Sweep` gives back are those `WorkQueue` allows, by `HeldRows`.
* *Live*: a subscriber hears whatever is committed (`Bus`), and every frame invalidates
  every query that `Reads` says it changes. The second is a lemma about keys, independent of
  any state: pruning drops a key only when a shorter one means all that it means
  (`NothingLeftOut`). A commit that makes a page outdated therefore leaves a notice in its
  queue, a read that will see it, or a lapse; `Ready` re-reads what came before.

Left to TLC: liveness and anything with ENABLED, which the prover does not handle
(`AuthorizedEnds`, `EveryRequestEnds`, `EveryTaskEnds`, `PassesGoOn`, `ChainsMerge`,
`CatchesUp`, `GoesLive`). Every invariant and every refinement a passing run checks is
proved.

## Not modelled

* Authentication (a check without state), schemas, validation, logging, middleware, the
  views of the console, and deployment, but for the restart policy and the number of workers.
* The one-day window of a pass (`reconciliation_service.py:52`). It needs the clock of
  `TaskQueue` in `Disbursement`, whose state space has no room for it.
* Two transfers beside two workers: `two_workers` has one transfer. What one transfer does
  to another goes through the fund alone, which `Authorization` and `Ledger` are about; the
  theorems hold for any number of both.
* A provider that loses a payment it accepted, holds a stranger's or changes its mind. The
  code can only report these, and a report depends on nothing but the two listings.
* The amount the settle handler does not compare (`disburse.py:149`): amounts in
  `Disbursement` are one unit, and nothing in the repository says that it should.
* What Reset of a form means to a person: to the server it is another client.
* A second API process, with a bus of its own; `docker-compose.prod.yml` deploys one.
* A stream that the server still serves after the browser has given it up: its queue fills
  and is dropped, and no rule reads it.
* The overview that is read in several statements (`operations.py:31`): a query is current or
  not as a whole. A commit between two of them makes the answer outdated, as any commit
  during a read does, and its notice starts another.
* Recipients and their names; immutability of journals, which the models have by their shape.

## What is left

The one-day window, in a module about one transfer and a clock.
