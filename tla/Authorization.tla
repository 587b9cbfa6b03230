---------------------------- MODULE Authorization ----------------------------
(* Requests that move money, POST /transfers and POST /runs, as their database *)
(* transactions interleave: the idempotency key is claimed, the program fund   *)
(* is locked, its balance is read, every payment is authorized and the answer  *)
(* is recorded, all in one commit or none of it.  Clients lose answers and     *)
(* repeat requests under the same key, sometimes with another body; a server   *)
(* may die anywhere.                                                           *)
EXTENDS Integers, FiniteSetsExt

CONSTANTS
    Requests,   \* clients' requests; each may be sent several times
    Keys,       \* idempotency keys
    KeyOf,      \* KeyOf[r]: the key r carries, kept across its retries
    BodyOf,     \* BodyOf[r]: what r asks for
    Opening,    \* what the program fund holds at the start
    MaxSends    \* bound: MaxSends[r] is how often r is sent

\* A body names its endpoint, and how many minor units it asks for: a transfer
\* all at once, a run one per recipient.  "unknown" is the place of the first
\* recipient nobody knows, 0 when all are known; "wellFormed" says a run names
\* somebody, and nobody twice.
Bodies == [endpoint : {"transfers", "runs"}, size : Nat \ {0}, unknown : Nat,
           wellFormed : BOOLEAN]

ASSUME RequestsAssumption ==
    /\ KeyOf \in [Requests -> Keys]
    /\ BodyOf \in [Requests -> Bodies]
    /\ Opening \in Nat
    /\ MaxSends \in [Requests -> Nat]
    /\ "nobody" \notin Requests

VARIABLES
    pc,         \* pc[r]: how far the transaction of r is
    sends,      \* sends[r]: how often r has been sent
    left,       \* left[r]: payments r has still to authorize
    posted,     \* posted[r]: what r's uncommitted journals take from the fund
    answer,     \* answer[r]: what r was last answered
    holder,     \* holder[k]: the request whose uncommitted row has key k
    row,        \* row[k]: the committed idempotency_keys row of k
    fundLock,   \* the request that holds the row lock on the fund's account
    fund,       \* the fund's committed balance
    work        \* <<key, attempt>> of every request that committed

vars == <<pc, sends, left, posted, answer, holder, row, fundLock, fund, work>>

Nobody     == "nobody"
NoResponse == <<>>
NoBody     == [endpoint |-> "none", size |-> 0, unknown |-> 0, wellFormed |-> FALSE]
NoRow      == [body |-> NoBody, response |-> NoResponse]
Silence    == [what |-> "none", response |-> NoResponse]

\* One sending of a request; the response it stores is its own.
Attempt(r) == <<r, sends[r]>>

Working == {"claimed", "locked", "authorize"}
PayStep == {"locked", "authorize"}

Init ==
    /\ pc       = [r \in Requests |-> "away"]
    /\ sends    = [r \in Requests |-> 0]
    /\ left     = [r \in Requests |-> 0]
    /\ posted   = [r \in Requests |-> 0]
    /\ answer   = [r \in Requests |-> Silence]
    /\ holder   = [k \in Keys |-> Nobody]
    /\ row      = [k \in Keys |-> NoRow]
    /\ fundLock = Nobody
    /\ fund     = Opening
    /\ work     = {}

-----------------------------------------------------------------------------
(* The transaction's end.                                                      *)

\* Mutant: the lock on the fund outlives the transaction.
ReleaseKeyOnly(r) ==
    /\ holder'   = [holder EXCEPT ![KeyOf[r]] = IF @ = r THEN Nobody ELSE @]
    /\ fundLock' = fundLock
    /\ posted'   = [posted EXCEPT ![r] = 0]
    /\ left'     = [left EXCEPT ![r] = 0]

\* Locks go with the transaction, however it ends.
Release(r) ==
    /\ holder'   = [holder EXCEPT ![KeyOf[r]] = IF @ = r THEN Nobody ELSE @]
    /\ fundLock' = IF fundLock = r THEN Nobody ELSE fundLock
    /\ posted'   = [posted EXCEPT ![r] = 0]
    /\ left'     = [left EXCEPT ![r] = 0]

Rollback(r) ==
    /\ Release(r)
    /\ pc' = [pc EXCEPT ![r] = "away"]
    /\ UNCHANGED <<sends, row, fund, work>>

\* An HTTPException: nothing is committed, so the key is free again.
Refuse(r, why) ==
    /\ Rollback(r)
    /\ answer' = [answer EXCEPT ![r] = [what |-> why, response |-> NoResponse]]

-----------------------------------------------------------------------------
(* The steps of a request.                                                     *)

\* The client sends r, for the first time or again: only an answer that says the
\* money was authorized makes it drop the key (useDisburse, useCreateRun).
Satisfied(r) == answer[r].what \in {"created", "replayed"}

Send(r) ==
    /\ pc[r] = "away"
    /\ ~Satisfied(r)
    /\ sends[r] < MaxSends[r]
    /\ sends' = [sends EXCEPT ![r] = @ + 1]
    /\ pc'    = [pc EXCEPT ![r] = "arrived"]
    /\ UNCHANGED <<left, posted, answer, holder, row, fundLock, fund, work>>

\* Mutant: the key is looked up, then inserted, with no constraint between.
TakeKeyIfUnseen(r) ==
    /\ pc[r] = "arrived"
    /\ row[KeyOf[r]] = NoRow
    /\ holder' = [holder EXCEPT ![KeyOf[r]] = r]
    /\ pc'     = [pc EXCEPT ![r] = "claimed"]
    /\ UNCHANGED <<sends, left, posted, answer, row, fundLock, fund, work>>

\* The key is taken: another request's uncommitted row would be waited for.
TakeKey(r) ==
    /\ pc[r] = "arrived"
    /\ holder[KeyOf[r]] = Nobody
    /\ row[KeyOf[r]] = NoRow
    /\ holder' = [holder EXCEPT ![KeyOf[r]] = r]
    /\ pc'     = [pc EXCEPT ![r] = "claimed"]
    /\ UNCHANGED <<sends, left, posted, answer, row, fundLock, fund, work>>

\* Mutant: a replay answers with the repeated request's own attempt.
FromRequest(r) ==
    IF row[KeyOf[r]].body # BodyOf[r] THEN [what |-> "conflict", response |-> NoResponse]
    ELSE [what |-> "replayed", response |-> Attempt(r)]

\* Mutant: a replay is given without a look at the fingerprint.
FromAnyRow(r) ==
    IF row[KeyOf[r]].response = NoResponse THEN [what |-> "in_flight", response |-> NoResponse]
    ELSE [what |-> "replayed", response |-> row[KeyOf[r]].response]

\* Or it was: the row decides between a conflict, "in flight" and a replay.
FromRow(r) ==
    CASE row[KeyOf[r]].body # BodyOf[r]      -> [what |-> "conflict", response |-> NoResponse]
      [] row[KeyOf[r]].body = BodyOf[r] /\ row[KeyOf[r]].response = NoResponse
                                             -> [what |-> "in_flight", response |-> NoResponse]
      [] OTHER -> [what |-> "replayed", response |-> row[KeyOf[r]].response]

FindKey(r) ==
    /\ pc[r] = "arrived"
    /\ holder[KeyOf[r]] = Nobody
    /\ row[KeyOf[r]] # NoRow
    /\ Rollback(r)
    /\ answer' = [answer EXCEPT ![r] = FromRow(r)]

\* What is refused before the fund is looked at: a run that names nobody or
\* somebody twice, a transfer to somebody unknown.
Objection(r) ==
    CASE BodyOf[r].endpoint = "runs" /\ ~BodyOf[r].wellFormed       -> "malformed"
      [] BodyOf[r].endpoint = "transfers" /\ BodyOf[r].unknown # 0  -> "unknown"
      [] OTHER                                                      -> "none"

Object(r) ==
    /\ pc[r] = "claimed"
    /\ Objection(r) # "none"
    /\ Refuse(r, Objection(r))

\* Mutant: nobody locks the fund.
NobodyLocks == TRUE

\* lock_account: one transaction at a time reads the balance and spends it.
FundIsFree == fundLock = Nobody

LockFund(r) ==
    /\ pc[r] = "claimed"
    /\ Objection(r) = "none"
    /\ FundIsFree
    /\ fundLock' = r
    /\ pc' = [pc EXCEPT ![r] = "locked"]
    /\ UNCHANGED <<sends, left, posted, answer, holder, row, fund, work>>

\* balance: the committed entries and this transaction's own.
Available(r) == fund - posted[r]

\* Mutant: only the first payment is compared with the balance.
FirstShare(r) == 1

\* Both endpoints compare the whole amount with the balance before posting: a
\* transfer its own, a run its total.
Total(r) == BodyOf[r].size

CheckFund(r) ==
    /\ pc[r] = "locked"
    /\ IF Available(r) < Total(r)
       THEN Refuse(r, "short")
       ELSE /\ pc'   = [pc EXCEPT ![r] = "authorize"]
            /\ left' = [left EXCEPT ![r] = BodyOf[r].size]
            /\ UNCHANGED <<sends, posted, answer, holder, row, fundLock, fund, work>>

\* transfer_service.initiate within the lock: a transfer takes all it asks for,
\* a run goes recipient by recipient, each checked again.
Share(r) == IF BodyOf[r].endpoint = "transfers" THEN left[r] ELSE 1

AtUnknown(r) == BodyOf[r].unknown # 0 /\ BodyOf[r].size - left[r] + 1 = BodyOf[r].unknown

\* Mutant: a run passes over the recipients nobody knows.
AuthorizeOrSkip(r) ==
    /\ pc[r] = "authorize"
    /\ left[r] > 0
    /\ Available(r) >= Share(r)
    /\ posted' = [posted EXCEPT ![r] = IF AtUnknown(r) THEN @ ELSE @ + Share(r)]
    /\ left'   = [left EXCEPT ![r] = @ - Share(r)]
    /\ UNCHANGED <<pc, sends, answer, holder, row, fundLock, fund, work>>

AuthorizeNext(r) ==
    /\ pc[r] = "authorize"
    /\ left[r] > 0
    /\ ~AtUnknown(r)
    /\ Available(r) >= Share(r)
    /\ posted' = [posted EXCEPT ![r] = @ + Share(r)]
    /\ left'   = [left EXCEPT ![r] = @ - Share(r)]
    /\ UNCHANGED <<pc, sends, answer, holder, row, fundLock, fund, work>>

\* A recipient nobody knows, or a fund run short: the whole run is refused.
RefuseNext(r) ==
    /\ pc[r] = "authorize"
    /\ left[r] > 0
    /\ AtUnknown(r) \/ Available(r) < Share(r)
    /\ Refuse(r, IF AtUnknown(r) THEN "unknown" ELSE "short")

\* Mutant: the commit comes before the response is recorded.
Unrecorded(r) == [body |-> BodyOf[r], response |-> NoResponse]

\* Mutant: the row is committed without the fingerprint of its request.
Unfingerprinted(r) == [body |-> NoBody, response |-> Attempt(r)]

\* record_response and the one commit.
Recorded(r) == [body |-> BodyOf[r], response |-> Attempt(r)]

Commit(r) ==
    /\ pc[r] = "authorize"
    /\ left[r] = 0
    /\ row'  = [row EXCEPT ![KeyOf[r]] = Recorded(r)]
    /\ fund' = fund - posted[r]
    /\ work' = work \cup {<<KeyOf[r], Attempt(r)>>}
    /\ pc'   = [pc EXCEPT ![r] = "committed"]
    /\ Release(r)
    /\ UNCHANGED <<sends, answer>>

\* The answer reaches the client.
Answer(r) ==
    /\ pc[r] = "committed"
    /\ pc'     = [pc EXCEPT ![r] = "away"]
    /\ answer' = [answer EXCEPT ![r] = [what |-> "created", response |-> Attempt(r)]]
    /\ UNCHANGED <<sends, left, posted, holder, row, fundLock, fund, work>>

\* The server dies, or the answer is lost, wherever the request is.
Lose(r) ==
    /\ pc[r] # "away"
    /\ Rollback(r)
    /\ answer' = [answer EXCEPT ![r] = [what |-> "lost", response |-> NoResponse]]

Serve(r) == \/ TakeKey(r) \/ FindKey(r) \/ Object(r) \/ LockFund(r) \/ CheckFund(r)
            \/ AuthorizeNext(r) \/ RefuseNext(r) \/ Commit(r) \/ Answer(r)

Next == \E r \in Requests : Send(r) \/ Serve(r) \/ Lose(r)

Spec == Init /\ [][Next]_vars

\* Postgres hands locks to those who wait for them, so a request that could
\* often go on goes on.  Nothing makes a client send or an answer get lost.
FairSpec == Spec /\ \A r \in Requests : SF_vars(Serve(r))

-----------------------------------------------------------------------------
(* Properties.                                                                 *)

Answers == {"none", "created", "replayed", "conflict", "in_flight", "malformed", "unknown",
            "short", "lost"}

Attempts  == Requests \X Nat
Responses == Attempts \cup {NoResponse}

TypeOK ==
    /\ pc \in [Requests -> {"away", "arrived", "committed"} \cup Working]
    /\ sends \in [Requests -> Nat]
    /\ left \in [Requests -> Nat]
    /\ posted \in [Requests -> Nat]
    /\ answer \in [Requests -> [what : Answers, response : Responses]]
    /\ holder \in [Keys -> Requests \cup {Nobody}]
    /\ row \in [Keys -> [body : Bodies, response : Responses] \cup {NoRow}]
    /\ fundLock \in Requests \cup {Nobody}
    /\ fund \in Int
    /\ work \subseteq Keys \X Attempts

\* The fund never goes below zero, however requests interleave: "before the
\* balance is read, or two concurrent transfers can overdraw it" (initiate).
FundNeverOverdrawn == fund >= 0

\* Once a request is past the check of its whole amount, what it has still to
\* authorize is there: every transfer of a run is decided against one balance
\* (run_service.initiate), so no run fails halfway for want of money.
DecidedAgainstOneBalance ==
    \A r \in Requests : pc[r] = "authorize" => left[r] <= Available(r)

\* A repeated request is one request: a key is the key of one commit at most,
\* though it is sent again, concurrently, after a crash or with another body.
KeyWorksOnce == \A a, b \in work : a[1] = b[1] => a = b

\* What left the fund is what the committed keys asked for, each once, in full.
Used == {k \in Keys : row[k] # NoRow}

EveryDollarHasItsKey ==
    fund = Opening - MapThenSumSet(LAMBDA k : row[k].body.size, Used)

\* Whoever is told the money was authorized is told the same: the response of the
\* commit that did it.
SameAnswerForAll ==
    \A r \in Requests :
        Satisfied(r) => <<KeyOf[r], answer[r].response>> \in work

\* Nobody is told to wait: a key that can be seen has its response, because both
\* land in one commit (record_response), and one that cannot is waited for.
NobodyIsToldToWait == \A r \in Requests : answer[r].what # "in_flight"

\* The transactions keep the promise of the key: what a request takes it takes once,
\* in full and from a fund that has it, and whatever a client is told (authorized,
\* conflict, short of funds, unknown recipient) is true when it is said
\* (idempotency_service: "making a repeated request one request").
Payable(body) ==
    IF body.endpoint = "transfers" THEN body.unknown = 0
    ELSE body.wellFormed /\ body.unknown \notin 1..body.size

EffectOf(k) == IF row[k] = NoRow \/ row[k].response = NoResponse THEN Nobody
               ELSE row[k].response[1]

Said(what) == CASE what \in {"created", "replayed"}  -> "authorized"
                [] what \in {"malformed", "unknown"} -> "improper"
                [] what \in {"conflict", "short"}    -> what
                [] OTHER                             -> "nothing"

Heard(reply) == [what |-> Said(reply.what),
                 by   |-> IF Said(reply.what) = "authorized" THEN reply.response[1] ELSE Nobody]

Promise == INSTANCE OncePerKey WITH
               Proper <- {r \in Requests : Payable(BodyOf[r])},
               Amount <- [r \in Requests |-> BodyOf[r].size],
               effect <- [k \in Keys |-> EffectOf(k)],
               told   <- [r \in Requests |-> Heard(answer[r])]
RefinesOncePerKey == Promise!PromiseSpec

\* Every request that arrives is answered or lost: the key and the fund are
\* always taken in that order, and let go of with the transaction.
EveryRequestEnds == \A r \in Requests : pc[r] = "arrived" ~> pc[r] = "away"
=============================================================================
