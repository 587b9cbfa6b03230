-------------------------------- MODULE Ledger --------------------------------
(* The books line by line: accounts, journals of two lines, balances that are  *)
(* read off the lines, the triggers that check them at commit, and the seeder  *)
(* that makes the chart of accounts and the opening deposit on every boot.     *)
(* Several transactions post at once, one for each transfer; any of them may   *)
(* be rolled back halfway.  What two writers of one transfer do to each other  *)
(* is left to Disbursement.                                                    *)
EXTENDS Integers, Sequences, FiniteSetsExt

CONSTANTS
    Transfers,      \* transfers that may be asked for
    RecipientOf,    \* RecipientOf[t]: who is to be paid
    CurrencyOf,     \* CurrencyOf[t]: its currency
    AmountOf,       \* AmountOf[t]: its minor units
    Home,           \* CURRENCY, the one the seeder makes accounts for
    Deposit,        \* OPENING_BALANCE_MINOR
    MaxBoots,       \* bound: times the seeder is run
    MaxAborts       \* bound: transactions that are rolled back

ASSUME BooksAssumption ==
    /\ AmountOf \in [Transfers -> Nat \ {0}]
    /\ Deposit \in Nat \ {0}
    /\ {MaxBoots, MaxAborts} \subseteq Nat
    /\ "seed" \notin Transfers
    /\ "nobody" \notin Transfers

VARIABLES
    accounts,   \* accounts there are, committed
    lines,      \* ledger_entries, committed
    status,     \* status[t]: where the transfer stands, committed
    pc,         \* pc[s]: how far the transaction of session s is
    journal,    \* journal[s]: the id of the journal it posts
    made,       \* made[s]: accounts it has inserted
    draft,      \* draft[s]: lines it has inserted
    todo,       \* todo[s]: lines it has still to insert
    fundLock,   \* the session that holds the row lock on the fund
    boot,       \* what the seeder does next: "off", "chart", "guard"
    spent       \* bounded events so far

vars == <<accounts, lines, status, pc, journal, made, draft, todo, fundLock, boot, spent>>

-----------------------------------------------------------------------------
(* Accounts, journals and balances.                                            *)

Seeder   == "seed"
Sessions == Transfers \cup {Seeder}
Nobody   == "nobody"
Open     == {"pending", "processing"}
Statuses == {"none", "succeeded", "failed"} \cup Open

\* One fund and one float for a currency, one payable for a recipient and currency.
Fund(c)       == <<"program_funding", c>>
Float(c)      == <<"provider_settlement", c>>
Payable(r, c) == <<"recipient_payable", c, r>>
PayableOf(t)  == Payable(RecipientOf[t], CurrencyOf[t])
AllAccounts   == {Fund(Home), Float(Home)} \cup {PayableOf(t) : t \in Transfers}

\* A journal is known by its kind, by what it is about and by which try it is.
Kinds     == {"funding_deposit", "transfer_authorized", "transfer_settled", "transfer_reversed"}
NoJournal == <<"none", Nobody, 0>>
Journals  == Kinds \X Sessions \X Nat
Kind(j)   == j[1]
About(j)  == j[2]

Line(j, account, direction, amount, currency) ==
    [journal |-> j, account |-> account, direction |-> direction, amount |-> amount,
     currency |-> currency]

\* debit comes first, credit second, of one amount in one currency.
Pair(j, debited, credited, amount, currency) ==
    <<Line(j, debited, "debit", amount, currency), Line(j, credited, "credit", amount, currency)>>

DepositLines(j) == Pair(j, Float(Home), Fund(Home), Deposit, Home)

AuthorizedLines(j, t) == Pair(j, Fund(CurrencyOf[t]), PayableOf(t), AmountOf[t], CurrencyOf[t])

\* Mutant: what is settled is credited to the fund.
SettledFromFund(j, t) == Pair(j, PayableOf(t), Fund(CurrencyOf[t]), AmountOf[t], CurrencyOf[t])

SettledLines(j, t)  == Pair(j, PayableOf(t), Float(CurrencyOf[t]), AmountOf[t], CurrencyOf[t])

ReversedLines(j, t) == Pair(j, PayableOf(t), Fund(CurrencyOf[t]), AmountOf[t], CurrencyOf[t])

\* Assets rise on a debit, liabilities and equity on a credit.
Natural(account) == IF account[1] = "provider_settlement" THEN "debit" ELSE "credit"

Total(some) == MapThenSumSet(LAMBDA l : l.amount, some)

\* Derived from every line there is to be seen, in the account's natural direction.
Balance(account, seen) ==
    LET its == {l \in seen : l.account = account} IN
    Total({l \in its : l.direction = Natural(account)})
        - Total({l \in its : l.direction # Natural(account)})

\* What post checks before it writes.
Proper(postings) ==
    /\ Len(postings) >= 2
    /\ \A i \in DOMAIN postings : postings[i].amount > 0
    /\ LET all == {postings[i] : i \in DOMAIN postings} IN
       Total({l \in all : l.direction = "debit"}) = Total({l \in all : l.direction = "credit"})

\* What the deferred trigger checks at commit, of every journal with a new line.
Balances(j, seen) ==
    LET its == {l \in seen : l.journal = j} IN
    /\ Cardinality(its) >= 2
    /\ Cardinality({l.currency : l \in its}) = 1
    /\ Total({l \in its : l.direction = "debit"}) = Total({l \in its : l.direction = "credit"})

-----------------------------------------------------------------------------
Init ==
    /\ accounts = {}
    /\ lines    = {}
    /\ status   = [t \in Transfers |-> "none"]
    /\ pc       = [s \in Sessions |-> "away"]
    /\ journal  = [s \in Sessions |-> NoJournal]
    /\ made     = [s \in Sessions |-> {}]
    /\ draft    = [s \in Sessions |-> {}]
    /\ todo     = [s \in Sessions |-> <<>>]
    /\ fundLock = Nobody
    /\ boot     = "off"
    /\ spent    = [boots |-> 0, aborts |-> 0]

\* Ids are fresh: this try is the next after those that left lines.
Fresh(kind, s) ==
    <<kind, s, Cardinality({l.journal : l \in {x \in lines : About(x.journal) = s}})>>

\* Mutant: the lock on the fund outlives its transaction.
EndAndKeepLock(s) ==
    /\ pc'       = [pc EXCEPT ![s] = "away"]
    /\ journal'  = [journal EXCEPT ![s] = NoJournal]
    /\ made'     = [made EXCEPT ![s] = {}]
    /\ draft'    = [draft EXCEPT ![s] = {}]
    /\ todo'     = [todo EXCEPT ![s] = <<>>]
    /\ fundLock' = fundLock

\* A transaction ends, and its locks with it.
End(s) ==
    /\ pc'       = [pc EXCEPT ![s] = "away"]
    /\ journal'  = [journal EXCEPT ![s] = NoJournal]
    /\ made'     = [made EXCEPT ![s] = {}]
    /\ draft'    = [draft EXCEPT ![s] = {}]
    /\ todo'     = [todo EXCEPT ![s] = <<>>]
    /\ fundLock' = IF fundLock = s THEN Nobody ELSE fundLock

\* post: the journal's row, its lines to follow one by one.
Post(s, j, postings) ==
    /\ Proper(postings)
    /\ pc'      = [pc EXCEPT ![s] = "posting"]
    /\ journal' = [journal EXCEPT ![s] = j]
    /\ todo'    = [todo EXCEPT ![s] = postings]

\* payable_account: on conflict do nothing, which waits for an insert under way.
UpsertPayable(t) ==
    /\ \A s \in Sessions \ {t} : PayableOf(t) \notin made[s]
    /\ made' = [made EXCEPT ![t] = {PayableOf(t)} \ accounts]

-----------------------------------------------------------------------------
(* The transactions.                                                           *)

\* Mutant: the fund is found and not locked.
FindFund(t) ==
    /\ pc[t] = "away"
    /\ status[t] = "none"
    /\ Fund(CurrencyOf[t]) \in accounts
    /\ pc' = [pc EXCEPT ![t] = "locked"]
    /\ UNCHANGED <<accounts, lines, status, journal, made, draft, todo, fundLock, boot, spent>>

\* initiate: the fund is found, if the chart of accounts has one, and locked.
LockFund(t) ==
    /\ pc[t] = "away"
    /\ status[t] = "none"
    /\ Fund(CurrencyOf[t]) \in accounts
    /\ fundLock = Nobody
    /\ fundLock' = t
    /\ pc' = [pc EXCEPT ![t] = "locked"]
    /\ UNCHANGED <<accounts, lines, status, journal, made, draft, todo, boot, spent>>

Covered(t) == Balance(Fund(CurrencyOf[t]), lines) >= AmountOf[t]

Refuse(t) ==
    /\ pc[t] = "locked"
    /\ ~Covered(t)
    /\ End(t)
    /\ UNCHANGED <<accounts, lines, status, boot, spent>>

Authorize(t) ==
    /\ pc[t] = "locked"
    /\ Covered(t)
    /\ UpsertPayable(t)
    /\ LET j == Fresh("transfer_authorized", t) IN Post(t, j, AuthorizedLines(j, t))
    /\ UNCHANGED <<accounts, lines, status, draft, fundLock, boot, spent>>

\* mark_processing, in a transaction of its own.
MarkProcessing(t) ==
    /\ pc[t] = "away"
    /\ status[t] = "pending"
    /\ status' = [status EXCEPT ![t] = "processing"]
    /\ UNCHANGED <<accounts, lines, pc, journal, made, draft, todo, fundLock, boot, spent>>

\* mark_succeeded.
MarkSucceeded(t) ==
    /\ pc[t] = "away"
    /\ status[t] \in Open
    /\ Float(CurrencyOf[t]) \in accounts
    /\ UpsertPayable(t)
    /\ LET j == Fresh("transfer_settled", t) IN Post(t, j, SettledLines(j, t))
    /\ UNCHANGED <<accounts, lines, status, draft, fundLock, boot, spent>>

\* Mutant: the status is committed first, its journal after.
MarkFailedFirst(t) ==
    /\ pc[t] = "away"
    /\ status[t] \in Open
    /\ Fund(CurrencyOf[t]) \in accounts
    /\ UpsertPayable(t)
    /\ LET j == Fresh("transfer_reversed", t) IN Post(t, j, ReversedLines(j, t))
    /\ status' = [status EXCEPT ![t] = "failed"]
    /\ UNCHANGED <<accounts, lines, draft, fundLock, boot, spent>>

\* mark_failed.
MarkFailed(t) ==
    /\ pc[t] = "away"
    /\ status[t] \in Open
    /\ Fund(CurrencyOf[t]) \in accounts
    /\ UpsertPayable(t)
    /\ LET j == Fresh("transfer_reversed", t) IN Post(t, j, ReversedLines(j, t))
    /\ UNCHANGED <<accounts, lines, status, draft, fundLock, boot, spent>>

\* One line is flushed: until the last is, the journal does not balance.
InsertLine(s) ==
    /\ pc[s] = "posting"
    /\ todo[s] # <<>>
    /\ draft' = [draft EXCEPT ![s] = @ \cup {Head(todo[s])}]
    /\ todo'  = [todo EXCEPT ![s] = Tail(@)]
    /\ UNCHANGED <<accounts, lines, status, pc, journal, made, fundLock, boot, spent>>

After(kind) == CASE kind = "transfer_authorized" -> "pending"
                 [] kind = "transfer_settled"    -> "succeeded"
                 [] kind = "transfer_reversed"   -> "failed"

\* The commit: the trigger first, then everything at once.
Commit(s) ==
    /\ pc[s] = "posting"
    /\ todo[s] = <<>>
    /\ Balances(journal[s], lines \cup draft[s])
    /\ accounts' = accounts \cup made[s]
    /\ lines'    = lines \cup draft[s]
    /\ status'   = IF s \in Transfers THEN [status EXCEPT ![s] = After(Kind(journal[s]))]
                                      ELSE status
    /\ End(s)
    /\ UNCHANGED <<boot, spent>>

\* A crash, a raise, a lost connection: nothing is kept.
Abort(s) ==
    /\ pc[s] # "away"
    /\ spent.aborts < MaxAborts
    /\ spent' = [spent EXCEPT !.aborts = @ + 1]
    /\ End(s)
    /\ UNCHANGED <<accounts, lines, status, boot>>

-----------------------------------------------------------------------------
(* The seeder (seed.py), one at a time, on every boot.                         *)

Boot ==
    /\ boot = "off"
    /\ pc[Seeder] = "away"
    /\ spent.boots < MaxBoots
    /\ spent' = [spent EXCEPT !.boots = @ + 1]
    /\ boot'  = "chart"
    /\ UNCHANGED <<accounts, lines, status, pc, journal, made, draft, todo, fundLock>>

\* It dies between two of its transactions.
Die ==
    /\ boot # "off"
    /\ spent.aborts < MaxAborts
    /\ spent' = [spent EXCEPT !.aborts = @ + 1]
    /\ boot'  = "off"
    /\ UNCHANGED <<accounts, lines, status, pc, journal, made, draft, todo, fundLock>>

\* seed_chart_of_accounts, committed by itself.
SeedChart ==
    /\ boot = "chart"
    /\ accounts' = accounts \cup {Fund(Home), Float(Home)}
    /\ boot'     = "guard"
    /\ UNCHANGED <<lines, status, pc, journal, made, draft, todo, fundLock, spent>>

\* Mutant: the opening balance is skipped only when the fund still has it.
FundedInFull == Balance(Fund(Home), lines) >= Deposit

Funded == \E l \in lines : Kind(l.journal) = "funding_deposit"

SkipDeposit ==
    /\ boot = "guard"
    /\ Funded
    /\ boot' = "off"
    /\ UNCHANGED <<accounts, lines, status, pc, journal, made, draft, todo, fundLock, spent>>

SeedDeposit ==
    /\ boot = "guard"
    /\ ~Funded
    /\ LET j == Fresh("funding_deposit", Seeder) IN Post(Seeder, j, DepositLines(j))
    /\ boot' = "off"
    /\ UNCHANGED <<accounts, lines, status, made, draft, fundLock, spent>>

-----------------------------------------------------------------------------
Move(t) == \/ LockFund(t) \/ Refuse(t) \/ Authorize(t)
           \/ MarkProcessing(t) \/ MarkSucceeded(t) \/ MarkFailed(t)

Next ==
    \/ \E t \in Transfers : Move(t)
    \/ \E s \in Sessions : InsertLine(s) \/ Commit(s) \/ Abort(s)
    \/ Boot \/ Die \/ SeedChart \/ SkipDeposit \/ SeedDeposit

Spec == Init /\ [][Next]_vars

-----------------------------------------------------------------------------
(* Properties.                                                                 *)

AllLines == [journal : Journals, account : AllAccounts, direction : {"debit", "credit"},
             amount : Nat \ {0}, currency : {Home} \cup {CurrencyOf[t] : t \in Transfers}]

TypeOK ==
    /\ accounts \subseteq AllAccounts
    /\ lines \subseteq AllLines
    /\ status \in [Transfers -> Statuses]
    /\ pc \in [Sessions -> {"away", "locked", "posting"}]
    /\ journal \in [Sessions -> Journals \cup {NoJournal}]
    /\ made \in [Sessions -> SUBSET AllAccounts]
    /\ draft \in [Sessions -> SUBSET AllLines]
    /\ todo \in [Sessions -> Seq(AllLines)]
    /\ fundLock \in Transfers \cup {Nobody}
    /\ \A t \in Transfers : fundLock = t => pc[t] # "away"
    /\ boot \in {"off", "chart", "guard"}
    /\ spent \in [boots : Nat, aborts : Nat]

\* The balances say what the statuses say: a recipient is owed what is on its way
\* to it, the float is short of what was paid, the fund of what was paid or may
\* still be, whichever transactions interleave or roll back (transfer_service,
\* and "balances are derived, never stored").
Amounts(some) == MapThenSumSet(LAMBDA t : AmountOf[t], some)
With(states)  == {t \in Transfers : status[t] \in states}
Deposited     == IF Funded THEN Deposit ELSE 0

BooksExplainStatuses ==
    /\ \A t \in Transfers :
          Balance(PayableOf(t), lines) = Amounts({u \in With(Open) : PayableOf(u) = PayableOf(t)})
    /\ Balance(Float(Home), lines) = Deposited - Amounts(With({"succeeded"}))
    /\ Balance(Fund(Home), lines)  = Deposited - Amounts(With({"succeeded"} \cup Open))

\* What the lines say of the fund is never below zero, though its balance is read
\* from them alone and transfers, reversals and deposits are posted meanwhile: it is
\* read under the lock that the journal is committed under (initiate).
FundNeverShort == Balance(Fund(Home), lines) >= 0

\* However often the seeder runs, and wherever it dies, the program is funded once
\* (seed.py: "a second opening balance would balance, so no constraint would
\* catch it").
FundedOnce ==
    Cardinality({l.journal : l \in {x \in lines : Kind(x.journal) = "funding_deposit"}}) <= 1

\* Line by line, the books implement the lifecycle: each move of a transfer lands
\* with the one journal that belongs to it, whole, or not at all.
JournalsOf(kind, t) ==
    Cardinality({l.journal : l \in {x \in lines : Kind(x.journal) = kind /\ About(x.journal) = t}})

Promise == INSTANCE Lifecycle WITH
               status <- status,
               posted <- [t \in Transfers |->
                             [authorized |-> JournalsOf("transfer_authorized", t),
                              settled    |-> JournalsOf("transfer_settled", t),
                              reversed   |-> JournalsOf("transfer_reversed", t)]]
RefinesLifecycle == Promise!LifecycleSpec
=============================================================================
