----------------------------- MODULE LedgerProofs -----------------------------
(* Theorems about Ledger, for every value of its constants.                    *)
EXTENDS Ledger, FiniteSetTheorems, TLAPS

-----------------------------------------------------------------------------
(* The inductive invariant: which journals there are.                          *)

\* The journals that are about s, and have lines.
Of(s) == {l.journal : l \in {x \in lines : About(x.journal) = s}}

\* The ids the journals of t get, in the order they are posted.
First(t)        == <<"transfer_authorized", t, 0>>
Second(kind, t) == <<kind, t, 1>>
TheDeposit      == <<"funding_deposit", Seeder, 0>>

\* What a transfer has posted when it stands where it stands.
Expected(t) ==
    CASE status[t] = "none"      -> {}
      [] status[t] \in Open      -> {First(t)}
      [] status[t] = "succeeded" -> {First(t), Second("transfer_settled", t)}
      [] status[t] = "failed"    -> {First(t), Second("transfer_reversed", t)}

\* The journals of a transfer are those its status calls for.
JournalsFollowStatus == \A t \in Transfers : Of(t) = Expected(t)

\* The seeder posts one journal at most.
SeededOnce == Of(Seeder) \subseteq {TheDeposit}

\* What t may post next.
NextOf(t) ==
    CASE status[t] = "none" -> {First(t)}
      [] status[t] \in Open -> {Second("transfer_settled", t), Second("transfer_reversed", t)}
      [] OTHER              -> {}

\* A transaction under way writes the lines of one journal, which nobody else posts
\* and which is the next for what it is about.
InFlight ==
    /\ \A s \in Sessions :
          /\ \A l \in draft[s] : l.journal = journal[s]
          /\ \A i \in DOMAIN todo[s] : todo[s][i].journal = journal[s]
          /\ pc[s] # "posting" => draft[s] = {}
    /\ \A t \in Transfers :
          /\ pc[t] = "locked" => status[t] = "none" /\ Fund(CurrencyOf[t]) \in accounts
          /\ pc[t] = "posting" => journal[t] \in NextOf(t)
    /\ pc[Seeder] # "locked"
    /\ pc[Seeder] = "posting" => journal[Seeder] = TheDeposit /\ Of(Seeder) = {}
    /\ boot # "off" => pc[Seeder] = "away"

BooksInv == JournalsFollowStatus /\ SeededOnce /\ InFlight

-----------------------------------------------------------------------------
(* Sessions, journals and lines.                                               *)

LEMMA SessionsAre ==
    /\ Seeder \in Sessions /\ Seeder \notin Transfers
    /\ Transfers \subseteq Sessions /\ Sessions = Transfers \cup {Seeder}
    /\ Nobody \notin Transfers
BY BooksAssumption DEF Sessions, Seeder, Nobody

\* The numbers of journals that Fresh counts.
LEMMA Counts ==
    /\ Cardinality({}) = 0
    /\ \A x : Cardinality({x}) = 1
BY FS_EmptySet, FS_Singleton

LEMMA JournalsAre ==
    ASSUME NEW kind \in Kinds, NEW s \in Sessions, NEW n \in Nat
    PROVE  /\ <<kind, s, n>> \in Journals
           /\ Kind(<<kind, s, n>>) = kind /\ About(<<kind, s, n>>) = s
BY DEF Journals, Kind, About

LEMMA AccountsAre ==
    /\ Fund(Home) \in AllAccounts /\ Float(Home) \in AllAccounts
    /\ \A t \in Transfers : PayableOf(t) \in AllAccounts
BY DEF AllAccounts

\* A posting is a sequence of two lines of its journal.
LEMMA PairIsTyped ==
    ASSUME NEW j \in Journals, NEW debited \in AllAccounts, NEW credited \in AllAccounts,
           NEW amount \in Nat \ {0}, NEW currency \in {Home} \cup {CurrencyOf[t] : t \in Transfers}
    PROVE  /\ Pair(j, debited, credited, amount, currency) \in Seq(AllLines)
           /\ \A i \in DOMAIN Pair(j, debited, credited, amount, currency) :
                  Pair(j, debited, credited, amount, currency)[i].journal = j
<1> DEFINE d == Line(j, debited, "debit", amount, currency)
           c == Line(j, credited, "credit", amount, currency)
<1>1. d \in AllLines /\ c \in AllLines /\ d.journal = j /\ c.journal = j
  BY DEF Line, AllLines
<1>2. Pair(j, debited, credited, amount, currency) = <<d, c>>
  BY DEF Pair
<1> HIDE DEF d, c
<1>3. QED
  BY <1>1, <1>2

\* The next journal for a transfer, and for the seeder.
LEMMA FreshIsNext ==
    ASSUME BooksInv
    PROVE  /\ \A t \in Transfers :
                 /\ status[t] = "none" => Fresh("transfer_authorized", t) = First(t)
                 /\ status[t] \in Open => \A kind : Fresh(kind, t) = Second(kind, t)
           /\ Of(Seeder) = {} => Fresh("funding_deposit", Seeder) = TheDeposit
<1>1. \A kind, s : Fresh(kind, s) = <<kind, s, Cardinality(Of(s))>>
  BY DEF Fresh, Of
<1>2. ASSUME NEW t \in Transfers, status[t] = "none"
      PROVE  Fresh("transfer_authorized", t) = First(t)
  BY <1>1, <1>2, Counts DEF BooksInv, JournalsFollowStatus, Expected, First, Open
<1>3. ASSUME NEW t \in Transfers, NEW kind, status[t] \in Open
      PROVE  Fresh(kind, t) = Second(kind, t)
  <2>1. Of(t) = {First(t)}
    BY <1>3 DEF BooksInv, JournalsFollowStatus, Expected, Open
  <2>2. QED
    BY <1>1, <2>1, Counts DEF Second
<1>4. Of(Seeder) = {} => Fresh("funding_deposit", Seeder) = TheDeposit
  BY <1>1, Counts DEF TheDeposit
<1>5. QED
  BY <1>2, <1>3, <1>4

\* The journals are those of the type, and about what they say.
LEMMA NextAreJournals ==
    /\ TheDeposit \in Journals /\ About(TheDeposit) = Seeder
    /\ Kind(TheDeposit) = "funding_deposit"
    /\ \A t \in Transfers : \A j \in NextOf(t) :
           /\ j \in Journals /\ About(j) = t /\ j \notin Expected(t)
           /\ Kind(j) \in {"transfer_authorized", "transfer_settled", "transfer_reversed"}
<1>1. TheDeposit \in Journals /\ About(TheDeposit) = Seeder /\ Kind(TheDeposit) = "funding_deposit"
  BY SessionsAre, JournalsAre DEF TheDeposit, Kinds
<1>2. ASSUME NEW t \in Transfers, NEW j \in NextOf(t)
      PROVE  /\ j \in Journals /\ About(j) = t /\ j \notin Expected(t)
             /\ Kind(j) \in {"transfer_authorized", "transfer_settled", "transfer_reversed"}
  <2>1. /\ status[t] = "none" => j = First(t)
        /\ status[t] \in Open => j \in {Second("transfer_settled", t), Second("transfer_reversed", t)}
        /\ status[t] = "none" \/ status[t] \in Open
    BY <1>2 DEF NextOf, Open
  <2>2. CASE status[t] = "none"
    BY <2>1, <2>2, SessionsAre, JournalsAre DEF First, Kinds, Expected, Open
  <2>3. CASE status[t] \in Open
    <3>1. j \in Journals /\ About(j) = t
          /\ Kind(j) \in {"transfer_authorized", "transfer_settled", "transfer_reversed"}
      BY <2>1, <2>3, SessionsAre, JournalsAre DEF Second, Kinds
    <3>2. Expected(t) = {First(t)}
      BY <2>3 DEF Expected, Open
    <3>3. QED
      BY <2>1, <2>3, <3>1, <3>2 DEF First, Second
  <2>4. QED
    BY <2>1, <2>2, <2>3
<1>3. QED
  BY <1>1, <1>2

-----------------------------------------------------------------------------
(* The invariant is kept.                                                      *)

IInv == TypeOK /\ BooksInv

LEMMA IInvInit == Init => IInv
<1> SUFFICES ASSUME Init PROVE IInv
  OBVIOUS
<1>1. \A s : Of(s) = {}
  BY DEF Init, Of
<1>2. TypeOK
  BY BooksAssumption, SessionsAre DEF Init, TypeOK, Statuses, Open, Nobody
<1>3. BooksInv
  BY <1>1, SessionsAre
  DEF Init, BooksInv, JournalsFollowStatus, SeededOnce, InFlight, Expected, Open
<1>4. QED
  BY <1>2, <1>3 DEF IInv

\* A transaction that begins to post.
LEMMA PostKeeps ==
    ASSUME IInv, NEW s \in Sessions, NEW j \in Journals, NEW postings \in Seq(AllLines),
           \A i \in DOMAIN postings : postings[i].journal = j,
           Post(s, j, postings), pc[s] # "posting",
           UNCHANGED <<accounts, lines, status, draft>>,
           s \in Transfers => j \in NextOf(s) /\ boot' = boot,
           s = Seeder => j = TheDeposit /\ Of(Seeder) = {} /\ boot' = "off"
    PROVE  /\ BooksInv'
           /\ pc' \in [Sessions -> {"away", "locked", "posting"}]
           /\ journal' \in [Sessions -> Journals \cup {NoJournal}]
           /\ todo' \in [Sessions -> Seq(AllLines)]
<1>1. /\ pc' \in [Sessions -> {"away", "locked", "posting"}]
      /\ journal' \in [Sessions -> Journals \cup {NoJournal}]
      /\ todo' \in [Sessions -> Seq(AllLines)]
  BY DEF IInv, TypeOK, Post
<1>2. /\ pc'[s] = "posting" /\ journal'[s] = j /\ todo'[s] = postings /\ draft[s] = {}
      /\ \A r \in Sessions \ {s} : pc'[r] = pc[r] /\ journal'[r] = journal[r] /\ todo'[r] = todo[r]
  BY DEF IInv, TypeOK, Post, BooksInv, InFlight
<1>3. /\ \A r : Of(r)' = Of(r)
      /\ \A t \in Transfers : Expected(t)' = Expected(t) /\ NextOf(t)' = NextOf(t)
  BY DEF Of, Expected, NextOf
<1>4. JournalsFollowStatus' /\ SeededOnce'
  BY <1>3 DEF IInv, BooksInv, JournalsFollowStatus, SeededOnce
<1>5. /\ \A r \in Sessions :
            /\ \A l \in draft'[r] : l.journal = journal'[r]
            /\ \A i \in DOMAIN todo'[r] : todo'[r][i].journal = journal'[r]
            /\ pc'[r] # "posting" => draft'[r] = {}
      /\ \A t \in Transfers :
            /\ pc'[t] = "locked" => status'[t] = "none" /\ Fund(CurrencyOf[t]) \in accounts'
            /\ pc'[t] = "posting" => journal'[t] \in NextOf(t)'
  BY <1>2, <1>3, SessionsAre DEF IInv, BooksInv, InFlight
<1>6. /\ pc'[Seeder] # "locked"
      /\ pc'[Seeder] = "posting" => journal'[Seeder] = TheDeposit /\ Of(Seeder)' = {}
      /\ boot' # "off" => pc'[Seeder] = "away"
  BY <1>2, <1>3, SessionsAre DEF IInv, BooksInv, InFlight
<1>7. InFlight'
  BY <1>5, <1>6 DEF InFlight
<1>8. QED
  BY <1>1, <1>4, <1>7 DEF BooksInv

\* A transaction that ends has nothing under way.
LEMMA EndIs ==
    ASSUME TypeOK, NEW s \in Sessions, End(s)
    PROVE  /\ pc' \in [Sessions -> {"away", "locked", "posting"}]
           /\ journal' \in [Sessions -> Journals \cup {NoJournal}]
           /\ made' \in [Sessions -> SUBSET AllAccounts]
           /\ draft' \in [Sessions -> SUBSET AllLines]
           /\ todo' \in [Sessions -> Seq(AllLines)]
           /\ fundLock' \in Transfers \cup {Nobody}
           /\ \A t \in Transfers : fundLock' = t => pc'[t] # "away"
           /\ pc'[s] = "away" /\ draft'[s] = {} /\ todo'[s] = <<>>
           /\ \A r \in Sessions \ {s} : /\ pc'[r] = pc[r] /\ journal'[r] = journal[r]
                                        /\ draft'[r] = draft[r] /\ todo'[r] = todo[r]
<1>1. <<>> \in Seq(AllLines)
  OBVIOUS
<1>2. /\ pc' \in [Sessions -> {"away", "locked", "posting"}]
      /\ journal' \in [Sessions -> Journals \cup {NoJournal}]
      /\ made' \in [Sessions -> SUBSET AllAccounts]
      /\ draft' \in [Sessions -> SUBSET AllLines]
      /\ todo' \in [Sessions -> Seq(AllLines)]
  BY <1>1 DEF End, TypeOK
<1>3. /\ pc'[s] = "away" /\ draft'[s] = {} /\ todo'[s] = <<>>
      /\ \A r \in Sessions \ {s} : /\ pc'[r] = pc[r] /\ journal'[r] = journal[r]
                                   /\ draft'[r] = draft[r] /\ todo'[r] = todo[r]
  BY DEF End, TypeOK
<1>4. fundLock' \in Transfers \cup {Nobody}
  BY DEF End, TypeOK
<1>5. \A t \in Transfers : fundLock' = t => pc'[t] # "away"
  BY <1>3, SessionsAre DEF End, TypeOK
<1>6. QED
  BY <1>2, <1>3, <1>4, <1>5

\* Transactions under way, when one has ended and the rest stays.
LEMMA EndKeepsFlights ==
    ASSUME IInv, NEW s \in Sessions, End(s), accounts \subseteq accounts', boot' = boot,
           \A t \in Transfers : t # s => status'[t] = status[t],
           s # Seeder => Of(Seeder)' = Of(Seeder)
    PROVE  InFlight'
<1>1. /\ pc'[s] = "away" /\ draft'[s] = {} /\ todo'[s] = <<>>
      /\ \A r \in Sessions \ {s} : /\ pc'[r] = pc[r] /\ journal'[r] = journal[r]
                                   /\ draft'[r] = draft[r] /\ todo'[r] = todo[r]
  BY EndIs DEF IInv
<1>2. \A t \in Transfers : t # s => NextOf(t)' = NextOf(t)
  BY DEF NextOf
<1>3. /\ \A r \in Sessions :
            /\ \A l \in draft'[r] : l.journal = journal'[r]
            /\ \A i \in DOMAIN todo'[r] : todo'[r][i].journal = journal'[r]
            /\ pc'[r] # "posting" => draft'[r] = {}
  BY <1>1 DEF IInv, BooksInv, InFlight
<1>4. \A t \in Transfers :
            /\ pc'[t] = "locked" => status'[t] = "none" /\ Fund(CurrencyOf[t]) \in accounts'
            /\ pc'[t] = "posting" => journal'[t] \in NextOf(t)'
  BY <1>1, <1>2, SessionsAre DEF IInv, BooksInv, InFlight
<1>5. /\ pc'[Seeder] # "locked"
      /\ pc'[Seeder] = "posting" => journal'[Seeder] = TheDeposit /\ Of(Seeder)' = {}
      /\ boot' # "off" => pc'[Seeder] = "away"
  BY <1>1, SessionsAre DEF IInv, BooksInv, InFlight
<1>6. QED
  BY <1>3, <1>4, <1>5 DEF InFlight

\* A commit adds the one journal that was under way.
LEMMA CommitPosts ==
    ASSUME IInv, NEW s \in Sessions, Commit(s)
    PROVE  /\ Of(s)' = Of(s) \cup {journal[s]}
           /\ \A r \in Sessions \ {s} : Of(r)' = Of(r)
           /\ s \in Transfers => journal[s] \in NextOf(s)
           /\ s = Seeder => journal[s] = TheDeposit
<1>1. /\ s \in Transfers => journal[s] \in NextOf(s)
      /\ s = Seeder => journal[s] = TheDeposit /\ Of(s) = {}
  BY DEF IInv, BooksInv, InFlight, Commit
<1>2. About(journal[s]) = s /\ journal[s] \notin Of(s)
  BY <1>1, SessionsAre, NextAreJournals DEF IInv, BooksInv, JournalsFollowStatus
<1>3. /\ lines' = lines \cup draft[s]
      /\ \A l \in draft[s] : l.journal = journal[s]
  BY DEF IInv, BooksInv, InFlight, Commit
<1>4. draft[s] # {}
  <2>1. SUFFICES ASSUME draft[s] = {} PROVE FALSE
    OBVIOUS
  <2>2. {l \in lines \cup draft[s] : l.journal = journal[s]} = {}
    BY <1>2, <2>1 DEF Of
  <2>3. Cardinality({}) >= 2
    BY <2>2 DEF Commit, Balances
  <2>4. QED
    BY <2>3, Counts
<1>5. Of(s)' = Of(s) \cup {journal[s]}
  BY <1>2, <1>3, <1>4 DEF Of
<1>6. ASSUME NEW r \in Sessions \ {s} PROVE Of(r)' = Of(r)
  BY <1>2, <1>3 DEF Of
<1>7. QED
  BY <1>1, <1>5, <1>6

\* Where the journal takes the transfer.
LEMMA CommitMoves ==
    ASSUME IInv, NEW t \in Transfers, Commit(t)
    PROVE  /\ \A u \in Transfers \ {t} : status'[u] = status[u]
           /\ \/ status[t] = "none" /\ status'[t] = "pending"
              \/ status[t] \in Open /\ status'[t] \in {"succeeded", "failed"}
           /\ Expected(t)' = Expected(t) \cup {journal[t]}
<1>1. journal[t] \in NextOf(t)
  BY SessionsAre, CommitPosts
<1>2. status' = [status EXCEPT ![t] = After(Kind(journal[t]))] /\ status[t] \in Statuses
  BY DEF Commit, IInv, TypeOK
<1>3. status'[t] = After(Kind(journal[t])) /\ \A u \in Transfers \ {t} : status'[u] = status[u]
  BY <1>2 DEF IInv, TypeOK
<1>4. CASE status[t] = "none"
  <2>1. journal[t] = First(t) /\ Expected(t) = {}
    BY <1>1, <1>4 DEF NextOf, Expected, Open
  <2>2. status'[t] = "pending"
    BY <1>3, <2>1 DEF After, Kind, First
  <2>3. Expected(t)' = {First(t)}
    BY <2>2 DEF Expected, Open
  <2>4. QED
    BY <1>3, <1>4, <2>1, <2>2, <2>3
<1>5. CASE status[t] \in Open
  <2>1. Expected(t) = {First(t)}
    BY <1>5 DEF Expected, Open
  <2>2. journal[t] \in {Second("transfer_settled", t), Second("transfer_reversed", t)}
    BY <1>1, <1>5 DEF NextOf, Open
  <2>3. CASE journal[t] = Second("transfer_settled", t)
    <3>1. status'[t] = "succeeded"
      BY <1>3, <2>3 DEF After, Kind, Second
    <3>2. Expected(t)' = {First(t), Second("transfer_settled", t)}
      BY <3>1 DEF Expected, Open
    <3>3. QED
      BY <1>3, <1>5, <2>1, <2>3, <3>1, <3>2
  <2>4. CASE journal[t] = Second("transfer_reversed", t)
    <3>1. status'[t] = "failed"
      BY <1>3, <2>4 DEF After, Kind, Second
    <3>2. Expected(t)' = {First(t), Second("transfer_reversed", t)}
      BY <3>1 DEF Expected, Open
    <3>3. QED
      BY <1>3, <1>5, <2>1, <2>4, <3>1, <3>2
  <2>5. QED
    BY <2>2, <2>3, <2>4
<1>6. QED
  BY <1>1, <1>4, <1>5 DEF NextOf

\* Authorizing, settling and reversing begin to post the next journal.
LEMMA MovePosts ==
    ASSUME IInv, NEW t \in Transfers, Authorize(t) \/ MarkSucceeded(t) \/ MarkFailed(t)
    PROVE  IInv'
<1>1. /\ AmountOf[t] \in Nat \ {0} /\ t \in Sessions /\ t # Seeder
      /\ CurrencyOf[t] \in {Home} \cup {CurrencyOf[u] : u \in Transfers}
  BY BooksAssumption, SessionsAre
<1>2. \E j \in NextOf(t), postings \in Seq(AllLines) :
          Post(t, j, postings) /\ \A i \in DOMAIN postings : postings[i].journal = j
  <2>1. CASE Authorize(t)
    <3>1. status[t] = "none" /\ Fund(CurrencyOf[t]) \in AllAccounts
      BY <2>1 DEF Authorize, IInv, TypeOK, BooksInv, InFlight
    <3>2. First(t) \in NextOf(t) /\ First(t) \in Journals
          /\ Fresh("transfer_authorized", t) = First(t)
      BY <3>1, FreshIsNext, NextAreJournals DEF IInv, NextOf, Open
    <3>3. Post(t, First(t), AuthorizedLines(First(t), t))
      BY <2>1, <3>2 DEF Authorize
    <3>4. /\ AuthorizedLines(First(t), t) \in Seq(AllLines)
          /\ \A i \in DOMAIN AuthorizedLines(First(t), t) :
                 AuthorizedLines(First(t), t)[i].journal = First(t)
      BY <1>1, <3>1, <3>2, AccountsAre, PairIsTyped DEF AuthorizedLines
    <3>5. QED
      BY <3>2, <3>3, <3>4
  <2>2. CASE MarkSucceeded(t)
    <3> DEFINE j == Second("transfer_settled", t)
    <3>1. status[t] \in Open /\ Float(CurrencyOf[t]) \in AllAccounts
      BY <2>2 DEF MarkSucceeded, IInv, TypeOK
    <3>2. j \in NextOf(t) /\ j \in Journals /\ Fresh("transfer_settled", t) = j
      BY <3>1, FreshIsNext, NextAreJournals DEF IInv, NextOf, Open
    <3>3. Post(t, j, SettledLines(j, t))
      BY <2>2, <3>2 DEF MarkSucceeded
    <3>4. /\ SettledLines(j, t) \in Seq(AllLines)
          /\ \A i \in DOMAIN SettledLines(j, t) : SettledLines(j, t)[i].journal = j
      BY <1>1, <3>1, <3>2, AccountsAre, PairIsTyped DEF SettledLines
    <3>5. QED
      BY <3>2, <3>3, <3>4
  <2>3. CASE MarkFailed(t)
    <3> DEFINE j == Second("transfer_reversed", t)
    <3>1. status[t] \in Open /\ Fund(CurrencyOf[t]) \in AllAccounts
      BY <2>3 DEF MarkFailed, IInv, TypeOK
    <3>2. j \in NextOf(t) /\ j \in Journals /\ Fresh("transfer_reversed", t) = j
      BY <3>1, FreshIsNext, NextAreJournals DEF IInv, NextOf, Open
    <3>3. Post(t, j, ReversedLines(j, t))
      BY <2>3, <3>2 DEF MarkFailed
    <3>4. /\ ReversedLines(j, t) \in Seq(AllLines)
          /\ \A i \in DOMAIN ReversedLines(j, t) : ReversedLines(j, t)[i].journal = j
      BY <1>1, <3>1, <3>2, AccountsAre, PairIsTyped DEF ReversedLines
    <3>5. QED
      BY <3>2, <3>3, <3>4
  <2>4. QED
    BY <2>1, <2>2, <2>3
<1>3. /\ UNCHANGED <<accounts, lines, status, draft, boot, fundLock, spent>>
      /\ pc[t] # "posting" /\ UpsertPayable(t)
  BY DEF Authorize, MarkSucceeded, MarkFailed
<1>4. PICK j \in NextOf(t), postings \in Seq(AllLines) :
          Post(t, j, postings) /\ \A i \in DOMAIN postings : postings[i].journal = j
  BY <1>2
<1>5. j \in Journals
  BY NextAreJournals
<1>6. /\ BooksInv'
      /\ pc' \in [Sessions -> {"away", "locked", "posting"}]
      /\ journal' \in [Sessions -> Journals \cup {NoJournal}]
      /\ todo' \in [Sessions -> Seq(AllLines)]
  BY <1>1, <1>3, <1>4, <1>5, PostKeeps
<1>7. made' \in [Sessions -> SUBSET AllAccounts]
  BY <1>3, AccountsAre DEF UpsertPayable, IInv, TypeOK
<1>8. \A u \in Transfers : fundLock' = u => pc'[u] # "away"
  BY <1>1, <1>3, <1>4, SessionsAre DEF Post, IInv, TypeOK
<1>9. TypeOK'
  BY <1>3, <1>6, <1>7, <1>8 DEF IInv, TypeOK
<1>10. QED
  BY <1>6, <1>9 DEF IInv

\* The opening deposit is posted when there is none.
LEMMA DepositPosts ==
    ASSUME IInv, SeedDeposit
    PROVE  IInv'
<1> DEFINE j == TheDeposit
<1>1. Seeder \in Sessions /\ Seeder \notin Transfers /\ j \in Journals
      /\ pc[Seeder] # "posting" /\ Deposit \in Nat \ {0}
  BY SessionsAre, NextAreJournals, BooksAssumption DEF IInv, BooksInv, InFlight, SeedDeposit
<1>2. Of(Seeder) = {}
  BY NextAreJournals DEF IInv, BooksInv, SeededOnce, SeedDeposit, Funded, Of
<1>3. Post(Seeder, j, DepositLines(j))
  BY <1>2, FreshIsNext DEF IInv, SeedDeposit
<1>4. /\ DepositLines(j) \in Seq(AllLines)
      /\ \A i \in DOMAIN DepositLines(j) : DepositLines(j)[i].journal = j
  BY <1>1, AccountsAre, PairIsTyped DEF DepositLines
<1>5. /\ UNCHANGED <<accounts, lines, status, made, draft, fundLock, spent>> /\ boot' = "off"
  BY DEF SeedDeposit
<1> HIDE DEF j
<1>6. /\ BooksInv'
      /\ pc' \in [Sessions -> {"away", "locked", "posting"}]
      /\ journal' \in [Sessions -> Journals \cup {NoJournal}]
      /\ todo' \in [Sessions -> Seq(AllLines)]
  BY <1>1, <1>2, <1>3, <1>4, <1>5, PostKeeps DEF j
<1>7. \A u \in Transfers : fundLock' = u => pc'[u] # "away"
  BY <1>1, <1>3, <1>5, SessionsAre DEF Post, IInv, TypeOK
<1>8. TypeOK'
  BY <1>5, <1>6, <1>7 DEF IInv, TypeOK
<1>9. QED
  BY <1>6, <1>8 DEF IInv

LEMMA CommitKeeps ==
    ASSUME IInv, NEW s \in Sessions, Commit(s)
    PROVE  IInv'
<1>1. /\ End(s) /\ UNCHANGED <<boot, spent>> /\ accounts' = accounts \cup made[s]
      /\ lines' = lines \cup draft[s]
      /\ s \notin Transfers => status' = status
  BY DEF Commit
<1>2. \A t \in Transfers : t # s => status'[t] = status[t]
  BY <1>1, CommitMoves
<1>3. status' \in [Transfers -> Statuses]
  <2>1. CASE s \in Transfers
    <3>1. status'[s] \in Statuses
      BY <2>1, CommitMoves DEF Statuses, Open
    <3>2. status' = [status EXCEPT ![s] = status'[s]]
      BY <2>1 DEF Commit, IInv, TypeOK
    <3>3. QED
      BY <3>1, <3>2 DEF IInv, TypeOK
  <2>2. CASE s \notin Transfers
    BY <1>1, <2>2 DEF IInv, TypeOK
  <2>3. QED
    BY <2>1, <2>2
<1>4. TypeOK'
  BY <1>1, <1>3, EndIs DEF IInv, TypeOK
<1>5. InFlight'
  BY <1>1, <1>2, SessionsAre, CommitPosts, EndKeepsFlights
<1>6. ASSUME NEW t \in Transfers PROVE Of(t)' = Expected(t)'
  <2>1. Of(t) = Expected(t) /\ t \in Sessions
    BY SessionsAre DEF IInv, BooksInv, JournalsFollowStatus
  <2>2. CASE t = s
    BY <2>1, <2>2, CommitPosts, CommitMoves
  <2>3. CASE t # s
    <3>1. Expected(t)' = Expected(t)
      BY <1>2, <2>3 DEF Expected
    <3>2. QED
      BY <2>1, <2>3, <3>1, CommitPosts
  <2>4. QED
    BY <2>2, <2>3
<1>7. SeededOnce'
  BY SessionsAre, CommitPosts DEF IInv, BooksInv, SeededOnce
<1>8. QED
  BY <1>4, <1>5, <1>6, <1>7 DEF IInv, BooksInv, JournalsFollowStatus

LEMMA IInvStep == IInv /\ [Next]_vars => IInv'
<1> SUFFICES ASSUME IInv, [Next]_vars PROVE IInv'
  OBVIOUS
<1>1. ASSUME UNCHANGED <<lines, status>> PROVE JournalsFollowStatus' /\ SeededOnce'
  BY <1>1 DEF IInv, BooksInv, JournalsFollowStatus, SeededOnce, Of, Expected
<1>2. ASSUME NEW t \in Transfers, LockFund(t) PROVE IInv'
  <2>1. TypeOK'
    BY <1>2, SessionsAre DEF LockFund, IInv, TypeOK
  <2>2. InFlight'
    BY <1>2, SessionsAre DEF LockFund, IInv, TypeOK, BooksInv, InFlight, NextOf, Of
  <2>3. QED
    BY <1>1, <1>2, <2>1, <2>2 DEF LockFund, IInv, BooksInv
<1>3. ASSUME NEW s \in Sessions, End(s), UNCHANGED <<accounts, lines, status, boot>>,
             spent' \in [boots : Nat, aborts : Nat]
      PROVE  IInv'
  <2>1. TypeOK'
    BY <1>3, EndIs DEF IInv, TypeOK
  <2>2. InFlight'
    BY <1>3, EndKeepsFlights DEF Of
  <2>3. QED
    BY <1>1, <1>3, <2>1, <2>2 DEF IInv, BooksInv
<1>4. ASSUME NEW t \in Transfers, Refuse(t) PROVE IInv'
  BY <1>3, <1>4, SessionsAre DEF Refuse, IInv, TypeOK
<1>5. ASSUME NEW s \in Sessions, Abort(s) PROVE IInv'
  <2>1. spent' \in [boots : Nat, aborts : Nat]
    BY <1>5 DEF Abort, IInv, TypeOK
  <2>2. QED
    BY <1>3, <1>5, <2>1 DEF Abort
<1>6. ASSUME NEW t \in Transfers, MarkProcessing(t) PROVE IInv'
  <2>1. status'[t] = "processing" /\ status[t] = "pending" /\ pc[t] = "away"
        /\ \A u \in Transfers \ {t} : status'[u] = status[u]
    BY <1>6 DEF MarkProcessing, IInv, TypeOK
  <2>2. /\ \A u \in Transfers : Expected(u)' = Expected(u) /\ NextOf(u)' = NextOf(u)
        /\ \A r : Of(r)' = Of(r)
    BY <1>6, <2>1 DEF Expected, NextOf, Open, Of, MarkProcessing
  <2>3. TypeOK'
    BY <1>6 DEF MarkProcessing, IInv, TypeOK, Statuses, Open
  <2>4. InFlight'
    BY <1>6, <2>1, <2>2 DEF MarkProcessing, IInv, BooksInv, InFlight
  <2>5. JournalsFollowStatus' /\ SeededOnce'
    BY <2>2 DEF IInv, BooksInv, JournalsFollowStatus, SeededOnce
  <2>6. QED
    BY <2>3, <2>4, <2>5 DEF IInv, BooksInv
<1>7. ASSUME NEW s \in Sessions, InsertLine(s) PROVE IInv'
  <2>1. /\ todo[s] \in Seq(AllLines) /\ todo[s] # <<>> /\ pc[s] = "posting"
        /\ \A i \in DOMAIN todo[s] : todo[s][i].journal = journal[s]
    BY <1>7 DEF InsertLine, IInv, TypeOK, BooksInv, InFlight
  <2>2. /\ Head(todo[s]) \in AllLines /\ Tail(todo[s]) \in Seq(AllLines)
        /\ Head(todo[s]).journal = journal[s]
        /\ \A i \in DOMAIN Tail(todo[s]) : Tail(todo[s])[i].journal = journal[s]
    BY <2>1
  <2>3. TypeOK'
    BY <1>7, <2>2 DEF InsertLine, IInv, TypeOK
  <2>4. /\ draft'[s] = draft[s] \cup {Head(todo[s])} /\ todo'[s] = Tail(todo[s])
        /\ \A r \in Sessions \ {s} : draft'[r] = draft[r] /\ todo'[r] = todo[r]
        /\ UNCHANGED <<accounts, lines, status, pc, journal, boot>>
    BY <1>7 DEF InsertLine, IInv, TypeOK
  <2>5. \A r \in Sessions :
            /\ \A l \in draft'[r] : l.journal = journal'[r]
            /\ \A i \in DOMAIN todo'[r] : todo'[r][i].journal = journal'[r]
            /\ pc'[r] # "posting" => draft'[r] = {}
    <3>1. ASSUME NEW r \in Sessions \ {s}
          PROVE  /\ \A l \in draft'[r] : l.journal = journal'[r]
                 /\ \A i \in DOMAIN todo'[r] : todo'[r][i].journal = journal'[r]
                 /\ pc'[r] # "posting" => draft'[r] = {}
      <4>1. draft'[r] = draft[r] /\ todo'[r] = todo[r] /\ pc' = pc /\ journal' = journal
        BY <2>4
      <4>2. QED
        BY <4>1 DEF IInv, BooksInv, InFlight
    <3>2. \A l \in draft[s] : l.journal = journal[s]
      BY DEF IInv, BooksInv, InFlight
    <3>3. \A l \in draft'[s] : l.journal = journal'[s]
      BY <2>2, <2>4, <3>2
    <3>4. \A i \in DOMAIN todo'[s] : todo'[s][i].journal = journal'[s]
      BY <2>2, <2>4
    <3>5. pc'[s] = "posting"
      BY <2>1, <2>4
    <3>6. QED
      BY <3>1, <3>3, <3>4, <3>5
  <2>6. InFlight'
    BY <2>4, <2>5 DEF IInv, BooksInv, InFlight, NextOf, Of
  <2>7. QED
    BY <1>1, <2>3, <2>4, <2>6 DEF IInv, BooksInv
<1>8. CASE Boot \/ Die \/ SeedChart \/ SkipDeposit
  <2>1. TypeOK'
    <3>1. /\ UNCHANGED <<lines, status, pc, journal, made, draft, todo, fundLock>>
          /\ accounts' \subseteq AllAccounts /\ boot' \in {"off", "chart", "guard"}
      BY <1>8, AccountsAre DEF Boot, Die, SeedChart, SkipDeposit, IInv, TypeOK
    <3>2. spent' \in [boots : Nat, aborts : Nat]
      BY <1>8 DEF Boot, Die, SeedChart, SkipDeposit, IInv, TypeOK
    <3>3. QED
      BY <3>1, <3>2 DEF IInv, TypeOK
  <2>2. /\ UNCHANGED <<lines, status, pc, journal, draft, todo>> /\ accounts \subseteq accounts'
        /\ boot' # "off" => pc[Seeder] = "away"
    BY <1>8 DEF Boot, Die, SeedChart, SkipDeposit, IInv, BooksInv, InFlight
  <2>3. InFlight'
    BY <2>2 DEF IInv, BooksInv, InFlight, NextOf, Of
  <2>4. QED
    BY <1>1, <2>1, <2>2, <2>3 DEF IInv, BooksInv
<1>9. CASE UNCHANGED vars
  <2>1. TypeOK'
    BY <1>9 DEF vars, IInv, TypeOK
  <2>2. InFlight'
    BY <1>9 DEF vars, IInv, BooksInv, InFlight, NextOf, Of
  <2>3. QED
    BY <1>1, <1>9, <2>1, <2>2 DEF vars, IInv, BooksInv
<1>10. QED
  BY <1>2, <1>4, <1>5, <1>6, <1>7, <1>8, <1>9, MovePosts, DepositPosts, CommitKeeps
  DEF Next, Move

-----------------------------------------------------------------------------
(* Theorems.                                                                   *)

\* The journals there are follow from where the transfers stand, and what is under
\* way is the next of them.
THEOREM LedgerCorrect == Spec => []IInv
<1>1. QED
  BY IInvInit, IInvStep, PTL DEF Spec

\* Accounts, lines and transactions have their types, and a lock on the fund is
\* held by a transaction that is open.
THEOREM TypeCorrect == Spec => []TypeOK
<1>1. IInv => TypeOK
  BY DEF IInv
<1>2. QED
  BY <1>1, LedgerCorrect, PTL

\* A deposit is what the seeder posts, and it posts one.
LEMMA DepositsAreOne ==
    ASSUME IInv, NEW l \in lines, Kind(l.journal) = "funding_deposit"
    PROVE  l.journal = TheDeposit /\ TheDeposit \in Of(Seeder)
<1>1. l.journal \in Journals /\ About(l.journal) \in Sessions
  BY DEF IInv, TypeOK, AllLines, Journals, About
<1>2. l.journal \in Of(About(l.journal))
  BY DEF Of
<1>3. CASE About(l.journal) = Seeder
  BY <1>2, <1>3 DEF IInv, BooksInv, SeededOnce
<1>4. ASSUME NEW t \in Transfers, About(l.journal) = t PROVE FALSE
  <2>1. l.journal \in Expected(t)
    BY <1>2, <1>4 DEF IInv, BooksInv, JournalsFollowStatus
  <2>2. l.journal \in {First(t), Second("transfer_settled", t), Second("transfer_reversed", t)}
    BY <2>1 DEF Expected, IInv, TypeOK, Statuses
  <2>3. QED
    BY <2>2 DEF First, Second, Kind
<1>5. QED
  BY <1>1, <1>3, <1>4, SessionsAre

LEMMA OneDeposit == IInv => FundedOnce
<1> SUFFICES ASSUME IInv PROVE FundedOnce
  OBVIOUS
<1> DEFINE deposits == {l.journal : l \in {x \in lines : Kind(x.journal) = "funding_deposit"}}
<1>1. \A l \in lines : Kind(l.journal) = "funding_deposit" => l.journal = TheDeposit
  BY DepositsAreOne
<1>2. deposits = {} \/ deposits = {TheDeposit}
  BY <1>1
<1>3. Cardinality(deposits) \in {0, 1}
  BY <1>2, Counts
<1> HIDE DEF deposits
<1>4. Cardinality(deposits) <= 1
  BY <1>3
<1>5. QED
  BY <1>4 DEF FundedOnce, deposits

\* However often the seeder runs, and wherever it or a transfer is interrupted,
\* the program is funded once.
THEOREM ProgramFundedOnce == Spec => []FundedOnce
<1>1. QED
  BY OneDeposit, LedgerCorrect, PTL

-----------------------------------------------------------------------------
(* The books implement the lifecycle.                                          *)

\* What a transfer has posted, as its status says.
PostedFor(state) ==
    [authorized |-> IF state = "none" THEN 0 ELSE 1,
     settled    |-> IF state = "succeeded" THEN 1 ELSE 0,
     reversed   |-> IF state = "failed" THEN 1 ELSE 0]

\* The journals of each kind can be counted off the status.
LEMMA CountsFollowStatus ==
    ASSUME IInv, NEW t \in Transfers
    PROVE  [authorized |-> JournalsOf("transfer_authorized", t),
            settled    |-> JournalsOf("transfer_settled", t),
            reversed   |-> JournalsOf("transfer_reversed", t)] = PostedFor(status[t])
<1>1. Of(t) = Expected(t) /\ status[t] \in Statuses
  BY DEF IInv, BooksInv, JournalsFollowStatus, TypeOK
<1>2. \A kind : JournalsOf(kind, t) = Cardinality({j \in Of(t) : Kind(j) = kind})
  <2>1. SUFFICES ASSUME NEW kind
                 PROVE  JournalsOf(kind, t) = Cardinality({j \in Of(t) : Kind(j) = kind})
    OBVIOUS
  <2>2. {l.journal : l \in {x \in lines : Kind(x.journal) = kind /\ About(x.journal) = t}}
            = {j \in Of(t) : Kind(j) = kind}
    BY DEF Of
  <2>3. QED
    BY <2>2 DEF JournalsOf
<1>3. /\ Kind(First(t)) = "transfer_authorized"
      /\ \A kind : Kind(Second(kind, t)) = kind
  BY DEF Kind, First, Second
<1>4. CASE status[t] = "none"
  <2>1. Of(t) = {}
    BY <1>1, <1>4 DEF Expected, Open
  <2>2. \A kind : {j \in Of(t) : Kind(j) = kind} = {}
    BY <2>1
  <2>3. QED
    BY <1>2, <1>4, <2>2, Counts DEF PostedFor
<1>5. CASE status[t] \in Open
  <2>1. Of(t) = {First(t)}
    BY <1>1, <1>5 DEF Expected, Open
  <2>2. /\ {j \in Of(t) : Kind(j) = "transfer_authorized"} = {First(t)}
        /\ {j \in Of(t) : Kind(j) = "transfer_settled"} = {}
        /\ {j \in Of(t) : Kind(j) = "transfer_reversed"} = {}
    BY <1>3, <2>1
  <2>3. QED
    BY <1>2, <1>5, <2>2, Counts DEF PostedFor, Open
<1>6. CASE status[t] = "succeeded"
  <2>1. Of(t) = {First(t), Second("transfer_settled", t)}
    BY <1>1, <1>6 DEF Expected, Open
  <2>2. /\ {j \in Of(t) : Kind(j) = "transfer_authorized"} = {First(t)}
        /\ {j \in Of(t) : Kind(j) = "transfer_settled"} = {Second("transfer_settled", t)}
        /\ {j \in Of(t) : Kind(j) = "transfer_reversed"} = {}
    BY <1>3, <2>1
  <2>3. QED
    BY <1>2, <1>6, <2>2, Counts DEF PostedFor
<1>7. CASE status[t] = "failed"
  <2>1. Of(t) = {First(t), Second("transfer_reversed", t)}
    BY <1>1, <1>7 DEF Expected, Open
  <2>2. /\ {j \in Of(t) : Kind(j) = "transfer_authorized"} = {First(t)}
        /\ {j \in Of(t) : Kind(j) = "transfer_settled"} = {}
        /\ {j \in Of(t) : Kind(j) = "transfer_reversed"} = {Second("transfer_reversed", t)}
    BY <1>3, <2>1
  <2>3. QED
    BY <1>2, <1>7, <2>2, Counts DEF PostedFor
<1>8. QED
  BY <1>1, <1>4, <1>5, <1>6, <1>7 DEF Statuses

\* What each step does to a transfer.
LEMMA StatusMoves ==
    ASSUME IInv, [Next]_vars, NEW t \in Transfers
    PROVE  \/ status'[t] = status[t]
           \/ status[t] = "none" /\ status'[t] = "pending"
           \/ status[t] = "pending" /\ status'[t] = "processing"
           \/ status[t] \in Open /\ status'[t] \in {"succeeded", "failed"}
<1>1. ASSUME NEW u \in Transfers, MarkProcessing(u)
      PROVE  status'[t] = status[t] \/ (status[t] = "pending" /\ status'[t] = "processing")
  BY <1>1 DEF MarkProcessing, IInv, TypeOK
<1>2. ASSUME NEW s \in Sessions, Commit(s), s \in Transfers
      PROVE  \/ status'[t] = status[t]
             \/ status[t] = "none" /\ status'[t] = "pending"
             \/ status[t] \in Open /\ status'[t] \in {"succeeded", "failed"}
  BY <1>2, CommitMoves
<1>3. ASSUME NEW s \in Sessions, s \notin Transfers, Commit(s) PROVE status'[t] = status[t]
  BY <1>3 DEF Commit
<1>4. ASSUME NEW u \in Transfers,
             LockFund(u) \/ Refuse(u) \/ Authorize(u) \/ MarkSucceeded(u) \/ MarkFailed(u)
      PROVE  status' = status
  BY <1>4 DEF LockFund, Refuse, Authorize, MarkSucceeded, MarkFailed
<1>5. ASSUME NEW s \in Sessions, InsertLine(s) \/ Abort(s) PROVE status' = status
  BY <1>5 DEF InsertLine, Abort
<1>6. CASE Boot \/ Die \/ SeedChart \/ SkipDeposit \/ SeedDeposit
  BY <1>6 DEF Boot, Die, SeedChart, SkipDeposit, SeedDeposit
<1>7. CASE UNCHANGED vars
  BY <1>7 DEF vars
<1>8. QED
  BY <1>1, <1>2, <1>3, <1>4, <1>5, <1>6, <1>7 DEF Next, Move

\* Each move of a transfer lands with the one journal that belongs to it, whole, or
\* not at all, however transactions interleave, roll back and die.
THEOREM BooksKeepPromise == Spec => RefinesLifecycle
<1> DEFINE Posted == [t \in Transfers |-> [authorized |-> JournalsOf("transfer_authorized", t),
                                          settled    |-> JournalsOf("transfer_settled", t),
                                          reversed   |-> JournalsOf("transfer_reversed", t)]]
<1>1. IInv => Posted = [t \in Transfers |-> PostedFor(status[t])]
  BY CountsFollowStatus
<1>2. (IInv => Posted = [t \in Transfers |-> PostedFor(status[t])])'
  BY <1>1, PTL
<1>3. Init => Promise!LifecycleInit
  <2>1. SUFFICES ASSUME Init PROVE Promise!LifecycleInit
    OBVIOUS
  <2>2. Posted = [t \in Transfers |-> PostedFor("none")]
    BY <1>1, <2>1, IInvInit DEF Init
  <2>3. QED
    BY <2>1, <2>2 DEF Init, PostedFor, Promise!LifecycleInit, Promise!NothingPosted
<1>4. IInv /\ IInv' /\ [Next]_vars => Promise!LifecycleNext
  <2> SUFFICES ASSUME IInv, IInv', [Next]_vars PROVE Promise!LifecycleNext
    OBVIOUS
  <2>1. Posted = [t \in Transfers |-> PostedFor(status[t])]
    BY <1>1
  <2>2. Posted' = [t \in Transfers |-> PostedFor(status'[t])]
    BY <1>2
  <2> HIDE DEF Posted
  <2>3. status' = [t \in Transfers |-> status'[t]] /\ Posted' = [t \in Transfers |-> Posted'[t]]
    BY <2>2 DEF IInv, TypeOK
  <2>4. ASSUME NEW t \in Transfers
        PROVE  \/ status'[t] = status[t] /\ Posted'[t] = Posted[t]
               \/ /\ status[t] = "none" /\ status'[t] = "pending"
                  /\ Posted'[t] = [Posted[t] EXCEPT !.authorized = @ + 1]
               \/ /\ status[t] = "pending" /\ status'[t] = "processing"
                  /\ Posted'[t] = Posted[t]
               \/ /\ status[t] \in {"pending", "processing"} /\ status'[t] = "succeeded"
                  /\ Posted'[t] = [Posted[t] EXCEPT !.settled = @ + 1]
               \/ /\ status[t] \in {"pending", "processing"} /\ status'[t] = "failed"
                  /\ Posted'[t] = [Posted[t] EXCEPT !.reversed = @ + 1]
    <3>1. Posted[t] = PostedFor(status[t]) /\ Posted'[t] = PostedFor(status'[t])
      BY <2>1, <2>2
    <3>2. QED
      BY <3>1, StatusMoves DEF PostedFor, Open
  <2>5. QED
    BY <2>3, <2>4
    DEF Promise!LifecycleNext, Promise!Kept, Promise!Authorized, Promise!HandedOver,
        Promise!Paid, Promise!Reversed, Posted
<1>5. QED
  BY <1>3, <1>4, LedgerCorrect, PTL DEF Spec, RefinesLifecycle, Promise!LifecycleSpec
=============================================================================
