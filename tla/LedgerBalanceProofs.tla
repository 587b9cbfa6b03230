------------------------- MODULE LedgerBalanceProofs -------------------------
(* Theorems about the balances of Ledger, on top of LedgerProofs: every commit *)
(* adds one whole journal, hence the balances say what the statuses say, and   *)
(* the fund is never overdrawn.                                                *)
EXTENDS LedgerProofs, Sums

-----------------------------------------------------------------------------
(* Balances, as lines are added.                                               *)

LineAmounts == [l \in AllLines |-> l.amount]

\* The total of lines is a sum of Sums.
LEMMA TotalIsSum ==
    ASSUME NEW some \in SUBSET AllLines, IsFiniteSet(some)
    PROVE  Total(some) = Sum(LineAmounts, some)
<1> DEFINE Unfolds(f) ==
              f = [s \in SUBSET some |->
                      IF s = {} THEN 0 ELSE Pick(s).amount + f[s \ {Pick(s)}]]
           it == CHOOSE f : Unfolds(f)
<1>1. Total(some) = it[some]
  BY DEF Total, MapThenSumSet, MapThenFoldSet, Pick
<1>2. ASSUME NEW s \in SUBSET some, s # {} PROVE LineAmounts[Pick(s)] = Pick(s).amount
  BY <1>2, PickIsMember DEF LineAmounts
<1>3. ASSUME NEW f PROVE Unfolds(f) <=> SumsBelow(LineAmounts, f, some)
  BY <1>2 DEF SumsBelow, Unfold
<1>4. PICK f : SumsBelow(LineAmounts, f, some) /\ Sum(LineAmounts, some) = f[some]
  BY SumIsSum
<1> HIDE DEF Unfolds
<1>5. SumsBelow(LineAmounts, it, some)
  BY <1>3, <1>4
<1>6. it[some] = f[some]
  BY <1>4, <1>5, SumsAgree
<1>7. QED
  BY <1>1, <1>4, <1>6

LEMMA LineAmountsAreNumbers == \A l \in AllLines : LineAmounts[l] \in Int /\ LineAmounts[l] = l.amount
BY DEF LineAmounts, AllLines

\* One more line.
LEMMA TotalGrows ==
    ASSUME NEW some \in SUBSET AllLines, IsFiniteSet(some), NEW l \in AllLines, l \notin some
    PROVE  /\ Total(some) \in Int
           /\ Total(some \cup {l}) = Total(some) + l.amount
<1>1. IsFiniteSet(some \cup {l}) /\ some \cup {l} \in SUBSET AllLines
  BY FS_AddElement
<1>2. Sum(LineAmounts, some) \in Int
  BY LineAmountsAreNumbers, SumSplits
<1>3. Sum(LineAmounts, some \cup {l}) = Sum(LineAmounts, some) + LineAmounts[l]
  BY LineAmountsAreNumbers, SumGrows
<1>4. Total(some \cup {l}) = Sum(LineAmounts, some \cup {l})
  BY <1>1, TotalIsSum
<1>5. QED
  BY <1>2, <1>3, <1>4, TotalIsSum, LineAmountsAreNumbers

\* What a line does to an account.
Effect(a, l) ==
    IF l.account # a THEN 0 ELSE IF l.direction = Natural(a) THEN l.amount ELSE 0 - l.amount

\* The lines of an account in its natural direction, and the others.
Toward(a, seen)    == {l \in {x \in seen : x.account = a} : l.direction = Natural(a)}
Against(a, seen)  == {l \in {x \in seen : x.account = a} : l.direction # Natural(a)}

LEMMA BalanceGrows ==
    ASSUME NEW seen \in SUBSET AllLines, IsFiniteSet(seen), NEW l \in AllLines, l \notin seen, NEW a
    PROVE  /\ Balance(a, seen) \in Int
           /\ Balance(a, seen \cup {l}) = Balance(a, seen) + Effect(a, l)
<1>1. \A s : Balance(a, s) = Total(Toward(a, s)) - Total(Against(a, s))
  BY DEF Balance, Toward, Against
<1>2. /\ Toward(a, seen) \in SUBSET AllLines /\ IsFiniteSet(Toward(a, seen))
      /\ Against(a, seen) \in SUBSET AllLines /\ IsFiniteSet(Against(a, seen))
      /\ l \notin Toward(a, seen) /\ l \notin Against(a, seen)
  BY FS_Subset DEF Toward, Against
<1>3. Total(Toward(a, seen)) \in Int /\ Total(Against(a, seen)) \in Int /\ l.amount \in Int
  <2>1. Total(Toward(a, seen)) \in Int
    BY <1>2, TotalGrows
  <2>2. Total(Against(a, seen)) \in Int
    BY <1>2, TotalGrows
  <2>3. l.amount \in Int
    BY DEF AllLines
  <2>4. QED
    BY <2>1, <2>2, <2>3
<1>4. CASE l.account # a
  <2>1. Toward(a, seen \cup {l}) = Toward(a, seen) /\ Against(a, seen \cup {l}) = Against(a, seen)
    BY <1>4 DEF Toward, Against
  <2>2. Effect(a, l) = 0
    BY <1>4 DEF Effect
  <2>3. Balance(a, seen \cup {l}) = Balance(a, seen)
    BY <1>1, <2>1
  <2>4. QED
    BY <1>1, <1>3, <2>2, <2>3
<1>5. CASE l.account = a /\ l.direction = Natural(a)
  <2>1. Toward(a, seen \cup {l}) = Toward(a, seen) \cup {l} /\ Against(a, seen \cup {l}) = Against(a, seen)
    BY <1>5 DEF Toward, Against
  <2>2. Effect(a, l) = l.amount
    BY <1>5 DEF Effect
  <2>3. Total(Toward(a, seen) \cup {l}) = Total(Toward(a, seen)) + l.amount
    BY <1>2, TotalGrows
  <2>4. Balance(a, seen \cup {l}) = Total(Toward(a, seen) \cup {l}) - Total(Against(a, seen))
    BY <1>1, <2>1
  <2>5. QED
    BY <1>1, <1>3, <2>2, <2>3, <2>4
<1>6. CASE l.account = a /\ l.direction # Natural(a)
  <2>1. Toward(a, seen \cup {l}) = Toward(a, seen) /\ Against(a, seen \cup {l}) = Against(a, seen) \cup {l}
    BY <1>6 DEF Toward, Against
  <2>2. Effect(a, l) = 0 - l.amount
    BY <1>6 DEF Effect
  <2>3. Total(Against(a, seen) \cup {l}) = Total(Against(a, seen)) + l.amount
    BY <1>2, TotalGrows
  <2>4. Balance(a, seen \cup {l}) = Total(Toward(a, seen)) - Total(Against(a, seen) \cup {l})
    BY <1>1, <2>1
  <2>5. QED
    BY <1>1, <1>3, <2>2, <2>3, <2>4
<1>7. QED
  BY <1>1, <1>3, <1>4, <1>5, <1>6

\* A journal of two lines.
LEMMA BalanceOfPair ==
    ASSUME NEW seen \in SUBSET AllLines, IsFiniteSet(seen),
           NEW d \in AllLines, d \notin seen, NEW c \in AllLines, c \notin seen, d # c, NEW a
    PROVE  /\ Balance(a, seen) \in Int /\ Effect(a, d) \in Int /\ Effect(a, c) \in Int
           /\ Balance(a, seen \cup {d, c}) = Balance(a, seen) + Effect(a, d) + Effect(a, c)
<1>1. IsFiniteSet(seen \cup {d}) /\ seen \cup {d} \in SUBSET AllLines /\ c \notin seen \cup {d}
  BY FS_AddElement
<1>2. Balance(a, seen) \in Int /\ Balance(a, seen \cup {d}) = Balance(a, seen) + Effect(a, d)
  BY BalanceGrows
<1>3. Balance(a, (seen \cup {d}) \cup {c}) = Balance(a, seen \cup {d}) + Effect(a, c)
  BY <1>1, BalanceGrows
<1>4. Effect(a, d) \in Int /\ Effect(a, c) \in Int
  BY DEF Effect, AllLines
<1>5. (seen \cup {d}) \cup {c} = seen \cup {d, c}
  OBVIOUS
<1>6. Balance(a, seen \cup {d, c}) = Balance(a, seen \cup {d}) + Effect(a, c)
  BY <1>3, <1>5
<1>7. QED
  BY <1>2, <1>4, <1>6

-----------------------------------------------------------------------------
(* What a transaction has flushed and has still to flush is the whole of one   *)
(* journal, so a commit adds that journal whole.                               *)

Members(q) == {q[i] : i \in DOMAIN q}

\* The lines a journal has, told from its kind and what it is about.
PostingsOf(j) ==
    CASE Kind(j) = "funding_deposit"     -> DepositLines(j)
      [] Kind(j) = "transfer_authorized" -> AuthorizedLines(j, About(j))
      [] Kind(j) = "transfer_settled"    -> SettledLines(j, About(j))
      [] Kind(j) = "transfer_reversed"   -> ReversedLines(j, About(j))

DraftsAreWhole ==
    \A s \in Sessions :
        pc[s] = "posting" => draft[s] \cup Members(todo[s]) = Members(PostingsOf(journal[s]))

\* Nothing is posted in a currency that the chart of accounts does not have.
AtHome ==
    \A t \in Transfers : pc[t] = "posting" \/ status[t] # "none" => CurrencyOf[t] = Home

LEMMA MembersOfTail ==
    ASSUME NEW S, NEW q \in Seq(S), q # <<>>
    PROVE  Members(q) = {Head(q)} \cup Members(Tail(q))
<1>1. /\ Len(q) \in Nat /\ Len(q) # 0 /\ DOMAIN q = 1 .. Len(q) /\ Head(q) = q[1]
      /\ DOMAIN Tail(q) = 1 .. (Len(q) - 1)
      /\ \A i \in 1 .. (Len(q) - 1) : Tail(q)[i] = q[i + 1]
  OBVIOUS
<1>2. ASSUME NEW i \in DOMAIN q PROVE q[i] \in {Head(q)} \cup Members(Tail(q))
  <2>1. CASE i = 1
    BY <1>1, <2>1
  <2>2. CASE i # 1
    <3>1. i - 1 \in DOMAIN Tail(q) /\ Tail(q)[i - 1] = q[i]
      BY <1>1, <1>2, <2>2
    <3>2. QED
      BY <3>1 DEF Members
  <2>3. QED
    BY <2>1, <2>2
<1>3. ASSUME NEW i \in DOMAIN Tail(q) PROVE Tail(q)[i] \in Members(q)
  <2>1. i + 1 \in DOMAIN q /\ Tail(q)[i] = q[i + 1]
    BY <1>1, <1>3
  <2>2. QED
    BY <2>1 DEF Members
<1>4. Head(q) \in Members(q)
  BY <1>1 DEF Members
<1>5. QED
  BY <1>2, <1>3, <1>4 DEF Members

LEMMA MembersOfPair ==
    ASSUME NEW j, NEW debited, NEW credited, NEW amount, NEW currency
    PROVE  Members(Pair(j, debited, credited, amount, currency))
               = {Line(j, debited, "debit", amount, currency),
                  Line(j, credited, "credit", amount, currency)}
BY DEF Members, Pair

\* The one currency there are accounts for.
LEMMA ChartIsHome ==
    ASSUME TypeOK, NEW t \in Transfers,
           Fund(CurrencyOf[t]) \in accounts \/ Float(CurrencyOf[t]) \in accounts
    PROVE  CurrencyOf[t] = Home
BY DEF TypeOK, AllAccounts, Fund, Float, Payable, PayableOf

\* A transaction that begins to post, and the ones that do not.
LEMMA PostingIsWhole ==
    ASSUME IInv, DraftsAreWhole, NEW s \in Sessions, NEW j, NEW postings,
           Post(s, j, postings), postings = PostingsOf(j), pc[s] # "posting",
           UNCHANGED draft
    PROVE  DraftsAreWhole'
<1>1. pc'[s] = "posting" /\ journal'[s] = j /\ todo'[s] = postings /\ draft'[s] = {}
  BY DEF Post, IInv, TypeOK, BooksInv, InFlight
<1>2. \A r \in Sessions \ {s} : /\ pc'[r] = pc[r] /\ journal'[r] = journal[r]
                                /\ todo'[r] = todo[r] /\ draft'[r] = draft[r]
  BY DEF Post, IInv, TypeOK
<1>3. QED
  BY <1>1, <1>2 DEF DraftsAreWhole

LEMMA WholeStep == IInv /\ DraftsAreWhole /\ AtHome /\ [Next]_vars => DraftsAreWhole' /\ AtHome'
<1> SUFFICES ASSUME IInv, DraftsAreWhole, AtHome, [Next]_vars PROVE DraftsAreWhole' /\ AtHome'
  OBVIOUS
<1> DEFINE Goal == DraftsAreWhole' /\ AtHome'
<1>a. ASSUME UNCHANGED <<draft, todo, journal>>,
             \A s \in Sessions : pc'[s] = "posting" => pc[s] = "posting"
      PROVE  DraftsAreWhole'
  BY <1>a DEF DraftsAreWhole
<1>b. ASSUME \A t \in Transfers : /\ pc'[t] = "posting" => pc[t] = "posting"
                                  /\ status'[t] # "none" => status[t] # "none"
      PROVE  AtHome'
  BY <1>b DEF AtHome
<1>c. ASSUME NEW s \in Sessions, End(s) PROVE DraftsAreWhole'
  BY <1>c, EndIs DEF IInv, DraftsAreWhole
<1>1. ASSUME NEW t \in Transfers, LockFund(t) PROVE Goal
  BY <1>1, <1>a, <1>b, SessionsAre DEF LockFund, IInv, TypeOK
<1>2. ASSUME NEW s \in Sessions, End(s), status' = status PROVE Goal
  BY <1>2, <1>b, <1>c, EndIs, SessionsAre DEF IInv
<1>3. ASSUME NEW t \in Transfers, Authorize(t) \/ MarkSucceeded(t) \/ MarkFailed(t) PROVE Goal
  <2>1. CurrencyOf[t] = Home
    BY <1>3, ChartIsHome
    DEF Authorize, MarkSucceeded, MarkFailed, IInv, BooksInv, InFlight
  <2>2. \E kind \in {"transfer_authorized", "transfer_settled", "transfer_reversed"} :
            Post(t, Fresh(kind, t), PostingsOf(Fresh(kind, t)))
    <3>1. \A kind : Kind(Fresh(kind, t)) = kind /\ About(Fresh(kind, t)) = t
      BY DEF Fresh, Kind, About
    <3>2. QED
      BY <1>3, <3>1 DEF Authorize, MarkSucceeded, MarkFailed, PostingsOf
  <2>3. t \in Sessions /\ pc[t] # "posting" /\ UNCHANGED <<draft, status>>
    BY <1>3, SessionsAre DEF Authorize, MarkSucceeded, MarkFailed
  <2>4. PICK kind \in {"transfer_authorized", "transfer_settled", "transfer_reversed"} :
            Post(t, Fresh(kind, t), PostingsOf(Fresh(kind, t)))
    BY <2>2
  <2>5. DraftsAreWhole'
    BY <2>3, <2>4, PostingIsWhole
  <2>6. \A u \in Transfers \ {t} : pc'[u] = pc[u]
    BY <2>4, SessionsAre DEF Post, IInv, TypeOK
  <2>7. QED
    BY <2>1, <2>3, <2>5, <2>6 DEF AtHome
<1>4. ASSUME NEW t \in Transfers, MarkProcessing(t) PROVE Goal
  <2>1. \A u \in Transfers : status'[u] # "none" => status[u] # "none"
    BY <1>4 DEF MarkProcessing, IInv, TypeOK
  <2>2. QED
    BY <1>4, <2>1, <1>a, <1>b DEF MarkProcessing
<1>5. ASSUME NEW s \in Sessions, InsertLine(s) PROVE Goal
  <2>1. /\ todo[s] \in Seq(AllLines) /\ todo[s] # <<>>
        /\ draft'[s] = draft[s] \cup {Head(todo[s])} /\ todo'[s] = Tail(todo[s])
        /\ \A r \in Sessions \ {s} : draft'[r] = draft[r] /\ todo'[r] = todo[r]
        /\ UNCHANGED <<status, pc, journal>>
    BY <1>5 DEF InsertLine, IInv, TypeOK
  <2>2. draft'[s] \cup Members(todo'[s]) = draft[s] \cup Members(todo[s])
    BY <2>1, MembersOfTail
  <2>3. DraftsAreWhole'
    BY <2>1, <2>2 DEF DraftsAreWhole
  <2>4. QED
    BY <2>1, <2>3, <1>b
<1>6. ASSUME NEW s \in Sessions, Commit(s) PROVE Goal
  <2>1. End(s) /\ pc[s] = "posting" /\ (s \notin Transfers => status' = status)
    BY <1>6 DEF Commit
  <2>2. \A u \in Transfers \ {s} : status'[u] = status[u]
    BY <1>6, <2>1, CommitMoves
  <2>3. \A r \in Sessions : pc'[r] = "posting" => pc[r] = "posting"
    BY <2>1, EndIs DEF IInv
  <2>4. AtHome'
    BY <2>1, <2>2, <2>3, SessionsAre DEF AtHome
  <2>5. QED
    BY <1>c, <2>1, <2>4
<1>7. ASSUME Boot \/ Die \/ SeedChart \/ SkipDeposit PROVE Goal
  BY <1>7, <1>a, <1>b DEF Boot, Die, SeedChart, SkipDeposit
<1>8. ASSUME SeedDeposit PROVE Goal
  <2>1. Post(Seeder, Fresh("funding_deposit", Seeder), PostingsOf(Fresh("funding_deposit", Seeder)))
    BY <1>8 DEF SeedDeposit, PostingsOf, Fresh, Kind
  <2>2. Seeder \in Sessions /\ pc[Seeder] # "posting" /\ UNCHANGED <<draft, status>>
    BY <1>8, SessionsAre DEF SeedDeposit, IInv, BooksInv, InFlight
  <2>3. DraftsAreWhole'
    BY <2>1, <2>2, PostingIsWhole
  <2>4. \A u \in Transfers : pc'[u] = pc[u]
    BY <2>1, SessionsAre DEF Post, IInv, TypeOK
  <2>5. QED
    BY <2>2, <2>3, <2>4, <1>b
<1>9. ASSUME UNCHANGED vars PROVE Goal
  BY <1>9, <1>a, <1>b DEF vars
<1>10. ASSUME NEW s \in Sessions, Refuse(s) \/ Abort(s) PROVE Goal
  BY <1>2, <1>10 DEF Refuse, Abort
<1> HIDE DEF Goal
<1>11. Goal
  BY <1>1, <1>3, <1>4, <1>5, <1>6, <1>7, <1>8, <1>9, <1>10, SessionsAre DEF Next, Move
<1>12. QED
  BY <1>11 DEF Goal

-----------------------------------------------------------------------------
(* What a commit does to the balances.                                         *)

\* The lines are new, and come all together.
LEMMA CommitAdds ==
    ASSUME IInv, DraftsAreWhole, NEW s \in Sessions, Commit(s)
    PROVE  /\ lines' = lines \cup Members(PostingsOf(journal[s]))
           /\ Members(PostingsOf(journal[s])) \subseteq AllLines
           /\ Members(PostingsOf(journal[s])) \cap lines = {}
<1>1. lines' = lines \cup draft[s] /\ todo[s] = <<>> /\ pc[s] = "posting" /\ draft[s] \subseteq AllLines
  BY DEF Commit, IInv, TypeOK
<1>2. Members(todo[s]) = {}
  BY <1>1 DEF Members
<1>3. draft[s] = Members(PostingsOf(journal[s]))
  BY <1>1, <1>2 DEF DraftsAreWhole
<1>4. About(journal[s]) = s /\ journal[s] \notin Of(s)
  BY <1>1, SessionsAre, NextAreJournals DEF IInv, BooksInv, InFlight, JournalsFollowStatus
<1>5. \A l \in draft[s] : l.journal = journal[s]
  BY DEF IInv, BooksInv, InFlight
<1>6. draft[s] \cap lines = {}
  BY <1>4, <1>5 DEF Of
<1>7. QED
  BY <1>1, <1>3, <1>6

\* What debiting, and crediting, an amount does to an account.
Debit(a, amount)  == IF Natural(a) = "debit" THEN amount ELSE 0 - amount
Credit(a, amount) == IF Natural(a) = "credit" THEN amount ELSE 0 - amount

\* A step that debits one account, credits another, and leaves the rest.
Books(debited, credited, amount) ==
    /\ IsFiniteSet(lines')
    /\ \A a : /\ Balance(a, lines) \in Int
              /\ Balance(a, lines') = Balance(a, lines)
                     + (IF a = debited THEN Debit(a, amount) ELSE 0)
                     + (IF a = credited THEN Credit(a, amount) ELSE 0)

LEMMA CommitBalances ==
    ASSUME IInv, DraftsAreWhole, IsFiniteSet(lines), NEW s \in Sessions, Commit(s),
           NEW debited, NEW credited, NEW amount, NEW currency,
           PostingsOf(journal[s]) = Pair(journal[s], debited, credited, amount, currency)
    PROVE  Books(debited, credited, amount)
<1> DEFINE d == Line(journal[s], debited, "debit", amount, currency)
           c == Line(journal[s], credited, "credit", amount, currency)
<1>1. lines' = lines \cup {d, c} /\ {d, c} \subseteq AllLines /\ {d, c} \cap lines = {}
  BY CommitAdds, MembersOfPair
<1>2. d.direction = "debit" /\ c.direction = "credit"
  BY DEF Line
<1>3. /\ d \in AllLines /\ c \in AllLines /\ d \notin lines /\ c \notin lines /\ d # c
      /\ lines \in SUBSET AllLines
  BY <1>1, <1>2 DEF IInv, TypeOK
<1>4. \A a : /\ Effect(a, d) = IF a = debited THEN Debit(a, amount) ELSE 0
             /\ Effect(a, c) = IF a = credited THEN Credit(a, amount) ELSE 0
  BY DEF Effect, Line, Debit, Credit, Natural
<1>5. IsFiniteSet(lines')
  <2>1. IsFiniteSet({d, c})
    <3>1. IsFiniteSet({d}) /\ {d} \cup {c} = {d, c}
      BY FS_Singleton
    <3>2. IsFiniteSet({d} \cup {c})
      BY <3>1, FS_AddElement
    <3>3. QED
      BY <3>1, <3>2
  <2>2. QED
    BY <1>1, <2>1, FS_Union
<1> HIDE DEF d, c
<1>6. ASSUME NEW a
      PROVE  /\ Balance(a, lines) \in Int
             /\ Balance(a, lines') = Balance(a, lines) + Effect(a, d) + Effect(a, c)
  <2>1. /\ Balance(a, lines) \in Int
        /\ Balance(a, lines \cup {d, c}) = Balance(a, lines) + Effect(a, d) + Effect(a, c)
    BY <1>3, BalanceOfPair
  <2>2. Balance(a, lines') = Balance(a, lines \cup {d, c})
    BY <1>1
  <2>3. QED
    BY <2>1, <2>2
<1>7. QED
  BY <1>4, <1>5, <1>6 DEF Books

LEMMA AccountsDiffer ==
    /\ Natural(Fund(Home)) = "credit" /\ Natural(Float(Home)) = "debit"
    /\ Fund(Home) # Float(Home)
    /\ \A t \in Transfers : /\ Natural(PayableOf(t)) = "credit"
                            /\ PayableOf(t) # Fund(Home) /\ PayableOf(t) # Float(Home)
BY DEF Natural, Fund, Float, PayableOf, Payable

\* The fund, the float and the payables, after the journal of the deposit ...
LEMMA DepositBalances ==
    ASSUME IInv, DraftsAreWhole, IsFiniteSet(lines), Commit(Seeder)
    PROVE  /\ IsFiniteSet(lines')
           /\ Balance(Fund(Home), lines') = Balance(Fund(Home), lines) + Deposit
           /\ Balance(Float(Home), lines') = Balance(Float(Home), lines) + Deposit
           /\ \A v \in Transfers : Balance(PayableOf(v), lines') = Balance(PayableOf(v), lines)
           /\ ~Funded /\ Funded'
<1>1. pc[Seeder] = "posting" /\ journal[Seeder] = TheDeposit /\ Of(Seeder) = {}
      /\ Seeder \in Sessions
  BY SessionsAre DEF Commit, IInv, BooksInv, InFlight
<1>2. PostingsOf(journal[Seeder]) = Pair(journal[Seeder], Float(Home), Fund(Home), Deposit, Home)
  BY <1>1 DEF PostingsOf, TheDeposit, Kind, DepositLines
<1>3. Books(Float(Home), Fund(Home), Deposit)
  BY <1>1, <1>2, CommitBalances
<1>4. Deposit \in Int
  BY BooksAssumption
<1>5. ~Funded
  BY <1>1, DepositsAreOne DEF Funded
<1>6. Funded'
  <2>1. TheDeposit \in Of(Seeder)' /\ Kind(TheDeposit) = "funding_deposit"
    BY <1>1, CommitPosts, NextAreJournals
  <2>2. QED
    BY <2>1 DEF Of, Funded
<1>7. QED
  BY <1>3, <1>4, <1>5, <1>6, AccountsDiffer DEF Books, Debit, Credit

\* ... and after a journal of a transfer.
LEMMA MoveBalances ==
    ASSUME IInv, DraftsAreWhole, AtHome, IsFiniteSet(lines), NEW t \in Transfers, Commit(t),
           NEW debited, NEW credited,
           \/ /\ Kind(journal[t]) = "transfer_authorized"
              /\ debited = Fund(Home) /\ credited = PayableOf(t)
           \/ /\ Kind(journal[t]) = "transfer_settled"
              /\ debited = PayableOf(t) /\ credited = Float(Home)
           \/ /\ Kind(journal[t]) = "transfer_reversed"
              /\ debited = PayableOf(t) /\ credited = Fund(Home)
    PROVE  Books(debited, credited, AmountOf[t]) /\ Funded' = Funded
<1>1. pc[t] = "posting" /\ CurrencyOf[t] = Home /\ About(journal[t]) = t /\ t \in Sessions
  BY SessionsAre, NextAreJournals DEF Commit, IInv, BooksInv, InFlight, AtHome
<1>2. PostingsOf(journal[t]) = Pair(journal[t], debited, credited, AmountOf[t], Home)
  BY <1>1 DEF PostingsOf, AuthorizedLines, SettledLines, ReversedLines
<1>3. Funded' = Funded
  <2>1. lines' = lines \cup draft[t] /\ \A l \in draft[t] : Kind(l.journal) # "funding_deposit"
    BY <1>1 DEF Commit, IInv, BooksInv, InFlight
  <2>2. QED
    BY <2>1 DEF Funded
<1>4. Books(debited, credited, AmountOf[t])
  BY <1>1, <1>2, CommitBalances
<1>5. QED
  BY <1>3, <1>4

-----------------------------------------------------------------------------
(* The statuses explain the balances.                                          *)

LEMMA AmountsMove ==
    ASSUME NEW some \in SUBSET Transfers, IsFiniteSet(some), NEW t \in Transfers
    PROVE  /\ Amounts(some) \in Int
           /\ t \notin some => Amounts(some \cup {t}) = Amounts(some) + AmountOf[t]
           /\ t \in some => Amounts(some \ {t}) = Amounts(some) - AmountOf[t]
<1>1. \A s : Amounts(s) = Sum(AmountOf, s)
  BY DEF Amounts, Sum
<1>2. \A u \in Transfers : AmountOf[u] \in Int
  BY BooksAssumption
<1>3. Sum(AmountOf, some) \in Int
  BY <1>2, SumSplits
<1>4. ASSUME t \notin some PROVE Sum(AmountOf, some \cup {t}) = Sum(AmountOf, some) + AmountOf[t]
  BY <1>2, <1>4, SumGrows
<1>5. ASSUME t \in some PROVE Sum(AmountOf, some \ {t}) = Sum(AmountOf, some) - AmountOf[t]
  <2>1. Sum(AmountOf, some) = AmountOf[t] + Sum(AmountOf, some \ {t})
    BY <1>2, <1>5, SumSplits
  <2>2. IsFiniteSet(some \ {t})
    BY FS_RemoveElement
  <2>3. Sum(AmountOf, some \ {t}) \in Int
    BY <1>2, <2>2, SumSplits
  <2>4. QED
    BY <1>2, <2>1, <2>3
<1>6. QED
  BY <1>1, <1>3, <1>4, <1>5

\* The transfers there are, and those that a recipient is still owed.
Alive   == {t \in Transfers : status[t] # "none"}
Owed(t) == {u \in With(Open) : PayableOf(u) = PayableOf(t)}

LEMMA SomeAreAlive ==
    ASSUME IsFiniteSet(Alive)
    PROVE  /\ \A states : "none" \notin states =>
                  IsFiniteSet(With(states)) /\ With(states) \in SUBSET Transfers
           /\ \A t \in Transfers : IsFiniteSet(Owed(t)) /\ Owed(t) \in SUBSET Transfers
<1>1. ASSUME NEW states, "none" \notin states
      PROVE  IsFiniteSet(With(states)) /\ With(states) \in SUBSET Transfers
  <2>1. With(states) \subseteq Alive
    BY <1>1 DEF With, Alive
  <2>2. QED
    BY <2>1, FS_Subset DEF Alive
<1>2. ASSUME NEW t \in Transfers PROVE IsFiniteSet(Owed(t)) /\ Owed(t) \in SUBSET Transfers
  <2>1. Owed(t) \subseteq Alive
    BY DEF Owed, With, Alive, Open
  <2>2. QED
    BY <2>1, FS_Subset DEF Alive
<1>3. QED
  BY <1>1, <1>2

SumsInv ==
    /\ IInv /\ DraftsAreWhole /\ AtHome
    /\ IsFiniteSet(lines) /\ IsFiniteSet(Alive)
    /\ BooksExplainStatuses

\* What kind of journal moves a transfer where.
LEMMA KindMoves ==
    ASSUME IInv, NEW t \in Transfers, Commit(t)
    PROVE  \/ /\ Kind(journal[t]) = "transfer_authorized"
              /\ status[t] = "none" /\ status'[t] = "pending"
           \/ /\ Kind(journal[t]) = "transfer_settled"
              /\ status[t] \in Open /\ status'[t] = "succeeded"
           \/ /\ Kind(journal[t]) = "transfer_reversed"
              /\ status[t] \in Open /\ status'[t] = "failed"
<1>1. journal[t] \in NextOf(t)
  BY SessionsAre, CommitPosts
<1>2. status'[t] = After(Kind(journal[t]))
  BY DEF Commit, IInv, TypeOK
<1>3. \/ journal[t] = First(t) /\ status[t] = "none"
      \/ journal[t] = Second("transfer_settled", t) /\ status[t] \in Open
      \/ journal[t] = Second("transfer_reversed", t) /\ status[t] \in Open
  BY <1>1 DEF NextOf, Open
<1>4. QED
  BY <1>2, <1>3 DEF After, Kind, First, Second

\* One transfer moves.
LEMMA WithMoves ==
    ASSUME NEW t \in Transfers, \A u \in Transfers \ {t} : status'[u] = status[u], NEW states
    PROVE  /\ With(states)' = IF status'[t] \in states THEN With(states) \cup {t}
                                                       ELSE With(states) \ {t}
           /\ t \in With(states) <=> status[t] \in states
BY DEF With

LEMMA TransferExplains ==
    ASSUME SumsInv, NEW t \in Transfers, Commit(t)
    PROVE  (IsFiniteSet(lines) /\ IsFiniteSet(Alive) /\ BooksExplainStatuses)'
<1> DEFINE A == AmountOf[t]
           Paid == {"succeeded"}
           Gone == {"succeeded"} \cup Open
<1>1. /\ IInv /\ DraftsAreWhole /\ AtHome /\ IsFiniteSet(lines) /\ IsFiniteSet(Alive)
      /\ t \in Sessions /\ A \in Int
      /\ \A u \in Transfers \ {t} : status'[u] = status[u]
  BY SessionsAre, BooksAssumption, CommitMoves DEF SumsInv
<1>2. IsFiniteSet(Alive')
  <2>1. Alive' \subseteq Alive \cup {t}
    BY <1>1 DEF Alive
  <2>2. IsFiniteSet(Alive \cup {t})
    BY <1>1, FS_AddElement
  <2>3. QED
    BY <2>1, <2>2, FS_Subset
<1>3. /\ \A v \in Transfers : Balance(PayableOf(v), lines) = Amounts(Owed(v))
      /\ Balance(Float(Home), lines) = Deposited - Amounts(With(Paid))
      /\ Balance(Fund(Home), lines) = Deposited - Amounts(With(Gone))
      /\ Deposited \in Int
  BY BooksAssumption DEF SumsInv, BooksExplainStatuses, Owed, Deposited
<1>4. \A some \in SUBSET Transfers : IsFiniteSet(some) =>
          /\ Amounts(some) \in Int
          /\ t \notin some => Amounts(some \cup {t}) = Amounts(some) + A
          /\ t \in some => Amounts(some \ {t}) = Amounts(some) - A
  BY AmountsMove
<1>5. /\ \A states \in {Paid, Gone} : IsFiniteSet(With(states)) /\ With(states) \in SUBSET Transfers
      /\ \A v \in Transfers : IsFiniteSet(Owed(v)) /\ Owed(v) \in SUBSET Transfers
  BY <1>1, SomeAreAlive DEF Open
<1>6. /\ Amounts(With(Paid)) \in Int /\ Amounts(With(Gone)) \in Int
      /\ \A v \in Transfers : Amounts(Owed(v)) \in Int
  BY <1>4, <1>5
\* What is left to show, of sums alone.
<1>7. SUFFICES ASSUME NEW debited, NEW credited, Books(debited, credited, A), Funded' = Funded,
                      \/ /\ debited = Fund(Home) /\ credited = PayableOf(t)
                         /\ status[t] = "none" /\ status'[t] = "pending"
                      \/ /\ debited = PayableOf(t) /\ credited = Float(Home)
                         /\ status[t] \in Open /\ status'[t] = "succeeded"
                      \/ /\ debited = PayableOf(t) /\ credited = Fund(Home)
                         /\ status[t] \in Open /\ status'[t] = "failed"
               PROVE  BooksExplainStatuses'
  <2>1. CASE Kind(journal[t]) = "transfer_authorized"
    <3>1. Books(Fund(Home), PayableOf(t), A) /\ Funded' = Funded
      BY <1>1, <2>1, MoveBalances
    <3>2. status[t] = "none" /\ status'[t] = "pending"
      BY <1>1, <2>1, KindMoves
    <3>3. QED
      BY <1>2, <3>1, <3>2 DEF Books
  <2>2. CASE Kind(journal[t]) = "transfer_settled"
    <3>1. Books(PayableOf(t), Float(Home), A) /\ Funded' = Funded
      BY <1>1, <2>2, MoveBalances
    <3>2. status[t] \in Open /\ status'[t] = "succeeded"
      BY <1>1, <2>2, KindMoves
    <3>3. QED
      BY <1>2, <3>1, <3>2 DEF Books
  <2>3. CASE Kind(journal[t]) = "transfer_reversed"
    <3>1. Books(PayableOf(t), Fund(Home), A) /\ Funded' = Funded
      BY <1>1, <2>3, MoveBalances
    <3>2. status[t] \in Open /\ status'[t] = "failed"
      BY <1>1, <2>3, KindMoves
    <3>3. QED
      BY <1>2, <3>1, <3>2 DEF Books
  <2>4. QED
    BY <1>1, <2>1, <2>2, <2>3, KindMoves
<1>8. Deposited' = Deposited
  BY <1>7 DEF Deposited
<1>9. Balance(Float(Home), lines') = Deposited' - Amounts(With(Paid)')
  <2>1. t \notin With(Paid)
    BY <1>7 DEF With, Open
  <2>2. CASE status'[t] = "succeeded"
    <3>1. With(Paid)' = With(Paid) \cup {t}
      BY <1>1, <2>2, WithMoves
    <3>2. Amounts(With(Paid)') = Amounts(With(Paid)) + A
      BY <1>4, <1>5, <2>1, <3>1
    <3>3. Balance(Float(Home), lines') = Balance(Float(Home), lines) - A
      BY <1>1, <1>7, <2>2, AccountsDiffer DEF Books, Debit, Credit, Open
    <3>4. QED
      BY <1>1, <1>3, <1>6, <1>8, <3>2, <3>3
  <2>3. CASE status'[t] # "succeeded"
    <3>1. With(Paid)' = With(Paid) \ {t}
      BY <1>1, <2>3, WithMoves
    <3>2. With(Paid)' = With(Paid)
      BY <2>1, <3>1
    <3>3. Balance(Float(Home), lines') = Balance(Float(Home), lines)
      BY <1>1, <1>7, <2>3, AccountsDiffer DEF Books, Debit, Credit, Open
    <3>4. QED
      BY <1>3, <1>8, <3>2, <3>3
  <2>4. QED
    BY <2>2, <2>3
<1>10. Balance(Fund(Home), lines') = Deposited' - Amounts(With(Gone)')
  <2>1. CASE status[t] = "none"
    <3>1. With(Gone)' = With(Gone) \cup {t} /\ t \notin With(Gone)
      BY <1>1, <1>7, <2>1, WithMoves DEF Open
    <3>2. Amounts(With(Gone)') = Amounts(With(Gone)) + A
      BY <1>4, <1>5, <3>1
    <3>3. Balance(Fund(Home), lines') = Balance(Fund(Home), lines) - A
      BY <1>1, <1>7, <2>1, AccountsDiffer DEF Books, Debit, Credit, Open
    <3>4. QED
      BY <1>1, <1>3, <1>6, <1>8, <3>2, <3>3
  <2>2. CASE status'[t] = "succeeded"
    <3>0. t \in With(Gone)
      BY <1>7, <2>2 DEF With, Open
    <3>1. With(Gone)' = With(Gone)
      BY <1>1, <2>2, <3>0 DEF With
    <3>2. Balance(Fund(Home), lines') = Balance(Fund(Home), lines)
      BY <1>1, <1>7, <2>2, AccountsDiffer DEF Books, Debit, Credit, Open
    <3>3. QED
      BY <1>3, <1>8, <3>1, <3>2
  <2>3. CASE status'[t] = "failed"
    <3>1. With(Gone)' = With(Gone) \ {t} /\ t \in With(Gone)
      BY <1>1, <1>7, <2>3, WithMoves DEF Open
    <3>2. Amounts(With(Gone)') = Amounts(With(Gone)) - A
      BY <1>4, <1>5, <3>1
    <3>3. Balance(Fund(Home), lines') = Balance(Fund(Home), lines) + A
      BY <1>1, <1>7, <2>3, AccountsDiffer DEF Books, Debit, Credit, Open
    <3>4. QED
      BY <1>1, <1>3, <1>6, <1>8, <3>2, <3>3
  <2>4. QED
    BY <1>7, <2>1, <2>2, <2>3
<1>11. ASSUME NEW v \in Transfers
       PROVE  Balance(PayableOf(v), lines') = Amounts(Owed(v)')
  <2>1. CASE PayableOf(v) # PayableOf(t)
    <3>1. Owed(v)' = Owed(v)
      BY <1>1, <2>1 DEF Owed, With
    <3>2. Balance(PayableOf(v), lines') = Balance(PayableOf(v), lines)
      BY <1>1, <1>7, <2>1, AccountsDiffer DEF Books
    <3>3. QED
      BY <1>3, <3>1, <3>2
  <2>2. CASE PayableOf(v) = PayableOf(t) /\ status[t] = "none"
    <3>1. Owed(v)' = Owed(v) \cup {t} /\ t \notin Owed(v)
      BY <1>1, <1>7, <2>2 DEF Owed, With, Open
    <3>2. Amounts(Owed(v)') = Amounts(Owed(v)) + A
      BY <1>4, <1>5, <3>1
    <3>3. Balance(PayableOf(v), lines') = Balance(PayableOf(v), lines) + A
      BY <1>1, <1>7, <2>2, AccountsDiffer DEF Books, Debit, Credit, Open
    <3>4. QED
      BY <1>3, <3>2, <3>3
  <2>3. CASE PayableOf(v) = PayableOf(t) /\ status[t] \in Open
    <3>1. Owed(v)' = Owed(v) \ {t} /\ t \in Owed(v)
      BY <1>1, <1>7, <2>3 DEF Owed, With, Open
    <3>2. Amounts(Owed(v)') = Amounts(Owed(v)) - A
      BY <1>4, <1>5, <3>1
    <3>3. Balance(PayableOf(v), lines') = Balance(PayableOf(v), lines) - A
      BY <1>1, <1>7, <2>3, AccountsDiffer DEF Books, Debit, Credit, Open
    <3>4. QED
      BY <1>3, <3>2, <3>3
  <2>4. QED
    BY <1>7, <2>1, <2>2, <2>3 DEF Open
<1>12. QED
  BY <1>9, <1>10, <1>11 DEF BooksExplainStatuses, Owed

\* The opening deposit is in the float and in the fund.
LEMMA DepositExplains ==
    ASSUME SumsInv, Commit(Seeder)
    PROVE  (IsFiniteSet(lines) /\ IsFiniteSet(Alive) /\ BooksExplainStatuses)'
<1>1. /\ IInv /\ DraftsAreWhole /\ IsFiniteSet(lines) /\ IsFiniteSet(Alive)
      /\ status' = status
  BY SessionsAre DEF SumsInv, Commit
<1>2. /\ IsFiniteSet(lines') /\ ~Funded /\ Funded'
      /\ Balance(Fund(Home), lines') = Balance(Fund(Home), lines) + Deposit
      /\ Balance(Float(Home), lines') = Balance(Float(Home), lines) + Deposit
      /\ \A v \in Transfers : Balance(PayableOf(v), lines') = Balance(PayableOf(v), lines)
  BY <1>1, DepositBalances
<1>3. With({"succeeded"})' = With({"succeeded"}) /\ Alive' = Alive
      /\ With({"succeeded"} \cup Open)' = With({"succeeded"} \cup Open)
      /\ \A v \in Transfers : Owed(v)' = Owed(v)
  BY <1>1 DEF With, Alive, Owed
<1>4. Amounts(With({"succeeded"})) \in Int /\ Amounts(With({"succeeded"} \cup Open)) \in Int
  <2>1. ASSUME NEW states, "none" \notin states PROVE Amounts(With(states)) \in Int
    <3>1. IsFiniteSet(With(states)) /\ With(states) \in SUBSET Transfers
      BY <1>1, <2>1, SomeAreAlive
    <3>2. Sum(AmountOf, With(states)) \in Int
      BY <3>1, BooksAssumption, SumSplits
    <3>3. QED
      BY <3>2 DEF Amounts, Sum
  <2>2. QED
    BY <2>1 DEF Open
<1>5. Deposited = 0 /\ Deposited' = Deposit /\ Deposit \in Int
  BY <1>2, BooksAssumption DEF Deposited
<1>6. /\ \A v \in Transfers : Balance(PayableOf(v), lines) = Amounts(Owed(v))
      /\ Balance(Float(Home), lines) = Deposited - Amounts(With({"succeeded"}))
      /\ Balance(Fund(Home), lines) = Deposited - Amounts(With({"succeeded"} \cup Open))
  BY DEF SumsInv, BooksExplainStatuses, Owed
<1>7. /\ \A v \in Transfers : Balance(PayableOf(v), lines') = Amounts(Owed(v)')
      /\ Balance(Float(Home), lines') = Deposited' - Amounts(With({"succeeded"})')
      /\ Balance(Fund(Home), lines') = Deposited' - Amounts(With({"succeeded"} \cup Open)')
  BY <1>2, <1>3, <1>4, <1>5, <1>6
<1>8. QED
  BY <1>1, <1>2, <1>3, <1>7 DEF BooksExplainStatuses, Owed

\* Only a commit adds lines, and but for it only the hand-over moves a transfer.
LEMMA CommitsMakeLines ==
    ASSUME [Next]_vars, \A s \in Sessions : ~Commit(s)
    PROVE  /\ UNCHANGED lines
           /\ status' = status \/ \E t \in Transfers : MarkProcessing(t)
<1>1. ASSUME NEW t \in Transfers, Move(t) PROVE lines' = lines
  BY <1>1 DEF Move, LockFund, Refuse, Authorize, MarkProcessing, MarkSucceeded, MarkFailed
<1>2. ASSUME NEW t \in Transfers, Move(t), ~MarkProcessing(t) PROVE status' = status
  BY <1>2 DEF Move, LockFund, Refuse, Authorize, MarkSucceeded, MarkFailed
<1>3. ASSUME NEW s \in Sessions, InsertLine(s) \/ Abort(s) PROVE UNCHANGED <<lines, status>>
  BY <1>3 DEF InsertLine, Abort
<1>4. ASSUME Boot \/ Die \/ SeedChart \/ SkipDeposit \/ SeedDeposit \/ UNCHANGED vars
      PROVE  UNCHANGED <<lines, status>>
  BY <1>4 DEF Boot, Die, SeedChart, SkipDeposit, SeedDeposit, vars
<1>5. QED
  BY <1>1, <1>2, <1>3, <1>4 DEF Next

LEMMA SumsStep == SumsInv /\ [Next]_vars => SumsInv'
<1> SUFFICES ASSUME SumsInv, [Next]_vars PROVE SumsInv'
  OBVIOUS
<1>1. IInv' /\ DraftsAreWhole' /\ AtHome'
  BY IInvStep, WholeStep DEF SumsInv
<1>2. ASSUME NEW s \in Sessions, Commit(s)
      PROVE  (IsFiniteSet(lines) /\ IsFiniteSet(Alive) /\ BooksExplainStatuses)'
  BY <1>2, SessionsAre, TransferExplains, DepositExplains
<1>3. CASE \A s \in Sessions : ~Commit(s)
  <2>1. lines' = lines /\ (status' = status \/ \E t \in Transfers : MarkProcessing(t))
    BY <1>3, CommitsMakeLines
  <2>2. \A t \in Transfers : /\ status'[t] \in Open <=> status[t] \in Open
                             /\ status'[t] = "succeeded" <=> status[t] = "succeeded"
                             /\ status'[t] = "none" <=> status[t] = "none"
    <3>1. CASE status' = status
      BY <3>1
    <3>2. ASSUME NEW t \in Transfers, MarkProcessing(t)
          PROVE  /\ status[t] = "pending" /\ status'[t] = "processing"
                 /\ \A u \in Transfers \ {t} : status'[u] = status[u]
      BY <3>2 DEF MarkProcessing, SumsInv, IInv, TypeOK
    <3>3. QED
      BY <2>1, <3>1, <3>2 DEF Open
  <2>3. /\ Alive' = Alive /\ With(Open)' = With(Open) /\ With({"succeeded"})' = With({"succeeded"})
        /\ With({"succeeded"} \cup Open)' = With({"succeeded"} \cup Open)
    BY <2>2 DEF Alive, With
  <2>4. Deposited' = Deposited
    BY <2>1 DEF Deposited, Funded
  <2>5. QED
    BY <1>1, <2>1, <2>3, <2>4 DEF SumsInv, BooksExplainStatuses
<1>4. QED
  BY <1>1, <1>2, <1>3 DEF SumsInv

LEMMA SumsInit == Init => SumsInv
<1> SUFFICES ASSUME Init PROVE SumsInv
  OBVIOUS
<1>1. IInv /\ DraftsAreWhole /\ AtHome
  <2>1. \A s \in Sessions : pc[s] = "away"
    BY DEF Init
  <2>2. \A t \in Transfers : pc[t] = "away" /\ status[t] = "none"
    BY <2>1, SessionsAre DEF Init
  <2>3. QED
    BY <2>1, <2>2, IInvInit DEF DraftsAreWhole, AtHome
<1>2. lines = {} /\ Alive = {} /\ IsFiniteSet({}) /\ ~Funded
  BY FS_EmptySet DEF Init, Alive, Funded
<1>3. \A a : Balance(a, lines) = 0
  <2>1. ASSUME NEW some \in SUBSET {} PROVE Total(some) = 0
    <3>1. some = {} /\ {} \in SUBSET AllLines
      OBVIOUS
    <3>2. Total({}) = Sum(LineAmounts, {})
      BY <1>2, <3>1, TotalIsSum
    <3>3. QED
      BY <3>1, <3>2, SumOfNone
  <2>2. \A a : Balance(a, {}) = Total(Toward(a, {})) - Total(Against(a, {}))
    BY DEF Balance, Toward, Against
  <2>3. \A a : Toward(a, {}) = {} /\ Against(a, {}) = {}
    BY DEF Toward, Against
  <2>4. Total({}) = 0
    BY <2>1
  <2>5. QED
    BY <1>2, <2>2, <2>3, <2>4
<1>4. Amounts({}) = 0
  <2>1. Amounts({}) = Sum(AmountOf, {})
    BY DEF Amounts, Sum
  <2>2. QED
    BY <2>1, SumOfNone
<1>5. /\ With({"succeeded"}) = {} /\ With({"succeeded"} \cup Open) = {}
      /\ \A t \in Transfers : {u \in With(Open) : PayableOf(u) = PayableOf(t)} = {}
  BY DEF Init, With, Open
<1>6. BooksExplainStatuses
  BY <1>2, <1>3, <1>4, <1>5 DEF BooksExplainStatuses, Deposited
<1>7. QED
  BY <1>1, <1>2, <1>6 DEF SumsInv

LEMMA SumsAlways == Spec => []SumsInv
BY SumsInit, SumsStep, PTL DEF Spec

\* The balances read off the lines are what the statuses call for, for any number of
\* transfers, recipients and amounts, whatever is interleaved or rolled back.
THEOREM StatusesExplained == Spec => []BooksExplainStatuses
<1>1. SumsInv => BooksExplainStatuses
  BY DEF SumsInv
<1>2. QED
  BY <1>1, SumsAlways, PTL

-----------------------------------------------------------------------------
(* The fund, line by line: who decided on its balance holds its lock, so until *)
(* that journal is committed the balance can only have grown.                  *)

Deciding(t) ==
    pc[t] = "locked" \/ (pc[t] = "posting" /\ Kind(journal[t]) = "transfer_authorized")

FundHeld == \A t \in Transfers : Deciding(t) => fundLock = t

StillCovered ==
    \A t \in Transfers :
        pc[t] = "posting" /\ Kind(journal[t]) = "transfer_authorized" => Covered(t)

FundInv == SumsInv /\ FundHeld /\ StillCovered /\ FundNeverShort

\* What a commit does to the fund.
LEMMA FundMoves ==
    ASSUME SumsInv, [Next]_vars
    PROVE  /\ Balance(Fund(Home), lines) \in Int
           /\ \/ Balance(Fund(Home), lines') \in Int
                 /\ Balance(Fund(Home), lines') >= Balance(Fund(Home), lines)
              \/ \E t \in Transfers :
                    /\ Commit(t) /\ Kind(journal[t]) = "transfer_authorized"
                    /\ Balance(Fund(Home), lines') = Balance(Fund(Home), lines) - AmountOf[t]
<1>1. /\ IInv /\ DraftsAreWhole /\ AtHome /\ IsFiniteSet(lines)
      /\ \A t \in Transfers : AmountOf[t] \in Nat
      /\ Deposit \in Nat
  BY BooksAssumption DEF SumsInv
<1>2. Balance(Fund(Home), lines) \in Int
  <2>1. IsFiniteSet(With({"succeeded"} \cup Open)) /\ With({"succeeded"} \cup Open) \in SUBSET Transfers
    BY SomeAreAlive DEF SumsInv, Open
  <2>2. Sum(AmountOf, With({"succeeded"} \cup Open)) \in Int
    BY <2>1, BooksAssumption, SumSplits
  <2>3. Amounts(With({"succeeded"} \cup Open)) \in Int
    BY <2>2 DEF Amounts, Sum
  <2>4. Deposited \in Int
    BY BooksAssumption DEF Deposited
  <2>5. QED
    BY <2>3, <2>4 DEF SumsInv, BooksExplainStatuses
<1>3. CASE \A s \in Sessions : ~Commit(s)
  BY <1>2, <1>3, CommitsMakeLines
<1>4. CASE Commit(Seeder)
  BY <1>1, <1>2, <1>4, DepositBalances
<1>5. ASSUME NEW t \in Transfers, Commit(t)
      PROVE  \/ /\ Kind(journal[t]) = "transfer_authorized"
                /\ Balance(Fund(Home), lines') = Balance(Fund(Home), lines) - AmountOf[t]
             \/ Balance(Fund(Home), lines') \in Int
                /\ Balance(Fund(Home), lines') >= Balance(Fund(Home), lines)
  <2>1. CASE Kind(journal[t]) = "transfer_authorized"
    <3>1. Books(Fund(Home), PayableOf(t), AmountOf[t])
      BY <1>1, <1>5, <2>1, MoveBalances
    <3>2. QED
      BY <1>1, <1>2, <2>1, <3>1, AccountsDiffer DEF Books, Debit, Credit
  <2>2. CASE Kind(journal[t]) = "transfer_settled"
    <3>1. Books(PayableOf(t), Float(Home), AmountOf[t])
      BY <1>1, <1>5, <2>2, MoveBalances
    <3>2. QED
      BY <1>1, <1>2, <3>1, AccountsDiffer DEF Books, Debit, Credit
  <2>3. CASE Kind(journal[t]) = "transfer_reversed"
    <3>1. Books(PayableOf(t), Fund(Home), AmountOf[t])
      BY <1>1, <1>5, <2>3, MoveBalances
    <3>2. QED
      BY <1>1, <1>2, <3>1, AccountsDiffer DEF Books, Debit, Credit
  <2>4. QED
    BY <1>1, <1>5, <2>1, <2>2, <2>3, KindMoves
<1>6. QED
  BY <1>2, <1>3, <1>4, <1>5, SessionsAre

LEMMA FundStep == FundInv /\ [Next]_vars => FundInv'
<1> SUFFICES ASSUME FundInv, [Next]_vars PROVE FundInv'
  OBVIOUS
<1>1. SumsInv' /\ SumsInv /\ IInv /\ TypeOK
  BY SumsStep DEF FundInv, SumsInv, IInv
\* Who decides has the lock: it is taken when it is free, and kept to the end.
<1>2. FundHeld'
  <2> DEFINE Now == \A t \in Transfers : Deciding(t)' => fundLock' = t
  <2>1. ASSUME fundLock' = fundLock, \A t \in Transfers : Deciding(t)' => Deciding(t) PROVE Now
    BY <2>1 DEF FundInv, FundHeld
  <2>2. ASSUME NEW t \in Transfers, LockFund(t) PROVE Now
    <3>1. \A u \in Transfers : ~Deciding(u)
      BY <2>2, SessionsAre DEF LockFund, FundInv, FundHeld
    <3>2. fundLock' = t /\ pc' = [pc EXCEPT ![t] = "locked"] /\ journal' = journal
      BY <2>2 DEF LockFund
    <3>3. \A u \in Transfers \ {t} : ~Deciding(u)'
      BY <1>1, <3>1, <3>2, SessionsAre DEF Deciding, TypeOK
    <3>4. QED
      BY <3>2, <3>3
  <2>3. ASSUME NEW s \in Sessions, End(s) PROVE Now
    <3>1. pc'[s] = "away" /\ \A r \in Sessions \ {s} : pc'[r] = pc[r] /\ journal'[r] = journal[r]
      BY <1>1, <2>3, EndIs
    <3>2. ASSUME NEW t \in Transfers, Deciding(t)' PROVE t # s /\ fundLock = t
      BY <3>1, <3>2, SessionsAre DEF Deciding, FundInv, FundHeld
    <3>3. QED
      BY <2>3, <3>2 DEF End
  <2>4. ASSUME NEW t \in Transfers, Authorize(t) \/ MarkSucceeded(t) \/ MarkFailed(t) PROVE Now
    <3>1. PICK j, postings : Post(t, j, postings)
                             /\ (pc[t] # "locked" => Kind(j) # "transfer_authorized")
      BY <2>4 DEF Authorize, MarkSucceeded, MarkFailed, Fresh, Kind
    <3>2. fundLock' = fundLock
      BY <2>4 DEF Authorize, MarkSucceeded, MarkFailed
    <3>3. /\ pc'[t] = "posting" /\ journal'[t] = j
          /\ \A r \in Transfers \ {t} : pc'[r] = pc[r] /\ journal'[r] = journal[r]
      BY <1>1, <3>1, SessionsAre DEF Post, TypeOK
    <3>4. \A u \in Transfers : Deciding(u)' => Deciding(u)
      BY <3>1, <3>3 DEF Deciding
    <3>5. QED
      BY <2>1, <3>2, <3>4
  <2>5. ASSUME NEW t \in Transfers, MarkProcessing(t) PROVE Now
    BY <2>1, <2>5 DEF MarkProcessing, Deciding
  <2>6. ASSUME NEW s \in Sessions, InsertLine(s) PROVE Now
    BY <2>1, <2>6 DEF InsertLine, Deciding
  <2>7. ASSUME Boot \/ Die \/ SeedChart \/ SkipDeposit \/ UNCHANGED vars PROVE Now
    BY <2>1, <2>7 DEF Boot, Die, SeedChart, SkipDeposit, vars, Deciding
  <2>8. ASSUME SeedDeposit PROVE Now
    <3>1. fundLock' = fundLock /\ \A t \in Transfers : pc'[t] = pc[t] /\ journal'[t] = journal[t]
      BY <1>1, <2>8, SessionsAre DEF SeedDeposit, Post, TypeOK
    <3>2. QED
      BY <2>1, <3>1 DEF Deciding
  <2>9. ASSUME NEW s \in Sessions, Refuse(s) \/ Abort(s) \/ Commit(s) PROVE Now
    BY <2>3, <2>9 DEF Refuse, Abort, Commit
  <2> HIDE DEF Now
  <2>10. Now
    BY <2>2, <2>4, <2>5, <2>6, <2>7, <2>8, <2>9, SessionsAre DEF Next, Move
  <2>11. QED
    BY <2>10 DEF Now, FundHeld
\* What it decided on is still there: nobody else takes from the fund.
<1>3. ASSUME NEW t \in Transfers, Commit(t), Kind(journal[t]) = "transfer_authorized"
      PROVE  StillCovered' /\ Balance(Fund(Home), lines) >= AmountOf[t]
  <2>1. pc[t] = "posting" /\ End(t)
    BY <1>3 DEF Commit
  <2>2. Covered(t) /\ CurrencyOf[t] = Home /\ fundLock = t
    BY <1>3, <2>1 DEF FundInv, SumsInv, AtHome, StillCovered, FundHeld, Deciding
  <2>3. \A u \in Transfers \ {t} : ~Deciding(u)
    BY <2>2 DEF FundInv, FundHeld
  <2>4. pc'[t] = "away" /\ \A u \in Transfers \ {t} : pc'[u] = pc[u] /\ journal'[u] = journal[u]
    BY <1>1, <2>1, EndIs, SessionsAre
  <2>5. StillCovered'
    BY <2>3, <2>4 DEF StillCovered, Deciding
  <2>6. QED
    BY <2>2, <2>5 DEF Covered
<1>4. ASSUME NEW t \in Transfers, pc'[t] = "posting", Kind(journal'[t]) = "transfer_authorized"
      PROVE  Covered(t) /\ CurrencyOf[t] = Home
  <2>1. CurrencyOf[t] = Home
    BY <1>1, <1>4 DEF SumsInv, AtHome
  <2>2. ASSUME pc[t] = "posting", journal'[t] = journal[t] PROVE Covered(t)
    BY <1>4, <2>2 DEF FundInv, StillCovered
  <2>3. ASSUME NEW u \in Transfers, Authorize(u) \/ MarkSucceeded(u) \/ MarkFailed(u)
        PROVE  Covered(t) \/ (pc[t] = "posting" /\ journal'[t] = journal[t])
    <3>1. CASE u # t
      BY <1>1, <1>4, <2>3, <3>1, SessionsAre
      DEF Authorize, MarkSucceeded, MarkFailed, Post, TypeOK
    <3>2. CASE u = t
      <4>1. Authorize(t)
        <5>1. SUFFICES ASSUME MarkSucceeded(t) \/ MarkFailed(t) PROVE FALSE
          BY <2>3, <3>2
        <5>2. \E kind \in {"transfer_settled", "transfer_reversed"} : journal'[t] = Fresh(kind, t)
          BY <1>1, <5>1, SessionsAre DEF MarkSucceeded, MarkFailed, Post, TypeOK
        <5>3. QED
          BY <1>4, <5>2 DEF Fresh, Kind
      <4>2. QED
        BY <4>1 DEF Authorize
    <3>3. QED
      BY <3>1, <3>2
  <2>4. ASSUME NEW s \in Sessions, End(s) PROVE pc[t] = "posting" /\ journal'[t] = journal[t]
    BY <1>1, <1>4, <2>4, EndIs, SessionsAre
  <2>5. ASSUME NEW u \in Transfers, LockFund(u) PROVE pc[t] = "posting" /\ journal'[t] = journal[t]
    BY <1>1, <1>4, <2>5, SessionsAre DEF LockFund, TypeOK
  <2>6. ASSUME \/ \E u \in Transfers : MarkProcessing(u)
               \/ \E s \in Sessions : InsertLine(s)
               \/ Boot \/ Die \/ SeedChart \/ SkipDeposit \/ UNCHANGED vars
        PROVE  pc[t] = "posting" /\ journal'[t] = journal[t]
    BY <1>4, <2>6 DEF MarkProcessing, InsertLine, Boot, Die, SeedChart, SkipDeposit, vars
  <2>7. ASSUME SeedDeposit PROVE pc[t] = "posting" /\ journal'[t] = journal[t]
    BY <1>1, <1>4, <2>7, SessionsAre DEF SeedDeposit, Post, TypeOK
  <2>8. ASSUME NEW s \in Sessions, Refuse(s) \/ Abort(s) \/ Commit(s)
        PROVE  pc[t] = "posting" /\ journal'[t] = journal[t]
    BY <2>4, <2>8 DEF Refuse, Abort, Commit
  <2>9. Covered(t) \/ (pc[t] = "posting" /\ journal'[t] = journal[t])
    BY <2>3, <2>5, <2>6, <2>7, <2>8, SessionsAre DEF Next, Move
  <2>10. QED
    BY <2>1, <2>2, <2>9
<1>5. CASE \E t \in Transfers :
              /\ Commit(t) /\ Kind(journal[t]) = "transfer_authorized"
              /\ Balance(Fund(Home), lines') = Balance(Fund(Home), lines) - AmountOf[t]
  <2>1. PICK t \in Transfers :
              /\ Commit(t) /\ Kind(journal[t]) = "transfer_authorized"
              /\ Balance(Fund(Home), lines') = Balance(Fund(Home), lines) - AmountOf[t]
    BY <1>5
  <2>2. StillCovered' /\ Balance(Fund(Home), lines) >= AmountOf[t]
    BY <1>3, <2>1
  <2>3. Balance(Fund(Home), lines) \in Int /\ AmountOf[t] \in Int
    BY <1>1, FundMoves, BooksAssumption
  <2>4. Balance(Fund(Home), lines') >= 0
    BY <2>1, <2>2, <2>3
  <2>5. QED
    BY <1>1, <1>2, <2>2, <2>4 DEF FundInv, FundNeverShort
<1>6. CASE /\ Balance(Fund(Home), lines') \in Int
           /\ Balance(Fund(Home), lines') >= Balance(Fund(Home), lines)
  <2>1. Balance(Fund(Home), lines) \in Int /\ Balance(Fund(Home), lines) >= 0
    BY <1>1, FundMoves DEF FundInv, FundNeverShort
  <2>2. Balance(Fund(Home), lines') >= 0
    BY <1>6, <2>1
  <2>3. ASSUME NEW t \in Transfers, pc'[t] = "posting", Kind(journal'[t]) = "transfer_authorized"
        PROVE  Covered(t)'
    <3>1. Balance(Fund(Home), lines) >= AmountOf[t] /\ CurrencyOf[t] = Home /\ AmountOf[t] \in Int
      BY <1>4, <2>3, BooksAssumption DEF Covered
    <3>2. Balance(Fund(Home), lines') >= AmountOf[t]
      BY <1>6, <2>1, <3>1
    <3>3. QED
      BY <3>1, <3>2 DEF Covered
  <2>4. StillCovered'
    BY <2>3 DEF StillCovered
  <2>5. QED
    BY <1>1, <1>2, <2>2, <2>4 DEF FundInv, FundNeverShort
<1>7. QED
  BY <1>1, <1>5, <1>6, FundMoves

\* The fund, read off its lines, is never overdrawn: by transfers that race for it, by
\* reversals or by what is rolled back.
THEOREM FundStaysCovered == Spec => []FundNeverShort
<1>1. Init => FundInv
  <2> SUFFICES ASSUME Init PROVE FundInv
    OBVIOUS
  <2>1. SumsInv /\ Deposited = 0 /\ With({"succeeded"} \cup Open) = {}
    BY SumsInit DEF Init, Deposited, Funded, With, Open
  <2>2. Amounts({}) = Sum(AmountOf, {})
    BY DEF Amounts, Sum
  <2>3. Balance(Fund(Home), lines) = 0
    BY <2>1, <2>2, SumOfNone DEF SumsInv, BooksExplainStatuses
  <2>4. \A t \in Transfers : pc[t] = "away"
    BY SessionsAre DEF Init
  <2>5. QED
    BY <2>1, <2>3, <2>4 DEF FundInv, FundHeld, Deciding, StillCovered, FundNeverShort
<1>2. FundInv => FundNeverShort
  BY DEF FundInv
<1>3. QED
  BY <1>1, <1>2, FundStep, PTL DEF Spec
=============================================================================
