------------------------- MODULE AuthorizationProofs -------------------------
(* Theorems about Authorization, for any number of requests, keys and bodies.  *)
EXTENDS Authorization, Sums

-----------------------------------------------------------------------------
(* Type correctness.                                                           *)

LEMMA RequestFacts ==
    ASSUME NEW r \in Requests
    PROVE  /\ KeyOf[r] \in Keys
           /\ BodyOf[r] \in Bodies
           /\ r # Nobody
BY RequestsAssumption DEF Nobody

LEMMA AttemptIsResponse ==
    ASSUME TypeOK, NEW r \in Requests
    PROVE  Attempt(r) \in Attempts /\ Attempt(r) \in Responses /\ Attempt(r) # NoResponse
BY DEF TypeOK, Attempt, Attempts, Responses, NoResponse

LEMMA AttemptsSpeak ==
    ASSUME NEW x \in Attempts
    PROVE  x # NoResponse /\ x[1] \in Requests
<1>1. PICK r \in Requests, n \in Nat : x = <<r, n>>
  BY DEF Attempts
<1>2. QED
  BY <1>1 DEF NoResponse

\* The end of a transaction keeps what it releases well formed.
LEMMA ReleaseIsTyped ==
    ASSUME TypeOK, NEW r \in Requests, Release(r)
    PROVE  /\ holder' \in [Keys -> Requests \cup {Nobody}]
           /\ fundLock' \in Requests \cup {Nobody}
           /\ posted' \in [Requests -> Nat]
           /\ left' \in [Requests -> Nat]
BY RequestFacts DEF Release, TypeOK

LEMMA RollbackIsTyped ==
    ASSUME TypeOK, NEW r \in Requests, Rollback(r),
           NEW reply \in [what : Answers, response : Responses],
           answer' = [answer EXCEPT ![r] = reply]
    PROVE  TypeOK'
<1>1. pc' \in [Requests -> {"away", "arrived", "committed"} \cup Working]
  BY DEF Rollback, TypeOK
<1>2. answer' \in [Requests -> [what : Answers, response : Responses]]
  BY DEF TypeOK
<1>3. QED
  BY <1>1, <1>2, ReleaseIsTyped DEF Rollback, TypeOK

LEMMA RefusalIsTyped ==
    ASSUME TypeOK, NEW r \in Requests, NEW why \in Answers, Refuse(r, why)
    PROVE  TypeOK'
<1>1. [what |-> why, response |-> NoResponse] \in [what : Answers, response : Responses]
  BY DEF Responses
<1>2. QED
  BY <1>1, RollbackIsTyped DEF Refuse

LEMMA TypeInit == Init => TypeOK
<1> SUFFICES ASSUME Init PROVE TypeOK
  OBVIOUS
<1>1. Silence \in [what : Answers, response : Responses]
  BY DEF Silence, Answers, Responses
<1>2. fund \in Int
  BY RequestsAssumption DEF Init
<1>3. QED
  BY <1>1, <1>2 DEF Init, TypeOK

LEMMA TypeStep == TypeOK /\ [Next]_vars => TypeOK'
<1> SUFFICES ASSUME TypeOK, [Next]_vars PROVE TypeOK'
  OBVIOUS
<1>1. ASSUME NEW r \in Requests, Send(r) PROVE TypeOK'
  BY <1>1 DEF Send, TypeOK
<1>2. ASSUME NEW r \in Requests, TakeKey(r) PROVE TypeOK'
  BY <1>2, RequestFacts DEF TakeKey, TypeOK, Working
<1>3. ASSUME NEW r \in Requests, FindKey(r) PROVE TypeOK'
  <2>1. row[KeyOf[r]].response \in Responses
    BY RequestFacts DEF TypeOK, NoRow, Responses
  <2>2. FromRow(r) \in [what : Answers, response : Responses]
    BY <2>1 DEF FromRow, Answers, Responses
  <2>3. QED
    BY <1>3, <2>2, RollbackIsTyped DEF FindKey
<1>4. ASSUME NEW r \in Requests, Object(r) PROVE TypeOK'
  <2>1. Objection(r) \in Answers
    BY DEF Objection, Answers
  <2>2. QED
    BY <1>4, <2>1, RefusalIsTyped DEF Object
<1>5. ASSUME NEW r \in Requests, LockFund(r) PROVE TypeOK'
  BY <1>5 DEF LockFund, TypeOK, Working
<1>6. ASSUME NEW r \in Requests, CheckFund(r) PROVE TypeOK'
  <2>1. CASE Refuse(r, "short")
    BY <2>1, RefusalIsTyped DEF Answers
  <2>2. CASE ~Refuse(r, "short")
    <3>1. BodyOf[r].size \in Nat
      BY RequestFacts DEF Bodies
    <3>2. QED
      BY <1>6, <2>2, <3>1 DEF CheckFund, TypeOK, Working
  <2>3. QED
    BY <2>1, <2>2
<1>7. ASSUME NEW r \in Requests, AuthorizeNext(r) PROVE TypeOK'
  <2>1. Share(r) \in Nat /\ left[r] - Share(r) \in Nat
    BY <1>7 DEF AuthorizeNext, Share, TypeOK
  <2>2. QED
    BY <1>7, <2>1 DEF AuthorizeNext, TypeOK
<1>8. ASSUME NEW r \in Requests, RefuseNext(r) PROVE TypeOK'
  <2>1. PICK why \in {"unknown", "short"} : Refuse(r, why)
    BY <1>8 DEF RefuseNext
  <2>2. QED
    BY <2>1, RefusalIsTyped DEF Answers
<1>9. ASSUME NEW r \in Requests, Commit(r) PROVE TypeOK'
  <2>1. Recorded(r) \in [body : Bodies, response : Responses]
    BY RequestFacts, AttemptIsResponse DEF Recorded
  <2>2. work' \subseteq Keys \X Attempts
    BY <1>9, RequestFacts, AttemptIsResponse DEF Commit, TypeOK
  <2>3. row' \in [Keys -> [body : Bodies, response : Responses] \cup {NoRow}]
    BY <1>9, <2>1 DEF Commit, TypeOK
  <2>4. fund' \in Int
    BY <1>9 DEF Commit, TypeOK
  <2>5. pc' \in [Requests -> {"away", "arrived", "committed"} \cup Working]
    BY <1>9 DEF Commit, TypeOK
  <2>6. QED
    BY <1>9, <2>2, <2>3, <2>4, <2>5, ReleaseIsTyped DEF Commit, TypeOK
<1>10. ASSUME NEW r \in Requests, Answer(r) PROVE TypeOK'
  <2>1. [what |-> "created", response |-> Attempt(r)] \in [what : Answers, response : Responses]
    BY AttemptIsResponse DEF Answers
  <2>2. answer' \in [Requests -> [what : Answers, response : Responses]]
    BY <1>10, <2>1 DEF Answer, TypeOK
  <2>3. pc' \in [Requests -> {"away", "arrived", "committed"} \cup Working]
    BY <1>10 DEF Answer, TypeOK
  <2>4. QED
    BY <1>10, <2>2, <2>3 DEF Answer, TypeOK
<1>11. ASSUME NEW r \in Requests, Lose(r) PROVE TypeOK'
  <2>1. [what |-> "lost", response |-> NoResponse] \in [what : Answers, response : Responses]
    BY DEF Answers, Responses
  <2>2. QED
    BY <1>11, <2>1, RollbackIsTyped DEF Lose
<1>12. CASE UNCHANGED vars
  BY <1>12 DEF vars, TypeOK
<1>13. QED
  BY <1>1, <1>2, <1>3, <1>4, <1>5, <1>6, <1>7, <1>8, <1>9, <1>10, <1>11, <1>12
  DEF Next, Serve

\* Rows, locks and answers are always what the code can put in them.
THEOREM TypeCorrect == Spec => []TypeOK
BY TypeInit, TypeStep, PTL DEF Spec

-----------------------------------------------------------------------------
(* The money.  Whoever is past the check of its whole amount holds the lock on *)
(* the fund, so nobody else has moved the balance it was decided against.      *)

FundIsLocked == \A r \in Requests : pc[r] \in PayStep => fundLock = r

MoneyInv == TypeOK /\ FundIsLocked /\ FundNeverOverdrawn /\ DecidedAgainstOneBalance

LEMMA SizeIsNat == ASSUME NEW r \in Requests PROVE Total(r) \in Nat \ {0}
BY RequestFacts DEF Total, Bodies

\* The end of a transaction that commits nothing leaves everybody else's money.
LEMMA RollbackKeepsMoney ==
    ASSUME MoneyInv, NEW r \in Requests, Rollback(r)
    PROVE  (FundIsLocked /\ FundNeverOverdrawn /\ DecidedAgainstOneBalance)'
<1>1. ASSUME NEW s \in Requests, pc[s]' \in PayStep
      PROVE  s # r /\ pc[s] \in PayStep /\ fundLock = s
  BY <1>1 DEF Rollback, MoneyInv, TypeOK, PayStep, FundIsLocked
<1>2. FundIsLocked'
  BY <1>1 DEF Rollback, Release, FundIsLocked
<1>3. FundNeverOverdrawn'
  BY DEF Rollback, MoneyInv, FundNeverOverdrawn
<1>4. ASSUME NEW s \in Requests, pc[s]' = "authorize" PROVE (left[s] <= Available(s))'
  <2>1. s # r /\ pc[s] = "authorize"
    BY <1>1, <1>4 DEF Rollback, MoneyInv, TypeOK, PayStep
  <2>2. left'[s] = left[s] /\ posted'[s] = posted[s] /\ fund' = fund
    BY <2>1 DEF Rollback, Release, MoneyInv, TypeOK
  <2>3. QED
    BY <2>1, <2>2 DEF MoneyInv, DecidedAgainstOneBalance, Available
<1>5. QED
  BY <1>2, <1>3, <1>4 DEF DecidedAgainstOneBalance

LEMMA MoneyStep == MoneyInv /\ [Next]_vars => MoneyInv'
<1> SUFFICES ASSUME MoneyInv, [Next]_vars PROVE MoneyInv'
  OBVIOUS
<1> DEFINE Goal == (FundIsLocked /\ FundNeverOverdrawn /\ DecidedAgainstOneBalance)'
<1> USE DEF FundNeverOverdrawn
<1>0. TypeOK'
  BY TypeStep DEF MoneyInv
<1>1. ASSUME NEW r \in Requests, Send(r) PROVE Goal
  BY <1>1 DEF Send, MoneyInv, TypeOK, PayStep, FundIsLocked, DecidedAgainstOneBalance, Available
<1>2. ASSUME NEW r \in Requests, TakeKey(r) PROVE Goal
  BY <1>2 DEF TakeKey, MoneyInv, TypeOK, PayStep, FundIsLocked, DecidedAgainstOneBalance, Available
<1>3. ASSUME NEW r \in Requests, FindKey(r) PROVE Goal
  BY <1>3, RollbackKeepsMoney DEF FindKey
<1>4. ASSUME NEW r \in Requests, Object(r) PROVE Goal
  BY <1>4, RollbackKeepsMoney DEF Object, Refuse
<1>5. ASSUME NEW r \in Requests, LockFund(r) PROVE Goal
  <2>1. ASSUME NEW s \in Requests PROVE pc[s] \notin PayStep
    BY <1>5, RequestFacts DEF LockFund, FundIsFree, MoneyInv, FundIsLocked
  <2>2. ASSUME NEW s \in Requests, s # r PROVE pc'[s] = pc[s]
    BY <1>5, <2>2 DEF LockFund, MoneyInv, TypeOK
  <2>3. pc'[r] = "locked" /\ fundLock' = r
    BY <1>5 DEF LockFund, MoneyInv, TypeOK
  <2>4. QED
    BY <1>5, <2>1, <2>2, <2>3
    DEF LockFund, MoneyInv, PayStep, FundIsLocked, DecidedAgainstOneBalance
<1>6. ASSUME NEW r \in Requests, CheckFund(r) PROVE Goal
  <2>1. CASE Refuse(r, "short")
    BY <2>1, RollbackKeepsMoney DEF Refuse
  <2>2. CASE ~Refuse(r, "short")
    <3>1. Total(r) <= Available(r)
      BY <1>6, <2>2, SizeIsNat DEF CheckFund, MoneyInv, TypeOK, Available
    <3>2. FundIsLocked'
      BY <1>6, <2>2 DEF CheckFund, MoneyInv, TypeOK, FundIsLocked, PayStep
    <3>3. DecidedAgainstOneBalance'
      BY <1>6, <2>2, <3>1
      DEF CheckFund, MoneyInv, TypeOK, DecidedAgainstOneBalance, Available, Total
    <3>4. QED
      BY <1>6, <2>2, <3>2, <3>3 DEF CheckFund, MoneyInv
  <2>3. QED
    BY <2>1, <2>2
<1>7. ASSUME NEW r \in Requests, AuthorizeNext(r) PROVE Goal
  <2>1. Share(r) \in Nat
    BY DEF Share, MoneyInv, TypeOK
  <2>2. FundIsLocked' /\ FundNeverOverdrawn'
    BY <1>7 DEF AuthorizeNext, MoneyInv, FundIsLocked
  <2>3. ASSUME NEW s \in Requests, pc[s]' = "authorize" PROVE (left[s] <= Available(s))'
    <3>1. pc[s] = "authorize" /\ left[s] <= fund - posted[s] /\ fund' = fund
      BY <1>7, <2>3 DEF AuthorizeNext, MoneyInv, DecidedAgainstOneBalance, Available
    <3>2. left[s] \in Nat /\ posted[s] \in Nat /\ fund \in Int
      BY DEF MoneyInv, TypeOK
    <3>3. CASE s = r
      <4>1. left'[s] = left[s] - Share(r) /\ posted'[s] = posted[s] + Share(r)
        BY <1>7, <3>3 DEF AuthorizeNext, MoneyInv, TypeOK
      <4>2. QED
        BY <2>1, <3>1, <3>2, <4>1 DEF Available
    <3>4. CASE s # r
      <4>1. left'[s] = left[s] /\ posted'[s] = posted[s]
        BY <1>7, <3>4 DEF AuthorizeNext, MoneyInv, TypeOK
      <4>2. QED
        BY <3>1, <4>1 DEF Available
    <3>5. QED
      BY <3>3, <3>4
  <2>4. QED
    BY <2>2, <2>3 DEF DecidedAgainstOneBalance
<1>8. ASSUME NEW r \in Requests, RefuseNext(r) PROVE Goal
  BY <1>8, RollbackKeepsMoney DEF RefuseNext, Refuse
<1>9. ASSUME NEW r \in Requests, Commit(r) PROVE Goal
  <2>1. fundLock = r
    BY <1>9 DEF Commit, MoneyInv, FundIsLocked, PayStep
  <2>2. ASSUME NEW s \in Requests PROVE pc'[s] \notin PayStep
    <3>1. CASE s = r
      BY <1>9, <3>1 DEF Commit, MoneyInv, TypeOK, PayStep
    <3>2. CASE s # r
      BY <1>9, <3>2, <2>1 DEF Commit, MoneyInv, TypeOK, FundIsLocked
    <3>3. QED
      BY <3>1, <3>2
  <2>3. fund' >= 0
    <3>1. 0 <= fund - posted[r]
      BY <1>9 DEF Commit, MoneyInv, DecidedAgainstOneBalance, Available
    <3>2. posted[r] \in Nat /\ fund \in Int /\ fund' = fund - posted[r]
      BY <1>9 DEF Commit, MoneyInv, TypeOK
    <3>3. QED
      BY <3>1, <3>2
  <2>4. QED
    BY <2>2, <2>3 DEF FundIsLocked, DecidedAgainstOneBalance, PayStep
<1>10. ASSUME NEW r \in Requests, Answer(r) PROVE Goal
  BY <1>10 DEF Answer, MoneyInv, TypeOK, PayStep, FundIsLocked, DecidedAgainstOneBalance, Available
<1>11. ASSUME NEW r \in Requests, Lose(r) PROVE Goal
  BY <1>11, RollbackKeepsMoney DEF Lose
<1>12. CASE UNCHANGED vars
  BY <1>0, <1>12 DEF vars, MoneyInv, FundIsLocked, DecidedAgainstOneBalance, Available
<1>13. QED
  BY <1>0, <1>1, <1>2, <1>3, <1>4, <1>5, <1>6, <1>7, <1>8, <1>9, <1>10, <1>11, <1>12
  DEF MoneyInv, Next, Serve

LEMMA MoneyAlways == Spec => []MoneyInv
<1>1. Init => MoneyInv
  BY TypeInit, RequestsAssumption
  DEF Init, MoneyInv, FundIsLocked, PayStep, FundNeverOverdrawn, DecidedAgainstOneBalance
<1>2. QED
  BY <1>1, MoneyStep, PTL DEF Spec

\* However many requests race for it, the fund is never overdrawn.
THEOREM FundIsSafe == Spec => []FundNeverOverdrawn
<1>1. MoneyInv => FundNeverOverdrawn
  BY DEF MoneyInv
<1>2. QED
  BY <1>1, MoneyAlways, PTL

\* No run is stopped halfway by somebody else's payment.
THEOREM OneBalance == Spec => []DecidedAgainstOneBalance
<1>1. MoneyInv => DecidedAgainstOneBalance
  BY DEF MoneyInv
<1>2. QED
  BY <1>1, MoneyAlways, PTL

-----------------------------------------------------------------------------
(* The keys.  A key is held by one uncommitted transaction at a time, none once *)
(* its row is committed; the rows and the work done say the same.              *)

HolderWorks == \A r \in Requests : pc[r] \in Working => holder[KeyOf[r]] = r

HeldIsNew == \A k \in Keys : holder[k] # Nobody => row[k] = NoRow

WorkIsRecorded ==
    \A k \in Keys, x \in Attempts :
        <<k, x>> \in work <=> row[k] # NoRow /\ row[k].response = x

RowsAnswer == \A k \in Keys : row[k] # NoRow => row[k].response \in Attempts

CommittedWorked ==
    \A r \in Requests : pc[r] = "committed" => <<KeyOf[r], Attempt(r)>> \in work

Claims   == HolderWorks /\ HeldIsNew
Records  == WorkIsRecorded /\ RowsAnswer
Replies  == CommittedWorked /\ SameAnswerForAll /\ NobodyIsToldToWait
KeysInv  == TypeOK /\ Claims /\ Records /\ Replies

\* Letting go of a key disturbs neither what is recorded nor what others hold,
\* whatever true answer is given.
LEMMA RollbackKeepsKeys ==
    ASSUME KeysInv, NEW r \in Requests, Rollback(r),
           NEW reply \in [what : Answers, response : Responses],
           reply.what \in {"created", "replayed"} => <<KeyOf[r], reply.response>> \in work,
           reply.what # "in_flight",
           answer' = [answer EXCEPT ![r] = reply]
    PROVE  (Claims /\ Records /\ Replies)'
<1>1. ASSUME NEW s \in Requests, pc'[s] # "away" PROVE s # r /\ pc'[s] = pc[s]
  BY <1>1 DEF Rollback, KeysInv, TypeOK
<1>2. HolderWorks'
  <2>1. ASSUME NEW s \in Requests, pc'[s] \in Working PROVE holder'[KeyOf[s]] = s
    <3>1. s # r /\ pc[s] \in Working
      BY <1>1, <2>1 DEF Working
    <3>2. holder[KeyOf[s]] = s
      BY <3>1 DEF KeysInv, Claims, HolderWorks
    <3>3. QED
      BY <3>1, <3>2, RequestFacts DEF Rollback, Release, KeysInv, TypeOK
  <2>2. QED
    BY <2>1 DEF HolderWorks
<1>3. HeldIsNew'
  BY RequestFacts DEF Rollback, Release, KeysInv, TypeOK, Claims, HeldIsNew
<1>4. Records'
  BY DEF Rollback, KeysInv, Records, WorkIsRecorded, RowsAnswer
<1>5. CommittedWorked'
  BY <1>1 DEF Rollback, KeysInv, Replies, CommittedWorked, Attempt
<1>6. ASSUME NEW s \in Requests, s # r PROVE answer'[s] = answer[s]
  BY <1>6 DEF KeysInv, TypeOK
<1>7. answer'[r] = reply
  BY DEF KeysInv, TypeOK
<1>8. SameAnswerForAll' /\ NobodyIsToldToWait'
  BY <1>6, <1>7
  DEF Rollback, KeysInv, Replies, SameAnswerForAll, Satisfied, NobodyIsToldToWait
<1>9. QED
  BY <1>2, <1>3, <1>4, <1>5, <1>8 DEF Claims, Replies

LEMMA RefusalKeepsKeys ==
    ASSUME KeysInv, NEW r \in Requests,
           NEW why \in {"malformed", "unknown", "short"}, Refuse(r, why)
    PROVE  (Claims /\ Records /\ Replies)'
<1> DEFINE reply == [what |-> why, response |-> NoResponse]
<1>1. /\ reply \in [what : Answers, response : Responses]
      /\ reply.what \notin {"created", "replayed", "in_flight"}
  BY DEF Answers, Responses
<1>2. Rollback(r) /\ answer' = [answer EXCEPT ![r] = reply]
  BY DEF Refuse
<1>3. QED
  BY <1>1, <1>2, RollbackKeepsKeys

\* A row is told truly to whoever repeats its key.
LEMMA ReplayIsTrue ==
    ASSUME KeysInv, NEW r \in Requests, row[KeyOf[r]] # NoRow
    PROVE  /\ FromRow(r) \in [what : Answers, response : Responses]
           /\ FromRow(r).what \in {"created", "replayed"}
                => <<KeyOf[r], FromRow(r).response>> \in work
           /\ FromRow(r).what # "in_flight"
<1>1. row[KeyOf[r]].response \in Attempts /\ row[KeyOf[r]].response # NoResponse
  <2>1. row[KeyOf[r]].response \in Attempts
    BY RequestFacts DEF KeysInv, Records, RowsAnswer
  <2>2. QED
    BY <2>1, AttemptsSpeak
<1>2. <<KeyOf[r], row[KeyOf[r]].response>> \in work
  BY <1>1, RequestFacts DEF KeysInv, Records, WorkIsRecorded
<1>3. QED
  BY <1>1, <1>2 DEF FromRow, Answers, Responses

LEMMA KeysStep == KeysInv /\ [Next]_vars => KeysInv'
<1> SUFFICES ASSUME KeysInv, [Next]_vars PROVE KeysInv'
  OBVIOUS
<1> DEFINE Goal == (Claims /\ Records /\ Replies)'
<1>0. TypeOK /\ TypeOK'
  BY TypeStep DEF KeysInv
\* Three kinds of steps that leave the rows alone.
<1>a. ASSUME UNCHANGED <<row, work>> PROVE Records'
  BY <1>a DEF KeysInv, Records, WorkIsRecorded, RowsAnswer
<1>b. ASSUME UNCHANGED <<holder, row>>,
             \A s \in Requests : pc'[s] \in Working => pc[s] \in Working
      PROVE  Claims'
  BY <1>b DEF KeysInv, Claims, HolderWorks, HeldIsNew
<1>c. ASSUME UNCHANGED <<answer, work>>,
             \A s \in Requests :
                pc'[s] = "committed" => pc[s] = "committed" /\ sends'[s] = sends[s]
      PROVE  Replies'
  BY <1>c DEF KeysInv, Replies, CommittedWorked, SameAnswerForAll, NobodyIsToldToWait,
              Satisfied, Attempt
<1>1. ASSUME NEW r \in Requests, Send(r) PROVE Goal
  <2>1. \A s \in Requests : pc'[s] \in Working => pc[s] \in Working
    BY <1>0, <1>1 DEF Send, TypeOK, Working
  <2>2. \A s \in Requests :
           pc'[s] = "committed" => pc[s] = "committed" /\ sends'[s] = sends[s]
    BY <1>0, <1>1 DEF Send, TypeOK
  <2>3. QED
    BY <1>1, <1>a, <1>b, <1>c, <2>1, <2>2 DEF Send
<1>2. ASSUME NEW r \in Requests, TakeKey(r) PROVE Goal
  <2>1. HolderWorks'
    <3>1. ASSUME NEW s \in Requests, pc'[s] \in Working PROVE holder'[KeyOf[s]] = s
      <4>1. CASE s = r
        BY <1>0, <1>2, <4>1, RequestFacts DEF TakeKey, TypeOK
      <4>2. CASE s # r
        <5>1. holder[KeyOf[s]] = s /\ s # Nobody
          BY <1>0, <1>2, <3>1, <4>2, RequestFacts
          DEF TakeKey, TypeOK, KeysInv, Claims, HolderWorks
        <5>2. KeyOf[s] # KeyOf[r]
          BY <1>2, <5>1 DEF TakeKey
        <5>3. QED
          BY <1>0, <1>2, <5>1, <5>2, RequestFacts DEF TakeKey, TypeOK
      <4>3. QED
        BY <4>1, <4>2
    <3>2. QED
      BY <3>1 DEF HolderWorks
  <2>2. HeldIsNew'
    BY <1>0, <1>2, RequestFacts DEF TakeKey, TypeOK, KeysInv, Claims, HeldIsNew
  <2>3. \A s \in Requests :
           pc'[s] = "committed" => pc[s] = "committed" /\ sends'[s] = sends[s]
    BY <1>0, <1>2 DEF TakeKey, TypeOK
  <2>4. QED
    BY <1>2, <1>a, <1>c, <2>1, <2>2, <2>3 DEF TakeKey, Claims
<1>3. ASSUME NEW r \in Requests, FindKey(r) PROVE Goal
  BY <1>3, ReplayIsTrue, RollbackKeepsKeys DEF FindKey
<1>4. ASSUME NEW r \in Requests, Object(r) PROVE Goal
  <2>1. Objection(r) \in {"malformed", "unknown", "short"}
    BY <1>4 DEF Object, Objection
  <2>2. QED
    BY <1>4, <2>1, RefusalKeepsKeys DEF Object
<1>5. ASSUME NEW r \in Requests, LockFund(r) PROVE Goal
  <2>1. \A s \in Requests : /\ pc'[s] \in Working => pc[s] \in Working
                            /\ pc'[s] = "committed" => pc[s] = "committed"
    BY <1>0, <1>5 DEF LockFund, TypeOK, Working
  <2>2. QED
    BY <1>5, <1>a, <1>b, <1>c, <2>1 DEF LockFund
<1>6. ASSUME NEW r \in Requests, CheckFund(r) PROVE Goal
  <2>1. CASE Refuse(r, "short")
    BY <2>1, RefusalKeepsKeys
  <2>2. CASE ~Refuse(r, "short")
    <3>1. \A s \in Requests : /\ pc'[s] \in Working => pc[s] \in Working
                              /\ pc'[s] = "committed" => pc[s] = "committed"
      BY <1>0, <1>6, <2>2 DEF CheckFund, TypeOK, Working
    <3>2. QED
      BY <1>6, <2>2, <1>a, <1>b, <1>c, <3>1 DEF CheckFund
  <2>3. QED
    BY <2>1, <2>2
<1>7. ASSUME NEW r \in Requests, AuthorizeNext(r) PROVE Goal
  BY <1>7, <1>a, <1>b, <1>c DEF AuthorizeNext
<1>8. ASSUME NEW r \in Requests, RefuseNext(r) PROVE Goal
  <2>1. PICK why \in {"unknown", "short"} : Refuse(r, why)
    BY <1>8 DEF RefuseNext
  <2>2. QED
    BY <2>1, RefusalKeepsKeys
<1>9. ASSUME NEW r \in Requests, Commit(r) PROVE Goal
  <2> DEFINE k == KeyOf[r]
  <2>1. k \in Keys /\ holder[k] = r /\ row[k] = NoRow /\ r # Nobody
    BY <1>9, RequestFacts DEF Commit, KeysInv, Claims, HolderWorks, HeldIsNew, Working
  <2>2. Attempt(r) \in Attempts
    BY <1>0, AttemptIsResponse
  <2>3. Recorded(r) # NoRow /\ Recorded(r).response = Attempt(r)
    <3>1. BodyOf[r].endpoint # "none"
      BY RequestFacts DEF Bodies
    <3>2. BodyOf[r] # NoBody
      BY <3>1 DEF NoBody
    <3>3. QED
      BY <3>2 DEF Recorded, NoRow
  <2>4. row' = [row EXCEPT ![k] = Recorded(r)] /\ work' = work \cup {<<k, Attempt(r)>>}
    BY <1>9 DEF Commit
  <2>5. row'[k] = Recorded(r) /\ \A j \in Keys : j # k => row'[j] = row[j]
    BY <1>0, <2>1, <2>4 DEF TypeOK
  <2>6. ASSUME NEW s \in Requests, pc'[s] \in Working PROVE s # r /\ pc[s] \in Working
    BY <1>0, <1>9, <2>6 DEF Commit, TypeOK, Working
  <2>7. HolderWorks'
    <3>1. ASSUME NEW s \in Requests, pc'[s] \in Working PROVE holder'[KeyOf[s]] = s
      <4>1. s # r /\ holder[KeyOf[s]] = s
        BY <2>6, <3>1 DEF KeysInv, Claims, HolderWorks
      <4>2. QED
        BY <1>0, <1>9, <4>1, RequestFacts DEF Commit, Release, TypeOK
    <3>2. QED
      BY <3>1 DEF HolderWorks
  <2>8. HeldIsNew'
    <3>1. holder'[k] = Nobody /\ \A j \in Keys : j # k => holder'[j] = holder[j]
      BY <1>0, <1>9, <2>1 DEF Commit, Release, TypeOK
    <3>2. QED
      BY <2>5, <3>1 DEF KeysInv, Claims, HeldIsNew
  <2>9. WorkIsRecorded'
    <3>1. ASSUME NEW j \in Keys, NEW x \in Attempts
          PROVE  (<<j, x>> \in work <=> row[j] # NoRow /\ row[j].response = x)'
      <4>1. CASE j = k
        <5>1. <<k, x>> \notin work
          BY <2>1 DEF KeysInv, Records, WorkIsRecorded
        <5>2. QED
          BY <2>3, <2>4, <2>5, <4>1, <5>1
      <4>2. CASE j # k
        <5>1. <<j, x>> \in work' <=> <<j, x>> \in work
          BY <2>4, <4>2
        <5>2. QED
          BY <2>5, <4>2, <5>1 DEF KeysInv, Records, WorkIsRecorded, NoRow
      <4>3. QED
        BY <4>1, <4>2
    <3>2. QED
      BY <3>1 DEF WorkIsRecorded
  <2>10. RowsAnswer'
    BY <2>2, <2>3, <2>5 DEF KeysInv, Records, RowsAnswer, NoRow
  <2>11. CommittedWorked'
    <3>1. ASSUME NEW s \in Requests, pc'[s] = "committed"
          PROVE  <<KeyOf[s], Attempt(s)>>' \in work'
      <4>1. CASE s = r
        BY <1>9, <2>4, <4>1 DEF Commit, Attempt
      <4>2. CASE s # r
        BY <1>0, <1>9, <2>4, <3>1, <4>2
        DEF Commit, Attempt, TypeOK, KeysInv, Replies, CommittedWorked
      <4>3. QED
        BY <4>1, <4>2
    <3>2. QED
      BY <3>1 DEF CommittedWorked
  <2>12. SameAnswerForAll' /\ NobodyIsToldToWait'
    BY <1>9 DEF Commit, KeysInv, Replies, SameAnswerForAll, Satisfied, NobodyIsToldToWait
  <2>13. QED
    BY <2>7, <2>8, <2>9, <2>10, <2>11, <2>12 DEF Claims, Records, Replies
<1>10. ASSUME NEW r \in Requests, Answer(r) PROVE Goal
  <2>1. \A s \in Requests : /\ pc'[s] \in Working => pc[s] \in Working
                            /\ pc'[s] = "committed" => pc[s] = "committed"
    BY <1>0, <1>10 DEF Answer, TypeOK, Working
  <2>2. <<KeyOf[r], Attempt(r)>> \in work
    BY <1>10 DEF Answer, KeysInv, Replies, CommittedWorked
  <2>3. CommittedWorked'
    BY <1>10, <2>1 DEF Answer, KeysInv, Replies, CommittedWorked, Attempt
  <2>4. /\ answer'[r] = [what |-> "created", response |-> Attempt(r)]
        /\ \A s \in Requests : s # r => answer'[s] = answer[s]
    BY <1>0, <1>10 DEF Answer, TypeOK
  <2>5. SameAnswerForAll' /\ NobodyIsToldToWait'
    BY <1>10, <2>2, <2>4
    DEF Answer, KeysInv, Replies, SameAnswerForAll, Satisfied, NobodyIsToldToWait
  <2>6. QED
    BY <1>10, <1>a, <1>b, <2>1, <2>3, <2>5 DEF Answer, Replies
<1>11. ASSUME NEW r \in Requests, Lose(r) PROVE Goal
  <2> DEFINE reply == [what |-> "lost", response |-> NoResponse]
  <2>1. /\ reply \in [what : Answers, response : Responses]
        /\ reply.what \notin {"created", "replayed", "in_flight"}
    BY DEF Answers, Responses
  <2>2. QED
    BY <1>11, <2>1, RollbackKeepsKeys DEF Lose
<1>12. CASE UNCHANGED vars
  BY <1>0, <1>12, <1>a, <1>b, <1>c DEF vars, KeysInv
<1>13. QED
  BY <1>0, <1>1, <1>2, <1>3, <1>4, <1>5, <1>6, <1>7, <1>8, <1>9, <1>10, <1>11, <1>12
  DEF KeysInv, Next, Serve

LEMMA KeysInit == Init => KeysInv
<1> SUFFICES ASSUME Init PROVE KeysInv
  OBVIOUS
<1>1. Claims /\ Records
  BY DEF Init, Claims, HolderWorks, HeldIsNew, Working, Records, WorkIsRecorded, RowsAnswer
<1>2. Replies
  BY DEF Init, Replies, CommittedWorked, SameAnswerForAll, Satisfied, NobodyIsToldToWait, Silence
<1>3. QED
  BY <1>1, <1>2, TypeInit DEF KeysInv

LEMMA KeysAlways == Spec => []KeysInv
BY KeysInit, KeysStep, PTL DEF Spec

\* A key commits once, whatever is repeated, lost or interleaved.
THEOREM OneCommitPerKey == Spec => []KeyWorksOnce
<1>1. KeysInv => KeyWorksOnce
  <2> SUFFICES ASSUME KeysInv, NEW a \in work, NEW b \in work, a[1] = b[1] PROVE a = b
    BY DEF KeyWorksOnce
  <2>1. PICK k \in Keys, x \in Attempts : a = <<k, x>>
    BY DEF KeysInv, TypeOK
  <2>2. PICK y \in Attempts : b = <<k, y>>
    BY <2>1 DEF KeysInv, TypeOK
  <2>3. x = y
    BY <2>1, <2>2 DEF KeysInv, Records, WorkIsRecorded
  <2>4. QED
    BY <2>1, <2>2, <2>3
<1>2. QED
  BY <1>1, KeysAlways, PTL

\* Everyone who is told the money was authorized is told of that one commit.
THEOREM OneAnswerPerKey == Spec => []SameAnswerForAll
<1>1. KeysInv => SameAnswerForAll
  BY DEF KeysInv, Replies
<1>2. QED
  BY <1>1, KeysAlways, PTL

\* The "still in flight" answer is never given.
THEOREM NobodyWaits == Spec => []NobodyIsToldToWait
<1>1. KeysInv => NobodyIsToldToWait
  BY DEF KeysInv, Replies
<1>2. QED
  BY <1>1, KeysAlways, PTL

-----------------------------------------------------------------------------
(* The dollars.  A commit takes from the fund what its body asks for, neither  *)
(* more nor less, because what is posted and what is left add up to it; and it *)
(* is the only step that adds a row.                                           *)

PostedInFull ==
    \A r \in Requests :
        IF pc[r] = "authorize" THEN posted[r] + left[r] = BodyOf[r].size ELSE posted[r] = 0

LEMMA PostedStep == TypeOK /\ PostedInFull /\ [Next]_vars => PostedInFull'
<1> SUFFICES ASSUME TypeOK, PostedInFull, [Next]_vars PROVE PostedInFull'
  OBVIOUS
<1> DEFINE Full(s) == IF pc[s] = "authorize" THEN posted[s] + left[s] = BodyOf[s].size
                                             ELSE posted[s] = 0
\* A request that does not move, and one that is over.
<1>a. ASSUME NEW s \in Requests, pc'[s] = pc[s], posted'[s] = posted[s], left'[s] = left[s]
      PROVE  Full(s)'
  BY <1>a DEF PostedInFull
<1>b. ASSUME NEW s \in Requests, pc'[s] # "authorize", posted'[s] = 0 PROVE Full(s)'
  BY <1>b
<1>c. ASSUME NEW r \in Requests, Rollback(r), NEW s \in Requests PROVE Full(s)'
  <2>1. CASE s = r
    BY <1>b, <1>c, <2>1 DEF Rollback, Release, TypeOK
  <2>2. CASE s # r
    BY <1>a, <1>c, <2>2 DEF Rollback, Release, TypeOK
  <2>3. QED
    BY <2>1, <2>2
<1> DEFINE Goal == \A s \in Requests : Full(s)'
<1> HIDE DEF Full
\* Before the payments nothing is posted.
<1>d. ASSUME NEW r \in Requests, pc[r] # "authorize", pc' = [pc EXCEPT ![r] = pc'[r]],
             pc'[r] # "authorize", UNCHANGED <<posted, left>>
      PROVE  Goal
  BY <1>a, <1>b, <1>d DEF TypeOK, PostedInFull
<1>1. ASSUME NEW r \in Requests, Send(r) PROVE Goal
  BY <1>1, <1>d DEF Send, TypeOK
<1>2. ASSUME NEW r \in Requests, TakeKey(r) PROVE Goal
  BY <1>2, <1>d DEF TakeKey, TypeOK
<1>3. ASSUME NEW r \in Requests, FindKey(r) \/ Object(r) \/ RefuseNext(r) \/ Lose(r) PROVE Goal
  BY <1>3, <1>c DEF FindKey, Object, RefuseNext, Lose, Refuse
<1>4. ASSUME NEW r \in Requests, LockFund(r) PROVE Goal
  BY <1>4, <1>d DEF LockFund, TypeOK
<1>5. ASSUME NEW r \in Requests, CheckFund(r) PROVE Goal
  <2>1. CASE Refuse(r, "short")
    BY <1>c, <2>1 DEF Refuse
  <2>2. CASE ~Refuse(r, "short")
    <3>1. /\ pc'[r] = "authorize" /\ left'[r] = BodyOf[r].size /\ posted'[r] = 0
          /\ BodyOf[r].size \in Nat
      BY <1>5, <2>2, RequestFacts DEF CheckFund, TypeOK, PostedInFull, Bodies
    <3>2. Full(r)'
      BY <3>1 DEF Full
    <3>3. \A s \in Requests \ {r} : pc'[s] = pc[s] /\ posted'[s] = posted[s] /\ left'[s] = left[s]
      BY <1>5, <2>2 DEF CheckFund, TypeOK
    <3>4. QED
      BY <1>a, <3>2, <3>3
  <2>3. QED
    BY <2>1, <2>2
<1>6. ASSUME NEW r \in Requests, AuthorizeNext(r) PROVE Goal
  <2>1. /\ posted'[r] = posted[r] + Share(r) /\ left'[r] = left[r] - Share(r)
        /\ pc'[r] = "authorize" /\ posted[r] + left[r] = BodyOf[r].size
    BY <1>6 DEF AuthorizeNext, TypeOK, PostedInFull
  <2>2. Share(r) \in Int /\ posted[r] \in Int /\ left[r] \in Int
    BY DEF Share, TypeOK
  <2>3. Full(r)'
    BY <2>1, <2>2 DEF Full
  <2>4. \A s \in Requests \ {r} : pc'[s] = pc[s] /\ posted'[s] = posted[s] /\ left'[s] = left[s]
    BY <1>6 DEF AuthorizeNext, TypeOK
  <2>5. QED
    BY <1>a, <2>3, <2>4
<1>7. ASSUME NEW r \in Requests, Commit(r) PROVE Goal
  <2>1. pc'[r] # "authorize" /\ posted'[r] = 0
    BY <1>7 DEF Commit, Release, TypeOK
  <2>2. \A s \in Requests \ {r} : pc'[s] = pc[s] /\ posted'[s] = posted[s] /\ left'[s] = left[s]
    BY <1>7 DEF Commit, Release, TypeOK
  <2>3. QED
    BY <1>a, <1>b, <2>1, <2>2
<1>8. ASSUME NEW r \in Requests, Answer(r) PROVE Goal
  BY <1>8, <1>d DEF Answer, TypeOK
<1>9. ASSUME UNCHANGED vars PROVE Goal
  BY <1>9, <1>a DEF vars
<1>10. Goal
  <2> HIDE DEF Goal
  <2>1. QED
    BY <1>1, <1>2, <1>3, <1>4, <1>5, <1>6, <1>7, <1>8, <1>9 DEF Next, Serve
<1>11. QED
  BY <1>10 DEF PostedInFull, Full

\* What each committed key asked for.
Sizes == [k \in Keys |-> row[k].body.size]

DollarsInv ==
    /\ KeysInv
    /\ PostedInFull
    /\ IsFiniteSet(Used)
    /\ fund = Opening - Sum(Sizes, Used)

LEMMA SizesAreNumbers == ASSUME TypeOK, NEW k \in Keys PROVE Sizes[k] \in Int
BY DEF Sizes, TypeOK, Bodies, NoRow, NoBody

\* Rows come from commits only.
LEMMA CommitsMakeRows ==
    ASSUME [Next]_vars, \A r \in Requests : ~Commit(r)
    PROVE  UNCHANGED <<row, fund>>
BY DEF Next, Serve, vars, Send, TakeKey, FindKey, Object, LockFund, CheckFund, AuthorizeNext,
       RefuseNext, Answer, Lose, Refuse, Rollback

LEMMA DollarsStep == DollarsInv /\ [Next]_vars => DollarsInv'
<1> SUFFICES ASSUME DollarsInv, [Next]_vars PROVE DollarsInv'
  OBVIOUS
<1>1. KeysInv' /\ PostedInFull'
  BY KeysStep, PostedStep DEF DollarsInv, KeysInv
<1>2. CASE \A r \in Requests : ~Commit(r)
  <2>1. UNCHANGED <<row, fund>>
    BY <1>2, CommitsMakeRows
  <2>2. Used' = Used /\ Sizes' = Sizes
    BY <2>1 DEF Used, Sizes
  <2>3. QED
    BY <1>1, <2>1, <2>2 DEF DollarsInv
<1>3. ASSUME NEW r \in Requests, Commit(r) PROVE IsFiniteSet(Used)' /\ fund' = Opening - Sum(Sizes', Used')
  <2> DEFINE k == KeyOf[r]
  <2>1. k \in Keys /\ row[k] = NoRow
    BY <1>3, RequestFacts DEF Commit, DollarsInv, KeysInv, Claims, HolderWorks, HeldIsNew, Working
  <2>2. row'[k] = Recorded(r) /\ \A j \in Keys \ {k} : row'[j] = row[j]
    BY <1>3, <2>1 DEF Commit, DollarsInv, KeysInv, TypeOK
  <2>3. Recorded(r) # NoRow /\ Recorded(r).body.size = BodyOf[r].size
    <3>1. Recorded(r).body = BodyOf[r] /\ BodyOf[r].size # 0 /\ NoRow.body.size = 0
      BY RequestFacts DEF Recorded, Bodies, NoRow, NoBody
    <3>2. QED
      BY <3>1
  <2>4. k \notin Used /\ Used' = Used \cup {k}
    BY <2>1, <2>2, <2>3 DEF Used
  <2>5. IsFiniteSet(Used) /\ Used \subseteq Keys
    BY DEF DollarsInv, Used
  <2>6. IsFiniteSet(Used')
    BY <2>4, <2>5, FS_AddElement
  <2>7. \A j \in Used : Sizes'[j] = Sizes[j]
    BY <2>2, <2>4, <2>5 DEF Sizes
  <2>8. \A j \in Used \cup {k} : Sizes'[j] \in Int
    BY <1>1, <2>1, <2>5 DEF Sizes, KeysInv, TypeOK, Bodies, NoRow, NoBody
  <2>9. Sizes'[k] = BodyOf[r].size
    BY <2>1, <2>2, <2>3 DEF Sizes
  <2> HIDE DEF k
  <2>10. Sum(Sizes', Used \cup {k}) = Sum(Sizes', Used) + Sizes'[k]
    BY <2>4, <2>5, <2>8, SumGrows
  <2>11. Sum(Sizes', Used) = Sum(Sizes, Used)
    BY <2>5, <2>7, SumDepends
  <2>12. Sum(Sizes, Used) \in Int
    BY <2>5, SizesAreNumbers, SumSplits DEF DollarsInv, KeysInv
  <2>13. fund' = fund - posted[r] /\ posted[r] = BodyOf[r].size
    BY <1>3 DEF Commit, DollarsInv, PostedInFull, KeysInv, TypeOK
  <2>14. Opening \in Int /\ BodyOf[r].size \in Int /\ fund = Opening - Sum(Sizes, Used)
    BY RequestsAssumption, RequestFacts DEF DollarsInv, Bodies
  <2>15. Sum(Sizes', Used') = Sum(Sizes, Used) + BodyOf[r].size
    BY <2>4, <2>9, <2>10, <2>11
  <2>16. QED
    BY <2>6, <2>12, <2>13, <2>14, <2>15
<1>4. QED
  BY <1>1, <1>2, <1>3 DEF DollarsInv

\* The sum of the property is the sum of Sums.
LEMMA DollarsAreSizes ==
    ASSUME DollarsInv
    PROVE  MapThenSumSet(LAMBDA k : row[k].body.size, Used) = Sum(Sizes, Used)
<1> DEFINE Unfolds(f) ==
              f = [s \in SUBSET Used |->
                      IF s = {} THEN 0 ELSE row[Pick(s)].body.size + f[s \ {Pick(s)}]]
           it == CHOOSE f : Unfolds(f)
<1>1. MapThenSumSet(LAMBDA k : row[k].body.size, Used) = it[Used]
  BY DEF MapThenSumSet, MapThenFoldSet, Pick
<1>2. ASSUME NEW s \in SUBSET Used, s # {} PROVE Sizes[Pick(s)] = row[Pick(s)].body.size
  BY <1>2, PickIsMember DEF Sizes, Used
<1>3. ASSUME NEW f PROVE Unfolds(f) <=> SumsBelow(Sizes, f, Used)
  BY <1>2 DEF SumsBelow, Unfold
<1>4. PICK f : SumsBelow(Sizes, f, Used) /\ Sum(Sizes, Used) = f[Used]
  BY SumIsSum DEF DollarsInv
<1> HIDE DEF Unfolds
<1>5. SumsBelow(Sizes, it, Used)
  BY <1>3, <1>4
<1>6. it[Used] = f[Used]
  BY <1>4, <1>5, SumsAgree DEF DollarsInv
<1>7. QED
  BY <1>1, <1>4, <1>6

\* What left the fund is what the committed keys asked for, each once and in full,
\* whatever is repeated, lost, refused halfway or interleaved.
THEOREM DollarsHaveKeys == Spec => []EveryDollarHasItsKey
<1>1. Init => DollarsInv
  <2> SUFFICES ASSUME Init PROVE DollarsInv
    OBVIOUS
  <2>1. Used = {} /\ PostedInFull /\ fund = Opening
    BY DEF Init, Used, PostedInFull
  <2>2. QED
    BY <2>1, KeysInit, SumOfNone, FS_EmptySet, RequestsAssumption DEF DollarsInv
<1>2. DollarsInv => EveryDollarHasItsKey
  BY DollarsAreSizes DEF DollarsInv, EveryDollarHasItsKey
<1>3. QED
  BY <1>1, <1>2, DollarsStep, PTL DEF Spec
-----------------------------------------------------------------------------
(* The promise of the key.  A row names the request that took effect, since    *)
(* its body is that request's; a request that gets as far as a payment has     *)
(* nobody unknown behind it; and nobody who is satisfied asks again.           *)

RowsNameTheirRequest ==
    \A k \in Keys : row[k] # NoRow => row[k].body = BodyOf[row[k].response[1]]

AskedInNeed == \A r \in Requests : pc[r] # "away" => ~Satisfied(r)

NobodyUnknownBehind ==
    \A r \in Requests :
        /\ pc[r] \in PayStep => Objection(r) = "none"
        /\ pc[r] = "authorize" /\ BodyOf[r].endpoint = "runs" /\ BodyOf[r].unknown # 0
             => \/ BodyOf[r].unknown > BodyOf[r].size
                \/ BodyOf[r].size - left[r] < BodyOf[r].unknown

PromiseInv ==
    /\ KeysInv
    /\ MoneyInv
    /\ PostedInFull
    /\ RowsNameTheirRequest
    /\ AskedInNeed
    /\ NobodyUnknownBehind

LEMMA RowsStep == KeysInv /\ RowsNameTheirRequest /\ [Next]_vars => RowsNameTheirRequest'
<1> SUFFICES ASSUME KeysInv, RowsNameTheirRequest, [Next]_vars PROVE RowsNameTheirRequest'
  OBVIOUS
<1>1. CASE \A r \in Requests : ~Commit(r)
  <2>1. row' = row
    BY <1>1, CommitsMakeRows
  <2>2. QED
    BY <2>1 DEF RowsNameTheirRequest
<1>2. ASSUME NEW r \in Requests, Commit(r) PROVE RowsNameTheirRequest'
  <2>1. row' = [row EXCEPT ![KeyOf[r]] = Recorded(r)] /\ KeyOf[r] \in Keys
    BY <1>2, RequestFacts DEF Commit
  <2>2. Recorded(r).body = BodyOf[Recorded(r).response[1]]
    BY DEF Recorded, Attempt
  <2>3. QED
    BY <2>1, <2>2 DEF RowsNameTheirRequest, KeysInv, TypeOK
<1>3. QED
  BY <1>1, <1>2

LEMMA NeedStep == TypeOK /\ AskedInNeed /\ [Next]_vars => AskedInNeed'
<1> SUFFICES ASSUME TypeOK, AskedInNeed, [Next]_vars PROVE AskedInNeed'
  OBVIOUS
<1> DEFINE Need(s) == pc[s] # "away" => ~Satisfied(s)
<1> DEFINE Goal == \A s \in Requests : Need(s)'
<1>a. ASSUME NEW r \in Requests, answer' = answer, ~Satisfied(r), NEW step,
             pc' = [pc EXCEPT ![r] = step]
      PROVE  Goal
  BY <1>a DEF TypeOK, AskedInNeed, Satisfied
<1>b. ASSUME NEW r \in Requests, NEW reply, answer' = [answer EXCEPT ![r] = reply],
             pc' = [pc EXCEPT ![r] = "away"]
      PROVE  Goal
  BY <1>b DEF TypeOK, AskedInNeed, Satisfied
<1>c. ASSUME UNCHANGED <<pc, answer>> PROVE Goal
  BY <1>c DEF AskedInNeed, Satisfied
<1> HIDE DEF Goal
<1>1. ASSUME NEW r \in Requests, Send(r) PROVE Goal
  BY <1>1, <1>a DEF Send
<1>2. ASSUME NEW r \in Requests, TakeKey(r) PROVE Goal
  BY <1>2, <1>a DEF TakeKey, AskedInNeed
<1>3. ASSUME NEW r \in Requests, LockFund(r) PROVE Goal
  BY <1>3, <1>a DEF LockFund, AskedInNeed
<1>4. ASSUME NEW r \in Requests, CheckFund(r) PROVE Goal
  <2>1. CASE Refuse(r, "short")
    BY <2>1, <1>b DEF Refuse, Rollback
  <2>2. CASE ~Refuse(r, "short")
    BY <1>4, <2>2, <1>a DEF CheckFund, AskedInNeed
  <2>3. QED
    BY <2>1, <2>2
<1>5. ASSUME NEW r \in Requests, Commit(r) PROVE Goal
  BY <1>5, <1>a DEF Commit, AskedInNeed
<1>6. ASSUME NEW r \in Requests, FindKey(r) \/ Object(r) \/ RefuseNext(r) \/ Lose(r) \/ Answer(r)
      PROVE  Goal
  BY <1>6, <1>b DEF FindKey, Object, RefuseNext, Lose, Answer, Refuse, Rollback
<1>7. ASSUME NEW r \in Requests, AuthorizeNext(r) PROVE Goal
  BY <1>7, <1>c DEF AuthorizeNext
<1>8. ASSUME UNCHANGED vars PROVE Goal
  BY <1>8, <1>c DEF vars
<1>9. Goal
  BY <1>1, <1>2, <1>3, <1>4, <1>5, <1>6, <1>7, <1>8 DEF Next, Serve
<1>10. QED
  BY <1>9 DEF Goal, AskedInNeed

LEMMA UnknownStep == TypeOK /\ NobodyUnknownBehind /\ [Next]_vars => NobodyUnknownBehind'
<1> SUFFICES ASSUME TypeOK, NobodyUnknownBehind, [Next]_vars PROVE NobodyUnknownBehind'
  OBVIOUS
<1> DEFINE Behind(s) ==
      /\ pc[s] \in PayStep => Objection(s) = "none"
      /\ pc[s] = "authorize" /\ BodyOf[s].endpoint = "runs" /\ BodyOf[s].unknown # 0
           => \/ BodyOf[s].unknown > BodyOf[s].size
              \/ BodyOf[s].size - left[s] < BodyOf[s].unknown
<1> DEFINE Goal == \A s \in Requests : Behind(s)'
<1>0. ASSUME NEW s \in Requests PROVE Behind(s)
  BY <1>0 DEF NobodyUnknownBehind
<1>a. ASSUME NEW s \in Requests, pc'[s] = pc[s], left'[s] = left[s] PROVE Behind(s)'
  BY <1>0, <1>a DEF Objection
<1>b. ASSUME NEW s \in Requests, pc'[s] \notin PayStep PROVE Behind(s)'
  BY <1>b DEF PayStep
\* One request moves, and away from the payments.
<1>c. ASSUME NEW r \in Requests, NEW step, step \notin PayStep, pc' = [pc EXCEPT ![r] = step],
             \A s \in Requests : s # r => left'[s] = left[s]
      PROVE  Goal
  <2> SUFFICES ASSUME NEW s \in Requests PROVE Behind(s)'
    OBVIOUS
  <2>1. CASE s = r
    BY <1>b, <1>c, <2>1 DEF TypeOK
  <2>2. CASE s # r
    BY <1>a, <1>c, <2>2 DEF TypeOK
  <2>3. QED
    BY <2>1, <2>2
<1>d. ASSUME NEW r \in Requests, Rollback(r) PROVE Goal
  BY <1>d, <1>c DEF Rollback, Release, PayStep, TypeOK
\* One request moves, to a payment.
<1>e. ASSUME NEW r \in Requests, Behind(r)', \A s \in Requests : s # r => pc'[s] = pc[s] /\ left'[s] = left[s]
      PROVE  Goal
  BY <1>a, <1>e
<1> HIDE DEF Goal, Behind
<1>1. ASSUME NEW r \in Requests, Send(r) \/ TakeKey(r) \/ Answer(r) PROVE Goal
  BY <1>1, <1>c DEF Send, TakeKey, Answer, PayStep
<1>2. ASSUME NEW r \in Requests, FindKey(r) \/ Object(r) \/ RefuseNext(r) \/ Lose(r) PROVE Goal
  BY <1>2, <1>d DEF FindKey, Object, RefuseNext, Lose, Refuse
<1>3. ASSUME NEW r \in Requests, LockFund(r) PROVE Goal
  <2>1. Behind(r)'
    BY <1>3 DEF Behind, LockFund, TypeOK, Objection
  <2>2. QED
    BY <1>3, <1>e, <2>1 DEF LockFund, TypeOK
<1>4. ASSUME NEW r \in Requests, CheckFund(r) PROVE Goal
  <2>1. CASE Refuse(r, "short")
    BY <2>1, <1>d DEF Refuse
  <2>2. CASE ~Refuse(r, "short")
    <3>1. /\ pc' = [pc EXCEPT ![r] = "authorize"]
          /\ left' = [left EXCEPT ![r] = BodyOf[r].size]
          /\ pc[r] = "locked"
      BY <1>4, <2>2 DEF CheckFund
    <3>2. BodyOf[r].size \in Nat /\ BodyOf[r].unknown \in Nat
      BY RequestFacts DEF Bodies
    <3>3. Objection(r) = "none"
      BY <1>0, <3>1 DEF Behind, PayStep
    <3>4. Behind(r)'
      BY <3>1, <3>2, <3>3 DEF Behind, TypeOK, Objection
    <3>5. QED
      BY <3>1, <3>4, <1>e DEF TypeOK
  <2>3. QED
    BY <2>1, <2>2
<1>5. ASSUME NEW r \in Requests, AuthorizeNext(r) PROVE Goal
  <2>1. BodyOf[r].size \in Nat /\ BodyOf[r].unknown \in Nat /\ left[r] \in Nat
    BY RequestFacts DEF Bodies, TypeOK
  <2>2. pc' = pc /\ pc[r] = "authorize" /\ ~AtUnknown(r) /\ left'[r] = left[r] - Share(r)
    BY <1>5 DEF AuthorizeNext, TypeOK
  <2>3. Behind(r)
    BY <1>0
  <2>4. Behind(r)'
    BY <2>1, <2>2, <2>3 DEF Behind, AtUnknown, Share, Objection
  <2>5. QED
    BY <1>5, <2>2, <2>4, <1>e DEF AuthorizeNext, TypeOK
<1>6. ASSUME NEW r \in Requests, Commit(r) PROVE Goal
  BY <1>6, <1>c DEF Commit, Release, PayStep, TypeOK
<1>7. ASSUME UNCHANGED vars PROVE Goal
  BY <1>7, <1>a DEF vars, Goal
<1>8. Goal
  BY <1>1, <1>2, <1>3, <1>4, <1>5, <1>6, <1>7 DEF Next, Serve
<1>9. QED
  BY <1>8 DEF Goal, Behind, NobodyUnknownBehind

LEMMA PromiseStarts == Init => PromiseInv
<1> SUFFICES ASSUME Init PROVE PromiseInv
  OBVIOUS
<1>1. KeysInv
  BY KeysInit
<1>2. MoneyInv
  BY TypeInit, RequestsAssumption
  DEF Init, MoneyInv, FundIsLocked, PayStep, FundNeverOverdrawn, DecidedAgainstOneBalance
<1>3. PostedInFull /\ RowsNameTheirRequest /\ AskedInNeed /\ NobodyUnknownBehind
  BY DEF Init, PostedInFull, RowsNameTheirRequest, AskedInNeed, NobodyUnknownBehind, PayStep
<1>4. QED
  BY <1>1, <1>2, <1>3 DEF PromiseInv

LEMMA PromiseStep == PromiseInv /\ [Next]_vars => PromiseInv'
BY KeysStep, MoneyStep, PostedStep, RowsStep, NeedStep, UnknownStep DEF PromiseInv, KeysInv

LEMMA PromiseAlways == Spec => []PromiseInv
BY PromiseStarts, PromiseStep, PTL DEF Spec

\* Each step is one the promise allows: a commit takes effect, an answer is the
\* truth, anything else is not noticed.
TookEffect == [k \in Keys |-> EffectOf(k)]
Told       == [r \in Requests |-> Heard(answer[r])]

LEMMA WordsMean ==
    /\ Said("created") = "authorized" /\ Said("replayed") = "authorized"
    /\ Said("malformed") = "improper" /\ Said("unknown") = "improper"
    /\ Said("conflict") = "conflict" /\ Said("short") = "short"
    /\ Said("lost") = "nothing" /\ Said("none") = "nothing"
    /\ \A what : Said(what) = "authorized" => what \in {"created", "replayed"}
BY DEF Said

LEMMA EffectsAreRows ==
    ASSUME PromiseInv, NEW k \in Keys
    PROVE  /\ row[k] = NoRow => EffectOf(k) = Nobody
           /\ row[k] # NoRow => /\ EffectOf(k) = row[k].response[1]
                                /\ EffectOf(k) \in Requests
                                /\ EffectOf(k) # Nobody
                                /\ BodyOf[EffectOf(k)] = row[k].body
<1>1. CASE row[k] = NoRow
  BY <1>1 DEF EffectOf
<1>2. CASE row[k] # NoRow
  <2>1. row[k].response \in Attempts
    BY <1>2 DEF PromiseInv, KeysInv, Records, RowsAnswer
  <2>2. row[k].response # NoResponse /\ row[k].response[1] \in Requests
    BY <2>1, AttemptsSpeak
  <2>3. EffectOf(k) = row[k].response[1]
    BY <1>2, <2>2 DEF EffectOf
  <2>4. row[k].body = BodyOf[row[k].response[1]]
    BY <1>2 DEF PromiseInv, RowsNameTheirRequest
  <2>5. QED
    BY <1>2, <2>2, <2>3, <2>4, RequestFacts
<1>3. QED
  BY <1>1, <1>2

\* What makes a word the truth, in terms of the rows and the fund.
LEMMA TrueWords ==
    ASSUME PromiseInv, NEW r \in Requests
    PROVE  LET k == KeyOf[r] IN
           /\ Heard([what |-> "lost", response |-> NoResponse]) \in Promise!Truth(r)
           /\ row[k] # NoRow /\ row[k].body # BodyOf[r]
                => Heard([what |-> "conflict", response |-> NoResponse]) \in Promise!Truth(r)
           /\ row[k] # NoRow /\ row[k].body = BodyOf[r]
                => /\ Heard([what |-> "replayed", response |-> row[k].response]) \in Promise!Truth(r)
                   /\ Heard([what |-> "created", response |-> row[k].response]) \in Promise!Truth(r)
           /\ row[k] = NoRow /\ fund < BodyOf[r].size
                => Heard([what |-> "short", response |-> NoResponse]) \in Promise!Truth(r)
           /\ row[k] = NoRow /\ ~Payable(BodyOf[r])
                => /\ Heard([what |-> "unknown", response |-> NoResponse]) \in Promise!Truth(r)
                   /\ Heard([what |-> "malformed", response |-> NoResponse]) \in Promise!Truth(r)
<1> DEFINE k == KeyOf[r]
<1>0. k \in Keys
  BY RequestFacts
<1>1. TookEffect[k] = EffectOf(k)
  BY <1>0 DEF TookEffect
<1>2. /\ row[k] = NoRow => TookEffect[k] = "nobody"
      /\ row[k] # NoRow => /\ TookEffect[k] = row[k].response[1]
                           /\ TookEffect[k] # "nobody"
                           /\ BodyOf[TookEffect[k]] = row[k].body
  BY <1>0, <1>1, EffectsAreRows DEF Nobody
<1>3. [q \in Requests |-> BodyOf[q].size][r] = BodyOf[r].size
  OBVIOUS
<1>4. r \in {q \in Requests : Payable(BodyOf[q])} <=> Payable(BodyOf[r])
  OBVIOUS
<1> DEFINE Truth == Promise!Truth(r)
<1>5. Truth = {[what |-> "nothing", by |-> "nobody"]} \cup
        (IF TookEffect[k] # "nobody"
         THEN IF BodyOf[TookEffect[k]] = BodyOf[r] THEN {[what |-> "authorized", by |-> TookEffect[k]]}
              ELSE {[what |-> "conflict", by |-> "nobody"]}
         ELSE (IF ~Payable(BodyOf[r]) THEN {[what |-> "improper", by |-> "nobody"]} ELSE {}) \cup
              (IF fund < BodyOf[r].size THEN {[what |-> "short", by |-> "nobody"]} ELSE {}))
  BY <1>3, <1>4 DEF Promise!Truth, Promise!Word, Promise!Nobody, TookEffect
<1> HIDE DEF Truth
<1>6. /\ Heard([what |-> "lost", response |-> NoResponse]) = [what |-> "nothing", by |-> "nobody"]
      /\ Heard([what |-> "conflict", response |-> NoResponse]) = [what |-> "conflict", by |-> "nobody"]
      /\ Heard([what |-> "short", response |-> NoResponse]) = [what |-> "short", by |-> "nobody"]
      /\ Heard([what |-> "unknown", response |-> NoResponse]) = [what |-> "improper", by |-> "nobody"]
      /\ Heard([what |-> "malformed", response |-> NoResponse]) = [what |-> "improper", by |-> "nobody"]
      /\ Heard([what |-> "replayed", response |-> row[k].response])
           = [what |-> "authorized", by |-> row[k].response[1]]
      /\ Heard([what |-> "created", response |-> row[k].response])
           = [what |-> "authorized", by |-> row[k].response[1]]
  BY WordsMean DEF Heard, Nobody
<1>7. Heard([what |-> "lost", response |-> NoResponse]) \in Truth
  BY <1>5, <1>6
<1>8. ASSUME row[k] # NoRow, row[k].body # BodyOf[r]
      PROVE  Heard([what |-> "conflict", response |-> NoResponse]) \in Truth
  BY <1>2, <1>5, <1>6, <1>8
<1>9. ASSUME row[k] # NoRow, row[k].body = BodyOf[r]
      PROVE  /\ Heard([what |-> "replayed", response |-> row[k].response]) \in Truth
             /\ Heard([what |-> "created", response |-> row[k].response]) \in Truth
  BY <1>2, <1>5, <1>6, <1>9
<1>10. ASSUME row[k] = NoRow, fund < BodyOf[r].size
       PROVE  Heard([what |-> "short", response |-> NoResponse]) \in Truth
  BY <1>2, <1>5, <1>6, <1>10
<1>11. ASSUME row[k] = NoRow, ~Payable(BodyOf[r])
       PROVE  /\ Heard([what |-> "unknown", response |-> NoResponse]) \in Truth
              /\ Heard([what |-> "malformed", response |-> NoResponse]) \in Truth
  BY <1>2, <1>5, <1>6, <1>11
<1>12. QED
  BY <1>7, <1>8, <1>9, <1>10, <1>11 DEF Truth

LEMMA SilentStep ==
    ASSUME UNCHANGED <<row, fund, answer>>
    PROVE  UNCHANGED Promise!promised
BY DEF Promise!promised, EffectOf

\* An answer that is the truth is one the promise allows.
LEMMA TellStep ==
    ASSUME PromiseInv, NEW r \in Requests, UNCHANGED <<row, fund>>, pc[r] # "away",
           NEW reply, answer' = [answer EXCEPT ![r] = reply], Heard(reply) \in Promise!Truth(r)
    PROVE  Promise!Tell(r)
<1>1. Told[r].what # "authorized"
  <2>1. ~Satisfied(r)
    BY DEF PromiseInv, AskedInNeed
  <2>2. Said(answer[r].what) # "authorized"
    BY <2>1, WordsMean DEF Satisfied
  <2>3. QED
    BY <2>2 DEF Told, Heard
<1>2. Told' = [Told EXCEPT ![r] = Heard(reply)]
  <2>1. ASSUME NEW s \in Requests PROVE Told'[s] = [Told EXCEPT ![r] = Heard(reply)][s]
    <3>1. CASE s = r
      <4>1. answer'[s] = reply
        BY <3>1 DEF PromiseInv, KeysInv, TypeOK
      <4>2. Told'[s] = Heard(reply)
        BY <4>1 DEF Told
      <4>3. QED
        BY <3>1, <4>2 DEF Told
    <3>2. CASE s # r
      <4>1. answer'[s] = answer[s]
        BY <3>2 DEF PromiseInv, KeysInv, TypeOK
      <4>2. Told'[s] = Told[s]
        BY <4>1 DEF Told
      <4>3. QED
        BY <3>2, <4>2 DEF Told
    <3>3. QED
      BY <3>1, <3>2
  <2>2. QED
    BY <2>1 DEF Told
<1>3. UNCHANGED <<fund, TookEffect>>
  BY DEF TookEffect, EffectOf
<1>4. QED
  BY <1>1, <1>2, <1>3 DEF Promise!Tell, Told, TookEffect

LEMMA RefusalTells ==
    ASSUME PromiseInv, NEW r \in Requests, pc[r] # "away",
           NEW why, Refuse(r, why),
           Heard([what |-> why, response |-> NoResponse]) \in Promise!Truth(r)
    PROVE  Promise!Tell(r)
<1> DEFINE reply == [what |-> why, response |-> NoResponse]
<1>1. UNCHANGED <<row, fund>> /\ answer' = [answer EXCEPT ![r] = reply]
  BY DEF Refuse, Rollback
<1> HIDE DEF reply
<1>2. Heard(reply) \in Promise!Truth(r)
  BY DEF reply
<1>3. QED
  BY <1>1, <1>2, TellStep

\* Who works on a request holds its key, under which nothing is committed.
LEMMA WorkIsNew ==
    ASSUME PromiseInv, NEW r \in Requests, pc[r] \in Working
    PROVE  row[KeyOf[r]] = NoRow
<1>1. holder[KeyOf[r]] = r
  BY DEF PromiseInv, KeysInv, Claims, HolderWorks
<1>2. QED
  BY <1>1, RequestFacts DEF PromiseInv, KeysInv, Claims, HeldIsNew

\* At the commit everything asked for is posted and the fund has it; nobody
\* unknown was met.
LEMMA CommitTakesEffect ==
    ASSUME PromiseInv, NEW r \in Requests, Commit(r)
    PROVE  Promise!TakeEffect(r)
<1> DEFINE k == KeyOf[r]
<1>1. k \in Keys /\ pc[r] = "authorize" /\ left[r] = 0
  BY RequestFacts DEF Commit
<1>2. /\ BodyOf[r].size \in Nat \ {0} /\ BodyOf[r].unknown \in Nat
      /\ BodyOf[r].endpoint \in {"transfers", "runs"} /\ BodyOf[r].wellFormed \in BOOLEAN
      /\ fund \in Int /\ posted[r] \in Nat
  BY RequestFacts DEF Bodies, PromiseInv, KeysInv, TypeOK
<1>3. row[k] = NoRow
  BY <1>1, WorkIsNew DEF Working
<1>4. posted[r] = BodyOf[r].size
  BY <1>1, <1>2 DEF PromiseInv, PostedInFull
<1>5. BodyOf[r].size <= fund
  <2>1. left[r] <= Available(r)
    BY <1>1 DEF PromiseInv, MoneyInv, DecidedAgainstOneBalance
  <2>2. QED
    BY <1>1, <1>2, <1>4, <2>1 DEF Available
<1>6. Payable(BodyOf[r])
  <2>1. Objection(r) = "none"
    BY <1>1 DEF PromiseInv, NobodyUnknownBehind, PayStep
  <2>2. CASE BodyOf[r].endpoint = "transfers"
    BY <2>1, <2>2 DEF Objection, Payable
  <2>3. CASE BodyOf[r].endpoint = "runs"
    <3>1. BodyOf[r].wellFormed
      BY <2>1, <2>3 DEF Objection
    <3>2. BodyOf[r].unknown # 0 => BodyOf[r].unknown > BodyOf[r].size
      BY <1>1, <1>2, <2>3 DEF PromiseInv, NobodyUnknownBehind
    <3>3. QED
      BY <1>2, <2>3, <3>1, <3>2 DEF Payable
  <2>4. QED
    BY <1>2, <2>2, <2>3
<1>7. fund' = fund - BodyOf[r].size
  BY <1>4 DEF Commit
<1>8. Told' = Told
  BY DEF Commit, Told
<1>9. TookEffect[k] = "nobody"
  BY <1>1, <1>3, EffectsAreRows DEF TookEffect, Nobody
<1>10. TookEffect' = [TookEffect EXCEPT ![k] = r]
  <2>1. ASSUME NEW j \in Keys PROVE TookEffect'[j] = [TookEffect EXCEPT ![k] = r][j]
    <3>1. CASE j = k
      <4>1. row'[j] = Recorded(r)
        BY <3>1 DEF Commit, PromiseInv, KeysInv, TypeOK
      <4>2. Recorded(r).response = Attempt(r) /\ Recorded(r) # NoRow
        BY DEF Recorded, NoRow, Attempt, NoResponse
      <4>3. row'[j].response # NoResponse /\ row'[j].response[1] = r
        BY <4>1, <4>2 DEF Attempt, NoResponse
      <4>4. EffectOf(j)' = r
        BY <4>1, <4>2, <4>3 DEF EffectOf
      <4>5. QED
        BY <3>1, <4>4, <1>1 DEF TookEffect
    <3>2. CASE j # k
      <4>1. row'[j] = row[j]
        BY <3>2 DEF Commit, PromiseInv, KeysInv, TypeOK
      <4>2. QED
        BY <3>2, <4>1, <1>1 DEF TookEffect, EffectOf
    <3>3. QED
      BY <3>1, <3>2
  <2>2. QED
    BY <2>1 DEF TookEffect
<1>11. r \in {q \in Requests : Payable(BodyOf[q])}
  BY <1>6
<1>12. [q \in Requests |-> BodyOf[q].size][r] = BodyOf[r].size
  OBVIOUS
<1>13. QED
  BY <1>5, <1>7, <1>8, <1>9, <1>10, <1>11, <1>12
  DEF Promise!TakeEffect, Promise!Nobody, TookEffect, Told

LEMMA StepKeepsPromise ==
    PromiseInv /\ [Next]_vars => [Promise!PromiseNext]_(Promise!promised)
<1> SUFFICES ASSUME PromiseInv, [Next]_vars
             PROVE  [Promise!PromiseNext]_(Promise!promised)
  OBVIOUS
<1> DEFINE Goal == [Promise!PromiseNext]_(Promise!promised)
<1>a. ASSUME NEW r \in Requests, Promise!Tell(r) \/ Promise!TakeEffect(r) PROVE Goal
  BY <1>a DEF Promise!PromiseNext
<1>b. ASSUME UNCHANGED <<row, fund, answer>> PROVE Goal
  BY <1>b, SilentStep
<1> HIDE DEF Goal
<1>1. ASSUME NEW r \in Requests, Send(r) \/ TakeKey(r) \/ LockFund(r) \/ AuthorizeNext(r)
      PROVE  Goal
  BY <1>1, <1>b DEF Send, TakeKey, LockFund, AuthorizeNext
<1>2. ASSUME NEW r \in Requests, FindKey(r) PROVE Goal
  <2>1. /\ pc[r] # "away" /\ row[KeyOf[r]] # NoRow
        /\ UNCHANGED <<row, fund>> /\ answer' = [answer EXCEPT ![r] = FromRow(r)]
    BY <1>2 DEF FindKey, Rollback
  <2>2. row[KeyOf[r]].response # NoResponse
    <3>1. row[KeyOf[r]].response \in Attempts
      BY <2>1, RequestFacts DEF PromiseInv, KeysInv, Records, RowsAnswer
    <3>2. QED
      BY <3>1, AttemptsSpeak
  <2>3. CASE row[KeyOf[r]].body # BodyOf[r]
    <3>1. FromRow(r) = [what |-> "conflict", response |-> NoResponse]
      BY <2>3 DEF FromRow
    <3>2. Heard(FromRow(r)) \in Promise!Truth(r)
      BY <2>1, <2>3, <3>1, TrueWords
    <3>3. QED
      BY <2>1, <3>2, TellStep, <1>a
  <2>4. CASE row[KeyOf[r]].body = BodyOf[r]
    <3>1. FromRow(r) = [what |-> "replayed", response |-> row[KeyOf[r]].response]
      BY <2>2, <2>4 DEF FromRow
    <3>2. Heard(FromRow(r)) \in Promise!Truth(r)
      BY <2>1, <2>4, <3>1, TrueWords
    <3>3. QED
      BY <2>1, <3>2, TellStep, <1>a
  <2>5. QED
    BY <2>3, <2>4
<1>3. ASSUME NEW r \in Requests, Object(r) PROVE Goal
  <2>1. /\ pc[r] = "claimed" /\ Objection(r) # "none" /\ Refuse(r, Objection(r))
    BY <1>3 DEF Object
  <2>2. row[KeyOf[r]] = NoRow
    BY <2>1, WorkIsNew DEF Working
  <2>3. ~Payable(BodyOf[r]) /\ Objection(r) \in {"malformed", "unknown"}
    BY <2>1 DEF Objection, Payable
  <2>4. Heard([what |-> Objection(r), response |-> NoResponse]) \in Promise!Truth(r)
    <3>1. CASE Objection(r) = "malformed"
      BY <2>2, <2>3, <3>1, TrueWords
    <3>2. CASE Objection(r) = "unknown"
      BY <2>2, <2>3, <3>2, TrueWords
    <3>3. QED
      BY <2>3, <3>1, <3>2
  <2>5. QED
    BY <2>1, <2>4, RefusalTells, <1>a
<1>4. ASSUME NEW r \in Requests, CheckFund(r) PROVE Goal
  <2>1. CASE Available(r) < Total(r)
    <3>1. pc[r] = "locked" /\ Refuse(r, "short")
      BY <1>4, <2>1 DEF CheckFund
    <3>2. row[KeyOf[r]] = NoRow
      BY <3>1, WorkIsNew DEF Working
    <3>3. fund < BodyOf[r].size
      <4>1. posted[r] = 0 /\ fund \in Int
        BY <3>1 DEF PromiseInv, PostedInFull, KeysInv, TypeOK
      <4>2. QED
        BY <2>1, <4>1 DEF Available, Total
    <3>4. Heard([what |-> "short", response |-> NoResponse]) \in Promise!Truth(r)
      BY <3>2, <3>3, TrueWords
    <3>5. QED
      BY <3>1, <3>4, RefusalTells, <1>a
  <2>2. CASE ~(Available(r) < Total(r))
    BY <1>4, <2>2, <1>b DEF CheckFund
  <2>3. QED
    BY <2>1, <2>2
<1>5. ASSUME NEW r \in Requests, RefuseNext(r) PROVE Goal
  <2>1. pc[r] = "authorize" /\ left[r] > 0 /\ row[KeyOf[r]] = NoRow
    BY <1>5, WorkIsNew DEF RefuseNext, Working
  <2>2. /\ BodyOf[r].size \in Nat /\ BodyOf[r].unknown \in Nat /\ left[r] \in Nat
        /\ posted[r] \in Nat /\ fund \in Int
    BY RequestFacts DEF Bodies, PromiseInv, KeysInv, TypeOK
  <2>3. posted[r] + left[r] = BodyOf[r].size
    BY <2>1 DEF PromiseInv, PostedInFull
  <2>4. CASE AtUnknown(r)
    <3>1. Refuse(r, "unknown")
      BY <1>5, <2>4 DEF RefuseNext
    <3>2. BodyOf[r].unknown \in 1..BodyOf[r].size
      BY <2>1, <2>2, <2>3, <2>4 DEF AtUnknown
    <3>3. ~Payable(BodyOf[r])
      BY <3>2, <2>2 DEF Payable
    <3>4. Heard([what |-> "unknown", response |-> NoResponse]) \in Promise!Truth(r)
      BY <2>1, <3>3, TrueWords
    <3>5. QED
      BY <2>1, <3>1, <3>4, RefusalTells, <1>a
  \* It cannot run short: the whole amount was there, and is held.
  <2>5. CASE ~AtUnknown(r)
    <3>1. Available(r) < Share(r)
      BY <1>5, <2>5 DEF RefuseNext
    <3>2. left[r] <= Available(r)
      BY <2>1 DEF PromiseInv, MoneyInv, DecidedAgainstOneBalance
    <3>3. QED
      BY <2>1, <2>2, <3>1, <3>2 DEF Available, Share
  <2>6. QED
    BY <2>4, <2>5
<1>6. ASSUME NEW r \in Requests, Commit(r) PROVE Goal
  BY <1>6, CommitTakesEffect, <1>a
<1>7. ASSUME NEW r \in Requests, Answer(r) PROVE Goal
  <2>1. /\ pc[r] = "committed" /\ UNCHANGED <<row, fund>>
        /\ answer' = [answer EXCEPT ![r] = [what |-> "created", response |-> Attempt(r)]]
    BY <1>7 DEF Answer
  <2>2. row[KeyOf[r]] # NoRow /\ row[KeyOf[r]].response = Attempt(r)
    <3>1. <<KeyOf[r], Attempt(r)>> \in work
      BY <2>1 DEF PromiseInv, KeysInv, Replies, CommittedWorked
    <3>2. QED
      BY <3>1, RequestFacts, AttemptIsResponse DEF PromiseInv, KeysInv, Records, WorkIsRecorded
  <2>3. row[KeyOf[r]].body = BodyOf[r]
    BY <2>2, RequestFacts DEF PromiseInv, RowsNameTheirRequest, Attempt
  <2>4. Heard([what |-> "created", response |-> row[KeyOf[r]].response]) \in Promise!Truth(r)
    BY <2>2, <2>3, TrueWords
  <2>5. Heard([what |-> "created", response |-> Attempt(r)]) \in Promise!Truth(r)
    BY <2>2, <2>4
  <2>6. QED
    BY <2>1, <2>5, TellStep, <1>a
<1>8. ASSUME NEW r \in Requests, Lose(r) PROVE Goal
  <2>1. /\ pc[r] # "away" /\ UNCHANGED <<row, fund>>
        /\ answer' = [answer EXCEPT ![r] = [what |-> "lost", response |-> NoResponse]]
    BY <1>8 DEF Lose, Rollback
  <2>2. QED
    BY <2>1, TrueWords, TellStep, <1>a
<1>9. ASSUME UNCHANGED vars PROVE Goal
  BY <1>9, <1>b DEF vars
<1>10. Goal
  BY <1>1, <1>2, <1>3, <1>4, <1>5, <1>6, <1>7, <1>8, <1>9 DEF Next, Serve
<1>11. QED
  BY <1>10 DEF Goal

LEMMA StartKeepsPromise == Init => Promise!PromiseInit
<1> SUFFICES ASSUME Init PROVE Promise!PromiseInit
  OBVIOUS
<1>1. \A k \in Keys : EffectOf(k) = "nobody"
  BY DEF Init, EffectOf, Nobody
<1>2. \A r \in Requests : Heard(answer[r]) = [what |-> "nothing", by |-> "nobody"]
  BY WordsMean DEF Init, Silence, Heard, Nobody
<1>3. QED
  BY <1>1, <1>2 DEF Init, Promise!PromiseInit, Promise!Word, Promise!Nobody

\* The transactions implement the promise of the key, for any requests, keys and bodies.
THEOREM RequestsKeepPromise == Spec => RefinesOncePerKey
<1>1. PromiseInv /\ [Next]_vars => [Promise!PromiseNext]_(Promise!promised)
  BY StepKeepsPromise
<1>2. QED
  BY <1>1, StartKeepsPromise, PromiseAlways, PTL
  DEF Spec, RefinesOncePerKey, Promise!PromiseSpec
=============================================================================
