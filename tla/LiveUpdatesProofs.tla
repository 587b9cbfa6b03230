-------------------------- MODULE LiveUpdatesProofs --------------------------
(* Theorems about LiveUpdates, for every value of its constants.               *)
EXTENDS LiveUpdates, SequenceTheorems, TLAPS

-----------------------------------------------------------------------------
(* Which notices re-read which queries.                                        *)

\* What can be invalidated: whole families of queries, and single transfers.
Keys == {<<"overview">>, <<"findings">>, <<"runs">>, <<"transfers">>, <<"tasks">>}
        \cup {<<"transfers", t>> : t \in Transfers}

\* Key k means query q.
Means(k, q) == k = q \/ ProperPrefix(k, q)

\* A frame is about the topic it names.
LEMMA FramesAre ==
    ASSUME NEW f \in Frames
    PROVE  /\ f.topic \in {"transfers", "tasks", "findings"}
           /\ f.transfer \in Transfers \cup {NoTransfer}
BY DEF Frames, Frame

LEMMA KeysOfAreKeys ==
    ASSUME NEW f \in Frames
    PROVE  KeysOf(f) \subseteq Keys
<1>1. \A t \in {f.transfer} \ {NoTransfer} : t \in Transfers
  BY FramesAre
<1>2. CASE f.topic = "findings"
  BY <1>2 DEF KeysOf, Keys
<1>3. CASE f.topic = "tasks"
  BY <1>1, <1>3 DEF KeysOf, Keys
<1>4. CASE f.topic = "transfers"
  BY <1>4 DEF KeysOf, Keys
<1>5. QED
  BY <1>2, <1>3, <1>4, FramesAre

\* A key that has a shorter one is about a transfer, and the shorter one has none.
LEMMA ShorterKeys ==
    ASSUME NEW k \in Keys, NEW other \in Keys, ProperPrefix(other, k)
    PROVE  Len(k) = 2 /\ Len(other) = 1
<1>1. \A key \in Keys : Len(key) \in {1, 2}
  BY DEF Keys
<1>2. QED
  BY <1>1 DEF ProperPrefix

\* What a key means, a shorter one means too.
LEMMA ShorterMeansMore ==
    ASSUME NEW k \in Keys, NEW other \in Keys, NEW q \in Queries,
           ProperPrefix(other, k), Means(k, q)
    PROVE  Means(other, q)
<1>1. CASE k = q
  BY <1>1 DEF Means
<1>2. CASE ProperPrefix(k, q)
  <2>1. Len(k) = 2 /\ Len(other) = 1 /\ Len(q) \in Nat
    BY ShorterKeys DEF Queries
  <2>2. other[1] = k[1] /\ k[1] = q[1] /\ Len(other) < Len(q)
    BY <1>2, <2>1 DEF ProperPrefix
  <2>3. QED
    BY <2>1, <2>2 DEF Means, ProperPrefix
<1>3. QED
  BY <1>1, <1>2 DEF Means

\* Leaving out the keys that a shorter one covers leaves out no query.
LEMMA NothingLeftOut ==
    ASSUME NEW frames \in SUBSET Frames, NEW q \in Queries
    PROVE  Invalidates(frames, q) <=> \E f \in frames : \E k \in KeysOf(f) : Means(k, q)
<1> DEFINE keys == UNION {KeysOf(f) : f \in frames}
<1>1. keys \subseteq Keys
  BY KeysOfAreKeys
<1>2. Invalidates(frames, q) <=>
          \E k \in keys : (\A other \in keys : ~ProperPrefix(other, k)) /\ Means(k, q)
  BY DEF Invalidates, KeysToInvalidate, Means
<1>3. (\E f \in frames : \E k \in KeysOf(f) : Means(k, q)) <=> \E k \in keys : Means(k, q)
  OBVIOUS
<1> HIDE DEF keys
<1>4. ASSUME NEW k \in keys, Means(k, q)
      PROVE  \E j \in keys : (\A other \in keys : ~ProperPrefix(other, j)) /\ Means(j, q)
  <2>1. CASE \A other \in keys : ~ProperPrefix(other, k)
    BY <1>4, <2>1
  <2>2. CASE \E other \in keys : ProperPrefix(other, k)
    <3>1. PICK other \in keys : ProperPrefix(other, k)
      BY <2>2
    <3>2. Len(other) = 1 /\ Means(other, q)
      BY <1>1, <1>4, <3>1, ShorterKeys, ShorterMeansMore
    <3>3. \A another \in keys : ~ProperPrefix(another, other)
      BY <1>1, <3>2, ShorterKeys
    <3>4. QED
      BY <3>2, <3>3
  <2>3. QED
    BY <2>1, <2>2
<1>5. QED
  BY <1>2, <1>3, <1>4

\* Every query that reads what a frame is about is meant by one of its keys.
LEMMA ReadersAreMeant ==
    ASSUME NEW f \in Frames, NEW q \in Queries, Reads(q, f)
    PROVE  \E k \in KeysOf(f) : Means(k, q)
<1>1. CASE q = <<"overview">>
  BY <1>1 DEF KeysOf, Means
<1>2. CASE ReadsTransfers(q, f)
  <2>1. <<"runs">> \in KeysOf(f) /\ <<"transfers">> \in KeysOf(f)
    BY <1>2 DEF ReadsTransfers, KeysOf
  <2>2. q = <<"runs">> \/ q[1] = "transfers"
    BY <1>2 DEF ReadsTransfers
  <2>3. q[1] = "transfers" => q = <<"transfers">> \/ Len(q) > 1
    BY DEF Queries
  <2>4. q[1] = "transfers" => Means(<<"transfers">>, q)
    BY <2>3 DEF Means, ProperPrefix
  <2>5. QED
    BY <2>1, <2>2, <2>4 DEF Means
<1>3. CASE ReadsTasks(q, f)
  <2>1. f.topic = "tasks" /\ <<"tasks">> \in KeysOf(f)
    BY <1>3 DEF ReadsTasks, KeysOf
  <2>2. CASE q[1] = "tasks"
    <3>1. Len(q) = 2
      BY <2>2 DEF Queries
    <3>2. Means(<<"tasks">>, q)
      BY <2>2, <3>1 DEF Means, ProperPrefix
    <3>3. QED
      BY <2>1, <3>2
  <2>3. CASE q = <<"transfers", f.transfer>>
    <3>1. f.transfer \in Transfers
      BY <2>3, ConsolesAssumption DEF Queries
    <3>2. f.transfer # NoTransfer
      BY <3>1, ConsolesAssumption
    <3>3. q \in KeysOf(f)
      BY <2>1, <2>3, <3>2 DEF KeysOf
    <3>4. QED
      BY <3>3 DEF Means
  <2>4. QED
    BY <1>3, <2>2, <2>3 DEF ReadsTasks
<1>4. CASE ReadsFindings(q, f)
  BY <1>4 DEF ReadsFindings, KeysOf, Means
<1>5. QED
  BY <1>1, <1>2, <1>3, <1>4 DEF Reads

-----------------------------------------------------------------------------
(* Type correctness.                                                           *)

\* What a transaction writes to is a sequence.
LEMMA SeveralAreSequences ==
    ASSUME NEW S, NEW s \in Several(S)
    PROVE  s \in Seq(S) /\ DOMAIN s = 1 .. Len(s) /\ Len(s) \in Nat
<1>1. PICK n \in 1 .. MaxTogether : s \in [1 .. n -> S]
  BY DEF Several
<1>2. n \in Nat
  BY ConsolesAssumption
<1>3. QED
  BY <1>1, <1>2

\* A transaction announces a sequence of frames.
LEMMA TransactionsAreFrames == Transactions \cup {<<>>} \subseteq Seq(Frames)
<1>1. /\ \A t \in Transfers : Frame("transfers", t) \in Frames
      /\ \A t \in Transfers \cup {NoTransfer} : Frame("tasks", t) \in Frames
      /\ Frame("findings", NoTransfer) \in Frames
  BY DEF Frames
<1>2. <<>> \in Seq(Frames)
  OBVIOUS
<1>3. ASSUME NEW s \in Distinct(Transfers)
      PROVE  Authorizing(s) \in Seq(Frames)
  <2>1. s \in Seq(Transfers) /\ DOMAIN s = 1 .. Len(s) /\ Len(s) \in Nat
    BY SeveralAreSequences DEF Distinct
  <2>2. \A i \in 1 .. 2 * Len(s) : (i + 1) \div 2 \in 1 .. Len(s)
    BY <2>1
  <2>3. \A i \in 1 .. 2 * Len(s) : s[(i + 1) \div 2] \in Transfers
    BY <2>1, <2>2
  <2>4. 2 * Len(s) \in Nat
    BY <2>1
  <2>5. Authorizing(s) \in [1 .. 2 * Len(s) -> Frames]
    BY <1>1, <2>3 DEF Authorizing
  <2>6. QED
    BY <2>4, <2>5
<1>4. ASSUME NEW s \in Several(Transfers \cup {NoTransfer}) PROVE Sweeping(s) \in Seq(Frames)
  <2>1. /\ s \in Seq(Transfers \cup {NoTransfer}) /\ Len(s) \in Nat
        /\ DOMAIN s = 1 .. Len(s)
    BY SeveralAreSequences
  <2>2. Sweeping(s) \in [1 .. Len(s) -> Frames]
    BY <1>1, <2>1 DEF Sweeping
  <2>3. QED
    BY <2>1, <2>2
<1>5. ASSUME NEW t \in Transfers PROVE HandingOver(t) \in Seq(Frames)
  BY <1>1 DEF HandingOver
<1>6. Moved \subseteq Seq(Frames)
  <2> SUFFICES ASSUME NEW s \in Distinct(Transfers)
               PROVE  [i \in DOMAIN s |-> Frame("transfers", s[i])] \in Seq(Frames)
    BY <1>2 DEF Moved
  <2>1. s \in Seq(Transfers) /\ DOMAIN s = 1 .. Len(s) /\ Len(s) \in Nat
    BY SeveralAreSequences DEF Distinct
  <2>2. [i \in DOMAIN s |-> Frame("transfers", s[i])] \in [1 .. Len(s) -> Frames]
    BY <1>1, <2>1
  <2>3. QED
    BY <2>1, <2>2
<1>7. ASSUME NEW moved \in Moved PROVE Found(moved) \subseteq Seq(Frames)
  <2> SUFFICES ASSUME NEW n \in Len(moved) .. MaxTogether
               PROVE  [i \in 1 .. n |-> Frame("findings", NoTransfer)] \in Seq(Frames)
    BY DEF Found
  <2>1. n \in Nat
    BY <1>6, ConsolesAssumption
  <2>2. [i \in 1 .. n |-> Frame("findings", NoTransfer)] \in [1 .. n -> Frames]
    BY <1>1
  <2>3. QED
    BY <2>1, <2>2
<1>8. Passing \subseteq Seq(Frames)
  <2> SUFFICES ASSUME NEW frames \in Passing PROVE frames \in Seq(Frames)
    OBVIOUS
  <2>1. PICK moved \in Moved : frames \in Reporting(moved)
    BY DEF Passing
  <2>2. PICK found \in Found(moved), next \in Scheduled : frames = moved \o found \o next
    BY <2>1 DEF Reporting
  <2>3. <<Frame("tasks", NoTransfer)>> \in Seq(Frames)
    BY <1>1
  <2>4. moved \in Seq(Frames) /\ found \in Seq(Frames) /\ next \in Seq(Frames)
    BY <1>2, <1>6, <1>7, <2>3 DEF Scheduled
  <2>5. QED
    BY <2>2, <2>4
<1>9. ASSUME NEW f \in Frames PROVE <<f>> \in Seq(Frames)
  OBVIOUS
<1>10. ASSUME NEW frames \in Transactions PROVE frames \in Seq(Frames)
  BY <1>3, <1>4, <1>5, <1>8, <1>9, <1>10 DEF Transactions
<1>11. QED
  BY <1>2, <1>10

\* A queue keeps to its bound, and loses nothing as long as there is room.
LEMMA FilledIsBounded ==
    ASSUME TypeOK, NEW b \in Browsers
    PROVE  /\ Filled(b) \in Seq(Frames)
           /\ Len(Filled(b)) <= QueueSize
           /\ Len(queue[b] \o txn) <= QueueSize => Filled(b) = queue[b] \o txn
<1> DEFINE all == queue[b] \o txn
           n   == IF Len(all) < QueueSize THEN Len(all) ELSE QueueSize
<1>1. queue[b] \in Seq(Frames) /\ txn \in Seq(Frames)
  BY TransactionsAreFrames DEF TypeOK
<1>2. all \in Seq(Frames)
  BY <1>1
<1>3. Len(all) \in Nat /\ QueueSize \in Nat /\ Filled(b) = SubSeq(all, 1, n)
  BY <1>2, ConsolesAssumption DEF Filled
<1>4. n \in 0 .. Len(all) /\ n <= QueueSize
  BY <1>3
<1> HIDE DEF all, n
<1>5. SubSeq(all, 1, n) \in Seq(Frames) /\ Len(SubSeq(all, 1, n)) = n
  BY <1>2, <1>4
<1>6. Len(all) <= QueueSize => SubSeq(all, 1, n) = all
  <2>1. SUFFICES ASSUME Len(all) <= QueueSize PROVE SubSeq(all, 1, n) = all
    OBVIOUS
  <2>2. n = Len(all)
    BY <1>3, <2>1 DEF n
  <2>3. \A i \in 1 .. Len(all) : SubSeq(all, 1, n)[i] = all[i]
    BY <1>2, <2>2
  <2>4. QED
    BY <1>2, <1>5, <2>2, <2>3
<1>7. QED
  BY <1>3, <1>4, <1>5, <1>6 DEF all

LEMMA TypeInit == Init => TypeOK
BY ConsolesAssumption DEF Init, TypeOK

\* What is spent stays within its bound.
LEMMA SpendIsTyped ==
    ASSUME TypeOK, Spend("commits", MaxCommits) \/ Spend("faults", MaxFaults)
    PROVE  spent' \in [commits : 0 .. MaxCommits, faults : 0 .. MaxFaults]
<1>1. CASE Spend("commits", MaxCommits)
  <2>1. spent.commits + 1 \in 0 .. MaxCommits
    BY <1>1, ConsolesAssumption DEF TypeOK, Spend
  <2>2. spent' = [spent EXCEPT !["commits"] = spent.commits + 1]
    BY <1>1 DEF Spend
  <2>3. QED
    BY <2>1, <2>2 DEF TypeOK
<1>2. CASE Spend("faults", MaxFaults)
  <2>1. spent.faults + 1 \in 0 .. MaxFaults
    BY <1>2, ConsolesAssumption DEF TypeOK, Spend
  <2>2. spent' = [spent EXCEPT !["faults"] = spent.faults + 1]
    BY <1>2 DEF Spend
  <2>3. QED
    BY <2>1, <2>2 DEF TypeOK
<1>3. QED
  BY <1>1, <1>2

\* A queue that is emptied is one.
LEMMA LeaveIsTyped ==
    ASSUME TypeOK, NEW b \in Browsers, Leave(b)
    PROVE  /\ queue' \in [Browsers -> Seq(Frames)]
           /\ \A c \in Browsers : Len(queue'[c]) <= QueueSize
           /\ listening' \in {"no", "starting", "yes", "stopping"}
<1>1. <<>> \in Seq(Frames) /\ Len(<<>>) <= QueueSize
  BY ConsolesAssumption
<1>2. QED
  BY <1>1 DEF Leave, TypeOK

LEMMA TypeStep == TypeOK /\ [Next]_vars => TypeOK'
<1> SUFFICES ASSUME TypeOK, [Next]_vars PROVE TypeOK'
  OBVIOUS
<1>1. ASSUME NEW frames \in Transactions, Write(frames) PROVE TypeOK'
  BY <1>1, SpendIsTyped DEF Write, SamePage, TypeOK
<1>2. CASE Rollback
  BY <1>2 DEF Rollback, SamePage, TypeOK
<1>3. CASE Commit
  <2>1. queue' \in [Browsers -> Seq(Frames)]
    BY <1>3, FilledIsBounded DEF Commit, TypeOK
  <2>2. \A b \in Browsers : Len(queue'[b]) <= QueueSize
    BY <1>3, FilledIsBounded DEF Commit, TypeOK
  <2>3. shown' \in [Browsers -> BOOLEAN] /\ lapse' \in [Browsers -> BOOLEAN]
    BY <1>3 DEF Commit, TypeOK
  <2>4. fetch' \in [Browsers -> {"none", "asked", "current", "outdated"}]
    BY <1>3 DEF Commit, TypeOK
  <2>5. QED
    BY <1>3, <2>1, <2>2, <2>3, <2>4 DEF Commit, TypeOK
<1>4. CASE LoseListen
  BY <1>4, SpendIsTyped DEF LoseListen, SamePage, TypeOK
<1>5. CASE RestartApi
  <2>1. <<>> \in Seq(Frames) /\ Len(<<>>) <= QueueSize
    BY ConsolesAssumption
  <2>2. QED
    BY <1>5, <2>1, SpendIsTyped DEF RestartApi, SamePage, TypeOK
<1>6. CASE Unlisten
  BY <1>6 DEF Unlisten, SamePage, TypeOK
<1>7. ASSUME NEW b \in Browsers, Connect(b) \/ Subscribe(b) \/ Listen(b) \/ Stall(b)
      PROVE  TypeOK'
  BY <1>7 DEF Connect, Subscribe, Listen, Stall, SameServer, SamePage, TypeOK
<1>8. ASSUME NEW b \in Browsers, Ready(b) \/ Poll(b) PROVE TypeOK'
  BY <1>8 DEF Ready, Poll, Refetch, SameServer, TypeOK
<1>9. ASSUME NEW b \in Browsers, Gather(b) PROVE TypeOK'
  <2>1. queue[b] \in Seq(Frames) /\ queue[b] # <<>> /\ Len(queue[b]) <= QueueSize
    BY <1>9 DEF Gather, TypeOK
  <2>2. /\ Head(queue[b]) \in Frames /\ Tail(queue[b]) \in Seq(Frames)
        /\ Len(Tail(queue[b])) <= QueueSize
    BY <2>1, ConsolesAssumption
  <2>3. QED
    BY <1>9, <2>2 DEF Gather, SameServer, TypeOK
<1>10. ASSUME NEW b \in Browsers, Flush(b) PROVE TypeOK'
  BY <1>10 DEF Flush, Refetch, SameServer, TypeOK
<1>11. ASSUME NEW b \in Browsers, Read(b) PROVE TypeOK'
  BY <1>11 DEF Read, SameServer, TypeOK
<1>12. ASSUME NEW b \in Browsers, Answer(b) PROVE TypeOK'
  BY <1>12 DEF Answer, SameServer, TypeOK
<1>13. ASSUME NEW b \in Browsers, Break(b) \/ Hang(b) PROVE TypeOK'
  BY <1>13, LeaveIsTyped, SpendIsTyped DEF Break, Hang, SamePage, TypeOK
<1>14. ASSUME NEW b \in Browsers, Fail(b) PROVE TypeOK'
  BY <1>14, SpendIsTyped DEF Fail, SameServer, TypeOK
<1>15. CASE UNCHANGED vars
  BY <1>15 DEF vars, TypeOK
<1>16. QED
  BY <1>1, <1>2, <1>3, <1>4, <1>5, <1>6, <1>7, <1>8, <1>9, <1>10, <1>11, <1>12, <1>13,
     <1>14, <1>15
  DEF Next, Stream, Page

\* Frames, queues, streams and pages have their types, and no queue outgrows its
\* bound.
THEOREM TypeCorrect == Spec => []TypeOK
<1>1. QED
  BY TypeInit, TypeStep, PTL DEF Spec

-----------------------------------------------------------------------------
(* The inductive invariant.                                                    *)

\* As long as the connection holds, a stream that is open is listened for; a
\* stream that waits for LISTEN is the only one.
Bus ==
    \A b \in Browsers :
        /\ link[b] \in {"ready", "open"} /\ conn = "up" => listening = "yes"
        /\ link[b] = "listening" =>
               /\ conn = "up" /\ listening = "starting"
               /\ \A c \in Browsers \ {b} : link[c] \notin {"listening", "ready", "open"}

\* An answer that is outdated will not replace one that is not.
OutdatedHidden == \A b \in Browsers : fetch[b] = "outdated" => ~shown[b]

LiveInv == Bus /\ OutdatedHidden /\ NothingGoesUnseen

LEMMA LiveInvInit == Init => LiveInv
BY DEF Init, LiveInv, Bus, OutdatedHidden, NothingGoesUnseen

LEMMA BusStep == TypeOK /\ Bus /\ [Next]_vars => Bus'
<1> SUFFICES ASSUME TypeOK, Bus, [Next]_vars PROVE Bus'
  OBVIOUS
<1>1. ASSUME UNCHANGED <<link, conn, listening>> PROVE Bus'
  BY <1>1 DEF Bus
<1>2. ASSUME NEW frames, Write(frames) PROVE Bus'
  BY <1>1, <1>2 DEF Write
<1>3. CASE Rollback \/ Commit
  BY <1>1, <1>3 DEF Rollback, Commit
<1>4. CASE LoseListen
  BY <1>4 DEF LoseListen, TypeOK, Bus
<1>5. CASE RestartApi
  BY <1>5 DEF RestartApi, TypeOK, Bus
<1>6. CASE Unlisten
  BY <1>6 DEF Unlisten, Bus
<1>7. ASSUME NEW b \in Browsers, Connect(b) \/ Stall(b) PROVE Bus'
  BY <1>7 DEF Connect, Stall, SameServer, TypeOK, Bus
<1>8. ASSUME NEW b \in Browsers, Subscribe(b) PROVE Bus'
  <2>1. CASE Subscribers # {}
    <3>1. PICK c \in Browsers : link[c] \in {"ready", "open"}
      BY <2>1 DEF Subscribers
    <3>2. link' = [link EXCEPT ![b] = "ready"] /\ UNCHANGED <<conn, listening>>
      BY <1>8, <2>1 DEF Subscribe
    <3>3. \A d \in Browsers : link[d] # "listening"
      BY <3>1 DEF Bus
    <3>4. conn = "up" => listening = "yes"
      BY <3>1 DEF Bus
    <3>5. QED
      BY <3>2, <3>3, <3>4 DEF Bus, TypeOK
  <2>2. CASE Subscribers = {} /\ conn = "up" /\ listening = "no"
    <3>1. link' = [link EXCEPT ![b] = "listening"] /\ listening' = "starting" /\ conn' = conn
      BY <1>8, <2>2 DEF Subscribe
    <3>2. \A c \in Browsers : link[c] \notin {"listening", "ready", "open"}
      BY <2>2 DEF Bus, Subscribers
    <3>3. QED
      BY <2>2, <3>1, <3>2 DEF Bus, TypeOK
  <2>3. CASE Subscribers = {} /\ ~(conn = "up" /\ listening = "no")
    BY <1>8, <2>3 DEF Subscribe, Bus, TypeOK
  <2>4. QED
    BY <2>1, <2>2, <2>3
<1>9. ASSUME NEW b \in Browsers, Listen(b) PROVE Bus'
  BY <1>9 DEF Listen, Bus, TypeOK
<1>10. ASSUME NEW b \in Browsers, Ready(b) PROVE Bus'
  BY <1>10 DEF Ready, SameServer, Bus, TypeOK
<1>11. ASSUME NEW b \in Browsers, Break(b) \/ Hang(b) PROVE Bus'
  <2>1. PICK place \in {"down", "stuck"} : link' = [link EXCEPT ![b] = place]
    BY <1>11 DEF Break, Hang
  <2>2. /\ Leave(b) /\ conn' = conn
        /\ link[b] \in {"opening", "listening", "ready", "open"}
    BY <1>11 DEF Break, Hang
  <2>3. CASE Subscribers = {b} /\ conn = "up"
    <3>1. b \in Subscribers /\ \A c \in Browsers \ {b} : c \notin Subscribers
      BY <2>3
    <3>2. link[b] \in {"ready", "open"}
          /\ \A c \in Browsers \ {b} : link[c] \notin {"ready", "open"}
      BY <3>1 DEF Subscribers
    <3>3. \A c \in Browsers : link[c] # "listening"
      BY <3>2 DEF Bus
    <3>4. QED
      BY <2>1, <2>2, <3>2, <3>3 DEF Bus, TypeOK
  <2>4. CASE link[b] = "listening"
    <3>1. \A c \in Browsers \ {b} : link[c] \notin {"listening", "ready", "open"}
      BY <2>4 DEF Bus
    <3>2. QED
      BY <2>1, <2>2, <3>1 DEF Bus, TypeOK
  <2>5. CASE ~(Subscribers = {b} /\ conn = "up") /\ link[b] # "listening"
    <3>1. listening' = listening
      BY <2>2, <2>5 DEF Leave
    <3>2. QED
      BY <2>1, <2>2, <2>5, <3>1 DEF Bus, TypeOK
  <2>6. QED
    BY <2>3, <2>4, <2>5
<1>12. ASSUME NEW b \in Browsers, Gather(b) \/ Page(b) \/ Poll(b) \/ Fail(b) PROVE Bus'
  BY <1>1, <1>12 DEF Gather, Page, Flush, Read, Answer, Poll, Fail, SameServer
<1>13. CASE UNCHANGED vars
  BY <1>1, <1>13 DEF vars
<1>14. QED
  BY <1>2, <1>3, <1>4, <1>5, <1>6, <1>7, <1>8, <1>9, <1>10, <1>11, <1>12, <1>13
  DEF Next, Stream

LEMMA OutdatedStep == TypeOK /\ OutdatedHidden /\ [Next]_vars => OutdatedHidden'
<1> SUFFICES ASSUME TypeOK, OutdatedHidden, [Next]_vars PROVE OutdatedHidden'
  OBVIOUS
<1>1. ASSUME UNCHANGED <<fetch, shown>> PROVE OutdatedHidden'
  BY <1>1 DEF OutdatedHidden
<1>2. ASSUME NEW frames, Write(frames) PROVE OutdatedHidden'
  BY <1>1, <1>2 DEF Write, SamePage
<1>3. CASE Commit
  BY <1>3 DEF Commit, OutdatedHidden, TypeOK
<1>4. CASE Rollback \/ LoseListen \/ RestartApi \/ Unlisten
  BY <1>1, <1>4 DEF Rollback, LoseListen, RestartApi, Unlisten, SamePage
<1>5. ASSUME NEW b \in Browsers,
             Connect(b) \/ Subscribe(b) \/ Listen(b) \/ Stall(b) \/ Break(b) \/ Hang(b)
             \/ Gather(b)
      PROVE  OutdatedHidden'
  BY <1>1, <1>5 DEF Connect, Subscribe, Listen, Stall, Break, Hang, Gather, SamePage
<1>6. ASSUME NEW b \in Browsers,
             Ready(b) \/ Flush(b) \/ Poll(b) \/ Read(b) \/ Answer(b) \/ Fail(b)
      PROVE  OutdatedHidden'
  BY <1>6 DEF Ready, Flush, Poll, Read, Answer, Fail, Refetch, OutdatedHidden, TypeOK
<1>7. CASE UNCHANGED vars
  BY <1>1, <1>7 DEF vars
<1>8. QED
  BY <1>2, <1>3, <1>4, <1>5, <1>6, <1>7 DEF Next, Stream, Page

-----------------------------------------------------------------------------
(* Nothing goes unseen.                                                        *)

\* What is on its way to a page.
Coming(b) == pending[b] \cup ToSet(queue[b])

\* Page b is told of what it does not show, or is not owed it.
Told(b) ==
    link[b] = "open" /\ conn = "up" /\ ~shown[b] /\ ~lapse[b]
        => fetch[b] \in {"asked", "current"} \/ Invalidates(Coming(b), view[b])

LEMMA ComingIsFrames ==
    ASSUME TypeOK, NEW b \in Browsers
    PROVE  Coming(b) \in SUBSET Frames /\ view[b] \in Queries
BY DEF TypeOK, Coming, ToSet

\* More notices re-read no less, and those of two batches what either does.
LEMMA MoreMeansMore ==
    ASSUME NEW some \in SUBSET Frames, NEW more \in SUBSET Frames, NEW q \in Queries
    PROVE  Invalidates(some \cup more, q) <=> Invalidates(some, q) \/ Invalidates(more, q)
BY NothingLeftOut

\* A page with which nothing happens.
LEMMA TheSamePage ==
    ASSUME NEW b \in Browsers, Told(b),
           link'[b] = "open" => link[b] = "open",
           conn' = "up" /\ link'[b] = "open" => conn = "up",
           link'[b] = "open" => queue'[b] = queue[b],
           pending'[b] = pending[b], view'[b] = view[b], shown'[b] = shown[b],
           lapse'[b] = lapse[b], fetch'[b] = fetch[b]
    PROVE  Told(b)'
BY DEF Told, Coming

\* A page that begins a read, or has one that is current, is all right.
LEMMA ReadingIsEnough ==
    ASSUME NEW b \in Browsers, fetch'[b] \in {"asked", "current"} \/ lapse'[b] \/ shown'[b]
    PROVE  Told(b)'
BY DEF Told

\* A commit tells every page it touches.
LEMMA CommitTells ==
    ASSUME TypeOK, Bus, Commit, NEW b \in Browsers, Told(b)
    PROVE  Told(b)'
<1> SUFFICES ASSUME link'[b] = "open", conn' = "up", ~shown'[b], ~lapse'[b],
                    fetch'[b] \notin {"asked", "current"}
             PROVE  Invalidates(Coming(b)', view'[b])
  BY DEF Told
<1>1. link[b] = "open" /\ conn = "up" /\ ~lapse[b] /\ view'[b] = view[b]
      /\ pending'[b] = pending[b]
  BY DEF Commit, TypeOK
<1>2. Reached(b)
  BY <1>1 DEF Bus, Reached, Heard, Subscribers
<1>3. Len(queue[b] \o txn) \in Nat /\ ~(Len(queue[b] \o txn) > QueueSize)
  BY <1>2, TransactionsAreFrames DEF Commit, TypeOK
<1>4. queue'[b] = queue[b] \o txn
  BY <1>2, <1>3, FilledIsBounded, ConsolesAssumption DEF Commit
<1>5. queue[b] \in Seq(Frames) /\ txn \in Seq(Frames)
  BY TransactionsAreFrames DEF TypeOK
<1>6. ToSet(queue'[b]) = ToSet(queue[b]) \cup ToSet(txn)
  <2>1. \A i \in 1 .. Len(queue[b]) : (queue[b] \o txn)[i] = queue[b][i]
    BY <1>5
  <2>2. \A i \in 1 .. Len(txn) : /\ (queue[b] \o txn)[i + Len(queue[b])] = txn[i]
                                 /\ i + Len(queue[b]) \in 1 .. Len(queue[b] \o txn)
    BY <1>5
  <2>3. \A i \in 1 .. Len(queue[b] \o txn) :
            (queue[b] \o txn)[i] \in ToSet(queue[b]) \cup ToSet(txn)
    BY <1>5 DEF ToSet
  <2>4. Len(queue[b]) <= Len(queue[b] \o txn) /\ DOMAIN (queue[b] \o txn) = 1 .. Len(queue[b] \o txn)
    BY <1>5
  <2>5. ToSet(queue[b]) \subseteq ToSet(queue[b] \o txn)
    BY <1>5, <2>1, <2>4 DEF ToSet
  <2>6. ToSet(txn) \subseteq ToSet(queue[b] \o txn)
    <3>1. SUFFICES ASSUME NEW i \in 1 .. Len(txn) PROVE txn[i] \in ToSet(queue[b] \o txn)
      BY <1>5 DEF ToSet
    <3>2. /\ (queue[b] \o txn)[i + Len(queue[b])] = txn[i]
          /\ i + Len(queue[b]) \in DOMAIN (queue[b] \o txn)
      BY <2>2, <2>4
    <3>3. QED
      BY <3>2 DEF ToSet
  <2>7. ToSet(queue[b] \o txn) \subseteq ToSet(queue[b]) \cup ToSet(txn)
    BY <2>3, <2>4 DEF ToSet
  <2>8. QED
    BY <1>4, <2>5, <2>6, <2>7
<1>7. Coming(b)' = Coming(b) \cup ToSet(txn)
  BY <1>1, <1>6 DEF Coming
<1>8. ToSet(txn) \in SUBSET Frames /\ Coming(b) \in SUBSET Frames /\ view[b] \in Queries
  BY <1>5, ComingIsFrames DEF ToSet
<1>9. CASE Touched(b)
  <2>1. PICK f \in ToSet(txn) : Reads(view[b], f)
    BY <1>9 DEF Touched, ToSet
  <2>2. Invalidates(ToSet(txn), view[b])
    BY <1>8, <2>1, ReadersAreMeant, NothingLeftOut
  <2>3. QED
    BY <1>1, <1>7, <1>8, <2>2, MoreMeansMore
<1>10. CASE ~Touched(b)
  <2>1. ~shown[b] /\ fetch[b] \notin {"asked", "current"}
    BY <1>10 DEF Commit, TypeOK
  <2>2. Invalidates(Coming(b), view[b])
    BY <1>1, <2>1 DEF Told
  <2>3. QED
    BY <1>1, <1>7, <1>8, <2>2, MoreMeansMore
<1>11. QED
  BY <1>9, <1>10

\* Gathering a notice moves it, and nothing else.
LEMMA GatherKeeps ==
    ASSUME TypeOK, NEW b \in Browsers, Gather(b), Told(b)
    PROVE  Told(b)'
<1>1. queue[b] \in Seq(Frames) /\ queue[b] # <<>>
  BY DEF Gather, TypeOK
<1>2. queue'[b] = Tail(queue[b]) /\ pending'[b] = pending[b] \cup {Head(queue[b])}
  BY DEF Gather, TypeOK
<1>3. ToSet(queue[b]) = {Head(queue[b])} \cup ToSet(Tail(queue[b]))
  <2>1. /\ Head(queue[b]) = queue[b][1] /\ 1 \in DOMAIN queue[b]
        /\ \A i \in DOMAIN Tail(queue[b]) : /\ Tail(queue[b])[i] = queue[b][i + 1]
                                            /\ i + 1 \in DOMAIN queue[b]
        /\ \A i \in DOMAIN queue[b] \ {1} : /\ i - 1 \in DOMAIN Tail(queue[b])
                                            /\ Tail(queue[b])[i - 1] = queue[b][i]
    BY <1>1
  <2>2. QED
    BY <2>1 DEF ToSet
<1>4. Coming(b)' = Coming(b)
  BY <1>2, <1>3 DEF Coming
<1>5. QED
  BY <1>4 DEF Gather, SameServer, Told

\* A batch that means the page starts a read; one that does not is no loss to it.
LEMMA FlushKeeps ==
    ASSUME TypeOK, NEW b \in Browsers, Flush(b), Told(b)
    PROVE  Told(b)'
<1>1. CASE Invalidates(pending[b], view[b])
  BY <1>1, ReadingIsEnough DEF Flush, Refetch, TypeOK
<1>2. CASE ~Invalidates(pending[b], view[b])
  <2>1. /\ pending[b] \in SUBSET Frames /\ ToSet(queue[b]) \in SUBSET Frames
        /\ view[b] \in Queries
    BY DEF TypeOK, ToSet
  <2>2. Invalidates(Coming(b), view[b]) => Invalidates(ToSet(queue[b]), view[b])
    BY <1>2, <2>1, MoreMeansMore DEF Coming
  <2>3. Coming(b)' = ToSet(queue[b])
    BY DEF Flush, Coming, TypeOK
  <2>4. QED
    BY <1>2, <2>2, <2>3 DEF Flush, SameServer, Told
<1>3. QED
  BY <1>1, <1>2

\* A page is always told, whatever is done.
LEMMA ToldStep ==
    ASSUME TypeOK, LiveInv, [Next]_vars, NEW b \in Browsers
    PROVE  Told(b)'
<1>1. Told(b)
  BY DEF LiveInv, NothingGoesUnseen, Told, Coming
<1>2. ASSUME UNCHANGED <<conn, link, queue, pending, view, shown, lapse, fetch>> PROVE Told(b)'
  BY <1>1, <1>2, TheSamePage
<1>3. ASSUME NEW frames, Write(frames) PROVE Told(b)'
  BY <1>2, <1>3 DEF Write, SamePage
<1>4. CASE Rollback \/ Unlisten
  BY <1>2, <1>4 DEF Rollback, Unlisten, SamePage
<1>5. CASE Commit
  BY <1>1, <1>5, CommitTells DEF LiveInv
<1>6. CASE LoseListen
  BY <1>6 DEF LoseListen, Told
<1>7. CASE RestartApi
  BY <1>7 DEF RestartApi, Told
<1>8. ASSUME NEW c \in Browsers, Connect(c) \/ Subscribe(c) \/ Listen(c) \/ Stall(c)
      PROVE  Told(b)'
  BY <1>1, <1>8, TheSamePage DEF Connect, Subscribe, Listen, Stall, SameServer, SamePage, TypeOK
<1>9. ASSUME NEW c \in Browsers, Break(c) \/ Hang(c) PROVE Told(b)'
  BY <1>1, <1>9, TheSamePage DEF Break, Hang, Leave, SamePage, TypeOK
<1>10. ASSUME NEW c \in Browsers, c # b,
              Ready(c) \/ Gather(c) \/ Flush(c) \/ Poll(c) \/ Read(c) \/ Answer(c) \/ Fail(c)
       PROVE  Told(b)'
  BY <1>1, <1>10, TheSamePage
  DEF Ready, Gather, Flush, Poll, Read, Answer, Fail, Refetch, SameServer, TypeOK
<1>11. CASE Ready(b) \/ Poll(b)
  BY <1>11, ReadingIsEnough DEF Ready, Poll, Refetch, TypeOK
<1>12. CASE Read(b)
  BY <1>12, ReadingIsEnough DEF Read, TypeOK
<1>13. CASE Fail(b)
  BY <1>13, ReadingIsEnough DEF Fail, TypeOK
<1>14. CASE Answer(b)
  <2>1. CASE fetch[b] = "current"
    BY <1>14, <2>1, ReadingIsEnough DEF Answer, TypeOK
  <2>2. CASE fetch[b] = "outdated"
    <3>1. ~shown[b]
      BY <2>2 DEF LiveInv, OutdatedHidden
    <3>2. UNCHANGED <<conn, link, queue, pending, view, lapse>>
      BY <1>14 DEF Answer, SameServer
    <3>3. QED
      BY <1>1, <2>2, <3>1, <3>2 DEF Told, Coming
  <2>3. QED
    BY <1>14, <2>1, <2>2 DEF Answer
<1>15. CASE Gather(b) \/ Flush(b)
  BY <1>1, <1>15, GatherKeeps, FlushKeeps
<1>16. CASE UNCHANGED vars
  BY <1>2, <1>16 DEF vars
<1>17. QED
  BY <1>3, <1>4, <1>5, <1>6, <1>7, <1>8, <1>9, <1>10, <1>11, <1>12, <1>13, <1>14, <1>15, <1>16
  DEF Next, Stream, Page

\* An open stream is listened for while the connection holds, and every page it
\* serves is told of what it does not show.
THEOREM LiveCorrect == Spec => []LiveInv
<1>1. TypeOK /\ LiveInv /\ [Next]_vars => LiveInv'
  <2>1. SUFFICES ASSUME TypeOK, LiveInv, [Next]_vars PROVE LiveInv'
    OBVIOUS
  <2>2. Bus' /\ OutdatedHidden'
    BY <2>1, BusStep, OutdatedStep DEF LiveInv
  <2>3. \A b \in Browsers : Told(b)'
    BY <2>1, ToldStep
  <2>4. NothingGoesUnseen'
    BY <2>3 DEF NothingGoesUnseen, Told, Coming
  <2>5. QED
    BY <2>2, <2>4 DEF LiveInv
<1>2. QED
  BY <1>1, LiveInvInit, TypeCorrect, PTL DEF Spec

\* A page with an open stream is about to find out what it does not show, however
\* many consoles there are and however small the queues.
THEOREM PagesAreTold == Spec => []NothingGoesUnseen
<1>1. LiveInv => NothingGoesUnseen
  BY DEF LiveInv
<1>2. QED
  BY <1>1, LiveCorrect, PTL
=============================================================================
