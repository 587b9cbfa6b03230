----------------------------- MODULE LiveUpdates -----------------------------
(* How consoles stay current.  Every commit says what moved, in a NOTIFY of    *)
(* its own transaction; the API process has one LISTEN connection and fans the *)
(* frames out to bounded queues, one for each stream; a browser reads its      *)
(* stream, gathers notices for a moment and re-reads the queries they are      *)
(* about.  Streams break, frames are dropped, requests fail; the LISTEN        *)
(* connection may be lost, and then nobody opens it again.  What a query       *)
(* returns is reduced to whether it is current.                                *)
EXTENDS Integers, Sequences, FiniteSets

CONSTANTS
    Browsers,       \* open consoles
    Transfers,      \* transfers that move
    Runs,           \* payment runs a list may be filtered by
    Watched,        \* queries that may be on a screen
    MaxTogether,    \* bound: transfers, tasks or findings one transaction writes
    QueueSize,      \* SUBSCRIBER_QUEUE_SIZE
    MaxCommits,     \* bound: transactions that change something
    MaxFaults       \* bound: streams that break, reads that fail, LISTEN connections
                    \* lost and API processes started again, taken together

VARIABLES
    txn,        \* frames of the open transaction, <<>> when there is none
    conn,       \* the API's LISTEN connection: "up" or "lost"
    listening,  \* LISTEN on the channel: "no", "starting", "yes", "stopping"
    link,       \* link[b]: how far the stream of b is
    queue,      \* queue[b]: change frames between the bus and b
    pending,    \* pending[b]: notices b has gathered and not yet acted on
    view,       \* view[b]: the query b has on screen
    shown,      \* shown[b]: what it shows is what the database holds
    fetch,      \* fetch[b]: its read: "none", "asked", "current", "outdated"
    lapse,      \* lapse[b]: a frame was dropped or a read failed since the last read
    spent       \* bounded events so far

vars == <<txn, conn, listening, link, queue, pending, view, shown, fetch, lapse, spent>>

-----------------------------------------------------------------------------
(* Frames, queries and what each depends on.                                   *)

NoTransfer == <<>>

Frame(topic, t) == [topic |-> topic, transfer |-> t]
Frames == {Frame("transfers", t) : t \in Transfers}
          \cup {Frame("tasks", t) : t \in Transfers \cup {NoTransfer}}
          \cup {Frame("findings", NoTransfer)}

\* What one transaction writes to, one after the other: rows about members of S.
Several(S) == UNION {[1 .. n -> S] : n \in 1 .. MaxTogether}

\* The same, each member once: a second notice with the words of a first is not sent.
Distinct(S) == {s \in Several(S) : \A i, j \in DOMAIN s : s[i] = s[j] => i = j}

\* initiate, once for each transfer of a run: its task first.
Authorizing(s) == [i \in 1 .. 2 * Len(s) |->
                      Frame(IF i % 2 = 1 THEN "tasks" ELSE "transfers", s[(i + 1) \div 2])]

\* mark_processing, and the check on the payment that follows it.
HandingOver(t) == <<Frame("transfers", t), Frame("tasks", t)>>

\* A pass: the transfers it moves, then its findings, at least one for each of them,
\* then its successor, if there is none yet.
Moved == {<<>>} \cup {[i \in DOMAIN s |-> Frame("transfers", s[i])] : s \in Distinct(Transfers)}

Found(moved) ==
    {[i \in 1 .. n |-> Frame("findings", NoTransfer)] : n \in Len(moved) .. MaxTogether}

Scheduled == {<<>>, <<Frame("tasks", NoTransfer)>>}

Reporting(moved) == {moved \o found \o next : found \in Found(moved), next \in Scheduled}

Passing == UNION {Reporting(moved) : moved \in Moved} \ {<<>>}

\* sweep_stale: the tasks it gives back or gives up.
Sweeping(s) == [i \in DOMAIN s |-> Frame("tasks", s[i])]

\* What a transaction announces, in order: one row (a task claimed, finished or put
\* back, a transfer settled or reversed), or several.
Transactions == {<<f>> : f \in Frames}
                \cup {Authorizing(s) : s \in Distinct(Transfers)}
                \cup {HandingOver(t) : t \in Transfers}
                \cup {Sweeping(s) : s \in Several(Transfers \cup {NoTransfer})}
                \cup Passing

\* ledgerKeys: hierarchical.
Queries == {<<"overview">>, <<"findings">>, <<"runs">>, <<"transfers">>,
            <<"tasks", "dead">>, <<"tasks", "queue">>}
           \cup {<<"transfers", t>> : t \in Transfers}
           \cup {<<"transfers", "run", r>> : r \in Runs}

\* What the routes read: a list of transfers, the runs, whose progress is that of
\* their transfers, and one transfer with its journals and its tasks;
ReadsTransfers(q, f) ==
    /\ f.topic = "transfers"
    /\ q = <<"runs">> \/ q[1] = "transfers"
    /\ q \notin {<<"transfers", t>> : t \in Transfers \ {f.transfer}}

ReadsTasks(q, f) ==
    f.topic = "tasks" /\ (q[1] = "tasks" \/ q = <<"transfers", f.transfer>>)

ReadsFindings(q, f) == f.topic = "findings" /\ q = <<"findings">>

\* and the overview, which adds up all of it.
Reads(q, f) ==
    q = <<"overview">> \/ ReadsTransfers(q, f) \/ ReadsTasks(q, f) \/ ReadsFindings(q, f)

ASSUME ConsolesAssumption ==
    /\ Watched \subseteq Queries
    /\ NoTransfer \notin Transfers
    /\ {QueueSize, MaxTogether} \subseteq Nat \ {0}
    /\ {MaxCommits, MaxFaults} \subseteq Nat

ProperPrefix(k, q) == Len(k) < Len(q) /\ \A i \in 1 .. Len(k) : k[i] = q[i]

KeysOf(f) ==
    {<<"overview">>} \cup
    CASE f.topic = "findings"  -> {<<"findings">>}
      [] f.topic = "tasks"     -> {<<"tasks">>} \cup
                                  {<<"transfers", t>> : t \in {f.transfer} \ {NoTransfer}}
      [] f.topic = "transfers" -> {<<"transfers">>, <<"runs">>}

\* keysToInvalidate, with the keys that a shorter one covers left out.
KeysToInvalidate(frames) ==
    LET keys == UNION {KeysOf(f) : f \in frames} IN
    {k \in keys : \A other \in keys : ~ProperPrefix(other, k)}

\* invalidateQueries takes a key as the prefix of those it means.
Invalidates(frames, q) ==
    \E k \in KeysToInvalidate(frames) : k = q \/ ProperPrefix(k, q)

ToSet(s) == {s[i] : i \in DOMAIN s}

-----------------------------------------------------------------------------
Init ==
    /\ txn       = <<>>
    /\ conn      = "up"
    /\ listening = "no"
    /\ link      = [b \in Browsers |-> "opening"]
    /\ queue     = [b \in Browsers |-> <<>>]
    /\ pending   = [b \in Browsers |-> {}]
    /\ view      \in [Browsers -> Watched]
    /\ shown     = [b \in Browsers |-> FALSE]
    /\ fetch     = [b \in Browsers |-> "asked"]
    /\ lapse     = [b \in Browsers |-> FALSE]
    /\ spent     = [commits |-> 0, faults |-> 0]

SameServer == UNCHANGED <<txn, conn, listening>>
SamePage   == UNCHANGED <<pending, view, shown, fetch, lapse>>

Spend(what, max) ==
    /\ spent[what] < max
    /\ spent' = [spent EXCEPT ![what] = @ + 1]

-----------------------------------------------------------------------------
(* Transactions and the bus.                                                   *)

Subscribers == {b \in Browsers : link[b] \in {"ready", "open"}}
Heard       == listening = "yes" /\ conn = "up"

\* A transaction has written its rows and called pg_notify.
Write(frames) ==
    /\ txn = <<>>
    /\ Spend("commits", MaxCommits)
    /\ txn' = frames
    /\ UNCHANGED <<conn, listening, link, queue>>
    /\ SamePage

Rollback ==
    /\ txn # <<>>
    /\ txn' = <<>>
    /\ UNCHANGED <<conn, listening, link, queue, spent>>
    /\ SamePage

\* Mutant: the fan-out waits for no room.
FilledUnbounded(b) == queue[b] \o txn

\* put_nowait, frame by frame: what finds the queue full is dropped.
Filled(b) ==
    LET all == queue[b] \o txn IN
    SubSeq(all, 1, IF Len(all) < QueueSize THEN Len(all) ELSE QueueSize)

Touched(b) == \E i \in DOMAIN txn : Reads(view[b], txn[i])
Reached(b) == Heard /\ b \in Subscribers

\* The commit: rows and notices land together.
Commit ==
    /\ txn # <<>>
    /\ txn'   = <<>>
    /\ shown' = [b \in Browsers |-> shown[b] /\ ~Touched(b)]
    /\ fetch' = [b \in Browsers |-> IF Touched(b) /\ fetch[b] = "current"
                                    THEN "outdated" ELSE fetch[b]]
    /\ queue' = [b \in Browsers |-> IF Reached(b) THEN Filled(b) ELSE queue[b]]
    /\ lapse' = [b \in Browsers |-> \/ lapse[b]
                                    \/ Reached(b) /\ Len(queue[b] \o txn) > QueueSize]
    /\ UNCHANGED <<conn, listening, link, pending, view, spent>>

\* The LISTEN connection is lost: whoever waits for it is refused, the streams
\* that are open stay as they are.
LoseListen ==
    /\ conn = "up"
    /\ Spend("faults", MaxFaults)
    /\ conn'      = "lost"
    /\ listening' = "no"
    /\ link'      = [b \in Browsers |-> IF link[b] = "listening" THEN "down" ELSE link[b]]
    /\ UNCHANGED <<txn, queue>>
    /\ SamePage

\* The API process is started again, and with it the connection.
RestartApi ==
    /\ Spend("faults", MaxFaults)
    /\ conn'      = "up"
    /\ listening' = "no"
    /\ link'      = [b \in Browsers |-> IF link[b] = "stuck" THEN "stuck" ELSE "down"]
    /\ queue'     = [b \in Browsers |-> <<>>]
    /\ UNCHANGED txn
    /\ SamePage

-----------------------------------------------------------------------------
(* A stream, at both ends (bus.subscribe, stream, api/events.ts).              *)

\* After a pause, the browser asks for the stream again.
Connect(b) ==
    /\ link[b] = "down"
    /\ link' = [link EXCEPT ![b] = "opening"]
    /\ UNCHANGED <<queue, spent>>
    /\ SameServer /\ SamePage

\* The first stream starts LISTEN, and is refused when the connection is lost or
\* busy; the others join those that are there, whatever has become of it.
Subscribe(b) ==
    /\ link[b] = "opening"
    /\ IF Subscribers # {}
       THEN link' = [link EXCEPT ![b] = "ready"] /\ UNCHANGED listening
       ELSE IF conn = "up" /\ listening = "no"
       THEN link' = [link EXCEPT ![b] = "listening"] /\ listening' = "starting"
       ELSE link' = [link EXCEPT ![b] = "down"] /\ UNCHANGED listening
    /\ UNCHANGED <<txn, conn, queue, spent>>
    /\ SamePage

Listen(b) ==
    /\ link[b] = "listening"
    /\ link'      = [link EXCEPT ![b] = "ready"]
    /\ listening' = "yes"
    /\ UNCHANGED <<txn, conn, queue, spent>>
    /\ SamePage

\* UNLISTEN, once the last has left, has been carried out.
Unlisten ==
    /\ listening = "stopping"
    /\ listening' = "no"
    /\ UNCHANGED <<txn, conn, link, queue, spent>>
    /\ SamePage

\* b leaves the bus.
Leave(b) ==
    /\ queue' = [queue EXCEPT ![b] = <<>>]
    /\ listening' = CASE Subscribers = {b} /\ conn = "up" -> "stopping"
                      [] link[b] = "listening"            -> "no"
                      [] OTHER                            -> listening

\* The stream breaks and the browser sees it.
Break(b) ==
    /\ link[b] \in {"opening", "listening", "ready", "open"}
    /\ Spend("faults", MaxFaults)
    /\ Leave(b)
    /\ link' = [link EXCEPT ![b] = "down"]
    /\ UNCHANGED <<txn, conn>>
    /\ SamePage

\* It breaks, and a proxy keeps the browser's end open.
Hang(b) ==
    /\ link[b] = "open"
    /\ Spend("faults", MaxFaults)
    /\ Leave(b)
    /\ link' = [link EXCEPT ![b] = "stuck"]
    /\ UNCHANGED <<txn, conn>>
    /\ SamePage

\* Mutant: silence is found out only when a notice is overdue.
StallIfPending(b) ==
    /\ link[b] = "stuck"
    /\ pending[b] # {}
    /\ link' = [link EXCEPT ![b] = "down"]
    /\ UNCHANGED <<queue, spent>>
    /\ SameServer /\ SamePage

\* No byte for STALL_MS, though a heartbeat was due.
Stall(b) ==
    /\ link[b] = "stuck"
    /\ link' = [link EXCEPT ![b] = "down"]
    /\ UNCHANGED <<queue, spent>>
    /\ SameServer /\ SamePage

-----------------------------------------------------------------------------
(* The page (useLiveUpdates, the queries).                                     *)

\* An invalidation drops the read under way and starts another.
Refetch(b) == fetch' = [fetch EXCEPT ![b] = "asked"]

\* Mutant: the notices are enough, once the stream is open.
ReadyWithoutRead(b) ==
    /\ link[b] = "ready"
    /\ link' = [link EXCEPT ![b] = "open"]
    /\ UNCHANGED <<queue, pending, view, shown, fetch, lapse, spent>>
    /\ SameServer

\* "ready": everything is re-read.
Ready(b) ==
    /\ link[b] = "ready"
    /\ link' = [link EXCEPT ![b] = "open"]
    /\ Refetch(b)
    /\ UNCHANGED <<queue, pending, view, shown, lapse, spent>>
    /\ SameServer

\* A notice joins the batch.
Gather(b) ==
    /\ link[b] = "open"
    /\ queue[b] # <<>>
    /\ queue'   = [queue EXCEPT ![b] = Tail(@)]
    /\ pending' = [pending EXCEPT ![b] = @ \cup {Head(queue[b])}]
    /\ UNCHANGED <<link, view, shown, fetch, lapse, spent>>
    /\ SameServer

\* The batch is over.
Flush(b) ==
    /\ pending[b] # {}
    /\ pending' = [pending EXCEPT ![b] = {}]
    /\ IF Invalidates(pending[b], view[b]) THEN Refetch(b) ELSE UNCHANGED fetch
    /\ UNCHANGED <<link, queue, view, shown, lapse, spent>>
    /\ SameServer

\* Mutant: a page that hears of changes lets the interval pass.
PollWhenDown(b) ==
    /\ fetch[b] = "none"
    /\ IF link[b] = "open" THEN UNCHANGED fetch ELSE Refetch(b)
    /\ UNCHANGED <<link, queue, pending, view, shown, lapse, spent>>
    /\ SameServer

\* The interval is over: often when the stream is down, seldom when it is open.
Poll(b) ==
    /\ fetch[b] = "none"
    /\ Refetch(b)
    /\ UNCHANGED <<link, queue, pending, view, shown, lapse, spent>>
    /\ SameServer

\* The server begins to read: a commit from here on makes the answer outdated.
Read(b) ==
    /\ fetch[b] = "asked"
    /\ fetch' = [fetch EXCEPT ![b] = "current"]
    /\ lapse' = [lapse EXCEPT ![b] = FALSE]
    /\ UNCHANGED <<link, queue, pending, view, shown, spent>>
    /\ SameServer

Answer(b) ==
    /\ fetch[b] \in {"current", "outdated"}
    /\ shown' = [shown EXCEPT ![b] = fetch[b] = "current"]
    /\ fetch' = [fetch EXCEPT ![b] = "none"]
    /\ UNCHANGED <<link, queue, pending, view, lapse, spent>>
    /\ SameServer

\* The read fails, and its one retry: what was shown stays.
Fail(b) ==
    /\ fetch[b] # "none"
    /\ Spend("faults", MaxFaults)
    /\ fetch' = [fetch EXCEPT ![b] = "none"]
    /\ lapse' = [lapse EXCEPT ![b] = TRUE]
    /\ UNCHANGED <<link, queue, pending, view, shown>>
    /\ SameServer

-----------------------------------------------------------------------------
\* What goes on of itself at b.
Stream(b) == Connect(b) \/ Subscribe(b) \/ Listen(b) \/ Ready(b) \/ Gather(b) \/ Stall(b)
Page(b)   == Flush(b) \/ Read(b) \/ Answer(b)

Next ==
    \/ \E frames \in Transactions : Write(frames)
    \/ Rollback \/ Commit \/ LoseListen \/ RestartApi \/ Unlisten
    \/ \E b \in Browsers : Stream(b) \/ Page(b) \/ Poll(b) \/ Break(b) \/ Hang(b) \/ Fail(b)

Spec == Init /\ [][Next]_vars

\* The browser's timers and the two event loops go on.  Nobody need write, break
\* or fail, and nothing starts the API process again.
Fairness ==
    /\ WF_vars(Unlisten)
    /\ \A b \in Browsers : WF_vars(Stream(b)) /\ WF_vars(Page(b)) /\ WF_vars(Poll(b))

FairSpec == Spec /\ Fairness

-----------------------------------------------------------------------------
(* Properties.                                                                 *)

TypeOK ==
    /\ txn \in Transactions \cup {<<>>}
    /\ conn \in {"up", "lost"}
    /\ listening \in {"no", "starting", "yes", "stopping"}
    /\ link \in [Browsers -> {"down", "opening", "listening", "ready", "open", "stuck"}]
    /\ queue \in [Browsers -> Seq(Frames)]
    /\ \A b \in Browsers : Len(queue[b]) <= QueueSize
    /\ pending \in [Browsers -> SUBSET Frames]
    /\ view \in [Browsers -> Queries]
    /\ shown \in [Browsers -> BOOLEAN]
    /\ fetch \in [Browsers -> {"none", "asked", "current", "outdated"}]
    /\ lapse \in [Browsers -> BOOLEAN]
    /\ spent \in [commits : 0 .. MaxCommits, faults : 0 .. MaxFaults]

\* A page with an open stream that shows what is no longer so is about to find out:
\* a read is on its way that will see it, or a notice that starts one, unless a
\* frame was dropped or a read failed (bus.py: "a lost frame costs a moment of
\* staleness").  Nothing falls between the re-read on "ready" and the stream, and
\* no notice comes before its rows can be read.
NothingGoesUnseen ==
    \A b \in Browsers :
        link[b] = "open" /\ conn = "up" /\ ~shown[b] /\ ~lapse[b]
            => \/ fetch[b] \in {"asked", "current"}
               \/ Invalidates(pending[b] \cup ToSet(queue[b]), view[b])

\* Whatever is lost, a page shows what is so in the end: the notices only hurry
\* what polling does anyway (polling.ts: "only a safety net for a lost notice").
CatchesUp == \A b \in Browsers : ~shown[b] ~> shown[b]

\* As long as the LISTEN connection holds, a stream that broke, hung or met the
\* connection at a busy moment is open again in the end.
GoesLive == <>[](conn = "up") => \A b \in Browsers : <>[](link[b] = "open")
=============================================================================
