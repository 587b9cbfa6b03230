------------------------------ MODULE WorkQueue ------------------------------
(* What the queue promises to those who use it: a row is run by one worker at  *)
(* a time, at most as often as its budget says, and given back only when the   *)
(* worker that had it is gone.  No clock, no wake-ups, no transactions.        *)
EXTENDS Integers, FiniteSets

CONSTANTS
    Rows,           \* places for rows of the tasks table
    Workers,        \* worker processes
    MaxAttempts,    \* tasks.max_attempts of a new row
    ExtraAttempts   \* what a dead-letter retry adds to the attempts made

VARIABLES
    row,            \* row[k]: status, attempts made, attempts allowed
    holder          \* holder[w]: the row worker w runs, Nothing if none

queue == <<row, holder>>

Nothing   == <<>>
Statuses  == {"none", "pending", "running", "succeeded", "failed"}
RowState  == [status : Statuses, attempts : Nat, max : Nat]
NoRow     == [status |-> "none", attempts |-> 0, max |-> 0]
NewRow    == [status |-> "pending", attempts |-> 0, max |-> MaxAttempts]

Spent(k)  == row[k].attempts >= row[k].max
Held      == {holder[w] : w \in Workers}

QueueInit ==
    /\ row    = [k \in Rows |-> NoRow]
    /\ holder = [w \in Workers |-> Nothing]

Enqueue(k) ==
    /\ row[k] = NoRow
    /\ row' = [row EXCEPT ![k] = NewRow]
    /\ UNCHANGED holder

Take(w, k) ==
    /\ holder[w] = Nothing
    /\ row[k].status = "pending"
    /\ row' = [row EXCEPT ![k].status = "running", ![k].attempts = @ + 1]
    /\ holder' = [holder EXCEPT ![w] = k]

\* A row that succeeded stays, or its place is free for another.
Settled(k) == {NoRow, [row[k] EXCEPT !.status = "succeeded"],
                      [row[k] EXCEPT !.status = "failed"]}
              \cup IF Spent(k) THEN {} ELSE {[row[k] EXCEPT !.status = "pending"]}

Settle(w) ==
    /\ holder[w] # Nothing
    /\ \E settled \in Settled(holder[w]) : row' = [row EXCEPT ![holder[w]] = settled]
    /\ holder' = [holder EXCEPT ![w] = Nothing]

\* A worker is gone; what it ran is left as it is.
Abandon(w) ==
    /\ holder[w] # Nothing
    /\ holder' = [holder EXCEPT ![w] = Nothing]
    /\ UNCHANGED row

\* Abandoned rows are given back, or given up when their budget is spent.
GivenBack(k) == [row[k] EXCEPT !.status = IF Spent(k) THEN "failed" ELSE "pending"]

GiveBack(abandoned) ==
    /\ \A k \in abandoned : row[k].status = "running" /\ k \notin Held
    /\ row' = [k \in Rows |-> IF k \in abandoned THEN GivenBack(k) ELSE row[k]]
    /\ UNCHANGED holder

PutBack(k) ==
    /\ row[k].status = "failed"
    /\ row' = [row EXCEPT ![k].status = "pending", ![k].max = row[k].attempts + ExtraAttempts]
    /\ UNCHANGED holder

QueueNext ==
    \/ \E k \in Rows : Enqueue(k) \/ PutBack(k)
    \/ \E w \in Workers : Settle(w) \/ Abandon(w) \/ \E k \in Rows : Take(w, k)
    \/ \E abandoned \in SUBSET Rows : GiveBack(abandoned)

QueueSpec == QueueInit /\ [][QueueNext]_queue
=============================================================================
