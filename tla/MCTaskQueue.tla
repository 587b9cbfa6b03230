----------------------------- MODULE MCTaskQueue -----------------------------
(* Instances of TaskQueue for TLC: workers, ordinary rows and recurring rows.  *)
EXTENDS TaskQueue, TLC

CONSTANTS w1, w2, j1, p1, p2, p3

OneWorker   == {w1}
TwoWorkers  == {w1, w2}
NoJob       == {}
OneJob      == {j1}
TwoPasses   == {p1, p2}
ThreePasses == {p1, p2, p3}

WorkersAlike == Permutations(TwoWorkers)
=============================================================================
