--------------------------- MODULE MCDisbursement ---------------------------
(* Instances of Disbursement for TLC: which transfers and workers there are.   *)
EXTENDS Disbursement

CONSTANTS t1, t2, w1, w2

OneTransfer  == {t1}
TwoTransfers == {t1, t2}
OneWorker    == {w1}
TwoWorkers   == {w1, w2}
NoTransfers  == {}
=============================================================================
