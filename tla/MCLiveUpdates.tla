---------------------------- MODULE MCLiveUpdates ----------------------------
(* Instances of LiveUpdates for TLC: two consoles and what they have on screen.*)
EXTENDS LiveUpdates

CONSTANTS b1, b2, t1, t2, r1

TwoBrowsers  == {b1, b2}
TwoTransfers == {t1, t2}
OneRun       == {r1}

\* The detail of a transfer: its own row, its journals and its tasks.  What moves the
\* other one is of no interest to it, but may fill the queue.
Detail       == {<<"transfers", t1>>}
=============================================================================
