------------------------------ MODULE MCLedger ------------------------------
(* An instance of Ledger for TLC: two transfers to one recipient, which the    *)
(* deposit does not both cover, one to another, one in a currency without      *)
(* accounts.                                                                   *)
EXTENDS Ledger

CONSTANTS t1, t2, t3, t4, r1, r2

Four       == {t1, t2, t3, t4}
Recipients == [t \in Four |-> IF t \in {t1, t2} THEN r1 ELSE r2]
Currencies == [t \in Four |-> IF t = t4 THEN "KES" ELSE "USD"]
Amount     == [t \in Four |-> IF t = t2 THEN 2 ELSE 1]
=============================================================================
