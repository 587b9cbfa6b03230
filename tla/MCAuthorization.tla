--------------------------- MODULE MCAuthorization ---------------------------
(* Instances of Authorization for TLC: clients that share a key, others that   *)
(* compete for the fund, and bodies chosen so that every answer comes about.   *)
EXTENDS Authorization

CONSTANTS a, b, c, d, e, k1, k2

Everyone == {a, b, c, d, e}
TwoKeys  == {k1, k2}

Body(endpoint, size, unknown) ==
    [endpoint |-> endpoint, size |-> size, unknown |-> unknown, wellFormed |-> TRUE]

\* Two keys: a and b repeat one request, c and d send one key with two bodies, and
\* e has a's key and no proper body.
SharedKey == [r \in Everyone |-> IF r \in {a, b, e} THEN k1 ELSE k2]

\* a and b repeat one transfer; c is a run of three whose last recipient nobody
\* knows, and d the same run put right, which the fund may not have any more; e
\* names somebody twice.
Bodied == [r \in Everyone |->
              CASE r \in {a, b} -> Body("transfers", 2, 0)
                [] r = c -> Body("runs", 3, 3)
                [] r = d -> Body("runs", 3, 0)
                [] r = e -> [Body("runs", 2, 0) EXCEPT !.wellFormed = FALSE]]

\* One client of each key has the patience to repeat itself.
Patience == [r \in Everyone |-> IF r \in {a, c} THEN 2 ELSE 1]
=============================================================================
