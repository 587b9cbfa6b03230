----------------------------- MODULE OncePerKey -----------------------------
(* What a client that sends a key with its request is promised: of all the     *)
(* requests under a key one takes effect, once and in full, and what anybody   *)
(* is told is true of it.  No transactions, locks or retries.                  *)
EXTENDS Integers

CONSTANTS
    Requests,   \* clients' requests
    Keys,       \* idempotency keys
    KeyOf,      \* KeyOf[r]: the key of r
    BodyOf,     \* BodyOf[r]: what r asks for; two requests with one body are one
    Proper,     \* the requests all of whose recipients can be paid
    Amount,     \* Amount[r]: what r takes from the fund
    Opening     \* what the fund holds at the start

VARIABLES
    fund,       \* what the fund holds
    effect,     \* effect[k]: the request that took effect under k, Nobody if none
    told        \* told[r]: what r was last told, and of which request's effect

promised == <<fund, effect, told>>

Nobody         == "nobody"
Word(what, by) == [what |-> what, by |-> by]

PromiseInit ==
    /\ fund   = Opening
    /\ effect = [k \in Keys |-> Nobody]
    /\ told   = [r \in Requests |-> Word("nothing", Nobody)]

\* The whole amount leaves the fund, which has it, under a key not used before.
TakeEffect(r) ==
    /\ effect[KeyOf[r]] = Nobody
    /\ r \in Proper
    /\ Amount[r] <= fund
    /\ effect' = [effect EXCEPT ![KeyOf[r]] = r]
    /\ fund'   = fund - Amount[r]
    /\ UNCHANGED told

\* What can be said to r: that its money was authorized, by it or by another
\* request with its body; that its key is another's; that nothing happened under
\* its key, and why; or nothing at all, when an answer is lost.
Truth(r) ==
    LET by == effect[KeyOf[r]] IN
    {Word("nothing", Nobody)} \cup
    (IF by # Nobody
     THEN IF BodyOf[by] = BodyOf[r] THEN {Word("authorized", by)} ELSE {Word("conflict", Nobody)}
     ELSE (IF r \notin Proper THEN {Word("improper", Nobody)} ELSE {}) \cup
          (IF fund < Amount[r] THEN {Word("short", Nobody)} ELSE {}))

\* Who knows that the money was authorized never hears otherwise.
Tell(r) ==
    /\ told[r].what # "authorized"
    /\ \E word \in Truth(r) : told' = [told EXCEPT ![r] = word]
    /\ UNCHANGED <<fund, effect>>

PromiseNext == \E r \in Requests : TakeEffect(r) \/ Tell(r)

PromiseSpec == PromiseInit /\ [][PromiseNext]_promised
=============================================================================
