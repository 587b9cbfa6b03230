------------------------------ MODULE Lifecycle ------------------------------
(* What the service promises about one disbursement, with no queue, worker or  *)
(* provider in sight (transfer_service.py): a transfer is authorized, perhaps  *)
(* handed over, and then ends exactly once, as paid or as reversed.  Each step *)
(* posts the one journal that goes with it, and nothing else ever posts.       *)
(* Several transfers may move in one step: a reconciliation pass commits once. *)
EXTENDS Naturals

CONSTANT Transfers

VARIABLES
    status,   \* status[t]: where the transfer stands; "none" before it exists
    posted    \* posted[t]: how many journals of each kind the ledger holds

lifecycleVars == <<status, posted>>

NothingPosted == [authorized |-> 0, settled |-> 0, reversed |-> 0]

LifecycleInit ==
    /\ status = [t \in Transfers |-> "none"]
    /\ posted = [t \in Transfers |-> NothingPosted]

\* The fund is debited and the recipient becomes owed, before money moves.
Authorized(t) ==
    /\ status[t] = "none"
    /\ status'[t] = "pending"
    /\ posted'[t] = [posted[t] EXCEPT !.authorized = @ + 1]

\* The provider has accepted it.  No posting.
HandedOver(t) ==
    /\ status[t] = "pending"
    /\ status'[t] = "processing"
    /\ posted'[t] = posted[t]

\* The recipient was paid: the payable is cleared and the float spent.
Paid(t) ==
    /\ status[t] \in {"pending", "processing"}
    /\ status'[t] = "succeeded"
    /\ posted'[t] = [posted[t] EXCEPT !.settled = @ + 1]

\* It will not happen: the payable is cleared and the fund credited.
Reversed(t) ==
    /\ status[t] \in {"pending", "processing"}
    /\ status'[t] = "failed"
    /\ posted'[t] = [posted[t] EXCEPT !.reversed = @ + 1]

Kept(t) ==
    /\ status'[t] = status[t]
    /\ posted'[t] = posted[t]

LifecycleNext ==
    /\ status' = [t \in Transfers |-> status'[t]]
    /\ posted' = [t \in Transfers |-> posted'[t]]
    /\ \A t \in Transfers :
          Kept(t) \/ Authorized(t) \/ HandedOver(t) \/ Paid(t) \/ Reversed(t)

LifecycleSpec == LifecycleInit /\ [][LifecycleNext]_lifecycleVars
=============================================================================
