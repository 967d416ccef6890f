----------------------------- MODULE IntentLedger -----------------------------
(***************************************************************************)
(* What the outbox promises, intent by intent (outbox/runner.py, the two    *)
(* rules of its docstring; outbox/stores.py, IntentStore): an intent is     *)
(* open, or claimed by a pass, or settled for good; Graph makes something   *)
(* for it only while it is claimed, and once at most; and a claim is given  *)
(* back only while nothing has been made.                                   *)
(***************************************************************************)
EXTENDS Naturals

CONSTANT Uuids

VARIABLES
    status, \* uuid -> "open" | "claimed" | "dispatched" | "failed"
    made    \* uuid -> how many drafts or posts exist because of it

Init == /\ status = [u \in Uuids |-> "open"]
        /\ made = [u \in Uuids |-> 0]

Take(u) == /\ status[u] = "open"
           /\ status' = [status EXCEPT ![u] = "claimed"]
           /\ UNCHANGED made

Make(u) == /\ status[u] = "claimed" /\ made[u] = 0
           /\ made' = [made EXCEPT ![u] = 1]
           /\ UNCHANGED status

GiveBack(u) == /\ status[u] = "claimed" /\ made[u] = 0
               /\ status' = [status EXCEPT ![u] = "open"]
               /\ UNCHANGED made

Settle(u) == /\ status[u] = "claimed"
             /\ \E end \in {"dispatched", "failed"} :
                  status' = [status EXCEPT ![u] = end]
             /\ UNCHANGED made

Next == \E u \in Uuids : Take(u) \/ Make(u) \/ GiveBack(u) \/ Settle(u)

Spec == Init /\ [][Next]_<<status, made>>
===============================================================================
