----------------------------- MODULE Reconcile ------------------------------
(***************************************************************************)
(* Reconciliation: what became of every dispatched draft                   *)
(* (outbox/reconcile.py, outbox/runner.py, `outbox reconcile`).  A pass    *)
(* goes through the dispatched receipts in the order of their names, skips *)
(* the ones that are settled, fetches the message of each of the others,   *)
(* classifies it and marks the receipt; the outcomes go to the caller when *)
(* the pass returns.  Meanwhile the user edits, sends and deletes.         *)
(*                                                                         *)
(* A receipt is a number, its place in the order.  Those of Mailbound have *)
(* a mailbox and a message id; a channel post or a file write has none.    *)
(* The fetch of a receipt of Poisoned never succeeds.                      *)
(***************************************************************************)
EXTENDS Naturals

CONSTANTS Receipts, Mailbound, Poisoned, MaxEdits

VARIABLES message,    \* receipt -> [state, text]: the draft in the mailbox; text 0 is what was dispatched
          verdict,    \* receipt -> the marker under reconciled/, "none" when there is none
          pass,       \* the pass: [at, next, item, outcomes]
          delivered   \* receipt -> verdicts handed to the caller

reconcileVars == <<message, verdict, pass, delivered>>
-----------------------------------------------------------------------------
Gone == [state |-> "gone", text |-> 0]
NoPass == [at |-> "idle", next |-> 0, item |-> Gone, outcomes |-> [r \in Receipts |-> {}]]

ReconcileInit ==
    /\ message = [r \in Receipts |-> [state |-> "draft", text |-> 0]]
    /\ verdict = [r \in Receipts |-> "none"]
    /\ pass = NoPass
    /\ delivered = [r \in Receipts |-> {}]

Terminal == {"sent", "amended", "rejected"}

(* MUTANT: any verdict settles the receipt, pending included. *)
AnyVerdict == {"sent", "amended", "rejected", "pending"}
Settles == Terminal

Settled(r) == verdict[r] \in Settles
Open(r) == r \in Mailbound /\ ~Settled(r)

(* detect_amended: containment is not an amendment.  Text 1 appends to     *)
(* what was dispatched, text 2 replaces some of it.                        *)
Amended(text) == text = 2

Classify(item) ==
    CASE item.state = "gone" -> "rejected"
      [] item.state = "sent" /\ Amended(item.text) -> "amended"
      [] item.state = "sent" /\ ~Amended(item.text) -> "sent"
      [] item.state = "draft" -> "pending"

Last == CHOOSE n \in Receipts : \A m \in Receipts : m <= n

Begin ==
    /\ pass.at = "idle"
    /\ pass' = [NoPass EXCEPT !.at = "looking", !.next = 1]
    /\ UNCHANGED <<message, verdict, delivered>>

(* A receipt with nothing to ask is passed over. *)
PassOver ==
    /\ pass.at = "looking" /\ pass.next <= Last /\ ~Open(pass.next)
    /\ pass' = [pass EXCEPT !.next = @ + 1]
    /\ UNCHANGED <<message, verdict, delivered>>

(* The fetch of `outbox reconcile`: a 404 is None, the message is gone. *)
Fetch ==
    /\ pass.at = "looking" /\ pass.next <= Last /\ Open(pass.next) /\ pass.next \notin Poisoned
    /\ pass' = [pass EXCEPT !.at = "fetched", !.item = message[pass.next]]
    /\ UNCHANGED <<message, verdict, delivered>>

(* Any other error goes through reconcile: the pass and its outcomes end. *)
FetchRaises ==
    /\ pass.at = "looking" /\ pass.next <= Last /\ Open(pass.next)
    /\ pass' = NoPass
    /\ UNCHANGED <<message, verdict, delivered>>

Mark ==
    /\ pass.at = "fetched"
    /\ LET v == Classify(pass.item) IN
         /\ verdict' = [verdict EXCEPT ![pass.next] = v]
         /\ pass' = [pass EXCEPT !.at = "looking", !.next = @ + 1, !.outcomes[pass.next] = {v}]
    /\ UNCHANGED <<message, delivered>>

Return ==
    /\ pass.at = "looking" /\ pass.next > Last
    /\ delivered' = [r \in Receipts |-> delivered[r] \cup pass.outcomes[r]]
    /\ pass' = NoPass
    /\ UNCHANGED <<message, verdict>>
-----------------------------------------------------------------------------
Edit(r) ==
    /\ message[r].state = "draft"
    /\ \E t \in 1..2 : t # message[r].text /\ t <= MaxEdits /\ message' = [message EXCEPT ![r].text = t]
    /\ UNCHANGED <<verdict, pass, delivered>>

Send(r) ==
    /\ message[r].state = "draft" /\ message' = [message EXCEPT ![r].state = "sent"]
    /\ UNCHANGED <<verdict, pass, delivered>>

(* The draft is deleted, or the sent message is. *)
Delete(r) ==
    /\ message[r].state # "gone" /\ message' = [message EXCEPT ![r] = Gone]
    /\ UNCHANGED <<verdict, pass, delivered>>

ReconcileNext ==
    \/ Begin \/ PassOver \/ Fetch \/ FetchRaises \/ Mark \/ Return
    \/ \E r \in Mailbound : Edit(r) \/ Send(r) \/ Delete(r)

(* The daemon's schedule runs the pass again and again, and the fetch of a *)
(* receipt that keeps being tried is answered in the end.                  *)
ReconcileFairness ==
    /\ WF_reconcileVars(Begin \/ PassOver \/ Mark \/ Return)
    /\ \A r \in Mailbound \ Poisoned : SF_reconcileVars(Fetch /\ pass.next = r)
-----------------------------------------------------------------------------
(* Again and again every draft the user has sent or deleted is settled     *)
(* (reconcile, TERMINAL_VERDICTS): however many passes a fetch has ended,  *)
(* and however often the draft was found pending before.                   *)
EventuallySettled ==
    []<>(\A r \in Mailbound : message[r].state # "draft" => verdict[r] \in Terminal)

(* reconcile returns the outcomes for the caller's post_reconcile hooks to *)
(* file (runner.py:232): every settled draft's outcome reaches them.  The  *)
(* mark is written as each is found, the outcomes are returned at the end. *)
EveryOutcomeIsDelivered ==
    \A r \in Receipts : verdict[r] \in Terminal =>
        verdict[r] \in delivered[r] \/ verdict[r] \in pass.outcomes[r]
=============================================================================
