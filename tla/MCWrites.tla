------------------------------ MODULE MCWrites ------------------------------
(* Model checking IntentGate, DriveWrite and Reconcile: the three share no *)
(* state, and a behaviour exercises one of them.                           *)
EXTENDS IntentGate

CONSTANTS Writers, MaxEtags, MaxAttempts, Receipts, Mailbound, Poisoned, MaxEdits

VARIABLES side, item, newest, writer, message, verdict, pass, delivered

D == INSTANCE DriveWrite
R == INSTANCE Reconcile

driveVars == <<item, newest, writer>>
reconcileVars == <<message, verdict, pass, delivered>>

MCFold(s) == IF s = "mail.send" THEN "Mail.Send" ELSE s

WritesInit ==
    /\ side \in {"gate", "drive", "reconcile"}
    /\ GateInit /\ D!DriveInit /\ R!ReconcileInit
    /\ side # "gate" =>
         /\ DOMAIN granted = {}
         /\ definitions = [o \in Outboxes |-> [authority |-> "auto_send", profile |-> CHOOSE p \in Profiles : TRUE]]
WritesNext ==
    \/ side = "gate" /\ GateNext /\ UNCHANGED <<side, driveVars, reconcileVars>>
    \/ side = "drive" /\ D!DriveNext /\ UNCHANGED <<side, gateVars, reconcileVars>>
    \/ side = "reconcile" /\ R!ReconcileNext /\ UNCHANGED <<side, gateVars, driveVars>>
WritesSpec ==
    /\ WritesInit /\ [][WritesNext]_<<side, gateVars, driveVars, reconcileVars>>
    /\ R!ReconcileFairness

\* DriveWrite: the text of a pull is never older than its eTag.
TagIsNoNewerThanText == D!TagIsNoNewerThanText
\* DriveWrite: a write loses somebody else's only in the window of its check.
LosesOnlyInItsWindow == [][D!LosesOnlyWhatItNames]_driveVars
\* DriveWrite: a conflict means that nothing was written.
ConflictWroteNothing == D!ConflictWroteNothing
\* Reconcile: again and again every draft sent or deleted is settled.
EventuallySettled == R!EventuallySettled
\* Reconcile: the outcome of every settled draft reaches the caller.
EveryOutcomeIsDelivered == R!EveryOutcomeIsDelivered
=============================================================================
