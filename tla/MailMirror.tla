------------------------------ MODULE MailMirror ------------------------------
(***************************************************************************)
(* The email extractor (m365/extractors/email.py) against a mailbox that    *)
(* changes while it runs: the delta chain of each folder                    *)
(* (m365/pagination.py), the writer (_email_writer.py), and the removal of  *)
(* what is gone upstream (vault/removal.py), which finds the files of a     *)
(* message through the path_map of the extractor's state.                   *)
(*                                                                          *)
(* A message has one id per place it has been: clients of the cycle do not  *)
(* ask for immutable ids, so a message that is moved is a removal of one id  *)
(* in one folder and a new id in another.  Its path is a function of its    *)
(* id, so the vault and the path_map are sets of ids.                       *)
(***************************************************************************)
EXTENDS Naturals, Sequences, FiniteSets

CONSTANTS
    Folders,    \* the (mailbox, folder) pairs, in the order a run visits them
    Ids,        \* message ids
    KeyOf,      \* id -> (received to the minute, slug of the subject)
    PageCap,    \* how much of a folder's delta one round fetches at most
    MaxAborts,  \* bound: runs that fail or die
    MaxForgets, \* bound: runs started with --resync
    MaxTouches  \* bound: changes to a message that stays where it is

Places == {Folders[i] : i \in 1..Len(Folders)}

ASSUME MailAssumption ==
    /\ Folders \in Seq(STRING) \ {<<>>} /\ {"unborn", "gone"} \cap Places = {}
    /\ \A i, j \in 1..Len(Folders) : Folders[i] = Folders[j] => i = j
    /\ DOMAIN KeyOf = Ids
    /\ PageCap \in Nat \ {0}
    /\ MaxAborts \in Nat /\ MaxForgets \in Nat /\ MaxTouches \in Nat

VARIABLES
    feed,    \* folder -> the changes Graph's delta reports, oldest first
    where,   \* id -> the folder it is in, "gone", or "unborn"
    stored,  \* EXTRACTOR_STATE of the extractor
    vault,   \* the ids whose file is in the vault
    pc,      \* where the run is; "idle" between runs
    state,   \* the run's copy of the state
    at,      \* the place in Folders of the folder being synced
    batch,   \* the places in its feed of the changes still to be handled
    resume,  \* the link the round ended with
    seen,    \* seen_keys
    skipped, \* history: ids passed over because their key had been seen
    adrift,  \* history: ids whose file is in the vault with no way back to it
    aborts, forgets, touches \* what is used of the three bounds

upstream == <<feed, where, touches>>
run == <<pc, state, at, batch, resume, seen>>
history == <<skipped, adrift>>
vars == <<upstream, stored, vault, run, history, aborts, forgets>>

\* A delta link: how far it has read, and where its chain was begun.  A chain
\* reports the messages that were there when it began and what happened since.
Links == [pos : Nat, base : Nat]
NoLink == [pos |-> 0, base |-> 0]
Changes == [op : {"put", "removed"}, id : Ids]
States == [link : [Places -> Links], begun : SUBSET Places, map : SUBSET Ids]
NoState == [link |-> [f \in Places |-> NoLink], begun |-> {}, map |-> {}]
Folder == Folders[at]
LeastOf(m, n) == IF m < n THEN m ELSE n
-------------------------------------------------------------------------------
Init ==
    /\ feed = [f \in Places |-> <<>>] /\ where = [i \in Ids |-> "unborn"]
    /\ stored = NoState /\ vault = {}
    /\ pc = "idle" /\ state = NoState /\ at = 0 /\ batch = {} /\ resume = NoLink
    /\ seen = {} /\ skipped = {} /\ adrift = {}
    /\ aborts = 0 /\ forgets = 0 /\ touches = 0

(* The mailbox *)

Put(i) == [op |-> "put", id |-> i]
Removed(i) == [op |-> "removed", id |-> i]

Arrive(i, f) ==
    /\ where[i] = "unborn"
    /\ where' = [where EXCEPT ![i] = f]
    /\ feed' = [feed EXCEPT ![f] = Append(@, Put(i))]
    /\ UNCHANGED <<touches, stored, vault, run, history, aborts, forgets>>

Touch(i) ==
    /\ touches < MaxTouches /\ touches' = touches + 1
    /\ where[i] \in Places
    /\ feed' = [feed EXCEPT ![where[i]] = Append(@, Put(i))]
    /\ UNCHANGED <<where, stored, vault, run, history, aborts, forgets>>

Delete(i) ==
    /\ where[i] \in Places
    /\ where' = [where EXCEPT ![i] = "gone"]
    /\ feed' = [feed EXCEPT ![where[i]] = Append(@, Removed(i))]
    /\ UNCHANGED <<touches, stored, vault, run, history, aborts, forgets>>

Move(i, j, f) ==
    /\ where[i] \in Places \ {f} /\ where[j] = "unborn" /\ KeyOf[i] = KeyOf[j]
    /\ where' = [where EXCEPT ![i] = "gone", ![j] = f]
    /\ feed' = [feed EXCEPT ![where[i]] = Append(@, Removed(i)),
                            ![f] = Append(@, Put(j))]
    /\ UNCHANGED <<touches, stored, vault, run, history, aborts, forgets>>

(* The run *)

Adrift(map) == vault' \ map

\* run() reads its state, which --resync has deleted first; the dict it changes
\* is its own until the cycle stores it.
Start ==
    /\ pc = "idle" /\ pc' = "folder"
    /\ \/ UNCHANGED <<stored, forgets>>
       \/ forgets < MaxForgets /\ forgets' = forgets + 1 /\ stored' = NoState
    /\ state' = stored' /\ at' = 1 /\ seen' = {}
    /\ UNCHANGED <<upstream, vault, batch, resume, skipped, aborts>>
    /\ adrift' = adrift \cup Adrift(stored'.map)

\* A round of a folder's delta: every page up to the cap, in memory.  Graph
\* reports what there is when it is asked: a message once, one that has gone as
\* a removal, and one the chain never knew not at all.
BeginsAnew == [pos |-> 0, base |-> Len(feed[Folder])]
Begins == IF Folder \in state.begun THEN state.link[Folder]
          ELSE [pos |-> 0, base |-> Len(feed[Folder])]
Reports(n, base) ==
    LET change == feed[Folder][n]
    IN  IF change.op = "put"
        THEN /\ where[change.id] = Folder
             /\ \A m \in (n + 1)..Len(feed[Folder]) : feed[Folder][m] # change
        ELSE n > base
CapSkipsTheRest(link) == Len(feed[Folder])
EndOfRound(link) == LeastOf(link.pos + PageCap, Len(feed[Folder]))
Fetch ==
    /\ pc = "folder"
    /\ resume' = [pos |-> EndOfRound(Begins), base |-> Begins.base]
    /\ batch' = {n \in (Begins.pos + 1)..LeastOf(Begins.pos + PageCap, Len(feed[Folder])) :
                    Reports(n, Begins.base)}
    /\ pc' = "items"
    /\ UNCHANGED <<upstream, stored, vault, state, at, seen, history, aborts, forgets>>

\* RemovalHandler.remove: the files go, if the path_map knows the id.
ForgetsTheFile(i) == /\ state' = [state EXCEPT !.map = @ \ {i}]
                     /\ UNCHANGED vault
Remove(i) == IF i \in state.map
             THEN /\ state' = [state EXCEPT !.map = @ \ {i}]
                  /\ vault' = vault \ {i}
             ELSE UNCHANGED <<state, vault>>

\* write_email: a key this run has seen is passed over.
WritesUnmapped(i) == vault' = vault \cup {i} /\ UNCHANGED state
WriteAndMap(i) == /\ vault' = vault \cup {i}
                  /\ state' = [state EXCEPT !.map = @ \cup {i}]
Write(i) ==
    IF KeyOf[i] \in seen
    THEN skipped' = skipped \cup {i} /\ UNCHANGED <<vault, state, seen>>
    ELSE /\ seen' = seen \cup {KeyOf[i]}
         /\ WriteAndMap(i)
         /\ skipped' = skipped \ {i}

Item ==
    /\ pc = "items"
    /\ \E n \in batch :
         /\ \A m \in batch : n <= m
         /\ batch' = batch \ {n}
         /\ LET change == feed[Folder][n]
            IN  IF change.op = "removed"
                THEN Remove(change.id) /\ UNCHANGED <<seen, skipped>>
                ELSE Write(change.id)
    /\ adrift' = adrift \cap vault'
    /\ UNCHANGED <<upstream, stored, pc, at, resume, aborts, forgets>>

PastTheLast == at > Len(Folders)
IsLast == at = Len(Folders)
EndFolder ==
    /\ pc = "items" /\ batch = {}
    /\ state' = [state EXCEPT !.link[Folder] = resume, !.begun = @ \cup {Folder}]
    /\ at' = at + 1 /\ resume' = NoLink
    /\ pc' = IF IsLast THEN "commit" ELSE "folder"
    /\ UNCHANGED <<upstream, stored, vault, batch, seen, history, aborts, forgets>>

Ended == pc' = "idle" /\ state' = NoState /\ at' = 0 /\ batch' = {} /\ resume' = NoLink
         /\ seen' = {}

\* state.put, once the run has returned.
Commit ==
    /\ pc = "commit"
    /\ stored' = state
    /\ adrift' = adrift \ state.map
    /\ Ended
    /\ UNCHANGED <<upstream, vault, skipped, aborts, forgets>>

\* A request, a conversion or a write raises, or the process dies: nothing of
\* the run is stored, and everything it did to the vault stays.
Abort ==
    /\ aborts < MaxAborts /\ aborts' = aborts + 1
    /\ pc \in {"folder", "items", "commit"}
    /\ Ended
    /\ UNCHANGED <<upstream, stored, vault, skipped, forgets>>
    /\ adrift' = adrift \cup Adrift(stored.map)

Extractor == Start \/ Fetch \/ Item \/ EndFolder \/ Commit

Mailbox == \/ \E i \in Ids, f \in Places : Arrive(i, f)
           \/ \E i \in Ids : Touch(i) \/ Delete(i)
           \/ \E i, j \in Ids, f \in Places : Move(i, j, f)

Next == Extractor \/ Abort \/ Mailbox

Spec == Init /\ [][Next]_vars

\* The cycle runs the extractor again and again, and a run takes its next step.
FairSpec == Spec /\ WF_vars(Extractor)
-------------------------------------------------------------------------------
(* Properties *)

\* Every variable has its type.
TypeOK ==
    /\ feed \in [Places -> Seq(Changes)]
    /\ where \in [Ids -> Places \cup {"unborn", "gone"}]
    /\ stored \in States /\ state \in States
    /\ vault \subseteq Ids
    /\ pc \in {"idle", "folder", "items", "commit"}
    /\ at \in 0..(Len(Folders) + 1)
    /\ pc \in {"folder", "items"} => at \in 1..Len(Folders)
    /\ batch \subseteq Nat /\ resume \in Links
    /\ seen \subseteq {KeyOf[i] : i \in Ids}
    /\ skipped \subseteq Ids /\ adrift \subseteq Ids
    /\ aborts \in 0..MaxAborts /\ forgets \in 0..MaxForgets /\ touches \in 0..MaxTouches

\* No message is lost behind a delta link: whatever the page cap cut, and
\* whatever failed, died or was forgotten, a message that is still in its folder,
\* with no change ahead of the stored link, has its file and its way back, unless
\* a run took it for a duplicate.
CoveredByLink ==
    \A i \in Ids, f \in Places :
        /\ where[i] = f
        /\ \A n \in 1..Len(feed[f]) : feed[f][n].id = i => n <= stored.link[f].pos
        => i \in skipped \/ (i \in vault /\ i \in stored.map)

\* "Without a way back from an id to the file written for it, there is nothing to
\* delete" (CONTRACTS.md): every file has its id in the state, unless a run that
\* failed, or --resync, has lost the entry.
EveryFileHasAWayBack == vault \subseteq stored.map \cup state.map \cup adrift

\* "Upstream deletion propagates" (CONTRACTS.md): a removal behind the stored
\* link has taken the file and the entry, unless the entry had been lost.
DeletionsPropagate ==
    \A f \in Places : \A n \in 1..stored.link[f].pos :
        LET change == feed[f][n]
        IN  change.op = "removed" =>
                change.id \notin stored.map /\ change.id \notin vault \ adrift

\* The vault follows the mailbox: in the end a message that stays is there, or
\* was taken for a duplicate, and one that is gone is not, or has no way back.
EventuallyFollows ==
    \A i \in Ids :
        /\ where[i] \in Places ~> i \in vault \cup skipped \/ where[i] = "gone"
        /\ where[i] = "gone" ~> i \notin vault \ adrift

\* "The inbox mirrors upstream truth" (removal.py), message by message whatever
\* its id is at the time: one that is in the mailbox is in the vault in the end.
Present(k) == \E i \in Ids : KeyOf[i] = k /\ where[i] \in Places
Mirrored(k) == \E i \in vault : KeyOf[i] = k
InboxMirrorsUpstream ==
    \A k \in {KeyOf[i] : i \in Ids} : Present(k) ~> Mirrored(k) \/ ~Present(k)
===============================================================================
