------------------------------- MODULE Manifests -------------------------------
(***************************************************************************)
(* What a cycle reports and how long the report is kept (manifest.py): the *)
(* recorder every write goes through, the manifest written before and after *)
(* the hooks, its copy under latest_filename, and the pruning of old ones.  *)
(* Several processes run cycles over one directory, the loop and a run      *)
(* --once, each with units, and so with files, of its own.                 *)
(*                                                                         *)
(* Bounds: MaxSeconds, MaxCycles, MaxOps (writes and deletes),   *)
(* MaxEnds (deaths).                                                       *)
(***************************************************************************)
EXTENDS Integers, FiniteSets

CONSTANTS Runners, Files, Retain, MaxSeconds, MaxCycles, MaxOps, MaxEnds, NoId

VARIABLES now,         \* the second
          taken,       \* ids given to cycles: [second, token]
          vault,       \* runner -> the paths that are there
          cycle,       \* runner -> [at, started, id, began, kinds, hooked, doomed]
          manifests,   \* id -> [kinds, hooked]: the files of the directory
          latest,      \* the pointer file: [id, of], or NoId
          ends,        \* deaths
          ops          \* writes and deletes

ASSUME ManifestsAssumption == Retain \in Nat

manifestVars == <<now, taken, vault, cycle, manifests, latest, ends, ops>>

Resting == [at |-> "idle", started |-> 0, id |-> NoId, began |-> {}, kinds |-> <<>>, hooked |-> FALSE, doomed |-> {}]
ManifestsInit ==
    /\ now = 1 /\ taken = {} /\ ends = 0 /\ ops = 0
    /\ vault \in [Runners -> SUBSET Files]
    /\ cycle = [r \in Runners |-> Resting]
    /\ manifests = <<>> /\ latest = NoId

Second == now < MaxSeconds /\ now' = now + 1 /\ UNCHANGED <<taken, vault, cycle, manifests, latest, ends, ops>>
-----------------------------------------------------------------------------
(* ChangeRecorder.record. *)
Put(kinds, p, kind) == [q \in DOMAIN kinds \cup {p} |-> IF q = p THEN kind ELSE kinds[q]]
\* Mutant: the last write says what the file is to the cycle.
LastKind(kinds, p, kind) == Put(kinds, p, kind)
Recorded(kinds, p, kind) ==
    IF p \in DOMAIN kinds /\ kinds[p] = "added" /\ kind = "updated" THEN kinds ELSE Put(kinds, p, kind)

Goes(r, to) == cycle' = [cycle EXCEPT ![r].at = to]
Begin(r) ==
    /\ cycle[r].at = "idle" /\ Cardinality(taken) < MaxCycles
    /\ cycle' = [cycle EXCEPT ![r] = [Resting EXCEPT !.at = "extracting", !.began = vault[r], !.started = now]]
    /\ UNCHANGED <<now, taken, vault, manifests, latest, ends, ops>>

Changes(r, p, kind) ==
    /\ cycle[r].at = "extracting" /\ ops < MaxOps /\ ops' = ops + 1
    /\ cycle' = [cycle EXCEPT ![r].kinds = Recorded(@, p, kind)]
    /\ UNCHANGED <<now, taken, manifests, latest, ends>>
(* RecordingStorage.write_file, write_bytes and delete_file. *)
WriteFile(r, p) == /\ Changes(r, p, IF p \in vault[r] THEN "updated" ELSE "added")
                   /\ vault' = [vault EXCEPT ![r] = @ \cup {p}]
DeleteFile(r, p) == /\ Changes(r, p, "removed")
                    /\ p \in vault[r] /\ vault' = [vault EXCEPT ![r] = @ \ {p}]

(* run_once, whatever the extractors and the index came to.  new_cycle_id   *)
(* takes the second the cycle began in, and a token of its own.             *)
NewCycle(r, token) ==
    /\ cycle[r].at = "extracting" /\ Cardinality(taken) < MaxCycles
    /\ LET id == [second |-> cycle[r].started, token |-> token]
       IN  /\ id \notin taken /\ taken' = taken \cup {id}
           /\ cycle' = [cycle EXCEPT ![r].at = "writing", ![r].id = id]
    /\ UNCHANGED <<now, vault, manifests, latest, ends, ops>>

(* ManifestStore.write, once before and once after the hooks. *)
Document(r) == [kinds |-> cycle[r].kinds, hooked |-> cycle[r].hooked]
WriteManifest(r) ==
    /\ cycle[r].at = "writing" /\ Goes(r, "pointing")
    /\ manifests' = [i \in DOMAIN manifests \cup {cycle[r].id} |-> IF i = cycle[r].id THEN Document(r) ELSE manifests[i]]
    /\ UNCHANGED <<now, taken, vault, latest, ends, ops>>
WriteLatest(r) ==
    /\ cycle[r].at = "pointing"
    /\ latest' = [id |-> cycle[r].id, of |-> Document(r)]
    /\ cycle' = [cycle EXCEPT ![r].at = IF cycle[r].hooked THEN "pruning" ELSE "writing", ![r].hooked = TRUE]
    /\ UNCHANGED <<now, taken, vault, manifests, ends, ops>>

(* prune: all but the last of the sorted ids, unlinked one by one.  One that *)
(* is not there any more raises, out of run_once.                            *)
Before(i, j) == i.second < j.second \/ (i.second = j.second /\ i.token < j.token)
Later(i) == {j \in DOMAIN manifests : Before(i, j)}
\* Mutant: the sorted ids are cut at the wrong end.
DoomedNewest == {i \in DOMAIN manifests : Cardinality(DOMAIN manifests \ Later(i)) > Retain}
Doomed == {i \in DOMAIN manifests : Cardinality(Later(i)) >= Retain}
List(r) ==
    /\ cycle[r].at = "pruning"
    /\ cycle' = [cycle EXCEPT ![r].at = "unlinking", ![r].doomed = Doomed]
    /\ UNCHANGED <<now, taken, vault, manifests, latest, ends, ops>>
Unlink(r) ==
    /\ cycle[r].at = "unlinking"
    /\ IF cycle[r].doomed = {} THEN cycle' = [cycle EXCEPT ![r] = Resting] /\ UNCHANGED manifests
       ELSE \E i \in cycle[r].doomed :
              /\ \A j \in cycle[r].doomed : j = i \/ Before(i, j)
              /\ IF i \in DOMAIN manifests
                 THEN /\ manifests' = [j \in DOMAIN manifests \ {i} |-> manifests[j]]
                      /\ cycle' = [cycle EXCEPT ![r].doomed = @ \ {i}]
                 ELSE cycle' = [cycle EXCEPT ![r] = Resting] /\ UNCHANGED manifests
    /\ UNCHANGED <<now, taken, vault, latest, ends, ops>>

Die(r) ==
    /\ cycle[r].at # "idle" /\ ends < MaxEnds /\ ends' = ends + 1
    /\ cycle' = [cycle EXCEPT ![r] = Resting]
    /\ UNCHANGED <<now, taken, vault, manifests, latest, ops>>

ManifestsNext ==
    \/ Second
    \/ \E r \in Runners :
         \/ Begin(r) \/ WriteManifest(r) \/ WriteLatest(r) \/ List(r) \/ Unlink(r) \/ Die(r)
         \/ \E p \in Files : WriteFile(r, p) \/ DeleteFile(r, p)
         \/ \E token \in 1..2 : NewCycle(r, token)
-----------------------------------------------------------------------------
(* Whoever mirrors the vault by the report - copies what was added or       *)
(* updated, drops what was removed - has the vault, and nothing new is      *)
(* called an update.                                                       *)
ReportIsNet ==
    \A r \in Runners : cycle[r].at # "idle" =>
        LET kinds == cycle[r].kinds
            Of(kind) == {p \in DOMAIN kinds : kinds[p] = kind}
        IN  /\ vault[r] = (cycle[r].began \cup Of("added") \cup Of("updated")) \ Of("removed")
            /\ Of("updated") \subseteq cycle[r].began

(* However many processes prune, none has listed one of the newest to go.    *)
PruneSparesTheNewest ==
    \A r \in Runners : \A i \in cycle[r].doomed \cap DOMAIN manifests : Cardinality(Later(i)) >= Retain

(* Between cycles, if none died, the pointer has the outcomes of the hooks,  *)
(* and says what the manifest it names says.                                *)
PointerIsSettled ==
    (ends = 0 /\ latest # NoId /\ \A r \in Runners : cycle[r].at = "idle") =>
        /\ latest.of.hooked
        /\ latest.id \in DOMAIN manifests => manifests[latest.id] = latest.of

(* What manifest.py:273 says of the ids would keep the last manifest written: *)
(* the code sorts a second's by their tokens, and takes the second a cycle    *)
(* began in.                                                                 *)
LastWrittenIsKept ==
    (latest # NoId /\ \A r \in Runners : cycle[r].at = "idle") => latest.id \in DOMAIN manifests

ManifestsAreTrue == ReportIsNet /\ PruneSparesTheNewest /\ PointerIsSettled
=============================================================================
