----------------------------- MODULE StateFiles -----------------------------
(***************************************************************************)
(* One namespace of the state store (state.py, atomic_json.py), kept twice *)
(* from the same calls: in the file of JsonStateStore, which several jobs  *)
(* of one user's directory open, and in the dicts of InMemoryStateStore,   *)
(* the fake every runtime test runs against.                               *)
(*                                                                         *)
(* A document is a version: what a caller makes of the one it holds is new. *)
(* Bounds: MaxDocs (documents made).                                        *)
(***************************************************************************)
EXTENDS Naturals

CONSTANTS Openers, Keys, MaxDocs
ASSUME BoundAssumption == Keys # {} /\ MaxDocs \in Nat

VARIABLES file,        \* key -> document, 0 when there is none: the namespace's JSON file
          dict,        \* the same of InMemoryStateStore
          caller,      \* job -> [at, key, held, alias, read, staged]
          docs,        \* how many there were
          overlapped   \* whether a file was replaced by one made of an older read

stateVars == <<file, dict, caller, docs, overlapped>>
-----------------------------------------------------------------------------
Absent == [k \in Keys |-> 0]
AtRest == [at |-> "free", key |-> CHOOSE k \in Keys : TRUE, held |-> 0, alias |-> FALSE, read |-> Absent, staged |-> Absent]

StateInit == file = Absent /\ dict = Absent /\ caller = [j \in Openers |-> AtRest] /\ docs = 0 /\ overlapped = FALSE

\* deepcopy: what a caller holds is not what the store holds.
Deepcopied == FALSE
(* MUTANT: the fake hands out, and keeps, the caller's own object. *)
Aliased == TRUE
IsAlias == Deepcopied

(* get: absence is an empty document. *)
Get(j, k) ==
    /\ caller[j].at = "free"
    /\ caller' = [caller EXCEPT ![j] = [AtRest EXCEPT !.at = "holding", !.key = k, !.held = file[k], !.alias = IsAlias]]
    /\ UNCHANGED <<file, dict, docs, overlapped>>

(* An extractor fills in what it was handed. *)
Mutate(j) ==
    /\ caller[j].at = "holding" /\ docs < MaxDocs
    /\ docs' = docs + 1
    /\ caller' = [caller EXCEPT ![j].held = docs + 1]
    /\ dict' = IF caller[j].alias THEN [dict EXCEPT ![caller[j].key] = docs + 1] ELSE dict
    /\ UNCHANGED <<file, overlapped>>

(* MUTANT: the document is written without the namespace around it. *)
Alone(data, k, doc) == [Absent EXCEPT ![k] = doc]
\* put and delete: the whole namespace as read, but for one key.
Rewritten(data, k, doc) == [data EXCEPT ![k] = doc]

Read(j, at) == caller' = [caller EXCEPT ![j].at = at, ![j].read = file]
PutReads(j) == caller[j].at = "holding" /\ Read(j, "putting") /\ UNCHANGED <<file, dict, docs, overlapped>>
\* delete: of an absent key, nothing is written.
DeleteReads(j) ==
    /\ caller[j].at = "holding"
    /\ IF file[caller[j].key] # 0 THEN Read(j, "deleting") /\ UNCHANGED dict
       ELSE caller' = [caller EXCEPT ![j].at = "free"] /\ dict' = [dict EXCEPT ![caller[j].key] = 0]
    /\ UNCHANGED <<file, docs, overlapped>>

(* write_json: a temporary file beside the destination, then os.replace.    *)
Stage(j) ==
    /\ caller[j].at \in {"putting", "deleting"}
    /\ LET doc == IF caller[j].at = "putting" THEN caller[j].held ELSE 0
       IN  caller' = [caller EXCEPT ![j].at = "replacing", ![j].held = doc, ![j].staged = Rewritten(caller[j].read, caller[j].key, doc)]
    /\ UNCHANGED <<file, dict, docs, overlapped>>
Replace(j) ==
    /\ caller[j].at = "replacing"
    /\ file' = caller[j].staged
    /\ dict' = [dict EXCEPT ![caller[j].key] = caller[j].held]
    /\ overlapped' = (overlapped \/ file # caller[j].read)
    /\ caller' = [caller EXCEPT ![j].at = "holding", ![j].alias = IsAlias, ![j].read = Absent, ![j].staged = Absent]
    /\ UNCHANGED docs

(* The caller is done, or failed, or its write raised and unlinked the      *)
(* temporary file, or it died and left it: no more of it is stored.          *)
Drop(j) ==
    /\ caller[j].at # "free"
    /\ caller' = [caller EXCEPT ![j] = AtRest]
    /\ UNCHANGED <<file, dict, docs, overlapped>>

StateNext == \E j \in Openers : (\E k \in Keys : Get(j, k)) \/ Mutate(j) \/ PutReads(j) \/ DeleteReads(j) \/ Stage(j) \/ Replace(j) \/ Drop(j)
StateSpec == StateInit /\ [][StateNext]_stateVars
-----------------------------------------------------------------------------
Docs == 0..MaxDocs
Callers == [at : {"free", "holding", "putting", "deleting", "replacing"}, key : Keys, held : Docs,
            alias : BOOLEAN, read : [Keys -> Docs], staged : [Keys -> Docs]]
StateTypeOK ==
    /\ file \in [Keys -> Docs] /\ dict \in [Keys -> Docs] /\ docs \in Docs /\ overlapped \in BOOLEAN
    /\ caller \in [Openers -> Callers]

(* The store and its fake are one store: whatever a caller did to what it    *)
(* was handed or had stored, failed halfway or died with, they hold the same, *)
(* until a job replaces the file by one made of what it read before another's *)
(* put.  Then a put that succeeded may be undone; nothing else undoes one.   *)
OnlyAnOverlapLoses == overlapped \/ file = dict
=============================================================================
