------------------------------ MODULE SyncCycle ------------------------------
(***************************************************************************)
(* `m365-brain run`: one cycle and the loop around it (cycle.py), the       *)
(* cursors that decide what is due (schedule.py), the state store           *)
(* (state.py), the change manifest (manifest.py) and the hooks (hooks.py).  *)
(*                                                                          *)
(* An extractor is seen through what a cycle needs of it: it fetches what   *)
(* its delta link does not cover yet, up to the page cap, writes it to the  *)
(* vault item by item, and returns the link to resume from.  Upstream is a  *)
(* log; a change is its extractor and its place in the log.                 *)
(*                                                                          *)
(* A timestamp is represented by its age in ticks, up to the interval it is *)
(* compared with: a unit is due when the age of last_run_at has reached its *)
(* interval, or when it has never run.                                      *)
(***************************************************************************)
EXTENDS Naturals, Sequences, FiniteSets

CONSTANTS
    Extractors,  \* the enabled extractors, in config order
    Interval,    \* unit -> its interval, in ticks
    PageCap,     \* how many changes one round fetches at most
    Hooks,       \* how many post_cycle hooks are configured
    Ceiling,     \* service.max_consecutive_auth_failures
    Modes,       \* how the process is started: with --once or not, --resync or not
    Restarts,    \* is it stopped and started again while it sleeps?
    MaxFeed,     \* bound: extractor -> changes of its upstream
    MaxFaults,   \* bound: exceptions
    MaxCrashes   \* bound: deaths of the process

Names == {Extractors[i] : i \in 1..Len(Extractors)}
Units == Names \cup {"index"}

ASSUME CycleAssumption ==
    /\ Extractors \in Seq(STRING) /\ "index" \notin Names
    /\ \A i, j \in 1..Len(Extractors) : Extractors[i] = Extractors[j] => i = j
    /\ Interval \in [Units -> Nat \ {0}]
    /\ PageCap \in Nat \ {0} /\ Hooks \in Nat /\ Ceiling \in Nat
    /\ Modes \subseteq [once : BOOLEAN, resync : BOOLEAN]
    /\ Restarts \in BOOLEAN
    /\ MaxFeed \in [Names -> Nat] /\ MaxFaults \in Nat /\ MaxCrashes \in Nat

VARIABLES
    feed,      \* extractor -> how many changes upstream has published
    link,      \* EXTRACTOR_STATE: extractor -> the delta link, 0 if there is none
    cursor,    \* CURSORS: unit -> age of its last run, failure streak
    vault,     \* the changes written to the vault
    manifest,  \* the manifest file of the cycle, once there is one
    latest,    \* the pointer file, once it shows the cycle
    pc,        \* where the process is; "down" if there is none
    selection, \* [once, resync], what the process was asked to run
    running,   \* the units of the cycle
    age,       \* the age of the cycle's start, until the index step has used it
    at,        \* the place in Extractors of the one that runs or ran last, or 0
    got,       \* the link the extractor's round will resume from
    recorder,  \* the changes its ChangeRecorder holds
    results,   \* ExtractorChanges of the cycle
    outcomes,  \* the failures of the index step and of hooks in the cycle
    fired,     \* how many hooks have been called
    reported,  \* history: the changes some manifest file has reported
    lost,      \* history: what a cycle that died had written and not reported
    starts,    \* history: extractor -> runs started in this tick by this process
    faults, crashes \* what is used of the two bounds

store == <<link, cursor, vault, manifest, latest>>
cycle == <<running, age, at, got, recorder, results, outcomes, fired>>
history == <<reported, lost, starts>>
bounds == <<faults, crashes>>
vars == <<feed, store, pc, selection, cycle, history, bounds>>

Changes == UNION {{e} \X (1..MaxFeed[e]) : e \in Names}
Entries == [name : Names, changes : SUBSET Changes, failed : BOOLEAN]
Documents == [changes : SUBSET Changes, failures : SUBSET (Units \cup {"hook"})]
Reported(entries) == UNION {entry.changes : entry \in entries}
InHand == Reported(results) \cup recorder
Document ==
    [changes |-> Reported(results),
     failures |-> {entry.name : entry \in {x \in results : x.failed}} \cup outcomes]
NoDocument == [changes |-> {}, failures |-> {}]
LeastOf(m, n) == IF m < n THEN m ELSE n
Cur == Extractors[at]
\* The extractors of the cycle still to run, by their places.
Remaining == {i \in (at + 1)..Len(Extractors) : Extractors[i] \in running}
Due(u) == cursor[u].age >= Interval[u]
-------------------------------------------------------------------------------
Init ==
    /\ feed = [e \in Names |-> 0] /\ link = [e \in Names |-> 0]
    /\ cursor = [u \in Units |-> [age |-> Interval[u], failures |-> 0]]
    /\ vault = {} /\ manifest = NoDocument /\ latest = NoDocument
    /\ pc = "down" /\ selection = [once |-> FALSE, resync |-> FALSE]
    /\ running = {} /\ age = 0 /\ at = 0 /\ got = 0 /\ recorder = {}
    /\ results = {} /\ outcomes = {} /\ fired = 0
    /\ reported = {} /\ lost = {} /\ starts = [e \in Names |-> 0]
    /\ faults = 0 /\ crashes = 0

Publish(e) == /\ feed[e] < MaxFeed[e]
              /\ feed' = [feed EXCEPT ![e] = @ + 1]
              /\ UNCHANGED <<store, pc, selection, cycle, history, bounds>>

\* The points between the start of a cycle and its index step.
Extracting == {"extract", "write", "commit", "succeeded", "failed"}

GrowsForever(n, u) == n + 1
Older(n, u) == LeastOf(n + 1, Interval[u])
Tick == /\ cursor' = [u \in Units |-> [cursor[u] EXCEPT !.age = Older(@, u)]]
        /\ age' = IF pc \in Extracting THEN Older(age, "index") ELSE 0
        /\ starts' = [e \in Names |-> 0]
        /\ UNCHANGED <<feed, link, vault, manifest, latest, pc, selection, running,
                       at, got, recorder, results, outcomes, fired, reported, lost,
                       bounds>>

\* Somebody or something starts the process: the supervisor, cron (--once).
CursorsOfTheProcess == [u \in Units |-> [cursor[u] EXCEPT !.age = 0]]
CursorsOnDisk == cursor
Start ==
    /\ pc = "down" /\ pc' = "top"
    /\ selection' \in Modes
    /\ cursor' = CursorsOnDisk
    /\ starts' = [e \in Names |-> 0]
    /\ UNCHANGED <<feed, link, vault, manifest, latest, cycle, reported, lost, bounds>>

\* The top of run_once: _forget_state for every unit selected, due or not, and
\* the units that run, due or all of them.
Begin ==
    /\ pc = "top" /\ pc' = "extract"
    /\ link' = IF selection.resync THEN [e \in Names |-> 0] ELSE link
    /\ running' = IF selection.once THEN Units ELSE {u \in Units : Due(u)}
    /\ age' = 0 /\ at' = 0 /\ got' = 0 /\ recorder' = {} /\ results' = {} /\ outcomes' = {}
    /\ fired' = 0
    /\ UNCHANGED <<feed, cursor, vault, manifest, latest, selection, history, bounds>>

Fault == faults < MaxFaults /\ faults' = faults + 1

\* The extractor's round: every page up to the cap, and then the items.
Fetch ==
    /\ pc = "extract"
    /\ at' \in Remaining /\ \A i \in Remaining : at' <= i
    /\ starts' = [starts EXCEPT ![Cur'] = @ + 1]
    /\ \/ /\ got' = LeastOf(link[Cur'] + PageCap, feed[Cur'])
          /\ pc' = "write" /\ UNCHANGED faults
       \/ Fault /\ pc' = "failed" /\ UNCHANGED got
    /\ UNCHANGED <<feed, store, selection, running, age, recorder, results, outcomes,
                   fired, reported, lost, crashes>>

\* The items of the round not yet written, and the next of them.
Unwritten == {n \in (link[Cur] + 1)..got : <<Cur, n>> \notin recorder}

Write ==
    /\ pc = "write"
    /\ \/ /\ \E n \in Unwritten :
               /\ \A m \in Unwritten : n <= m
               /\ vault' = vault \cup {<<Cur, n>>}
               /\ recorder' = recorder \cup {<<Cur, n>>}
          /\ UNCHANGED <<pc, faults>>
       \/ Unwritten = {} /\ pc' = "commit" /\ UNCHANGED <<vault, recorder, faults>>
       \/ Fault /\ pc' = "failed" /\ UNCHANGED <<vault, recorder>>
    /\ UNCHANGED <<feed, link, cursor, manifest, latest, selection, running, age, at,
                   got, results, outcomes, fired, history, crashes>>

\* state.put(EXTRACTOR_STATE): the link the round returned, after all its items.
ResumesAtTheEnd == feed[Cur]
ResumesCompleteRounds == IF got = feed[Cur] THEN got ELSE link[Cur]
ResumeLink == got
Commit ==
    /\ pc = "commit" /\ pc' = "succeeded"
    /\ link' = [link EXCEPT ![Cur] = ResumeLink]
    /\ UNCHANGED <<feed, cursor, vault, manifest, latest, selection, cycle, history,
                   bounds>>

\* mark_success and mark_failure: `since` is the age of the stamp they write.
\* last_success_at is older than last_run_at exactly while there is a streak.
Succeeded(u, since) ==
    [cursor EXCEPT ![u] = [age |-> since, failures |-> 0]]
HoldsRunStampBack(u, since) ==
    [cursor EXCEPT ![u] = [age |-> @.age, failures |-> @.failures + 1]]
Failed(u, since) ==
    [cursor EXCEPT ![u] = [age |-> since, failures |-> @.failures + 1]]

\* The entry of the extractor's run: a failed one keeps what it wrote.
DropsTheChanges(failed) ==
    [name |-> Cur, changes |-> IF failed THEN {} ELSE recorder, failed |-> failed]
Entry(failed) == [name |-> Cur, changes |-> recorder, failed |-> failed]

EndExtractor ==
    /\ pc \in {"succeeded", "failed"} /\ pc' = "extract"
    /\ cursor' = IF pc = "failed" THEN Failed(Cur, 0) ELSE Succeeded(Cur, 0)
    /\ results' = results \cup {Entry(pc = "failed")}
    /\ recorder' = {} /\ got' = 0
    /\ UNCHANGED <<feed, link, vault, manifest, latest, selection, running, age, at,
                   outcomes, fired, history, bounds>>

\* _maybe_index: the stamp of the index is the cycle's start.  A file that does
\* not index is an error of the run, and the run is a success all the same.
Index ==
    /\ pc = "extract" /\ Remaining = {} /\ pc' = "manifest"
    /\ IF "index" \in running \/ Reported(results) # {}
       THEN \/ /\ cursor' = Succeeded("index", age)
               /\ UNCHANGED <<outcomes, faults>>
            \/ /\ Fault
               /\ cursor' \in {Failed("index", age), Succeeded("index", age)}
               /\ outcomes' = {"index"}
       ELSE UNCHANGED <<cursor, outcomes, faults>>
    /\ age' = 0
    /\ UNCHANGED <<feed, link, vault, manifest, latest, selection, running, at,
                   got, recorder, results, fired, history, crashes>>

\* ManifestStore.write, before the hooks and after them: the cycle's file, then
\* the pointer.  prune and the CYCLES summary follow the second write; the
\* newest manifest is none they touch.
HooksFirst == IF pc = "manifest" THEN "hook" ELSE "prune"
AfterManifest == IF pc = "manifest" THEN "pointer" ELSE "pointer_again"
WriteManifest ==
    /\ pc \in {"manifest", "manifest_again"} /\ pc' = AfterManifest
    /\ manifest' = Document
    /\ reported' = reported \cup Document.changes
    /\ UNCHANGED <<feed, link, cursor, vault, latest, selection, cycle, lost, starts,
                   bounds>>
WritePointer ==
    /\ pc \in {"pointer", "pointer_again"}
    /\ pc' = IF pc = "pointer" THEN "hook" ELSE "prune"
    /\ latest' = Document
    /\ UNCHANGED <<feed, link, cursor, vault, manifest, selection, cycle, history,
                   bounds>>

\* dispatch: each hook in turn; one that raises is recorded.
Hook ==
    /\ pc = "hook"
    /\ \/ /\ fired < Hooks /\ fired' = fired + 1 /\ UNCHANGED pc
          /\ \/ UNCHANGED <<outcomes, faults>>
             \/ Fault /\ outcomes' = outcomes \cup {"hook"}
       \/ fired = Hooks /\ pc' = "manifest_again" /\ UNCHANGED <<outcomes, fired, faults>>
    /\ UNCHANGED <<feed, store, selection, running, age, at, got, recorder, results,
                   history, crashes>>

\* What a cycle leaves behind: its manifest is one of the older ones now.
Ended == /\ running' = {} /\ age' = 0 /\ at' = 0 /\ got' = 0 /\ recorder' = {}
         /\ results' = {} /\ outcomes' = {} /\ fired' = 0
         /\ manifest' = NoDocument /\ latest' = NoDocument

\* The end of run_once; run_forever then looks for a unit past the ceiling,
\* returns 1 if there is one, and sleeps otherwise.
EndCycle ==
    /\ pc = "prune"
    /\ pc' = IF selection.once \/ \E u \in Units : cursor[u].failures > Ceiling
             THEN "down" ELSE "sleep"
    /\ Ended
    /\ UNCHANGED <<feed, link, cursor, vault, selection, history, bounds>>

\* next_wake: the earliest moment any unit is due.
Wake == /\ pc = "sleep" /\ \E u \in Units : Due(u)
        /\ pc' = "top"
        /\ UNCHANGED <<feed, store, selection, cycle, history, bounds>>

\* An operator, a deployment or an hourly restart stops the process in its sleep.
Stop == /\ Restarts /\ pc = "sleep" /\ pc' = "down"
        /\ UNCHANGED <<feed, store, selection, cycle, history, bounds>>

\* The process dies, at any other point.
Crash ==
    /\ crashes < MaxCrashes /\ crashes' = crashes + 1
    /\ pc \notin {"down", "sleep"} /\ pc' = "down"
    /\ lost' = lost \cup (InHand \ reported)
    /\ Ended
    /\ UNCHANGED <<feed, link, cursor, vault, selection, reported, starts, faults>>

Process == \/ Begin \/ Fetch \/ Write \/ Commit \/ EndExtractor \/ Index
           \/ WriteManifest \/ WritePointer \/ Hook \/ EndCycle \/ Wake

Next == Process \/ Start \/ Tick \/ Stop \/ Crash \/ \E e \in Names : Publish(e)

Spec == Init /\ [][Next]_vars

\* The process takes its next step unless it dies, whatever runs it starts it
\* again, and time passes.
FairSpec == Spec /\ WF_vars(Process) /\ WF_vars(Start) /\ WF_vars(Tick)
-------------------------------------------------------------------------------
(* Properties *)

Points == {"down", "top", "extract", "write", "commit", "succeeded", "failed",
           "manifest", "pointer", "hook", "manifest_again", "pointer_again",
           "prune", "sleep"}

\* Every variable has its type.
TypeOK ==
    /\ feed \in [Names -> Nat] /\ link \in [Names -> Nat]
    /\ \A e \in Names : link[e] <= feed[e] /\ feed[e] <= MaxFeed[e]
    /\ cursor \in [Units -> [age : Nat, failures : Nat]]
    /\ \A u \in Units : cursor[u].age <= Interval[u]
    /\ vault \subseteq Changes /\ manifest \in Documents /\ latest \in Documents
    /\ pc \in Points /\ selection \in [once : BOOLEAN, resync : BOOLEAN]
    /\ running \subseteq Units /\ age \in 0..Interval["index"]
    /\ at \in 0..Len(Extractors) /\ got \in Nat
    /\ recorder \subseteq Changes /\ results \subseteq Entries
    /\ outcomes \subseteq {"index", "hook"} /\ fired \in 0..Hooks
    /\ reported \subseteq Changes /\ lost \subseteq Changes
    /\ starts \in [Names -> Nat]
    /\ faults \in 0..MaxFaults /\ crashes \in 0..MaxCrashes

\* The delta link never runs ahead of the vault: whatever fails or dies in a
\* round, every change before the stored link has been written.
NothingSkipped ==
    \A e \in Names : \A n \in 1..link[e] : <<e, n>> \in vault

\* "The manifest equals what the cycle wrote" (CONTRACTS.md), of an extractor
\* that fails half way too: what is in the vault has been reported, or the
\* cycle at work holds it, or the process died before it could report it.
ReportedUnlessDied == vault \subseteq reported \cup InHand \cup lost

\* "A hook that takes the process down must not take the record of what was
\* extracted with it" (CONTRACTS.md): when a hook runs, both files already hold
\* everything the cycle wrote and every failure so far but the hooks'.
RecordBeforeHooks ==
    pc = "hook" => \A file \in {manifest, latest} :
                      /\ file.changes = Reported(results)
                      /\ file.failures \ {"hook"} = Document.failures \ {"hook"}

\* "Advancing the run stamp is what stops a broken unit from hot-looping"
\* (schedule.py): one process starts no extractor twice in a tick.
NotHotLooping == \A e \in Names : starts[e] <= 1

\* Every unit keeps running, with a daemon restarted far more often than its
\* interval too (schedule.py, on why the cursors are persisted).
UnitsKeepRunning == \A u \in Units : []<>(u \in running)

\* Every change upstream publishes reaches the vault: the page cap defers, a
\* failed round is tried again, and neither stops the ones after it.
EventuallyMirrored ==
    \A e \in Names : \A n \in 1..MaxFeed[e] :
        feed[e] >= n ~> <<e, n>> \in vault
===============================================================================
