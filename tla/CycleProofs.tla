------------------------------ MODULE CycleProofs ------------------------------
(***************************************************************************)
(* Theorems about SyncCycle, for every set of extractors, interval, page    *)
(* cap, number of hooks, failures and deaths.  RoundInv is the inductive    *)
(* invariant: what a round holds at each of its points, and what the cycle  *)
(* has already put on record at each of its.                                *)
(***************************************************************************)
EXTENDS SyncCycle, TLAPS

InRound == {"write", "commit", "succeeded", "failed"}
Recorded == {"pointer", "hook", "manifest_again", "pointer_again", "prune"}
OutOfCycle == {"down", "top", "sleep"}

\* What holds of the round at work: its changes are in the vault, and once the
\* link may be stored every change the link passes is among them.
RoundHolds ==
    /\ pc \in InRound => at \in 1..Len(Extractors)
    /\ pc \notin InRound => recorder = {}
    /\ recorder \subseteq vault
    /\ pc \in {"write", "commit"} => link[Cur] <= got /\ got <= feed[Cur]
    /\ pc = "commit" => \A n \in (link[Cur] + 1)..got : <<Cur, n>> \in recorder

\* What holds of the cycle: nothing before it begins, and everything on record
\* once its manifest has been written.
CycleHolds ==
    /\ pc \in OutOfCycle => results = {}
    /\ pc \in Recorded => Reported(results) \subseteq reported
    /\ pc = "pointer" => manifest = Document

LEMMA NumbersOfTheCycle ==
    /\ PageCap \in Nat \ {0} /\ Hooks \in Nat /\ MaxFaults \in Nat /\ MaxCrashes \in Nat
    /\ Restarts \in BOOLEAN /\ Modes \subseteq [once : BOOLEAN, resync : BOOLEAN]
    /\ MaxFeed \in [Names -> Nat] /\ Len(Extractors) \in Nat
    /\ \A i \in 1..Len(Extractors) : Extractors[i] \in Names
    /\ \A u \in Units : Interval[u] \in Nat /\ Interval[u] >= 1
    /\ Names \subseteq Units /\ "index" \in Units
BY CycleAssumption DEF CycleAssumption, Names, Units

LEMMA ChangeOf ==
    ASSUME NEW e \in Names, NEW n \in 1..MaxFeed[e]
    PROVE  <<e, n>> \in Changes
BY DEF Changes

LEMMA OlderIsAnAge ==
    ASSUME NEW u \in Units, NEW n \in Nat
    PROVE  Older(n, u) \in Nat /\ Older(n, u) <= Interval[u]
BY NumbersOfTheCycle DEF Older, LeastOf

\* mark_success and mark_failure write a cursor of its type.
LEMMA StampIsACursor ==
    ASSUME NEW u \in Units, NEW since \in Nat, since <= Interval[u],
           cursor \in [Units -> [age : Nat, failures : Nat]],
           \A v \in Units : cursor[v].age <= Interval[v],
           cursor' \in {Succeeded(u, since), Failed(u, since)}
    PROVE  /\ cursor' \in [Units -> [age : Nat, failures : Nat]]
           /\ \A v \in Units : cursor'[v].age <= Interval[v]
<1>1. PICK n \in Nat : cursor' = [cursor EXCEPT ![u] = [age |-> since, failures |-> n]]
  <2>1. cursor[u].failures + 1 \in Nat
    OBVIOUS
  <2> QED
    BY <2>1 DEF Succeeded, Failed
<1>2. [age |-> since, failures |-> n] \in [age : Nat, failures : Nat]
  OBVIOUS
<1> QED
  BY <1>1, <1>2

LEMMA DocumentHasItsType ==
    ASSUME results \subseteq Entries, outcomes \subseteq {"index", "hook"}
    PROVE  Document \in Documents
<1>1. Reported(results) \subseteq Changes
  BY DEF Reported, Entries
<1>2. {entry.name : entry \in {x \in results : x.failed}} \cup outcomes
         \subseteq Units \cup {"hook"}
  BY DEF Entries, Units
<1> QED
  BY <1>1, <1>2 DEF Document, Documents

LEMMA NoDocumentHasItsType == NoDocument \in Documents
BY DEF NoDocument, Documents
-------------------------------------------------------------------------------
\* One step keeps the type invariant; the bounds on a round come from RoundHolds.
LEMMA TypeStep == TypeOK /\ RoundHolds /\ [Next]_vars => TypeOK'
<1> SUFFICES ASSUME TypeOK, RoundHolds, [Next]_vars PROVE TypeOK'
  OBVIOUS
<1>0. /\ PageCap \in Nat /\ Hooks \in Nat /\ MaxFaults \in Nat /\ MaxCrashes \in Nat
      /\ MaxFeed \in [Names -> Nat] /\ Len(Extractors) \in Nat
      /\ \A i \in 1..Len(Extractors) : Extractors[i] \in Names
      /\ \A u \in Units : Interval[u] \in Nat
      /\ Names \subseteq Units /\ "index" \in Units /\ 0 <= Interval["index"]
  BY NumbersOfTheCycle
<1>c. pc \in InRound => Cur \in Names
  BY <1>0 DEF RoundHolds, Cur
<1> USE <1>0 DEF TypeOK, store, cycle, history, bounds, Points
<1>1. CASE \E e \in Names : Publish(e)
  <2>1. PICK e \in Names : Publish(e)
    BY <1>1
  <2>2. /\ feed[e] + 1 \in Nat /\ feed[e] + 1 <= MaxFeed[e]
        /\ feed' = [feed EXCEPT ![e] = feed[e] + 1]
    BY <2>1 DEF Publish
  <2>3. /\ feed' \in [Names -> Nat]
        /\ \A x \in Names : link[x] <= feed'[x] /\ feed'[x] <= MaxFeed[x]
    <3>1. feed' \in [Names -> Nat]
      BY <2>2
    <3>2. ASSUME NEW x \in Names
          PROVE  link[x] <= feed'[x] /\ feed'[x] <= MaxFeed[x]
      <4>1. /\ link[x] \in Nat /\ feed[x] \in Nat
            /\ link[x] <= feed[x] /\ feed[x] <= MaxFeed[x]
        OBVIOUS
      <4>2. feed'[x] = IF x = e THEN feed[e] + 1 ELSE feed[x]
        BY <2>2
      <4> HIDE DEF TypeOK
      <4> QED
        BY <2>2, <4>1, <4>2
    <3> QED
      BY <3>1, <3>2
  <2> QED
    BY <2>1, <2>3 DEF Publish
<1>2. CASE Tick
  <2>1. /\ cursor' \in [Units -> [age : Nat, failures : Nat]]
        /\ \A u \in Units : cursor'[u].age <= Interval[u]
    <3>1. ASSUME NEW u \in Units
          PROVE  /\ [cursor[u] EXCEPT !.age = Older(@, u)] \in [age : Nat, failures : Nat]
                 /\ [cursor[u] EXCEPT !.age = Older(@, u)].age <= Interval[u]
      <4>1. Older(cursor[u].age, u) \in Nat /\ Older(cursor[u].age, u) <= Interval[u]
        <5>1. cursor[u].age \in Nat
          OBVIOUS
        <5> QED
          BY <5>1, OlderIsAnAge
      <4> QED
        BY <4>1
    <3> QED
      BY <3>1, <1>2 DEF Tick
  <2>2. age' \in 0..Interval["index"]
    <3>1. Older(age, "index") \in Nat /\ Older(age, "index") <= Interval["index"]
      <4>1. age \in Nat
        OBVIOUS
      <4> QED
        BY <4>1, OlderIsAnAge
    <3>2. age' = Older(age, "index") \/ age' = 0
      BY <1>2 DEF Tick
    <3> HIDE DEF TypeOK
    <3> QED
      BY <1>0, <3>1, <3>2
  <2>3. starts' \in [Names -> Nat]
    BY <1>2 DEF Tick
  <2> QED
    BY <1>2, <2>1, <2>2, <2>3 DEF Tick
<1>3. CASE Start
  <2>1. selection' \in [once : BOOLEAN, resync : BOOLEAN]
    BY <1>3, NumbersOfTheCycle DEF Start
  <2> QED
    BY <1>3, <2>1 DEF Start, CursorsOnDisk
<1>4. CASE Begin
  <2>1. link' \in [Names -> Nat] /\ \A e \in Names : link'[e] <= feed[e]
    BY <1>4 DEF Begin
  <2>2. running' \subseteq Units
    BY <1>4 DEF Begin
  <2>3. /\ age' \in 0..Interval["index"] /\ at' \in 0..Len(Extractors) /\ got' \in Nat
        /\ recorder' \subseteq Changes /\ results' \subseteq Entries
        /\ outcomes' \subseteq {"index", "hook"} /\ fired' \in 0..Hooks
    BY <1>4 DEF Begin
  <2>4. pc' \in Points
    BY <1>4 DEF Begin
  <2>5. UNCHANGED <<feed, cursor, vault, manifest, latest, selection, history, bounds>>
    BY <1>4 DEF Begin
  <2> QED
    BY <2>1, <2>2, <2>3, <2>4, <2>5
<1>5. CASE Fetch
  <2>1. at' \in 1..Len(Extractors) /\ Cur' \in Names
    BY <1>5 DEF Fetch, Remaining, Cur
  <2>2. starts' \in [Names -> Nat]
    <3>1. starts' = [starts EXCEPT ![Cur'] = starts[Cur'] + 1]
      BY <1>5 DEF Fetch
    <3>2. starts \in [Names -> Nat]
      OBVIOUS
    <3> HIDE DEF TypeOK
    <3> QED
      BY <2>1, <3>1, <3>2
  <2>3. got' \in Nat
    <3>1. link[Cur'] \in Nat /\ feed[Cur'] \in Nat /\ got \in Nat
      BY <2>1
    <3> HIDE DEF TypeOK
    <3>2. got' = LeastOf(link[Cur'] + PageCap, feed[Cur']) \/ got' = got
      BY <1>5 DEF Fetch
    <3> QED
      BY <1>0, <3>1, <3>2 DEF LeastOf
  <2>4. pc' \in Points /\ faults' \in 0..MaxFaults
    BY <1>5 DEF Fetch, Fault
  <2>5. UNCHANGED <<feed, store, selection, running, age, recorder, results, outcomes,
                    fired, reported, lost, crashes>>
    BY <1>5 DEF Fetch
  <2>6. at' \in 0..Len(Extractors)
    BY <2>1
  <2>7. /\ \A e \in Names : link'[e] <= feed'[e] /\ feed'[e] <= MaxFeed[e]
        /\ \A u \in Units : cursor'[u].age <= Interval[u]
    BY <2>5
  <2> QED
    BY <2>2, <2>3, <2>4, <2>5, <2>6, <2>7
<1>6. CASE Write
  <2>1. vault' \subseteq Changes /\ recorder' \subseteq Changes
    <3>1. CASE vault' = vault /\ recorder' = recorder
      BY <3>1
    <3>2. ASSUME NEW n \in Unwritten, vault' = vault \cup {<<Cur, n>>},
                 recorder' = recorder \cup {<<Cur, n>>}
          PROVE  vault' \subseteq Changes /\ recorder' \subseteq Changes
      <4>1. Cur \in Names /\ n \in 1..MaxFeed[Cur]
        BY <1>6, <1>c DEF Write, RoundHolds, InRound, Unwritten
      <4>2. <<Cur, n>> \in Changes
        BY <4>1, ChangeOf
      <4> QED
        BY <3>2, <4>2
    <3> QED
      BY <1>6, <3>1, <3>2 DEF Write
  <2>2. pc' \in Points /\ faults' \in 0..MaxFaults
    BY <1>6 DEF Write, Fault
  <2> QED
    BY <1>6, <2>1, <2>2 DEF Write
<1>7. CASE Commit
  BY <1>7, <1>c DEF Commit, ResumeLink, RoundHolds, InRound
<1>8. CASE EndExtractor
  <2>0. Cur \in Names
    BY <1>8, <1>c DEF EndExtractor, InRound
  <2>1. /\ cursor' \in [Units -> [age : Nat, failures : Nat]]
        /\ \A u \in Units : cursor'[u].age <= Interval[u]
    <3>1. cursor' \in {Succeeded(Cur, 0), Failed(Cur, 0)}
      BY <1>8 DEF EndExtractor
    <3>2. Cur \in Units /\ 0 <= Interval[Cur]
      BY <2>0
    <3> QED
      BY <3>1, <3>2, StampIsACursor
  <2>2. results' \subseteq Entries
    <3>1. PICK failed \in BOOLEAN : results' = results \cup {Entry(failed)}
      BY <1>8 DEF EndExtractor
    <3>2. Entry(failed) \in Entries
      BY <2>0 DEF Entry, Entries
    <3> HIDE DEF TypeOK
    <3>3. results \subseteq Entries
      BY DEF TypeOK
    <3> QED
      BY <3>1, <3>2, <3>3
  <2> QED
    BY <1>8, <2>1, <2>2 DEF EndExtractor
<1>9. CASE Index
  <2>1. /\ cursor' \in [Units -> [age : Nat, failures : Nat]]
        /\ \A u \in Units : cursor'[u].age <= Interval[u]
    <3>1. cursor' = cursor \/ cursor' \in {Succeeded("index", age), Failed("index", age)}
      BY <1>9 DEF Index
    <3>2. age \in Nat /\ age <= Interval["index"]
      OBVIOUS
    <3> QED
      BY <3>1, <3>2, StampIsACursor
  <2>2. outcomes' \subseteq {"index", "hook"} /\ faults' \in 0..MaxFaults
    <3>1. \/ outcomes' = outcomes /\ faults' = faults
          \/ outcomes' = outcomes /\ faults' = faults + 1 /\ faults < MaxFaults
          \/ outcomes' = {"index"} /\ faults' = faults + 1 /\ faults < MaxFaults
      BY <1>9 DEF Index, Fault
    <3>2. outcomes' \subseteq {"index", "hook"}
      BY <3>1
    <3>3. faults' \in 0..MaxFaults
      BY <3>1
    <3> QED
      BY <3>2, <3>3
  <2> QED
    BY <1>9, <2>1, <2>2 DEF Index
<1>10. CASE WriteManifest
  <2>1. Document \in Documents /\ Document.changes \subseteq Changes
    BY DocumentHasItsType DEF Documents
  <2> QED
    BY <1>10, <2>1 DEF WriteManifest, AfterManifest
<1>11. CASE WritePointer
  <2>1. Document \in Documents
    BY DocumentHasItsType
  <2> QED
    BY <1>11, <2>1 DEF WritePointer
<1>12. CASE Hook
  <2>1. /\ outcomes' \in {outcomes, outcomes \cup {"hook"}}
        /\ faults' \in {faults, faults + 1} /\ faults' <= MaxFaults
        /\ fired' \in {fired, fired + 1} /\ fired' <= Hooks
        /\ pc' \in {pc, "manifest_again"}
    BY <1>12 DEF Hook, Fault
  <2>2. /\ outcomes' \subseteq {"index", "hook"} /\ faults' \in 0..MaxFaults
        /\ fired' \in 0..Hooks /\ pc' \in Points
    BY <2>1
  <2>3. UNCHANGED <<feed, store, selection, running, age, at, got, recorder, results,
                    history, crashes>>
    BY <1>12 DEF Hook
  <2> QED
    BY <2>2, <2>3
<1>13. CASE EndCycle
  BY <1>13, NoDocumentHasItsType DEF EndCycle, Ended
<1>14. CASE Wake \/ Stop
  BY <1>14 DEF Wake, Stop
<1>15. CASE Crash
  <2>1. lost' \subseteq Changes
    <3>1. InHand \subseteq Changes
      BY DEF InHand, Reported, Entries
    <3> QED
      BY <1>15, <3>1 DEF Crash
  <2> QED
    BY <1>15, <2>1, NoDocumentHasItsType DEF Crash, Ended
<1>16. CASE UNCHANGED vars
  BY <1>16 DEF vars
<1> QED
  BY <1>1, <1>2, <1>3, <1>4, <1>5, <1>6, <1>7, <1>8, <1>9, <1>10, <1>11, <1>12,
     <1>13, <1>14, <1>15, <1>16 DEF Next, Process
-------------------------------------------------------------------------------
\* One step keeps what a round holds.
LEMMA RoundStep == TypeOK /\ RoundHolds /\ [Next]_vars => RoundHolds'
<1> SUFFICES ASSUME TypeOK, RoundHolds, [Next]_vars PROVE RoundHolds'
  OBVIOUS
<1>0. /\ PageCap \in Nat /\ Len(Extractors) \in Nat
      /\ \A i \in 1..Len(Extractors) : Extractors[i] \in Names
      /\ feed \in [Names -> Nat] /\ link \in [Names -> Nat] /\ got \in Nat
      /\ \A e \in Names : link[e] <= feed[e]
  BY NumbersOfTheCycle DEF TypeOK
<1>c. pc \in InRound => Cur \in Names
  BY <1>0 DEF RoundHolds, Cur
<1> USE <1>0 DEF RoundHolds, InRound, store, cycle, history, bounds
<1>1. CASE \E e \in Names : Publish(e)
  <2>1. PICK e \in Names : Publish(e)
    BY <1>1
  <2>2. feed' = [feed EXCEPT ![e] = feed[e] + 1]
    BY <2>1 DEF Publish
  <2>3. \A x \in Names : feed[x] <= feed'[x] /\ feed'[x] \in Nat
    BY <2>2
  <2>4. Cur' = Cur
    BY <2>1 DEF Publish, Cur
  <2> QED
    BY <1>c, <2>1, <2>3, <2>4 DEF Publish
<1>2. CASE Tick
  BY <1>2 DEF Tick, Cur
<1>3. CASE Start
  BY <1>3 DEF Start
<1>4. CASE Begin
  BY <1>4 DEF Begin
<1>5. CASE Fetch
  <2>1. at' \in 1..Len(Extractors) /\ Cur' \in Names
    BY <1>5 DEF Fetch, Remaining, Cur, TypeOK
  <2>2. recorder' = recorder /\ recorder = {} /\ vault' = vault
    BY <1>5 DEF Fetch
  <2>3. CASE pc' = "failed"
    BY <2>1, <2>2, <2>3
  <2>4. CASE pc' = "write"
    <3>1. got' = LeastOf(link[Cur'] + PageCap, feed[Cur']) /\ link' = link /\ feed' = feed
      BY <1>5, <2>4 DEF Fetch
    <3>2. link[Cur'] \in Nat /\ feed[Cur'] \in Nat /\ link[Cur'] <= feed[Cur']
      BY <2>1
    <3>3. link'[Cur'] <= got' /\ got' <= feed'[Cur']
      BY <3>1, <3>2 DEF LeastOf
    <3> QED
      BY <2>1, <2>2, <2>4, <3>3
  <2> QED
    BY <1>5, <2>3, <2>4 DEF Fetch
<1>6. CASE Write
  <2>1. UNCHANGED <<feed, link, at, got, Cur>>
    BY <1>6 DEF Write, Cur
  <2>2. recorder' \subseteq vault'
    BY <1>6 DEF Write
  <2>3. pc = "write" /\ pc' \in {"write", "commit", "failed"}
    BY <1>6 DEF Write
  <2>4. ASSUME pc' = "commit"
        PROVE  \A n \in (link[Cur] + 1)..got : <<Cur, n>> \in recorder'
    BY <1>6, <2>4 DEF Write, Unwritten
  <2> QED
    BY <2>1, <2>2, <2>3, <2>4
<1>7. CASE Commit
  BY <1>7 DEF Commit, Cur
<1>8. CASE EndExtractor
  BY <1>8 DEF EndExtractor
<1>9. CASE Index
  BY <1>9 DEF Index
<1>10. CASE WriteManifest \/ WritePointer
  BY <1>10 DEF WriteManifest, WritePointer, AfterManifest
<1>11. CASE Hook
  BY <1>11 DEF Hook
<1>12. CASE EndCycle \/ Crash
  BY <1>12 DEF EndCycle, Crash, Ended
<1>13. CASE Wake \/ Stop
  BY <1>13 DEF Wake, Stop
<1>14. CASE UNCHANGED vars
  BY <1>14 DEF vars, Cur
<1> QED
  BY <1>1, <1>2, <1>3, <1>4, <1>5, <1>6, <1>7, <1>8, <1>9, <1>10, <1>11, <1>12,
     <1>13, <1>14 DEF Next, Process

\* The link moves in Commit, past changes the round has written, and back to
\* none in Begin; nothing leaves the vault.
LEMMA SkipStep == TypeOK /\ RoundHolds /\ NothingSkipped /\ [Next]_vars => NothingSkipped'
<1> SUFFICES ASSUME TypeOK, RoundHolds, NothingSkipped, [Next]_vars
             PROVE  NothingSkipped'
  OBVIOUS
<1>0. link \in [Names -> Nat] /\ got \in Nat
  BY DEF TypeOK
<1>1. vault \subseteq vault'
  BY DEF Next, Process, Publish, Tick, Start, Begin, Fetch, Write, Commit, EndExtractor,
         Index, WriteManifest, WritePointer, Hook, EndCycle, Crash, Wake, Stop, Ended,
         vars, store
<1>2. CASE link' = link
  BY <1>1, <1>2 DEF NothingSkipped
<1>3. CASE Begin
  <2>1. link' = link \/ link' = [e \in Names |-> 0]
    BY <1>3 DEF Begin
  <2>2. ASSUME link' = [e \in Names |-> 0], NEW e \in Names
        PROVE  1..link'[e] = {}
    BY <2>2
  <2> QED
    BY <1>2, <2>1, <2>2 DEF NothingSkipped
<1>4. CASE Commit
  <2>1. link' = [link EXCEPT ![Cur] = got] /\ pc = "commit" /\ vault' = vault
    BY <1>4 DEF Commit, ResumeLink
  <2>2. ASSUME NEW e \in Names, NEW n \in 1..link'[e]
        PROVE  <<e, n>> \in vault
    <3>1. CASE n \in 1..link[e]
      BY <3>1 DEF NothingSkipped
    <3>2. CASE n \notin 1..link[e]
      <4>1. link[e] \in Nat /\ link'[e] \in Nat
        BY <1>0, <2>1
      <4>2. e = Cur /\ n \in (link[Cur] + 1)..got
        <5>1. e = Cur
          BY <1>0, <2>1, <3>2
        <5>2. link'[e] = got
          BY <1>0, <2>1, <5>1
        <5> QED
          BY <1>0, <3>2, <4>1, <5>1, <5>2
      <4> QED
        BY <2>1, <4>2 DEF RoundHolds
    <3> QED
      BY <3>1, <3>2
  <2> QED
    BY <2>1, <2>2 DEF NothingSkipped
<1> QED
  BY <1>2, <1>3, <1>4
     DEF Next, Process, Publish, Tick, Start, Fetch, Write, EndExtractor, Index,
         WriteManifest, WritePointer, Hook, EndCycle, Crash, Wake, Stop, vars, store

\* One step keeps what is on record of the cycle.
LEMMA CycleStep == RoundHolds /\ CycleHolds /\ [Next]_vars => CycleHolds'
<1> SUFFICES ASSUME RoundHolds, CycleHolds, [Next]_vars PROVE CycleHolds'
  OBVIOUS
<1> USE DEF CycleHolds, Recorded, OutOfCycle, store, cycle, history, bounds
<1>1. CASE WriteManifest
  <2>1. /\ pc' \in {"pointer", "prune"} \/ pc' = "pointer_again"
        /\ manifest' = Document /\ UNCHANGED <<results, outcomes>>
        /\ reported' = reported \cup Document.changes
    BY <1>1 DEF WriteManifest, AfterManifest
  <2>2. Document' = Document /\ Reported(results)' = Reported(results)
    BY <2>1 DEF Document, Reported
  <2>3. Document.changes = Reported(results)
    BY DEF Document
  <2> QED
    BY <2>1, <2>2, <2>3
<1>2. CASE WritePointer
  BY <1>2 DEF WritePointer, Reported
<1>3. CASE Hook
  BY <1>3 DEF Hook, Reported
<1>4. CASE EndCycle \/ Crash
  BY <1>4 DEF EndCycle, Crash, Ended
<1>5. CASE Begin \/ Start \/ Wake \/ Stop
  BY <1>5 DEF Begin, Start, Wake, Stop
<1>6. CASE Fetch \/ Write \/ Commit \/ EndExtractor \/ Index
  BY <1>6 DEF Fetch, Write, Commit, EndExtractor, Index
<1>7. CASE Tick \/ (\E e \in Names : Publish(e)) \/ UNCHANGED vars
  <2>1. UNCHANGED <<pc, results, reported, manifest, outcomes>>
    BY <1>7 DEF Tick, Publish, vars
  <2>2. Document' = Document /\ Reported(results)' = Reported(results)
    BY <2>1 DEF Document, Reported
  <2> QED
    BY <2>1, <2>2
<1> QED
  BY <1>1, <1>2, <1>3, <1>4, <1>5, <1>6, <1>7 DEF Next, Process

\* What is in the vault stays reported, in hand, or lost to a death: a round adds
\* to what it holds, its entry keeps all of that, and a cycle that ends has it
\* on record.
LEMMA ReportStep ==
    RoundHolds /\ CycleHolds /\ ReportedUnlessDied /\ [Next]_vars => ReportedUnlessDied'
<1> SUFFICES ASSUME RoundHolds, CycleHolds, ReportedUnlessDied, [Next]_vars
             PROVE  ReportedUnlessDied'
  OBVIOUS
<1> USE DEF ReportedUnlessDied, InHand, store, cycle, history, bounds
<1>1. CASE UNCHANGED <<vault, reported, results, recorder, lost>>
  BY <1>1 DEF Reported
<1>2. CASE Begin
  <2>1. results = {} /\ recorder = {} /\ UNCHANGED <<vault, reported, lost>>
    BY <1>2 DEF Begin, CycleHolds, OutOfCycle, RoundHolds, InRound
  <2>2. Reported(results) = {}
    BY <2>1 DEF Reported
  <2> QED
    BY <2>1, <2>2
<1>3. CASE Fetch
  BY <1>3 DEF Fetch, Reported, RoundHolds, InRound
<1>4. CASE Write
  <2>1. Reported(results)' = Reported(results)
    BY <1>4 DEF Write, Reported
  <2> QED
    BY <1>4, <2>1 DEF Write
<1>5. CASE EndExtractor
  <2>1. UNCHANGED <<vault, reported, lost>>
    BY <1>5 DEF EndExtractor
  <2>2. Reported(results) \cup recorder \subseteq Reported(results)'
    <3>1. PICK failed : results' = results \cup {Entry(failed)}
      BY <1>5 DEF EndExtractor
    <3>2. Entry(failed).changes = recorder
      BY DEF Entry
    <3> QED
      BY <3>1, <3>2 DEF Reported
  <2> QED
    BY <2>1, <2>2
<1>6. CASE WriteManifest
  <2>1. UNCHANGED <<vault, results, recorder, lost>> /\ reported \subseteq reported'
    BY <1>6 DEF WriteManifest
  <2>2. Reported(results)' = Reported(results)
    BY <2>1 DEF Reported
  <2> QED
    BY <2>1, <2>2
<1>7. CASE EndCycle
  <2>1. /\ Reported(results) \subseteq reported /\ recorder = {}
        /\ UNCHANGED <<vault, reported, lost>>
    BY <1>7 DEF EndCycle, CycleHolds, Recorded, RoundHolds, InRound
  <2> QED
    BY <2>1
<1>8. CASE Crash
  BY <1>8 DEF Crash
<1> QED
  BY <1>1, <1>2, <1>3, <1>4, <1>5, <1>6, <1>7, <1>8
     DEF Next, Process, Publish, Tick, Start, Commit, Index, WritePointer, Hook, Wake,
         Stop, vars

\* The hooks are reached from the pointer alone, both files hold the document
\* there, and a hook adds nothing but its own failure.
LEMMA HookStep ==
    CycleHolds /\ RecordBeforeHooks /\ [Next]_vars => RecordBeforeHooks'
<1> SUFFICES ASSUME CycleHolds, RecordBeforeHooks, [Next]_vars, pc' = "hook"
             PROVE  RecordBeforeHooks'
  BY DEF RecordBeforeHooks
<1>1. CASE WritePointer
  <2>1. /\ manifest' = Document /\ latest' = Document
        /\ UNCHANGED <<results, outcomes>>
    BY <1>1 DEF WritePointer, CycleHolds, cycle
  <2>2. Document' = Document /\ Reported(results)' = Document.changes
    BY <2>1 DEF Document, Reported
  <2> QED
    BY <2>1, <2>2 DEF RecordBeforeHooks
<1>2. CASE Hook
  <2>1. /\ pc = "hook" /\ UNCHANGED <<manifest, latest, results>>
        /\ outcomes' = outcomes \/ outcomes' = outcomes \cup {"hook"}
    BY <1>2 DEF Hook, store
  <2>2. Reported(results)' = Reported(results)
    BY <2>1 DEF Reported
  <2>3. Document.failures' \ {"hook"} = Document.failures \ {"hook"}
    BY <2>1 DEF Document
  <2> QED
    BY <2>1, <2>2, <2>3 DEF RecordBeforeHooks
<1>3. CASE Tick \/ (\E e \in Names : Publish(e)) \/ UNCHANGED vars
  <2>1. UNCHANGED <<pc, results, manifest, latest, outcomes>>
    BY <1>3 DEF Tick, Publish, vars, store, cycle
  <2>2. Document' = Document /\ Reported(results)' = Reported(results)
    BY <2>1 DEF Document, Reported
  <2> QED
    BY <2>1, <2>2 DEF RecordBeforeHooks
<1> QED
  BY <1>1, <1>2, <1>3
     DEF Next, Process, Begin, Fetch, Write, Commit, EndExtractor, Index, WriteManifest,
         AfterManifest, EndCycle, Crash, Wake, Stop, Start
-------------------------------------------------------------------------------
IInv == /\ TypeOK /\ RoundHolds /\ CycleHolds
        /\ NothingSkipped /\ ReportedUnlessDied /\ RecordBeforeHooks

\* The inductive invariant.
THEOREM CycleInvariant == Spec => []IInv
<1>1. Init => IInv
  <2> SUFFICES ASSUME Init PROVE IInv
    OBVIOUS
  <2>1. TypeOK
    BY NumbersOfTheCycle, NoDocumentHasItsType DEF Init, TypeOK, Points
  <2>2. RoundHolds /\ CycleHolds
    BY DEF Init, RoundHolds, InRound, CycleHolds, Recorded
  <2>3. NothingSkipped
    BY DEF Init, NothingSkipped
  <2>4. ReportedUnlessDied /\ RecordBeforeHooks
    BY DEF Init, ReportedUnlessDied, RecordBeforeHooks
  <2> QED
    BY <2>1, <2>2, <2>3, <2>4 DEF IInv
<1>2. IInv /\ [Next]_vars => IInv'
  BY TypeStep, RoundStep, SkipStep, CycleStep, ReportStep, HookStep DEF IInv
<1> QED
  BY <1>1, <1>2, PTL DEF Spec

\* The type invariant.
THEOREM CycleTypeCorrect == Spec => []TypeOK
<1>1. IInv => TypeOK
  BY DEF IInv
<1> QED
  BY <1>1, CycleInvariant, PTL

\* The delta link never runs ahead of the vault, whatever fails or dies, whatever
\* the page cap (cycle.py stores the link a round returns after its items).
THEOREM LinkBehindVault == Spec => []NothingSkipped
<1>1. IInv => NothingSkipped
  BY DEF IInv
<1> QED
  BY <1>1, CycleInvariant, PTL

\* Every write is reported by a manifest, or in the hands of the cycle at work,
\* or was lost to the death of the process: a failure loses none.
THEOREM WritesAreReported == Spec => []ReportedUnlessDied
<1>1. IInv => ReportedUnlessDied
  BY DEF IInv
<1> QED
  BY <1>1, CycleInvariant, PTL

\* No hook runs before the cycle's record is on disk, in both files.
THEOREM HooksFollowTheRecord == Spec => []RecordBeforeHooks
<1>1. IInv => RecordBeforeHooks
  BY DEF IInv
<1> QED
  BY <1>1, CycleInvariant, PTL
-------------------------------------------------------------------------------
\* Why no extractor is started twice in a tick: one that has been started has a
\* cursor of age 0, or is at work, or died with its process; --once runs what is due
\* or not, but ends the process.
StampedHolds ==
    /\ \A e \in Names : starts[e] \in {0, 1}
    /\ \A e \in Names :
          starts[e] = 1 => cursor[e].age = 0 \/ pc = "down" \/ (pc \in InRound /\ e = Cur)
    /\ pc \in {"extract"} \cup InRound => \A i \in Remaining : starts[Extractors[i]] = 0
    /\ pc = "top" /\ selection.once => \A e \in Names : starts[e] = 0
    /\ pc = "sleep" => ~selection.once

LEMMA StampedStep == TypeOK /\ RoundHolds /\ StampedHolds /\ [Next]_vars => StampedHolds'
<1> SUFFICES ASSUME TypeOK, RoundHolds, StampedHolds, [Next]_vars PROVE StampedHolds'
  OBVIOUS
<1>0. /\ Len(Extractors) \in Nat
      /\ \A i \in 1..Len(Extractors) : Extractors[i] \in Names
      /\ \A i, j \in 1..Len(Extractors) : Extractors[i] = Extractors[j] => i = j
      /\ \A e \in Names : Interval[e] \in Nat /\ Interval[e] >= 1 /\ e \in Units
      /\ "index" \notin Names /\ at \in Nat
      /\ starts \in [Names -> Nat] /\ DOMAIN cursor = Units
  BY NumbersOfTheCycle, CycleAssumption DEF TypeOK, CycleAssumption
<1>c. pc \in InRound => Cur \in Names
  BY <1>0 DEF RoundHolds, Cur
<1> USE <1>0 DEF StampedHolds, InRound, store, cycle, history, bounds
<1>1. CASE UNCHANGED <<starts, cursor, at, running, selection, pc>>
  BY <1>1 DEF Cur, Remaining
<1>2. CASE Tick
  <2>1. \A e \in Names : starts'[e] = 0
    BY <1>2 DEF Tick
  <2>2. UNCHANGED <<pc, selection, at, running>>
    BY <1>2 DEF Tick
  <2> QED
    BY <2>1, <2>2 DEF Remaining
<1>3. CASE Start
  BY <1>3 DEF Start
<1>4. CASE Begin
  <2>1. /\ pc = "top" /\ pc' = "extract" /\ at' = 0
        /\ UNCHANGED <<cursor, starts, selection>>
        /\ running' = IF selection.once THEN Units ELSE {u \in Units : Due(u)}
    BY <1>4 DEF Begin
  <2>2. ASSUME NEW i \in Remaining' PROVE starts[Extractors[i]] = 0
    <3>1. Extractors[i] \in Names /\ Extractors[i] \in running'
      BY <2>1 DEF Remaining
    <3>2. CASE selection.once
      BY <2>1, <3>1, <3>2
    <3>3. CASE ~selection.once
      <4>1. cursor[Extractors[i]].age >= Interval[Extractors[i]]
        BY <2>1, <3>1, <3>3 DEF Due
      <4>2. cursor[Extractors[i]].age # 0
        BY <3>1, <4>1
      <4> QED
        BY <2>1, <3>1, <4>2
    <3> QED
      BY <3>2, <3>3
  <2>3. \A e \in Names : starts'[e] = 1 => cursor'[e].age = 0
    BY <2>1
  <2>4. \A i \in Remaining' : starts'[Extractors[i]] = 0
    BY <2>1, <2>2
  <2> QED
    BY <2>1, <2>3, <2>4
<1>5. CASE Fetch
  <2>1. /\ pc = "extract" /\ pc' \in {"write", "failed"}
        /\ at' \in Remaining /\ Cur' = Extractors[at'] /\ Cur' \in Names
        /\ starts' = [starts EXCEPT ![Cur'] = starts[Cur'] + 1]
        /\ UNCHANGED <<cursor, selection, running>>
    BY <1>5 DEF Fetch, Remaining, Cur
  <2>2. starts[Cur'] = 0
    BY <2>1
  <2>3. \A e \in Names : starts'[e] = IF e = Cur' THEN 1 ELSE starts[e]
    BY <2>1, <2>2
  <2>4. ASSUME NEW i \in Remaining' PROVE starts'[Extractors[i]] = 0
    <3>1. i \in Remaining /\ i # at'
      BY <2>1 DEF Remaining
    <3>2. Extractors[i] # Cur' /\ Extractors[i] \in Names
      BY <2>1, <3>1 DEF Remaining
    <3> QED
      BY <2>1, <2>3, <3>1, <3>2
  <2>5. \A e \in Names : starts'[e] \in {0, 1}
    BY <2>3
  <2>6. \A e \in Names : starts'[e] = 1 => cursor'[e].age = 0 \/ e = Cur'
    BY <2>1, <2>3
  <2> QED
    BY <2>1, <2>4, <2>5, <2>6
<1>6. CASE Write \/ Commit
  BY <1>6 DEF Write, Commit, Cur, Remaining
<1>7. CASE EndExtractor
  <2>1. /\ pc \in InRound /\ pc' = "extract" /\ Cur \in Names
        /\ UNCHANGED <<starts, at, running, selection>>
    BY <1>7, <1>c DEF EndExtractor
  <2>2. /\ cursor'[Cur].age = 0
        /\ \A e \in Names : e # Cur => cursor'[e] = cursor[e]
    BY <1>7, <2>1 DEF EndExtractor, Succeeded, Failed
  <2>3. \A e \in Names : starts'[e] = 1 => cursor'[e].age = 0
    BY <2>1, <2>2
  <2> QED
    BY <2>1, <2>3 DEF Remaining
<1>8. CASE Index
  <2>1. /\ pc = "extract" /\ pc' = "manifest" /\ UNCHANGED <<starts, selection>>
        /\ \A e \in Names : cursor'[e] = cursor[e]
    BY <1>8 DEF Index, Succeeded, Failed
  <2> QED
    BY <2>1
<1>9. CASE WriteManifest \/ WritePointer \/ Hook
  <2>1. /\ pc \notin InRound \cup {"down"} /\ UNCHANGED <<starts, cursor, selection>>
        /\ pc' \notin {"extract", "top", "sleep"} \cup InRound
    BY <1>9 DEF WriteManifest, AfterManifest, WritePointer, Hook
  <2> QED
    BY <2>1
<1>10. CASE EndCycle \/ Stop \/ Wake
  BY <1>10 DEF EndCycle, Stop, Wake
<1>11. CASE Crash
  <2>1. pc' = "down" /\ UNCHANGED <<starts, selection>>
    BY <1>11 DEF Crash
  <2> QED
    BY <1>11, <2>1 DEF Crash
<1> QED
  BY <1>1, <1>2, <1>3, <1>4, <1>5, <1>6, <1>7, <1>8, <1>9, <1>10, <1>11
     DEF Next, Process, Publish, vars

\* A broken extractor does not hot-loop: with a failure streak or without, one
\* process starts no extractor twice in a tick.
THEOREM OncePerTick == Spec => []NotHotLooping
<1>1. Init => StampedHolds
  BY DEF Init, StampedHolds, InRound
<1>2. IInv /\ StampedHolds /\ [Next]_vars => StampedHolds'
  BY StampedStep DEF IInv
<1>3. StampedHolds => NotHotLooping
  BY DEF StampedHolds, NotHotLooping
<1> QED
  BY <1>1, <1>2, <1>3, CycleInvariant, PTL DEF Spec
===============================================================================
