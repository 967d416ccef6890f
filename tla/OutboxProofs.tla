----------------------------- MODULE OutboxProofs -----------------------------
(***************************************************************************)
(* Theorems about Outbox, for every set of outboxes and uuids, every         *)
(* authority, every handler and every bound.  The argument: TypeOK and       *)
(* PassInv are inductive together; NoIntentLost, the handler's guard and the *)
(* replay rule follow from them step by step; the one-draft rule needs       *)
(* DraftInv, and the two assumptions AtMostOneDraft is subject to.           *)
(***************************************************************************)
EXTENDS MCOutbox, FiniteSetTheorems, TLAPS

\* What one call can apply: a number of times, and never without a response
\* when no response is lost.
LEMMA CallResultType ==
    ASSUME NEW res \in CallResults(Attempts, Lost)
    PROVE  /\ res.end \in Endings /\ res.applied \in Nat
           /\ Lost = FALSE => /\ res.end = "ok" => res.applied = 1
                              /\ res.end # "ok" => res.applied = 0
<1>1. Attempts \in Nat \ {0} /\ Lost \in BOOLEAN
  BY OutboxAssumption
<1>2. CASE Lost = FALSE
  BY <1>1, <1>2 DEF CallResults, Endings
<1>3. CASE Lost = TRUE
  BY <1>1, <1>3 DEF CallResults, Endings
<1> QED
  BY <1>1, <1>2, <1>3

LEMMA CountType ==
    ASSUME NEW b \in Buckets, counts \in [Buckets -> Nat]
    PROVE  Count(b) \in [Buckets -> Nat]
BY DEF Count

\* The type invariant: every variable keeps its type in every step.
THEOREM TypeCorrect == Spec => []TypeOK
<1>1. Init => TypeOK
  BY OutboxAssumption DEF Init, TypeOK, NoCounts, FileOf, Steps, Reasons, Pairs
<1>2. TypeOK /\ [Next]_vars => TypeOK'
  <2> SUFFICES ASSUME TypeOK, [Next]_vars PROVE TypeOK'
    OBVIOUS
  <2>a. /\ MaxFaults \in Nat /\ MaxCrashes \in Nat /\ MaxSubmits \in Nat
        /\ Len(Listing) \in Nat /\ Listing \in [1..Len(Listing) -> Pairs]
        /\ \A o \in Outboxes : Programs[o] \subseteq Seq(Requests)
        /\ IsFiniteSet(Uuids)
    BY OutboxAssumption
  <2> USE DEF TypeOK, files, local, bounds, Steps, FileOf, Dirs
  <2>0. Box \in Outboxes /\ Uuid \in Uuids /\ Buckets # {}
    BY DEF Box, Uuid, Pairs, Buckets
  <2>1. ASSUME NEW p \in Pairs, Submit(p) PROVE TypeOK'
    BY <2>1, <2>a DEF Submit
  <2>2. CASE StartPush
    BY <2>2, <2>a DEF StartPush, NoCounts
  <2>3. CASE Pick
    <3>1. Count("replayed") \in [Buckets -> Nat]
      BY CountType DEF Buckets
    <3> QED
      BY <2>3, <2>a, <3>1 DEF Pick, Remaining
  <2>4. CASE EndPass
    <3>1. Cardinality({u \in Uuids : inflight[u] # "absent"}) \in Nat
      <4>1. IsFiniteSet({u \in Uuids : inflight[u] # "absent"})
        BY <2>a, FS_Subset
      <4> QED
        BY <4>1, FS_CardinalityType
    <3> QED
      BY <2>4, <3>1 DEF EndPass
  <2>5. CASE Claim
    <3>1. Count("contended") \in [Buckets -> Nat]
      BY CountType DEF Buckets
    <3> QED
      BY <2>5, <3>1 DEF Claim
  <2>6. CASE ClaimRead
    BY <2>0, <2>6 DEF ClaimRead
  <2>7. CASE ClaimWrite
    BY <2>7 DEF ClaimWrite
  <2>8. CASE ClaimDelete
    <3>1. Refusal(Box) # "none" => Refusal(Box) \in Reasons
      BY DEF Refusal, Reasons
    <3> QED
      BY <2>0, <2>8, <2>a, <3>1 DEF ClaimDelete, Fail, Reasons
  <2>9. CASE Refuse
    BY <2>9, <2>a DEF Refuse, Fail, Reasons
  <2>10. CASE Request
    <3>1. PICK res \in CallResults(Attempts, Lost) :
            /\ copies' = IF prog[step] = "create"
                         THEN [copies EXCEPT ![Uuid] = @ + res.applied]
                         ELSE copies
            /\ IF res.end = "ok"
               THEN UNCHANGED faults
               ELSE faults < MaxFaults /\ faults' = faults + 1
      BY <2>10 DEF Request
    <3>2. copies' \in [Uuids -> Nat]
      <4>1. res.applied \in Nat
        BY CallResultType
      <4> QED
        BY <2>0, <3>1, <4>1
    <3>3. faults' \in 0..MaxFaults
      BY <2>a, <3>1
    <3>4. pc' \in Steps /\ ending' \in Reasons /\ step' \in Nat
      BY <2>10 DEF Request, Fail, Reasons
    <3> QED
      BY <2>10, <3>2, <3>3, <3>4 DEF Request
  <2>11. CASE ArchiveIntent
    BY <2>0, <2>11 DEF ArchiveIntent, DirOf
  <2>12. CASE ArchiveReceipt
    BY <2>0, <2>12 DEF ArchiveReceipt, DirOf
  <2>13. CASE ArchiveClear
    <3>1. Count(BucketOf(ending)) \in [Buckets -> Nat]
      BY CountType DEF Buckets, BucketOf
    <3> QED
      BY <2>13, <3>1 DEF ArchiveClear
  <2>14. CASE ReleaseWrite
    BY <2>14 DEF ReleaseWrite
  <2>15. CASE ReleaseClear
    <3>1. Count("deferred") \in [Buckets -> Nat]
      BY CountType DEF Buckets
    <3> QED
      BY <2>15, <3>1 DEF ReleaseClear
  <2>16. CASE Crash
    <3>1. crashes' \in 0..MaxCrashes /\ pc' = "idle"
      BY <2>16, <2>a DEF Crash
    <3>2. pending' \in [Pairs -> {"absent", "whole", "torn"}]
      BY <2>16 DEF Crash
    <3>3. inflight' \in [Uuids -> FileOf]
      BY <2>16 DEF Crash
    <3>4. archive' \in [Dirs -> [Uuids -> FileOf]]
      <4>1. [archive EXCEPT ![DirOf(ending)][Uuid] = "torn"]
               \in [Dirs -> [Uuids -> FileOf]]
        BY <2>0 DEF DirOf
      <4> QED
        BY <2>16, <4>1 DEF Crash
    <3>5. receipt' \in [Dirs -> [Uuids -> Reasons \cup {"absent", "torn"}]]
      <4>1. [receipt EXCEPT ![DirOf(ending)][Uuid] = "torn"]
               \in [Dirs -> [Uuids -> Reasons \cup {"absent", "torn"}]]
        BY <2>0 DEF DirOf
      <4> QED
        BY <2>16, <4>1 DEF Crash
    <3>6. copies' \in [Uuids -> Nat]
      BY <2>16 DEF Crash
    <3> QED
      BY <2>16, <3>1, <3>2, <3>3, <3>4, <3>5, <3>6 DEF Crash
  <2>17. ASSUME NEW u \in Uuids, MoveBack(u) PROVE TypeOK'
    BY <2>17 DEF MoveBack
  <2>18. CASE UNCHANGED vars
    BY <2>18 DEF vars
  <2> QED
    BY <2>1, <2>2, <2>3, <2>4, <2>5, <2>6, <2>7, <2>8, <2>9, <2>10, <2>11,
       <2>12, <2>13, <2>14, <2>15, <2>16, <2>17, <2>18 DEF Next, Runner
<1> QED
  BY <1>1, <1>2, PTL DEF Spec

\* What the rest of the module takes from the assumption on the constants.
LEMMA Torn == "absent" \notin Outboxes /\ "torn" \notin Outboxes
BY OutboxAssumption

LEMMA HandlerFacts ==
    ASSUME NEW o \in Outboxes
    PROVE  /\ Refusal(o) = "none" => Authority[o] \in {"draft_only", "auto_send"}
           /\ \A s \in Programs[o] : s \in Seq(Requests) /\ 1 \in 1..Len(s)
<1>1. Authority[o] \in Authorities /\ Programs[o] \subseteq Seq(Requests) \ {<<>>}
  BY OutboxAssumption
<1>2. \A s \in Seq(Requests) : s # <<>> => 1 \in 1..Len(s)
  OBVIOUS
<1> QED
  BY <1>1, <1>2 DEF Refusal, Authorities

\* While the pass holds an intent, no file of that uuid is torn in any outbox:
\* clearing the in-flight file then takes nothing away from one.
LEMMA Untorn ==
    ASSUME TypeOK, PassInv, pc \in Holding, NEW p \in Pairs, p[2] = Uuid
    PROVE  pending[p] # "torn"
<1>1. inflight[Uuid] = Box /\ pending[cur] # "torn"
  BY DEF PassInv
<1>2. pending[p] = "torn" => p[1] = Box
  BY <1>1 DEF PassInv
<1>3. p[1] = Box => p = cur
  BY DEF TypeOK, Pairs, Box, Uuid
<1> QED
  BY <1>1, <1>2, <1>3

\* The invariant of the pass: the in-flight file is the intent in hand, no
\* archive knows it yet, and a torn file is always backed by a whole one.
THEOREM PassInvariant == Spec => []PassInv
<1>1. Init => PassInv
  BY DEF Init, PassInv, Pairs, Holding, Unsettled, Steps
<1>2. TypeOK /\ PassInv /\ [Next]_vars => PassInv'
  <2> SUFFICES ASSUME TypeOK, PassInv, [Next]_vars PROVE PassInv'
    OBVIOUS
  <2>0. /\ cur \in Pairs /\ cur = <<Box, Uuid>> /\ Box \in Outboxes /\ Uuid \in Uuids
        /\ pending \in [Pairs -> {"absent", "whole", "torn"}]
        /\ inflight \in [Uuids -> FileOf]
        /\ archive \in [Dirs -> [Uuids -> FileOf]]
        /\ pc \in Steps /\ DirOf(ending) \in Dirs
    BY DEF TypeOK, Box, Uuid, Pairs, DirOf, Dirs
  <2> USE Torn DEF PassInv, Holding, Unsettled, Steps, Settled, files, local, bounds
  <2>1. ASSUME NEW p \in Pairs, Submit(p) PROVE PassInv'
    BY <2>0, <2>1 DEF Submit, Box, Uuid
  <2>2. CASE StartPush
    BY <2>0, <2>2 DEF StartPush, Box, Uuid
  <2>3. CASE Pick
    BY <2>0, <2>3 DEF Pick, AlreadyDispatched, Uuid
  <2>4. CASE EndPass
    BY <2>0, <2>4 DEF EndPass, Box, Uuid
  <2>5. CASE Claim
    BY <2>0, <2>5 DEF Claim, ClaimRefused, Box, Uuid
  <2>6. CASE ClaimRead
    BY <2>0, <2>6 DEF ClaimRead, Box, Uuid
  <2>7. CASE ClaimWrite
    BY <2>0, <2>7 DEF ClaimWrite, Box, Uuid, Pairs
  <2>8. CASE ClaimDelete
    <3>1. \A p \in Pairs : pending'[p] = "torn" => inflight'[p[2]] = p[1]
      BY <2>0, <2>8 DEF ClaimDelete
    <3>2. /\ UNCHANGED <<inflight, archive, cur, held>>
          /\ inflight[Uuid] = Box /\ held = Box /\ ~Settled(Uuid)
      BY <2>8 DEF ClaimDelete
    <3>3. pc' \in {"archive_intent", "execute"}
      BY <2>8 DEF ClaimDelete, Fail
    <3>4. pc' = "execute" => /\ Refusal(Box) = "none"
                             /\ prog' \in Programs[Box] /\ step' = 1
      BY <2>8 DEF ClaimDelete, Fail
    <3>5. pc' = "execute" => /\ Authority[Box] \in {"draft_only", "auto_send"}
                             /\ prog' \in Programs[Box] /\ step' \in 1..Len(prog')
      BY <2>0, <3>4, HandlerFacts
    <3>6. pending'[cur] # "torn"
      BY <2>0, <2>8 DEF ClaimDelete
    <3>7. Box' = Box /\ Uuid' = Uuid
      BY <3>2 DEF Box, Uuid
    <3> QED
      BY <2>0, <3>1, <3>2, <3>3, <3>5, <3>6, <3>7
  <2>9. CASE Refuse
    BY <2>0, <2>9 DEF Refuse, Fail, Box, Uuid
  <2>10. CASE Request
    BY <2>0, <2>10 DEF Request, Fail, Box, Uuid
  <2>11. CASE ArchiveIntent
    BY <2>0, <2>11 DEF ArchiveIntent, Box, Uuid, Dirs
  <2>12. CASE ArchiveReceipt
    BY <2>0, <2>12 DEF ArchiveReceipt, Box, Uuid
  <2>13. CASE ArchiveClear
    BY <2>0, <2>13, Untorn DEF ArchiveClear, Box, Uuid
  <2>14. CASE ReleaseWrite
    BY <2>0, <2>14 DEF ReleaseWrite, Box, Uuid
  <2>15. CASE ReleaseClear
    BY <2>0, <2>15, Untorn DEF ReleaseClear, Box, Uuid
  <2>16. CASE Crash
    <3>1. \A p \in Pairs : pending'[p] = "torn" => inflight'[p[2]] = p[1]
      BY <2>0, <2>16 DEF Crash, Pairs
    <3> QED
      BY <2>16, <3>1 DEF Crash
  <2>17. ASSUME NEW u \in Uuids, MoveBack(u) PROVE PassInv'
    BY <2>0, <2>17 DEF MoveBack, FileOf, Pairs
  <2>18. CASE UNCHANGED vars
    BY <2>18 DEF vars, Box, Uuid
  <2> QED
    BY <2>1, <2>2, <2>3, <2>4, <2>5, <2>6, <2>7, <2>8, <2>9, <2>10, <2>11,
       <2>12, <2>13, <2>14, <2>15, <2>16, <2>17, <2>18 DEF Next, Runner
<1> QED
  BY <1>1, <1>2, TypeCorrect, PTL DEF Spec

\* NoIntentLost: whatever a death interrupts, the bytes of a submitted intent
\* are whole in its outbox, in flight or in an archive.
THEOREM IntentsSurvive == Spec => []NoIntentLost
<1>1. Init => NoIntentLost
  BY DEF Init, NoIntentLost
<1>2. TypeOK /\ PassInv /\ NoIntentLost /\ [Next]_vars => NoIntentLost'
  <2> SUFFICES ASSUME TypeOK, PassInv, NoIntentLost, [Next]_vars,
                      NEW p \in submitted'
               PROVE  Kept(p)'
    BY DEF NoIntentLost
  <2>0. /\ cur \in Pairs /\ cur = <<Box, Uuid>> /\ Box \in Outboxes /\ Uuid \in Uuids
        /\ pending \in [Pairs -> {"absent", "whole", "torn"}]
        /\ inflight \in [Uuids -> FileOf]
        /\ archive \in [Dirs -> [Uuids -> FileOf]]
        /\ pc \in Steps /\ DirOf(ending) \in Dirs
        /\ submitted \subseteq Pairs
    BY DEF TypeOK, Box, Uuid, Pairs, DirOf, Dirs
  <2>a. p \in submitted => Kept(p)
    BY DEF NoIntentLost
  <2>b. p \in Pairs => p[1] \in Outboxes /\ p[2] \in Uuids /\ p = <<p[1], p[2]>>
    BY DEF Pairs
  <2> USE Torn DEF files, local, bounds, Kept
  <2>1. ASSUME NEW q \in Pairs, Submit(q) PROVE Kept(p)'
    BY <2>0, <2>1, <2>a DEF Submit
  <2>2. CASE StartPush \/ Pick \/ EndPass \/ Claim \/ ClaimRead \/ Refuse
             \/ Request \/ ArchiveReceipt \/ UNCHANGED vars
    BY <2>2, <2>a DEF StartPush, Pick, EndPass, Claim, ClaimRead, Refuse, Request,
                      ArchiveReceipt, vars
  <2>3. CASE ClaimWrite
    BY <2>0, <2>3, <2>a, <2>b DEF ClaimWrite, PassInv
  <2>4. CASE ClaimDelete
    BY <2>0, <2>4, <2>a, <2>b DEF ClaimDelete, PassInv, Holding
  <2>5. CASE ArchiveIntent
    BY <2>0, <2>5, <2>a, <2>b DEF ArchiveIntent, PassInv, Settled, Unsettled, Steps
  <2>6. CASE ArchiveClear
    BY <2>0, <2>6, <2>a, <2>b DEF ArchiveClear, PassInv, Holding
  <2>7. CASE ReleaseWrite
    BY <2>0, <2>7, <2>a, <2>b DEF ReleaseWrite, PassInv, Holding
  <2>8. CASE ReleaseClear
    BY <2>0, <2>8, <2>a, <2>b DEF ReleaseClear, PassInv, Holding
  <2>9. CASE Crash
    <3>1. p \in submitted /\ p \in Pairs
      BY <2>0, <2>9 DEF Crash
    <3>2. CASE UNCHANGED files
      BY <2>a, <3>1, <3>2
    <3>3. CASE /\ pc = "claim_write"
               /\ inflight' = [inflight EXCEPT ![Uuid] = "torn"]
               /\ UNCHANGED <<pending, archive, receipt, copies>>
      BY <2>0, <2>a, <2>b, <3>1, <3>3 DEF PassInv
    <3>4. CASE /\ pc = "archive_intent"
               /\ archive' = [archive EXCEPT ![DirOf(ending)][Uuid] = "torn"]
               /\ UNCHANGED <<pending, inflight, receipt, copies>>
      BY <2>0, <2>a, <2>b, <3>1, <3>4 DEF PassInv, Settled, Unsettled, Steps
    <3>5. CASE UNCHANGED <<pending, inflight, archive, copies>>
      BY <2>a, <3>1, <3>5
    <3>6. CASE /\ pc = "release_write"
               /\ pending' = [pending EXCEPT ![cur] = "torn"]
               /\ UNCHANGED <<inflight, archive, receipt, copies>>
      BY <2>0, <2>a, <2>b, <3>1, <3>6 DEF PassInv, Holding
    <3> QED
      BY <2>9, <3>2, <3>3, <3>4, <3>5, <3>6 DEF Crash
  <2>10. ASSUME NEW u \in Uuids, MoveBack(u) PROVE Kept(p)'
    <3>1. p \in submitted /\ p \in Pairs /\ p[2] \in Uuids
      BY <2>0, <2>b, <2>10 DEF MoveBack
    <3>2. CASE inflight[u] = "torn"
      BY <2>0, <2>10, <2>a, <2>b, <3>1, <3>2 DEF MoveBack
    <3>3. CASE inflight[u] # "torn"
      <4>1. pending' = [pending EXCEPT ![<<inflight[u], u>>] = "whole"]
        BY <2>10, <3>3 DEF MoveBack
      <4>2. <<inflight[u], u>> \in Pairs
        BY <2>0, <2>10, <3>3 DEF MoveBack, FileOf, Pairs
      <4> QED
        BY <2>0, <2>10, <2>a, <2>b, <3>1, <4>1, <4>2 DEF MoveBack
    <3> QED
      BY <3>2, <3>3
  <2> QED
    BY <2>1, <2>2, <2>3, <2>4, <2>5, <2>6, <2>7, <2>8, <2>9, <2>10 DEF Next, Runner
<1> QED
  BY <1>1, <1>2, TypeCorrect, PassInvariant, PTL DEF Spec

\* DispatchesOwnIntent: a handler runs only on the whole intent of the outbox
\* whose authority let it through.
THEOREM AuthorityHolds == Spec => []DispatchesOwnIntent
<1>1. PassInv => DispatchesOwnIntent
  BY DEF PassInv, DispatchesOwnIntent, Holding
<1> QED
  BY <1>1, PassInvariant, PTL

\* NeverDispatchedTwice: what an archive holds, and what Graph made for that
\* uuid, no later step changes.
THEOREM SettledForGood == Spec => NeverDispatchedTwice
<1>1. TypeOK /\ PassInv /\ [Next]_vars =>
        [\A u \in Uuids : Settled(u) =>
            /\ copies'[u] = copies[u]
            /\ \A d \in Dirs : archive'[d][u] = archive[d][u]]_vars
  <2> SUFFICES ASSUME TypeOK, PassInv, [Next]_vars, NEW u \in Uuids, Settled(u)
               PROVE  /\ copies'[u] = copies[u]
                      /\ \A d \in Dirs : archive'[d][u] = archive[d][u]
    OBVIOUS
  <2>0. /\ Uuid \in Uuids /\ DirOf(ending) \in Dirs
        /\ copies \in [Uuids -> Nat] /\ archive \in [Dirs -> [Uuids -> FileOf]]
    BY DEF TypeOK, Uuid, Pairs, DirOf, Dirs
  <2>1. pc \in {"execute", "archive_intent"} => u # Uuid
    BY DEF PassInv, Unsettled, Steps
  <2> USE DEF files, local, bounds
  <2>2. CASE Request
    BY <2>0, <2>1, <2>2 DEF Request
  <2>3. CASE ArchiveIntent
    BY <2>0, <2>1, <2>3 DEF ArchiveIntent
  <2>4. CASE Crash
    BY <2>0, <2>1, <2>4 DEF Crash
  <2>5. CASE UNCHANGED <<archive, copies>>
    BY <2>5
  <2> QED
    BY <2>2, <2>3, <2>4, <2>5
       DEF Next, Runner, StartPush, Pick, EndPass, Claim, ClaimRead, ClaimWrite,
           ClaimDelete, Refuse, ArchiveReceipt, ArchiveClear, ReleaseWrite,
           ReleaseClear, Submit, MoveBack, vars
<1> QED
  BY <1>1, TypeCorrect, PassInvariant, PTL DEF Spec, NeverDispatchedTwice

\* The conditions of the one-draft rule: no response is lost, and once a
\* handler has created something it only attaches.  A reply breaks the second
\* (run outbox_reply), a read timeout the first.
OnlyAttachesAfter ==
    \A o \in Outboxes : \A s \in Programs[o] : \A i, j \in 1..Len(s) :
        i < j /\ s[i] = "create" => s[j] = "attach"

\* Before a request that does not attach, the handler has created nothing.
LEMMA NothingCreatedYet ==
    ASSUME OnlyAttachesAfter, TypeOK, PassInv, DraftInv,
           pc = "execute", prog[step] # "attach"
    PROVE  copies[Uuid] = 0
<1>1. Box \in Outboxes /\ prog \in Programs[Box] /\ step \in 1..Len(prog)
  BY DEF PassInv, TypeOK, Box, Pairs
<1>2. Len(prog) \in Nat
  BY DEF TypeOK
<1>3. SUFFICES ASSUME NEW i \in 1..(step - 1), prog[i] = "create" PROVE FALSE
  BY DEF DraftInv
<1>4. i \in 1..Len(prog) /\ i < step
  BY <1>1, <1>2
<1> QED
  BY <1>1, <1>3, <1>4 DEF OnlyAttachesAfter

\* DraftInv, from which AtMostOneDraft and DeferredSentNothing follow.
LEMMA DraftInvariant ==
    ASSUME Lost = FALSE, OnlyAttachesAfter
    PROVE  Spec => []DraftInv
<1>1. Init => DraftInv
  BY DEF Init, DraftInv, AtMostOneDraft, DeferredSentNothing, Pairs
<1>2. TypeOK /\ PassInv /\ DraftInv /\ [Next]_vars => DraftInv'
  <2> SUFFICES ASSUME TypeOK, PassInv, DraftInv, [Next]_vars PROVE DraftInv'
    OBVIOUS
  <2>0. /\ cur = <<Box, Uuid>> /\ Box \in Outboxes /\ Uuid \in Uuids
        /\ copies \in [Uuids -> Nat]
        /\ inflight \in [Uuids -> FileOf]
        /\ archive \in [Dirs -> [Uuids -> FileOf]]
        /\ pc \in Steps /\ DirOf(ending) \in Dirs /\ step \in Nat
    BY DEF TypeOK, Box, Uuid, Pairs, DirOf, Dirs
  <2>a. pc \in Holding => inflight[Uuid] = Box /\ held = Box
    BY DEF PassInv
  <2>b. pc = "claim_write" => inflight[Uuid] = "absent" /\ ~Settled(Uuid) /\ held = Box
    BY DEF PassInv, Unsettled, Steps
  <2> USE Torn DEF DraftInv, AtMostOneDraft, DeferredSentNothing, Settled,
                   files, local, bounds, Steps
  <2>1. CASE StartPush \/ Pick \/ EndPass \/ Claim \/ ClaimRead
    BY <2>0, <2>1 DEF StartPush, Pick, EndPass, Claim, ClaimRead, Uuid
  <2>2. ASSUME NEW p \in Pairs, Submit(p) PROVE DraftInv'
    BY <2>0, <2>2 DEF Submit, Uuid
  <2>3. CASE ClaimWrite
    BY <2>0, <2>3, <2>b DEF ClaimWrite, Uuid
  <2>4. CASE ClaimDelete
    BY <2>0, <2>4 DEF ClaimDelete, Fail, Uuid
  <2>5. CASE Refuse
    BY <2>0, <2>5 DEF Refuse, Fail, Uuid
  <2>6. CASE Request
    <3>0. PICK res \in CallResults(Attempts, Lost) :
            /\ copies' = IF prog[step] = "create"
                         THEN [copies EXCEPT ![Uuid] = @ + res.applied]
                         ELSE copies
            /\ CASE res.end = "ok" /\ step < Len(prog) ->
                      step' = step + 1 /\ UNCHANGED <<pc, ending>>
                 [] res.end = "ok" /\ step = Len(prog) ->
                      Fail("dispatched") /\ UNCHANGED step
                 [] res.end = "conflict" ->
                      Fail("etag_conflict") /\ UNCHANGED step
                 [] Released(res) ->
                      pc' = "release_write" /\ UNCHANGED <<step, ending>>
                 [] OTHER -> Fail("graph_error") /\ UNCHANGED step
      BY <2>6 DEF Request
    <3>1. /\ pc = "execute" /\ step \in 1..Len(prog) /\ inflight[Uuid] = Box
          /\ prog \in Programs[Box]
      BY <2>6, <2>a DEF Request, PassInv, Holding
    <3>2. /\ res.end \in Endings /\ res.applied \in Nat
          /\ res.end = "ok" => res.applied = 1
          /\ res.end # "ok" => res.applied = 0
      BY CallResultType
    <3>3. Len(prog) \in Nat
      <4>1. prog \in Seq(Requests)
        BY DEF TypeOK
      <4> QED
        BY <4>1
    <3>4. prog[step] # "attach" => copies[Uuid] = 0
      BY <3>1, NothingCreatedYet
    <3>5. UNCHANGED <<pending, inflight, archive, cur, held, prog>>
      BY <2>6 DEF Request
    <3>6. copies' \in [Uuids -> Nat] /\ \A u \in Uuids : copies'[u] <= 1
      BY <2>0, <3>0, <3>2, <3>4
    <3>7. \A u \in Uuids \ {Uuid} : copies'[u] = copies[u]
      BY <2>0, <3>0
    <3>8. copies'[Uuid] = 0 \/ prog[step] = "create" \/ copies'[Uuid] = copies[Uuid]
      BY <2>0, <3>0
    <3>9. Uuid' = Uuid
      BY <3>5 DEF Uuid
    <3>10. pc' = "execute" => step' = step + 1
      BY <3>0, <3>1 DEF Fail
    <3>11. pc' = "release_write" => copies'[Uuid] = 0
      BY <2>0, <3>0, <3>1, <3>2, <3>4 DEF Fail, Released
    <3>12. pc' \in {"execute", "archive_intent", "release_write"}
      BY <3>0, <3>1 DEF Fail
    <3>13. pc' = "execute" =>
             copies'[Uuid] = 0 \/ \E i \in 1..(step' - 1) : prog'[i] = "create"
      BY <2>0, <3>1, <3>5, <3>8, <3>10
    <3>14. \A u \in Uuids : ~Settled(u)' /\ inflight'[u] \in {"absent", "torn"}
              => copies'[u] = 0
      BY <2>0, <3>1, <3>5, <3>7
    <3> QED
      BY <3>6, <3>9, <3>11, <3>12, <3>13, <3>14
  <2>7. CASE ArchiveIntent
    BY <2>0, <2>7, <2>a DEF ArchiveIntent, Uuid, Holding
  <2>8. CASE ArchiveReceipt
    BY <2>0, <2>8 DEF ArchiveReceipt, Uuid
  <2>9. CASE ArchiveClear
    <3>1. Settled(Uuid)
      BY <2>0, <2>9 DEF ArchiveClear, PassInv
    <3> QED
      BY <2>0, <2>9, <3>1 DEF ArchiveClear, Uuid
  <2>10. CASE ReleaseWrite \/ ReleaseClear
    BY <2>0, <2>10 DEF ReleaseWrite, ReleaseClear, Uuid
  <2>11. CASE Crash
    <3>1. pc = "execute" /\ prog[step] = "create" => copies[Uuid] = 0
      BY NothingCreatedYet
    <3>2. pc' = "idle" /\ UNCHANGED cur
      BY <2>11 DEF Crash
    <3>3. CASE UNCHANGED <<inflight, archive, copies>>
      BY <3>2, <3>3
    <3>4. CASE /\ pc = "claim_write"
               /\ inflight' = [inflight EXCEPT ![Uuid] = "torn"]
               /\ UNCHANGED <<archive, copies>>
      BY <2>0, <2>b, <3>2, <3>4
    <3>5. CASE /\ pc = "archive_intent"
               /\ archive' = [archive EXCEPT ![DirOf(ending)][Uuid] = "torn"]
               /\ UNCHANGED <<inflight, copies>>
      BY <2>0, <2>a, <3>2, <3>5
    <3>6. CASE /\ pc = "execute" /\ prog[step] = "create"
               /\ copies' = [copies EXCEPT ![Uuid] = @ + 1]
               /\ UNCHANGED <<inflight, archive>>
      BY <2>0, <2>a, <3>1, <3>2, <3>6 DEF Holding
    <3> QED
      BY <2>11, <3>3, <3>4, <3>5, <3>6 DEF Crash
  <2>12. ASSUME NEW u \in Uuids, MoveBack(u) PROVE DraftInv'
    BY <2>0, <2>12 DEF MoveBack, Uuid
  <2>13. CASE UNCHANGED vars
    BY <2>13 DEF vars, Uuid
  <2> QED
    BY <2>1, <2>2, <2>3, <2>4, <2>5, <2>6, <2>7, <2>8, <2>9, <2>10, <2>11,
       <2>12, <2>13 DEF Next, Runner
<1> QED
  BY <1>1, <1>2, TypeCorrect, PassInvariant, PTL DEF Spec

\* AtMostOneDraft: under the two conditions Graph makes at most one draft or
\* post for a uuid, through every crash, retry, resubmission and operator.
THEOREM OneDraft ==
    ASSUME Lost = FALSE, OnlyAttachesAfter
    PROVE  Spec => []AtMostOneDraft
<1>1. DraftInv => AtMostOneDraft
  BY DEF DraftInv
<1> QED
  BY <1>1, DraftInvariant, PTL

\* DeferredSentNothing: under the same conditions an intent that goes back to
\* its outbox has sent nothing.
THEOREM DeferralIsClean ==
    ASSUME Lost = FALSE, OnlyAttachesAfter
    PROVE  Spec => []DeferredSentNothing
<1>1. DraftInv => DeferredSentNothing
  BY DEF DraftInv
<1> QED
  BY <1>1, DraftInvariant, PTL

\* Every step of the pass is a step of the ledger or changes nothing in it.
LEMMA StepImplementsLedger ==
    ASSUME Lost = FALSE, OnlyAttachesAfter, TypeOK, PassInv, DraftInv, [Next]_vars
    PROVE  [Ledger!Next]_<<[u \in Uuids |-> StatusOf(u)], copies>>
<1> DEFINE st == [u \in Uuids |-> StatusOf(u)]
<1>0. /\ cur = <<Box, Uuid>> /\ Box \in Outboxes /\ Uuid \in Uuids
      /\ copies \in [Uuids -> Nat]
      /\ inflight \in [Uuids -> FileOf]
      /\ archive \in [Dirs -> [Uuids -> FileOf]]
      /\ pc \in Steps /\ DirOf(ending) \in Dirs
  BY DEF TypeOK, Box, Uuid, Pairs, DirOf, Dirs
<1>a. pc \in Holding => inflight[Uuid] = Box /\ Box # "absent"
  BY <1>0, Torn DEF PassInv
<1>b. pc \in Unsettled => ~Settled(Uuid)
  BY DEF PassInv
<1>c. \A u \in Uuids : ~Settled(u) =>
        StatusOf(u) = IF inflight[u] # "absent" THEN "claimed" ELSE "open"
  BY DEF Settled, StatusOf, Dirs
<1>d. \A u \in Uuids : Settled(u) => StatusOf(u) \in {"dispatched", "failed"}
  BY DEF Settled, StatusOf, Dirs
<1> USE DEF files, local, bounds
<1>1. CASE UNCHANGED <<inflight, archive, copies>>
  BY <1>1 DEF StatusOf
<1>2. ASSUME NEW new, new # "absent", pc = "claim_write",
             inflight' = [inflight EXCEPT ![Uuid] = new], UNCHANGED <<archive, copies>>
      PROVE  Ledger!Take(Uuid)
  <2>1. inflight[Uuid] = "absent" /\ ~Settled(Uuid)
    BY <1>2 DEF PassInv, Unsettled, Steps
  <2>2. st[Uuid] = "open"
    BY <1>0, <1>c, <2>1
  <2>3. \A u \in Uuids : StatusOf(u)' = IF u = Uuid THEN "claimed" ELSE StatusOf(u)
    BY <1>0, <1>2, <2>1 DEF StatusOf, Settled, Dirs
  <2>4. st' = [st EXCEPT ![Uuid] = "claimed"]
    BY <1>0, <2>3
  <2> QED
    BY <1>2, <2>2, <2>4 DEF Ledger!Take
<1>3. ASSUME NEW new, new # "absent", pc = "archive_intent",
             archive' = [archive EXCEPT ![DirOf(ending)][Uuid] = new],
             UNCHANGED <<inflight, copies>>
      PROVE  Ledger!Settle(Uuid)
  <2>1. ~Settled(Uuid) /\ inflight[Uuid] # "absent"
    BY <1>3, <1>a, <1>b DEF Unsettled, Steps, Holding
  <2>2. st[Uuid] = "claimed"
    BY <1>0, <1>c, <2>1
  <2>3. PICK end \in {"dispatched", "failed"} :
          \A u \in Uuids : StatusOf(u)' = IF u = Uuid THEN end ELSE StatusOf(u)
    <3>1. CASE DirOf(ending) = "processed"
      BY <1>0, <1>3, <3>1 DEF StatusOf, Dirs
    <3>2. CASE DirOf(ending) = "failed"
      BY <1>0, <1>3, <2>1, <3>2 DEF StatusOf, Settled, Dirs
    <3> QED
      BY <1>0, <3>1, <3>2 DEF Dirs
  <2>4. st' = [st EXCEPT ![Uuid] = end]
    BY <1>0, <2>3
  <2> QED
    BY <1>3, <2>2, <2>4 DEF Ledger!Settle
<1>4. ASSUME NEW u \in Uuids, inflight[u] # "absent", copies[u] = 0,
             inflight' = [inflight EXCEPT ![u] = "absent"], UNCHANGED <<archive, copies>>
      PROVE  Ledger!GiveBack(u) \/ UNCHANGED <<st, copies>>
  <2>1. CASE Settled(u)
    <3>1. \A v \in Uuids : StatusOf(v)' = StatusOf(v)
      BY <1>0, <1>4, <2>1 DEF StatusOf, Settled, Dirs
    <3> QED
      BY <1>4, <3>1
  <2>2. CASE ~Settled(u)
    <3>1. st[u] = "claimed"
      BY <1>4, <1>c, <2>2
    <3>2. \A v \in Uuids : StatusOf(v)' = IF v = u THEN "open" ELSE StatusOf(v)
      BY <1>0, <1>4, <2>2 DEF StatusOf, Settled, Dirs
    <3>3. st' = [st EXCEPT ![u] = "open"]
      BY <3>2
    <3> QED
      BY <1>4, <3>1, <3>3 DEF Ledger!GiveBack
  <2> QED
    BY <2>1, <2>2
<1>5. ASSUME pc = "execute", copies[Uuid] = 0,
             copies' = [copies EXCEPT ![Uuid] = 1], UNCHANGED <<inflight, archive>>
      PROVE  Ledger!Make(Uuid)
  <2>1. st[Uuid] = "claimed"
    BY <1>0, <1>5, <1>a, <1>b, <1>c DEF Holding, Unsettled, Steps
  <2>2. UNCHANGED st
    BY <1>5 DEF StatusOf
  <2> QED
    BY <1>5, <2>1, <2>2 DEF Ledger!Make
<1>6. CASE ClaimWrite
  <2>1. held # "absent"
    BY <1>0, <1>6, Torn DEF ClaimWrite, PassInv
  <2> QED
    BY <1>0, <1>2, <1>6, <2>1 DEF ClaimWrite, Ledger!Next
<1>7. CASE Request
  <2>1. PICK res \in CallResults(Attempts, Lost) :
          copies' = IF prog[step] = "create"
                    THEN [copies EXCEPT ![Uuid] = @ + res.applied]
                    ELSE copies
    BY <1>7 DEF Request
  <2>2. res.applied \in {0, 1}
    BY CallResultType
  <2>3. prog[step] = "create" => copies[Uuid] = 0
    BY <1>7, NothingCreatedYet DEF Request
  <2>4. UNCHANGED <<inflight, archive>> /\ pc = "execute"
    BY <1>7 DEF Request
  <2>5. \/ copies' = copies
        \/ copies[Uuid] = 0 /\ copies' = [copies EXCEPT ![Uuid] = 1]
    <3>1. CASE prog[step] = "create" /\ res.applied = 1
      BY <1>0, <2>1, <2>3, <3>1
    <3>2. CASE prog[step] = "create" /\ res.applied = 0
      <4>1. copies' = [copies EXCEPT ![Uuid] = copies[Uuid]]
        BY <1>0, <2>1, <2>3, <3>2
      <4> QED
        BY <1>0, <4>1
    <3>3. CASE prog[step] # "create"
      BY <2>1, <3>3
    <3> QED
      BY <2>2, <3>1, <3>2, <3>3
  <2> QED
    BY <1>0, <1>1, <1>5, <2>4, <2>5 DEF Ledger!Next
<1>8. CASE ArchiveIntent
  BY <1>0, <1>3, <1>8, <1>a DEF ArchiveIntent, Holding, Ledger!Next
<1>9. CASE ArchiveClear
  <2>1. Settled(Uuid) /\ UNCHANGED <<archive, copies>>
        /\ inflight' = [inflight EXCEPT ![Uuid] = "absent"]
    BY <1>0, <1>9, <1>a DEF ArchiveClear, PassInv, Settled, Holding
  <2>2. \A v \in Uuids : StatusOf(v)' = StatusOf(v)
    BY <1>0, <2>1 DEF StatusOf, Settled, Dirs
  <2> QED
    BY <2>1, <2>2
<1>10. CASE ReleaseClear
  <2>1. copies[Uuid] = 0 /\ inflight[Uuid] # "absent"
    BY <1>10, <1>a DEF ReleaseClear, DraftInv, DeferredSentNothing, Holding
  <2> QED
    BY <1>0, <1>4, <1>10, <2>1 DEF ReleaseClear, Ledger!Next
<1>11. CASE Crash
  <2>1. pc = "execute" /\ prog[step] = "create" => copies[Uuid] = 0
    BY NothingCreatedYet
  <2>2. CASE pc = "claim_write" /\ UNCHANGED <<archive, copies>>
             /\ inflight' = [inflight EXCEPT ![Uuid] = "torn"]
    BY <1>0, <1>2, <2>2 DEF Ledger!Next
  <2>3. CASE pc = "archive_intent" /\ UNCHANGED <<inflight, copies>>
             /\ archive' = [archive EXCEPT ![DirOf(ending)][Uuid] = "torn"]
    BY <1>0, <1>3, <2>3 DEF Ledger!Next
  <2>4. CASE pc = "execute" /\ prog[step] = "create" /\ UNCHANGED <<inflight, archive>>
             /\ copies' = [copies EXCEPT ![Uuid] = @ + 1]
    BY <1>0, <1>5, <2>1, <2>4 DEF Ledger!Next
  <2> QED
    BY <1>1, <1>11, <2>2, <2>3, <2>4 DEF Crash
<1>12. ASSUME NEW u \in Uuids, MoveBack(u)
       PROVE  [Ledger!Next]_<<st, copies>>
  BY <1>4, <1>12 DEF MoveBack, Ledger!Next
<1> QED
  BY <1>1, <1>6, <1>7, <1>8, <1>9, <1>10, <1>11, <1>12
     DEF Next, Runner, StartPush, Pick, EndPass, Claim, ClaimRead, ClaimDelete,
         Refuse, ArchiveReceipt, ReleaseWrite, Submit, vars

\* ImplementsLedger: under the two conditions the outbox, with its seven file
\* operations per intent, its deaths and its operator, implements the ledger.
THEOREM OutboxImplementsLedger ==
    ASSUME Lost = FALSE, OnlyAttachesAfter
    PROVE  Spec => ImplementsLedger
<1>1. Init => Ledger!Init
  BY DEF Init, Ledger!Init, StatusOf, Dirs
<1>2. TypeOK /\ PassInv /\ DraftInv /\ [Next]_vars
        => [Ledger!Next]_<<[u \in Uuids |-> StatusOf(u)], copies>>
  BY StepImplementsLedger
<1> QED
  BY <1>1, <1>2, TypeCorrect, PassInvariant, DraftInvariant, PTL
     DEF Spec, ImplementsLedger, Ledger!Spec
-----------------------------------------------------------------------------
(* Receipts and counts *)

\* What archive() may rely on when it drops the claim: the receipt it has just
\* written is the one of the only archive that knows the uuid; and a torn claim
\* was never archived, so throwing it away hides no receipt.
ReceiptInv ==
    /\ ClaimOutlivesReceipt
    /\ \A u \in Uuids : inflight[u] = "torn" => ~Settled(u)
    /\ pc \in {"archive_receipt", "archive_clear"} =>
          \A d \in Dirs : d # DirOf(ending) => archive[d][Uuid] = "absent"
    /\ pc = "archive_clear" => receipt[DirOf(ending)][Uuid] = ending

LEMMA ReceiptInvariant == Spec => []ReceiptInv
<1>1. Init => ReceiptInv
  BY DEF Init, ReceiptInv, ClaimOutlivesReceipt
<1>2. TypeOK /\ PassInv /\ ReceiptInv /\ [Next]_vars => ReceiptInv'
  <2> SUFFICES ASSUME TypeOK, PassInv, ReceiptInv, [Next]_vars PROVE ReceiptInv'
    OBVIOUS
  <2>0. /\ cur \in Pairs /\ cur = <<Box, Uuid>> /\ Box \in Outboxes /\ Uuid \in Uuids
        /\ pending \in [Pairs -> {"absent", "whole", "torn"}]
        /\ inflight \in [Uuids -> FileOf]
        /\ archive \in [Dirs -> [Uuids -> FileOf]]
        /\ receipt \in [Dirs -> [Uuids -> Reasons \cup {"absent", "torn"}]]
        /\ pc \in Steps /\ DirOf(ending) \in Dirs /\ ending \in Reasons
    BY DEF TypeOK, Box, Uuid, Pairs, DirOf, Dirs
  <2>a. pc \in Holding => inflight[Uuid] = Box /\ Box # "absent" /\ Box # "torn"
    BY <2>0, Torn DEF PassInv
  <2> USE Torn DEF ReceiptInv, ClaimOutlivesReceipt, Settled, files, local, bounds, Steps
  <2>1. ASSUME NEW p \in Pairs, Submit(p) PROVE ReceiptInv'
    BY <2>0, <2>1 DEF Submit, Uuid, Pairs
  <2>2. CASE StartPush \/ Pick \/ EndPass \/ Claim \/ ClaimRead
    <3>1. UNCHANGED files /\ pc' \in {"idle", "pick", "claim", "claim_read", "claim_write"}
      BY <2>2 DEF StartPush, Pick, EndPass, Claim, ClaimRead
    <3> QED  BY <3>1
  <2>3. CASE ClaimWrite
    <3>1. held = Box /\ ~Settled(Uuid)
      BY <2>3 DEF ClaimWrite, PassInv, Unsettled
    <3> QED  BY <2>0, <2>3, <3>1 DEF ClaimWrite, Uuid
  <2>4. CASE ClaimDelete
    BY <2>0, <2>4, <2>a DEF ClaimDelete, Fail, Uuid, Holding, Pairs
  <2>5. CASE Refuse \/ Request
    <3>1. /\ UNCHANGED <<files, cur>>
          /\ pc' \in {"archive_intent", "release_write", "execute"}
      BY <2>5 DEF Refuse, Request, Fail
    <3> QED  BY <2>0, <3>1 DEF Uuid
  <2>6. CASE ArchiveIntent
    <3>1. ~Settled(Uuid)  BY <2>6 DEF ArchiveIntent, PassInv, Unsettled
    <3> QED  BY ZenonT(40), <2>0, <2>6, <2>a, <3>1 DEF ArchiveIntent, Uuid, Holding
  <2>7. CASE ArchiveReceipt
    BY <2>0, <2>7, <2>a DEF ArchiveReceipt, Uuid, Holding, Reasons
  <2>8. CASE ArchiveClear
    BY <2>0, <2>8 DEF ArchiveClear, Uuid, Reasons
  <2>9. CASE ReleaseWrite
    <3>1. /\ UNCHANGED <<inflight, archive, receipt>> /\ pc' = "release_clear"
          /\ pending' = [pending EXCEPT ![cur] = IF inflight[Uuid] = "torn" THEN "torn" ELSE "whole"]
      BY <2>9 DEF ReleaseWrite
    <3>2. \A p \in Pairs : pending[p] # "absent" => pending'[p] # "absent"
      BY <2>0, <3>1
    <3>3. ClaimOutlivesReceipt'  BY <3>1, <3>2 DEF Pairs
    <3> QED  BY <3>1, <3>3
  <2>10. CASE ReleaseClear
    <3>1. ~Settled(Uuid)  BY <2>10 DEF ReleaseClear, PassInv, Unsettled
    <3> QED  BY <2>0, <2>10, <3>1 DEF ReleaseClear, Uuid
  <2>11. CASE Crash
    <3>0. pc' = "idle"  BY <2>11 DEF Crash
    <3>1. CASE UNCHANGED files  BY <3>0, <3>1
    <3>2. CASE /\ pc = "claim_write"
               /\ inflight' = [inflight EXCEPT ![Uuid] = "torn"]
               /\ UNCHANGED <<pending, archive, receipt>>
      <4>1. ~Settled(Uuid)  BY <3>2 DEF PassInv, Unsettled
      <4> QED  BY <2>0, <3>0, <3>2, <4>1
    <3>3. CASE /\ pc = "archive_intent"
               /\ archive' = [archive EXCEPT ![DirOf(ending)][Uuid] = "torn"]
               /\ UNCHANGED <<pending, inflight, receipt>>
      BY <2>0, <2>a, <3>0, <3>3 DEF Holding
    <3>4. CASE /\ pc = "archive_receipt"
               /\ receipt' = [receipt EXCEPT ![DirOf(ending)][Uuid] = "torn"]
               /\ UNCHANGED <<pending, inflight, archive>>
      BY <2>0, <2>a, <3>0, <3>4 DEF Holding
    <3>5. CASE /\ pc = "release_write"
               /\ pending' = [pending EXCEPT ![cur] = "torn"]
               /\ UNCHANGED <<inflight, archive, receipt>>
      <4>1. \A p \in Pairs : pending[p] # "absent" => pending'[p] # "absent"
        BY <2>0, <3>5
      <4>2. ClaimOutlivesReceipt'  BY <3>5, <4>1 DEF Pairs
      <4> QED  BY <3>0, <3>5, <4>2
    <3> QED  BY <2>11, <3>1, <3>2, <3>3, <3>4, <3>5 DEF Crash
  <2>12. ASSUME NEW u \in Uuids, MoveBack(u) PROVE ReceiptInv'
    <3>1. CASE inflight[u] = "torn"
      BY <2>0, <2>12, <3>1 DEF MoveBack
    <3>2. CASE inflight[u] # "torn"
      <4>1. inflight[u] \in Outboxes /\ <<inflight[u], u>> \in Pairs
        BY <2>0, <2>12, <3>2 DEF MoveBack, FileOf, Pairs
      <4>2. /\ pending' = [pending EXCEPT ![<<inflight[u], u>>] = "whole"]
            /\ inflight' = [inflight EXCEPT ![u] = "absent"]
            /\ UNCHANGED <<archive, receipt, pc>> /\ pc = "idle"
        BY <2>12, <3>2 DEF MoveBack
      <4>3. pending'[<<inflight[u], u>>] # "absent"  BY <2>0, <4>1, <4>2
      <4>4. \A p \in Pairs : pending[p] # "absent" => pending'[p] # "absent"
        BY <2>0, <4>1, <4>2
      <4>5. ClaimOutlivesReceipt'
        <5> SUFFICES ASSUME NEW v \in Uuids, NEW d \in Dirs, archive[d][v] # "absent",
                            receipt[d][v] \in {"absent", "torn"}
                     PROVE  inflight'[v] # "absent"
                            \/ \E o \in Outboxes : pending'[<<o, v>>] # "absent"
          BY <4>2
        <5>1. CASE v = u  BY <4>1, <4>3, <5>1
        <5>2. CASE v # u
          <6>1. inflight[v] # "absent" \/ \E o \in Outboxes : pending[<<o, v>>] # "absent"
            OBVIOUS
          <6> QED  BY <2>0, <4>2, <4>4, <5>2, <6>1 DEF Pairs
        <5> QED  BY <5>1, <5>2
      <4> QED  BY <2>0, <4>2, <4>5
    <3> QED  BY <3>1, <3>2
  <2>13. CASE UNCHANGED vars
    BY <2>13 DEF vars, Uuid
  <2> QED
    BY <2>1, <2>2, <2>3, <2>4, <2>5, <2>6, <2>7, <2>8, <2>9, <2>10, <2>11, <2>12, <2>13
       DEF Next, Runner
<1> QED
  BY <1>1, <1>2, TypeCorrect, PassInvariant, PTL DEF Spec

\* Between two intents the buckets add up to what the pass has taken; while it has
\* one in hand, that one is still to be counted.
Counted == counts["dispatched"] + counts["blocked"] + counts["failed"]
           + counts["deferred"] + counts["replayed"] + counts["contended"]
InHand == Steps \ {"idle", "pick"}
CountInv == /\ pc = "pick" => Counted = Cardinality(Taken)
            /\ pc \in InHand => Counted + 1 = Cardinality(Taken)

\* What Pick takes is the one index more.
LEMMA PickTakesOne ==
    ASSUME TypeOK, Pick
    PROVE  Cardinality(Taken)' = Cardinality(Taken) + 1
<1>1. PICK i \in Remaining : (\A j \in Remaining : i <= j) /\ pos' = i
  BY DEF Pick
<1>2. /\ pos \in Nat /\ Len(Listing) \in Nat /\ i \in Nat /\ snap' = snap
      /\ pos < i /\ Listing[i] \in snap /\ i <= Len(Listing)
  BY <1>1, OutboxAssumption DEF TypeOK, Remaining, Pick
<1>3. Taken' = Taken \cup {i}
  <2>1. \A j \in 1..i : Listing[j] \in snap => j <= pos \/ j = i
    <3> SUFFICES ASSUME NEW j \in 1..i, Listing[j] \in snap, pos < j PROVE j = i
      BY <1>2
    <3>1. j \in Remaining  BY <1>2 DEF Remaining
    <3> QED  BY <1>1, <1>2, <3>1
  <2> QED  BY <1>1, <1>2, <2>1 DEF Taken
<1>4. i \notin Taken  BY <1>2 DEF Taken
<1>5. IsFiniteSet(Taken)
  <2>1. IsFiniteSet(1..pos)  BY <1>2, FS_Interval
  <2> QED  BY <2>1, FS_Subset DEF Taken
<1> QED  BY <1>3, <1>4, <1>5, FS_AddElement

LEMMA OneMore ==
    ASSUME counts \in [Buckets -> Nat],
           NEW b \in Buckets \ {"inflight"}, counts' = Count(b)
    PROVE  Counted' = Counted + 1
BY DEF Count, Counted, Buckets

LEMMA CountInvariant == Spec => []CountInv
<1>1. Init => CountInv
  BY DEF Init, CountInv, InHand
<1>2. TypeOK /\ CountInv /\ [Next]_vars => CountInv'
  <2> SUFFICES ASSUME TypeOK, CountInv, [Next]_vars PROVE CountInv'
    OBVIOUS
  <2>0. counts \in [Buckets -> Nat]  BY DEF TypeOK
  <2>1. CASE StartPush
    <3>1. Taken' = {}  BY <2>1 DEF StartPush, Taken
    <3>2. Cardinality(Taken)' = 0  BY <3>1, FS_EmptySet
    <3>3. Counted' = 0  BY <2>1 DEF StartPush, NoCounts, Counted, Buckets
    <3> QED  BY <2>1, <3>2, <3>3 DEF StartPush, CountInv, InHand
  <2>2. CASE Pick
    <3>1. Counted = Cardinality(Taken)  BY <2>2 DEF Pick, CountInv
    <3>2. Cardinality(Taken)' = Counted + 1  BY <2>2, <3>1, PickTakesOne
    <3>3. \/ pc' = "pick" /\ counts' = Count("replayed")
          \/ pc' = "claim" /\ counts' = counts
      BY <2>2 DEF Pick
    <3>4. CASE pc' = "pick" /\ counts' = Count("replayed")
      <4>1. Counted' = Counted + 1  BY <2>0, <3>4, OneMore DEF Buckets
      <4> QED  BY <3>2, <3>4, <4>1 DEF CountInv, InHand
    <3>5. CASE pc' = "claim" /\ counts' = counts
      BY <3>2, <3>5 DEF CountInv, InHand, Counted
    <3> QED  BY <3>3, <3>4, <3>5
  <2>3. ASSUME pc \in InHand, pc' \in InHand, UNCHANGED <<counts, snap, pos>>
        PROVE  CountInv'
    BY <2>3 DEF CountInv, Counted, Taken, InHand
  <2>4. ASSUME NEW b \in Buckets \ {"inflight"}, pc \in InHand, pc' = "pick",
               counts' = Count(b), UNCHANGED <<snap, pos>>
        PROVE  CountInv'
    <3>1. Counted' = Counted + 1 /\ Taken' = Taken  BY <2>0, <2>4, OneMore DEF Taken
    <3> QED  BY <2>4, <3>1 DEF CountInv, InHand
  <2>5. CASE EndPass \/ Crash
    BY <2>5 DEF EndPass, Crash, CountInv, InHand
  <2>6. CASE Claim
    BY <2>3, <2>4, <2>6 DEF Claim, InHand, Steps, Buckets
  <2>7. CASE ClaimRead
    BY <2>3, <2>7 DEF ClaimRead, CountInv, InHand, Steps
  <2>8. CASE ClaimWrite \/ ClaimDelete \/ Refuse \/ ArchiveIntent \/ ArchiveReceipt
             \/ ReleaseWrite
    BY <2>3, <2>8 DEF ClaimWrite, ClaimDelete, Refuse, ArchiveIntent, ArchiveReceipt,
                      ReleaseWrite, Fail, InHand, Steps
  <2>9. CASE Request
    <3>1. /\ pc = "execute" /\ UNCHANGED <<counts, snap, pos>>
          /\ pc' \in {"execute", "archive_intent", "release_write"}
      BY <2>9 DEF Request, Fail
    <3> QED  BY <2>3, <3>1 DEF InHand, Steps
  <2>10. CASE ArchiveClear
    <3>1. BucketOf(ending) \in Buckets \ {"inflight"}  BY DEF BucketOf, Buckets
    <3> QED  BY <2>4, <2>10, <3>1 DEF ArchiveClear, InHand, Steps
  <2>11. CASE ReleaseClear
    BY <2>4, <2>11 DEF ReleaseClear, InHand, Steps, Buckets
  <2>12. CASE (\E p \in Pairs : Submit(p)) \/ (\E u \in Uuids : MoveBack(u)) \/ UNCHANGED vars
    <3>1. UNCHANGED <<pc, counts, snap, pos>>
      BY <2>12 DEF Submit, MoveBack, vars, local
    <3> QED  BY <3>1 DEF CountInv, Counted, Taken
  <2> QED
    BY <2>1, <2>2, <2>5, <2>6, <2>7, <2>8, <2>9, <2>10, <2>11, <2>12 DEF Next, Runner
<1> QED
  BY <1>1, <1>2, TypeCorrect, PTL DEF Spec

\* ReceiptsAndCounts: archive() and push() leave no archived intent without its
\* receipt unless a claim or a file still tells of it, and PushCounts puts every
\* intent of a pass in one bucket.
THEOREM ReceiptsAndCountsHold == Spec => []ReceiptsAndCounts
<1>1. ReceiptInv => ClaimOutlivesReceipt  BY DEF ReceiptInv
<1>2. CountInv => EveryIntentInOneBucket  BY DEF CountInv, Counted, EveryIntentInOneBucket
<1> QED
  BY <1>1, <1>2, ReceiptInvariant, CountInvariant, PTL DEF ReceiptsAndCounts
===============================================================================
