---------------------------- MODULE ServiceProofs ----------------------------
(***************************************************************************)
(* Theorems about what runs around the vault, for every value of the       *)
(* constants.  The multi-user service, part by part (Worker, SignIn        *)
(* and StateFiles); one call of the client (GraphTransport): its           *)
(* type invariant, and the contract the outbox is modelled against; and    *)
(* the two ways out of the vault that carry a guard of their own: the      *)
(* outboxes of a configuration (IntentGate), for every configuration, every*)
(* set of scopes and every notion of one scope being the spelling of       *)
(* another, and the document a writer puts back under its eTag             *)
(* (DriveWrite), for every number of writers, versions and attempts.       *)
(***************************************************************************)
EXTENDS MCService, MCWrites, GraphTransport, TLAPS
-----------------------------------------------------------------------------
(* Worker *)

Phases == Active \cup {"none", "done", "raised"}
Futures == [at : Phases, err : Errors \cup {DbError, "none"}]
WorkerTypeOK ==
    /\ due \in [Jobs -> BOOLEAN]
    /\ status \in [Jobs -> {"none", "running", "success", "failed"}]
    /\ held \in [Procs -> [Conns -> [Jobs -> Nat]]]
    /\ worker \in [Procs -> {"asleep", "submitting", "dead"}]
    /\ todo \in [Procs -> SUBSET Jobs]
    /\ job \in [Procs -> [Jobs -> Futures]]
    /\ crashes \in Nat

\* A loop submits a job it has not submitted yet, and none while it sleeps.
SubmitsAnew ==
    \A p \in Procs, j \in Jobs :
        j \in todo[p] \/ worker[p] # "submitting" => job[p][j].at = "none"

\* What makes OneRunPerJob inductive, the pool having no connection it closes: the
\* lock of a job has one session, and from the submission to the release of a run
\* it is a session of its process.
OneSession ==
    \A p, q \in Procs, c, d \in Conns, j \in Jobs :
        held[p][c][j] > 0 /\ held[q][d][j] > 0 => p = q /\ c = d
LockedWhileActive ==
    \A p \in Procs, j \in Jobs :
        job[p][j].at \in Active => \E c \in Conns : held[p][c][j] > 0

\* What makes RunningIsTold inductive: an unwinding job carries an error the worker
\* does not know, and a row that says running is that of a job that has not come to
\* its last status, or that unwinds without one.
Unknown(p, j) == job[p][j].err \notin KnownErrors
UnwindsOnUnknown ==
    \A p \in Procs, j \in Jobs : job[p][j].at = "unwinding" => Unknown(p, j)
Owes(p, j) == \/ job[p][j].at \in {"working", "reporting", "failing", "unwinding"}
              \/ worker[p] = "dead"
              \/ \E k \in Jobs : job[p][k].at = "raised" /\ Unknown(p, k)
RunningIsOwed ==
    \A j \in Jobs : status[j] = "running" => crashes > 0 \/ \E p \in Procs : Owes(p, j)

WorkerInv == WorkerTypeOK /\ SubmitsAnew
TellInv == WorkerInv /\ UnwindsOnUnknown /\ RunningIsOwed
LockInv == WorkerInv /\ OneSession /\ LockedWhileActive

\* What one step writes of the two tables.
LEMMA OneFuture ==
    ASSUME job \in [Procs -> [Jobs -> Futures]], NEW p \in Procs, NEW j \in Jobs,
           NEW f \in Futures, job' = [job EXCEPT ![p][j] = f]
    PROVE  /\ job' \in [Procs -> [Jobs -> Futures]] /\ job'[p][j] = f
           /\ \A q \in Procs, k \in Jobs : ~(q = p /\ k = j) => job'[q][k] = job[q][k]
OBVIOUS

LEMMA OneConnection ==
    ASSUME held \in [Procs -> [Conns -> [Jobs -> Nat]]], NEW p \in Procs, NEW c \in Conns,
           NEW locks \in [Jobs -> Nat], held' = GivenBack(p, c, locks)
    PROVE  /\ held' \in [Procs -> [Conns -> [Jobs -> Nat]]]
           /\ \A q \in Procs, d \in Conns : ~(q = p /\ d = c) => held'[q][d] = held[q][d]
           /\ Overflow = {} => held'[p][c] = locks
<1> DEFINE kept == IF c \in Overflow THEN [k \in Jobs |-> 0] ELSE locks
<1>1. kept \in [Jobs -> Nat]  OBVIOUS
<1>2. Overflow = {} => kept = locks  OBVIOUS
<1>3. held' = [held EXCEPT ![p][c] = kept]  BY DEF GivenBack
<1> HIDE DEF kept
<1> QED  BY <1>1, <1>2, <1>3

\* The future a job's step leaves: it is of this job, and only TryLock makes it
\* active.  What it unwinds with, the worker does not know.
Follows(was, f) ==
    \/ was.at = "queued" /\ f.at \in {"working", "raised"}
    \/ was.at = "working" /\ f.at \in {"reporting", "failing", "unwinding"}
    \/ was.at \in {"reporting", "failing"} /\ f.at \in {"releasing", "unwinding"}
    \/ was.at = "releasing" /\ f.at \in {"done", "raised"}
    \/ was.at = "unwinding" /\ f.at = "raised"
KeepsError(was, f) ==
    /\ f.at = "unwinding" => f.err \notin KnownErrors
    /\ f.at = "raised" => f.err = was.err \/ f.err \notin KnownErrors

Moves(p, j, f) ==
    /\ f \in Futures /\ job' = [job EXCEPT ![p][j] = f]
    /\ Follows(job[p][j], f) /\ KeepsError(job[p][j], f)

LEMMA JobMoves ==
    ASSUME WorkerTypeOK, NEW p \in Procs, NEW j \in Jobs,
           Begin(p, j) \/ Work(p, j) \/ Report(p, j) \/ Release(p, j) \/ DbFails(p, j)
    PROVE  \E f : Moves(p, j, f)
<1>0. job[p][j] \in Futures  BY DEF WorkerTypeOK
<1> USE DEF Futures, Phases, Active, At, Raising, Errors, DbError, KnownErrors, JobCatches,
            Follows, KeepsError
<1>1. CASE Begin(p, j)
  <2>1. Moves(p, j, At("working"))  BY <1>1 DEF Begin, Moves
  <2> QED  BY <2>1
<1>2. CASE Work(p, j)
  <2>0. job[p][j].at = "working"  BY <1>2 DEF Work
  <2>1. CASE job' = [job EXCEPT ![p][j] = At("reporting")]
    <3>1. Moves(p, j, At("reporting"))  BY <2>0, <2>1 DEF Moves
    <3> QED  BY <3>1
  <2>2. ASSUME NEW e \in Errors, e \in JobCatches, job' = [job EXCEPT ![p][j] = At("failing")]
        PROVE  \E f : Moves(p, j, f)
    <3>1. Moves(p, j, At("failing"))  BY <2>0, <2>2 DEF Moves
    <3> QED  BY <3>1
  <2>3. ASSUME NEW e \in Errors, e \notin JobCatches,
               job' = [job EXCEPT ![p][j] = Raising("unwinding", e)]
        PROVE  \E f : Moves(p, j, f)
    <3>1. Moves(p, j, Raising("unwinding", e))  BY <2>0, <2>3 DEF Moves
    <3> QED  BY <3>1
  <2>4. \/ job' = [job EXCEPT ![p][j] = At("reporting")]
        \/ \E e \in Errors : e \in JobCatches /\ job' = [job EXCEPT ![p][j] = At("failing")]
        \/ \E e \in Errors : /\ e \notin JobCatches
                             /\ job' = [job EXCEPT ![p][j] = Raising("unwinding", e)]
    <3> HIDE DEF JobCatches, KnownErrors, Errors, At, Raising
    <3> QED  BY <1>2 DEF Work
  <2> QED  BY <2>1, <2>2, <2>3, <2>4
<1>3. CASE Report(p, j)
  <2>1. Moves(p, j, At("releasing"))  BY <1>3 DEF Report, Moves
  <2> QED  BY <2>1
<1>4. CASE Release(p, j)
  <2> DEFINE f == [job[p][j] EXCEPT !.at = IF @ = "releasing" THEN "done" ELSE "raised"]
  <2>1. job[p][j].at \in {"releasing", "unwinding"} /\ job' = [job EXCEPT ![p][j] = f]
    BY <1>4 DEF Release
  <2>2. Moves(p, j, f)  BY <1>0, <2>1 DEF Moves
  <2> QED  BY <2>2
<1>5. CASE DbFails(p, j)
  <2>1. CASE /\ job[p][j].at \in {"queued", "releasing", "unwinding"}
             /\ job' = [job EXCEPT ![p][j] = Raising("raised", DbError)]
    <3>1. Moves(p, j, Raising("raised", DbError))  BY <2>1 DEF Moves
    <3> QED  BY <3>1
  <2>2. CASE /\ job[p][j].at \in {"reporting", "failing"}
             /\ job' = [job EXCEPT ![p][j] = Raising("unwinding", DbError)]
    <3>1. Moves(p, j, Raising("unwinding", DbError))  BY <2>2 DEF Moves
    <3> QED  BY <3>1
  <2> QED  BY <1>5, <2>1, <2>2 DEF DbFails
<1> QED  BY <1>1, <1>2, <1>3, <1>4, <1>5

LEMMA InitWorkerInv == WorkerInit => TellInv /\ LockInv
BY DEF WorkerInit, TellInv, LockInv, WorkerInv, WorkerTypeOK, Futures, Phases, None, Active,
       SubmitsAnew, UnwindsOnUnknown, RunningIsOwed, OneSession, LockedWhileActive

\* TryLock: the job is queued under a session's lock, or left alone.
LEMMA TryLockMoves ==
    ASSUME WorkerTypeOK, NEW p \in Procs, NEW j \in Jobs, TryLock(p, j)
    PROVE  /\ held' \in [Procs -> [Conns -> [Jobs -> Nat]]]
           /\ \/ UNCHANGED <<held, job>>
              \/ /\ job' = [job EXCEPT ![p][j] = At("queued")] /\ At("queued") \in Futures
                 /\ \E c \in Conns : /\ Free(p, c, j)
                                     /\ held' = GivenBack(p, c, [held[p][c] EXCEPT ![j] = @ + 1])
<1>1. At("queued") \in Futures  BY DEF At, Futures, Phases, Active
<1>2. CASE UNCHANGED <<held, job>>  BY <1>2 DEF WorkerTypeOK
<1>3. ASSUME NEW c \in Conns, Free(p, c, j), held' = Locked(p, c, j),
             job' = [job EXCEPT ![p][j] = At("queued")]
      PROVE  held' \in [Procs -> [Conns -> [Jobs -> Nat]]]
  <2> DEFINE locks == [held[p][c] EXCEPT ![j] = @ + 1]
  <2>1. locks \in [Jobs -> Nat]  BY DEF WorkerTypeOK
  <2>2. held' = GivenBack(p, c, locks)  BY <1>3 DEF Locked, Acquired
  <2> HIDE DEF locks
  <2> QED  BY <2>1, <2>2, OneConnection DEF WorkerTypeOK
<1> QED  BY <1>1, <1>2, <1>3 DEF TryLock, Locked, Acquired

LEMMA ReleaseUnlocks ==
    ASSUME WorkerTypeOK, NEW p \in Procs, NEW j \in Jobs, Release(p, j)
    PROVE  \E c \in Conns, locks \in [Jobs -> Nat] :
              /\ held' = GivenBack(p, c, locks)
              /\ \A k \in Jobs : locks[k] <= held[p][c][k] /\ (k # j => locks[k] = held[p][c][k])
<1>1. PICK c \in Conns : held' = Unlocked(p, c, j)  BY DEF Release
<1> DEFINE locks == [held[p][c] EXCEPT ![j] = IF @ = 0 THEN 0 ELSE @ - 1]
<1>2. held[p][c] \in [Jobs -> Nat]  BY DEF WorkerTypeOK
<1>3. locks \in [Jobs -> Nat]  BY <1>2
<1>4. \A k \in Jobs : locks[k] <= held[p][c][k] /\ (k # j => locks[k] = held[p][c][k])
  BY <1>2
<1>5. held' = GivenBack(p, c, locks)  BY <1>1 DEF Unlocked
<1> HIDE DEF locks
<1> QED  BY <1>3, <1>4, <1>5

LEMMA NextWorkerInv == WorkerInv /\ [WorkerNext]_workerVars => WorkerInv'
<1> SUFFICES ASSUME WorkerInv, [WorkerNext]_workerVars PROVE WorkerInv'  OBVIOUS
<1> USE DEF WorkerInv, WorkerTypeOK
<1>1. ASSUME NEW p \in Procs, NEW j \in Jobs,
             Begin(p, j) \/ Work(p, j) \/ Report(p, j) \/ Release(p, j) \/ DbFails(p, j)
      PROVE  WorkerInv'
  <2>1. PICK f : Moves(p, j, f)  BY <1>1, JobMoves
  <2>2. /\ job' \in [Procs -> [Jobs -> Futures]] /\ job'[p][j] = f
        /\ \A q \in Procs, k \in Jobs : ~(q = p /\ k = j) => job'[q][k] = job[q][k]
    BY <2>1, OneFuture DEF Moves
  <2>3. job[p][j].at # "none"  BY <2>1 DEF Moves, Follows
  <2>4. todo' = todo /\ worker' = worker
    BY <1>1 DEF Begin, Work, Report, Release, DbFails
  <2>5. SubmitsAnew'  BY <2>2, <2>3, <2>4 DEF SubmitsAnew
  <2>6. held' \in [Procs -> [Conns -> [Jobs -> Nat]]]
    <3>1. CASE Release(p, j)
      <4>1. PICK c \in Conns, locks \in [Jobs -> Nat] : held' = GivenBack(p, c, locks)
        BY <3>1, ReleaseUnlocks
      <4> QED  BY <4>1, OneConnection
    <3> QED  BY <1>1, <3>1 DEF Begin, Work, Report, DbFails
  <2>7. /\ due' \in [Jobs -> BOOLEAN] /\ crashes' \in Nat
        /\ status' \in [Jobs -> {"none", "running", "success", "failed"}]
    BY <1>1 DEF Begin, Work, Report, Release, DbFails, Upserted
  <2> QED  BY <2>2, <2>4, <2>5, <2>6, <2>7
<1>2. ASSUME NEW p \in Procs, NEW j \in Jobs, TryLock(p, j) PROVE WorkerInv'
  <2>1. /\ worker[p] = "submitting" /\ j \in todo[p] /\ todo' = [todo EXCEPT ![p] = @ \ {j}]
        /\ UNCHANGED <<due, status, worker, crashes>>
    BY <1>2 DEF TryLock
  <2>2. /\ job' \in [Procs -> [Jobs -> Futures]]
        /\ \A q \in Procs, k \in Jobs : ~(q = p /\ k = j) => job'[q][k] = job[q][k]
    BY <1>2, TryLockMoves, OneFuture
  <2>3. SubmitsAnew'  BY <2>1, <2>2 DEF SubmitsAnew
  <2> QED  BY <1>2, <2>1, <2>2, <2>3, TryLockMoves
<1>3. ASSUME NEW p \in Procs, Poll(p) PROVE WorkerInv'
  BY <1>3 DEF Poll, DueJobs, SubmitsAnew
<1>4. ASSUME NEW p \in Procs, Collect(p) \/ Crash(p) PROVE WorkerInv'
  <2>1. None \in Futures /\ None.at = "none"  BY DEF None, Futures, Phases, Active
  <2>2. /\ job' \in [Procs -> [Jobs -> Futures]]
        /\ \A k \in Jobs : job'[p][k] = None
        /\ \A q \in Procs \ {p} : job'[q] = job[q]
    <3>1. job' = [job EXCEPT ![p] = [k \in Jobs |-> None]]  BY <1>4 DEF Collect, Crash
    <3> QED  BY <2>1, <3>1
  <2>3. /\ worker' \in [Procs -> {"asleep", "submitting", "dead"}]
        /\ todo' \in [Procs -> SUBSET Jobs] /\ \A q \in Procs : todo'[q] \subseteq todo[q]
        /\ \A q \in Procs \ {p} : worker'[q] = worker[q]
    BY <1>4 DEF Collect, Crash
  <2>4. SubmitsAnew'  BY SMTT(40), <2>1, <2>2, <2>3 DEF SubmitsAnew
  <2>5. due' = due /\ status' = status /\ crashes' \in Nat
    BY <1>4 DEF Collect, Crash
  <2>6. held' \in [Procs -> [Conns -> [Jobs -> Nat]]]
    <3>1. CASE Collect(p)  BY <3>1 DEF Collect
    <3>2. CASE Crash(p)
      <4>1. [c \in Conns |-> [j \in Jobs |-> 0]] \in [Conns -> [Jobs -> Nat]]  OBVIOUS
      <4>2. held' = [held EXCEPT ![p] = [c \in Conns |-> [j \in Jobs |-> 0]]]  BY <3>2 DEF Crash
      <4> QED  BY <4>1, <4>2
    <3> QED  BY <1>4, <3>1, <3>2
  <2> QED  BY <2>2, <2>3, <2>4, <2>5, <2>6
<1>5. ASSUME NEW j \in Jobs, Comes(j) \/ TurnedOff(j) PROVE WorkerInv'
  <2>1. due' \in [Jobs -> BOOLEAN]  BY <1>5 DEF Comes, TurnedOff
  <2> QED  BY <1>5, <2>1 DEF Comes, TurnedOff, SubmitsAnew
<1>6. CASE UNCHANGED workerVars  BY <1>6 DEF workerVars, SubmitsAnew
<1> QED  BY <1>1, <1>2, <1>3, <1>4, <1>5, <1>6 DEF WorkerNext

LEMMA NextTellInv == TellInv /\ [WorkerNext]_workerVars => TellInv'
<1> SUFFICES ASSUME TellInv, [WorkerNext]_workerVars
             PROVE  UnwindsOnUnknown' /\ RunningIsOwed'
  BY NextWorkerInv DEF TellInv
<1>0. WorkerTypeOK /\ SubmitsAnew /\ UnwindsOnUnknown /\ RunningIsOwed
  BY DEF TellInv, WorkerInv
<1>1. ASSUME NEW p \in Procs, NEW j \in Jobs,
             Begin(p, j) \/ Work(p, j) \/ Report(p, j) \/ Release(p, j) \/ DbFails(p, j)
      PROVE  UnwindsOnUnknown' /\ RunningIsOwed'
  <2>1. PICK f : Moves(p, j, f)  BY <1>0, <1>1, JobMoves
  <2>2. /\ job'[p][j] = f
        /\ \A q \in Procs, k \in Jobs : ~(q = p /\ k = j) => job'[q][k] = job[q][k]
    BY <1>0, <2>1, OneFuture DEF Moves, WorkerTypeOK
  <2>3. UnwindsOnUnknown'
    BY <1>0, <2>1, <2>2 DEF Moves, KeepsError, UnwindsOnUnknown, Unknown
  <2>4. worker' = worker /\ crashes' = crashes
    BY <1>1 DEF Begin, Work, Report, Release, DbFails
  <2>5. ASSUME NEW k \in Jobs, k # j PROVE status'[k] = status[k]
    BY <1>0, <1>1, <2>5 DEF Begin, Work, Report, Release, DbFails, Upserted, WorkerTypeOK
  <2>6. \A q \in Procs, k \in Jobs : k # j /\ Owes(q, k) => Owes(q, k)'
    <3>1. \A k \in Jobs : job[p][k].at = "raised" => k # j
      BY <2>1 DEF Moves, Follows
    <3> QED  BY <2>2, <2>4, <3>1 DEF Owes, Unknown
  <2>7. status'[j] = "running" => crashes' > 0 \/ \E q \in Procs : Owes(q, j)'
    <3>1. CASE Begin(p, j)
      <4>1. job' = [job EXCEPT ![p][j] = At("working")]  BY <3>1 DEF Begin
      <4>2. job'[p][j].at = "working"  BY <1>0, <4>1 DEF WorkerTypeOK, At
      <4> QED  BY <4>2 DEF Owes
    <3>2. CASE Report(p, j)
      BY <1>0, <3>2 DEF Report, Upserted, WorkerTypeOK
    <3>3. CASE Work(p, j) \/ Release(p, j) \/ DbFails(p, j)
      <4>1. status' = status  BY <3>3 DEF Work, Release, DbFails
      <4>2. f.at # "releasing"
        <5>1. CASE Work(p, j) \/ Release(p, j)
          BY <2>1, <5>1 DEF Work, Release, Moves, Follows
        <5>2. CASE DbFails(p, j)
          BY <1>0, <2>2, <5>2 DEF DbFails, Raising, WorkerTypeOK
        <5> QED  BY <3>3, <5>1, <5>2
      <4>3. ASSUME NEW q \in Procs, Owes(q, j) PROVE \E r \in Procs : Owes(r, j)'
        <5>1. CASE worker[q] = "dead"  BY <2>4, <5>1 DEF Owes
        <5>2. ASSUME NEW k \in Jobs, job[q][k].at = "raised", Unknown(q, k)
              PROVE  Owes(q, j)'
          <6>1. ~(q = p /\ k = j)  BY <2>1, <5>2 DEF Moves, Follows
          <6>2. job'[q][k] = job[q][k]  BY <2>2, <6>1
          <6> QED  BY <5>2, <6>2 DEF Owes, Unknown
        <5>3. CASE q # p /\ job[q][j].at \in {"working", "reporting", "failing", "unwinding"}
          BY <2>2, <5>3 DEF Owes
        <5>4. CASE q = p /\ job[p][j].at \in {"working", "reporting", "failing"}
          <6>1. f.at \in {"reporting", "failing", "unwinding"}
            BY <2>1, <4>2, <5>4 DEF Moves, Follows
          <6> QED  BY <2>2, <6>1 DEF Owes
        <5>5. CASE q = p /\ job[p][j].at = "unwinding"
          <6>1. f.at = "raised" /\ f.err \notin KnownErrors
            BY <1>0, <2>1, <5>5 DEF Moves, Follows, KeepsError, UnwindsOnUnknown, Unknown
          <6> QED  BY <2>2, <6>1 DEF Owes, Unknown
        <5> QED  BY <4>3, <5>1, <5>2, <5>3, <5>4, <5>5 DEF Owes
      <4> QED  BY <1>0, <2>4, <4>1, <4>3 DEF RunningIsOwed
    <3> QED  BY <1>1, <3>1, <3>2, <3>3
  <2> QED  BY <1>0, <2>3, <2>4, <2>5, <2>6, <2>7 DEF RunningIsOwed
<1>2. ASSUME NEW p \in Procs, NEW j \in Jobs, TryLock(p, j)
      PROVE  UnwindsOnUnknown' /\ RunningIsOwed'
  <2>1. /\ \A q \in Procs, k \in Jobs : ~(q = p /\ k = j) => job'[q][k] = job[q][k]
        /\ job'[p][j] = job[p][j] \/ job'[p][j].at = "queued"
    <3>1. At("queued").at = "queued"  BY DEF At
    <3> QED  BY <1>0, <1>2, <3>1, TryLockMoves, OneFuture DEF WorkerTypeOK
  <2>2. job[p][j].at = "none"  BY <1>0, <1>2 DEF TryLock, SubmitsAnew
  <2>3. UNCHANGED <<status, worker, crashes>>  BY <1>2 DEF TryLock
  <2>4. UnwindsOnUnknown'  BY <1>0, <2>1, <2>2 DEF UnwindsOnUnknown, Unknown
  <2>5. \A q \in Procs, k \in Jobs : Owes(q, k) => Owes(q, k)'
    BY <2>1, <2>2, <2>3 DEF Owes, Unknown
  <2> QED  BY <1>0, <2>3, <2>4, <2>5 DEF RunningIsOwed
<1>3. ASSUME NEW p \in Procs, Collect(p) PROVE UnwindsOnUnknown' /\ RunningIsOwed'
  <2>1. /\ \A k \in Jobs : job'[p][k].at = "none"
        /\ \A q \in Procs \ {p} : job'[q] = job[q] /\ worker'[q] = worker[q]
        /\ UNCHANGED <<status, crashes>>
    BY <1>0, <1>3 DEF Collect, None, WorkerTypeOK
  <2>2. UnwindsOnUnknown'  BY <1>0, <2>1 DEF UnwindsOnUnknown, Unknown
  <2>3. ASSUME NEW q \in Procs, NEW j \in Jobs, Owes(q, j) PROVE Owes(q, j)'
    <3>1. CASE q # p  BY <2>1, <2>3, <3>1 DEF Owes, Unknown
    <3>2. CASE q = p
      <4>1. worker[p] = "submitting" /\ job[p][j].at \notin Active  BY <1>3 DEF Collect
      <4>2. \E k \in Jobs : job[p][k].at = "raised" /\ Unknown(p, k)
        BY <2>3, <3>2, <4>1 DEF Owes, Active
      <4>3. worker'[p] = "dead"  BY <1>0, <1>3, <4>2 DEF Collect, Unknown, WorkerTypeOK
      <4> QED  BY <3>2, <4>3 DEF Owes
    <3> QED  BY <3>1, <3>2
  <2> QED  BY <1>0, <2>1, <2>2, <2>3 DEF RunningIsOwed
<1>4. ASSUME NEW p \in Procs, Crash(p) PROVE UnwindsOnUnknown' /\ RunningIsOwed'
  <2>1. crashes' > 0  BY <1>0, <1>4 DEF Crash, WorkerTypeOK
  <2>2. /\ \A k \in Jobs : job'[p][k].at = "none"
        /\ \A q \in Procs \ {p} : job'[q] = job[q]
    BY <1>0, <1>4 DEF Crash, None, WorkerTypeOK
  <2>3. UnwindsOnUnknown'  BY <1>0, <2>2 DEF UnwindsOnUnknown, Unknown
  <2> QED  BY <2>1, <2>3 DEF RunningIsOwed
<1>5. ASSUME NEW p \in Procs, Poll(p) PROVE UnwindsOnUnknown' /\ RunningIsOwed'
  <2>1. /\ UNCHANGED <<status, job, crashes>>
        /\ \A q \in Procs : worker[q] = "dead" => worker'[q] = "dead"
    BY <1>0, <1>5 DEF Poll, WorkerTypeOK
  <2>2. \A q \in Procs, j \in Jobs : Owes(q, j) => Owes(q, j)'  BY <2>1 DEF Owes, Unknown
  <2> QED  BY <1>0, <2>1, <2>2 DEF RunningIsOwed, UnwindsOnUnknown, Unknown
<1>6. CASE (\E j \in Jobs : Comes(j) \/ TurnedOff(j)) \/ UNCHANGED workerVars
  <2>1. UNCHANGED <<status, job, worker, crashes>>
    BY <1>6 DEF Comes, TurnedOff, workerVars
  <2> QED  BY <1>0, <2>1 DEF RunningIsOwed, UnwindsOnUnknown, Unknown, Owes
<1> QED  BY <1>1, <1>2, <1>3, <1>4, <1>5, <1>6 DEF WorkerNext

\* The release of a job takes nothing from another's lock, and a job that runs is
\* not the one whose lock goes.
LEMMA NextLockInv ==
    ASSUME Overflow = {} PROVE LockInv /\ [WorkerNext]_workerVars => LockInv'
<1> SUFFICES ASSUME LockInv, [WorkerNext]_workerVars
             PROVE  OneSession' /\ LockedWhileActive'
  BY NextWorkerInv DEF LockInv
<1>0. WorkerTypeOK /\ SubmitsAnew /\ OneSession /\ LockedWhileActive
  BY DEF LockInv, WorkerInv
<1>1. ASSUME NEW p \in Procs, NEW j \in Jobs,
             Begin(p, j) \/ Work(p, j) \/ Report(p, j) \/ DbFails(p, j)
      PROVE  OneSession' /\ LockedWhileActive'
  <2>1. PICK f : Moves(p, j, f)  BY <1>0, <1>1, JobMoves
  <2>2. /\ job'[p][j] = f
        /\ \A q \in Procs, k \in Jobs : ~(q = p /\ k = j) => job'[q][k] = job[q][k]
    BY <1>0, <2>1, OneFuture DEF Moves, WorkerTypeOK
  <2>3. held' = held  BY <1>1 DEF Begin, Work, Report, DbFails
  <2>4. job[p][j].at \in Active  BY <2>1 DEF Moves, Follows, Active
  <2> QED  BY <1>0, <2>2, <2>3, <2>4 DEF OneSession, LockedWhileActive
<1>2. ASSUME NEW p \in Procs, NEW j \in Jobs, Release(p, j)
      PROVE  OneSession' /\ LockedWhileActive'
  <2>1. PICK f : Moves(p, j, f)  BY <1>0, <1>2, JobMoves
  <2>2. /\ job'[p][j] = f /\ f.at \notin Active
        /\ \A q \in Procs, k \in Jobs : ~(q = p /\ k = j) => job'[q][k] = job[q][k]
    <3>1. job[p][j].at \in {"releasing", "unwinding"}  BY <1>2 DEF Release
    <3>2. f.at \notin Active  BY <2>1, <3>1 DEF Moves, Follows, Active
    <3> QED  BY <1>0, <2>1, <3>2, OneFuture DEF Moves, WorkerTypeOK
  <2>3. PICK c \in Conns, locks \in [Jobs -> Nat] :
          /\ held' = GivenBack(p, c, locks)
          /\ \A k \in Jobs : locks[k] <= held[p][c][k] /\ (k # j => locks[k] = held[p][c][k])
    BY <1>0, <1>2, ReleaseUnlocks
  <2>4. /\ held'[p][c] = locks /\ held' \in [Procs -> [Conns -> [Jobs -> Nat]]]
        /\ \A q \in Procs, d \in Conns : ~(q = p /\ d = c) => held'[q][d] = held[q][d]
    BY <1>0, <2>3, OneConnection DEF WorkerTypeOK
  <2>5. \A q \in Procs, d \in Conns, k \in Jobs : held'[q][d][k] > 0 => held[q][d][k] > 0
    <3> SUFFICES ASSUME NEW q \in Procs, NEW d \in Conns, NEW k \in Jobs, held'[q][d][k] > 0
                 PROVE  held[q][d][k] > 0
      OBVIOUS
    <3>0. held[q][d][k] \in Nat /\ held'[q][d][k] \in Nat  BY <1>0, <2>4 DEF WorkerTypeOK
    <3>1. CASE q = p /\ d = c  BY <2>3, <2>4, <3>0, <3>1
    <3>2. CASE ~(q = p /\ d = c)  BY <2>4, <3>2
    <3> QED  BY <3>1, <3>2
  <2>6. OneSession'  BY <1>0, <2>5 DEF OneSession
  <2>7. ASSUME NEW q \in Procs, NEW k \in Jobs, job'[q][k].at \in Active
        PROVE  \E d \in Conns : held'[q][d][k] > 0
    <3>1. ~(q = p /\ k = j)  BY <2>2, <2>7
    <3>2. PICK d \in Conns : held[q][d][k] > 0
      BY <1>0, <2>2, <2>7, <3>1 DEF LockedWhileActive
    <3>3. CASE q = p /\ d = c
      <4>1. k # j  BY <3>1, <3>3
      <4> QED  BY <2>3, <2>4, <3>2, <3>3, <4>1
    <3>4. CASE ~(q = p /\ d = c)  BY <2>4, <3>2, <3>4
    <3> QED  BY <3>3, <3>4
  <2> QED  BY <2>6, <2>7 DEF LockedWhileActive
<1>3. ASSUME NEW p \in Procs, NEW j \in Jobs, TryLock(p, j)
      PROVE  OneSession' /\ LockedWhileActive'
  <2>1. CASE UNCHANGED <<held, job>>
    BY <1>0, <2>1 DEF OneSession, LockedWhileActive
  <2>2. ASSUME NEW c \in Conns, Free(p, c, j), job' = [job EXCEPT ![p][j] = At("queued")],
               held' = GivenBack(p, c, [held[p][c] EXCEPT ![j] = @ + 1])
        PROVE  OneSession' /\ LockedWhileActive'
    <3> DEFINE locks == [held[p][c] EXCEPT ![j] = @ + 1]
    <3>0. held[p][c] \in [Jobs -> Nat]  BY <1>0 DEF WorkerTypeOK
    <3>1. /\ locks \in [Jobs -> Nat] /\ locks[j] > 0
          /\ \A k \in Jobs : locks[k] >= held[p][c][k] /\ (k # j => locks[k] = held[p][c][k])
      BY <3>0
    <3>2. held' = GivenBack(p, c, locks)  BY <2>2
    <3> HIDE DEF locks
    <3>3. /\ held'[p][c] = locks
          /\ \A q \in Procs, d \in Conns : ~(q = p /\ d = c) => held'[q][d] = held[q][d]
      BY <1>0, <3>1, <3>2, OneConnection DEF WorkerTypeOK
    <3>4. \A q \in Procs, k \in Jobs : ~(q = p /\ k = j) => job'[q][k] = job[q][k]
      BY <1>0, <2>2 DEF WorkerTypeOK
    <3>5. \A q \in Procs, d \in Conns, k \in Jobs :
            held'[q][d][k] > 0 => held[q][d][k] > 0 \/ (q = p /\ d = c /\ k = j)
      BY <3>1, <3>3
    <3>6. \A q \in Procs, d \in Conns : held[q][d][j] > 0 => q = p /\ d = c
      BY <2>2 DEF Free
    <3>7. OneSession'  BY <1>0, <3>5, <3>6 DEF OneSession
    <3>8. \A q \in Procs, d \in Conns, k \in Jobs : held[q][d][k] > 0 => held'[q][d][k] > 0
      <4> SUFFICES ASSUME NEW q \in Procs, NEW d \in Conns, NEW k \in Jobs, held[q][d][k] > 0
                   PROVE  held'[q][d][k] > 0
        OBVIOUS
      <4>0. held[q][d][k] \in Nat  BY <1>0 DEF WorkerTypeOK
      <4>1. CASE q = p /\ d = c  BY <3>1, <3>3, <4>0, <4>1
      <4>2. CASE ~(q = p /\ d = c)  BY <3>3, <4>2
      <4> QED  BY <4>1, <4>2
    <3>9. held'[p][c][j] > 0  BY <3>1, <3>3
    <3> QED  BY <1>0, <3>4, <3>7, <3>8, <3>9 DEF LockedWhileActive
  <2> QED  BY <1>0, <1>3, <2>1, <2>2, TryLockMoves
<1>4. ASSUME NEW p \in Procs, Collect(p) \/ Crash(p) PROVE OneSession' /\ LockedWhileActive'
  <2>1. /\ \A k \in Jobs : job'[p][k].at \notin Active
        /\ \A q \in Procs \ {p} : job'[q] = job[q]
    <3>1. job' = [job EXCEPT ![p] = [k \in Jobs |-> None]]  BY <1>4 DEF Collect, Crash
    <3>2. None.at \notin Active  BY DEF None, Active
    <3> QED  BY <1>0, <3>1, <3>2 DEF WorkerTypeOK
  <2>2. /\ \A q \in Procs, d \in Conns, k \in Jobs : held'[q][d][k] > 0 => held[q][d][k] > 0
        /\ \A q \in Procs \ {p} : held'[q] = held[q]
    <3>1. CASE Collect(p)  BY <3>1 DEF Collect
    <3>2. CASE Crash(p)
      <4>1. held' = [held EXCEPT ![p] = [c \in Conns |-> [j \in Jobs |-> 0]]]  BY <3>2 DEF Crash
      <4>2. /\ \A d \in Conns, k \in Jobs : held'[p][d][k] = 0
            /\ \A q \in Procs \ {p} : held'[q] = held[q]
        BY <1>0, <4>1 DEF WorkerTypeOK
      <4> QED  BY <4>2
    <3> QED  BY <1>4, <3>1, <3>2
  <2> QED  BY <1>0, <2>1, <2>2 DEF OneSession, LockedWhileActive
<1>5. CASE \/ \E p \in Procs : Poll(p)
           \/ \E j \in Jobs : Comes(j) \/ TurnedOff(j)
           \/ UNCHANGED workerVars
  <2>1. UNCHANGED <<held, job>>  BY <1>5 DEF Poll, Comes, TurnedOff, workerVars
  <2> QED  BY <1>0, <2>1 DEF OneSession, LockedWhileActive
<1> QED  BY <1>1, <1>2, <1>3, <1>4, <1>5 DEF WorkerNext

\* A row that says running is told by a job that runs, a worker that is down or
\* one that is going down, and a job runs in one process.
LEMMA TellsRunning == TellInv => RunningIsTold
BY DEF TellInv, RunningIsOwed, RunningIsTold, Owes, Unknown, Running, Active

LEMMA LocksRuns == LockInv => OneRunPerJob
BY DEF LockInv, OneSession, LockedWhileActive, OneRunPerJob, Running
-----------------------------------------------------------------------------
(* SignIn *)

HandlerPhases == {"new", "read", "verified", "granted", "known", "in", "refused"}
Callbacks == [at : HandlerPhases, state : States \cup {"none"}, grant : Nat]
Refreshers == [at : {"idle", "refreshing", "storing"}, grant : Nat]
SignInTypeOK ==
    /\ handler \in [Handlers -> Callbacks] /\ provider \in [Providers -> Refreshers]
    /\ stored \in [grant : Nat, fresh : BOOLEAN] /\ grants \in Nat /\ user \in BOOLEAN

\* What makes OneWinnerPerState inductive: a callback reads the state of a login
\* that has begun, the state of one that got past the check has no file any more,
\* and no other login begins under it; and the tokens that are on their way to the
\* row, from a callback or from a refresh, are those of a user whose row is there.
Winner(h) == handler[h].at \in {"verified", "granted", "known", "in"}
ReadsWhatBegan ==
    /\ present \subseteq begun
    /\ \A h \in Handlers : handler[h].at = "read" => handler[h].state \in begun
WinnersOwn ==
    /\ \A h \in Handlers : Winner(h) => handler[h].state \in begun \ present
    /\ \A h, k \in Handlers :
          Winner(h) /\ Winner(k) /\ handler[h].state = handler[k].state => h = k
TokensHaveAUser ==
    /\ \A h \in Handlers : handler[h].at \in {"known", "in"} => user
    /\ \A p \in Providers : provider[p].at # "idle" => user
    /\ stored.grant > 0 => user

SignInInv == SignInTypeOK /\ ReadsWhatBegan /\ WinnersOwn /\ TokensHaveAUser

LEMMA OneCallback ==
    ASSUME handler \in [Handlers -> Callbacks], NEW h \in Handlers, NEW new \in Callbacks,
           handler' = [handler EXCEPT ![h] = new]
    PROVE  /\ handler' \in [Handlers -> Callbacks] /\ handler'[h] = new
           /\ \A k \in Handlers \ {h} : handler'[k] = handler[k]
OBVIOUS

LEMMA InitSignInInv == S!SignInInit => SignInInv
<1> SUFFICES ASSUME S!SignInInit PROVE SignInInv  OBVIOUS
<1>1. /\ handler \in [Handlers -> Callbacks] /\ \A h \in Handlers : handler[h].at = "new"
      /\ provider \in [Providers -> Refreshers] /\ \A p \in Providers : provider[p].at = "idle"
  BY DEF S!SignInInit, Callbacks, HandlerPhases, Refreshers
<1>2. stored = [grant |-> 0, fresh |-> FALSE] /\ grants = 0 /\ user = FALSE
  BY DEF S!SignInInit
<1>4. SignInTypeOK  BY <1>1, <1>2 DEF SignInTypeOK
<1>5. TokensHaveAUser  BY <1>1, <1>2 DEF TokensHaveAUser
<1>3. ReadsWhatBegan /\ WinnersOwn  BY <1>1 DEF S!SignInInit, ReadsWhatBegan, WinnersOwn, Winner
<1> QED  BY <1>3, <1>4, <1>5 DEF SignInInv

LEMMA NextSignInInv == SignInInv /\ [S!SignInNext]_signInVars => SignInInv'
<1> SUFFICES ASSUME SignInInv, [S!SignInNext]_signInVars PROVE SignInInv'  OBVIOUS
<1> USE DEF SignInInv
<1>0. handler \in [Handlers -> Callbacks] /\ provider \in [Providers -> Refreshers]
  BY DEF SignInTypeOK
<1>1. ASSUME NEW s \in States, S!Login(s) PROVE SignInInv'
  <2>1. /\ s \notin begun /\ begun' = begun \cup {s} /\ present' \subseteq present \cup {s}
        /\ UNCHANGED <<handler, grants, user, stored, provider>>
    BY <1>1 DEF S!Login, S!Pruned
  <2>2. SignInTypeOK' /\ TokensHaveAUser'  BY <2>1 DEF SignInTypeOK, TokensHaveAUser
  <2>3. ReadsWhatBegan' /\ WinnersOwn'  BY <2>1 DEF ReadsWhatBegan, WinnersOwn, Winner
  <2> QED  BY <2>2, <2>3
<1>2. ASSUME NEW h \in Handlers, NEW s \in States, S!ReadState(h, s) PROVE SignInInv'
  <2> DEFINE new == [handler[h] EXCEPT !.state = s, !.at = IF s \in present THEN "read" ELSE "refused"]
  <2>1. s \in begun /\ UNCHANGED <<begun, present, grants, user, stored, provider>>
    BY <1>2 DEF S!ReadState
  <2>2. handler' = [handler EXCEPT ![h] = new]  BY <1>2 DEF S!ReadState
  <2>3. new \in Callbacks /\ new.at \in {"read", "refused"} /\ new.state = s
    BY <1>0 DEF Callbacks, HandlerPhases
  <2> HIDE DEF new
  <2>4. /\ handler' \in [Handlers -> Callbacks] /\ handler'[h] = new
        /\ \A k \in Handlers \ {h} : handler'[k] = handler[k]
    BY <1>0, <2>2, <2>3, OneCallback
  <2>5. SignInTypeOK' /\ TokensHaveAUser'  BY <2>1, <2>3, <2>4 DEF SignInTypeOK, TokensHaveAUser
  <2>6. ReadsWhatBegan' /\ WinnersOwn'
    BY <2>1, <2>3, <2>4 DEF ReadsWhatBegan, WinnersOwn, Winner
  <2> QED  BY <2>5, <2>6
<1>3. ASSUME NEW h \in Handlers, S!Consume(h) PROVE SignInInv'
  <2> DEFINE to == IF handler[h].state \in present /\ handler[h].state \notin old
                   THEN "verified" ELSE "refused"
             new == [handler[h] EXCEPT !.at = to]
  <2>1. /\ handler[h].at = "read" /\ present' = present \ {handler[h].state}
        /\ UNCHANGED <<begun, grants, user, stored, provider>>
    BY <1>3 DEF S!Consume
  <2>2. handler' = [handler EXCEPT ![h] = new]
    BY <1>3 DEF S!Consume, S!Moves, S!Unlinks, S!Owns
  <2>3. /\ new \in Callbacks /\ new.state = handler[h].state /\ new.at \in {"verified", "refused"}
        /\ new.at = "verified" => handler[h].state \in present
    BY <1>0 DEF Callbacks, HandlerPhases
  <2> HIDE DEF new, to
  <2>4. /\ handler' \in [Handlers -> Callbacks] /\ handler'[h] = new
        /\ \A k \in Handlers \ {h} : handler'[k] = handler[k]
    BY <1>0, <2>2, <2>3, OneCallback
  <2>5. SignInTypeOK' /\ TokensHaveAUser'  BY <2>1, <2>3, <2>4 DEF SignInTypeOK, TokensHaveAUser
  <2>6. ReadsWhatBegan'  BY <2>1, <2>3, <2>4 DEF ReadsWhatBegan
  <2>7. WinnersOwn'
    <3>1. \A k \in Handlers \ {h} : Winner(k)' <=> Winner(k)  BY <2>4 DEF Winner
    <3>2. Winner(h)' => handler[h].state \in present  BY <2>3, <2>4 DEF Winner
    <3> QED  BY <2>1, <2>3, <2>4, <3>1, <3>2 DEF WinnersOwn, ReadsWhatBegan
  <2> QED  BY <2>5, <2>6, <2>7
<1>4. ASSUME NEW h \in Handlers, S!Exchange(h) \/ S!PersistUser(h) \/ S!PersistTokens(h)
      PROVE  SignInInv'
  <2>1. \E new \in Callbacks : /\ handler' = [handler EXCEPT ![h] = new]
                               /\ new.state = handler[h].state
                               /\ new.at \in {"granted", "known", "in", "refused"}
                               /\ new.at \in {"known", "in"} => user'
    <3>1. CASE S!Exchange(h)
      <4>1. CASE handler' = [handler EXCEPT ![h].at = "granted", ![h].grant = grants + 1]
        <5> DEFINE new == [handler[h] EXCEPT !.at = "granted", !.grant = grants + 1]
        <5>1. handler' = [handler EXCEPT ![h] = new]  BY <4>1
        <5>2. grants + 1 \in Nat  BY DEF SignInTypeOK
        <5>3. new \in Callbacks /\ new.state = handler[h].state /\ new.at = "granted"
          BY <1>0, <5>2 DEF Callbacks, HandlerPhases
        <5> HIDE DEF new
        <5> QED  BY <5>1, <5>3
      <4>2. CASE handler' = [handler EXCEPT ![h].at = "refused"]
        <5> DEFINE new == [handler[h] EXCEPT !.at = "refused"]
        <5>1. handler' = [handler EXCEPT ![h] = new]  BY <4>2
        <5>2. new \in Callbacks /\ new.state = handler[h].state /\ new.at = "refused"
          BY <1>0 DEF Callbacks, HandlerPhases
        <5> HIDE DEF new
        <5> QED  BY <5>1, <5>2
      <4> QED  BY <3>1, <4>1, <4>2 DEF S!Exchange, S!Moves
    <3>2. CASE S!PersistUser(h)
      <4> DEFINE new == [handler[h] EXCEPT !.at = "known"]
      <4>1. handler' = [handler EXCEPT ![h] = new] /\ user'
        BY <3>2 DEF S!PersistUser, S!Moves
      <4>2. new \in Callbacks /\ new.state = handler[h].state /\ new.at = "known"
        BY <1>0 DEF Callbacks, HandlerPhases
      <4> HIDE DEF new
      <4> QED  BY <4>1, <4>2
    <3>3. CASE S!PersistTokens(h)
      <4> DEFINE new == [handler[h] EXCEPT !.at = "in"]
      <4>1. handler' = [handler EXCEPT ![h] = new] /\ user'
        BY <3>3 DEF S!PersistTokens, S!Moves, TokensHaveAUser
      <4>2. new \in Callbacks /\ new.state = handler[h].state /\ new.at = "in"
        BY <1>0 DEF Callbacks, HandlerPhases
      <4> HIDE DEF new
      <4> QED  BY <4>1, <4>2
    <3> QED  BY <1>4, <3>1, <3>2, <3>3
  <2>2. PICK new \in Callbacks :
          /\ handler' = [handler EXCEPT ![h] = new]
          /\ new.state = handler[h].state /\ new.at \in {"granted", "known", "in", "refused"}
          /\ new.at \in {"known", "in"} => user'
    BY <2>1
  <2>3. /\ handler' \in [Handlers -> Callbacks] /\ handler'[h] = new
        /\ \A k \in Handlers \ {h} : handler'[k] = handler[k]
    BY <1>0, <2>2, OneCallback
  <2>4. Winner(h) /\ begun' = begun /\ present' = present /\ provider' = provider /\ (user => user')
    BY <1>4 DEF S!Exchange, S!PersistUser, S!PersistTokens, Winner
  <2>5. grants' \in Nat /\ user' \in BOOLEAN /\ stored' \in [grant : Nat, fresh : BOOLEAN]
    <3>1. CASE S!Exchange(h)  BY <3>1 DEF S!Exchange, SignInTypeOK
    <3>2. CASE S!PersistUser(h)  BY <3>2 DEF S!PersistUser, SignInTypeOK
    <3>3. CASE S!PersistTokens(h)
      <4>1. handler[h].grant \in Nat  BY <1>0 DEF Callbacks
      <4> QED  BY <3>3, <4>1 DEF S!PersistTokens, SignInTypeOK
    <3> QED  BY <1>4, <3>1, <3>2, <3>3
  <2>6. stored' = stored \/ user'
    BY <1>4 DEF S!Exchange, S!PersistUser, S!PersistTokens, TokensHaveAUser
  <2>7. TokensHaveAUser'  BY <2>2, <2>3, <2>4, <2>6 DEF TokensHaveAUser
  <2>8. ReadsWhatBegan' /\ WinnersOwn'
    BY <2>2, <2>3, <2>4 DEF ReadsWhatBegan, WinnersOwn, Winner
  <2> QED  BY <1>0, <2>3, <2>4, <2>5, <2>7, <2>8 DEF SignInTypeOK
<1>5. ASSUME NEW p \in Providers, S!GetToken(p) \/ S!Refresh(p) \/ S!StoreTokens(p)
      PROVE  SignInInv'
  <2>1. /\ provider' \in [Providers -> Refreshers]
        /\ stored' \in [grant : Nat, fresh : BOOLEAN]
    <3>1. CASE S!GetToken(p)  BY <1>0, <3>1 DEF S!GetToken, SignInTypeOK, Refreshers
    <3>2. CASE S!Refresh(p)  BY <1>0, <3>2 DEF S!Refresh, SignInTypeOK, Refreshers
    <3>3. CASE S!StoreTokens(p)  BY <1>0, <3>3 DEF S!StoreTokens, SignInTypeOK, Refreshers
    <3> QED  BY <1>5, <3>1, <3>2, <3>3
  <2>2. /\ \A q \in Providers \ {p} : provider'[q] = provider[q]
        /\ UNCHANGED <<begun, present, handler, grants, user>>
    BY <1>0, <1>5 DEF S!GetToken, S!Refresh, S!StoreTokens
  <2>3. user
    BY <1>5 DEF S!GetToken, S!Refresh, S!StoreTokens, TokensHaveAUser
  <2>4. SignInTypeOK' /\ TokensHaveAUser'
    BY <2>1, <2>2, <2>3 DEF SignInTypeOK, TokensHaveAUser
  <2>5. ReadsWhatBegan' /\ WinnersOwn'
    BY <2>2 DEF ReadsWhatBegan, WinnersOwn, Winner
  <2> QED  BY <2>4, <2>5
<1>6. CASE (\E s \in States : S!Expires(s)) \/ S!TokenAges \/ UNCHANGED signInVars
  <2>1. /\ UNCHANGED <<begun, present, handler, grants, user, provider>>
        /\ stored' \in [grant : Nat, fresh : BOOLEAN] /\ stored'.grant = stored.grant
    BY <1>6 DEF S!Expires, S!TokenAges, signInVars, SignInTypeOK
  <2>2. SignInTypeOK' /\ TokensHaveAUser'  BY <2>1 DEF SignInTypeOK, TokensHaveAUser
  <2>3. ReadsWhatBegan' /\ WinnersOwn'
    BY <2>1 DEF ReadsWhatBegan, WinnersOwn, Winner
  <2> QED  BY <2>2, <2>3
<1> QED  BY <1>1, <1>2, <1>3, <1>4, <1>5, <1>6 DEF S!SignInNext

LEMMA WinnersAreOne == SignInInv => OneWinnerPerState
BY DEF SignInInv, WinnersOwn, Winner, TokensHaveAUser, OneWinnerPerState, S!OneWinnerPerState
-----------------------------------------------------------------------------
(* The token cache *)

CachePhases == {"closed", "ready", "saving", "staged"}
Caches == [at : CachePhases, mem : Nat, dirty : BOOLEAN, last : Nat]
CacheTypeOK == disk \in Nat /\ version \in Nat /\ client \in [Clients -> Caches]
CacheInv == CacheTypeOK /\ UnpublishedStaysDirty

LEMMA OneClient ==
    ASSUME CacheInv, NEW c \in Clients, NEW new \in Caches,
           client' = [client EXCEPT ![c] = new], disk' \in Nat, version' \in Nat,
           new.mem # new.last => new.dirty \/ new.at = "staged"
    PROVE  CacheInv'
<1>1. /\ client' \in [Clients -> Caches] /\ client'[c] = new
      /\ \A d \in Clients \ {c} : client'[d] = client[d]
  BY DEF CacheInv, CacheTypeOK
<1> QED  BY <1>1 DEF CacheInv, CacheTypeOK, UnpublishedStaysDirty, S!UnpublishedStaysDirty

LEMMA InitCacheInv == S!CacheInit => CacheInv
BY DEF S!CacheInit, S!Closed, CacheInv, CacheTypeOK, Caches, CachePhases,
       UnpublishedStaysDirty, S!UnpublishedStaysDirty

LEMMA NextCacheInv == CacheInv /\ [S!CacheNext]_cacheVars => CacheInv'
<1> SUFFICES ASSUME CacheInv, [S!CacheNext]_cacheVars PROVE CacheInv'  OBVIOUS
<1>0. disk \in Nat /\ version \in Nat /\ client \in [Clients -> Caches]
  BY DEF CacheInv, CacheTypeOK
<1>1. ASSUME NEW c \in Clients PROVE
        /\ client[c] \in Caches
        /\ client[c].mem # client[c].last => client[c].dirty \/ client[c].at = "staged"
  BY <1>0 DEF CacheInv, UnpublishedStaysDirty, S!UnpublishedStaysDirty
<1> USE DEF Caches, CachePhases
<1>2. ASSUME NEW c \in Clients, S!Build(c) PROVE CacheInv'
  <2> DEFINE new == [client[c] EXCEPT !.at = "ready", !.mem = disk, !.dirty = FALSE, !.last = disk]
  <2>1. client' = [client EXCEPT ![c] = [at |-> "ready", mem |-> disk, dirty |-> FALSE, last |-> disk]]
    BY <1>2 DEF S!Build
  <2>2. client' = [client EXCEPT ![c] = new]  BY <1>1, <2>1
  <2>3. new \in Caches /\ new.mem = new.last  BY <1>0, <1>1
  <2> HIDE DEF new
  <2> QED  BY ZenonT(40), <1>0, <1>2, <2>2, <2>3, OneClient DEF S!Build
<1>3. ASSUME NEW c \in Clients, S!Changed(c) PROVE CacheInv'
  <2> DEFINE new == [client[c] EXCEPT !.at = "saving", !.mem = version + 1, !.dirty = TRUE]
  <2>1. client' = [client EXCEPT ![c] = new] /\ version' = version + 1 /\ disk' = disk
    BY <1>3 DEF S!Changed
  <2>2. version + 1 \in Nat  BY <1>0
  <2>3. new \in Caches  BY <1>1, <2>2
  <2>4. new.dirty  BY <1>1, <2>2
  <2> HIDE DEF new
  <2> QED  BY <1>0, <2>1, <2>2, <2>3, <2>4, OneClient
<1>4. ASSUME NEW c \in Clients, client[c].at = "ready",
             client' = [client EXCEPT ![c].at = "saving"], UNCHANGED <<disk, version>>
      PROVE  CacheInv'
  <2> DEFINE new == [client[c] EXCEPT !.at = "saving"]
  <2>1. client' = [client EXCEPT ![c] = new]  BY <1>4
  <2>2. new \in Caches /\ (new.mem # new.last => new.dirty)  BY <1>1, <1>4
  <2> HIDE DEF new
  <2> QED  BY <1>0, <1>4, <2>1, <2>2, OneClient
<1>5. ASSUME NEW c \in Clients, S!Stage(c) PROVE CacheInv'
  <2> DEFINE new == [client[c] EXCEPT !.at = IF client[c].dirty THEN "staged" ELSE "ready", !.dirty = FALSE]
  <2>1. client' = [client EXCEPT ![c] = new] /\ client[c].at = "saving"  BY <1>5 DEF S!Stage
  <2>2. new \in Caches /\ (new.mem # new.last => new.at = "staged")  BY <1>1, <2>1
  <2> HIDE DEF new
  <2> QED  BY <1>0, <1>5, <2>1, <2>2, OneClient DEF S!Stage
<1>6. ASSUME NEW c \in Clients, S!Replace(c) PROVE CacheInv'
  <2> DEFINE new == [client[c] EXCEPT !.at = "ready", !.last = client[c].mem]
  <2>1. client' = [client EXCEPT ![c] = new] /\ disk' = client[c].mem /\ version' = version
    BY <1>6 DEF S!Replace
  <2>2. client[c].mem \in Nat  BY <1>1
  <2>3. new \in Caches /\ new.mem = new.last  BY <1>1, <2>2
  <2> HIDE DEF new
  <2> QED  BY <1>0, <2>1, <2>2, <2>3, OneClient
<1>7. ASSUME NEW c \in Clients, S!SaveFails(c) PROVE CacheInv'
  <2> DEFINE new == [client[c] EXCEPT !.at = "ready", !.dirty = TRUE]
  <2>1. client' = [client EXCEPT ![c] = new]
    BY <1>7 DEF S!SaveFails, S!DirtyAgain, S!Retained
  <2>2. new \in Caches /\ new.dirty  BY <1>1
  <2> HIDE DEF new
  <2> QED  BY <1>0, <1>7, <2>1, <2>2, OneClient DEF S!SaveFails
<1>8. ASSUME NEW c \in Clients, S!Exit(c) PROVE CacheInv'
  <2>1. client' = [client EXCEPT ![c] = S!Closed]  BY <1>8 DEF S!Exit
  <2>2. S!Closed \in Caches /\ S!Closed.mem = S!Closed.last  BY DEF S!Closed
  <2> QED  BY <1>0, <1>8, <2>1, <2>2, OneClient DEF S!Exit
<1>9. CASE UNCHANGED cacheVars
  BY <1>9 DEF cacheVars, CacheInv, CacheTypeOK, UnpublishedStaysDirty, S!UnpublishedStaysDirty
<1> QED
  BY <1>2, <1>3, <1>4, <1>5, <1>6, <1>7, <1>8, <1>9 DEF S!CacheNext, S!GetCachedToken, S!LogIn
-----------------------------------------------------------------------------
(* StateFiles *)

\* What makes OnlyAnOverlapLoses inductive: no caller shares an object with the
\* fake, and what is about to replace the file is what the caller read but for
\* its own key.
StagedOfRead == \A j \in Openers :
    /\ ~caller[j].alias
    /\ caller[j].at = "replacing" => caller[j].staged = [caller[j].read EXCEPT ![caller[j].key] = caller[j].held]
StateInv == StateTypeOK /\ StagedOfRead /\ OnlyAnOverlapLoses

LEMMA AtRestType == AtRest \in Callers /\ AtRest.at = "free" /\ ~AtRest.alias
<1>1. \E k \in Keys : TRUE  BY BoundAssumption
<1>2. (CHOOSE k \in Keys : TRUE) \in Keys  BY <1>1
<1>3. 0 \in Docs  BY BoundAssumption DEF Docs
<1> QED  BY <1>2, <1>3 DEF AtRest, Absent, Callers

LEMMA OneCaller == ASSUME caller \in [Openers -> Callers], NEW j \in Openers, NEW new \in Callers,
                         caller' = [caller EXCEPT ![j] = new]
                  PROVE  caller' \in [Openers -> Callers]
OBVIOUS

LEMMA InitStateInv == StateInit => StateInv
<1> SUFFICES ASSUME StateInit PROVE StateInv  OBVIOUS
<1>1. 0 \in Docs  BY BoundAssumption DEF Docs
<1>2. StateTypeOK  BY <1>1, AtRestType DEF StateInit, StateTypeOK, Absent
<1>3. StagedOfRead
  <2> SUFFICES ASSUME NEW j \in Openers
               PROVE ~caller[j].alias /\ caller[j].at # "replacing"  BY DEF StagedOfRead
  <2>1. caller[j] = AtRest  BY DEF StateInit
  <2> QED  BY <2>1, AtRestType
<1>4. OnlyAnOverlapLoses  BY DEF StateInit, OnlyAnOverlapLoses
<1> QED  BY <1>2, <1>3, <1>4 DEF StateInv

LEMMA NextStateInv == StateInv /\ [StateNext]_stateVars => StateInv'
<1> SUFFICES ASSUME StateInv, [StateNext]_stateVars PROVE StateInv'  OBVIOUS
<1> USE DEF StateInv, StateTypeOK, Callers
<1>0. 0 \in Docs  BY BoundAssumption DEF Docs
<1>1. CASE UNCHANGED stateVars
  BY <1>1 DEF stateVars, StagedOfRead, OnlyAnOverlapLoses
<1>2. ASSUME NEW j \in Openers, NEW k \in Keys, Get(j, k) PROVE StateInv'
  <2>1. caller' = [caller EXCEPT ![j] = [AtRest EXCEPT !.at = "holding", !.key = k, !.held = file[k], !.alias = FALSE]]
    BY <1>2 DEF Get, IsAlias, Deepcopied
  <2> DEFINE new == [AtRest EXCEPT !.at = "holding", !.key = k, !.held = file[k], !.alias = FALSE]
  <2>4. new \in Callers /\ ~new.alias /\ new.at = "holding"  BY AtRestType DEF Callers
  <2>2. StateTypeOK'  BY <1>2, <2>1, <2>4 DEF Get
  <2>3. StagedOfRead'  BY <2>1, AtRestType DEF StagedOfRead
  <2> QED  BY <1>2, <2>2, <2>3 DEF Get, OnlyAnOverlapLoses
<1>3. ASSUME NEW j \in Openers, Mutate(j) PROVE StateInv'
  <2>1. docs + 1 \in Docs  BY <1>3, BoundAssumption DEF Mutate, Docs
  <2>2. dict' = dict  BY <1>3 DEF Mutate, StagedOfRead
  <2>3. StateTypeOK'  BY ZenonT(40), <1>3, <2>1, <2>2 DEF Mutate
  <2>4. StagedOfRead'
    <3>1. caller' = [caller EXCEPT ![j].held = docs + 1] /\ caller[j].at = "holding"  BY <1>3 DEF Mutate
    <3>2. \A i \in Openers : caller'[i].at = caller[i].at /\ caller'[i].alias = caller[i].alias  BY <3>1
    <3>3. \A i \in Openers \ {j} : caller'[i] = caller[i]  BY <3>1
    <3> QED  BY <3>1, <3>2, <3>3 DEF StagedOfRead
  <2> QED  BY <1>3, <2>2, <2>3, <2>4 DEF Mutate, OnlyAnOverlapLoses
<1>4. ASSUME NEW j \in Openers, PutReads(j) PROVE StateInv'
  <2> DEFINE new == [caller[j] EXCEPT !.at = "putting", !.read = file]
  <2>3. new \in Callers  OBVIOUS
  <2>4. caller' = [caller EXCEPT ![j] = new]  BY <1>4 DEF PutReads, Read
  <2> HIDE DEF new
  <2>1. StateTypeOK'  BY <1>4, <2>3, <2>4, OneCaller DEF PutReads
  <2>2. StagedOfRead'  BY <1>4 DEF PutReads, Read, StagedOfRead
  <2> QED  BY <1>4, <2>1, <2>2 DEF PutReads, OnlyAnOverlapLoses
<1>5. ASSUME NEW j \in Openers, DeleteReads(j) PROVE StateInv'
  <2>1. CASE file[caller[j].key] # 0
    <3>0. caller' = [caller EXCEPT ![j].at = "deleting", ![j].read = file] /\ UNCHANGED <<file, dict, docs, overlapped>>
      BY <1>5, <2>1 DEF DeleteReads, Read
    <3> DEFINE new == [caller[j] EXCEPT !.at = "deleting", !.read = file]
    <3>3. new \in Callers  OBVIOUS
    <3>4. caller' = [caller EXCEPT ![j] = new]  BY <3>0
    <3> HIDE DEF new
    <3>1. StateTypeOK'  BY <3>0, <3>3, <3>4, OneCaller
    <3>2. StagedOfRead'  BY <3>0 DEF StagedOfRead
    <3> QED  BY <1>5, <2>1, <3>1, <3>2 DEF DeleteReads, OnlyAnOverlapLoses
  <2>2. CASE file[caller[j].key] = 0
    <3>0. /\ caller' = [caller EXCEPT ![j].at = "free"] /\ dict' = [dict EXCEPT ![caller[j].key] = 0]
          /\ UNCHANGED <<file, docs, overlapped>>
      BY <1>5, <2>2 DEF DeleteReads
    <3>1. StateTypeOK'  BY ZenonT(40), <1>0, <3>0 DEF Callers
    <3>2. StagedOfRead'  BY <3>0 DEF StagedOfRead
    <3>3. OnlyAnOverlapLoses'  BY <1>5, <2>2 DEF DeleteReads, OnlyAnOverlapLoses
    <3> QED  BY <3>1, <3>2, <3>3
  <2> QED  BY <2>1, <2>2
<1>6. ASSUME NEW j \in Openers, Stage(j) PROVE StateInv'
  <2> DEFINE doc == IF caller[j].at = "putting" THEN caller[j].held ELSE 0
             data == [caller[j].read EXCEPT ![caller[j].key] = doc]
             new == [caller[j] EXCEPT !.at = "replacing", !.held = doc, !.staged = data]
  <2>1. doc \in Docs  BY <1>0
  <2>2. caller' = [caller EXCEPT ![j] = new]  BY <1>6 DEF Stage, Rewritten
  <2>3. StagedOfRead'  BY <2>2 DEF StagedOfRead
  <2> HIDE DEF doc
  <2>4. data \in [Keys -> Docs]  BY <2>1
  <2> HIDE DEF data
  <2>5. new \in Callers  BY <2>1, <2>4
  <2> HIDE DEF new
  <2>6. StateTypeOK'  BY <1>6, <2>2, <2>5, OneCaller DEF Stage
  <2> QED  BY <1>6, <2>3, <2>6 DEF Stage, OnlyAnOverlapLoses
<1>7. ASSUME NEW j \in Openers, Replace(j) PROVE StateInv'
  <2>1. Absent \in [Keys -> Docs]  BY <1>0 DEF Absent
  <2>5. caller' = [caller EXCEPT ![j].at = "holding", ![j].alias = FALSE, ![j].read = Absent, ![j].staged = Absent]
    BY <1>7 DEF Replace, IsAlias, Deepcopied
  <2> DEFINE new == [caller[j] EXCEPT !.at = "holding", !.alias = FALSE, !.read = Absent, !.staged = Absent]
  <2>8. new \in Callers  BY <2>1
  <2>9. caller' = [caller EXCEPT ![j] = new]  BY <2>5
  <2> HIDE DEF new
  <2>6. caller' \in [Openers -> Callers]  BY <2>8, <2>9, OneCaller
  <2>7. caller[j].held \in Docs /\ caller[j].staged \in [Keys -> Docs]  BY DEF Callers
  <2>2. StateTypeOK'  BY <1>7, <2>6, <2>7 DEF Replace
  <2>3. StagedOfRead'  BY <1>7 DEF Replace, StagedOfRead, IsAlias, Deepcopied
  <2>4. OnlyAnOverlapLoses'
    <3>1. CASE overlapped \/ file # caller[j].read  BY <1>7, <3>1 DEF Replace, OnlyAnOverlapLoses
    <3>2. CASE file = dict /\ file = caller[j].read  BY <1>7, <3>2 DEF Replace, OnlyAnOverlapLoses, StagedOfRead
    <3> QED  BY <3>1, <3>2 DEF OnlyAnOverlapLoses
  <2> QED  BY <2>2, <2>3, <2>4
<1>8. ASSUME NEW j \in Openers, Drop(j) PROVE StateInv'
  <2>1. StateTypeOK'  BY <1>8, AtRestType DEF Drop
  <2>2. StagedOfRead'  BY <1>8, AtRestType DEF Drop, StagedOfRead
  <2> QED  BY <1>8, <2>1, <2>2 DEF Drop, OnlyAnOverlapLoses
<1> QED  BY <1>1, <1>2, <1>3, <1>4, <1>5, <1>6, <1>7, <1>8 DEF StateNext
-----------------------------------------------------------------------------
(* The service: what each part keeps, while the others wait. *)

SignInAndCacheInv == SignInInv /\ CacheInv

\* A job that fails, on an error it knows or one it does not, on its own account or
\* the database's, leaves no row that says running behind a worker that goes on
\* (worker.py:46); whatever connections the pool closes.
THEOREM RunningIsAlwaysTold == ServiceSpec => []RunningIsTold
<1>1. ServiceInit => TellInv  BY InitWorkerInv DEF ServiceInit
<1>2. TellInv /\ [ServiceNext]_<<part, workerVars, signInVars, cacheVars, stateVars>> => TellInv'
  BY NextTellInv DEF ServiceNext
<1> QED  BY <1>1, <1>2, TellsRunning, PTL DEF ServiceSpec

\* Two processes never run one job at once, and the status rows tell the truth,
\* provided the pool closes no connection it is given back: the five connections it
\* keeps serve the polling thread and the four jobs of config/web.yaml.
THEOREM JobsRunOnceAndAreTold ==
    ASSUME Overflow = {} PROVE ServiceSpec => []JobsRunOnceAndTell
<1>1. ServiceInit => TellInv /\ LockInv  BY InitWorkerInv DEF ServiceInit
<1>2. TellInv /\ LockInv /\ [ServiceNext]_<<part, workerVars, signInVars, cacheVars, stateVars>>
      => TellInv' /\ LockInv'
  BY NextTellInv, NextLockInv DEF ServiceNext
<1>3. TellInv /\ LockInv => JobsRunOnceAndTell
  BY TellsRunning, LocksRuns DEF JobsRunOnceAndTell
<1> QED  BY <1>1, <1>2, <1>3, PTL DEF ServiceSpec

\* One callback gets in per login, a token row has its user row, and a cache that
\* failed to save is saved with the next call (auth_state.py, token_service.py,
\* device_code.py), whatever the interleaving of callbacks, logins and refreshes.
THEOREM SignInsAreAlwaysKept == ServiceSpec => []SignInsAreKept
<1>1. ServiceInit => SignInAndCacheInv
  BY InitSignInInv, InitCacheInv DEF ServiceInit, SignInAndCacheInv
<1>2. SignInAndCacheInv /\ [ServiceNext]_<<part, workerVars, signInVars, cacheVars, stateVars>>
      => SignInAndCacheInv'
  BY NextSignInInv, NextCacheInv DEF ServiceNext, SignInAndCacheInv
<1>3. SignInAndCacheInv => SignInsAreKept
  BY WinnersAreOne DEF SignInAndCacheInv, CacheInv, SignInsAreKept
<1> QED  BY <1>1, <1>2, <1>3, PTL DEF ServiceSpec

\* JsonStateStore and InMemoryStateStore hold the same documents, whatever was
\* put, mutated after a get or a put, deleted or dropped, until one job's put
\* replaces the file with one made of an older read (state.py:87-90).
THEOREM StoresAgreeUntilAnOverlap == ServiceSpec => []OnlyAnOverlapLoses
<1>1. ServiceInit => StateInv  BY InitStateInv DEF ServiceInit
<1>2. StateInv /\ [ServiceNext]_<<part, workerVars, signInVars, cacheVars, stateVars>> => StateInv'
  BY NextStateInv DEF ServiceNext
<1>3. StateInv => OnlyAnOverlapLoses  BY DEF StateInv
<1> QED  BY <1>1, <1>2, <1>3, PTL DEF ServiceSpec
-----------------------------------------------------------------------------
(* GraphTransport *)

\* What one request can add to the count.
LEMMA AppliesOnceAtMost ==
    ASSUME NEW answer \in Answers, NEW n \in {0} \cup MayApply(answer),
           answer = "ok" => n \in MayApply(answer)
    PROVE  /\ n \in {0, 1}
           /\ answer = "ok" => n = 1
           /\ answer \notin {"ok", "retryable", "fault"} => n = 0
           /\ ~Lost /\ answer # "ok" => n = 0
BY TransportAssumption DEF MayApply, Answers

\* The type invariant.
THEOREM TransportTypeCorrect == Spec => []TypeOK
<1>1. Init => TypeOK
  BY TransportAssumption DEF Init, TypeOK
<1>2. TypeOK /\ [Next]_vars => TypeOK'
  <2> SUFFICES ASSUME TypeOK, [Next]_vars PROVE TypeOK'
    OBVIOUS
  <2>0. /\ MaxRetries \in Nat /\ MaxEvents \in Nat /\ MaxCalls \in Nat
        /\ cached.id \in Nat /\ cached.fresh \in BOOLEAN
    BY TransportAssumption DEF TypeOK
  <2> USE <2>0 DEF TypeOK
  <2>1. CASE Call
    BY <2>1 DEF Call
  <2>2. CASE CachedToken
    BY <2>2 DEF CachedToken
  <2>3. CASE Refresh
    <3>1. cached' \in [id : Nat, fresh : BOOLEAN]
      BY <2>3 DEF Refresh
    <3>2. accepted' \subseteq Nat /\ bearer' \in Nat
      <4>1. /\ accepted' = accepted \cup {cached.id + 1} /\ accepted \subseteq Nat
            /\ bearer' = cached.id + 1 /\ cached.id + 1 \in Nat
        BY <2>3 DEF Refresh
      <4> HIDE DEF TypeOK
      <4> QED
        BY <4>1
    <3>3. pc' = "send" /\ attempt' = attempt /\ result' = result
      BY <2>3 DEF Refresh
    <3>4. UNCHANGED <<refusals, applied, events, calls>>
      BY <2>3 DEF Refresh
    <3> QED
      BY <3>1, <3>2, <3>3, <3>4
  <2>4. CASE RefreshFault
    BY <2>4 DEF RefreshFault, RetryOrRaise, NextAttempt, Raise, Endings
  <2>5. CASE RefreshRefused
    BY <2>5 DEF RefreshRefused, Raise, Endings
  <2>6. CASE Request
    <3>1. PICK answer \in Answers :
            /\ \E n \in {0} \cup MayApply(answer) : applied' = applied + n
            /\ IF answer = "unauthorized"
               THEN refusals' = refusals \cup {attempt}
               ELSE UNCHANGED refusals
            /\ Handle(answer)
      BY <2>6 DEF Request, Answers
    <3>2. applied' \in Nat
      BY <3>1 DEF MayApply
    <3>3. refusals' \subseteq 0..MaxRetries
      BY <3>1
    <3>4. pc' \in {"token", "done"} /\ attempt' \in 0..MaxRetries
          /\ result' \in Endings \cup {"none"}
      <4>1. \/ answer \in {"unauthorized"} /\ Handle401
            \/ answer \in {"retryable", "fault"}
               /\ \E end \in {"error", "transport"} : RetryOrRaise(end)
            \/ \E end \in {"ok", "notfound", "conflict", "error"} : Raise(end)
        BY <3>1 DEF Handle, Answers
      <4> QED
        BY <4>1 DEF Handle401, RetryOrRaise, NextAttempt, Raise, Endings
    <3> QED
      BY <2>6, <3>2, <3>3, <3>4 DEF Request
  <2>7. CASE Return
    BY <2>7 DEF Return
  <2>8. CASE Expire
    <3>1. cached' \in [id : Nat, fresh : BOOLEAN]
      BY <2>8 DEF Expire
    <3> QED
      BY <2>8, <3>1 DEF Expire
  <2>9. CASE Revoke
    <3>1. events' \in 0..MaxEvents
      BY <2>9 DEF Revoke
    <3>2. accepted' \subseteq Nat
      <4>1. accepted' = accepted \ {cached.id} /\ accepted \subseteq Nat
        BY <2>9 DEF Revoke
      <4> HIDE DEF TypeOK
      <4> QED
        BY <4>1
    <3>3. UNCHANGED <<pc, attempt, cached, bearer, applied, result, calls>>
      BY <2>9 DEF Revoke
    <3>4. UNCHANGED refusals
      BY <2>9 DEF Revoke
    <3> QED
      BY <3>1, <3>2, <3>3, <3>4
  <2>10. CASE UNCHANGED vars
    BY <2>10 DEF vars
  <2> QED
    BY <2>1, <2>2, <2>3, <2>4, <2>5, <2>6, <2>7, <2>8, <2>9, <2>10
       DEF Next, Client
<1> QED
  BY <1>1, <1>2, PTL DEF Spec

\* While attempts are left the request has been applied at most once for each
\* attempt already made, and not at all if no response is ever lost.
AttemptInv ==
    /\ pc \in {"token", "send"} => applied \in 0..attempt /\ (~Lost => applied = 0)
    /\ EndsInCallResults

\* EndsInCallResults: every call ends in a result of GraphOutcomes.CallResults,
\* for every number of retries.  Outbox draws its outcomes from that set.
THEOREM CallContract == Spec => []EndsInCallResults
<1>1. Init => AttemptInv
  BY DEF Init, AttemptInv, EndsInCallResults
<1>2. TypeOK /\ AttemptInv /\ [Next]_vars => AttemptInv'
  <2> SUFFICES ASSUME TypeOK, AttemptInv, [Next]_vars PROVE AttemptInv'
    OBVIOUS
  <2>0. MaxRetries \in Nat /\ Lost \in BOOLEAN /\ attempt \in 0..MaxRetries /\ applied \in Nat
    BY TransportAssumption DEF TypeOK
  <2> USE DEF AttemptInv, EndsInCallResults
  <2>1. CASE Call
    BY <2>0, <2>1 DEF Call
  <2>2. CASE CachedToken \/ Refresh
    BY <2>0, <2>2 DEF CachedToken, Refresh
  <2>3. ASSUME pc = "token", UNCHANGED applied, NEW end \in {"auth", "error"},
               RetryOrRaise(end) \/ Raise("error")
        PROVE  AttemptInv'
    <3>1. applied \in 0..attempt /\ (~Lost => applied = 0)
      BY <2>3
    <3>2. CASE pc' = "token" /\ attempt' = attempt + 1
      BY <2>0, <2>3, <3>1, <3>2
    <3>3. CASE /\ pc' = "done" /\ attempt' = attempt
               /\ result' \in {"auth", "error"}
      BY <2>0, <2>3, <3>1, <3>3 DEF CallResults, Endings
    <3> QED
      BY <2>0, <2>3, <3>2, <3>3 DEF RetryOrRaise, NextAttempt, Raise
  <2>4. CASE RefreshFault \/ RefreshRefused
    BY <2>3, <2>4 DEF RefreshFault, RefreshRefused
  <2>5. CASE Request
    <3>1. PICK answer \in Answers :
            /\ \E n \in {0} \cup MayApply(answer) :
                 /\ answer = "ok" => n \in MayApply(answer)
                 /\ applied' = applied + n
            /\ Handle(answer)
      BY <2>5 DEF Request, Answers
    <3>2. PICK n \in {0, 1} :
            /\ applied' = applied + n
            /\ answer = "ok" => n = 1
            /\ answer \notin {"ok", "retryable", "fault"} => n = 0
            /\ ~Lost /\ answer # "ok" => n = 0
      BY <3>1, AppliesOnceAtMost
    <3>3. applied \in 0..attempt /\ (~Lost => applied = 0)
      BY <2>5 DEF Request
    <3>4. CASE pc' = "token" /\ attempt' = attempt + 1
      <4>1. answer # "ok"
        BY <3>1, <3>4 DEF Handle, Raise
      <4> QED
        BY <2>0, <3>1, <3>2, <3>3, <3>4, <4>1
    <3>5. CASE pc' = "done" /\ attempt' = attempt
      <4>1. \/ answer = "ok" /\ result' = "ok"
            \/ answer \in {"notfound", "conflict"} /\ result' = answer
            \/ answer # "ok" /\ result' \in {"error", "transport"}
        BY <3>1, <3>5 DEF Handle, Handle401, RetryOrRaise, NextAttempt, Raise, Answers
      <4>2. CASE answer = "ok" /\ result' = "ok"
        BY <2>0, <3>1, <3>2, <3>3, <3>5, <4>2 DEF CallResults, Endings
      <4>3. CASE answer \in {"notfound", "conflict"} /\ result' = answer
        <5>1. applied' = applied
          BY <2>0, <3>2, <4>3
        <5> QED
          BY <2>0, <3>3, <3>5, <4>3, <5>1 DEF CallResults, Endings
      <4>4. CASE answer # "ok" /\ result' \in {"error", "transport"}
        <5>1. applied' \in 0..(MaxRetries + 1) /\ (~Lost => applied' = 0)
          BY <2>0, <3>2, <3>3, <4>4
        <5>2. [end |-> result', applied |-> applied'] \in CallResults(MaxRetries + 1, Lost)
          BY <2>0, <4>4, <5>1 DEF CallResults
        <5>3. pc' = "done"
          BY <3>5
        <5> QED
          BY <5>2, <5>3 DEF CallResults
      <4> QED
        BY <4>1, <4>2, <4>3, <4>4
    <3>6. \/ pc' = "token" /\ attempt' = attempt + 1
          \/ pc' = "done" /\ attempt' = attempt
      BY <3>1 DEF Handle, Handle401, RetryOrRaise, NextAttempt, Raise, Answers
    <3> QED
      BY <3>4, <3>5, <3>6
  <2>6. CASE Return \/ Expire \/ Revoke \/ UNCHANGED vars
    BY <2>6 DEF Return, Expire, Revoke, vars
  <2> QED
    BY <2>1, <2>2, <2>4, <2>5, <2>6 DEF Next, Client
<1>3. AttemptInv => EndsInCallResults
  BY DEF AttemptInv
<1> QED
  BY <1>1, <1>2, <1>3, TransportTypeCorrect, PTL DEF Spec
-----------------------------------------------------------------------------
(* IntentGate *)

\* The phases of a push that got past build_registry.
Past == {"ready", "parse_error", "claimed", "sending", "failed", "dispatched"}

Requests == {"create_draft", "create_stub", "read_stub", "merge", "update_draft", "attach",
             "put_file", "post_channel_message"}
RequestsOf(kind) == {r \in Requests : OpOf(r) \in DeclaredOps(kind)}

\* The registry is the configuration, and both of its guards have held.
Registered ==
    /\ DOMAIN definitions \subseteq Kinds
    /\ handlers = [o \in DOMAIN definitions |-> Handler(o)]
Guarded ==
    \A o \in DOMAIN definitions :
        definitions[o].authority = "draft_only" => DeclaresOnlyDrafts(o) /\ GrantedNoSend(o)

\* What makes NothingDraftOnlyCanSend inductive: the configuration is never looked
\* at again, so all that went out, or is about to, is what the kind of a registered
\* outbox declares, and went through the profile that outbox has.
SendsWhatItDeclares ==
    /\ at \in {"claimed", "sending"} => outbox \in DOMAIN definitions
    /\ at = "sending" => program \in Seq(RequestsOf(outbox))
    /\ \A r \in sent : /\ r.outbox \in DOMAIN definitions
                       /\ r.profile = definitions[r.outbox].profile
                       /\ r.op \in DeclaredOps(r.outbox)
GateInv ==
    /\ at \in Past \cup {"handlers"} => Registered
    /\ at \in Past => Guarded
    /\ sent # {} => at \in Past
    /\ SendsWhatItDeclares

\* Whatever EmailOutbox resolves, merges and attaches, it sends drafts.
LEMMA EmailRequests ==
    /\ CreateProgram \in Seq(Requests \ {"put_file", "post_channel_message"})
    /\ \A kind \in EmailKinds : RequestsOf(kind) = Requests \ {"put_file", "post_channel_message"}
<1> DEFINE Drafts == Requests \ {"put_file", "post_channel_message"}
<1>1. \A kind \in EmailKinds : RequestsOf(kind) = Drafts
  BY DEF RequestsOf, Requests, OpOf, DeclaredOps, DraftOnlyOps, EmailKinds
<1>2. {"create_draft", "create_stub", "read_stub", "merge", "attach"} \subseteq Drafts
  BY DEF Requests
<1> HIDE DEF Drafts
<1>3. Attach \in Seq(Drafts)  BY <1>2 DEF Attach
<1>4. CreateProgram \in Seq(Drafts)  BY <1>2, <1>3 DEF CreateProgram
<1> QED  BY <1>1, <1>4 DEF Drafts

\* Whatever the handler of a kind sends, the kind declares.
LEMMA ProgramIsDeclared ==
    ASSUME Registered, outbox \in DOMAIN definitions, Execute, at' = "sending"
    PROVE  program' \in Seq(RequestsOf(outbox))
<1>1. outbox \in Kinds /\ handlers[outbox].kind = outbox  BY DEF Registered, Handler
<1>2. CASE outbox \in EmailKinds
  <2>1. program' \in {<<"update_draft">>, CreateProgram}  BY <1>1, <1>2 DEF Execute
  <2>2. "update_draft" \in RequestsOf(outbox)
    BY <1>2, EmailRequests DEF Requests
  <2>3. CreateProgram \in Seq(RequestsOf(outbox))  BY <1>2, EmailRequests
  <2>4. <<"update_draft">> \in Seq(RequestsOf(outbox))  BY <2>2
  <2> QED  BY <2>1, <2>3, <2>4
<1>3. CASE outbox = "file.update"
  <2>1. program' = <<"put_file">>  BY <1>1, <1>3 DEF Execute, EmailKinds
  <2>2. "put_file" \in RequestsOf(outbox)
    BY <1>3 DEF RequestsOf, Requests, OpOf, DeclaredOps, EmailKinds
  <2> QED  BY <2>1, <2>2
<1>4. CASE outbox = "teams.post_message"
  <2>1. program' = <<"post_channel_message">>  BY <1>1, <1>4 DEF Execute, EmailKinds
  <2>2. "post_channel_message" \in RequestsOf(outbox)
    BY <1>4 DEF RequestsOf, Requests, OpOf, DeclaredOps, EmailKinds
  <2> QED  BY <2>1, <2>2
<1> QED  BY <1>1, <1>2, <1>3, <1>4 DEF Kinds

LEMMA InitGateInv == GateInit => GateInv
BY DEF GateInit, GateInv, Past, SendsWhatItDeclares

LEMMA NextGateInv == GateInv /\ [GateNext]_gateVars => GateInv'
<1> SUFFICES ASSUME GateInv, [GateNext]_gateVars PROVE GateInv'  OBVIOUS
<1> USE DEF GateInv, Past
<1>1. definitions' = definitions /\ granted' = granted
  BY DEF GateNext, BuildClients, BuildHandlers, BuildRegistry, Claim, Execute, Send, Dispatched,
         gateVars, config
<1>2. CASE BuildClients
  BY <1>1, <1>2 DEF BuildClients, Stop, SendsWhatItDeclares
<1>3. CASE BuildHandlers
  BY <1>1, <1>3 DEF BuildHandlers, Stop, SendsWhatItDeclares, Registered, Handler
<1>4. CASE BuildRegistry
  <2>1. at = "handlers" /\ UNCHANGED <<definitions, granted, sent, handlers>>
        /\ at' \in {"ready", "refused"} /\ (at' = "ready" => Guarded)
    BY <1>1, <1>4 DEF BuildRegistry, Stop, Guarded
  <2>2. Registered' /\ (at' = "ready" => Guarded')
    BY <2>1 DEF Registered, Handler, Guarded, DeclaresOnlyDrafts, GrantedNoSend, NoneForbidden
  <2>3. sent' = {}  BY <2>1
  <2> QED  BY <2>1, <2>2, <2>3 DEF SendsWhatItDeclares
<1>5. CASE at \in Past /\ handlers' = handlers /\ (Claim \/ Execute \/ Send \/ Dispatched \/ UNCHANGED gateVars)
  <2>1. Registered' /\ Guarded'
    BY <1>1, <1>5 DEF Registered, Handler, Guarded, DeclaresOnlyDrafts, GrantedNoSend, NoneForbidden
  <2>2. at' \in Past
    BY <1>5 DEF Claim, Execute, Send, Dispatched, gateVars
  <2>3. SendsWhatItDeclares'
    <3>1. CASE Claim  BY <1>1, <3>1 DEF Claim, SendsWhatItDeclares
    <3>2. CASE Execute
      <4>1. at = "claimed" /\ at' \in {"failed", "sending"} /\ UNCHANGED <<outbox, sent>>
        BY <3>2 DEF Execute
      <4>2. at' = "sending" => program' \in Seq(RequestsOf(outbox))
        BY <3>2, <4>1, <1>5, ProgramIsDeclared DEF SendsWhatItDeclares
      <4> QED  BY <1>1, <4>1, <4>2 DEF SendsWhatItDeclares
    <3>3. CASE Send
      <4> DEFINE request == [op |-> OpOf(Head(program)), outbox |-> outbox,
                             profile |-> handlers[outbox].profile]
      <4>1. /\ outbox \in DOMAIN definitions /\ program \in Seq(RequestsOf(outbox))
            /\ program # <<>> /\ sent' = sent \cup {request} /\ outbox' = outbox
        BY <3>3 DEF Send, SendsWhatItDeclares
      <4>2. handlers[outbox].profile = definitions[outbox].profile
        BY <1>5, <4>1 DEF Registered, Handler
      <4>3. /\ Head(program) \in RequestsOf(outbox) /\ Tail(program) \in Seq(RequestsOf(outbox))
        BY <4>1
      <4>4. OpOf(Head(program)) \in DeclaredOps(outbox)  BY <4>3 DEF RequestsOf
      <4>5. at' = "sending" => program' = Tail(program)  BY <3>3 DEF Send
      <4>6. at' # "claimed"  BY <3>3 DEF Send
      <4>7. \A r \in sent' : /\ r.outbox \in DOMAIN definitions
                             /\ r.profile = definitions[r.outbox].profile
                             /\ r.op \in DeclaredOps(r.outbox)
        <5> SUFFICES ASSUME NEW r \in sent'
                     PROVE  /\ r.outbox \in DOMAIN definitions
                            /\ r.profile = definitions[r.outbox].profile
                            /\ r.op \in DeclaredOps(r.outbox)
          OBVIOUS
        <5>1. CASE r \in sent  BY <5>1 DEF SendsWhatItDeclares
        <5>2. CASE r = request  BY <4>1, <4>2, <4>4, <5>2
        <5> QED  BY <4>1, <5>1, <5>2
      <4>8. at' = "sending" => program' \in Seq(RequestsOf(outbox))  BY <4>3, <4>5
      <4> QED  BY <1>1, <4>1, <4>6, <4>7, <4>8 DEF SendsWhatItDeclares
    <3>4. CASE Dispatched  BY <1>1, <3>4 DEF Dispatched, SendsWhatItDeclares
    <3>5. CASE UNCHANGED gateVars  BY <1>1, <3>5 DEF gateVars, SendsWhatItDeclares
    <3> QED  BY <1>5, <3>1, <3>2, <3>3, <3>4, <3>5
  <2> QED  BY <2>1, <2>2, <2>3
<1>6. CASE UNCHANGED gateVars /\ at \notin Past
  <2>1. UNCHANGED <<definitions, granted, at, handlers, outbox, program, sent>>
    BY <1>6 DEF gateVars
  <2> QED  BY <1>6, <2>1 DEF Registered, Handler, SendsWhatItDeclares
<1>7. Claim \/ Execute \/ Send \/ Dispatched => at \in Past /\ handlers' = handlers
  BY DEF Claim, Execute, Send, Dispatched
<1> QED  BY <1>2, <1>3, <1>4, <1>5, <1>6, <1>7 DEF GateNext, gateVars

LEMMA GateInvSuffices == GateInv => NothingDraftOnlyCanSend
<1> SUFFICES ASSUME GateInv, NEW r \in sent, definitions[r.outbox].authority = "draft_only"
             PROVE  /\ r.op \in DraftOnlyOps
                    /\ \A s \in granted[r.profile], t \in Forbidden : Fold(s) # Fold(t)
  BY DEF NothingDraftOnlyCanSend
<1>1. Registered /\ Guarded /\ r.outbox \in DOMAIN definitions
      /\ r.profile = definitions[r.outbox].profile /\ r.op \in DeclaredOps(r.outbox)
  BY DEF GateInv, SendsWhatItDeclares
<1>2. DeclaresOnlyDrafts(r.outbox) /\ NoneForbidden(r.profile)
  BY <1>1 DEF Guarded, GrantedNoSend
<1>3. handlers[r.outbox].kind = r.outbox  BY <1>1 DEF Registered, Handler
<1>4. r.op \in DraftOnlyOps  BY <1>1, <1>2, <1>3 DEF DeclaresOnlyDrafts
<1>5. \A s \in granted[r.profile], t \in Forbidden : Fold(s) # Fold(t)
  BY <1>2 DEF NoneForbidden
<1> QED  BY <1>4, <1>5
-----------------------------------------------------------------------------
(* DriveWrite *)

WriterPhases == {"idle", "tagged", "pulled", "put", "compare", "open", "done", "conflict", "failed"}
Documents == [at : WriterPhases, tag : Nat, text : Nat, large : BOOLEAN, seen : Nat,
              tries : Nat, wrote : BOOLEAN]

\* What makes LosesOnlyInItsWindow hold of every step: a writer that is idle knows
\* nothing of an earlier document, one that compares has an eTag and a text above
\* the ceiling, and an open session is that of a comparison that found the eTag, or
\* of a create.
OpensAfterComparing ==
    \A w \in Writers :
        /\ writer[w].at = "idle" => writer[w] = D!Idle
        /\ writer[w].at \in {"tagged", "pulled", "compare"} => writer[w].tag > 0
        /\ writer[w].at = "compare" => writer[w].large
        /\ writer[w].at = "open" =>
             \/ writer[w].large /\ writer[w].tag > 0 /\ writer[w].seen = writer[w].tag
             \/ writer[w].tag = 0
DriveTypeOK == item \in Nat /\ newest \in Nat /\ writer \in [Writers -> Documents]
DriveInv == DriveTypeOK /\ OpensAfterComparing

\* What one writer's step leaves.
Knows(doc) ==
    /\ doc \in Documents
    /\ doc.at = "idle" => doc = D!Idle
    /\ doc.at \in {"tagged", "pulled", "compare"} => doc.tag > 0
    /\ doc.at = "compare" => doc.large
    /\ doc.at = "open" => (doc.large /\ doc.tag > 0 /\ doc.seen = doc.tag) \/ doc.tag = 0

Turns(w, doc) == writer' = [writer EXCEPT ![w] = doc] /\ Knows(doc)

LEMMA EachKnows == DriveInv <=> item \in Nat /\ newest \in Nat
                                /\ writer \in [Writers -> Documents] /\ \A w \in Writers : Knows(writer[w])
BY DEF DriveInv, DriveTypeOK, OpensAfterComparing, Knows

LEMMA IdleKnows == Knows(D!Idle)
BY DEF D!Idle, Knows, Documents, WriterPhases

LEMMA WriterTurns ==
    ASSUME DriveInv, NEW w \in Writers,
           D!GetFile(w) \/ D!Create(w) \/ D!Update(w) \/ D!Compare(w) \/ D!PutBytes(w)
           \/ D!Session(w) \/ D!Again(w)
    PROVE  /\ item' \in Nat /\ newest' \in Nat
           /\ \E doc : Turns(w, doc)
<1>0. item \in Nat /\ newest \in Nat /\ writer[w] \in Documents /\ Knows(writer[w])
  BY EachKnows
<1>9. writer = [v \in Writers |-> writer[v]]  BY EachKnows
<1> USE DEF Knows, Documents, WriterPhases
<1>1. CASE D!GetFile(w)
  <2>1. CASE D!ReadTag(w)
    <3> DEFINE doc == [writer[w] EXCEPT !.at = "tagged", !.tag = item]
    <3>1. writer' = [writer EXCEPT ![w] = doc] /\ item > 0 /\ UNCHANGED <<item, newest>>
      BY <2>1 DEF D!ReadTag
    <3>2. Knows(doc)  BY <1>0, <3>1
    <3> QED  BY <1>0, <3>1, <3>2 DEF Turns
  <2>2. CASE D!ReadText(w)
    <3> DEFINE doc == [writer[w] EXCEPT !.at = "pulled", !.text = item]
    <3>1. /\ writer[w].at = "tagged" /\ UNCHANGED <<item, newest>>
          /\ writer' = [writer EXCEPT ![w] = D!Idle] \/ writer' = [writer EXCEPT ![w] = doc]
      BY <2>2 DEF D!ReadText
    <3>2. Knows(doc)  BY <1>0, <3>1
    <3> QED  BY <1>0, <3>1, <3>2, IdleKnows DEF Turns
  <2> QED  BY <1>1, <2>1, <2>2 DEF D!GetFile
<1>2. CASE D!Create(w)
  <2>1. PICK big \in BOOLEAN :
          /\ writer[w].at = "idle" /\ UNCHANGED <<item, newest>>
          /\ \/ writer' = [writer EXCEPT ![w] = D!Idle]
             \/ writer' = [writer EXCEPT ![w] = [writer[w] EXCEPT !.at = IF big THEN "open" ELSE "put", !.large = big]]
    BY <1>2 DEF D!Create
  <2> DEFINE doc == [writer[w] EXCEPT !.at = IF big THEN "open" ELSE "put", !.large = big]
  <2>2. writer[w].tag = 0  BY <1>0, <2>1 DEF D!Idle
  <2>3. doc \in Documents  BY <1>0
  <2>4. doc.at \in {"open", "put"} /\ doc.tag = 0  BY <1>0, <2>2
  <2>5. Knows(doc)
    <3> HIDE DEF doc
    <3> QED  BY <2>3, <2>4
  <2> QED  BY <1>0, <2>1, <2>5, IdleKnows DEF Turns
<1>3. CASE D!Update(w)
  <2>1. PICK big \in BOOLEAN :
          /\ writer[w].at = "pulled" /\ UNCHANGED <<item, newest>>
          /\ writer' = [writer EXCEPT ![w].at = IF big THEN "compare" ELSE "put", ![w].large = big]
    BY <1>3 DEF D!Update
  <2> DEFINE doc == [writer[w] EXCEPT !.at = IF big THEN "compare" ELSE "put", !.large = big]
  <2>2. writer' = [writer EXCEPT ![w] = doc]  BY <2>1
  <2>3. doc \in Documents /\ doc.tag = writer[w].tag /\ doc.at \in {"compare", "put"}
    BY <1>0
  <2>4. doc.at = "compare" => doc.large  BY <1>0
  <2>5. Knows(doc)
    <3>1. writer[w].tag > 0  BY <1>0, <2>1
    <3> HIDE DEF doc
    <3> QED  BY <2>3, <2>4, <3>1
  <2> QED  BY <1>0, <2>1, <2>2, <2>5 DEF Turns
<1>4. CASE D!Compare(w)
  <2> DEFINE doc == [writer[w] EXCEPT !.at = IF item = writer[w].tag THEN "open" ELSE "conflict", !.seen = item]
  <2>1. /\ writer[w].at = "compare" /\ UNCHANGED <<item, newest>>
        /\ writer' = [writer EXCEPT ![w] = doc]
    BY <1>4 DEF D!Compare, D!Conforms, D!Matches
  <2>2. /\ doc \in Documents /\ doc.tag = writer[w].tag /\ doc.large = writer[w].large
        /\ doc.at \in {"open", "conflict"} /\ (doc.at = "open" => doc.seen = writer[w].tag)
    BY <1>0
  <2>3. Knows(doc)
    <3>1. writer[w].tag > 0 /\ writer[w].large  BY <1>0, <2>1
    <3> HIDE DEF doc
    <3> QED  BY <2>2, <3>1
  <2> QED  BY <1>0, <2>1, <2>3 DEF Turns
<1>5. CASE D!PutBytes(w)
  <2>1. item' \in Nat /\ newest' \in Nat  BY <1>0, <1>5 DEF D!PutBytes, D!Written
  <2>2. CASE \E to \in {"done", "conflict"} : D!Goes(w, to)
    <3>1. PICK to \in {"done", "conflict"} : D!Goes(w, to)  BY <2>2
    <3> DEFINE doc == [writer[w] EXCEPT !.at = to]
    <3>2. writer' = [writer EXCEPT ![w] = doc]  BY <3>1 DEF D!Goes
    <3>3. Knows(doc)  BY <1>0
    <3> QED  BY <2>1, <3>2, <3>3 DEF Turns
  <2>3. CASE writer' = [writer EXCEPT ![w].tries = @ + 1, ![w].wrote = TRUE]
    <3> DEFINE doc == [writer[w] EXCEPT !.tries = @ + 1, !.wrote = TRUE]
    <3>1. writer' = [writer EXCEPT ![w] = doc]  BY <2>3
    <3>2. writer[w].at = "put"  BY <1>5 DEF D!PutBytes
    <3>3. writer[w].tries + 1 \in Nat  BY <1>0
    <3>4. doc \in Documents /\ doc.at = "put"  BY <1>0, <3>2, <3>3
    <3>5. Knows(doc)
      <4> HIDE DEF doc
      <4> QED  BY <3>4
    <3> QED  BY <2>1, <3>1, <3>5 DEF Turns
  <2> QED  BY <1>5, <2>2, <2>3 DEF D!PutBytes
<1>6. CASE D!Session(w)
  <2>1. item' \in Nat /\ newest' \in Nat  BY <1>0, <1>6 DEF D!Session, D!Written
  <2>2. PICK to \in {"done", "failed"} : D!Goes(w, to)  BY <1>6 DEF D!Session
  <2> DEFINE doc == [writer[w] EXCEPT !.at = to]
  <2>3. writer' = [writer EXCEPT ![w] = doc]  BY <2>2 DEF D!Goes
  <2>4. Knows(doc)  BY <1>0
  <2> QED  BY <2>1, <2>3, <2>4 DEF Turns
<1>7. CASE D!Again(w)
  BY <1>0, <1>7, IdleKnows DEF D!Again, Turns
<1> QED  BY <1>1, <1>2, <1>3, <1>4, <1>5, <1>6, <1>7

LEMMA InitDriveInv == D!DriveInit => DriveInv
<1> SUFFICES ASSUME D!DriveInit PROVE DriveInv  OBVIOUS
<1>1. item \in Nat /\ newest \in Nat /\ writer = [w \in Writers |-> D!Idle]  BY DEF D!DriveInit
<1>2. D!Idle \in Documents  BY IdleKnows DEF Knows
<1> QED  BY <1>1, <1>2, IdleKnows, EachKnows

LEMMA NextDriveInv == DriveInv /\ [D!DriveNext]_driveVars => DriveInv'
<1> SUFFICES ASSUME DriveInv, [D!DriveNext]_driveVars PROVE DriveInv'  OBVIOUS
<1>0. item \in Nat /\ newest \in Nat /\ writer \in [Writers -> Documents]
      /\ \A w \in Writers : Knows(writer[w])
  BY EachKnows
<1>1. ASSUME NEW w \in Writers,
             D!GetFile(w) \/ D!Create(w) \/ D!Update(w) \/ D!Compare(w) \/ D!PutBytes(w)
             \/ D!Session(w) \/ D!Again(w)
      PROVE  DriveInv'
  <2>1. PICK doc : Turns(w, doc)  BY <1>1, WriterTurns
  <2>2. doc \in Documents  BY <2>1 DEF Turns, Knows
  <2>3. writer' \in [Writers -> Documents] /\ writer'[w] = doc
        /\ \A v \in Writers \ {w} : writer'[v] = writer[v]
    BY <1>0, <2>1, <2>2 DEF Turns
  <2>4. \A v \in Writers : Knows(writer'[v])  BY <1>0, <2>1, <2>3 DEF Turns
  <2>5. item' \in Nat /\ newest' \in Nat  BY <1>1, WriterTurns
  <2>6. OpensAfterComparing'  BY <2>4 DEF Knows, OpensAfterComparing
  <2> QED  BY <2>3, <2>5, <2>6 DEF DriveInv, DriveTypeOK
<1>2. CASE D!Edit \/ D!Delete
  <2>1. item' \in Nat /\ newest' \in Nat /\ writer' = writer
    BY <1>0, <1>2 DEF D!Edit, D!Delete, D!Written
  <2> QED  BY <2>1 DEF DriveInv, DriveTypeOK, OpensAfterComparing
<1>3. CASE UNCHANGED driveVars
  BY <1>3 DEF driveVars, DriveInv, DriveTypeOK, OpensAfterComparing
<1> QED  BY <1>1, <1>2, <1>3 DEF D!DriveNext

LEMMA WritesKeepTheWindow == DriveInv /\ [D!DriveNext]_driveVars => [D!LosesOnlyWhatItNames]_driveVars
<1> SUFFICES ASSUME DriveInv, D!DriveNext, NEW w \in Writers,
                    writer[w].at \in {"put", "open"}, item' # item, writer'[w] # writer[w], item # 0
             PROVE  \/ item = writer[w].tag
                    \/ writer[w].large /\ writer[w].tag > 0 /\ writer[w].seen = writer[w].tag
                    \/ writer[w].tag = 0
  BY DEF D!LosesOnlyWhatItNames
<1>1. writer \in [Writers -> Documents]  BY DEF DriveInv, DriveTypeOK
<1>2. CASE writer[w].at = "open"  BY <1>2 DEF DriveInv, OpensAfterComparing
<1>3. CASE writer[w].at = "put"
  <2>1. PICK v \in Writers : \/ D!GetFile(v) \/ D!Create(v) \/ D!Update(v) \/ D!Compare(v)
                             \/ D!PutBytes(v) \/ D!Session(v) \/ D!Again(v)
    BY DEF D!DriveNext, D!Edit, D!Delete
  <2>2. PICK doc : Turns(v, doc)  BY <2>1, WriterTurns
  <2>3. v = w  BY <1>1, <2>2 DEF Turns
  <2>4. D!PutBytes(w)
    BY <1>3, <2>1, <2>3 DEF D!GetFile, D!ReadTag, D!ReadText, D!Create, D!Update, D!Compare,
                            D!Session, D!Again
  <2> QED  BY <2>4 DEF D!PutBytes, D!Matches
<1> QED  BY <1>2, <1>3
-----------------------------------------------------------------------------
(* The three parts of MCWrites, of which a behaviour exercises one. *)

\* Nothing leaves a draft-only outbox that its authority excludes, or through an app
\* that may send mail (registry.py), whichever outboxes share a profile, whichever
\* intent is put into which directory, and however a scope is spelled.
THEOREM DraftOnlyNeverSends == WritesSpec => []NothingDraftOnlyCanSend
<1>1. WritesInit => GateInv  BY InitGateInv DEF WritesInit
<1>2. GateInv /\ [WritesNext]_<<side, gateVars, driveVars, reconcileVars>> => GateInv'
  BY NextGateInv DEF WritesNext
<1> QED  BY <1>1, <1>2, GateInvSuffices, PTL DEF WritesSpec

\* A write loses somebody else's version only after a session's comparison found the
\* eTag it was given, or after a create's look found nothing (files.py, upload.py).
THEOREM WritesLoseOnlyInTheirWindow == WritesSpec => LosesOnlyInItsWindow
<1>1. WritesInit => DriveInv  BY InitDriveInv DEF WritesInit
<1>2. DriveInv /\ [WritesNext]_<<side, gateVars, driveVars, reconcileVars>> => DriveInv'
  BY NextDriveInv DEF WritesNext
<1>3. DriveInv /\ [WritesNext]_<<side, gateVars, driveVars, reconcileVars>>
      => [D!LosesOnlyWhatItNames]_driveVars
  BY WritesKeepTheWindow DEF WritesNext
<1> QED  BY <1>1, <1>2, <1>3, PTL DEF WritesSpec, LosesOnlyInItsWindow
=============================================================================
