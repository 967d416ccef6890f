------------------------------- MODULE Worker -------------------------------
(***************************************************************************)
(* The multi-user sync worker (m365_brain/worker.py) over the tables of    *)
(* models.py: one job per (user, extractor) pair, a polling loop that      *)
(* submits the due jobs to a thread pool, an advisory lock of the database *)
(* that keeps two workers from running the same job, a status row per job. *)
(* Processes run the loop side by side (the thread in the admin app, the   *)
(* worker service of docker-compose.yaml).                                 *)
(*                                                                         *)
(* The lock belongs to a database session, which is a pooled connection,   *)
(* and every operation takes whichever connection the pool hands it: the   *)
(* one that releases need not be the one that acquired.  A connection of   *)
(* Overflow is closed when it is given back, and its locks go with it.     *)
(*                                                                         *)
(* Bounds: MaxHold (times one connection takes one lock), MaxFailures      *)
(* (database operations that fail), MaxCrashes.                            *)
(***************************************************************************)
EXTENDS Naturals, FiniteSets

CONSTANTS Procs, Jobs, Conns, Overflow, MaxWorkers, MaxHold, MaxFailures, MaxCrashes

VARIABLES due,       \* job -> user and extractor are enabled, and it never ran or its interval has passed
          status,    \* job -> ExtractorStatus.status, "none" before the first row
          held,      \* process -> connection -> job -> times the lock is held
          worker,    \* process -> what its loop does
          todo,      \* process -> due jobs of this cycle it has not tried to lock
          job,       \* process -> job -> where its future is
          failures, crashes

workerVars == <<due, status, held, worker, todo, job, failures, crashes>>
-----------------------------------------------------------------------------
(* What a job may raise.  GraphApiError and ExtractorError do not get as   *)
(* far: run_extractors logs them and goes on.                              *)
Errors == {"TokenRefreshError", "AuthTransportError", "ConfigError", "AuthCodeError"}
DbError == "OperationalError"

KnownErrors == {"TokenRefreshError", "AuthTransportError", "ConfigError"}
(* MUTANT: the job's except spells the tuple out without AuthTransportError. *)
FourErrors == KnownErrors \ {"AuthTransportError"}
JobCatches == KnownErrors

None == [at |-> "none", err |-> "none"]
At(phase) == [at |-> phase, err |-> "none"]
Raising(phase, e) == [at |-> phase, err |-> e]

Active == {"queued", "working", "reporting", "failing", "releasing", "unwinding"}
Running(p, j) == job[p][j].at \in Active \ {"queued"}

WorkerInit ==
    /\ due \in [Jobs -> BOOLEAN]
    /\ status = [j \in Jobs |-> "none"]
    /\ held = [p \in Procs |-> [c \in Conns |-> [j \in Jobs |-> 0]]]
    /\ worker = [p \in Procs |-> "asleep"]
    /\ todo = [p \in Procs |-> {}]
    /\ job = [p \in Procs |-> [j \in Jobs |-> None]]
    /\ failures = 0 /\ crashes = 0
-----------------------------------------------------------------------------
(* get_due_jobs: one query, taken once a cycle. *)
DueJobs == {j \in Jobs : due[j]}

Poll(p) ==
    /\ worker[p] = "asleep" /\ DueJobs # {}
    /\ worker' = [worker EXCEPT ![p] = "submitting"]
    /\ todo' = [todo EXCEPT ![p] = DueJobs]
    /\ UNCHANGED <<due, status, held, job, failures, crashes>>

(* The session of this connection may take the lock: no other session has it. *)
Free(p, c, j) == \A q \in Procs, d \in Conns : held[q][d][j] > 0 => <<q, d>> = <<p, c>>

(* What connection c holds once it is back in the pool. *)
GivenBack(p, c, locks) ==
    [held EXCEPT ![p][c] = IF c \in Overflow THEN [j \in Jobs |-> 0] ELSE locks]

Acquired(p, c, j) == GivenBack(p, c, [held[p][c] EXCEPT ![j] = @ + 1])
(* MUTANT: pg_try_advisory_xact_lock, which the end of the transaction drops. *)
AcquiredForTransaction(p, c, j) == GivenBack(p, c, held[p][c])
Locked(p, c, j) == Acquired(p, c, j)

(* pg_advisory_unlock: on a session that does not hold the lock, a warning. *)
Unlocked(p, c, j) ==
    GivenBack(p, c, [held[p][c] EXCEPT ![j] = IF @ = 0 THEN 0 ELSE @ - 1])

TryLock(p, j) ==
    /\ worker[p] = "submitting" /\ j \in todo[p]
    /\ todo' = [todo EXCEPT ![p] = @ \ {j}]
    /\ \E c \in Conns :
        \/ /\ Free(p, c, j) /\ held[p][c][j] < MaxHold
           /\ held' = Locked(p, c, j)
           /\ job' = [job EXCEPT ![p][j] = At("queued")]
        \/ /\ ~Free(p, c, j)
           /\ UNCHANGED <<held, job>>
    /\ UNCHANGED <<due, status, worker, failures, crashes>>

(* upsert_extractor_status: last_run_at is written with every status, the  *)
(* first one included, so a job that has started is not due.               *)
Upserted(j, s) ==
    /\ status' = [status EXCEPT ![j] = s]
    /\ due' = [due EXCEPT ![j] = FALSE]

(* The first status row is written outside the try. *)
Begin(p, j) ==
    /\ job[p][j].at = "queued"
    /\ Cardinality({k \in Jobs : Running(p, k)}) < MaxWorkers
    /\ Upserted(j, "running")
    /\ job' = [job EXCEPT ![p][j] = At("working")]
    /\ UNCHANGED <<held, worker, todo, failures, crashes>>

(* run_extractors: it returns, or the token provider, the storage or the   *)
(* configuration raises.                                                   *)
Work(p, j) ==
    /\ job[p][j].at = "working"
    /\ \/ job' = [job EXCEPT ![p][j] = At("reporting")]
       \/ \E e \in Errors :
            job' = [job EXCEPT ![p][j] =
                      IF e \in JobCatches THEN At("failing") ELSE Raising("unwinding", e)]
    /\ UNCHANGED <<due, status, held, worker, todo, failures, crashes>>

Report(p, j) ==
    /\ \/ job[p][j].at = "reporting" /\ Upserted(j, "success")
       \/ job[p][j].at = "failing" /\ Upserted(j, "failed")
    /\ job' = [job EXCEPT ![p][j] = At("releasing")]
    /\ UNCHANGED <<held, worker, todo, failures, crashes>>

(* The finally clause, on whichever connection the pool hands out. *)
Release(p, j) ==
    /\ job[p][j].at \in {"releasing", "unwinding"}
    /\ \E c \in Conns : held' = Unlocked(p, c, j)
    /\ job' = [job EXCEPT ![p][j].at = IF @ = "releasing" THEN "done" ELSE "raised"]
    /\ UNCHANGED <<due, status, worker, todo, failures, crashes>>

(* A database operation of a job fails.  Before the try and in the finally *)
(* clause nothing unlocks; in between the finally clause still does.       *)
DbFails(p, j) ==
    /\ failures < MaxFailures /\ failures' = failures + 1
    /\ \/ /\ job[p][j].at \in {"queued", "releasing", "unwinding"}
          /\ job' = [job EXCEPT ![p][j] = Raising("raised", DbError)]
       \/ /\ job[p][j].at \in {"reporting", "failing"}
          /\ job' = [job EXCEPT ![p][j] = Raising("unwinding", DbError)]
    /\ UNCHANGED <<due, status, held, worker, todo, crashes>>

(* as_completed over the futures: a known error is logged, any other goes  *)
(* through the loop and ends the worker once the pool has shut down.  The  *)
(* process and its pooled connections live on.                             *)
Collect(p) ==
    /\ worker[p] = "submitting" /\ todo[p] = {}
    /\ \A j \in Jobs : job[p][j].at \notin Active
    /\ worker' = [worker EXCEPT ![p] =
                    IF \E j \in Jobs : job[p][j].at = "raised" /\ job[p][j].err \notin KnownErrors
                    THEN "dead" ELSE "asleep"]
    /\ job' = [job EXCEPT ![p] = [j \in Jobs |-> None]]
    /\ UNCHANGED <<due, status, held, todo, failures, crashes>>
-----------------------------------------------------------------------------
(* The process is killed and started again: its sessions end. *)
Crash(p) ==
    /\ crashes < MaxCrashes /\ crashes' = crashes + 1
    /\ held' = [held EXCEPT ![p] = [c \in Conns |-> [j \in Jobs |-> 0]]]
    /\ worker' = [worker EXCEPT ![p] = "asleep"]
    /\ todo' = [todo EXCEPT ![p] = {}]
    /\ job' = [job EXCEPT ![p] = [j \in Jobs |-> None]]
    /\ UNCHANGED <<due, status, failures>>

(* poll_interval_minutes have passed, or a toggle enabled the pair. *)
Comes(j) ==
    /\ ~due[j] /\ due' = [due EXCEPT ![j] = TRUE]
    /\ UNCHANGED <<status, held, worker, todo, job, failures, crashes>>

(* toggle_extractor or toggle_user_enabled: the row flips, and the pair is *)
(* in no later query; a cycle that has asked already keeps it.             *)
TurnedOff(j) ==
    /\ due[j] /\ due' = [due EXCEPT ![j] = FALSE]
    /\ UNCHANGED <<status, held, worker, todo, job, failures, crashes>>

WorkerNext ==
    \/ \E p \in Procs : Poll(p) \/ Collect(p) \/ Crash(p)
    \/ \E p \in Procs, j \in Jobs :
          TryLock(p, j) \/ Begin(p, j) \/ Work(p, j) \/ Report(p, j) \/ Release(p, j) \/ DbFails(p, j)
    \/ \E j \in Jobs : Comes(j) \/ TurnedOff(j)
-----------------------------------------------------------------------------
(* Two workers never run the same job at the same time (try_advisory_lock, *)
(* release_advisory_lock): two runs would share the user's state file and  *)
(* vault.  The lock survives being given back to the pool, and the release *)
(* on a session that does not hold it frees nothing.                       *)
OneRunPerJob ==
    \A p, q \in Procs, j \in Jobs : Running(p, j) /\ Running(q, j) => p = q

(* A status row that says running is told the truth by a job that runs, or *)
(* a process has died or is dying on an error the worker does not know     *)
(* (the comment on _KNOWN_ERRORS: a site that spelled the tuple out kept   *)
(* saying running forever while its worker carried on).                    *)
RunningIsTold ==
    \A j \in Jobs : status[j] = "running" =>
        \/ crashes > 0
        \/ \E p \in Procs :
             \/ Running(p, j) \/ worker[p] = "dead"
             \/ \E k \in Jobs : job[p][k].at = "raised" /\ job[p][k].err \notin KnownErrors

(* What the comment on _KNOWN_ERRORS promises for every error a job raises *)
(* (worker.py:46): once its worker is rid of a job, no row says running.   *)
NothingKeepsSayingRunning ==
    \A j \in Jobs : status[j] = "running" => crashes > 0 \/ \E p \in Procs : Running(p, j)
=============================================================================
