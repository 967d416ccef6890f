----------------------------- MODULE MCService -----------------------------
(* Model checking Worker, SignIn and StateFiles: they are independent of   *)
(* one another, as are sign-in and the token cache, and a behaviour        *)
(* exercises one of them.                                                  *)
EXTENDS Worker, StateFiles, TLC

CONSTANTS States, Handlers, Providers, Clients, MaxVersion

VARIABLES part, begun, present, old, handler, spent, grants, user, stored, provider,
          disk, version, client

S == INSTANCE SignIn

signInVars == <<begun, present, old, handler, spent, grants, user, stored, provider>>
cacheVars == <<disk, version, client>>

ServiceInit == part \in {"worker", "signin", "cache", "state"} /\ WorkerInit /\ S!SignInInit /\ S!CacheInit /\ StateInit
ServiceNext ==
    \/ part = "worker" /\ WorkerNext /\ UNCHANGED <<part, signInVars, cacheVars, stateVars>>
    \/ part = "signin" /\ S!SignInNext /\ UNCHANGED <<part, workerVars, cacheVars, stateVars>>
    \/ part = "cache" /\ S!CacheNext /\ UNCHANGED <<part, workerVars, signInVars, stateVars>>
    \/ part = "state" /\ StateNext /\ UNCHANGED <<part, workerVars, signInVars, cacheVars>>
ServiceSpec == ServiceInit /\ [][ServiceNext]_<<part, workerVars, signInVars, cacheVars, stateVars>>

Symmetry == Permutations(Procs) \cup Permutations(Jobs) \cup Permutations(Conns)

\* SignIn: of the callbacks that come back with one state token, one gets in, and
\* there is no token row without its user row.
OneWinnerPerState == S!OneWinnerPerState
\* SignIn: a refresh never puts an earlier sign-in's tokens back.
SignInSticks == S!SignInSticks
\* SignIn: what a process has not published stays marked for publication.
UnpublishedStaysDirty == S!UnpublishedStaysDirty
\* SignIn: the file never goes back to an earlier cache.
NewestStays == S!NewestStays
\* Worker: no job runs twice at once, and none ends untold.
JobsRunOnceAndTell == OneRunPerJob /\ RunningIsTold
\* SignIn: a sign-in is given to one callback, and no token is lost on its way to the file.
SignInsAreKept == OneWinnerPerState /\ UnpublishedStaysDirty
=============================================================================
