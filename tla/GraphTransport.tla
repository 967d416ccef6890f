---------------------------- MODULE GraphTransport ----------------------------
(***************************************************************************)
(* One call of GraphClient, attempt by attempt: execute_with_retry and      *)
(* _handle_error_response (m365/_retry.py) over a token provider            *)
(* (m365/auth/token_provider.py, device_code.py).  Every attempt asks the   *)
(* provider for a token first; the provider answers from its cache as long  *)
(* as the cached token looks fresh by the clock.                            *)
(***************************************************************************)
EXTENDS Naturals, FiniteSets, GraphOutcomes

CONSTANTS
    MaxRetries, \* graph.max_retries
    Lost,       \* may Graph apply a request whose response is then lost?
    MaxEvents,  \* bound: expiries and revocations
    MaxCalls    \* bound: calls made

ASSUME TransportAssumption ==
    /\ MaxRetries \in Nat /\ Lost \in BOOLEAN
    /\ MaxEvents \in Nat /\ MaxCalls \in Nat

VARIABLES
    pc,       \* "idle", or where the attempt in progress is
    attempt,  \* the loop variable of execute_with_retry
    cached,   \* the provider's token: its number, and whether it looks fresh
    accepted, \* the tokens Graph accepts
    bearer,   \* the token in the headers of this attempt
    refusals, \* history of the call: the attempts answered with a 401
    applied,  \* how often Graph has applied the request of this call
    result,   \* how the call ended
    events, calls \* what is used of the two bounds

vars == <<pc, attempt, cached, accepted, bearer, refusals, applied, result, events,
          calls>>

\* Answers of Graph to a request: "retryable" is 429, 500, 502, 503 or 504,
\* "refused" any other failure, "fault" an httpx.TransportError.
Answers == {"ok", "unauthorized", "notfound", "conflict", "refused",
            "retryable", "fault"}

Init == /\ pc = "idle" /\ attempt = 0 /\ bearer = 0 /\ refusals = {}
        /\ cached = [id |-> 1, fresh |-> TRUE] /\ accepted = {1}
        /\ applied = 0 /\ result = "none" /\ events = 0 /\ calls = 0

Call == /\ pc = "idle" /\ calls < MaxCalls
        /\ calls' = calls + 1
        /\ pc' = "token" /\ attempt' = 0 /\ applied' = 0 /\ result' = "none"
        /\ refusals' = {}
        /\ UNCHANGED <<cached, accepted, bearer, events>>

Return == /\ pc = "done" /\ pc' = "idle"
          /\ UNCHANGED <<attempt, cached, accepted, bearer, refusals, applied, result,
                         events, calls>>

Raise(end) == pc' = "done" /\ result' = end /\ UNCHANGED attempt

\* Back to the top of the loop, or out of it with nothing raised inside.
NextAttempt == IF attempt < MaxRetries
               THEN attempt' = attempt + 1 /\ pc' = "token" /\ UNCHANGED result
               ELSE Raise("error")

\* A transport fault, Graph's or the identity provider's, is retried until the
\* last attempt, which raises it.
RetriesPastTheLast(end) == attempt' = attempt + 1 /\ pc' = "token" /\ UNCHANGED result
OneFaultForBoth(end) == IF attempt = MaxRetries THEN Raise("auth") ELSE NextAttempt
RetryOrRaise(end) == IF attempt = MaxRetries THEN Raise(end) ELSE NextAttempt

CachedToken ==
    /\ pc = "token" /\ cached.fresh
    /\ bearer' = cached.id /\ pc' = "send"
    /\ UNCHANGED <<attempt, cached, accepted, refusals, applied, result, events, calls>>

Refresh ==
    /\ pc = "token" /\ ~cached.fresh
    /\ cached' = [id |-> cached.id + 1, fresh |-> TRUE]
    /\ accepted' = accepted \cup {cached.id + 1}
    /\ bearer' = cached.id + 1 /\ pc' = "send"
    /\ UNCHANGED <<attempt, refusals, applied, result, events, calls>>

\* AuthTransportError: the identity provider cannot be reached.
RefreshFault ==
    /\ pc = "token" /\ ~cached.fresh
    /\ RetryOrRaise("auth")
    /\ UNCHANGED <<cached, accepted, bearer, refusals, applied, events, calls>>

\* AuthRequiredError, TokenRefreshError, AuthCodeError, TokenCacheError: not
\* retried, and not transient.
RefreshRefused ==
    /\ pc = "token" /\ ~cached.fresh
    /\ Raise("error")
    /\ UNCHANGED <<cached, accepted, bearer, refusals, applied, events, calls>>

\* The first attempt answers a 401 with another; a later one raises.
StaysOn401 == pc' = "token" /\ UNCHANGED <<attempt, result>>
RefreshesEvery401 == NextAttempt
Handle401 == IF attempt = 0 THEN NextAttempt ELSE Raise("error")

\* What an answer makes of the attempt.
Handle(answer) ==
    CASE answer = "ok"           -> Raise("ok")
      [] answer = "unauthorized" -> Handle401
      [] answer \in {"notfound", "conflict"} -> Raise(answer)
      [] answer = "refused"      -> Raise("error")
      [] answer = "retryable"    -> RetryOrRaise("error")
      [] answer = "fault"        -> RetryOrRaise("transport")

\* Whether Graph applied the request it gave this answer to.
MayApply(answer) ==
    CASE answer = "ok" -> {1}
      [] answer \in {"retryable", "fault"} -> IF Lost THEN {0, 1} ELSE {0}
      [] OTHER -> {0}

Request ==
    /\ pc = "send"
    /\ \E answer \in IF bearer \in accepted
                     THEN Answers \ {"unauthorized"}
                     ELSE {"unauthorized", "retryable", "fault"} :
         /\ \E n \in IF bearer \in accepted THEN MayApply(answer) ELSE {0} :
              applied' = applied + n
         /\ IF answer = "unauthorized"
            THEN refusals' = refusals \cup {attempt}
            ELSE UNCHANGED refusals
         /\ Handle(answer)
    /\ UNCHANGED <<cached, accepted, bearer, events, calls>>

\* Time passes: the cached token comes within the expiry buffer.
Expire == /\ events < MaxEvents /\ events' = events + 1
          /\ cached.fresh /\ cached' = [cached EXCEPT !.fresh = FALSE]
          /\ UNCHANGED <<pc, attempt, accepted, bearer, refusals, applied, result, calls>>

\* Graph stops accepting a token before its time (a password change, a revoked
\* session, an app consent that changed).
Revoke == /\ events < MaxEvents /\ events' = events + 1
          /\ cached.id \in accepted /\ accepted' = accepted \ {cached.id}
          /\ UNCHANGED <<pc, attempt, cached, bearer, refusals, applied, result, calls>>

Client == \/ CachedToken \/ Refresh \/ RefreshFault \/ RefreshRefused
          \/ Request \/ Return

Next == Call \/ Client \/ Expire \/ Revoke

Spec == Init /\ [][Next]_vars
FairSpec == Spec /\ WF_vars(Client)
-------------------------------------------------------------------------------
(* Properties *)

TypeOK ==
    /\ pc \in {"idle", "token", "send", "done"}
    /\ attempt \in 0..MaxRetries
    /\ cached \in [id : Nat, fresh : BOOLEAN]
    /\ accepted \subseteq Nat /\ bearer \in Nat
    /\ refusals \subseteq 0..MaxRetries
    /\ applied \in Nat
    /\ result \in Endings \cup {"none"}
    /\ events \in 0..MaxEvents /\ calls \in 0..MaxCalls

\* The contract the rest of the program is written against: a call ends in one
\* of CallResults, whatever order of refreshes, 401s, throttles and faults it
\* went through.  Outbox takes its requests' outcomes from this set.
EndsInCallResults ==
    pc = "done" =>
        [end |-> result, applied |-> applied] \in CallResults(MaxRetries + 1, Lost)

\* A token Graph refuses is offered twice at most in a call, however many
\* attempts are left: a 401 is not a condition to wait out.
TwoUnauthorizedAtMost ==
    Cardinality(refusals) <= 2

\* Every call ends: no order of 401s, expiries and faults keeps it going.
CallsEnd == (pc = "token") ~> (pc = "done")
===============================================================================
