---------------------------- MODULE GraphOutcomes ----------------------------
(***************************************************************************)
(* What one call of GraphClient (m365/client.py) can return or raise, seen  *)
(* by its caller, once execute_with_retry (m365/_retry.py) has spent its    *)
(* attempts.  A result says how the call ended and how often Microsoft      *)
(* Graph applied the request while it ran: every attempt is a request of    *)
(* its own, and an attempt whose response never arrives may have been       *)
(* applied all the same.  GraphTransport models the attempts and shows that *)
(* it ends in these results only.                                           *)
(***************************************************************************)
EXTENDS Naturals

\* How a call ends: "ok" returns a response; "auth" is AuthTransportError,
\* whose instance says transient = True; "transport" is httpx.TransportError;
\* "notfound" and "conflict" are HTTP 404 and 412; "error" is every other
\* exception (GraphApiError, AuthRequiredError, TokenCacheError, ...).
Endings == {"ok", "auth", "transport", "notfound", "conflict", "error"}

CallResult == [end : Endings, applied : Nat]

\* The results of a call that makes at most `attempts` attempts.  With `lost`
\* an attempt may be applied although its caller sees a failure (a read
\* timeout, a 504): then earlier attempts may have been applied too.
CallResults(attempts, lost) ==
    LET retried == IF lost THEN 0..(attempts - 1) ELSE {0}
    IN  {[end |-> "ok", applied |-> n + 1] : n \in retried}
        \cup [end : {"auth", "notfound", "conflict"}, applied : retried]
        \cup [end : {"transport", "error"},
              applied : IF lost THEN 0..attempts ELSE {0}]
===============================================================================
