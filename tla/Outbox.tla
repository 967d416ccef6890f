-------------------------------- MODULE Outbox --------------------------------
(***************************************************************************)
(* The write-back outbox: `m365-brain outbox push`.                         *)
(*                                                                          *)
(* An author drops an intent, a markdown file, into an outbox directory.    *)
(* push (outbox/runner.py) walks the pending intents and, for each, claims  *)
(* it into the in-flight directory, routes it by the outbox's authority,    *)
(* runs the outbox's handler against Microsoft Graph, and archives intent   *)
(* and receipt.  FilesystemIntentStore (outbox/filesystem_store.py) has no  *)
(* rename: a claim, an archive and a release are each several file          *)
(* operations, and the process can die between any two of them or in the    *)
(* middle of a write.                                                       *)
(*                                                                          *)
(* Content is abstracted to the outbox an intent was submitted to: a file   *)
(* that holds "o" holds, byte for byte, what the author put into outbox o   *)
(* under that file's uuid.  One push runs at a time (one local process owns *)
(* a vault, state.py).                                                      *)
(***************************************************************************)
EXTENDS Naturals, Sequences, FiniteSets, GraphOutcomes

CONSTANTS
    Uuids,       \* the uuids authors use, the file stems of intents
    Outboxes,    \* the outbox names the store lists
    Listing,     \* every (outbox, uuid), in the order pending() lists files
    Authority,   \* outbox -> its configured authority, or "unregistered"
    Class,       \* (outbox, uuid) -> what the intent's file is like
    Programs,    \* outbox -> the request sequences its handler may go through
    Attempts,    \* graph.max_retries + 1
    Lost,        \* may Graph apply a request whose response is then lost?
    MaxFaults,   \* bound: calls that do not return a response
    MaxCrashes,  \* bound: deaths of the push process
    MaxSubmits   \* bound: files written by authors

Pairs == Outboxes \X Uuids
Authorities == {"never_auto", "human_approval", "draft_only", "auto_send",
                "unregistered"}
Classes == {"ok", "malformed", "undecodable", "wrong_kind"}
\* "create" makes something new (a draft, a post); "attach" adds to it inside
\* the try block of EmailOutbox._create; "fetch" and "patch" change nothing
\* that a second try would duplicate.
Requests == {"create", "attach", "fetch", "patch"}

ASSUME OutboxAssumption ==
    /\ IsFiniteSet(Uuids)
    /\ Listing \in Seq(Pairs)
    /\ \A p \in Pairs : \E i \in 1..Len(Listing) : Listing[i] = p
    /\ \A i, j \in 1..Len(Listing) : Listing[i] = Listing[j] => i = j
    /\ {"absent", "torn"} \cap Outboxes = {}
    /\ Authority \in [Outboxes -> Authorities]
    /\ Class \in [Pairs -> Classes]
    /\ Programs \in [Outboxes -> SUBSET (Seq(Requests) \ {<<>>})]
    /\ Attempts \in Nat \ {0}
    /\ Lost \in BOOLEAN
    /\ MaxFaults \in Nat /\ MaxCrashes \in Nat /\ MaxSubmits \in Nat

VARIABLES
    pending,    \* (outbox, uuid) -> "absent" | "whole" | "torn"
    inflight,   \* uuid -> "absent" | "torn" | the outbox its bytes came from
    archive,    \* archive directory -> uuid -> file, as for inflight
    receipt,    \* archive directory -> uuid -> "absent" | "torn" | reason
    copies,     \* uuid -> how many drafts or posts Graph made for it
    pc,         \* where the push process is
    snap,       \* list(store.pending()) at the start of the pass
    pos,        \* how far the pass is in Listing
    cur,        \* the (outbox, uuid) in hand
    held,       \* the content claim() read from the source file
    prog, step, \* the handler's requests, and the one in progress
    ending,     \* the reason its receipt will state
    counts,     \* PushCounts
    submitted,  \* history: the intents authors have submitted
    submits, faults, crashes \* what is used of the three bounds

files == <<pending, inflight, archive, receipt>>
local == <<pc, snap, pos, cur, held, prog, step, ending, counts>>
bounds == <<submitted, submits, faults, crashes>>
vars == <<files, copies, local, bounds>>

Dirs == {"processed", "failed"}
FileOf == Outboxes \cup {"absent", "torn"}
Reasons == {"dispatched", "tier_blocked", "no_approval_recorded",
            "etag_conflict", "graph_error", "attachment_missing",
            "parse_error", "unknown_outbox"}
Buckets == {"dispatched", "blocked", "failed", "deferred", "replayed",
            "contended", "inflight"}
Steps == {"idle", "pick", "claim", "claim_read", "claim_write",
          "claim_delete", "execute", "archive_intent", "archive_receipt",
          "archive_clear", "release_write", "release_clear"}

NoCounts == [b \in Buckets |-> 0]
Box == cur[1]
Uuid == cur[2]
CountsDown(b) == [counts EXCEPT ![b] = @ - 1]
Count(b) == [counts EXCEPT ![b] = @ + 1]
SkipsDispatchedOnly(u) == archive["processed"][u] # "absent"
AlreadyDispatched(u) == \E d \in Dirs : archive[d][u] # "absent"
DirOf(reason) == IF reason = "dispatched" THEN "processed" ELSE "failed"
BucketOf(reason) == CASE reason = "dispatched" -> "dispatched"
                      [] reason = "tier_blocked" -> "blocked"
                      [] OTHER -> "failed"
-------------------------------------------------------------------------------
Init ==
    /\ pending = [p \in Pairs |-> "absent"]
    /\ inflight = [u \in Uuids |-> "absent"]
    /\ archive = [d \in Dirs |-> [u \in Uuids |-> "absent"]]
    /\ receipt = [d \in Dirs |-> [u \in Uuids |-> "absent"]]
    /\ copies = [u \in Uuids |-> 0]
    /\ pc = "idle" /\ snap = {} /\ pos = 0
    /\ cur \in Pairs /\ cur = Listing[1]
    /\ held = "absent" /\ prog = <<>> /\ step = 0 /\ ending = "dispatched"
    /\ counts = NoCounts
    /\ submitted = {} /\ submits = 0 /\ faults = 0 /\ crashes = 0

\* An author writes an intent, or writes it again under the same uuid.
Submit(p) ==
    /\ submits < MaxSubmits
    /\ submits' = submits + 1
    /\ pending' = [pending EXCEPT ![p] = "whole"]
    /\ submitted' = submitted \cup {p}
    /\ UNCHANGED <<inflight, archive, receipt, copies, local, faults, crashes>>

StartPush ==
    /\ pc = "idle"
    /\ \E p \in Pairs : pending[p] # "absent"
    /\ snap' = {p \in Pairs : pending[p] # "absent"}
    /\ pos' = 0 /\ counts' = NoCounts /\ pc' = "pick"
    /\ UNCHANGED <<files, copies, cur, held, prog, step, ending, bounds>>

Remaining == {i \in (pos + 1)..Len(Listing) : Listing[i] \in snap}

\* The next intent of the pass; one already in an archive is skipped.
Pick ==
    /\ pc = "pick"
    /\ \E i \in Remaining :
         /\ \A j \in Remaining : i <= j
         /\ pos' = i /\ cur' = Listing[i]
         /\ IF AlreadyDispatched(Listing[i][2])
            THEN counts' = Count("replayed") /\ pc' = "pick"
            ELSE pc' = "claim" /\ UNCHANGED counts
    /\ UNCHANGED <<files, copies, snap, held, prog, step, ending, bounds>>

EndPass ==
    /\ pc = "pick" /\ Remaining = {}
    /\ counts' = [counts EXCEPT !["inflight"] =
                     Cardinality({u \in Uuids : inflight[u] # "absent"})]
    /\ pc' = "idle"
    /\ UNCHANGED <<files, copies, snap, pos, cur, held, prog, step, ending,
                   bounds>>

\* claim() refuses an intent that is in flight or whose file is gone.
ClaimsBlindly == pending[cur] = "absent"
ClaimRefused == inflight[Uuid] # "absent" \/ pending[cur] = "absent"

ContentionEndsPass ==
    /\ pc = "claim"
    /\ IF ClaimRefused
       THEN counts' = Count("contended") /\ pc' = "idle"
       ELSE pc' = "claim_read" /\ UNCHANGED counts
    /\ UNCHANGED <<files, copies, snap, pos, cur, held, prog, step, ending,
                   bounds>>
Claim ==
    /\ pc = "claim"
    /\ IF ClaimRefused
       THEN counts' = Count("contended") /\ pc' = "pick"
       ELSE pc' = "claim_read" /\ UNCHANGED counts
    /\ UNCHANGED <<files, copies, snap, pos, cur, held, prog, step, ending,
                   bounds>>

\* A file that is not UTF-8 raises out of claim(), and out of push().
ClaimRead ==
    /\ pc = "claim_read"
    /\ IF pending[cur] = "whole" /\ Class[cur] = "undecodable"
       THEN pc' = "idle" /\ UNCHANGED held
       ELSE /\ held' = IF pending[cur] = "whole" THEN Box ELSE pending[cur]
            /\ pc' = "claim_write"
    /\ UNCHANGED <<files, copies, snap, pos, cur, prog, step, ending, counts,
                   bounds>>

ClaimWrite ==
    /\ pc = "claim_write"
    /\ inflight' = [inflight EXCEPT ![Uuid] = held]
    /\ pc' = "claim_delete"
    /\ UNCHANGED <<pending, archive, receipt, copies, snap, pos, cur, held,
                   prog, step, ending, counts, bounds>>

\* The refusals of _dispatch_one: what the authority does not let execute.
Refusal(o) ==
    CASE Authority[o] = "unregistered"   -> "unknown_outbox"
      [] Authority[o] = "never_auto"     -> "tier_blocked"
      [] Authority[o] = "human_approval" -> "no_approval_recorded"
      [] OTHER                           -> "none"

Fail(reason) == ending' = reason /\ pc' = "archive_intent"

\* The end of claim(): the source goes, the content is parsed, and
\* _dispatch_one routes the envelope.  A torn file may or may not parse.
ClaimDelete ==
    /\ pc = "claim_delete"
    /\ pending' = [pending EXCEPT ![cur] = "absent"]
    /\ \/ /\ held = "torn" \/ Class[cur] = "malformed"
          /\ Fail("parse_error")
          /\ UNCHANGED <<prog, step>>
       \/ /\ Class[cur] # "malformed" /\ Refusal(Box) # "none"
          /\ Fail(Refusal(Box))
          /\ UNCHANGED <<prog, step>>
       \/ /\ Class[cur] # "malformed" /\ Refusal(Box) = "none"
          /\ prog' \in Programs[Box] /\ step' = 1
          /\ pc' = "execute" /\ UNCHANGED ending
    /\ UNCHANGED <<inflight, archive, receipt, copies, snap, pos, cur, held,
                   counts, bounds>>

\* The handler raises before its first request: a payload of another kind, an
\* attachment that is not there.
Refuse ==
    /\ pc = "execute" /\ step = 1
    /\ \/ Class[cur] = "wrong_kind" /\ Fail("graph_error") /\ UNCHANGED faults
       \/ /\ Class[cur] # "wrong_kind" /\ faults < MaxFaults
          /\ faults' = faults + 1 /\ Fail("attachment_missing")
    /\ UNCHANGED <<files, copies, snap, pos, cur, held, prog, step, counts,
                   submitted, submits, crashes>>

\* A transient failure is released, unless it was raised while attaching:
\* there EmailOutbox._create has cleared the flag.
ReleasesEveryTransient(res) == res.end = "auth"
Released(res) == res.end = "auth" /\ prog[step] # "attach"

\* One request of the handler, from the first attempt to the last.
Request ==
    /\ pc = "execute" /\ Class[cur] # "wrong_kind"
    /\ \E res \in CallResults(Attempts, Lost) :
         /\ copies' = IF prog[step] = "create"
                      THEN [copies EXCEPT ![Uuid] = @ + res.applied]
                      ELSE copies
         /\ IF res.end = "ok"
            THEN UNCHANGED faults
            ELSE faults < MaxFaults /\ faults' = faults + 1
         /\ CASE res.end = "ok" /\ step < Len(prog) ->
                   step' = step + 1 /\ UNCHANGED <<pc, ending>>
              [] res.end = "ok" /\ step = Len(prog) ->
                   Fail("dispatched") /\ UNCHANGED step
              [] res.end = "conflict" ->
                   Fail("etag_conflict") /\ UNCHANGED step
              [] Released(res) ->
                   pc' = "release_write" /\ UNCHANGED <<step, ending>>
              [] OTHER -> Fail("graph_error") /\ UNCHANGED step
    /\ UNCHANGED <<files, snap, pos, cur, held, prog, counts, submitted,
                   submits, crashes>>

\* archive(): the intent, the receipt beside it, and only then the claim.
ArchiveMovesIntent ==
    /\ pc = "archive_intent"
    /\ archive' = [archive EXCEPT ![DirOf(ending)][Uuid] = inflight[Uuid]]
    /\ inflight' = [inflight EXCEPT ![Uuid] = "absent"]
    /\ pc' = "archive_receipt"
    /\ UNCHANGED <<pending, receipt, copies, snap, pos, cur, held,
                   prog, step, ending, counts, bounds>>
ArchiveIntent ==
    /\ pc = "archive_intent"
    /\ archive' = [archive EXCEPT ![DirOf(ending)][Uuid] = inflight[Uuid]]
    /\ pc' = "archive_receipt"
    /\ UNCHANGED <<pending, inflight, receipt, copies, snap, pos, cur, held,
                   prog, step, ending, counts, bounds>>

ArchiveReceipt ==
    /\ pc = "archive_receipt"
    /\ receipt' = [receipt EXCEPT ![DirOf(ending)][Uuid] = ending]
    /\ pc' = "archive_clear"
    /\ UNCHANGED <<pending, inflight, archive, copies, snap, pos, cur, held,
                   prog, step, ending, counts, bounds>>

ArchiveClear ==
    /\ pc = "archive_clear"
    /\ inflight' = [inflight EXCEPT ![Uuid] = "absent"]
    /\ counts' = Count(BucketOf(ending))
    /\ pc' = "pick"
    /\ UNCHANGED <<pending, archive, receipt, copies, snap, pos, cur, held,
                   prog, step, ending, bounds>>

\* release(): the in-flight bytes go back into the outbox they came from.
ReleaseWrite ==
    /\ pc = "release_write"
    /\ pending' = [pending EXCEPT ![cur] =
                      IF inflight[Uuid] = "torn" THEN "torn" ELSE "whole"]
    /\ pc' = "release_clear"
    /\ UNCHANGED <<inflight, archive, receipt, copies, snap, pos, cur, held,
                   prog, step, ending, counts, bounds>>

DeferralNotCounted ==
    /\ pc = "release_clear"
    /\ inflight' = [inflight EXCEPT ![Uuid] = "absent"]
    /\ pc' = "pick"
    /\ UNCHANGED <<pending, archive, receipt, copies, snap, pos, cur, held,
                   prog, step, ending, counts, bounds>>
ReleaseClear ==
    /\ pc = "release_clear"
    /\ inflight' = [inflight EXCEPT ![Uuid] = "absent"]
    /\ counts' = Count("deferred")
    /\ pc' = "pick"
    /\ UNCHANGED <<pending, archive, receipt, copies, snap, pos, cur, held,
                   prog, step, ending, bounds>>

\* The process dies.  A write it was in the middle of leaves the old file, a
\* truncated one (write_text truncates before it writes), or is complete: the
\* last is a death just after the step.  A request on the wire may be applied.
Crash ==
    /\ pc # "idle" /\ crashes < MaxCrashes
    /\ crashes' = crashes + 1 /\ pc' = "idle"
    /\ \/ UNCHANGED <<files, copies>>
       \/ /\ pc = "claim_write"
          /\ inflight' = [inflight EXCEPT ![Uuid] = "torn"]
          /\ UNCHANGED <<pending, archive, receipt, copies>>
       \/ /\ pc = "archive_intent"
          /\ archive' = [archive EXCEPT ![DirOf(ending)][Uuid] = "torn"]
          /\ UNCHANGED <<pending, inflight, receipt, copies>>
       \/ /\ pc = "archive_receipt"
          /\ receipt' = [receipt EXCEPT ![DirOf(ending)][Uuid] = "torn"]
          /\ UNCHANGED <<pending, inflight, archive, copies>>
       \/ /\ pc = "release_write"
          /\ pending' = [pending EXCEPT ![cur] = "torn"]
          /\ UNCHANGED <<inflight, archive, receipt, copies>>
       \/ /\ pc = "execute" /\ prog[step] = "create"
          /\ Class[cur] # "wrong_kind"
          /\ copies' = [copies EXCEPT ![Uuid] = @ + 1]
          /\ UNCHANGED files
    /\ UNCHANGED <<snap, pos, cur, held, prog, step, ending, counts,
                   submitted, submits, faults>>

\* The human act of ADR 0017, between passes: an intent left in flight goes
\* back into its outbox once the operator has seen that Graph made nothing of
\* it; a truncated in-flight file is thrown away.
MoveBack(u) ==
    /\ pc = "idle" /\ inflight[u] # "absent" /\ copies[u] = 0
    /\ inflight' = [inflight EXCEPT ![u] = "absent"]
    /\ pending' = IF inflight[u] = "torn" THEN pending
                  ELSE [pending EXCEPT ![<<inflight[u], u>>] = "whole"]
    /\ UNCHANGED <<archive, receipt, copies, local, bounds>>

Runner == \/ StartPush \/ Pick \/ EndPass
          \/ Claim \/ ClaimRead \/ ClaimWrite \/ ClaimDelete
          \/ Refuse \/ Request
          \/ ArchiveIntent \/ ArchiveReceipt \/ ArchiveClear
          \/ ReleaseWrite \/ ReleaseClear

Next == \/ Runner
        \/ Crash
        \/ \E p \in Pairs : Submit(p)
        \/ \E u \in Uuids : MoveBack(u)

Spec == Init /\ [][Next]_vars

\* The scheduler that runs `outbox push` keeps running it, and a pass that has
\* started takes its next step unless the process dies.
FairSpec == Spec /\ WF_vars(Runner)
-------------------------------------------------------------------------------
(* Properties *)

\* Every variable has its type.
TypeOK ==
    /\ pending \in [Pairs -> {"absent", "whole", "torn"}]
    /\ inflight \in [Uuids -> FileOf]
    /\ archive \in [Dirs -> [Uuids -> FileOf]]
    /\ receipt \in [Dirs -> [Uuids -> Reasons \cup {"absent", "torn"}]]
    /\ copies \in [Uuids -> Nat]
    /\ pc \in Steps /\ snap \subseteq Pairs /\ pos \in 0..Len(Listing)
    /\ cur \in Pairs /\ held \in FileOf
    /\ prog \in Seq(Requests) /\ step \in Nat /\ ending \in Reasons
    /\ counts \in [Buckets -> Nat]
    /\ submitted \subseteq Pairs
    /\ submits \in 0..MaxSubmits /\ faults \in 0..MaxFaults
    /\ crashes \in 0..MaxCrashes

\* Whatever operation a death interrupts, the bytes of every intent an author
\* has submitted are whole in one place at least: its outbox, the in-flight
\* directory or an archive (claim, archive and release write the copy before
\* they delete the original).
Kept(p) == \/ pending[p] = "whole"
           \/ inflight[p[2]] = p[1]
           \/ \E d \in Dirs : archive[d][p[2]] = p[1]
NoIntentLost == \A p \in submitted : Kept(p)

\* A handler only ever runs on the intent of the outbox whose authority was
\* consulted, whole, and only if that authority is draft_only or auto_send:
\* neither a torn file nor one released or moved back into another outbox
\* reaches Graph (release() takes the outbox from its caller for this).
DispatchesOwnIntent ==
    pc = "execute" => /\ held = Box /\ inflight[Uuid] = Box
                      /\ Authority[Box] \in {"draft_only", "auto_send"}

\* "Repeating a send whose result is unknown duplicates mail, which is the
\* failure an outbox exists to prevent" (CONTRACTS.md): Graph makes at most one
\* draft or post for a uuid.
AtMostOneDraft == \A u \in Uuids : copies[u] <= 1

\* An intent that goes back into its outbox "has sent nothing" (CONTRACTS.md,
\* on AuthTransportError and release()).
DeferredSentNothing ==
    pc \in {"release_write", "release_clear"} => copies[Uuid] = 0

\* An archive entry without its receipt is never silent: it only exists while
\* the intent is still in flight, where push counts it for a human.
ClaimOutlivesReceipt ==
    \A u \in Uuids, d \in Dirs :
        /\ archive[d][u] # "absent" /\ receipt[d][u] \in {"absent", "torn"}
        => inflight[u] # "absent" \/ \E o \in Outboxes : pending[<<o, u>>] # "absent"

\* "Every intent lands in exactly one bucket" (PushCounts): between two intents
\* of a pass the buckets add up to the intents it has taken from its listing.
Taken == {i \in 1..pos : Listing[i] \in snap}
EveryIntentInOneBucket ==
    pc = "pick" => counts["dispatched"] + counts["blocked"] + counts["failed"]
                   + counts["deferred"] + counts["replayed"]
                   + counts["contended"] = Cardinality(Taken)

\* "A dispatched uuid is never dispatched twice" (runner.py): once an archive
\* holds a uuid, no later pass, crash, resubmission or operator changes what
\* Graph made for it or what the archive says.
Settled(u) == \E d \in Dirs : archive[d][u] # "absent"
NeverDispatchedTwice ==
    [][\A u \in Uuids : Settled(u) =>
          /\ copies'[u] = copies[u]
          /\ \A d \in Dirs : archive'[d][u] = archive[d][u]]_vars

\* "An in-flight intent is never auto-retried" (runner.py, ADR 0017): what is
\* in flight for any uuid but the one the running pass has claimed changes by
\* the operator's hand only, between passes.
Claimed(u) == /\ u = Uuid
              /\ pc \notin {"idle", "pick", "claim", "claim_read", "claim_write"}
OrphanStays ==
    [][\A u \in Uuids :
          inflight[u] # "absent" /\ ~Claimed(u) /\ pc # "idle" =>
              inflight'[u] = inflight[u] /\ copies'[u] = copies[u]]_vars

\* The inductive invariant behind the three.  What a step of the pass relies
\* on: from the claim's write to the archive's clear the in-flight file holds
\* the intent in hand, and until archive() writes, no archive knows the uuid.
Holding == {"claim_delete", "execute", "archive_intent", "archive_receipt",
            "archive_clear", "release_write", "release_clear"}
Unsettled == Steps \ {"idle", "pick", "archive_receipt", "archive_clear"}
PassInv ==
    /\ \A p \in Pairs : pending[p] = "torn" => inflight[p[2]] = p[1]
    /\ pc \in {"claim_read", "claim_write"} =>
          inflight[Uuid] = "absent" /\ pending[cur] = "whole"
    /\ pc = "claim_write" => held = Box
    /\ pc \in Holding => held = Box /\ inflight[Uuid] = Box /\ pending[cur] # "torn"
    /\ pc \in Unsettled => ~Settled(Uuid)
    /\ pc = "execute" => /\ Authority[Box] \in {"draft_only", "auto_send"}
                         /\ prog \in Programs[Box] /\ step \in 1..Len(prog)
    /\ pc \in {"archive_receipt", "archive_clear"} =>
          archive[DirOf(ending)][Uuid] = Box
    /\ pc = "release_clear" => pending[cur] = "whole"

\* What keeps a uuid to one draft when no response is lost and nothing but
\* attaching follows the request that creates something.
DraftInv ==
    /\ AtMostOneDraft
    /\ DeferredSentNothing
    /\ \A u \in Uuids :
          ~Settled(u) /\ inflight[u] \in {"absent", "torn"} => copies[u] = 0
    /\ pc = "claim_delete" => copies[Uuid] = 0
    /\ pc = "execute" =>
          copies[Uuid] = 0 \/ \E i \in 1..(step - 1) : prog[i] = "create"

\* The pass implements the ledger of intents.
StatusOf(u) == IF archive["processed"][u] # "absent" THEN "dispatched"
               ELSE IF archive["failed"][u] # "absent" THEN "failed"
               ELSE IF inflight[u] # "absent" THEN "claimed" ELSE "open"
Ledger == INSTANCE IntentLedger WITH status <- [u \in Uuids |-> StatusOf(u)],
                                     made <- copies
ImplementsLedger == Ledger!Spec

\* "One bad intent never blocks the rest" (runner.py): while passes keep being
\* run, a well-formed intent is archived in the end, or it is in flight, where
\* only a human acts.
IntentSettles ==
    \A p \in Pairs : Class[p] = "ok" =>
        (pending[p] = "whole" ~> Settled(p[2])
                                 \/ inflight[p[2]] # "absent")
===============================================================================
