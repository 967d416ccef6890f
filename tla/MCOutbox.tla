------------------------------- MODULE MCOutbox -------------------------------
(***************************************************************************)
(* Small instances of Outbox.  "mail" drafts, "news" would send if a human   *)
(* had approved it; uuid "b" exists in both, so that one of its intents is   *)
(* overtaken by the other.                                                   *)
(***************************************************************************)
EXTENDS Outbox

MCListing == <<<<"mail", "a">>, <<"mail", "b">>, <<"news", "a">>, <<"news", "b">>>>
MCAuthority == [o \in Outboxes |-> IF o = "mail" THEN "draft_only"
                                                 ELSE "human_approval"]
\* Every authority at once, for the liveness runs.
EveryListing == <<<<"gone", "a">>, <<"gone", "b">>, <<"mail", "a">>, <<"mail", "b">>,
                  <<"news", "a">>, <<"news", "b">>, <<"post", "a">>, <<"post", "b">>,
                  <<"shut", "a">>, <<"shut", "b">>>>
EveryAuthority == [o \in Outboxes |->
    CASE o = "mail" -> "draft_only" [] o = "post" -> "auto_send"
      [] o = "shut" -> "never_auto" [] o = "news" -> "human_approval"
      [] OTHER -> "unregistered"]

\* Every file is a well-formed intent; or one of each other kind is among them.
AllOk == [p \in Outboxes \X Uuids |-> "ok"]
Mixed == [AllOk EXCEPT ![<<"mail", "b">>] = "wrong_kind",
                       ![<<"news", "b">>] = "malformed"]
OneUndecodable == [AllOk EXCEPT ![<<"mail", "a">>] = "undecodable"]

\* A new draft with an attachment, and an upload: nothing after the request
\* that creates something but the attachments, whose failures are final.
PlainPrograms ==
    [o \in Outboxes |-> {<<"create">>, <<"fetch", "create", "attach">>}]
\* A reply: createReply, read the draft it made, patch it, attach.
ReplyPrograms == [o \in Outboxes |-> {<<"create", "fetch", "patch", "attach">>}]

\* Outbox, CONTRACTS.md "one outcome per intent": a claim goes only after its
\* receipt is archived, and every intent of a pass is in one bucket of its counts.
ReceiptsAndCounts == ClaimOutlivesReceipt /\ EveryIntentInOneBucket
===============================================================================
