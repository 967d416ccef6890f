----------------------------- MODULE IntentGate -----------------------------
(***************************************************************************)
(* From a configuration and a file to requests: the clients and handlers   *)
(* of a push (commands/outbox.py, m365/outboxes), the registry and its two *)
(* guards (outbox/registry.py), the intent file (vault/intent.py,          *)
(* vault/payloads.py, commands/teams.py), and what the handler then sends  *)
(* (outboxes/email.py and rendering.py, attachments.py, teams.py,          *)
(* files.py).  The lifecycle of the file around this is Outbox.            *)
(*                                                                         *)
(* A scope name is what Fold makes of it up to case.  A body is the set of *)
(* its parts: the author's text, the signature, Graph's quoted original.   *)
(***************************************************************************)
EXTENDS Naturals, Sequences

CONSTANTS Outboxes,      \* names a configuration may define
          Profiles, Confidential,
          Scopes, Forbidden, Fold(_),
          HasSignature, HasLogo

VARIABLES definitions,   \* outboxes.definitions: name -> [authority, profile]
          granted,       \* auth.profiles: profile -> scopes
          at,            \* where the push is, or "refused" at its start
          handlers,      \* name -> [kind, profile]
          intent,        \* the file, then the envelope, of the intent at hand
          outbox,        \* the directory it was found in
          program,       \* requests its handler has still to send
          sent,          \* requests sent: [op, outbox, profile]
          draft          \* the message: [body, files]

gateVars == <<definitions, granted, at, handlers, intent, outbox, program, sent, draft>>
config == <<definitions, granted>>
-----------------------------------------------------------------------------
EmailKinds == {"email.draft", "email.reply", "email.forward"}
Kinds == EmailKinds \cup {"teams.post_message", "file.update"}
Authorities == {"never_auto", "human_approval", "draft_only", "auto_send"}
DraftOnlyOps == {"create_draft", "update_draft", "attach"}
DeclaredOps(kind) ==
    CASE kind \in EmailKinds -> DraftOnlyOps
      [] kind = "teams.post_message" -> {"post_channel_message"}
      [] kind = "file.update" -> {"put_file"}

NoDraft == [body |-> {}, files |-> {}]
NoIntent == [kind |-> "none"]

GateInit ==
    /\ definitions \in UNION {[D -> [authority : Authorities, profile : Profiles]] : D \in SUBSET Outboxes \ {{}}}
    /\ granted \in UNION {[P -> SUBSET Scopes] : P \in SUBSET Profiles}
    /\ at = "start" /\ handlers = <<>> /\ intent = NoIntent /\ outbox = "none"
    /\ program = <<>> /\ sent = {} /\ draft = NoDraft

Stop == at' = "refused" /\ UNCHANGED handlers

(* _clients: a client for each profile an outbox names. *)
Wanted == {definitions[o].profile : o \in DOMAIN definitions}
BuildClients ==
    /\ at = "start"
    /\ IF Wanted \subseteq DOMAIN granted \ Confidential
       THEN at' = "clients" /\ UNCHANGED handlers
       ELSE Stop
    /\ UNCHANGED <<config, intent, outbox, program, sent, draft>>

(* build_handlers: one per definition, bound to the client of its profile. *)
Handler(o) == [kind |-> o, profile |-> definitions[o].profile]
BuildHandlers ==
    /\ at = "clients"
    /\ IF DOMAIN definitions \subseteq Kinds
       THEN at' = "handlers" /\ handlers' = [o \in DOMAIN definitions |-> Handler(o)]
       ELSE Stop
    /\ UNCHANGED <<config, intent, outbox, program, sent, draft>>

(* build_registry: the same set of names, and the two guards. *)
SameSets == DOMAIN definitions = DOMAIN handlers
DeclaresOnlyDrafts(o) == DeclaredOps(handlers[o].kind) \subseteq DraftOnlyOps
(* MUTANT: the scopes are compared as they are spelled. *)
NoneAsSpelled(p) == granted[p] \cap Forbidden = {}
NoneForbidden(p) == {Fold(s) : s \in granted[p]} \cap {Fold(s) : s \in Forbidden} = {}
GrantedNoSend(o) == definitions[o].profile \in DOMAIN granted /\ NoneForbidden(definitions[o].profile)

BuildRegistry ==
    /\ at = "handlers"
    /\ IF SameSets /\ \A o \in DOMAIN definitions : definitions[o].authority = "draft_only"
                                                       => DeclaresOnlyDrafts(o) /\ GrantedNoSend(o)
       THEN at' = "ready" /\ UNCHANGED handlers
       ELSE Stop
    /\ UNCHANGED <<config, intent, outbox, program, sent, draft>>
-----------------------------------------------------------------------------
(* A file by what parse_intent and the validators look at.  Every file has *)
(* at most one thing wrong with it.                                        *)
GoodFile(kind) ==
    [kind |-> kind, yaml |-> TRUE, payload |-> "mapping", uuid |-> "stem", created |-> "datetime",
     fields |-> "declared", path |-> "inside", replies |-> "graph id",
     signed |-> TRUE, image |-> TRUE, revises |-> "none"]
Files == UNION {
    {[GoodFile(k) EXCEPT !.path = p] : p \in {"none", "inside", "missing", "symlink", "absolute", ".."}}
    \cup {[GoodFile(k) EXCEPT !.signed = FALSE, !.image = i] : i \in BOOLEAN}
    \cup {[GoodFile(k) EXCEPT !.revises = r] : r \in {"draft", "sent", "gone"}}
    \cup {[GoodFile(k) EXCEPT !.payload = p] : p \in {"missing", "holds body", "beside body"}}
    \cup {[GoodFile(k) EXCEPT !.fields = f] : f \in {"extra", "missing"}}
    \cup {[GoodFile(k) EXCEPT !.yaml = FALSE], [GoodFile(k) EXCEPT !.uuid = "other"],
          [GoodFile(k) EXCEPT !.created = "text"], [GoodFile(k) EXCEPT !.replies = "MAPI id"]} : k \in Kinds \cap Outboxes}

RejectsPath(f) == f.kind \in EmailKinds /\ f.path \in {"absolute", ".."}
RejectsEntryId(f) == f.kind \in {"email.reply", "email.forward"} /\ f.replies = "MAPI id"

(* model_validate of the strict envelope and of the payload its kind names. *)
Validates(f) ==
    /\ f.kind \in Kinds /\ f.fields = "declared" /\ f.created = "datetime"
    /\ ~RejectsPath(f) /\ ~RejectsEntryId(f)

Parses(f) ==
    /\ f.yaml
    /\ f.payload = "mapping"    \* no body key beside it or in it
    /\ Validates(f)
    /\ f.uuid = "stem"

(* `teams post` writes created_at as text, which YAML quotes and reads back *)
(* as text: the ISO string dump_intent says it must not write.              *)
PostedFile == [GoodFile("teams.post_message") EXCEPT !.created = "text"]
Post == IF "teams.post_message" \in DOMAIN definitions THEN {PostedFile} ELSE {}

Claim ==
    /\ at = "ready"
    /\ \E o \in DOMAIN definitions, f \in Files \cup Post :
         outbox' = o /\ intent' = f /\ at' = IF Parses(f) THEN "claimed" ELSE "parse_error"
    /\ UNCHANGED <<config, handlers, program, sent, draft>>
-----------------------------------------------------------------------------
(* EmailOutbox._resolve: the signature and its logo, and every file that   *)
(* will be attached, before the first request.                             *)
Signature == HasSignature /\ intent.signed
(* MUTANT: the logo goes with the configuration and not with the signature. *)
AlwaysLogo == HasLogo
Logo == HasLogo /\ Signature
Assets ==
    (IF intent.path = "none" THEN {} ELSE {"file"})
        \cup (IF Logo THEN {"logo"} ELSE {}) \cup (IF intent.image THEN {"image"} ELSE {})
Resolves == intent.path \in {"none", "inside"}

(* compose_with_signature, and merge_reply_body around it. *)
Composed == {"text"} \cup IF Signature THEN {"signature"} ELSE {}
Merged(quoted) == Composed \cup quoted

Attach == IF Assets = {} THEN <<>> ELSE <<"attach">>
CreateProgram == (IF intent.kind = "email.draft" THEN <<"create_draft">>
                                                 ELSE <<"create_stub", "read_stub", "merge">>) \o Attach
Revises == intent.revises # "none"
Stale == intent.revises \in {"sent", "gone"}

(* The handler: the kind is the registered name, and the rest depends on it. *)
Execute ==
    /\ at = "claimed"
    /\ LET kind == handlers[outbox].kind
           email == kind \in EmailKinds
           refused == \/ definitions[outbox].authority \in {"never_auto", "human_approval"}
                      \/ intent.kind # kind
                      \/ email /\ ~Resolves
                      \/ email /\ Revises /\ kind # "email.draft"
       IN /\ at' = IF refused THEN "failed" ELSE "sending"
          /\ program' = IF refused THEN <<>>
                        ELSE IF ~email THEN IF kind = "file.update" THEN <<"put_file">> ELSE <<"post_channel_message">>
                        ELSE IF Revises /\ ~Stale THEN <<"update_draft">> ELSE CreateProgram
    /\ UNCHANGED <<config, handlers, intent, outbox, sent, draft>>

OpOf(request) ==
    IF request \in {"create_stub", "read_stub"} THEN "create_draft"
    ELSE IF request = "merge" THEN "update_draft" ELSE request

Made(request) ==
    CASE request = "create_draft" -> [body |-> Composed, files |-> {}]
      [] request = "create_stub" -> [body |-> {"quote"}, files |-> {}]
      [] request = "merge" -> [draft EXCEPT !.body = Merged(draft.body)]
      [] request = "update_draft" -> [body |-> Composed, files |-> {"logo", "image"}]
      [] request = "attach" -> [draft EXCEPT !.files = Assets]
      [] OTHER -> draft

Send ==
    /\ at = "sending" /\ program # <<>>
    /\ sent' = sent \cup {[op |-> OpOf(Head(program)), outbox |-> outbox, profile |-> handlers[outbox].profile]}
    /\ \/ draft' = Made(Head(program)) /\ program' = Tail(program) /\ UNCHANGED at
       \/ at' = "failed" /\ program' = <<>> /\ UNCHANGED draft
    /\ UNCHANGED <<config, handlers, intent, outbox>>

Dispatched ==
    /\ at = "sending" /\ program = <<>> /\ at' = "dispatched"
    /\ UNCHANGED <<config, handlers, intent, outbox, program, sent, draft>>

GateNext == BuildClients \/ BuildHandlers \/ BuildRegistry \/ Claim \/ Execute \/ Send \/ Dispatched
-----------------------------------------------------------------------------
(* Nothing goes out of a draft-only outbox that its authority excludes, and *)
(* nothing goes out of it through an app that may send mail, however the   *)
(* scope is spelled (registry.py, build_handlers): whichever profiles the  *)
(* outboxes share, and whichever intent was put into which directory.      *)
NothingDraftOnlyCanSend ==
    \A r \in sent : definitions[r.outbox].authority = "draft_only" =>
        r.op \in DraftOnlyOps /\ \A s \in granted[r.profile], t \in Forbidden : Fold(s) # Fold(t)

(* A dispatched email is whole: the text, the signature exactly when it was *)
(* asked for and with its logo, the quoted original of what it answers,     *)
(* and no image without a reference to it (email.py, rendering.py).         *)
DraftIsWhole ==
    at = "dispatched" /\ intent.kind \in EmailKinds =>
        /\ "text" \in draft.body
        /\ "signature" \in draft.body <=> HasSignature /\ intent.signed
        /\ "quote" \in draft.body <=> intent.kind # "email.draft"
        /\ intent.revises # "draft" =>
             /\ "logo" \in draft.files <=> HasLogo /\ "signature" \in draft.body
             /\ intent.path = "inside" => "file" \in draft.files

(* `teams post` writes an intent that `outbox push` dispatches: no intent it *)
(* wrote is refused for the way it is written.                             *)
PostedIntentParses == at = "parse_error" => intent \notin Post
=============================================================================
