------------------------------- MODULE Documents -------------------------------
(***************************************************************************)
(* A page from its record and back: the front matter and body lines the    *)
(* extractors write (m365/frontmatter/) and what the markdown parsers make *)
(* of a document (parsers/): its properties, observations and relations.   *)
(* ops/ reads the facts of a record only in the form the parsers leave     *)
(* them in, so the two have to fit.  A behaviour is one document, written  *)
(* or found, and what is read of it.                                       *)
(*                                                                         *)
(* A value of the front matter is [sort, of]; a line of a body says which  *)
(* parts it has: [form, category, before, links, tail, tags].              *)
(***************************************************************************)
EXTENDS Integers, Sequences, FiniteSets, SequencesExt, FiniteSetsExt

CONSTANTS
    Records,      \* what the extractors have to write, by kind
    Found,        \* documents nobody here wrote: [fence, meta, body]
    Structural,   \* config: keys that state nothing
    None

VARIABLES input, entity
vars == <<input, entity>>

Scalar(v) == [sort |-> "scalar", of |-> v]
Many(v) == [sort |-> "list", of |-> v]
Nested == [sort |-> "dict", of |-> None]

Prose == [form |-> "prose", category |-> None, before |-> None, links |-> <<>>, tail |-> "", tags |-> {}]
EdgeLine(type, name, tail) == [Prose EXCEPT !.form = "item", !.before = type, !.links = <<name>>, !.tail = tail]
FactLine(category, fact) == [Prose EXCEPT !.form = "item", !.category = category, !.before = fact]
Given(s) == SelectSeq(s, LAMBDA v : v # None)
Page(meta, body) == [fence |-> "closed", meta |-> meta, body |-> body]

-----------------------------------------------------------------------------
(* The pages.  What a reader of one entity can get at has to be a scalar or  *)
(* a line of the body: a list or a mapping stays in the metadata.            *)

\* Mutant: the recipients as Graph lists them.
EmailPageWithList(r) ==
    Page([title |-> Scalar(r.subject), type |-> Scalar("email"), tags |-> Many(<<"email", r.folder>>),
          sender |-> Scalar(r.sender), to |-> Many(r.to), date |-> Scalar(r.date), folder |-> Scalar(r.folder),
          conversation_id |-> Scalar(r.conversation), message_id |-> Scalar(r.id), source |-> Nested], r.text)
EmailPage(r) ==
    Page([title |-> Scalar(r.subject), type |-> Scalar("email"), tags |-> Many(<<"email", r.folder>>),
          sender |-> Scalar(r.sender), to |-> Scalar(r.to), date |-> Scalar(r.date), folder |-> Scalar(r.folder),
          conversation_id |-> Scalar(r.conversation), message_id |-> Scalar(r.id), source |-> Nested], r.text)

\* attendee_relations: the details, or the names; a name, or else an address.
Attended(r) ==
    LET details == IF r.details # <<>> THEN r.details
                   ELSE [i \in DOMAIN r.attendees |-> [name |-> r.attendees[i], email |-> None]]
        target(d) == IF d.name # None THEN d.name ELSE d.email
    IN  [i \in DOMAIN SelectSeq(details, LAMBDA d : target(d) # None) |->
            LET d == SelectSeq(details, LAMBDA x : target(x) # None)[i]
            IN  EdgeLine("attended_by", target(d), IF d.email \in {None, target(d)} THEN "" ELSE "(context)")]
CalendarPage(r) ==
    Page([title |-> Scalar(r.subject), type |-> Scalar("calendar_event"), tags |-> Many(<<"calendar">>),
          start |-> Scalar(r.start), organizer |-> Scalar(r.organizer), attendees |-> Many(r.attendees),
          attendee_details |-> Many(r.details), is_recurring |-> Scalar("True"), source |-> Nested],
         Attended(r) \o r.text)

\* participant_relations
ChatPage(r) ==
    Page([title |-> Scalar(r.title), type |-> Scalar("teams_chat"), tags |-> Many(<<"teams", "teams-" \o r.type>>),
          participants |-> Many(r.people), last_message_time |-> Scalar(r.last), message_count |-> Scalar("2"),
          history_complete |-> Scalar("True"), source |-> Nested],
         [i \in DOMAIN Given(r.people) |-> EdgeLine("participant", Given(r.people)[i], "")] \o r.text)
ChannelPage(r) ==
    Page([title |-> Scalar(r.team), type |-> Scalar("teams_channel"), tags |-> Many(<<"teams", "teams-channel">>),
          channel |-> Scalar(r.channel), last_message_time |-> Scalar(r.last), source |-> Nested], r.text)

\* address_observations: the addresses are a list above, and a line each below.
ContactPage(r) ==
    Page([title |-> Scalar(r.name), type |-> Scalar("contact"), tags |-> Many(<<"contact">>),
          email |-> Many(r.addresses), company |-> Scalar(r.company), source |-> Nested],
         [i \in DOMAIN Given(r.addresses) |-> FactLine("email", Given(r.addresses)[i])] \o r.text)
UserPage(r) ==
    Page([title |-> Scalar(r.name), type |-> Scalar("directory_user"), tags |-> Many(<<"directory">>),
          email |-> Scalar(r.address), upn |-> Scalar(r.upn), manager |-> Scalar(r.manager), source |-> Nested],
         (IF r.manager = None THEN <<>> ELSE <<EdgeLine("manager", r.manager, "")>>)
         \o [i \in DOMAIN r.reports |-> EdgeLine(None, r.reports[i], "")] \o r.text)
\* The status of a drive item's content, as a key and as an observation.
FilePage(r) ==
    Page([title |-> Scalar(r.name), type |-> Scalar("onedrive_file"), tags |-> Many(<<"onedrive">>),
          modified |-> Scalar(r.modified), content_status |-> Scalar(r.status), source |-> Nested],
         <<FactLine("content_status", r.status)>> \o r.text)

Written(r) == CASE r.kind = "email" -> EmailPage(r) [] r.kind = "event" -> CalendarPage(r)
                [] r.kind = "chat" -> ChatPage(r) [] r.kind = "channel" -> ChannelPage(r)
                [] r.kind = "contact" -> ContactPage(r) [] r.kind = "user" -> UserPage(r)
                [] r.kind = "file" -> FilePage(r)

-----------------------------------------------------------------------------
(* The parsers. *)

\* parse_frontmatter: a block that does not close, parse or hold a mapping is
\* body, every line of it.
Split(doc) == IF doc.fence = "closed" THEN doc
              ELSE [doc EXCEPT !.meta = <<>>, !.body = (IF doc.fence = "none" THEN <<>> ELSE <<Prose>>) \o @]

\* parse_observations: an item with a category or a tag; not a task.
IsObservation(l) == l.form = "item" /\ (l.category # None \/ l.tags # {})
\* _split_context: a parenthesis at the end, unless a link is in it.
Context(l) == IF l.tail = "(context)" THEN l.tail ELSE None
Observed(body) ==
    LET lines == SelectSeq(body, IsObservation)
    IN  [i \in DOMAIN lines |-> [category |-> IF lines[i].category \in {None, "[]"} THEN "note" ELSE lines[i].category,
                                 fact |-> lines[i].before, tags |-> lines[i].tags, context |-> Context(lines[i])]]

\* _promoted_observations: the scalars that are not structural, unless the body
\* states the category itself.
Named == {"title", "type", "permalink", "tags"}
PromotedKeys(meta, stated) ==
    {k \in DOMAIN meta \ (Named \cup Structural) :
        meta[k].sort = "scalar" /\ meta[k].of # None /\ k \notin {o.category : o \in Range(stated)}}
Promoted(meta, stated) ==
    LET keys == SetToSeq(PromotedKeys(meta, stated))
    IN  [i \in DOMAIN keys |-> [category |-> keys[i], fact |-> meta[keys[i]].of, tags |-> {}, context |-> None]]

\* _parse_explicit: the first link of an item, typed by what stands before it.
Explicit(body) ==
    LET lines == SelectSeq(body, LAMBDA l : l.form = "item" /\ l.links # <<>>)
    IN  [i \in DOMAIN lines |-> [type |-> IF lines[i].before = None THEN "relates_to" ELSE lines[i].before,
                                 to |-> lines[i].links[1]]]
\* _parse_inline: every link of a line that is no item.
Inline(body) ==
    LET lines == SelectSeq(body, LAMBDA l : l.form = "prose")
        links == FlattenSeq([i \in DOMAIN lines |-> lines[i].links])
    IN  [i \in DOMAIN links |-> [type |-> "links_to", to |-> links[i]]]
\* Mutant: the first of the two lists to name a target wins.
OncePerTarget(edges) ==
    SelectSeq(edges, LAMBDA e : e = edges[Min({i \in DOMAIN edges : edges[i].to = e.to})])
\* parse_relations: once by type and target, the explicit ones first.
Distinct(edges) ==
    LET first == {Min({i \in DOMAIN edges : edges[i] = e}) : e \in Range(edges)}
        at == SetToSortSeq(first, <)
    IN  [i \in DOMAIN at |-> edges[at[i]]]

\* extract_tags: a list, or a text with commas.
Tags(meta) == IF "tags" \in DOMAIN meta THEN meta["tags"].of ELSE <<>>
Value(meta, k, default) == IF k \in DOMAIN meta /\ meta[k].of # None THEN meta[k].of ELSE default

\* parse_markdown_file
Parse(doc) ==
    LET d == Split(doc)
        stated == Observed(d.body)
    IN  [title |-> Value(d.meta, "title", "stem"), type |-> Value(d.meta, "type", "note"), tags |-> Tags(d.meta),
         observations |-> stated \o Promoted(d.meta, stated),
         relations |-> Distinct(Explicit(d.body) \o Inline(d.body))]

-----------------------------------------------------------------------------
Init == input \in Records \cup Found /\ entity = None
Read == /\ entity = None
        /\ entity' = Parse(IF "kind" \in DOMAIN input THEN Written(input) ELSE input)
        /\ UNCHANGED input
Spec == Init /\ [][Read]_vars

-----------------------------------------------------------------------------
(* What ops/ asks of an entity, and how (config: ops.triage.fields,         *)
(* interaction_sources, link_resolution).                                   *)

Facts(category) == {o.fact : o \in {x \in Range(entity.observations) : x.category = category}}
Parties(type) == {e.to : e \in {x \in Range(entity.relations) : x.type = type}}
States(text, category) == \E l \in Range(text) : l.category = category

\* frontmatter/*.py: each fact the reports read of a record is read back from
\* its page: of a mail the six triage needs, unless its text states that
\* category, of an event and a chat everyone in it, of a contact and a user
\* every address, of a user the manager.
FactsReadBack ==
    (entity # None /\ "kind" \in DOMAIN input) =>
        LET r == input
            reads(category, v) == States(r.text, category) \/ Facts(category) = {v}
        IN  CASE r.kind = "email" -> /\ reads("sender", r.sender) /\ reads("to", r.to) /\ reads("date", r.date)
                                     /\ reads("folder", r.folder) /\ reads("conversation_id", r.conversation)
                                     /\ reads("message_id", r.id)
              [] r.kind = "event" -> Parties("attended_by") =
                    (IF r.details = <<>> THEN Range(Given(r.attendees))
                     ELSE {IF d.name = None THEN d.email ELSE d.name : d \in Range(r.details)} \ {None})
              [] r.kind = "chat" -> Parties("participant") = Range(Given(r.people))
              [] r.kind = "contact" -> Range(Given(r.addresses)) \subseteq Facts("email")
              [] r.kind = "user" -> /\ reads("email", r.address)
                                    /\ Parties("manager") = {r.manager} \ {None}
                                    /\ Parties("relates_to") = Range(r.reports)
              [] r.kind = "file" -> r.status \in Facts("content_status")
              [] r.kind = "channel" -> entity.type = "teams_channel"

\* parsers/*.py: a link of a document is an edge, once under each of its types,
\* but for the links of a task and those of an item after its first; an item
\* with a category or a tag is one observation and a key of the front matter at
\* most one; a document whose front matter does not parse loses no line.
DocumentIsRead ==
    (entity # None /\ "kind" \notin DOMAIN input) =>
        LET lines == Range(input.body)
            linked == UNION {Range(l.links) : l \in {x \in lines : x.form = "prose"}}
                      \cup {l.links[1] : l \in {x \in lines : x.form = "item" /\ x.links # <<>>}}
        IN  /\ {e.to : e \in Range(entity.relations)} = linked
            /\ Len(entity.relations) = Cardinality(Range(entity.relations))
            /\ \A l \in lines : l.form = "item" /\ l.links # <<>> /\ l.before # None =>
                  [type |-> l.before, to |-> l.links[1]] \in Range(entity.relations)
            /\ Cardinality({i \in DOMAIN input.body : IsObservation(input.body[i])})
               + Cardinality({k \in DOMAIN input.meta : Facts(k) # {} /\ ~States(input.body, k)})
               = Len(entity.observations)

\* relations.py: "so a link that appears both as a list item and again in prose
\* keeps the named type rather than the inline one".
NamedTypeIsKept == entity # None => \A e, f \in Range(entity.relations) : e.to = f.to /\ f.type = "links_to" => e.type = "links_to"
=============================================================================
