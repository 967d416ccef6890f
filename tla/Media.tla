--------------------------------- MODULE Media ---------------------------------
(***************************************************************************)
(* The media of one Teams message: the files its attachments share and the *)
(* images in its body.  The message changes upstream, a reaction bumping   *)
(* its etag alone, and every sync that finds another etag makes the line *)
(* anew (_teams_ingest.py): from the prior copy, or by downloading *)
(* everything again.  A run may end before the store or the state it would *)
(* leave behind is written, with the files it downloaded on disk.          *)
(***************************************************************************)
EXTENDS Integers, Sequences, FiniteSets, SequencesExt

CONSTANTS
    AttachmentLists,   \* what a message may attach: sequences of [name, kind]
    Images,            \* the images a body may show, by their position
    Unwritten,
    MaxPosts           \* bound: how often the message changes

ASSUME MediaAssumption ==
    /\ \A l \in AttachmentLists : l \in Seq([name : {a.name : a \in Range(l)}, kind : {a.kind : a \in Range(l)}])
    /\ Unwritten \notin Nat

VARIABLES
    settings,     \* config: [attachments, images], what is downloaded
    message,      \* upstream: [etag, edited, deleted, body, files, images]
    copy,         \* the line of messages.jsonl: [etag, edited, deleted, body, shown, refs], or
                  \* Unwritten; a reference is at its attachment's position
    failed,       \* state["failed_attachments"]: names never asked for again
    disk,         \* the attachment directory: what each path holds, Unwritten at first
    interrupted   \* the files are those of a run that did not store what it made of them

mediaVars == <<settings, message, copy, failed, disk, interrupted>>

Names == {a.name : a \in UNION {Range(l) : l \in AttachmentLists}}
FilePaths == [of : {"file", "text"}, name : Names]
ImagePaths == [of : {"image"}, name : Images]
Attached(list, n) == [i \in DOMAIN list |-> [name |-> list[i].name, kind |-> list[i].kind, bytes |-> n * 10 + i]]

-----------------------------------------------------------------------------
(* Upstream. *)

Post(list, shown) == [etag |-> 1, edited |-> FALSE, deleted |-> FALSE, body |-> 1,
                      files |-> Attached(list, 1), images |-> shown]
Posts(m) == message.etag < MaxPosts /\ message' = m /\ UNCHANGED <<settings, copy, failed, disk, interrupted>>
Next1 == message.etag + 1
React == Posts([message EXCEPT !.etag = Next1])
\* Bound: a message is edited once, to one with the other images.
EditMessage(list, shown) ==
    /\ ~message.deleted /\ ~message.edited
    /\ Posts([message EXCEPT !.etag = Next1, !.edited = TRUE, !.body = Next1, !.files = Attached(list, Next1), !.images = shown])
DeleteMessage == Posts([message EXCEPT !.etag = Next1, !.deleted = TRUE, !.body = 0, !.files = <<>>, !.images = {}])
\* The author of a message nobody edited takes its deletion back.
Undelete == message.deleted /\ ~message.edited /\ Posts([message EXCEPT !.etag = Next1, !.deleted = FALSE, !.body = 1])

-----------------------------------------------------------------------------
(* Which files a message has to offer.  The same rule twice, once without   *)
(* doing anything (downloadable_attachment_names) and once on the way to a   *)
(* download (_classify_attachment).                                          *)

IsDownloadable(a, skip) == a.kind = "reference" /\ a.name \notin skip
DownloadableNames(m, skip) == {a.name : a \in {x \in Range(m.files) : IsDownloadable(x, skip)}}
Classified(a, skip) == a.kind \notin {"card", "quote"} /\ a.kind = "reference" /\ a.name \notin skip

\* Mutant: an edit is a reaction.
ReusesOverEdits(m, prior, skip) ==
    prior # Unwritten /\ ~prior.deleted /\ ~m.deleted
    /\ DownloadableNames(m, skip) = {r.name : r \in Range(prior.refs)}
\* Mutant: cards and quotes count as files that are missing.
ReusesByAttachments(m, prior, skip) ==
    prior # Unwritten /\ ~prior.deleted /\ ~m.deleted /\ ~m.edited
    /\ {a.name : a \in Range(m.files)} = {r.name : r \in Range(prior.refs)}
CanReuse(m, prior, skip) ==
    prior # Unwritten /\ ~prior.deleted /\ ~m.deleted /\ ~m.edited
    /\ DownloadableNames(m, skip) = {r.name : r \in Range(prior.refs)}

\* How a download may end: "text" is a file that is converted as well, "file"
\* one that is not or could not be, "gone" a 403 or a 404, and "fault" any other
\* error, a file too large or without a URL, and a write that failed.
Outcomes == {"text", "file", "gone", "fault"}
\* An attachment is asked for unless one of its name was refused: in an earlier
\* sync, or further up in this one.
Tried(m, ends, i) ==
    /\ Classified(m.files[i], failed)
    /\ ~\E j \in DOMAIN m.files : /\ j < i /\ m.files[j].name = m.files[i].name
                                  /\ Classified(m.files[j], failed) /\ ends[j] = "gone"
Obtained(m, ends) == {i \in DOMAIN m.files : Tried(m, ends, i) /\ ends[i] \in {"text", "file"}}
Refused(m, ends) == {m.files[i].name : i \in {j \in DOMAIN m.files : Tried(m, ends, j) /\ ends[j] = "gone"}}
Reference(m, ends, i) == [name |-> m.files[i].name, converted |-> ends[i] = "text"]
\* What a path holds in the end: the last file of its name.
Stored(m, ends, got, p) ==
    LET there == {i \in got : m.files[i].name = p.name /\ (p.of = "text" => ends[i] = "text")}
    IN  IF p.of = "image" \/ there = {} THEN disk[p] ELSE m.files[Max(there)].bytes
DownloadAttachments(m, ends) ==
    LET got == IF settings.attachments THEN Obtained(m, ends) ELSE {}
    IN  [refs |-> [i \in got |-> Reference(m, ends, i)], disk |-> [p \in DOMAIN disk |-> Stored(m, ends, got, p)],
         failed |-> IF settings.attachments THEN failed \cup Refused(m, ends) ELSE failed]

\* download_inline_images: those that came are shown from the disk.
InlineImages(m, came) == IF settings.images THEN m.images \cap came ELSE {}

\* to_stored_message: the whole of what one sync does with the message.
Made(m, came, ends) ==
    LET got == DownloadAttachments(m, ends)
        shown == InlineImages(m, came)
        line == [etag |-> m.etag, edited |-> m.edited, deleted |-> m.deleted, body |-> m.body, shown |-> shown, refs |-> got.refs]
    IN  IF CanReuse(m, copy, failed)
        THEN [line |-> [line EXCEPT !.body = copy.body, !.shown = copy.shown, !.refs = copy.refs],
              failed |-> failed, disk |-> disk, asked |-> FALSE]
        ELSE [line |-> line, failed |-> got.failed, asked |-> TRUE,
              disk |-> [p \in DOMAIN disk |-> IF p.of = "image" /\ p.name \in shown THEN m.body ELSE got.disk[p]]]
IsFresh == copy # Unwritten /\ copy.etag = message.etag
Ingest(made, keepsStore, keepsState) ==
    /\ ~IsFresh
    /\ disk' = made.disk
    /\ copy' = IF keepsStore THEN made.line ELSE copy
    /\ failed' = IF keepsState THEN made.failed ELSE failed
    /\ interrupted' = IF made.asked THEN ~keepsStore ELSE interrupted
    /\ UNCHANGED <<settings, message>>

\* How the downloads of a sync end; one end will do for what is not downloaded.
Awaited == IF settings.attachments /\ ~IsFresh /\ ~CanReuse(message, copy, failed)
           THEN {i \in DOMAIN message.files : Classified(message.files[i], failed)} ELSE {}
Endings == LET asks == Awaited
           IN  {[i \in DOMAIN message.files |-> IF i \in asks THEN e[i] ELSE "fault"] : e \in [asks -> Outcomes]}
Makings == {Made(message, came, ends) : came \in SUBSET message.images, ends \in Endings}

-----------------------------------------------------------------------------
MediaInit ==
    /\ settings \in [attachments : BOOLEAN, images : BOOLEAN]
    /\ \E l \in AttachmentLists, s \in SUBSET Images : message = Post(l, s)
    /\ copy = Unwritten /\ failed = {} /\ interrupted = FALSE
    /\ disk = [p \in FilePaths \cup ImagePaths |-> Unwritten]
MediaNext ==
    \/ React \/ DeleteMessage \/ Undelete
    \/ \E l \in AttachmentLists : EditMessage(l, Images \ message.images)
    \/ \E made \in Makings, s, t \in BOOLEAN : Ingest(made, s, t)

-----------------------------------------------------------------------------
\* _teams_ingest.py, _can_reuse_media: what is stored under an etag is the text
\* of that etag, whether it was made anew or taken over from an earlier one.
TextIsCurrent == IsFresh => copy.body = message.body /\ copy.deleted = message.deleted

\* _store_attachment, download_inline_images: every link of the stored message
\* leads to a file, and a link to a conversion to that of the bytes beside it,
\* but while a run's files are there and its message is not.  Two attachments of
\* one name have one file.
LinksLead ==
    copy # Unwritten /\ ~interrupted =>
        /\ \A i \in copy.shown : disk[[of |-> "image", name |-> i]] # Unwritten
        /\ \A r \in Range(copy.refs) :
              LET file == disk[[of |-> "file", name |-> r.name]]
              IN  /\ file # Unwritten
                  /\ r.converted /\ Cardinality({j \in DOMAIN copy.refs : copy.refs[j].name = r.name}) = 1
                        => disk[[of |-> "text", name |-> r.name]] = file
MediaFollows == TextIsCurrent /\ LinksLead

\* _teams_ingest.py:41-46: a message nobody edited that has all its files keeps
\* them, and its images, whatever happens to it but for a deletion; what a sync
\* stores is of the message's own files; and a file that was refused is neither
\* asked for nor written again.
NamesIn(line) == IF line = Unwritten THEN {} ELSE {r.name : r \in Range(line.refs)}
IngestsExactly ==
    /\ (copy' # copy /\ copy # Unwritten /\ ~message.edited /\ ~message.deleted /\ ~copy.deleted
          /\ NamesIn(copy) = DownloadableNames(message, failed))
            => copy'.refs = copy.refs /\ copy'.shown = copy.shown /\ disk' = disk
    /\ copy' # copy => NamesIn(copy') \subseteq DownloadableNames(message, failed)
    /\ \A n \in failed : disk'[[of |-> "file", name |-> n]] = disk[[of |-> "file", name |-> n]]
MediaStays == [][IngestsExactly]_mediaVars

\* _teams_ingest.py:42-43, of a message some of whose files could not be had: a
\* reaction takes none of the others away.
ReactionLosesNothing ==
    (copy' # copy /\ copy # Unwritten /\ copy' # Unwritten)
        => (copy'.body = copy.body /\ ~copy'.deleted /\ ~copy.deleted
                => {r.name : r \in Range(copy.refs)} \subseteq {r.name : r \in Range(copy'.refs)})
=============================================================================
