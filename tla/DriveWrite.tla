----------------------------- MODULE DriveWrite -----------------------------
(***************************************************************************)
(* Writing one document of a library under its eTag: m365/files.py and     *)
(* upload.py, from the file.update handler (outboxes/files.py) and from    *)
(* `files pull` and `files push` (commands/files.py).                      *)
(*                                                                         *)
(* The item is the number of its version, which is its eTag, 0 when there  *)
(* is none; people edit, delete and restore it whenever they like.  A      *)
(* writer pulls the text with its eTag, or has none and creates; above the *)
(* simple-PUT ceiling the write is an upload session, which takes no       *)
(* condition, so the eTag is compared before the session opens.            *)
(*                                                                         *)
(* Bounds: MaxEtags (versions of the item), MaxAttempts (requests of one   *)
(* conditional PUT).                                                       *)
(***************************************************************************)
EXTENDS Naturals

CONSTANTS Writers, MaxEtags, MaxAttempts

VARIABLES item,      \* the version at the path, 0 when nothing is there
          newest,    \* versions made so far
          writer     \* writer -> [at, tag, text, large, seen, tries, wrote]

driveVars == <<item, newest, writer>>
-----------------------------------------------------------------------------
Idle == [at |-> "idle", tag |-> 0, text |-> 0, large |-> FALSE, seen |-> 0, tries |-> 0, wrote |-> FALSE]

DriveInit ==
    /\ item \in {0, 1} /\ newest = 1
    /\ writer = [w \in Writers |-> Idle]

Goes(w, to) == writer' = [writer EXCEPT ![w].at = to]

(* get_file: the metadata first, and the body after it. *)
ReadTag(w) ==
    /\ writer[w].at = "idle" /\ item > 0
    /\ writer' = [writer EXCEPT ![w].at = "tagged", ![w].tag = item]
    /\ UNCHANGED <<item, newest>>

ReadText(w) ==
    /\ writer[w].at = "tagged"
    /\ writer' = [writer EXCEPT ![w] = IF item = 0 THEN Idle ELSE [@ EXCEPT !.at = "pulled", !.text = item]]
    /\ UNCHANGED <<item, newest>>

(* MUTANT: the body is downloaded first, and the eTag read after it. *)
TextFirst(w) ==
    /\ writer[w].at = "idle" /\ item > 0
    /\ writer' = [writer EXCEPT ![w].at = "tagged", ![w].text = item]
    /\ UNCHANGED <<item, newest>>
TagSecond(w) ==
    /\ writer[w].at = "tagged"
    /\ writer' = [writer EXCEPT ![w] = IF item = 0 THEN Idle ELSE [@ EXCEPT !.at = "pulled", !.tag = item]]
    /\ UNCHANGED <<item, newest>>
TextBeforeTag(w) == TextFirst(w) \/ TagSecond(w)
GetFile(w) == ReadTag(w) \/ ReadText(w)

(* The intent's etag routes it: none to create_file, one to update_file.   *)
(* Create: the item must not be there when create_file looks.              *)
Create(w) ==
    /\ writer[w].at = "idle"
    /\ \E big \in BOOLEAN :
         writer' = [writer EXCEPT ![w] = IF item > 0 THEN Idle
                                         ELSE [@ EXCEPT !.at = IF big THEN "open" ELSE "put", !.large = big]]
    /\ UNCHANGED <<item, newest>>

Update(w) ==
    /\ writer[w].at = "pulled"
    /\ \E big \in BOOLEAN :
         writer' = [writer EXCEPT ![w].at = IF big THEN "compare" ELSE "put", ![w].large = big]
    /\ UNCHANGED <<item, newest>>

(* _write_session: the eTag now against the one that was given. *)
Matches(w) == item = writer[w].tag
(* MUTANT: the session opens without the comparison. *)
Unchecked(w) == TRUE
Conforms(w) == Matches(w)

Compare(w) ==
    /\ writer[w].at = "compare"
    /\ writer' = [writer EXCEPT ![w].at = IF Conforms(w) THEN "open" ELSE "conflict", ![w].seen = item]
    /\ UNCHANGED <<item, newest>>

(* The service makes a version of what the writer sends. *)
Written(w) ==
    /\ newest < MaxEtags
    /\ item' = newest + 1 /\ newest' = newest + 1

(* put_bytes: If-Match when there is an eTag.  The answer may be lost, and *)
(* the transport sends the same request again.                             *)
PutBytes(w) ==
    /\ writer[w].at = "put"
    /\ IF writer[w].tag = 0 \/ Matches(w)
       THEN /\ Written(w)
            /\ \/ Goes(w, "done")
               \/ /\ writer[w].tries < MaxAttempts - 1
                  /\ writer' = [writer EXCEPT ![w].tries = @ + 1, ![w].wrote = TRUE]
       ELSE Goes(w, "conflict") /\ UNCHANGED <<item, newest>>

(* createUploadSession with conflictBehavior replace: nothing is written   *)
(* until the last chunk, and a chunk that is refused abandons it.          *)
Session(w) ==
    /\ writer[w].at = "open"
    /\ \/ Written(w) /\ Goes(w, "done")
       \/ Goes(w, "failed") /\ UNCHANGED <<item, newest>>

Edit ==
    /\ Written(CHOOSE w \in Writers : TRUE)
    /\ UNCHANGED writer

Delete == item > 0 /\ item' = 0 /\ UNCHANGED <<newest, writer>>

Again(w) ==
    /\ writer[w].at \in {"pulled", "done", "conflict", "failed"}
    /\ writer' = [writer EXCEPT ![w] = Idle]
    /\ UNCHANGED <<item, newest>>

DriveNext ==
    \/ \E w \in Writers : GetFile(w) \/ Create(w) \/ Update(w) \/ Compare(w)
                          \/ PutBytes(w) \/ Session(w) \/ Again(w)
    \/ Edit \/ Delete
-----------------------------------------------------------------------------
(* The text a pull hands out is never older than the eTag it hands out     *)
(* with it (get_file): the write that follows is then refused rather than  *)
(* undoing an edit its author has not seen.                                *)
TagIsNoNewerThanText ==
    \A w \in Writers : writer[w].at \in {"pulled", "compare"} => writer[w].tag <= writer[w].text

(* A write replaces the version its eTag names.  The two exceptions are    *)
(* the ones files.py says out loud: a session replaces what came after its *)
(* comparison, which was of that eTag, and a create what came after its    *)
(* look, which found nothing.                                              *)
LosesOnlyWhatItNames ==
    \A w \in Writers :
       /\ writer[w].at \in {"put", "open"} /\ item' # item /\ writer'[w] # writer[w] /\ item # 0
       => \/ item = writer[w].tag
          \/ writer[w].large /\ writer[w].tag > 0 /\ writer[w].seen = writer[w].tag
          \/ writer[w].tag = 0
LosesOnlyInItsWindow == [][LosesOnlyWhatItNames]_driveVars

(* update_file says of a conflict that nothing is written (files.py:202);  *)
(* a PUT whose answer was lost is sent again and meets its own version.    *)
ConflictWroteNothing ==
    \A w \in Writers : writer[w].at = "conflict" => ~writer[w].wrote
=============================================================================
