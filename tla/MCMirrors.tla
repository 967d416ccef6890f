------------------------------- MODULE MCMirrors -------------------------------
(***************************************************************************)
(* The delta mirrors, one kind of extractor at a time, the calendar, the     *)
(* media and the page of Teams messages, and the folders a mail sync reads.  *)
(* They share no state, so a behaviour is one of one part.                   *)
(***************************************************************************)
EXTENDS DeltaMirror, CalendarMirror, Media

VARIABLES part, store, timeline, asked, found

\* Two sites with a drive each; the default folder of contacts and one other.
MCGroups(k) == CASE k = "sharepoint" -> <<"site1", "site2">>
                 [] k = "contacts" -> <<"default", "folders">>
                 [] OTHER -> <<"all">>
MCFeeds(g) == CASE g = "site1" -> <<"drive1">> [] g = "site2" -> <<"drive2">>
                [] g = "default" -> <<"contacts">> [] g = "folders" -> <<"folder">>
                [] OTHER -> <<"feed">>
MCFeedOf(k, i) == CASE k = "sharepoint" -> IF i = "i1" THEN "drive1" ELSE "drive2"
                    [] k = "contacts" -> IF i = "i1" THEN "contacts" ELSE "folder"
                    [] OTHER -> "feed"
Doc(p, n, s) == [place |-> p, ver |-> n, sort |-> s]
MCDocs(k) ==
    CASE k = "onedrive" -> {Doc("a", 1, "eager"), Doc("b", 2, "large"), Doc("a", 3, "poison"), Doc("b", 4, "folder")}
      [] k = "sharepoint" -> {Doc("a", 1, "eager"), Doc("b", 2, "plain")}
      [] k = "contacts" -> {Doc("ada", 1, "person"), Doc("bob", 1, "person"), Doc("-", 1, "unnamed")}
      [] OTHER -> {Doc("ada", 1, "person"), Doc("bob", 1, "person"), Doc("ada", 1, "disabled")}
MCFirstDocs(k) == {d \in MCDocs(k) : d.place \in {"a", "ada"} /\ d.sort \in {"eager", "person"}}
MCItems == <<"i1", "i2">>
MCManager(i) == "i1"
EventDoc(d, s, n, c) == [day |-> d, subject |-> s, ver |-> n, cancelled |-> c]
MCEventDocs == {EventDoc(1, "x", 1, FALSE), EventDoc(3, "y", 2, FALSE), EventDoc(1, "x", 3, TRUE)}

\* A message with an image and two files, and one with a quote and two files of
\* one name; all media are downloaded or none.
File(n) == [name |-> n, kind |-> "reference"]
MCAttachmentLists == {<<File("a"), File("b")>>, <<[name |-> "b", kind |-> "quote"], File("a"), File("a")>>}

\* Stores of four messages over two days: each a root, a reply to another or to
\* none that is there, in two orders of time.
Line(i, p, t, d) == [id |-> i, parent |-> p, at |-> t, deleted |-> d, edited |-> i = 1, text |-> "text", refs |-> <<>>]
Threads == {[i \in 1..4 |-> Line(i, p[i], t[i], i = d)] :
               p \in {x \in [1..4 -> {1, 2, 9, Unwritten}] : \A i \in 1..4 : x[i] \in {9, Unwritten} \/ (x[i] # i /\ x[x[i]] = Unwritten)},
               t \in {<<1, 2, 3, 4>>, <<4, 1, 1, 2>>, <<3, 3, 1, 2>>}, d \in {2, 4}}
MCStores == [of : {"chat", "channel"}, messages : {{x[i] : i \in 1..n} : x \in Threads, n \in 2..4}]
MCDayOf(t) == IF t <= 2 THEN 1 ELSE 2
timelineVars == <<store, timeline>>
T == INSTANCE Timeline WITH Stores <- MCStores, DayOf <- MCDayOf, None <- Unwritten, page <- timeline

\* Mailboxes of six folders, of which some are shown; and states of the earlier
\* version, with a mailbox whose address begins with the other's.
Nesting == {<<<<1, 2, 3>>, <<4, 5>>, <<>>, <<>>, <<>>, <<>>, <<>>>>, <<<<1, 2>>, <<3, 4, 5>>, <<>>, <<6>>, <<>>, <<>>, <<>>>>,
            <<<<1>>, <<2>>, <<3>>, <<>>, <<>>, <<>>, <<>>>>}
MCTrees == [children : {[f \in 0..6 |-> n[f + 1]] : n \in Nesting},
            shown : SUBSET (1..6), cap : {1, 2, 3}]
Me == <<"me">>
MeX == <<"me", "x">>
MCKeys == {Me \o <<"Inbox">>, Me \o <<"Eingang">>, Me \o <<"Work">>, Me \o <<"id", "f1">>,
           MeX \o <<"Inbox">>, MeX \o <<"Work">>, MeX \o <<"id", "f1">>, Me \o <<"y", "Work">>}
Named(n, i) == [name |-> n, id |-> i]
Inbox == <<"Inbox">>
Boxes == {<<Named(<<"Eingang">>, "f1"), Named(<<"Work">>, "f2"), Named(<<"Work">>, "f3")>>,
          <<Named(<<"Eingang">>, "f1"), Named(Inbox, "f2"), Named(<<"x", "Work">>, "f3")>>, <<Named(<<"y", "Work">>, "f2")>>}
Mailbox(a) == [address : {a}, folders : Boxes, aliases : {[n \in {} |-> "f1"], [n \in {Inbox} |-> "f1"]}, complete : BOOLEAN]
MCUpgrades == [links : {[k \in s |-> k] : s \in SUBSET MCKeys}, mailboxes : {<<m>> : m \in Mailbox(Me)}]
    \cup [links : {[k \in s |-> k] : s \in {x \in SUBSET MCKeys : Cardinality(x) = 6}},
          mailboxes : {<<m, n>> : m \in Mailbox(Me), n \in {x \in Mailbox(MeX) : x.complete}}]
folderVars == <<asked, found>>
F == INSTANCE Folders WITH Trees <- MCTrees, Upgrades <- MCUpgrades, Root <- 0, None <- Unwritten

\* The other parts of a behaviour are fixed.
MirrorsInit ==
    /\ part \in {"delta", "calendar", "media", "timeline", "folders"}
    /\ CalendarInit /\ (part # "calendar" => event = [e \in Events |-> Unmade])
    /\ Init /\ (part # "delta" => kind = (CHOOSE k \in Kinds : TRUE) /\ doc = [i \in Items |-> Unborn])
    /\ MediaInit /\ settings.images = settings.attachments
    /\ (message.images = {} <=> \E i \in DOMAIN message.files : message.files[i].kind = "quote")
    /\ (part # "media" => ~settings.images /\ message.images = {})
    /\ timeline = Unwritten /\ store \in IF part = "timeline" THEN MCStores ELSE {Unwritten}
    /\ found = Unwritten /\ asked \in IF part = "folders" THEN MCTrees \cup MCUpgrades ELSE {Unwritten}
MirrorsNext ==
    \/ part = "delta" /\ Next /\ UNCHANGED <<part, calendarVars, mediaVars, timelineVars, folderVars>>
    \/ part = "calendar" /\ CalendarNext /\ UNCHANGED <<part, vars, mediaVars, timelineVars, folderVars>>
    \/ part = "media" /\ MediaNext /\ UNCHANGED <<part, vars, calendarVars, timelineVars, folderVars>>
    \/ part = "timeline" /\ T!Render /\ UNCHANGED <<part, vars, calendarVars, mediaVars, folderVars>>
    \/ part = "folders" /\ F!Resolve /\ UNCHANGED <<part, vars, calendarVars, mediaVars, timelineVars>>
Runs == \/ part = "delta" /\ Extractor /\ UNCHANGED <<part, calendarVars, mediaVars, timelineVars, folderVars>>
        \/ part = "calendar" /\ CalendarRun /\ UNCHANGED <<part, vars, mediaVars, timelineVars, folderVars>>
allVars == <<part, vars, calendarVars, mediaVars, timelineVars, folderVars>>
MirrorsSpec == MirrorsInit /\ [][MirrorsNext]_allVars /\ WF_allVars(Runs)

\* What a stored link, or a remembered time, vouches for is in the vault.
RecordsVouchForPages == LinkCoversVault /\ RememberedIsWritten
\* What stays as it is upstream is mirrored in the end.
EventuallyMirrored == EventuallyFollows /\ EventuallyWritten
\* Timeline: every message of a store is on its page, once and in its place.
TimelineIsWhole == part = "timeline" => T!TimelineIsWhole
\* Folders: a full discovery names every visible folder, and every delta link of
\* the earlier version has at most one heir.
FoldersCarryOver == part = "folders" => F!FoldersCarryOver
\* What is kept from one run to the next leads to every page and file: the links and
\* the times vouch for them, the map for their removal, and a stored message for its
\* text and its media.
RecordsLeadToPages == RecordsVouchForPages /\ EveryPageHasAWayBack /\ MediaFollows
\* What a store holds is on its page, and what a state of the earlier version
\* holds goes to the folder it was made for.
WhatIsKeptIsFound == TimelineIsWhole /\ FoldersCarryOver
=============================================================================
