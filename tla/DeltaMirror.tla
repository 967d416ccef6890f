------------------------------ MODULE DeltaMirror ------------------------------
(***************************************************************************)
(* The extractors that mirror a delta feed of things which change in place: *)
(* drive files (m365/extractors/onedrive.py, sharepoint.py and what they    *)
(* share, _file_helpers.py), contacts and directory users (contacts.py,     *)
(* directory.py), with the rounds of m365/pagination.py and the removals of *)
(* vault/removal.py.  One instance is one extractor, its kind.              *)
(*                                                                          *)
(* The path of a page is made of the item's id and of its place: the folder *)
(* and name of a file, the display name of a person.  Graph reports a       *)
(* change as "@removed" or as the whole item, in the order of each item's   *)
(* last change.                                                             *)
(***************************************************************************)
EXTENDS Naturals, Sequences, FiniteSets, SequencesExt

CONSTANTS
    Kinds,          \* which of the extractors below are run
    ItemSeq,        \* upstream ids, in the order they were first made
    GroupsOf(_),    \* kind -> the sites, or the two sources of contacts
    FeedsIn(_),     \* group -> its drives, or its contact folders
    FeedOf(_, _),   \* kind, item -> the feed it is in
    DocsOf(_),      \* kind -> what an item may be: [place, ver, sort]
    FirstDocs(_),   \* kind -> what it may be when the extractor first runs
    ManagerOf(_),   \* item -> the item that is its manager
    OnlyActive,     \* directory.only_active_users
    Unborn, Gone,   \* what an item is before it is made and after it is deleted
    PageCap,        \* how many changes a round fetches at most
    MaxEdits, MaxFaults \* bounds: changes upstream; failures, deaths and purges

Items == Range(ItemSeq)
Feeds(k) == UNION {Range(FeedsIn(g)) : g \in Range(GroupsOf(k))}
SortsOf(k) == CASE k = "contacts"  -> {"person", "unnamed"}
                [] k = "directory" -> {"person", "unnamed", "disabled"}
                [] OTHER           -> {"plain", "eager", "large", "poison", "folder"}
None == "none"
ASSUME MirrorAssumption ==
    /\ Kinds \subseteq {"onedrive", "sharepoint", "contacts", "directory"}
    /\ PageCap \in Nat \ {0} /\ MaxEdits \in Nat /\ MaxFaults \in Nat
    /\ OnlyActive \in BOOLEAN
    /\ Unborn # Gone
    /\ ItemSeq \in Seq(Items)
    /\ \A k \in Kinds :
          /\ GroupsOf(k) \in Seq(Range(GroupsOf(k)))
          /\ \A g \in Range(GroupsOf(k)) : FeedsIn(g) \in Seq(Feeds(k))
          /\ \A i \in Items : FeedOf(k, i) \in Feeds(k)
          /\ FirstDocs(k) \subseteq DocsOf(k)
          /\ {Unborn, Gone} \cap DocsOf(k) = {}
          /\ \A d \in DocsOf(k) : d.sort \in SortsOf(k) /\ d.place # None

VARIABLES
    kind,    \* the extractor
    doc,     \* upstream: item -> what it is, Unborn or Gone
    at,      \* upstream: item -> when it last changed
    clock,   \* upstream: how many changes there have been
    stored,  \* EXTRACTOR_STATE: the links, and file_paths or path_map
    vault,   \* the pages of the extractor's subtree
    run,     \* what the run holds in memory
    lost,    \* history: (item, place) of the pages no map leads to
    faults   \* what is used of the bound

upstream == <<doc, at, clock>>
vars == <<kind, doc, at, clock, stored, vault, run, lost, faults>>

Live(i) == doc[i] \notin {Unborn, Gone}
NoLink == [pos |-> 0, base |-> 0, new |-> TRUE]
NoState(k) == [link |-> [f \in Feeds(k) |-> NoLink], map |-> [i \in Items |-> None]]
Idle == [state |-> {}]

InitUpstream ==
    /\ doc \in [Items -> FirstDocs(kind) \cup {Unborn}]
    /\ at = [i \in Items |-> CHOOSE n \in DOMAIN ItemSeq : ItemSeq[n] = i]
    /\ clock = Len(ItemSeq)
Init ==
    /\ kind \in Kinds
    /\ InitUpstream
    /\ stored = NoState(kind) /\ vault = {} /\ run = Idle /\ lost = {} /\ faults = 0

-----------------------------------------------------------------------------
(* Upstream *)

Change(i, d) ==
    /\ clock < Len(ItemSeq) + MaxEdits
    /\ doc[i] # Gone /\ doc[i] # d /\ (doc[i] = Unborn => d # Gone)
    /\ doc' = [doc EXCEPT ![i] = d]
    /\ clock' = clock + 1 /\ at' = [at EXCEPT ![i] = clock + 1]
    /\ UNCHANGED <<kind, stored, vault, run, lost, faults>>

-----------------------------------------------------------------------------
(* A round *)

Faulty == faults < MaxFaults /\ faults' = faults + 1
Calm == UNCHANGED faults
Go(r) == run' = r /\ UNCHANGED <<kind, upstream, stored>>

\* The pages the stored map does not lead to.
Unmapped(pages, map) == {<<p.item, p.place>> : p \in {q \in pages : map[q.item] # q.place}}

\* The cycle loads the state; sites are listed, and the folders of contacts
\* after the default one.
Start ==
    /\ run = Idle
    /\ Go([state |-> stored, groups |-> GroupsOf(kind), todo |-> <<>>, batch |-> {}])
    /\ Calm /\ UNCHANGED <<vault, lost>>

AtListing == run # Idle /\ run.batch = {} /\ run.todo = <<>> /\ run.groups # <<>>
Lists == /\ AtListing
         /\ Go([run EXCEPT !.groups = Tail(@), !.todo = FeedsIn(Head(run.groups))])
         /\ Calm /\ UNCHANGED <<vault, lost>>

\* The drives of the next site; a site whose drives cannot be listed is passed
\* over.  Every other listing that fails ends the run (Abort).
ListDrives == kind = "sharepoint" /\
    \/ Lists
    \/ AtListing /\ Go([run EXCEPT !.groups = Tail(@)]) /\ Faulty /\ UNCHANGED <<vault, lost>>
\* The default folder, and then the folders that are listed.
ListFolders == kind = "contacts" /\ Lists
\* The one feed there is: /me/drive/root/delta, /users/delta.
OneFeed == kind \in {"onedrive", "directory"} /\ Lists

\* Mutant: the pending page is not taken up, the round begins at the front.
BeginsAgain(link) == [pos |-> 0, base |-> IF link.new THEN clock ELSE link.base, new |-> FALSE]
\* What a link has yet to report.  A chain begun now does not report what was
\* gone before.
Begun(link) == IF link.new THEN [pos |-> 0, base |-> clock, new |-> FALSE] ELSE link
Ahead(f, link) ==
    {i \in Items : /\ FeedOf(kind, i) = f /\ doc[i] # Unborn /\ at[i] > link.pos
                   /\ doc[i] = Gone => at[i] > link.base}
\* The pages up to the cap: the oldest changes.
Fetched(ahead) == {i \in ahead : Cardinality({j \in ahead : at[j] < at[i]}) < PageCap}

\* Mutant: a round that the cap cut short ends where a whole one would.
ResumesAtTheEnd(ahead, link) == [link EXCEPT !.pos = clock]
\* The resume link: the deltaLink of a whole round, or the pending nextLink.
ResumeLink(ahead, link) ==
    [link EXCEPT !.pos = IF Fetched(ahead) = ahead THEN clock ELSE Max({at[i] : i \in Fetched(ahead)})]

AtRound == run # Idle /\ run.batch = {} /\ run.todo # <<>>
\* get_delta: every page up to the cap, in memory, and the link noted.
Round ==
    /\ AtRound
    /\ LET f == Head(run.todo)
           link == Begun(run.state.link[f])
           ahead == Ahead(f, link)
       IN  Go([run EXCEPT !.todo = Tail(@),
                  !.state.link[f] = ResumeLink(ahead, link),
                  !.batch = {[item |-> i, doc |-> doc[i], at |-> at[i]] : i \in Fetched(ahead)}])
    /\ Calm /\ UNCHANGED <<vault, lost>>

\* A drive of a site may fail alone: it keeps its link.
DriveFails == /\ kind = "sharepoint" /\ AtRound
              /\ Go([run EXCEPT !.todo = Tail(@)])
              /\ Faulty /\ UNCHANGED <<vault, lost>>

-----------------------------------------------------------------------------
(* An item: the oldest change of the batch *)

Oldest == CHOOSE c \in run.batch : \A d \in run.batch : c.at <= d.at
Rest == run.batch \ {Oldest}

\* RemovalHandler.remove: everything under the recorded path, and the entry.
Depart(i) ==
    /\ Go([run EXCEPT !.batch = Rest, !.state.map[i] = None])
    /\ vault' = {p \in vault : <<p.item, p.place>> # <<i, run.state.map[i]>>}
    /\ lost' = lost \ {<<i, run.state.map[i]>>}
    /\ Calm

Skip == Go([run EXCEPT !.batch = Rest]) /\ Calm /\ UNCHANGED <<vault, lost>>

\* Mutant: the page is written and not entered in the map.
WrittenUnmapped(i, place) == run.state
\* path_map[id] = path: what the entry held before is forgotten.
Mapped(i, place) == [run.state EXCEPT !.map[i] = place]

Write(p) ==
    /\ vault' = {q \in vault : <<q.item, q.place>> # <<p.item, p.place>>} \cup {p}
    /\ lost' = (lost \cup {<<q.item, q.place>> : q \in {r \in vault :
                     r.item = p.item /\ r.place = run.state.map[p.item]}}) \ {<<p.item, p.place>>}
    /\ Go([run EXCEPT !.batch = Rest, !.state = Mapped(p.item, p.place)])

\* A run that ends before it returns: its state is dropped, its pages stay.
Ends == Go(Idle) /\ lost' = lost \cup Unmapped(vault, stored.map) /\ UNCHANGED vault

\* The page of a drive item, at the path of its folder, name and id.
FilePage(i, d, status) ==
    [item |-> i, place |-> d.place, meta |-> d, status |-> status,
     body |-> IF status = "converted" THEN doc[i].ver ELSE 0, link |-> None]

\* A file no eager pattern takes is a stub, written without a download.
Stub(i, d) == Write(FilePage(i, d, "pending")) /\ Calm

\* An eager file is downloaded as it is now, and converted.  What Graph reports,
\* and most of what a converter raises, becomes a stub that says so; a converter
\* that gives up raises DocumentConversionError, which nothing on the way out of
\* the extractor catches.
Downloads(i) == IF Live(i) THEN doc[i].sort # "poison" ELSE FALSE
Eager(i, d) ==
    \/ d.sort = "large" /\ Write(FilePage(i, d, "error_too_large")) /\ Calm
    \/ d.sort # "large" /\ Downloads(i) /\ Write(FilePage(i, d, "converted")) /\ Calm
    \/ d.sort # "large" /\ ~Live(i) /\ Write(FilePage(i, d, "error_download")) /\ Calm
    \/ d.sort # "large" /\ Live(i) /\ ~Downloads(i) /\ Ends /\ Calm
    \/ /\ d.sort # "large" /\ Faulty
       /\ \E s \in {"error_download", "error_conversion"} : Write(FilePage(i, d, s))
\* A delta that gives no download URL costs a request, which may fail.
NoUrl(i, d) == d.sort # "large" /\ Faulty /\ Write(FilePage(i, d, "error_no_download_url"))

HandleFile(i, d) ==
    /\ kind \in {"onedrive", "sharepoint"}
    /\ \/ d = Gone /\ Depart(i)
       \/ d # Gone /\ d.sort = "folder" /\ Skip
       \/ d # Gone /\ d.sort = "plain" /\ Stub(i, d)
       \/ d # Gone /\ d.sort \in {"eager", "large", "poison"} /\ (Eager(i, d) \/ NoUrl(i, d))

\* A contact without a name is passed over.
ContactPage(i, d) == [item |-> i, place |-> d.place, meta |-> d, status |-> "person",
                      body |-> 0, link |-> None]
HandleContact(i, d) ==
    /\ kind = "contacts"
    /\ \/ d = Gone /\ Depart(i)
       \/ d # Gone /\ d.sort = "unnamed" /\ Skip
       \/ d # Gone /\ d.sort # "unnamed" /\ Write(ContactPage(i, d)) /\ Calm

\* A user's page links to the manager's by the name the manager has now; without
\* a manager, or when the request fails, there is no link.
ManagerLink(i) ==
    IF /\ ManagerOf(i) # i /\ Live(ManagerOf(i)) /\ doc[ManagerOf(i)].sort # "unnamed"
    THEN doc[ManagerOf(i)].place ELSE None
UserPage(i, d, link) == [item |-> i, place |-> d.place, meta |-> d, status |-> "person",
                         body |-> 0, link |-> link]
Disabled(d) == OnlyActive /\ d.sort = "disabled"
Departs(d) == IF d = Gone THEN TRUE ELSE Disabled(d)
HandleUser(i, d) ==
    /\ kind = "directory"
    /\ \/ Departs(d) /\ Depart(i)
       \/ ~Departs(d) /\ d.sort = "unnamed" /\ Skip
       \/ ~Departs(d) /\ d.sort # "unnamed" /\ Write(UserPage(i, d, ManagerLink(i))) /\ Calm
       \/ ~Departs(d) /\ d.sort # "unnamed" /\ ManagerLink(i) # None
             /\ Write(UserPage(i, d, None)) /\ Faulty

AtItem == run # Idle /\ run.batch # {}
Handle ==
    /\ AtItem
    /\ LET c == Oldest
       IN  HandleFile(c.item, c.doc) \/ HandleContact(c.item, c.doc) \/ HandleUser(c.item, c.doc)

\* The cycle stores the state a run returns.
Commit == /\ run # Idle /\ run.batch = {} /\ run.todo = <<>> /\ run.groups = <<>>
          /\ stored' = run.state /\ run' = Idle
          /\ Calm /\ UNCHANGED <<kind, upstream, vault, lost>>

Abort == run # Idle /\ Ends /\ Faulty

\* purge_extractor: the subtree and the state, between two runs.
Purge == /\ run = Idle /\ vault # {} /\ Faulty
         /\ vault' = {} /\ lost' = {} /\ stored' = NoState(kind)
         /\ UNCHANGED <<kind, upstream, run>>

Extractor == Start \/ ListDrives \/ ListFolders \/ OneFeed \/ Round \/ DriveFails \/ Handle \/ Commit
Upstream == \E i \in Items, d \in DocsOf(kind) \cup {Gone} : Change(i, d)
Next == Extractor \/ Abort \/ Purge \/ Upstream
Spec == Init /\ [][Next]_vars
FairSpec == Spec /\ WF_vars(Extractor)

-----------------------------------------------------------------------------
(* Properties *)

PagesOf(i) == {p \in vault : p.item = i}
Covered(i) == at[i] <= stored.link[FeedOf(kind, i)].pos /\ doc[i] # Unborn

\* What a stored link covers is in the vault: the page of an item as it is,
\* where it is, with its entry, and, if a body was converted, the body it has
\* now; whatever the cap cut off, whatever failed, died, or was passed over.
\* What is gone or disabled has no page, but where its entry had been lost.
LinkCoversVault ==
    \A i \in Items : Covered(i) =>
        IF Departs(doc[i])
        THEN {<<p.item, p.place>> : p \in PagesOf(i)} \subseteq lost
        ELSE doc[i].sort \notin {"folder", "unnamed"} =>
                /\ stored.map[i] = doc[i].place
                /\ \E p \in PagesOf(i) :
                      /\ p.place = doc[i].place /\ p.meta = doc[i]
                      /\ p.status = "converted" => p.body = doc[i].ver

\* "omitting it does not fail anything today, it fails a deletion months later"
\* (removal.py:29): an entry leads to every page, but to the old page of an item
\* that was renamed and to what a run wrote that did not return.
EveryPageHasAWayBack ==
    \A p \in vault : \/ p.place = stored.map[p.item]
                     \/ run # Idle /\ p.place = run.state.map[p.item]
                     \/ <<p.item, p.place>> \in lost

\* Whatever the order of changes, failures and deaths, once upstream rests the
\* vault comes to follow it: an item has its page where and as it is, and one that
\* is gone has none, unless its entry was lost.
Follows(i) ==
    IF doc[i] = Unborn THEN TRUE
    ELSE IF Departs(doc[i])
    THEN {<<p.item, p.place>> : p \in PagesOf(i)} \subseteq lost
    ELSE doc[i].sort \in {"folder", "unnamed"} \/ \E p \in PagesOf(i) : p.place = doc[i].place /\ p.meta = doc[i]
Poisoned(i) == Live(i) /\ doc[i].sort = "poison"

\* A file that no converter takes is stood for: see PoisonIsContained.
EventuallyFollows ==
    []<>(\A i \in Items : Follows(i) \/ \E j \in Items : FeedOf(kind, j) = FeedOf(kind, i) /\ Poisoned(j))

\* A file that is not converted is an "error_conversion" (_file_helpers.py:167),
\* and the files around it are mirrored all the same.
PoisonIsContained == []<>(\A i \in Items : Follows(i) \/ Poisoned(i))

\* removal.py:3: "a vault that only ever grows is a vault that lies".
NothingIsLost == lost = {}
=============================================================================
