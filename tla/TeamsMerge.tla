------------------------------ MODULE TeamsMerge ------------------------------
(***************************************************************************)
(* The Teams extractors (m365/extractors/teams_chats.py, teams_channels.py):*)
(* what changed since the watermark is fetched newest first, merged into    *)
(* the message store of the conversation (_message_store.py), and           *)
(* messages.md is rendered from the store.                                  *)
(*                                                                          *)
(* A change stamps its message with the time it is made at, and no two have *)
(* the same time; the stamp stands for the eTag and the content as well.    *)
(* messages.md is seen as the version it shows of each message.             *)
(***************************************************************************)
EXTENDS Naturals, Sequences, FiniteSets, FiniteSetsExt

CONSTANTS
    Extractors,    \* which extractors an instance looks at
    Conversations, \* the conversations, in the order a run visits them
    Messages,      \* message ids
    ConversationOf, \* message -> its conversation
    RootOf,        \* message -> the root of its chain, in a channel
    Noise,         \* the messages whose messageType is not "message"
    Late,          \* the replies that come by a reply page, not with their root
    PageSize,      \* GRAPH_PAGE_SIZE, of messages or of chains
    WindowPages,   \* client.max_pages
    BackfillPages, \* max_messages_per_chat, in pages
    BackfillTotal, \* max_messages_per_channel
    MaxStamp,      \* bound: changes upstream
    MaxFaults,     \* bound: failures a conversation contains
    MaxAborts,     \* bound: runs that fail or die
    MaxLosses      \* bound: store files somebody deletes, conversations renamed

Places == {Conversations[i] : i \in 1..Len(Conversations)}

ASSUME TeamsAssumption ==
    /\ Extractors \subseteq {"teams_chats", "teams_channels"}
    /\ Conversations \in Seq(STRING)
    /\ \A i, j \in 1..Len(Conversations) : Conversations[i] = Conversations[j] => i = j
    /\ IsFiniteSet(Messages)
    /\ ConversationOf \in [Messages -> Places] /\ RootOf \in [Messages -> Messages]
    /\ \A m \in Messages : /\ RootOf[RootOf[m]] = RootOf[m]
                           /\ ConversationOf[RootOf[m]] = ConversationOf[m]
    /\ Noise \subseteq Messages /\ Late \subseteq {m \in Messages : RootOf[m] # m}
    /\ {PageSize, WindowPages, BackfillPages, BackfillTotal} \subseteq Nat \ {0}
    /\ {MaxStamp, MaxFaults, MaxAborts, MaxLosses} \subseteq Nat

VARIABLES
    extractor, \* the extractor this instance is of
    modified,  \* message -> the stamp of its last change, 0 before it is posted
    stored,    \* EXTRACTOR_STATE of the extractor
    storeFile, \* conversation -> is messages.jsonl "missing", "corrupt" or "ok"
    kept,      \* message -> the version in messages.jsonl, 0 if none
    rendered,  \* message -> the version in messages.md, 0 if none
    pc,        \* where the run is; "idle" between runs
    state,     \* the run's copy of the state
    at,        \* the place in Conversations of the one being processed
    since,     \* the watermark in use, 0 in a backfill
    before,    \* how far down the listing is: what follows is older than this
    pages,     \* the pages of the listing read so far
    page,      \* message -> its version in the page of chains in hand
    more,      \* did the last page come with a next link?
    fetched,   \* message -> the version fetched, 0 if none
    truncated, \* did a cap end the fetch?
    floor,     \* history: conversation -> what its backfill did not go below
    gutted,    \* history: conversations whose store was emptied under a watermark
    behind,    \* history: conversations whose last change was not rendered and mapped
    faults, aborts, losses \* what is used of the three bounds

files == <<storeFile, kept, rendered>>
fetch == <<since, before, pages, page, more, fetched, truncated>>
run == <<pc, state, at, fetch>>
history == <<floor, gutted, behind>>
bounds == <<faults, aborts, losses>>
vars == <<extractor, modified, stored, files, run, history, bounds>>

Stamps == 0..MaxStamp
Nothing == [m \in Messages |-> 0]
States == [watermark : [Places -> Stamps], complete : SUBSET Places, map : SUBSET Places]
NoState == [watermark |-> [c \in Places |-> 0], complete |-> {}, map |-> {}]
Cur == Conversations[at]
In(c) == {m \in Messages : ConversationOf[m] = c}
Now == Max({0} \cup {modified[m] : m \in Messages})
IsChat == extractor = "teams_chats"
\* A chat message is a chain of its own.
Root(m) == IF IsChat THEN m ELSE RootOf[m]
Chain(r) == {m \in Messages : Root(m) = r}
\* chain_modified, of the versions v of its messages.
ChainModified(r, v) == Max({v[m] : m \in Chain(r)})
Chains(v) == {r \in {Root(m) : m \in Messages} : ChainModified(r, v) > 0}
-------------------------------------------------------------------------------
Init ==
    /\ extractor \in Extractors
    /\ modified = Nothing
    /\ stored = NoState
    /\ storeFile = [c \in Places |-> "missing"] /\ kept = Nothing /\ rendered = Nothing
    /\ pc = "idle" /\ state = NoState /\ at = 0
    /\ since = 0 /\ before = 0 /\ pages = 0 /\ page = Nothing /\ more = FALSE
    /\ fetched = Nothing /\ truncated = FALSE
    /\ floor = [c \in Places |-> 0] /\ gutted = {} /\ behind = {}
    /\ faults = 0 /\ aborts = 0 /\ losses = 0

(* The conversations *)

\* A post, an edit, a reaction or a deletion, which leaves a tombstone.
Change(m) ==
    /\ Now < MaxStamp
    /\ modified[Root(m)] > 0 \/ m = Root(m)
    /\ modified' = [modified EXCEPT ![m] = Now + 1]
    /\ UNCHANGED <<extractor, stored, files, run, history, bounds>>

\* Somebody deletes the store to force a backfill (between the save and the
\* rendering it is the same as after both); or the chat is renamed, and the next
\* run looks for it in another folder.
Without(v, c) == [m \in Messages |-> IF m \in In(c) THEN 0 ELSE v[m]]
LoseStore(c) ==
    /\ losses < MaxLosses /\ losses' = losses + 1
    /\ storeFile[c] # "missing" /\ ~(pc = "render" /\ Cur = c)
    /\ storeFile' = [storeFile EXCEPT ![c] = "missing"]
    /\ kept' = Without(kept, c)
    /\ \/ UNCHANGED rendered
       \/ IsChat /\ pc = "idle" /\ rendered' = Without(rendered, c)
    /\ behind' = behind \cup {c}
    /\ UNCHANGED <<extractor, modified, stored, run, floor, gutted, faults, aborts>>

(* The run *)

Start ==
    /\ pc = "idle" /\ pc' = IF Conversations = <<>> THEN "commit" ELSE "begin"
    /\ state' = stored /\ at' = 1
    /\ UNCHANGED <<extractor, modified, stored, files, fetch, history, bounds>>

\* The place the run goes to when it has done with a conversation.
PastTheLast == at > Len(Conversations)
IsLast == at = Len(Conversations)
ToNext ==
    /\ at' = at + 1
    /\ pc' = IF IsLast THEN "commit" ELSE "begin"
    /\ since' = 0 /\ before' = 0 /\ pages' = 0 /\ page' = Nothing /\ more' = FALSE
    /\ fetched' = Nothing /\ truncated' = FALSE

\* _resolve_watermark: a watermark whose store is missing does not count.
Since == IF storeFile[Cur] = "missing" THEN 0 ELSE state.watermark[Cur]
Begin ==
    /\ pc = "begin" /\ pc' = "fetch"
    /\ since' = Since /\ before' = MaxStamp + 1
    /\ UNCHANGED <<extractor, modified, stored, files, state, at, pages, page, more,
                   fetched, truncated, history, bounds>>

\* What a listing has left to show: chains below the last one shown, newest first;
\* a chat's is filtered by the watermark.
Listed == {r \in Chains(modified) : /\ ConversationOf[r] = Cur
                                    /\ ChainModified(r, modified) < before
                                    /\ IsChat => modified[r] > since}
Shown == {r \in Listed :
             Cardinality({q \in Listed : ChainModified(q, modified)
                                             > ChainModified(r, modified)}) < PageSize}
Snapshot == [m \in Messages |-> IF Root(m) \in Shown THEN modified[m] ELSE 0]
ReadPage == /\ more' = (Shown # Listed)
            /\ before' = Min({before} \cup {ChainModified(r, modified) : r \in Shown})

\* get_pages, for a chat: the budget of an incremental fetch is the global one.
PageBudget == IF since > 0 THEN WindowPages ELSE BackfillPages
FetchPage ==
    /\ pc = "fetch" /\ IsChat
    /\ ReadPage
    /\ fetched' = [m \in Messages |-> Max({fetched[m], Snapshot[m]})]
    /\ pages' = pages + 1
    /\ IF more' /\ pages' < PageBudget
       THEN UNCHANGED <<pc, truncated>>
       ELSE pc' = "merge" /\ truncated' = more'
    /\ UNCHANGED <<extractor, modified, stored, files, state, at, since, page, history,
                   bounds>>

\* fetch_chains, for a channel: a page of roots with their replies ...
FetchRoots ==
    /\ pc = "fetch" /\ ~IsChat
    /\ ReadPage
    /\ page' = Snapshot
    /\ pc' = IF Shown = {} THEN "merge" ELSE "chains"
    /\ UNCHANGED <<extractor, modified, stored, files, state, at, since, pages, fetched,
                   truncated, history, bounds>>

\* ... and chain by chain what follows of their replies, down to the watermark or,
\* in a backfill, until there are enough.
AtTheWatermark(stamp) == since > 0 /\ stamp <= since
Enough(v) == since = 0 /\ Cardinality({m \in Messages : v[m] > 0}) >= BackfillTotal
FetchChain ==
    /\ pc = "chains"
    /\ \E r \in Chains(page) :
         LET chain == [m \in Messages |->
                          CASE Root(m) # r -> 0
                            [] Root(m) = r /\ m \in Late -> modified[m]
                            [] OTHER -> page[m]]
             with == [m \in Messages |-> Max({fetched[m], chain[m]})]
             rest == [m \in Messages |-> IF Root(m) = r THEN 0 ELSE page[m]]
         IN  /\ \A q \in Chains(page) : ChainModified(q, page) <= ChainModified(r, page)
             /\ IF AtTheWatermark(ChainModified(r, chain))
                THEN pc' = "merge" /\ page' = Nothing /\ UNCHANGED <<fetched, truncated>>
                ELSE /\ fetched' = with /\ truncated' = Enough(with)
                     /\ page' = IF Enough(with) THEN Nothing ELSE rest
                     /\ pc' = CASE Enough(with) -> "merge"
                                [] ~Enough(with) /\ rest # Nothing -> "chains"
                                [] OTHER -> IF more THEN "fetch" ELSE "merge"
    /\ UNCHANGED <<extractor, modified, stored, files, state, at, since, before, pages,
                   more, history, bounds>>

\* A request of the fetch fails: the conversation is skipped.
Unreachable ==
    /\ pc \in {"fetch", "chains"}
    /\ faults < MaxFaults /\ faults' = faults + 1
    /\ ToNext
    /\ UNCHANGED <<extractor, modified, stored, files, state, history, aborts, losses>>

\* history_complete is set by every backfill that was fetched.
Noted == IF since > 0 THEN state
         ELSE [state EXCEPT !.complete = IF truncated THEN @ \ {Cur} ELSE @ \cup {Cur}]

\* merge_messages: what differs from the store by its eTag.
NewOnly == {m \in Messages \ Noise : fetched[m] > 0 /\ kept[m] = 0}
Merged == {m \in Messages \ Noise : fetched[m] \notin {0, kept[m]}}

\* Nothing was fetched, the store is corrupt, or media of what is new cannot be
\* fetched.
Skip ==
    /\ pc = "merge"
    /\ \/ fetched = Nothing /\ UNCHANGED faults
       \/ fetched # Nothing /\ storeFile[Cur] = "corrupt" /\ UNCHANGED faults
       \/ /\ Merged # {} /\ storeFile[Cur] # "corrupt"
          /\ faults < MaxFaults /\ faults' = faults + 1
    /\ state' = Noted
    /\ ToNext
    /\ UNCHANGED <<extractor, modified, stored, files, history, aborts, losses>>

OnlyFetched == [m \in Messages |-> IF m \in In(Cur) \ Noise THEN fetched[m] ELSE kept[m]]
WithMerged == [m \in Messages |-> IF m \in Merged THEN fetched[m] ELSE kept[m]]

AdvancesAlways == TRUE
Advances == since = 0 \/ ~truncated
Advanced == IF Advances
            THEN [Noted EXCEPT !.watermark[Cur] =
                     Max({since} \cup {fetched[m] : m \in Messages})]
            ELSE Noted

SavesWhatChanged == Merged # {}
Saves == Merged # {} \/ storeFile[Cur] = "missing"

\* The lowest chain of a backfill that a cap has ended.
Reached == IF truncated THEN Min({ChainModified(r, fetched) : r \in Chains(fetched)}) ELSE 0

Merge ==
    /\ pc = "merge" /\ fetched # Nothing /\ storeFile[Cur] # "corrupt"
    /\ state' = Advanced
    /\ IF Saves
       THEN storeFile' = [storeFile EXCEPT ![Cur] = "ok"] /\ kept' = WithMerged
       ELSE UNCHANGED <<storeFile, kept>>
    /\ IF Merged # {}
       THEN pc' = "render" /\ UNCHANGED <<at, fetch>>
       ELSE ToNext
    /\ floor' = IF since = 0 THEN [floor EXCEPT ![Cur] = Reached] ELSE floor
    /\ gutted' = CASE since = 0 -> gutted \ {Cur}
                   [] since > 0 /\ storeFile[Cur] = "missing" -> gutted \cup {Cur}
                   [] OTHER -> gutted
    /\ UNCHANGED <<extractor, modified, stored, rendered, behind, bounds>>

\* write_chat, _write_channel: messages.md is rendered from the merged store.
RendersTheFetch == [m \in Messages |-> IF m \in In(Cur) \ Noise THEN fetched[m] ELSE rendered[m]]
RendersTheStore == [m \in Messages |-> IF m \in In(Cur) THEN kept[m] ELSE rendered[m]]
Render ==
    /\ pc = "render"
    /\ rendered' = RendersTheStore
    /\ state' = [state EXCEPT !.map = @ \cup {Cur}]
    /\ behind' = behind \ {Cur}
    /\ ToNext
    /\ UNCHANGED <<extractor, modified, stored, storeFile, kept, floor, gutted, bounds>>

Ended == /\ pc' = "idle" /\ state' = NoState /\ at' = 0
         /\ since' = 0 /\ before' = 0 /\ pages' = 0 /\ page' = Nothing /\ more' = FALSE
         /\ fetched' = Nothing /\ truncated' = FALSE

\* state.put, once the run has returned.
Commit ==
    /\ pc = "commit"
    /\ stored' = state
    /\ Ended
    /\ UNCHANGED <<extractor, modified, files, history, bounds>>

\* An exception no conversation contains (no token, no space on the disk), or the
\* death of the process: nothing of the run's state is stored.
CutOff ==
    /\ aborts < MaxAborts /\ aborts' = aborts + 1
    /\ Ended
    /\ UNCHANGED <<extractor, modified, stored, rendered, faults, losses>>

Abort ==
    /\ pc \notin {"idle"}
    /\ CutOff
    /\ behind' = behind \cup (state.map \ stored.map)
                        \cup (IF pc = "render" THEN {Cur} ELSE {})
    /\ UNCHANGED <<storeFile, kept, floor, gutted>>

\* The process dies within write_file, which empties the file first: the store is
\* left empty, or it ends within a line.
TornSave ==
    /\ pc = "merge" /\ fetched # Nothing /\ storeFile[Cur] # "corrupt" /\ Saves
    /\ CutOff
    /\ \E health \in {"ok", "corrupt"} : storeFile' = [storeFile EXCEPT ![Cur] = health]
    /\ kept' = Without(kept, Cur)
    /\ gutted' = gutted \cup {Cur}
    /\ behind' = behind \cup {Cur} \cup (state.map \ stored.map)
    /\ UNCHANGED floor

Extractor == \/ Start \/ Begin \/ FetchPage \/ FetchRoots \/ FetchChain
             \/ Skip \/ Merge \/ Render \/ Commit

Next == \/ Extractor \/ Unreachable \/ Abort \/ TornSave
        \/ \E m \in Messages : Change(m)
        \/ \E c \in Places : LoseStore(c)

Spec == Init /\ [][Next]_vars

\* The cycle runs the extractor again and again, and a run takes its next step.
FairSpec == Spec /\ WF_vars(Extractor)
-------------------------------------------------------------------------------
(* Properties *)

\* Every variable has its type.
TypeOK ==
    /\ extractor \in Extractors
    /\ {modified, kept, rendered, page, fetched} \subseteq [Messages -> Stamps]
    /\ {stored, state} \subseteq States
    /\ storeFile \in [Places -> {"missing", "corrupt", "ok"}]
    /\ pc \in {"idle", "begin", "fetch", "chains", "merge", "render", "commit"}
    /\ at \in 0..(Len(Conversations) + 1)
    /\ pc \notin {"idle", "commit"} => at \in 1..Len(Conversations)
    /\ since \in Stamps /\ before \in 0..(MaxStamp + 1) /\ pages \in Nat
    /\ {more, truncated} \subseteq BOOLEAN
    /\ floor \in [Places -> Stamps] /\ gutted \subseteq Places /\ behind \subseteq Places
    /\ faults \in 0..MaxFaults /\ aborts \in 0..MaxAborts /\ losses \in 0..MaxLosses

InStore(m) == kept[m] = modified[m]
Posted == {m \in Messages \ Noise : modified[m] > 0}
\* The chain of m has not changed since the watermark: no fetch will ask for it.
BehindTheWatermark(m) ==
    ChainModified(Root(m), modified) <= stored.watermark[ConversationOf[m]]
\* What the caps of the backfill have left out, or what went with a store that was
\* emptied while its watermark stood.
LeftOut(m) == LET c == ConversationOf[m]
              IN  \/ modified[m] < floor[c]
                  \/ c \in gutted /\ modified[m] <= stored.watermark[c]

\* "Never silently skips data" (_message_store.py): a fetch never asks again for
\* what is behind the watermark, so whatever a cap cut, whatever failed, died or was
\* deleted, and whatever changed while the listing was being read, a change behind
\* the stored watermark is in the store.
NothingBehindTheWatermark ==
    \A m \in Posted :
        storeFile[ConversationOf[m]] = "ok" /\ BehindTheWatermark(m)
        => InStore(m) \/ LeftOut(m)

\* "File existence matches the watermark and backfill never re-triggers"
\* (teams_channels.py): a conversation of nothing but system events has a store too.
FileMatchesWatermark ==
    losses = 0 => \A c \in Places : stored.watermark[c] > 0 => storeFile[c] # "missing"

\* "messages.md is a derived artifact" (_message_store.py): it shows the store as it
\* is, and the path_map leads to it, unless the store was lost, or a run was cut off,
\* after the last rendering.
RenderedIsTheStore ==
    \A c \in Places \ behind :
        /\ \/ \A m \in In(c) : rendered[m] = kept[m]
           \/ storeFile[c] # "ok"
           \/ pc = "render" /\ Cur = c
        /\ pc = "idle" /\ (\E m \in In(c) : rendered[m] > 0) => c \in stored.map

\* "Whole-conversation retention" (the design of the merge): no run that goes through
\* takes a message from the store or puts an older version in its place.
HistoryStays ==
    [][losses' = losses /\ aborts' = aborts
           => \A m \in Messages : kept'[m] >= kept[m]]_vars

\* A chat whose changes since the watermark are more than an incremental fetch may
\* read: "the next cycle retries the window", and it has only grown.
Overflowing(c) ==
    /\ IsChat /\ stored.watermark[c] > 0
    /\ Cardinality({m \in In(c) : modified[m] > stored.watermark[c]}) > PageSize * WindowPages

\* When the conversations are quiet every message is in the store as it is, but for
\* what the caps left out and for a corrupt store.
EventuallyMirrored ==
    <>[](\A m \in Posted : \/ InStore(m) \/ LeftOut(m)
                            \/ storeFile[ConversationOf[m]] = "corrupt"
                            \/ Overflowing(ConversationOf[m]))

\* history_complete, "pessimistic: unknown completeness is incompleteness" (the design
\* of the merge): a store said to be complete has all that is behind the watermark.
HistoryCompleteIsHonest ==
    \A m \in Posted :
        LET c == ConversationOf[m]
        IN  c \in stored.complete /\ storeFile[c] = "ok" /\ BehindTheWatermark(m)
            => InStore(m)
===============================================================================
