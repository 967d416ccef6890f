---------------------------------- MODULE Ops ----------------------------------
(***************************************************************************)
(* The operational reports (ops/): which received messages nobody answered *)
(* or declined (triage), how often one talks to whom (tiers), and which    *)
(* dangling links mean a known entity (links).  Each pages the index and   *)
(* then reads the observations and edges of what it listed, while the      *)
(* extractors write, an index sync runs and a human deletes drafts.        *)
(***************************************************************************)
EXTENDS Integers, Sequences, FiniteSets, SequencesExt, FiniteSetsExt

CONSTANTS
    Notes,        \* [type, folder, conv, msg, at, party, title, addresses, links]
    Reports,      \* {"triage", "tiers", "links"}
    Window,       \* how far back a triage looks
    Lookback,     \* config: ops.tiers.lookback_days
    Ladder,       \* config: [name, min, stale], the first that fits
    PageSize,
    NameKey(_),   \* names.name_key: a spelling to its identity
    Spelled(_),   \* names.deslugify: what is left of a link, as a title
    Month,        \* the days of a month
    None,
    Now,          \* the moment the reports are made for
    MaxWrites,    \* bound: how often a note is written or moved
    MaxSyncs      \* bound: how often the index is synced

VARIABLES
    vault,        \* for each note that is on disk, when it was written
    index,        \* the same as of the last sync
    receipts,     \* the drafts made and their verdicts: [kind, of, verdict]
    clock,        \* how many writes there were
    syncs,        \* how many syncs
    walk,         \* a report being made
    disturbed     \* a sync ended since the report began

vars == <<vault, index, receipts, clock, syncs, walk, disturbed>>

Idle == [pc |-> "idle", of |-> None, page |-> 0, got |-> <<>>, result |-> None]
On(dir) == DOMAIN dir
Without(dir, n) == [m \in DOMAIN dir \ {n} |-> dir[m]]

-----------------------------------------------------------------------------
(* What happens beside a report. *)

\* An extractor writes a note: a message comes in, a reply is sent, a page is
\* rewritten.
Write(n) == /\ clock < MaxWrites /\ clock' = clock + 1
            /\ vault' = [m \in DOMAIN vault \cup {n} |-> IF m = n THEN clock + 1 ELSE vault[m]]
            /\ UNCHANGED <<index, receipts, syncs, walk, disturbed>>
\* A message leaves its folder, and its page with it.
Leaves(n) == /\ n \in On(vault) /\ clock < MaxWrites /\ clock' = clock + 1
             /\ vault' = Without(vault, n) /\ UNCHANGED <<index, receipts, syncs, walk, disturbed>>
Sync == /\ syncs < MaxSyncs /\ syncs' = syncs + 1 /\ index' = vault
        /\ disturbed' = (walk.pc # "idle")
        /\ UNCHANGED <<vault, receipts, clock, walk>>
\* A draft was dispatched, and reconciliation wrote what became of it.
Verdict(r) == /\ receipts = {} /\ receipts' = {r}
              /\ UNCHANGED <<vault, index, clock, syncs, walk, disturbed>>

-----------------------------------------------------------------------------
(* indexed_entities: page after page of a listing, newest first. *)

OfType(report) == CASE report = "links" -> {n.type : n \in Notes} [] report = "triage" -> {"email"} [] report = "tiers" -> {"event"}
Newer(x, y) == index[x] > index[y] \/ (index[x] = index[y] /\ x.msg < y.msg)
RECURSIVE Listed(_)
Listed(notes) == IF notes = {} THEN <<>>
                 ELSE LET first == CHOOSE n \in notes : \A m \in notes \ {n} : Newer(n, m)
                      IN  <<first>> \o Listed(notes \ {first})
Listing(report) == Listed({n \in On(index) : n.type \in OfType(report)})

Begin(report) == /\ walk.pc = "idle"
                 /\ walk' = [Idle EXCEPT !.pc = "paging", !.of = report, !.page = 1]
                 /\ disturbed' = FALSE /\ UNCHANGED <<vault, index, receipts, clock, syncs>>
ReadPage ==
    /\ walk.pc = "paging"
    /\ LET all == Listing(walk.of)
           hits == SubSeq(all, (walk.page - 1) * PageSize + 1, Min({walk.page * PageSize, Len(all)}))
           got == walk.got \o hits
           last == hits = <<>> \/ Len(got) >= Len(all)
       IN  walk' = [walk EXCEPT !.got = got, !.page = @ + 1, !.pc = IF last THEN "judging" ELSE @]
    /\ UNCHANGED <<vault, index, receipts, clock, syncs, disturbed>>

-----------------------------------------------------------------------------
(* triage *)

\* Mutant: a draft that was sent declines its message, too.
EveryReference == {r.of : r \in {x \in receipts : x.kind \in {"reply", "forward"}}}
\* The message ids of the replies and forwards whose draft a human deleted.
RejectedReferences == {r.of : r \in {x \in receipts : x.verdict = "rejected" /\ x.kind \in {"reply", "forward"}}}

LastSent(got, conv) == Max({-1} \cup {n.at : n \in {m \in Range(got) : m.folder = "sent" /\ m.conv = conv}})
Unanswered(got) ==
    SelectSeq(got, LAMBDA n : /\ n.folder = "inbox"
                              /\ n.at >= Now - Window
                              /\ n.at > LastSent(got, n.conv)
                              /\ n.msg \notin RejectedReferences)

\* _required: a message that has no observations any more ends the report.
Triage(got) == IF Range(got) \subseteq On(index) THEN Unanswered(got) ELSE None

-----------------------------------------------------------------------------
(* tiers *)

AssignRung(count) ==
    LET fits == {i \in DOMAIN Ladder : count * Month >= Ladder[i].min * Lookback}
    IN  IF fits = {} THEN None ELSE Ladder[Min(fits)]
IsStale(rung, last) == rung.stale # None /\ Now - last > rung.stale
\* _interactions: a note without its observations has no timestamp and no say.
Interactions(got) == SelectSeq(got, LAMBDA n : n \in On(index) /\ n.at >= Now - Lookback /\ n.at <= Now)
ComputeTiers(got) ==
    LET seen == Interactions(got)
        of(key) == SelectSeq(seen, LAMBDA n : NameKey(n.party) = key)
        last(key) == Max({n.at : n \in Range(of(key))})
        keys == {k \in {NameKey(n.party) : n \in Range(seen)} : AssignRung(Len(of(k))) # None}
    IN  {LET rung == AssignRung(Len(of(k)))
         IN  [key |-> k, count |-> Len(of(k)), tier |-> rung.name, stale |-> IsStale(rung, last(k))] : k \in keys}

-----------------------------------------------------------------------------
(* links *)

\* _build_lookups: the first to bear a spelling keeps it.
FirstOf(got, bearers) ==
    LET at == {i \in DOMAIN got : got[i].type = "contact" /\ got[i] \in bearers}
    IN  IF at = {} THEN None ELSE got[Min(at)]
\* _match: an address, a title, a name without its order and case.
Match(got, rest) ==
    LET address == FirstOf(got, {n \in On(index) : rest \in n.addresses})
        title == FirstOf(got, {n \in Notes : n.title = Spelled(rest)})
        name == FirstOf(got, {n \in Notes : NameKey(n.title) = NameKey(Spelled(rest))})
    IN  IF address # None THEN <<address, "high">>
        ELSE IF title # None THEN <<title, "high">>
        ELSE IF name # None THEN <<name, "medium">> ELSE <<None, "unresolved">>
\* Every dangling link of the listed notes that are still there.
ResolveLinks(got) ==
    {[source |-> n, rest |-> l, match |-> Match(got, l)] : <<n, l>> \in
        UNION {{<<n, l>> : l \in n.links} : n \in Range(got) \cap On(index)}}

-----------------------------------------------------------------------------
Report(of, got) == CASE of = "triage" -> Triage(got) [] of = "tiers" -> ComputeTiers(got) [] of = "links" -> ResolveLinks(got)
Judge == /\ walk.pc = "judging"
         /\ walk' = [walk EXCEPT !.pc = "told", !.result = Report(walk.of, walk.got)]
         /\ UNCHANGED <<vault, index, receipts, clock, syncs, disturbed>>
Close == /\ walk.pc = "told" /\ walk' = Idle
         /\ disturbed' = FALSE /\ UNCHANGED <<vault, index, receipts, clock, syncs>>

Init == /\ vault \in {[n \in there |-> 0] : there \in SUBSET Notes} /\ index = vault /\ receipts = {} /\ clock = 0 /\ syncs = 0
        /\ walk = Idle /\ disturbed = FALSE
Next == \/ \E n \in Notes : Write(n) \/ Leaves(n)
        \/ Sync
        \/ \E n \in {m \in Notes : m.folder = "inbox"}, k \in {"reply", "new"}, v \in {"rejected", "sent_modified"} :
              Verdict([kind |-> k, of |-> n.msg, verdict |-> v])
        \/ \E r \in Reports : Begin(r)
        \/ ReadPage \/ Judge \/ Close
Spec == Init /\ [][Next]_vars

-----------------------------------------------------------------------------
(* What a report is to say of the index as it stands, and was while it was  *)
(* made.                                                                    *)

Indexed(type) == {n \in On(index) : n.type = type}

\* The messages of the window in the inbox that have no sent sibling at or after
\* them, whenever that was sent, and no deleted draft, each once.
TriageExact(result) ==
    LET answered(n) == \E s \in Indexed("email") : s.folder = "sent" /\ s.conv = n.conv /\ s.at >= n.at
        declined(n) == \E r \in receipts : r.of = n.msg /\ r.kind # "new" /\ r.verdict = "rejected"
    IN  /\ result # None
        /\ Len(result) = Cardinality(Range(result))
        /\ Range(result) = {n \in Indexed("email") : /\ n.folder = "inbox" /\ n.at >= Now - Window
                                                     /\ ~answered(n) /\ ~declined(n)}

\* Whoever was met in the window as often as some rung asks is in it once, with
\* every meeting counted, and whoever was met more often is on no lower rung.
TiersExact(result) ==
    LET met(k) == {n \in Indexed("event") : NameKey(n.party) = k /\ n.at \in Now - Lookback..Now}
        rank(t) == CHOOSE i \in DOMAIN Ladder : Ladder[i].name = t.tier
        fits(k) == \E i \in DOMAIN Ladder : Cardinality(met(k)) * Month >= Ladder[i].min * Lookback
    IN  /\ {t.key : t \in result} = {k \in {NameKey(n.party) : n \in Indexed("event")} : met(k) # {} /\ fits(k)}
        /\ \A t, u \in result : /\ t.key = u.key => t = u
                                /\ t.count = Cardinality(met(t.key))
                                /\ t.count > u.count => rank(t) <= rank(u)

\* A match is a contact of the index that bears what is left of the link, "high"
\* when it bears just that, and a contact that does is not missed.
LinksMeant(result) ==
    \A r \in result :
        LET who == r.match[1]
            bears(n) == r.rest \in n.addresses \/ n.title = Spelled(r.rest)
        IN  /\ who = None => \A n \in Indexed("contact") : NameKey(n.title) # NameKey(Spelled(r.rest)) /\ ~bears(n)
            /\ who # None => who \in Indexed("contact") /\ ((r.match[2] = "high") = bears(who))
            /\ (\E n \in Indexed("contact") : bears(n)) => who # None

\* ops/triage.py, tiers.py, links.py: what a report says when no sync ended while
\* it was made.
ReportIsExact ==
    Judge /\ ~disturbed => CASE walk.of = "triage" -> TriageExact(walk'.result)
                             [] walk.of = "tiers" -> TiersExact(walk'.result)
                             [] walk.of = "links" -> LinksMeant(walk'.result)
ReportsAreExact == [][ReportIsExact]_vars

\* ops/links.py: "what 'the whole index' means", of a listing a sync interrupted
\* as well.
ListedOnce == walk.pc \in {"judging", "told"} => Len(walk.got) = Cardinality(Range(walk.got))
=============================================================================
