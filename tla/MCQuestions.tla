------------------------------ MODULE MCQuestions ------------------------------
(***************************************************************************)
(* What is kept (MCStores), and what is asked of an index, a vault and a     *)
(* configuration.  The answers are pure, but for a report, which reads an    *)
(* index that a sync may change; a behaviour is one of one part, and the     *)
(* parts share no state.                                                     *)
(***************************************************************************)
EXTENDS MCStores

CONSTANTS Refused, NotFound
VARIABLES ask, answer, input, entity, notes, index, receipts, clock, syncs, walk, disturbed,
          place, listed, catalog, question, told, load, config

(* The questions.  Texts: up to five lexemes.  Documents: one section of up *)
(* to three lines of 0 to 6 characters, or two of two lines.  Searches: up to *)
(* three matches, and embeddings of three entities, a dead one and an orphan. *)
Lexemes == {"a", "-b", "-", "AND", "OR", "NOT", "(", ")"}
Texts == [of : {"text"}, lexemes : UNION {[1..n -> Lexemes] : n \in 1..5}]

Lengths == {0, 1, 3, 6}
Shapes == {s \in UNION {[1..n -> Lengths] : n \in 1..3} : s[1] > 0 /\ s[Len(s)] > 0}
Outlines == {<<s>> : s \in Shapes} \cup {<<s, t>> : s, t \in {x \in Shapes : Len(x) <= 2}}
Numbered(o) == [i \in DOMAIN o |-> [j \in DOMAIN o[i] |-> [k \in 1..o[i][j] |-> 100 * i + 10 * j + k]]]
Documents == [of : {"document"}, sections : {Numbered(o) : o \in Outlines}, max : {5, 8}, overlap : {1, 2}]

MCLive == {1, 2, 3}
MCKind(e) == IF e = 3 THEN "person" ELSE "note"
Scored(p) == [i \in DOMAIN p |-> [entity |-> p[i], score |-> <<4, 2, 1>>[i]]]
Matches == {Scored(p) : p \in UNION {{s \in [1..n -> MCLive] : \A i, j \in 1..n : i # j => s[i] # s[j]} : n \in 0..3}}
Nearby == {s \in [1..3 -> [entity : MCLive \cup {4, None}, distance : {0, 1, 3}]] :
             \A i \in {1, 2} : s[i].distance <= s[i + 1].distance}
Searches == [of : {"search"}, mode : {"text", "vector", "hybrid"}, kind : {None, "note"}, tagged : BOOLEAN,
             matches : Matches, near : {s \in Nearby : s[2].distance > 0 /\ (s[3].distance = 3 \/ s[1].distance = 0)}]

Rows == [from : {1, 2, 3}, to : {1, 2, 3, None}]
Walks == [of : {"walk"}, seed : {1}, depth : 1..3, rows : {SetToSeq(r) : r \in {x \in SUBSET Rows : Cardinality(x) <= 4}}]

Scalars == [text : {"two"}, number : {None}] \cup {[text |-> ToString(n), number |-> n] : n \in {0, 3, 10}}
Numbers == {s \in Scalars : s.number # None}
Filters == [of : {"filter"}, value : Scalars \cup {None}, op : {"eq"}, targets : {<<t>> : t \in Scalars}]
    \cup [of : {"filter"}, value : Scalars \cup {None}, op : {"in"}, targets : {<<t, u>> : t, u \in Scalars}]
    \cup [of : {"filter"}, value : Numbers \cup {None}, op : {"gt", "gte", "lt", "lte"}, targets : {<<t>> : t \in Numbers}]
    \cup [of : {"filter"}, value : Numbers \cup {None}, op : {"between"}, targets : {<<t, u>> : t, u \in Numbers}]
MCAsks == Texts \cup Documents \cup Searches \cup Walks \cup Filters

askVars == <<ask, answer>>
Q == INSTANCE Queries WITH Asks <- MCAsks, Depth <- 2, Near <- 1, K <- 1, Floor <- 2, PageSize <- 2,
                           Live <- MCLive, KindOf <- MCKind

(* The documents.  A page of each kind, with a text that states nothing, a   *)
(* category the reports read, or a link; and found ones of up to three lines. *)
DocInstance == INSTANCE Documents WITH Records <- {}, Found <- {}, Structural <- {"source"}
Text == {<<>>, <<DocInstance!FactLine("folder", "elsewhere")>>, <<[DocInstance!Prose EXCEPT !.links = <<"p1">>]>>}
Some(v) == {v, None}
Pages ==
    [kind : {"email"}, subject : {"s"}, folder : {"inbox"}, sender : {"a@x"}, to : {<<"b@x", "c@x">>}, date : {"d"},
     conversation : {"c1"}, id : {"m1"}, text : Text]
    \cup [kind : {"event"}, subject : {"s"}, start : {"d"}, organizer : {"a@x"}, attendees : {<<>>, <<"p1", "p2">>},
          details : {<<>>} \cup {<<[name |-> n, email |-> e], [name |-> "p2", email |-> "b@x"]>> : n \in Some("p1"), e \in Some("a@x")},
          text : Text]
    \cup [kind : {"chat"}, title : {"t"}, type : {"group"}, people : {<<p, q>> : p, q \in Some("p1") \cup {"p2"}}, last : {"d"}, text : Text]
    \cup [kind : {"channel"}, team : {"t"}, channel : {"c"}, last : {"d"}, text : Text]
    \cup [kind : {"contact"}, name : {"n"}, addresses : {<<a, b>> : a, b \in Some("a@x") \cup {"b@x"}}, company : Some("co"), text : Text]
    \cup [kind : {"user"}, name : {"n"}, address : {"a@x"}, upn : {"u"}, manager : Some("boss"), reports : {<<>>, <<"p1", "p2">>}, text : Text]
    \cup [kind : {"file"}, name : {"f"}, modified : {"d"}, status : {"pending", "converted"}, text : Text]
Item(c, b, l) == [DocInstance!Prose EXCEPT !.form = "item", !.category = c, !.before = b, !.links = l]
BodyLines ==
    {Item(c, b, l) : c \in {None, "[]", "state"}, b \in Some("knows"), l \in {<<>>, <<"p1">>, <<"p2", "p1">>}}
    \cup {[Item(c, "knows", l) EXCEPT !.tags = {"x"}] : c \in Some("state"), l \in {<<>>, <<"p1">>}}
    \cup {[Item("state", "open", <<>>) EXCEPT !.tail = "(context)"]}
    \cup {[DocInstance!Prose EXCEPT !.form = f, !.links = l] : f \in {"prose", "task"}, l \in {<<>>, <<"p1">>, <<"p1", "p2">>}}
FoundPages ==
    {[fence |-> "closed", meta |-> [state |-> v, due |-> w], body |-> b] :
        v \in {DocInstance!Scalar("open"), DocInstance!Many(None)}, w \in {DocInstance!Scalar(None), DocInstance!Nested, DocInstance!Scalar("d")},
        b \in UNION {[1..n -> BodyLines] : n \in 0..2}}
    \cup {[fence |-> f, meta |-> <<>>, body |-> b] : f \in {"none", "open", "broken", "notMapping"}, b \in [1..2 -> BodyLines]}
D == INSTANCE Documents WITH Records <- Pages, Found <- FoundPages, Structural <- {"source"}
docVars == <<input, entity>>

(* The reports.  A conversation with an answer and a later message, one out  *)
(* of the window; meetings of two people, one of them yet to come; and two   *)
(* contacts whose names are one name.                                        *)
Blank == [type |-> "contact", folder |-> None, conv |-> None, msg |-> 10, at |-> 0, party |-> None, title |-> None, addresses |-> {}, links |-> {}]
Mail(m, f, c, t) == [Blank EXCEPT !.type = "email", !.folder = f, !.conv = c, !.msg = m, !.at = t]
Event(m, p, t) == [Blank EXCEPT !.type = "event", !.msg = m, !.party = p, !.at = t]
MCNotes == {Mail(0, "inbox", "c", 2), Mail(1, "sent", "c", 3), Mail(2, "inbox", "c", 4), Mail(3, "inbox", "f", 1),
   Event(4, "Ana Ruiz", 4), Event(5, "Ruiz Ana", 5), Event(6, "Bo", 3), Event(7, "Bo", 6), 
   [Blank EXCEPT !.title = "Ana Ruiz", !.addresses = {"ana@x"}, !.msg = 8, !.links = {"bo"}],
   [Blank EXCEPT !.title = "Ruiz Ana", !.msg = 9, !.links = {"ana-ruiz", "ana@x"}]}
MCLadder == <<[name |-> "close", min |-> 2, stale |-> 0], [name |-> "seen", min |-> 1, stale |-> None]>>
MCKey(n) == IF n = "Ruiz Ana" THEN "Ana Ruiz" ELSE n
MCSpelled(n) == IF n = "ana-ruiz" THEN "Ana Ruiz" ELSE IF n = "bo" THEN "Bo" ELSE n

O == INSTANCE Ops WITH Notes <- MCNotes, Reports <- {"triage", "tiers", "links"}, Window <- 3, Lookback <- 4, Month <- 4,
        Ladder <- MCLadder, NameKey <- MCKey, Spelled <- MCSpelled, Now <- 5, PageSize <- 2, MaxWrites <- 1, MaxSyncs <- 1, vault <- notes
opsVars == <<notes, index, receipts, clock, syncs, walk, disturbed>>

(* The layouts.  Plain ones, one whose outbox is two directories, outboxes  *)
(* of an archive's name, one named like another's beginning or beneath it.   *)
Layout(outbox, failed, meta) ==
    [inbox |-> <<"in">>, outbox |-> outbox, meta |-> meta, processed |-> <<"done">>, failed |-> failed,
     inflight |-> <<"going">>, email |-> <<"mail">>, contacts |-> <<"people">>, entry |-> <<"index.md">>, attachments |-> <<"files">>]
MCVaults ==
    [layout : {Layout(o, f, m) : o \in {<<"out">>, <<"box", "out">>, <<"in">>, <<"..">>, <<"">>}, f \in {<<"failed">>, <<"done">>},
                                m \in {<<"_meta">>, <<"_meta", "m">>}},
     outboxes : {{<<"mail">>, <<"post">>}, {<<"mail">>, <<"mail-old">>}, {<<"mail">>, <<"failed">>}, {<<"mail">>, <<"mail", "old">>},
                 {<<"mail">>, <<"", "post">>}},
     backend : {"local", "azure_blob"}, base : {<<"vault">>, <<"srv", "">>, <<"">>}]
MCStartsWith(p, q) == p = q \/ (p = "mail-old" /\ q = "mail")
addressVars == <<place, listed>>
A == INSTANCE Addresses WITH Vaults <- MCVaults, Uuids <- {"u1", "u2"}, StartsWith <- MCStartsWith

(* The catalog's questions.  Up to four binaries, some of one name, some of   *)
(* a name that contains another's.                                           *)
MCVault == CHOOSE v \in MCVaults : v.base = <<"srv", "">>
MCResolveKey(k) == A!ResolveKey(MCVault, k)
MCStorageKey(k) == A!StorageKey(MCVault, k)
Binary(p, n, s, t) == [path |-> <<p, n>>, name |-> n, ext |-> ".pdf", from |-> "email", state |-> s, at |-> t]
Binaries == {Binary("m1", "r.pdf", "pending", 1), Binary("m1", "r.pdf.old", "failed", 4), Binary("m2", "r.pdf", "converted", 3),
             Binary("m2", "b.pdf", "pending", 2), [Binary("m3", "r.pdf.new", "pending", 5) EXCEPT !.ext = ".x", !.from = "teams"]}
MCContains(n, text) == n = text \/ (n \in {"r.pdf.old", "r.pdf.new"} /\ text \in {"r.pdf", "r"}) \/ (n = "r.pdf" /\ text = "r")
MCDotted(e) == IF e \in {"pdf", "PDF"} THEN ".pdf" ELSE e
MCFilters == [ext : {None, "PDF"}, from : {None, "teams"}, state : {None, "pending", "lost"}, since : {None, 3}, name : {None, "r"}]
Plainly == [ext |-> None, from |-> None, state |-> None, since |-> None, name |-> None]
MCQuestions == [verb : {"list"}, filter : MCFilters, limit : {None, 1}, text : {<<"r">>}]
    \cup [verb : {"stats"}, filter : {Plainly, [Plainly EXCEPT !.ext = "PDF"]}, limit : {None}, text : {<<"r">>}]
    \cup [verb : {"resolve"}, filter : {Plainly}, limit : {None},
           text : {<<"r">>, <<"r.pdf">>, <<"b.pdf">>, <<"m2", "r.pdf">>, <<"m3", "b.pdf">>} \cup {MCResolveKey(b.path) : b \in Binaries}]
K == INSTANCE Lookups WITH Catalogs <- SUBSET Binaries, Questions <- MCQuestions, States <- {"pending", "converted", "failed"},
        Sample <- 2, PageSize <- 2, HasText <- MCContains, Dotted <- MCDotted, ResolveKey <- MCResolveKey,
        StorageKey <- MCStorageKey, NotFound <- NotFound
lookupVars == <<catalog, question, told>>

(* The configuration.  Up to three files: a profile, who names it, a path of  *)
(* each kind, a section that a scalar or a list replaces.                    *)
MCAbsolute(text) == text = "/db"
S0 == INSTANCE Settings WITH Loads <- {}, PathKeys <- {}, IsAbsolute <- MCAbsolute, Extractors <- {}
One(k, n) == S0!Dict(k :> n)
Sections == {S0!Dict("auth" :> One("profiles", One("p", S0!Dict(<<>>))) @@ "extractors" :> One("auth_profile", S0!Var("A"))),
     One("auth", One("profiles", One("q", One("path", S0!Text("db"))))),
     S0!Dict("index" :> S0!Dict("path" :> S0!Var("B") @@ "name" :> S0!Text("db")) @@ "extractors" :> One("auth_profile", S0!Text("q"))),
     One("index", One("path", S0!Text("/db"))), One("index", S0!Text("db")),
     One("index", One("path", One("root", S0!Text("db")))),
     One("index", One("roots", S0!List("0" :> One("path", S0!Text("db")) @@ "1" :> S0!Var("B")))),
     One("index", One("roots", S0!List("0" :> S0!Text("db")))),
     One("vault", One("extractor_dirs", One("mail", S0!Text("m")))), One("vault", One("root", S0!Text("db"))),
     One("outboxes", One("definitions", One("o", One("auth_profile", S0!Text("p")))))}
ConfigFiles == [kind : {"mapping"}, root : Sections] \cup [kind : {"missing", "blank", "scalar"}, root : {S0!Dict(<<>>)}]
Placed(f) == [i \in DOMAIN f |-> [kind |-> f[i].kind, root |-> f[i].root, dir |-> <<"d1", "d2", "d3">>[i]]]
MCLoads == [files : {Placed(f) : f \in UNION {[1..n -> ConfigFiles] : n \in 1..3}},
            env : {e \in [{"A", "B"} -> {None, "p", "/db"}] : e["A"] # "/db"}]
G == INSTANCE Settings WITH Loads <- MCLoads, PathKeys <- {"path", "root"}, IsAbsolute <- MCAbsolute, Extractors <- {"mail"}
settingsVars == <<load, config>>

questionVars == <<askVars, docVars, opsVars, addressVars, lookupVars, settingsVars>>
QuestionsInit ==
    /\ part \in {"backends", "catalog", "manifests", "queries", "documents", "reports", "addresses", "lookups", "settings"}
    /\ StoresInit
    /\ O!Init /\ IF part = "reports" THEN \E n \in MCNotes : n.type # "event" /\ MCNotes \ {n} \subseteq DOMAIN notes ELSE DOMAIN notes = {}
    /\ answer = None /\ entity = None
    /\ ask \in IF part = "queries" THEN MCAsks ELSE {None}
    /\ input \in IF part = "documents" THEN Pages \cup FoundPages ELSE {None}
    /\ listed = None /\ place \in IF part = "addresses" THEN MCVaults ELSE {None}
    /\ told = None /\ IF part = "lookups" THEN K!LookupInit ELSE catalog = {} /\ question = None
    /\ config = None /\ load \in IF part = "settings" THEN MCLoads ELSE {None}
QuestionIsAsked ==
    \/ part = "queries" /\ Q!Answer /\ UNCHANGED <<docVars, opsVars, addressVars, lookupVars, settingsVars>>
    \/ part = "documents" /\ D!Read /\ UNCHANGED <<askVars, opsVars, addressVars, lookupVars, settingsVars>>
    \/ part = "reports" /\ O!Next /\ UNCHANGED <<askVars, docVars, addressVars, lookupVars, settingsVars>>
    \/ part = "addresses" /\ A!Look /\ UNCHANGED <<askVars, docVars, opsVars, lookupVars, settingsVars>>
    \/ part = "lookups" /\ K!Ask /\ UNCHANGED <<askVars, docVars, opsVars, addressVars, settingsVars>>
    \/ part = "settings" /\ G!Load /\ UNCHANGED <<askVars, docVars, opsVars, addressVars, lookupVars>>
QuestionsNext ==
    \/ StoresNext /\ UNCHANGED questionVars
    \/ QuestionIsAsked /\ UNCHANGED storesVars
QuestionsSpec == QuestionsInit /\ [][QuestionsNext]_<<storesVars, questionVars>>

\* Queries: what is typed becomes an expression FTS5 accepts, with every term and
\* every negation.
QueryIsAccepted == part = "queries" => Q!QueryIsAccepted
\* Queries: a document's chunks, a search's pages, a walk's edges and a filter's
\* matches are all there and once.
AnswersAreWhole == part = "queries" =>
    Q!EverythingIsEmbedded /\ Q!SearchIsWhole /\ Q!WalkIsExact /\ Q!FiltersAgree
\* Documents: what a report reads of a record is read back from the page the
\* extractor wrote, and no link or statement of a document is lost or doubled.
PagesReadBack == part = "documents" => D!FactsReadBack /\ D!DocumentIsRead
\* Ops: what a report says of an index no sync changed while it was made.
ReportsAreExact == [][O!ReportIsExact]_opsVars
\* Addresses: every intent is found once and nothing else, no two things share a
\* key, and an address names its key.
AddressesAgree == part = "addresses" => A!AddressesAgree
\* Lookups: a listing is honest, what it prints is accepted, and a name means one
\* file or none.
LookupsAgree == part = "lookups" => K!LookupsAgree
\* Settings: the configuration is what the files' last words make of it.
SettingsAgree == part = "settings" => G!SettingsAgree
ResolvesAgainstTheFirst == part = "settings" => G!ResolvesAgainstTheFirst
AlwaysResolvesExactly == part = "lookups" => K!AlwaysResolvesExactly
EveryLayoutIsRead == part = "addresses" => A!EveryLayoutIsRead
NamedTypeIsKept == part = "documents" => D!NamedTypeIsKept
ListedOnce == O!ListedOnce
AlwaysAccepted == part = "queries" => Q!AlwaysAccepted
\* What is asked of the index is accepted, and answered with all there is, once.
QuestionsAreAnswered == QueryIsAccepted /\ AnswersAreWhole
\* What is given a name - an intent, a file, a path of the configuration - is found
\* by it, and nothing else is.
NamesResolve == AddressesAgree /\ LookupsAgree /\ SettingsAgree
=============================================================================
