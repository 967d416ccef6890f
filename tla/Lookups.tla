--------------------------------- MODULE Lookups ---------------------------------
(***************************************************************************)
(* The questions the `index catalog` verbs put to the file catalog         *)
(* (commands/_catalog.py, index/catalog.py): a filtered listing, the       *)
(* counts, and the one file a name or a printed path means; and which file *)
(* `read` opens for what they print.  A behaviour is one catalog, one      *)
(* question and its answer.                                                *)
(*                                                                         *)
(* A row is [path, name, ext, from, state, at], with `at` its own.         *)
(***************************************************************************)
EXTENDS Integers, Sequences, FiniteSets, SequencesExt, FiniteSetsExt

CONSTANTS
    Catalogs,          \* sets of rows
    Questions,         \* [verb, filter, limit, text]
    States,            \* config: index.catalog.conversion_states
    Sample,            \* RESOLVE_SAMPLE
    PageSize,          \* config: index.search.page_size
    HasText(_, _),    \* of a file name and a text, as LIKE and lower() see it
    Dotted(_),         \* normalised_extension
    ResolveKey(_), StorageKey(_),   \* storage: a key's address and back
    None,
    Refused,           \* a ValueError, a ConfigError, a UsageError
    NotFound

VARIABLES catalog, question, told
lookupVars == <<catalog, question, told>>

NoFilter == [ext |-> None, from |-> None, state |-> None, since |-> None, name |-> None]

-----------------------------------------------------------------------------
(* The catalog, as both backends answer it. *)

Matches(row, f) ==
    /\ f.ext # None => row.ext = Dotted(f.ext)
    /\ f.from # None => row.from = f.from
    /\ f.state # None => row.state = f.state
    /\ f.since # None => row.at >= f.since
    /\ f.name # None => HasText(row.name, f.name)
RECURSIVE NewestFirst(_)
NewestFirst(rows) == IF rows = {} THEN <<>>
                     ELSE LET newest == CHOOSE r \in rows : \A s \in rows : s.at <= r.at
                          IN  <<newest>> \o NewestFirst(rows \ {newest})
Cut(rows, limit) == SubSeq(rows, 1, Min({limit, Len(rows)}))
\* SQL filters and then cuts off; the memory backend sorts everything first.
SearchRows(f, limit) == Cut(NewestFirst({r \in catalog : Matches(r, f)}), limit)
SearchMemory(f, limit) == Cut(SelectSeq(NewestFirst(catalog), LAMBDA r : Matches(r, f)), limit)
CountRows(f) == Cardinality({r \in catalog : Matches(r, f)})
CountStates == [s \in States |-> Cardinality({r \in catalog : r.state = s})]
IsKnown(f) == f.state = None \/ f.state \in States
Get(path) == {r \in catalog : r.path = path}

-----------------------------------------------------------------------------
(* The verbs. *)

RowLimit(limit) == IF limit = None THEN PageSize ELSE limit
\* emit_capped: the rows, how many there are, and a note when some were withheld.
Capped(rows, total) == [rows |-> rows, total |-> total, truncated |-> Len(rows) < total]
Shown(rows) == [i \in DOMAIN rows |-> [rows[i] EXCEPT !.path = ResolveKey(@)]]
List(q) ==
    IF ~IsKnown(q.filter) THEN Refused
    ELSE Capped(Shown(SearchRows(q.filter, RowLimit(q.limit))), CountRows(q.filter))
Stats(q) == IF q.filter # NoFilter THEN Refused ELSE [total |-> Cardinality(catalog), counts |-> CountStates]

\* Mutant: the first of the sample will do.
FirstOf(entries, text) == IF entries = <<>> THEN NotFound ELSE entries[1]
\* _one_of: the one, or the one that bears just this name.
OneOf(entries, text) ==
    LET exact == SelectSeq(entries, LAMBDA r : r.name = text)
    IN  IF entries = <<>> THEN NotFound
        ELSE IF Len(exact) = 1 THEN exact[1]
        ELSE IF Len(entries) > 1 THEN Refused ELSE entries[1]
Resolve(q) ==
    LET own == Get(StorageKey(q.text))
        found == IF own # {} THEN CHOOSE r \in own : TRUE
                 ELSE OneOf(SearchRows([NoFilter EXCEPT !.name = Last(q.text)], Sample), Last(q.text))
    IN  IF found \in {NotFound, Refused} THEN found ELSE ResolveKey(found.path)
\* read, _source_file: absolute as given, else from the vault's root.
SourceFile(address) == ResolveKey(address)

Ask == /\ told = None /\ UNCHANGED <<catalog, question>>
       /\ told' = CASE question.verb = "list" -> List(question)
                    [] question.verb = "stats" -> Stats(question)
                    [] question.verb = "resolve" -> Resolve(question)
LookupInit == catalog \in Catalogs /\ question \in Questions /\ told = None

-----------------------------------------------------------------------------
\* commands/_context.py, emit_capped: a listing has the newest rows that pass the
\* filters, no more than the limit, and says so exactly when there are others;
\* and the memory backend lists the same.
ListingIsHonest ==
    (told \notin {None, Refused} /\ question.verb = "list") =>
        LET all == {r \in catalog : Matches(r, question.filter)}
            shown == {r \in all : \E i \in DOMAIN told.rows : told.rows[i].path = ResolveKey(r.path)}
        IN  /\ Len(told.rows) = Cardinality(shown) /\ Len(told.rows) <= RowLimit(question.limit)
            /\ told.total = Cardinality(all) /\ told.truncated <=> shown # all
            /\ \A r \in shown, s \in all \ shown : r.at > s.at
            /\ Shown(SearchMemory(question.filter, RowLimit(question.limit))) = told.rows

\* catalog.py, stats: every state has its count, and the counts make up the whole.
CountsAddUp ==
    (told \notin {None, Refused} /\ question.verb = "stats") =>
        told.total = FoldFunction(LAMBDA n, m : n + m, 0, told.counts)

\* _catalog.py, resolve: "ambiguity is an error": what it prints is the file of
\* the path it was given, or the only one that bears the name, or contains it when
\* none bears it, as long as the sample holds every match.
IsOneOf(address) ==
    LET text == Last(question.text)
        bears == {r \in catalog : r.name = text}
        holds == {r \in catalog : HasText(r.name, text)}
    IN  \/ Get(StorageKey(question.text)) # {} /\ address = ResolveKey(StorageKey(question.text))
        \/ /\ Get(StorageKey(question.text)) = {}
           /\ \E r \in holds : address = ResolveKey(r.path) /\ (bears = {r} \/ (bears = {} /\ holds = {r}))
Resolvable ==
    LET text == Last(question.text)
    IN  \/ Get(StorageKey(question.text)) # {}
        \/ Cardinality({r \in catalog : r.name = text}) = 1
        \/ Cardinality({r \in catalog : HasText(r.name, text)}) = 1
ResolvesExactly ==
    /\ told \notin {NotFound, Refused} => IsOneOf(told)
    /\ told \in {NotFound, Refused} => ~Resolvable
WithinSample == CountRows([NoFilter EXCEPT !.name = Last(question.text)]) <= Sample
ResolvesWithinSample == (told # None /\ question.verb = "resolve" /\ WithinSample) => ResolvesExactly

\* _catalog.py, resolve and read: every address a listing prints is one that
\* `resolve` gives back and that `read` opens as it stands.
PrintedIsAccepted ==
    (told \notin {None, Refused} /\ question.verb = "list") =>
        \A i \in DOMAIN told.rows :
            /\ Resolve([question EXCEPT !.text = told.rows[i].path]) = told.rows[i].path
            /\ SourceFile(told.rows[i].path) = told.rows[i].path
LookupsAgree == ListingIsHonest /\ CountsAddUp /\ ResolvesWithinSample /\ PrintedIsAccepted

\* _catalog.py:148-150, of any number of matches.
AlwaysResolvesExactly == (told # None /\ question.verb = "resolve") => ResolvesExactly
=============================================================================
