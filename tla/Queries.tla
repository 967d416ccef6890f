-------------------------------- MODULE Queries --------------------------------
(***************************************************************************)
(* What a question to the index goes through: free text made into an FTS5  *)
(* expression (index/fts_query.py), a document cut into chunks for its     *)
(* embeddings (index/vector/chunking.py), the ranked search and its fusion *)
(* (index/search.py, fusion.py), the walk of the graph (index/graph.py)    *)
(* and the metadata filters of the two backends.  All are pure: a          *)
(* behaviour is one question and its answer.                               *)
(***************************************************************************)
EXTENDS Integers, Sequences, FiniteSets, SequencesExt, FiniteSetsExt

CONSTANTS
    Asks,        \* the questions, records whose "of" says which kind
    Depth,       \* config: search.vector_candidates
    Near,        \* the largest distance search.min_similarity lets pass
    K,           \* config: search.rrf_k
    Floor,       \* config: search.rrf_min_weight, in quarters
    PageSize,    \* of a search
    Live,        \* the entities of the index
    KindOf(_),   \* the type of an entity
    None,
    Refused      \* the answer that is a ValueError

VARIABLES ask, answer
vars == <<ask, answer>>

-----------------------------------------------------------------------------
(* Free text to FTS5.  A lexeme is a word, a word behind a hyphen, a lone   *)
(* hyphen, one of the three operators or a bracket; a phrase is a word.     *)

Operators == {"AND", "OR", "NOT"}
Negated == {"-b"}
Terms == {"a", "b"}
Element(s, i) == IF i \in DOMAIN s THEN s[i] ELSE None

\* A word behind a hyphen is subtracted, and takes a preceding AND with it.
Take(tokens, x) ==
    IF x \in Negated
    THEN (IF tokens # <<>> /\ Last(tokens) = "AND" THEN Front(tokens) ELSE tokens) \o <<"NOT", "b">>
    ELSE IF x = "-" THEN tokens ELSE Append(tokens, x)
Tokenize(text) == FoldLeft(Take, <<>>, text)

RECURSIVE WithoutEmptyGroups(_)
WithoutEmptyGroups(s) ==
    LET empty == {i \in 1..Len(s) - 1 : s[i] = "(" /\ s[i + 1] = ")"}
    IN  IF empty = {} THEN s
        ELSE WithoutEmptyGroups(RemoveAt(RemoveAt(s, Min(empty)), Min(empty)))

Opened(s) == Cardinality({i \in DOMAIN s : s[i] = "("}) - Cardinality({i \in DOMAIN s : s[i] = ")"})
\* Mutant: what was opened is not closed.
LeftOpen(tokens) ==
    WithoutEmptyGroups(FoldLeft(LAMBDA s, x : IF x = ")" /\ Opened(s) = 0 THEN s ELSE Append(s, x), <<>>, tokens))
Balanced(tokens) ==
    LET kept == FoldLeft(LAMBDA s, x : IF x = ")" /\ Opened(s) = 0 THEN s ELSE Append(s, x), <<>>, tokens)
    IN  WithoutEmptyGroups(kept \o [i \in 1..Opened(kept) |-> ")"])

\* A conjunction with no term on one side.
Orphaned(s, i) ==
    /\ s[i] \in {"AND", "OR"}
    /\ \/ i = 1 \/ i = Len(s)
       \/ Element(s, i - 1) \in Operators \cup {"("}
       \/ Element(s, i + 1) \in {"AND", "OR", ")"}
RECURSIVE DropDangling(_)
DropDangling(s) ==
    LET at == {i \in DOMAIN s : Orphaned(s, i)}
    IN  IF at = {} THEN s ELSE DropDangling(RemoveAt(s, Min(at)))

WithImplicitAnd(tokens) ==
    FoldLeft(LAMBDA s, x :
        IF s # <<>> /\ x \notin Operators \cup {")"} /\ Last(s) \notin Operators \cup {"("}
        THEN s \o <<"AND", x>> ELSE Append(s, x), <<>>, tokens)

UnaryNot(s) == \E i \in DOMAIN s : s[i] = "NOT" /\ (i = 1 \/ Element(s, i - 1) \in Operators \cup {"("})

ToFtsQuery(text) ==
    LET tokens == WithImplicitAnd(DropDangling(Balanced(Tokenize(text))))
    IN  IF UnaryNot(tokens) THEN Refused ELSE tokens

-----------------------------------------------------------------------------
(* A document to chunks.  A section is a sequence of lines, a line is a      *)
(* sequence of characters, and every character but Newline is its own.       *)

Newline == 0
LastOf(s, n) == SubSeq(s, Len(s) - n + 1, Len(s))
Joined(lines) == FoldLeft(LAMBDA s, l : s \o <<Newline>> \o l, Head(lines), Tail(lines))

\* _split_long_section: [done, lines, length].
AddLine(acc, line, max, overlap) ==
    LET cut == acc.length + Len(line) + 1 > max /\ acc.lines # <<>>
        text == Joined(acc.lines)
        carried == IF Len(text) > overlap THEN LastOf(text, overlap) ELSE <<>>
    IN  IF cut
        THEN [done |-> Append(acc.done, text),
              lines |-> (IF carried = <<>> THEN <<>> ELSE <<carried>>) \o <<line>>,
              length |-> Len(carried) + Len(line) + 1]
        ELSE [acc EXCEPT !.lines = Append(@, line), !.length = @ + Len(line) + 1]
SplitLong(section, max, overlap) ==
    LET acc == FoldLeft(LAMBDA a, line : AddLine(a, line, max, overlap),
                        [done |-> <<>>, lines |-> <<>>, length |-> 0], section)
    IN  Append(acc.done, Joined(acc.lines))

Stripped(s) == LET at == {i \in DOMAIN s : s[i] # Newline}
               IN  IF at = {} THEN <<>> ELSE SubSeq(s, Min(at), Max(at))
\* _merge_short: [done, buffer].
\* Mutant: the chunk that did not fit is left out.
ForgetsChunk(acc, chunk, max) ==
    IF Len(acc.buffer) + Len(chunk) + 1 <= max
    THEN [acc EXCEPT !.buffer = IF @ = <<>> THEN chunk ELSE Stripped(@ \o <<Newline>> \o chunk)]
    ELSE [done |-> IF acc.buffer = <<>> THEN acc.done ELSE Append(acc.done, acc.buffer), buffer |-> <<>>]
Merge(acc, chunk, max) ==
    IF Len(acc.buffer) + Len(chunk) + 1 <= max
    THEN [acc EXCEPT !.buffer = IF @ = <<>> THEN chunk ELSE Stripped(@ \o <<Newline>> \o chunk)]
    ELSE [done |-> IF acc.buffer = <<>> THEN acc.done ELSE Append(acc.done, acc.buffer), buffer |-> chunk]
SplitIntoChunks(sections, max, overlap) ==
    LET pieces == FlattenSeq([i \in DOMAIN sections |->
                     IF Len(Joined(sections[i])) <= max THEN <<Joined(sections[i])>>
                     ELSE SplitLong(sections[i], max, overlap)])
        acc == FoldLeft(LAMBDA a, c : Merge(a, c, max), [done |-> <<>>, buffer |-> <<>>], pieces)
    IN  IF acc.buffer = <<>> THEN acc.done ELSE Append(acc.done, acc.buffer)

-----------------------------------------------------------------------------
(* A search.  The index answers with scored entities, best first, the       *)
(* vector store with the nearest embeddings that still have a chunk.        *)

Passes(e, kind) == kind = None \/ KindOf(e) = kind
\* sqlite_vec_store.query: the nearest Depth embeddings, orphans among them.
Recalled(near) == SelectSeq(SubSeq(near, 1, Depth), LAMBDA h : h.entity # None)

\* _vector_candidates: the best chunk of each, nearest first, then by id.
\* Mutant: a chunk is a result.
EveryChunk(near, kind) ==
    SelectSeq(Recalled(near), LAMBDA h : h.distance <= Near /\ h.entity \in Live /\ Passes(h.entity, kind))
Candidates(near, kind) ==
    LET hits == {h \in Range(Recalled(near)) : h.distance <= Near}
        best(e) == Min({h.distance : h \in {x \in hits : x.entity = e}})
        found == {e \in {h.entity : h \in hits} \cap Live : Passes(e, kind)}
    IN  SetToSortSeq({[entity |-> e, distance |-> best(e)] : e \in found},
                     LAMBDA x, y : x.distance < y.distance \/ (x.distance = y.distance /\ x.entity < y.entity))

\* The weights, in quarters: a text score against the largest of its list, a
\* distance folded into a similarity.
TextWeights(ranked) == LET top == Max({ranked[i].score : i \in DOMAIN ranked})
                       IN  [i \in DOMAIN ranked |-> Max({(4 * ranked[i].score) \div top, Floor})]
Similarity(ranked) == [i \in DOMAIN ranked |-> Max({4 \div (1 + ranked[i].distance), Floor})]

\* reciprocal_rank_fusion: weight / (K + rank), summed, then by id.
Share(ranked, weights, e) ==
    MapThenSumSet(LAMBDA i : (12 * weights[i]) \div (K + i), {j \in DOMAIN ranked : ranked[j].entity = e})
Fused(text, near) ==
    LET found == {text[i].entity : i \in DOMAIN text} \cup {near[i].entity : i \in DOMAIN near}
        score(e) == Share(text, TextWeights(text), e) + Share(near, Similarity(near), e)
    IN  SetToSortSeq({[entity |-> e, score |-> score(e)] : e \in found},
                     LAMBDA x, y : x.score > y.score \/ (x.score = y.score /\ x.entity < y.entity))

\* text_search: the matches the filter lets pass, and how many there are.
TextMatches(matches, kind) == SelectSeq(matches, LAMBDA h : Passes(h.entity, kind))
\* search: refused, or all the results the pages are cut from.
Ranked(q) ==
    CASE q.mode = "text" -> TextMatches(q.matches, q.kind)
      [] q.mode # "text" /\ q.tagged -> Refused
      [] q.mode = "vector" /\ ~q.tagged -> Candidates(q.near, q.kind)
      [] q.mode = "hybrid" /\ ~q.tagged ->
            LET text == TextMatches(q.matches, q.kind)
            IN  Fused(SubSeq(text, 1, Min({Depth, Len(text)})), Candidates(q.near, q.kind))
Page(results, n) == SubSeq(results, (n - 1) * PageSize + 1, Min({n * PageSize, Len(results)}))
Search(q) == LET results == Ranked(q)
             IN  IF results = Refused THEN results
                 ELSE [n \in 1..2 |-> [hits |-> Page(results, n), total |-> Len(results)]]

-----------------------------------------------------------------------------
(* A walk.  A relation leads from an entity to one, or to None.             *)

Edges(rows, field, frontier, depth) ==
    LET at == SelectSeq(rows, LAMBDA r : r[field] \in frontier)
    IN  [i \in DOMAIN at |-> [depth |-> depth, way |-> IF field = "from" THEN "outgoing" ELSE "incoming",
                              row |-> at[i]]]
RECURSIVE Walk(_, _, _, _, _)
Walk(rows, visited, frontier, depth, max) ==
    IF depth > max \/ frontier = {} THEN <<>>
    ELSE LET out == Edges(rows, "from", frontier, depth)
             in == Edges(rows, "to", frontier, depth)
             met == ({e.row.to : e \in Range(out)} \cup {e.row.from : e \in Range(in)}) \ {None}
         IN  out \o in \o Walk(rows, visited \cup met, met \ visited, depth + 1, max)
Traverse(rows, seed, max) == Walk(rows, {seed}, {seed}, 1, max)

-----------------------------------------------------------------------------
(* A metadata filter.  A scalar is [text, number]: what is written, and     *)
(* the number it reads as, or None.                                         *)

Compares(op, x, lo, hi) ==
    CASE op = "gt" -> x > lo [] op = "gte" -> x >= lo [] op = "lt" -> x < lo
      [] op = "lte" -> x <= lo [] op = "between" -> lo <= x /\ x <= hi
\* evaluate: numbers when both are numbers, and otherwise texts.
Evaluate(v, f) ==
    /\ v # None
    /\ IF f.op \in {"eq", "in"}
       THEN \E t \in Range(f.targets) : IF v.number # None /\ t.number # None THEN v.number = t.number ELSE v.text = t.text
       ELSE v.number # None /\ Compares(f.op, v.number, f.targets[1].number, Last(f.targets).number)
\* _metadata_clause: a text to a text, or a number cast out of it.
SqlMatches(v, f) ==
    /\ v # None
    /\ IF f.op \in {"eq", "in"}
       THEN v.text \in {t.text : t \in Range(f.targets)}
       ELSE Compares(f.op, v.number, f.targets[1].number, Last(f.targets).number)

-----------------------------------------------------------------------------
Result == CASE ask.of = "text" -> ToFtsQuery(ask.lexemes)
            [] ask.of = "document" -> SplitIntoChunks(ask.sections, ask.max, ask.overlap)
            [] ask.of = "search" -> Search(ask)
            [] ask.of = "walk" -> Traverse(ask.rows, ask.seed, ask.depth)
            [] ask.of = "filter" -> <<Evaluate(ask.value, ask), SqlMatches(ask.value, ask)>>

Init == ask \in Asks /\ answer = None
Answer == answer = None /\ answer' = Result /\ UNCHANGED ask
Spec == Init /\ [][Answer]_vars
Answered(kind) == ask.of = kind /\ answer # None

-----------------------------------------------------------------------------
(* What the FTS5 grammar accepts: operands between binary operators.        *)

RECURSIVE Accepts(_, _, _)
Accepts(s, operand, open) ==    \* operand: one is due
    IF s = <<>> THEN ~operand /\ open = 0
    ELSE CASE Head(s) \in Terms -> operand /\ Accepts(Tail(s), FALSE, open)
           [] Head(s) = "(" -> operand /\ Accepts(Tail(s), TRUE, open + 1)
           [] Head(s) = ")" -> ~operand /\ open > 0 /\ Accepts(Tail(s), FALSE, open - 1)
           [] Head(s) \in Operators -> ~operand /\ Accepts(Tail(s), TRUE, open)

\* What the repair does not reach: a written NOT with nothing after it, and a
\* group that held conjunctions alone.
Unrepaired(s) ==
    \/ \E i \in DOMAIN s : s[i] = "NOT" /\ Element(s, i + 1) \in {None, ")"}
    \/ \E i \in 1..Len(s) - 1 : s[i] = "(" /\ s[i + 1] = ")"

\* fts_query.py: the expression is accepted by FTS5 or there is none, no term is
\* lost or moved, a word behind a hyphen is subtracted and a query without
\* negation is never refused.
QueryIsAccepted ==
    Answered("text") =>
        IF answer = Refused THEN \E x \in Range(ask.lexemes) : x \in Negated \cup {"NOT"}
        ELSE /\ answer = <<>> \/ Accepts(answer, TRUE, 0) \/ Unrepaired(answer)
             /\ SelectSeq(answer, LAMBDA x : x \in Terms)
                = LET words == SelectSeq(ask.lexemes, LAMBDA x : x \in Terms \cup Negated)
                  IN  [i \in DOMAIN words |-> IF words[i] \in Negated THEN "b" ELSE words[i]]
             /\ \A i \in DOMAIN answer : answer[i] = "b" => Element(answer, i - 1) = "NOT"

\* test_output_is_valid_fts5: whatever is typed.
AlwaysAccepted == Answered("text") => answer = Refused \/ answer = <<>> \/ Accepts(answer, TRUE, 0)

\* chunking.py: every character of a document is in a chunk, a chunk is of
\* consecutive characters and in the order of the document, and it is no longer
\* than the limit or than one line with what was carried to it.
EverythingIsEmbedded ==
    Answered("document") =>
        LET all == FlattenSeq(FlattenSeq(ask.sections))
            longest == Max({Len(l) : l \in Range(FlattenSeq(ask.sections))})
            letters(c) == Range(c) \ {Newline}
            ordered(c) == \A x, y \in letters(c) : x < y =>
                             Min({i \in DOMAIN c : c[i] = x}) < Min({i \in DOMAIN c : c[i] = y})
        IN  /\ UNION {letters(c) : c \in Range(answer)} = Range(all)
            /\ \A c \in Range(answer) :
                  /\ letters(c) # {}
                  /\ letters(c) = {x \in Range(all) : x \in Min(letters(c))..Max(letters(c))} /\ ordered(c)
                  /\ Len(c) <= Max({ask.max, ask.overlap + 1 + longest})
            /\ \A i \in 2..Len(answer) : Max(letters(answer[i - 1])) <= Max(letters(answer[i]))

\* search.py: over its pages a search names every entity that matches and
\* passes its filter, each once and best first, and counts them; whoever leads
\* both lists leads; and a filter vectors cannot answer is refused, not dropped.
SearchIsWhole ==
    Answered("search") =>
        LET near == {h.entity : h \in {x \in Range(Recalled(ask.near)) : x.distance <= Near}} \cap Live
            text == TextMatches(ask.matches, ask.kind)
            read == {text[i].entity : i \in 1..Min({Len(text), IF ask.mode = "hybrid" THEN Depth ELSE Len(text)})}
            due == (IF ask.mode # "text" THEN {e \in near : Passes(e, ask.kind)} ELSE {})
                   \cup (IF ask.mode # "vector" THEN read ELSE {})
        IN  IF answer = Refused THEN ask.mode # "text" /\ ask.tagged
            ELSE LET hits == answer[1].hits \o answer[2].hits
                     nearest == Candidates(ask.near, ask.kind)
                     bothLed == ask.mode = "hybrid" /\ text # <<>> /\ nearest # <<>>
                                /\ text[1].entity = nearest[1].entity
                 IN  /\ ask.mode # "text" => ~ask.tagged
                     /\ {h.entity : h \in Range(hits)} = due /\ Len(hits) = Cardinality(due)
                     /\ \A n \in {1, 2} : answer[n].total = Cardinality(due)
                     /\ bothLed => hits[1].entity = text[1].entity

\* graph.py: an edge is reported at the depth of the end it was reached from, in
\* each direction once, and every edge within reach is.
AtDistance(rows, seed) ==
    LET joined(s, t) == \E r \in Range(rows) : (r.from \in s /\ r.to = t) \/ (r.to \in s /\ r.from = t)
        ends == UNION {{r.from, r.to} : r \in Range(rows)} \ {None}
        step(s) == s \cup {t \in ends : joined(s, t)}
        b0 == {seed}  b1 == step(b0)  b2 == step(b1)
    IN  <<b0, b1 \ b0, b2 \ b1>>
WalkIsExact ==
    Answered("walk") =>
        /\ Range(answer) = UNION {UNION {
              {[depth |-> d, way |-> "outgoing", row |-> r] : r \in {x \in Range(ask.rows) : x.from \in AtDistance(ask.rows, ask.seed)[d]}},
              {[depth |-> d, way |-> "incoming", row |-> r] : r \in {x \in Range(ask.rows) : x.to \in AtDistance(ask.rows, ask.seed)[d]}}}
              : d \in 1..ask.depth}
        /\ Len(answer) = Cardinality(Range(answer))

\* filters.py, "one definition of what an operator means": both backends let the
\* same scalars pass, numbers written in one way.
FiltersAgree == Answered("filter") => answer[1] = answer[2]
=============================================================================
