--------------------------- MODULE IndexBackends ---------------------------
(***************************************************************************)
(* The two index backends under the same calls: SqliteIndexBackend with    *)
(* SqliteVecStore, whose tables have keys, foreign keys and cascades, and  *)
(* InMemoryIndexBackend with InMemoryVectorStore, which keep dictionaries  *)
(* and a list of edges (index/backends/, index/vector/).  Every test of    *)
(* the package that needs an index uses the second in place of the first.  *)
(*                                                                         *)
(* A call goes to both.  Names compare without case, and a name may lie    *)
(* within another; that is all their letters are here.                     *)
(***************************************************************************)
EXTENDS Integers, Sequences, FiniteSets, Functions, FiniteSetsExt

CONSTANTS
    Keys,          \* entity keys
    Docs,          \* [title, aliases, links, kind, stamp, words, parts]
    Names,         \* what find_entity is asked for
    Fold(_),       \* a name without its case
    Within(_, _),  \* the first name is a part of the second
    Null,
    MaxCalls       \* bound: how many calls change the entities

VARIABLES
    sql,           \* the tables of the database
    mem,           \* the attributes of the in-memory stores
    calls          \* how many calls have changed the entities

backendVars == <<sql, mem, calls>>

\* parse_relations drops a link that was seen (parsers/relations.py); no word is None.
ASSUME DocsAssumption ==
    \A d \in Docs : d.links \in Seq(STRING) /\ IsInjective(d.links) /\ d.parts \in Seq(STRING) /\ Null \notin d.words

\* The dictionary with a key, and without some.
Assoc(d, key, value) == [k \in DOMAIN d \cup {key} |-> IF k = key THEN value ELSE d[k]]
Dropped(d, gone) == [k \in DOMAIN d \ gone |-> d[k]]
\* A relation, or an edge, that led to one of the entities leads nowhere.
Cut(x, ids) == [x EXCEPT !.to = IF @ \in ids THEN Null ELSE @]

-----------------------------------------------------------------------------
(* The database.  A table is a set of rows. *)

SqlInit == [entity |-> {}, relation |-> {}, search |-> {}, chunks |-> {},
            embeddings |-> {}, next |-> 1]

\* _upsert_one and _write_children: by entity_key; the children are replaced,
\* and UNIQUE(from, to_name, type) drops a relation written twice.
SqlUpsertOne(db, e) ==
    LET old == {r \in db.entity : r.key = e.key}
        id == IF old = {} THEN db.next ELSE (CHOOSE r \in old : TRUE).id
    IN  [db EXCEPT !.entity = (@ \ old) \cup {[id |-> id, key |-> e.key, perma |-> e.perma, doc |-> e.doc]},
                   !.relation = {r \in @ : r.from # id}
                                \cup {[from |-> id, to |-> Null, name |-> n] : n \in Range(e.doc.links)},
                   !.next = IF old = {} THEN @ + 1 ELSE @]

\* delete_entities, with ON DELETE CASCADE and ON DELETE SET NULL; the
\* embeddings are a virtual table and no foreign key reaches them.
SqlDelete(db, keys) ==
    LET ids == {r.id : r \in {x \in db.entity : x.key \in keys}}
    IN  [db EXCEPT !.entity = {r \in @ : r.id \notin ids},
                   !.relation = {Cut(r, ids) : r \in {x \in @ : x.from \notin ids}},
                   !.chunks = {c \in @ : c.entity \notin ids}]

\* resolve_relations: title, permalink or alias, in the order of the table.
SqlResolve(db) ==
    LET hits(n) == {r.id : r \in {x \in db.entity : \/ x.doc.title = n \/ x.perma = n
                                                   \/ n \in Range(x.doc.aliases)}}
        led(x) == IF x.to # Null \/ hits(x.name) = {} THEN x ELSE [x EXCEPT !.to = Min(hits(x.name))]
    IN  [db EXCEPT !.relation = {led(r) : r \in @}]

SqlRebuild(db) == [db EXCEPT !.search = {[rowid |-> r.id, doc |-> r.doc] : r \in db.entity}]

\* find_entity: exact title, then alias, then a part of a title.
SqlFirst(rows) == IF rows = {} THEN Null ELSE Min({r.id : r \in rows})
SqlFind(name) ==
    LET titled == {r \in sql.entity : Fold(r.doc.title) = Fold(name)}
        aliased == {r \in sql.entity : \E a \in Range(r.doc.aliases) : Fold(a) = Fold(name)}
        partial == {r \in sql.entity : Within(Fold(name), Fold(r.doc.title))}
    IN  SqlFirst(IF titled # {} THEN titled ELSE IF aliased # {} THEN aliased ELSE partial)
SqlByPermalink(m) == SqlFirst({r \in sql.entity : r.perma = m})

SqlOutgoing(id) == {r \in sql.relation : r.from = id}
SqlIncoming(id) == {r \in sql.relation : r.to = id}
SqlRecent(since, kinds) == {r.id : r \in {x \in sql.entity : x.doc.stamp >= since /\ x.doc.kind \in kinds}}
\* text_search: the text table joined to the entities, or for a filter-only
\* listing the entities alone.
SqlSearch(word, kinds) ==
    {r.id : r \in {x \in sql.entity : /\ x.doc.kind \in kinds
                                      /\ word # Null => \E t \in sql.search : t.rowid = x.id /\ word \in t.doc.words}}

\* sync_vectors: the chunks of the texts of the last rebuild, and those whose
\* hash the store has not got.
Chunks(texts) == UNION {{[entity |-> t.rowid, n |-> i, text |-> t.doc.parts[i]] : i \in DOMAIN t.doc.parts} : t \in texts}
Place(c) == <<c.entity, c.n>>
Missing(db) == Chunks(db.search) \ db.chunks
\* The chunks of entities that are gone: chunks.entity_id is a foreign key.
Homeless(db) == {c \in Missing(db) : \A r \in db.entity : r.id # c.entity}
SqlClear(db) == [db EXCEPT !.chunks = {}, !.embeddings = {}]
\* write_chunks: a chunk row by (entity, number), and its embedding by rowid.
SqlWrite(db, new) == [db EXCEPT !.chunks = {c \in @ : \A d \in new : Place(d) # Place(c)} \cup new,
                                !.embeddings = @ \cup {Place(d) : d \in new}]
\* What write_chunks has committed when a chunk is refused: the windows before the
\* one it is in, in the order of the texts; how much they hold is configuration.
Windows(db) ==
    {w \in SUBSET (Missing(db) \ Homeless(db)) :
        \A c \in w, d \in Missing(db) \ w : c.entity < d.entity \/ (c.entity = d.entity /\ c.n < d.n)}
Kept(db) == {c \in db.chunks : \E t \in db.search : t.rowid = c.entity /\ c.n <= Len(t.doc.parts)}
\* Mutant: the embeddings of chunks that have gone are left behind.
SqlPruneChunksOnly(db) == [db EXCEPT !.chunks = Kept(db)]
\* prune: the dead, the tails, and every embedding that has lost its chunk row.
SqlPruneVectors(db) == [db EXCEPT !.chunks = Kept(db), !.embeddings = @ \cap {Place(c) : c \in Kept(db)}]

-----------------------------------------------------------------------------
(* The dictionaries. *)

MemInit == [entities |-> <<>>, ids |-> <<>>, edges |-> <<>>, text |-> <<>>, chunks |-> <<>>, next |-> 1]

\* The list of edges, by the entity each leads from: no read asks for more of its
\* order.
Edge(id, n) == [from |-> id, to |-> Null, name |-> n]
EdgesOf(id, doc) == [i \in DOMAIN doc.links |-> Edge(id, doc.links[i])]

IdFor(m, key) == IF key \in DOMAIN m.ids THEN m.ids[key] ELSE m.next
PutEntity(m, e, edges) ==
    LET id == IdFor(m, e.key)
    IN  [m EXCEPT !.ids = Assoc(@, e.key, id), !.next = IF e.key \in DOMAIN m.ids THEN @ ELSE @ + 1,
                  !.entities = Assoc(@, id, e), !.edges = Assoc(@, id, edges)]
\* Mutant: an entity that is indexed again adds its edges to those it had.
MemUpsertAdds(m, e) ==
    LET id == IdFor(m, e.key)
    IN  PutEntity(m, e, (IF id \in DOMAIN m.edges THEN m.edges[id] ELSE <<>>) \o EdgesOf(id, e.doc))
\* upsert_entities: a known key keeps its id and loses its edges first.
MemUpsertOne(m, e) == PutEntity(m, e, EdgesOf(IdFor(m, e.key), e.doc))

\* delete_entities: the edges that led to it stay, and lead nowhere.
MemDelete(m, keys) ==
    LET ids == {m.ids[k] : k \in keys \cap DOMAIN m.ids}
    IN  [m EXCEPT !.ids = Dropped(@, keys), !.entities = Dropped(@, ids),
                  !.edges = [id \in DOMAIN @ \ ids |-> [i \in DOMAIN @[id] |-> Cut(@[id][i], ids)]]]

\* resolve_relations: a dictionary of names in which the first entity to bear a
\* name keeps it.
MemResolve(m) ==
    LET bears(id) == {m.entities[id].doc.title, m.entities[id].perma} \cup Range(m.entities[id].doc.aliases)
        lookup == [n \in UNION {bears(id) : id \in DOMAIN m.entities} |->
                     Min({id \in DOMAIN m.entities : n \in bears(id)})]
        led(x) == IF x.to # Null \/ x.name \notin DOMAIN lookup THEN x ELSE [x EXCEPT !.to = lookup[x.name]]
    IN  [m EXCEPT !.edges = [id \in DOMAIN @ |-> [i \in DOMAIN @[id] |-> led(@[id][i])]]]

MemRebuild(m) == [m EXCEPT !.text = [id \in DOMAIN m.entities |-> m.entities[id].doc]]

\* _first and find_entity.
MemFirst(ids) == IF ids = {} THEN Null ELSE Min(ids)
MemFind(name) ==
    LET doc(id) == mem.entities[id].doc
        titled == {id \in DOMAIN mem.entities : Fold(doc(id).title) = Fold(name)}
        aliased == {id \in DOMAIN mem.entities : \E a \in Range(doc(id).aliases) : Fold(a) = Fold(name)}
        partial == {id \in DOMAIN mem.entities : Within(Fold(name), Fold(doc(id).title))}
    IN  IF titled # {} THEN MemFirst(titled) ELSE IF aliased # {} THEN MemFirst(aliased) ELSE MemFirst(partial)
MemByPermalink(m) == MemFirst({id \in DOMAIN mem.entities : mem.entities[id].perma = m})

MemOutgoing(id) == IF id \in DOMAIN mem.edges THEN mem.edges[id] ELSE <<>>
MemIncoming(id) == {x \in UNION {Range(mem.edges[i]) : i \in DOMAIN mem.edges} : x.to = id}
MemRecent(since, kinds) == {id \in DOMAIN mem.entities :
    mem.entities[id].doc.stamp >= since /\ mem.entities[id].doc.kind \in kinds}
\* text_search: always over the text of the last rebuild, whatever is asked.
MemSearch(word, kinds) ==
    {id \in DOMAIN mem.text \cap DOMAIN mem.entities :
        /\ mem.entities[id].doc.kind \in kinds
        /\ word # Null => word \in mem.text[id].words}

\* InMemoryVectorStore: chunk and vector are one entry, and an entry written again
\* is what it was.  Nothing asks whether the entity is there.
MemWrite(m) ==
    LET old(id) == IF id \in DOMAIN m.chunks THEN m.chunks[id] ELSE <<>>
        new(id) == IF id \in DOMAIN m.text THEN m.text[id].parts ELSE <<>>
    IN  [m EXCEPT !.chunks = [id \in DOMAIN m.chunks \cup DOMAIN m.text |->
            [i \in DOMAIN old(id) \cup DOMAIN new(id) |-> IF i \in DOMAIN new(id) THEN new(id)[i] ELSE old(id)[i]]]]
MemPruneVectors(m) ==
    [m EXCEPT !.chunks = [id \in DOMAIN m.chunks \cap DOMAIN m.text |->
                             [i \in {n \in DOMAIN m.chunks[id] : n <= Len(m.text[id].parts)} |-> m.chunks[id][i]]]]

-----------------------------------------------------------------------------
(* The calls of sync_index and sync_vectors.  Each is a transaction, and a  *)
(* process may die between any two; a batch is of one document.            *)

\* The permalink a document gets: the title, unless another entity has it.
Claimed(k, d) == \E r \in sql.entity : r.perma = d.title /\ r.key # k
Permalinked(k, d) == [key |-> k, perma |-> IF Claimed(k, d) THEN k ELSE d.title, doc |-> d]

Changing(s, m) == calls < MaxCalls /\ calls' = calls + 1 /\ sql' = s /\ mem' = m
Upsert(k, d) == Changing(SqlUpsertOne(sql, Permalinked(k, d)), MemUpsertOne(mem, Permalinked(k, d)))
Delete(keys) == Changing(SqlDelete(sql, keys), MemDelete(mem, keys))

Deriving(s, m) == sql' = s /\ mem' = m /\ UNCHANGED calls
Resolve == Deriving(SqlResolve(sql), MemResolve(mem))
Rebuild == Deriving(SqlRebuild(sql), MemRebuild(mem))
\* sync_vectors, from an empty store if it is a full one.  The database refuses
\* the chunk of an entity that is gone since the last rebuild, and the call raises.
SyncVectors(full) ==
    LET s == IF full THEN SqlClear(sql) ELSE sql
        m == IF full THEN [mem EXCEPT !.chunks = <<>>] ELSE mem
    IN  IF Homeless(s) = {}
        THEN Deriving(SqlPruneVectors(SqlWrite(s, Missing(s))), MemPruneVectors(MemWrite(m)))
        ELSE \E w \in Windows(s) : Deriving(SqlWrite(s, w), MemPruneVectors(MemWrite(m)))

BackendsInit == sql = SqlInit /\ mem = MemInit /\ calls = 0
BackendsNext ==
    \/ \E k \in Keys, d \in Docs : Upsert(k, d)
    \/ \E keys \in SUBSET Keys \ {{}} : Delete(keys)
    \/ Resolve \/ Rebuild
    \/ \E full \in BOOLEAN : SyncVectors(full)

-----------------------------------------------------------------------------
(* What the two must have in common. *)

Kinds == {d.kind : d \in Docs}
Words == UNION {d.words : d \in Docs}
SqlLive == {r.id : r \in sql.entity}

\* Every read of the protocol gives one answer on both backends: the indexed
\* keys, the permalinks, lookups, edges in both directions, recent entities and
\* full-text matches, and every id leads to a row (IndexBackend; the contract
\* tests run both).  An edge appears once in each.
ReadsAgree ==
    /\ {<<r.key, r.id>> : r \in sql.entity} = {<<k, mem.ids[k]>> : k \in DOMAIN mem.ids}
    /\ SqlLive = DOMAIN mem.entities
    /\ \A n \in Names : SqlFind(n) = MemFind(n) /\ SqlByPermalink(n) = MemByPermalink(n)
    /\ \A id \in SqlLive :
          /\ SqlOutgoing(id) = Range(MemOutgoing(id))
          /\ Cardinality(SqlOutgoing(id)) = Len(MemOutgoing(id))
          /\ SqlIncoming(id) = MemIncoming(id)
    /\ \A d \in Docs, kinds \in {Kinds} \cup {{k} : k \in Kinds} :
          SqlRecent(d.stamp, kinds) = MemRecent(d.stamp, kinds)
    /\ \A w \in Words, kinds \in {Kinds} \cup {{k} : k \in Kinds} : SqlSearch(w, kinds) = MemSearch(w, kinds)

MemChunks(m) == UNION {{[entity |-> id, n |-> i, text |-> m.chunks[id][i]] : i \in DOMAIN m.chunks[id]} : id \in DOMAIN m.chunks}

\* A vector sync leaves no chunk without its embedding and none of an entity that
\* is gone.  One that does not raise leaves in both stores the chunks of the last
\* rebuild's texts, each once, and no embedding without its chunk.
SyncsExactly(full) ==
    SyncVectors(full) =>
        /\ \A c \in sql'.chunks : Place(c) \in sql'.embeddings /\ c.entity \in SqlLive
        /\ Homeless(IF full THEN SqlClear(sql) ELSE sql) = {} =>
              /\ sql'.chunks = Chunks(sql.search)
              /\ sql'.embeddings = {Place(c) : c \in sql'.chunks}
              /\ MemChunks(mem') = sql'.chunks
VectorsAgree == [][\A full \in BOOLEAN : SyncsExactly(full)]_backendVars

\* memory.py: "text search reflects the last rebuild_text_index() rather than
\* the current entities (both stores keep a derived index ...)".
ListingsAgree == \A kinds \in {Kinds} \cup {{k} : k \in Kinds} : SqlSearch(Null, kinds) = MemSearch(Null, kinds)
=============================================================================
