----------------------------- MODULE IndexSync -----------------------------
(***************************************************************************)
(* The markdown index and its vectors (m365_brain/index/sync.py,           *)
(* index/vector/sync.py, index_step.py) over the SQLite backend, every     *)
(* transaction a step of its own.  Two processes may sync one database:    *)
(* the cycle, over every root and again and again, and `index sync` or     *)
(* `index rebuild` from the command line, over the roots it names.  Files  *)
(* change, vanish, become unreadable and whole roots are unmounted while a *)
(* sync runs, and a sync may die between any two transactions.             *)
(*                                                                         *)
(* A checksum is modelled by the content it is the digest of.              *)
(***************************************************************************)
EXTENDS Integers, Sequences, FiniteSets, SequencesExt

CONSTANTS
    Cycle, Cli,        \* the two processes
    Files,             \* entity keys
    RootSeq,           \* index.roots in configuration order
    RootOf(_),         \* the root a key begins with
    Place(_),          \* where a file comes in a walk over every root
    Disks,             \* what may be on disk when the index is first made
    Contents,          \* what a file may hold: [title, links, chunks]
    Natural(_),        \* slugify(title), or the permalink the front matter names
    Fallback(_),       \* the slug of a key
    BatchSize,         \* index.sync.batch_size
    WriteBatch,        \* index.vector.write_batch_size
    None,              \* no row, no file, no target
    TornReads,         \* may a file change between read_text and file_checksum
    Budgets            \* bounds: how many edits, faults and command-line syncs

ASSUME BoundsAssumption ==
    /\ BatchSize \in Nat \ {0} /\ WriteBatch \in Nat \ {0}
    /\ Budgets \subseteq [edits : Nat, faults : Nat, cli : Nat]
    /\ TornReads \in BOOLEAN
ASSUME FilesAssumption ==
    /\ Cycle # Cli
    /\ Disks \subseteq [Files -> Contents \cup {None}] /\ RootSeq \in Seq(Range(RootSeq))
    /\ \A f \in Files : RootOf(f) \in Range(RootSeq) /\ Place(f) \in Nat
    /\ \A f, g \in Files : Place(f) = Place(g) => f = g
    /\ None \notin Files /\ None \notin Contents
    /\ None \notin [text : Contents, sum : Contents,
                    perma : {Natural(c) : c \in Contents} \cup {Fallback(f) : f \in Files}]

VARIABLES
    disk,      \* [Files -> Contents \cup {None}]
    locked,    \* the files no process may read
    gone,      \* the roots that are not mounted
    entity,    \* table entity: [Files -> None or a row]
    gen,       \* how many ids a key has had; with the key, entity.id
    rel,       \* table relation, by entity: [link -> target key or None]
    fts,       \* search_index: [key, gen, text] by rowid
    vec,       \* search_vector_chunks of the live entity: [chunk number -> text]
    orphans,   \* search_vector_embeddings without a chunk row
    run,       \* what each process holds in memory
    quiet,     \* ghost: the syncs in progress that nothing has disturbed
    steady,    \* ghost: the files on disk since the sync in progress began
    left       \* what remains of the environment's bounds

tables == <<entity, gen, rel, fts, vec, orphans>>
world == <<disk, locked, gone>>
vars == <<disk, locked, gone, entity, gen, rel, fts, vec, orphans, run, quiet, steady, left>>

Procs == {Cycle, Cli}
Roots == Range(RootSeq)
Keys(roots) == {f \in Files : RootOf(f) \in roots}
Idle == [pc |-> "idle"]
Rows == {f \in Files : entity[f] # None}
Numbers(c) == 1..Len(c.chunks)

TypeOK ==
    /\ disk \in [Files -> Contents \cup {None}]
    /\ locked \subseteq Files /\ gone \subseteq Roots
    /\ \A f \in Files : entity[f] # None =>
          /\ entity[f].text \in Contents /\ entity[f].sum \in Contents
          /\ entity[f].perma \in {Natural(c) : c \in Contents} \cup {Fallback(f)}
    /\ \A f \in Files : DOMAIN rel[f] = IF entity[f] = None THEN {} ELSE entity[f].text.links
    /\ quiet \subseteq Procs

Init ==
    /\ disk \in Disks
    /\ locked = {} /\ gone = {}
    /\ entity = [f \in Files |-> None] /\ gen = [f \in Files |-> 0]
    /\ rel = [f \in Files |-> <<>>] /\ vec = [f \in Files |-> <<>>]
    /\ fts = {} /\ orphans = {}
    /\ run = [p \in Procs |-> Idle]
    /\ quiet = {} /\ steady = [p \in Procs |-> {}]
    /\ left \in Budgets

-----------------------------------------------------------------------------
(* The processes.  Go(p, r) makes r what process p holds next. *)

Go(p, r) == /\ run' = [run EXCEPT ![p] = r]
            /\ quiet' = quiet \ (Procs \ {p})
At(p, pc) == run[p].pc = pc
Reads(p) == UNCHANGED <<tables, world, steady, left>>

\* run_index_step opens the backend and sync_index reads what is indexed.
\* The cycle walks every root; the command line the roots it names.
Begin(p, roots, full) ==
    /\ At(p, "idle")
    /\ run' = [run EXCEPT ![p] = [pc |-> "walk", roots |-> roots, full |-> full,
                 before |-> [f \in Files |-> IF entity[f] = None THEN None ELSE entity[f].sum],
                 walk |-> roots, found |-> {}, todo |-> {}]]
    /\ quiet' = {p}
    /\ steady' = [steady EXCEPT ![p] = {f \in Files : disk[f] # None}]
    /\ UNCHANGED <<tables, world>>

StartCycle == Begin(Cycle, RootSeq, FALSE) /\ UNCHANGED left
StartCli == \E r \in Roots, all, full \in BOOLEAN :
    /\ left.cli > 0 /\ left' = [left EXCEPT !.cli = @ - 1]
    /\ Begin(Cli, IF all THEN RootSeq ELSE <<r>>, full)

\* An exception anywhere, or a death: the open transaction rolls back, what was
\* committed stays, and run_index_step records a failure.
Ends(p) == Go(p, Idle) /\ Reads(p)

Readable(f) == disk[f] # None /\ f \notin locked /\ RootOf(f) \notin gone

\* _discover: the files of a root.
Listing(r) == {f \in Keys({r}) : disk[f] # None}

\* Whether a listed file is to be parsed: it is new, or its checksum differs.
\* A known file that cannot be read is an error, and neither parsed nor pruned.
Wanted(p, f) ==
    \/ run[p].full \/ run[p].before[f] = None
    \/ Readable(f) /\ disk[f] # run[p].before[f]

\* _scan_roots: the next root.  A root that is not
\* there is fatal: an empty listing would have its entities pruned.
ScanRoot(p) ==
    /\ At(p, "walk") /\ run[p].walk # <<>>
    /\ IF Head(run[p].walk) \in gone
       THEN Ends(p)
       ELSE LET here == Listing(Head(run[p].walk))
            IN  /\ Go(p, [run[p] EXCEPT !.walk = Tail(@), !.found = @ \cup here,
                             !.todo = @ \cup {f \in here : Wanted(p, f)}])
                /\ Reads(p)

\* Mutant: whatever was not found goes, walked or not.
DepartedAnywhere(p) == {f \in Files : run[p].before[f] # None} \ run[p].found

\* What is indexed, under a root this run walked, and was not found.
Departed(p) == {f \in Keys(Range(run[p].roots)) : run[p].before[f] # None} \ run[p].found

\* delete_entities, one transaction.  The foreign keys take the entity's
\* relations and chunk rows with it and clear the edges that led to it; the
\* embedding rows and the text index are no part of any foreign key.
\* Mutant: PRAGMA foreign_keys is left at SQLite's default, off.
Uncascaded(dead) == rel
Cascaded(dead) == [f \in Files |-> IF f \in dead THEN <<>>
    ELSE [n \in DOMAIN rel[f] |-> IF rel[f][n] \in dead THEN None ELSE rel[f][n]]]
Prune(p) ==
    /\ At(p, "walk") /\ run[p].walk = <<>>
    /\ LET dead == Departed(p) IN
       /\ entity' = [f \in Files |-> IF f \in dead THEN None ELSE entity[f]]
       /\ rel' = Cascaded(dead)
       /\ orphans' = orphans \cup {f \in dead : vec[f] # <<>>}
       /\ vec' = [f \in Files |-> IF f \in dead THEN <<>> ELSE vec[f]]
    /\ Go(p, [run[p] EXCEPT !.pc = "owners"])
    /\ UNCHANGED <<gen, fts, world, steady, left>>

\* permalink_owners: one bulk read, after the prune.
LoadOwners(p) ==
    /\ At(p, "owners")
    /\ Go(p, [pc |-> "parse", roots |-> run[p].roots, todo |-> run[p].todo, batch |-> <<>>,
              owners |-> [m \in {entity[f].perma : f \in Rows} |->
                             CHOOSE f \in Rows : entity[f].perma = m]])
    /\ Reads(p)

\* The files to parse are parsed in the order of the walk.
First(todo) == CHOOSE f \in todo : \A g \in todo : Place(f) <= Place(g)

\* parse_markdown_file reads the text.  A file that cannot be read, or is no
\* longer there, is one skipped file.
ReadText(p) ==
    /\ At(p, "parse") /\ run[p].todo # {} /\ Len(run[p].batch) < BatchSize
    /\ LET f == First(run[p].todo) IN
       Go(p, IF ~Readable(f)
             THEN [run[p] EXCEPT !.todo = @ \ {f}]
             ELSE [pc |-> "sum", roots |-> run[p].roots, todo |-> run[p].todo,
                   owners |-> run[p].owners, batch |-> run[p].batch, text |-> disk[f]])
    /\ Reads(p)

\* Mutant: the permalink is taken as the file gives it.
UncheckedPermalink(f, c, owners) == Natural(c)
\* _ensure_unique_permalink: a permalink another entity claims is replaced by
\* the fallback, which is not looked up.
Permalink(f, c, owners) ==
    IF Natural(c) \in DOMAIN owners /\ owners[Natural(c)] # f THEN Fallback(f) ELSE Natural(c)

\* ... and takes the checksum from the file as it is now.  A file that left in
\* between raises out of the sync.
ReadSum(p) ==
    /\ At(p, "sum")
    /\ LET f == First(run[p].todo)
           m == Permalink(f, run[p].text, run[p].owners)
       IN  IF ~Readable(f)
           THEN Ends(p)
           ELSE /\ Go(p, [pc |-> "parse", roots |-> run[p].roots, todo |-> run[p].todo \ {f},
                          owners |-> [x \in DOMAIN run[p].owners \cup {m} |->
                                         IF x = m THEN f ELSE run[p].owners[x]],
                          batch |-> Append(run[p].batch,
                                      [key |-> f, row |-> [text |-> run[p].text, sum |-> disk[f],
                                                           perma |-> m]])])
                /\ Reads(p)

\* _upsert_one: the table after the first n statements of a batch.
Upserted(batch, n) ==
    [f \in Files |-> LET mine == {i \in 1..n : batch[i].key = f}
                     IN  IF mine = {} THEN entity[f] ELSE batch[Max(mine)].row]
\* A statement whose permalink another entity has by then breaks UNIQUE(permalink).
Collides(batch) ==
    \E i \in DOMAIN batch : \E f \in Files \ {batch[i].key} :
        LET row == Upserted(batch, i - 1)[f]
        IN  row # None /\ row.perma = batch[i].row.perma

\* Mutant: the edges a document no longer has are left behind.
AddedEdges(after, keys) ==
    [f \in Files |-> IF f \in keys THEN [n \in after[f].text.links |-> None] @@ rel[f] ELSE rel[f]]
\* The children of an entity are replaced wholesale, its edges unresolved.
Unresolved(after, keys) ==
    [f \in Files |-> IF f \in keys THEN [n \in after[f].text.links |-> None] ELSE rel[f]]

\* upsert_entities, one transaction for the whole batch: a collision rolls it
\* back and ends the sync.
Upsert(p) ==
    /\ At(p, "parse") /\ run[p].batch # <<>>
    /\ Len(run[p].batch) >= BatchSize \/ run[p].todo = {}
    /\ LET after == Upserted(run[p].batch, Len(run[p].batch))
           keys == {run[p].batch[i].key : i \in DOMAIN run[p].batch}
       IN  IF Collides(run[p].batch)
           THEN Ends(p)
           ELSE /\ entity' = after
                /\ gen' = [f \in Files |-> IF f \in keys /\ entity[f] = None
                                           THEN gen[f] + 1 ELSE gen[f]]
                /\ rel' = Unresolved(after, keys)
                /\ Go(p, [run[p] EXCEPT !.batch = <<>>])
                /\ UNCHANGED <<fts, vec, orphans, world, steady, left>>

\* The entities a link may resolve to: by title or by permalink.
Matches(n) == {f \in Rows : entity[f].text.title = n \/ entity[f].perma = n}

\* resolve_relations: every unresolved edge, to any one match (LIMIT 1 without
\* an order); an edge once resolved is left as it is.
Resolve(p) ==
    /\ At(p, "parse") /\ run[p].todo = {} /\ run[p].batch = <<>>
    /\ LET names == UNION {DOMAIN rel[f] : f \in Files} IN
       \E pick \in [names -> Files \cup {None}] :
          /\ \A n \in names : IF Matches(n) = {} THEN pick[n] = None ELSE pick[n] \in Matches(n)
          /\ rel' = [f \in Files |-> [n \in DOMAIN rel[f] |->
                        IF rel[f][n] = None THEN pick[n] ELSE rel[f][n]]]
    /\ Go(p, [pc |-> "text", roots |-> run[p].roots])
    /\ UNCHANGED <<entity, gen, fts, vec, orphans, world, steady, left>>

\* rebuild_text_index: emptied and filled from the entities in one transaction.
RebuildText(p) ==
    /\ At(p, "text")
    /\ fts' = {[key |-> f, gen |-> gen[f], text |-> entity[f].text] : f \in Rows}
    /\ Go(p, [pc |-> "vectors", roots |-> run[p].roots])
    /\ UNCHANGED <<entity, gen, rel, vec, orphans, world, steady, left>>

\* sync_vectors: the texts, in one read.
ReadTexts(p) ==
    /\ At(p, "vectors")
    /\ Go(p, [pc |-> "hashes", roots |-> run[p].roots, texts |-> fts])
    /\ Reads(p)

\* Mutant: a chunk that is stored is taken to be up to date.
MissingOnly(d) == {i \in Numbers(d.text) : i \notin DOMAIN vec[d.key]}
\* chunk_hashes, in another: the chunks whose stored hash is not theirs.
Changed(d) == {i \in Numbers(d.text) :
                 ~ /\ gen[d.key] = d.gen /\ entity[d.key] # None
                   /\ i \in DOMAIN vec[d.key] /\ vec[d.key][i] = d.text.chunks[i]}
ReadHashes(p) ==
    /\ At(p, "hashes")
    /\ Go(p, [pc |-> "write", roots |-> run[p].roots, texts |-> run[p].texts,
              puts |-> UNION {{[doc |-> d, n |-> i] : i \in Changed(d)} : d \in run[p].texts}])
    /\ Reads(p)

\* _write_one: the chunk row and its embedding, replaced together.
Live(d) == entity[d.key] # None /\ gen[d.key] = d.gen
Stored(f, window) ==
    LET new == {x \in window : x.doc.key = f}
        at(i) == CHOOSE x \in new : x.n = i
    IN  [i \in DOMAIN vec[f] \cup {x.n : x \in new} |->
            IF \E x \in new : x.n = i THEN at(i).doc.text.chunks[i] ELSE vec[f][i]]

\* write_chunks: one transaction for each window of write_batch_size chunks.
\* A chunk whose entity has gone breaks the foreign key and ends the sync.
WriteChunks(p) ==
    /\ At(p, "write") /\ run[p].puts # {}
    /\ \E window \in SUBSET run[p].puts :
          /\ Cardinality(window) = IF Cardinality(run[p].puts) < WriteBatch
                                   THEN Cardinality(run[p].puts) ELSE WriteBatch
          /\ IF \E x \in window : ~Live(x.doc)
             THEN Ends(p)
             ELSE /\ vec' = [f \in Files |-> Stored(f, window)]
                  /\ Go(p, [run[p] EXCEPT !.puts = @ \ window])
                  /\ UNCHANGED <<entity, gen, rel, fts, orphans, world, steady, left>>

\* prune: the chunks of entities the read did not show, the chunks past the end
\* of a document that shrank, and every embedding without a chunk.
PruneVectors(p) ==
    /\ At(p, "write") /\ run[p].puts = {}
    /\ vec' = [f \in Files |->
                 LET mine == {d \in run[p].texts : d.key = f /\ Live(d)}
                 IN  [i \in {n \in DOMAIN vec[f] : \E d \in mine : n \in Numbers(d.text)} |->
                         vec[f][i]]]
    /\ orphans' = {}
    /\ Go(p, [pc |-> "done", roots |-> run[p].roots])
    /\ UNCHANGED <<entity, gen, rel, fts, world, steady, left>>

\* run_index_step records the success.
Finish(p) == At(p, "done") /\ Ends(p)

Sync(p) ==
    \/ ScanRoot(p) \/ Prune(p) \/ LoadOwners(p)
    \/ ReadText(p) \/ ReadSum(p) \/ Upsert(p) \/ Resolve(p) \/ RebuildText(p)
    \/ ReadTexts(p) \/ ReadHashes(p) \/ WriteChunks(p) \/ PruneVectors(p) \/ Finish(p)

-----------------------------------------------------------------------------
(* The environment: whoever writes under the roots, and what goes wrong. *)

\* An edit undoes the calm every sync in progress has had.
Changes == /\ left.edits > 0 /\ left' = [left EXCEPT !.edits = @ - 1]
           /\ quiet' = {}
           /\ UNCHANGED <<tables, run>>

\* With TornReads the writer may also come between the two reads of a file.
Untorn(f) == TornReads \/ \A p \in Procs : At(p, "sum") => First(run[p].todo) # f

WriteFile(f, c) ==
    /\ c # disk[f] /\ RootOf(f) \notin gone /\ Untorn(f)
    /\ disk' = [disk EXCEPT ![f] = c]
    /\ Changes /\ UNCHANGED <<locked, gone, steady>>
RemoveFile(f) ==
    /\ disk[f] # None /\ RootOf(f) \notin gone
    /\ disk' = [disk EXCEPT ![f] = None]
    /\ steady' = [p \in Procs |-> steady[p] \ {f}]
    /\ Changes /\ UNCHANGED <<locked, gone>>
\* A permission is taken away, or given back.
Lock(f) ==
    /\ locked' = IF f \in locked THEN locked \ {f} ELSE locked \cup {f}
    /\ Changes /\ UNCHANGED <<disk, gone, steady>>
\* A root is unmounted, or mounted again; its files are all still there.
Unmount(r) ==
    /\ gone' = IF r \in gone THEN gone \ {r} ELSE gone \cup {r}
    /\ Changes /\ UNCHANGED <<disk, locked, steady>>

\* The process dies, the disk is full, or the database stays locked.
Fault(p) ==
    /\ ~At(p, "idle") /\ left.faults > 0
    /\ left' = [left EXCEPT !.faults = @ - 1]
    /\ Go(p, Idle) /\ UNCHANGED <<tables, world, steady>>

Environment ==
    \/ \E f \in Files : \/ \E c \in Contents : WriteFile(f, c)
                        \/ RemoveFile(f) \/ Lock(f)
    \/ \E r \in Roots : Unmount(r)
    \/ \E p \in Procs : Fault(p)

Next == StartCycle \/ StartCli \/ Sync(Cycle) \/ Sync(Cli) \/ Environment

Spec == Init /\ [][Next]_vars
-----------------------------------------------------------------------------
(* What the index promises. *)

\* Every row of the roots is the file as it is, and there is a row for each.
RowsMirror(roots) ==
    \A f \in Keys(roots) \ locked :
        IF disk[f] = None THEN entity[f] = None
        ELSE entity[f] # None /\ entity[f].text = disk[f] /\ entity[f].sum = disk[f]
\* The text index is that of the rows, and so is every chunk and embedding.
TextMirrors == fts = {[key |-> f, gen |-> gen[f], text |-> entity[f].text] : f \in Rows}
VectorsMirror ==
    /\ \A f \in Rows : vec[f] = [i \in Numbers(entity[f].text) |-> entity[f].text.chunks[i]]
    /\ orphans = {}
\* An edge is unresolved only while nothing bears the name it gives.
EdgesResolved == \A f \in Rows : \A n \in DOMAIN rel[f] : rel[f][n] = None => Matches(n) = {}

\* A sync that nothing disturbed leaves the index equal to the files: the rows
\* of the roots it walked, the text index and the vectors of all of them, and
\* no link left open that could be closed (sync_index, sync_vectors).
UndisturbedSyncMirrors ==
    \A p \in quiet : At(p, "done") =>
        /\ RowsMirror(Range(run[p].roots))
        /\ TextMirrors /\ VectorsMirror /\ EdgesResolved

\* Whatever is interleaved, interrupted or unmounted, the tables stay coherent:
\* permalinks are unique, an edge leads to an entity that exists, and a chunk
\* belongs to one.
TablesCohere ==
    /\ \A f, g \in Rows : entity[f].perma = entity[g].perma => f = g
    /\ \A f \in Rows : \A n \in DOMAIN rel[f] : rel[f][n] \in Rows \cup {None}
    /\ \A f \in Files \ Rows : rel[f] = <<>> /\ vec[f] = <<>>

\* An entity is removed only by a sync that walked its root, and only when its
\* file was away at some moment of that sync: an unmounted root, an unreadable
\* file or a narrowed `--root` prunes nothing (sync.py, the comment at the prune).
PrunesOnlyDeparted ==
    [][\A f \in Rows : entity'[f] = None =>
          \E p \in Procs : /\ At(p, "walk") /\ run'[p].pc = "owners"
                           /\ RootOf(f) \in Range(run[p].roots) /\ f \notin steady[p]]_vars

\* ... and such a sync never fails but by a fault or a root that is missing: no
\* permalink collides, no chunk loses its entity, whatever earlier syncs left.
UndisturbedSyncCompletes ==
    [][\A p \in quiet : run'[p] = Idle /\ p \in quiet' =>
          At(p, "done") \/ gone # {} \/ left'.faults < left.faults]_vars

\* sync.py: "a missed change is corrected by the next run".  A row whose
\* checksum is the file's holds the file's text; were it not so, no later sync
\* would look at the file again.
ChecksumNamesText == \A f \in Rows : entity[f].sum = entity[f].text
=============================================================================
