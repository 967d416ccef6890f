------------------------------ MODULE Catalog ------------------------------
(***************************************************************************)
(* The file catalog (m365_brain/index/catalog*.py): a row for each binary  *)
(* an extractor downloads, registered where the bytes are written, and the *)
(* conversion pipeline that moves rows from pending to converted or        *)
(* failed.  The extractor of a cycle and `index catalog extract` are two   *)
(* processes over one vault and one database; either may die between any   *)
(* two of its writes.                                                      *)
(*                                                                         *)
(* The bytes of a file are a version; Size gives their length and          *)
(* Convertible says whether a converter succeeds on them.                  *)
(***************************************************************************)
EXTENDS Integers, Sequences, FiniteSets, SequencesExt

CONSTANTS
    Paths,           \* original_path
    Versions,        \* what an upstream file may hold
    Size(_),         \* len(content)
    Convertible(_),  \* does convert_document succeed on it
    Limit,           \* --limit, or index.search.page_size
    None,
    MaxWrites, MaxPasses, MaxDeaths   \* bounds

VARIABLES
    file,     \* the binary on disk
    row,      \* table file_catalog by original_path: [state, size, output]
    md,       \* the markdown at converted_output_path: the version it came from
    writer,   \* what the extractor is in the middle of
    pass,     \* what `extract` holds: the entries left, and the bytes it read
    outdated, \* ghost: the paths whose bytes changed in a way the row cannot show
    torn,     \* ghost: the paths at which a writer died between its two writes
    left

catalogVars == <<file, row, md, writer, pass, outdated, torn, left>>

Idle == [pc |-> "idle"]
InState(s) == {p \in Paths : row[p] # None /\ row[p].state = s}
Row(s, n, out) == [state |-> s, size |-> n, output |-> out]
RowType == [state : {"pending", "failed", "converted"}, size : Nat, output : Paths \cup {None}]

ASSUME CatalogAssumption ==
    /\ IsFiniteSet(Paths) /\ Limit \in Nat
    /\ \A v \in Versions : Size(v) \in Nat
    /\ None \notin Paths \cup Versions \cup RowType

CatalogInit ==
    /\ file = [p \in Paths |-> None] /\ row = file /\ md = file
    /\ writer = Idle /\ pass = Idle /\ outdated = {} /\ torn = {}
    /\ left = [writes |-> MaxWrites, passes |-> MaxPasses, deaths |-> MaxDeaths]

-----------------------------------------------------------------------------
(* CatalogingStorage. *)

\* write_bytes: first the bytes ...
WriteBytes(p, v) ==
    /\ writer = Idle /\ left.writes > 0 /\ left' = [left EXCEPT !.writes = @ - 1]
    /\ file' = [file EXCEPT ![p] = v]
    /\ writer' = [pc |-> "register", path |-> p, size |-> Size(v)]
    /\ outdated' = IF \/ row[p] # None /\ row[p].size = Size(v) /\ file[p] # v
                      \/ pass # Idle /\ p = pass.reading
                   THEN outdated \cup {p} ELSE outdated
    /\ UNCHANGED <<row, md, pass, torn>>

\* Mutant: whatever is registered already is left alone.
KeepsAnyRow(p, n) == row[p] # None
\* ... then the row, unless there is one of this size: it keeps its state.
KeepsRow(p, n) == row[p] # None /\ row[p].size = n
Register ==
    /\ writer.pc = "register"
    /\ row' = IF KeepsRow(writer.path, writer.size) THEN row
              ELSE [row EXCEPT ![writer.path] = Row("pending", writer.size, None)]
    /\ torn' = torn \ {writer.path}
    /\ writer' = Idle
    /\ UNCHANGED <<file, md, pass, outdated, left>>

\* delete_file: the file and then the row.
DropBinary(p) ==
    /\ writer = Idle /\ file[p] # None /\ left.writes > 0
    /\ left' = [left EXCEPT !.writes = @ - 1]
    /\ file' = [file EXCEPT ![p] = None]
    /\ writer' = [pc |-> "remove", path |-> p]
    /\ UNCHANGED <<row, md, pass, outdated, torn>>
RemoveRow ==
    /\ writer.pc = "remove"
    /\ row' = [row EXCEPT ![writer.path] = None]
    /\ torn' = torn \ {writer.path} /\ outdated' = outdated \ {writer.path}
    /\ writer' = Idle
    /\ UNCHANGED <<file, md, pass, left>>

-----------------------------------------------------------------------------
(* index catalog extract. *)

\* pending_batch: the pending rows, then the failed ones with --retry-failed.
Queue(retry) == IF retry THEN <<"pending", "failed">> ELSE <<"pending">>
Precedes(batch, retry) ==
    \A i, j \in DOMAIN batch : i < j =>
        row[batch[i]].state = Head(Queue(retry)) \/ row[batch[j]].state # Head(Queue(retry))
Batches(retry) ==
    LET eligible == UNION {InState(s) : s \in Range(Queue(retry))}
        most == IF Cardinality(eligible) < Limit THEN Cardinality(eligible) ELSE Limit
        first == InState(Head(Queue(retry)))
    IN  {b \in [1..most -> eligible] :
            /\ IsInjective(b) /\ Precedes(b, retry)
            /\ Range(b) \subseteq first \/ first \subseteq Range(b)}

StartPass(retry) ==
    /\ pass = Idle /\ left.passes > 0 /\ left' = [left EXCEPT !.passes = @ - 1]
    /\ \E b \in Batches(retry) :
          /\ b # <<>>
          /\ pass' = [pc |-> "next", todo |-> b, retry |-> retry, reading |-> None, bytes |-> None]
    /\ UNCHANGED <<file, row, md, writer, outdated, torn>>

\* convert reads the binary: the file may have gone since the batch was read.
ReadSource ==
    /\ pass.pc = "next" /\ pass.todo # <<>>
    /\ pass' = [pass EXCEPT !.pc = "write", !.reading = Head(pass.todo), !.bytes = file[Head(pass.todo)]]
    /\ outdated' = outdated \ {Head(pass.todo)}
    /\ UNCHANGED <<file, row, md, writer, torn, left>>

\* ... and writes the markdown.  Every failure of either is recorded.
WriteMarkdown ==
    /\ pass.pc = "write"
    /\ \E fails \in BOOLEAN :      \* a full disk, a converter that is not installed
          LET bad == fails \/ pass.bytes = None \/ (pass.bytes # None /\ ~Convertible(pass.bytes))
          IN  /\ md' = IF bad THEN md ELSE [md EXCEPT ![pass.reading] = pass.bytes]
              /\ pass' = [pass EXCEPT !.pc = IF bad THEN "fail" ELSE "convert"]
    /\ UNCHANGED <<file, row, writer, outdated, torn, left>>

\* set_status replaces state, output and error; a row that has gone is not made.
SetStatus(p, s, out) == row' = IF row[p] = None THEN row
                               ELSE [row EXCEPT ![p] = Row(s, @.size, out)]
Record ==
    /\ pass.pc \in {"fail", "convert"}
    /\ IF pass.pc = "fail" THEN SetStatus(pass.reading, "failed", None)
                           ELSE SetStatus(pass.reading, "converted", pass.reading)
    /\ pass' = IF Tail(pass.todo) = <<>> THEN Idle
               ELSE [pc |-> "next", todo |-> Tail(pass.todo), retry |-> pass.retry, reading |-> None, bytes |-> None]
    /\ UNCHANGED <<file, md, writer, outdated, torn, left>>

-----------------------------------------------------------------------------
(* Deaths, of the extractor between its two writes and of a pass anywhere. *)

WriterDies ==
    /\ writer # Idle /\ left.deaths > 0 /\ left' = [left EXCEPT !.deaths = @ - 1]
    /\ torn' = torn \cup {writer.path} /\ writer' = Idle
    /\ UNCHANGED <<file, row, md, pass, outdated>>
PassDies ==
    /\ pass # Idle /\ left.deaths > 0 /\ left' = [left EXCEPT !.deaths = @ - 1]
    /\ pass' = Idle
    /\ UNCHANGED <<file, row, md, writer, outdated, torn>>

CatalogNext ==
    \/ \E p \in Paths : DropBinary(p) \/ \E v \in Versions : WriteBytes(p, v)
    \/ Register \/ RemoveRow
    \/ \E retry \in BOOLEAN : StartPass(retry)
    \/ ReadSource \/ WriteMarkdown \/ Record
    \/ WriterDies \/ PassDies

-----------------------------------------------------------------------------

\* A binary has a row, and a row a binary, except in the middle of a write or
\* where a writer died in one (CatalogingStorage).
EveryBinaryHasARow ==
    \A p \in Paths : p \in torn \/ (writer # Idle /\ writer.path = p) \/ (file[p] = None <=> row[p] = None)

\* The markdown of a converted row is that of the bytes on disk, whoever wrote
\* while the pass converted, unless they changed while it converted them, or
\* changed and kept their length (write_bytes, "Same path and same size means the
\* same bytes"): then the row shows nothing and no later pass returns to it.
ConvertedIsCurrent ==
    \A p \in InState("converted") :
        \/ md[p] # None /\ md[p] = file[p]
        \/ md[p] # None /\ (p \in outdated \cup torn \/ (writer # Idle /\ writer.path = p))

\* catalog_extract.py: a failed row is left alone unless --retry-failed, and then
\* no failed row is taken while a pending one is left out of the batch; what a
\* pass takes is never more than its limit.
BatchIsDue ==
    pass = Idle /\ pass' # Idle =>
        LET batch == Range(pass'.todo)
        IN  /\ Len(pass'.todo) <= Limit
            /\ \A p \in batch : row[p].state = "pending" \/ (pass'.retry /\ row[p].state = "failed")
            /\ batch \cap InState("failed") # {} => InState("pending") \subseteq batch
PassOrder == [][BatchIsDue]_catalogVars
=============================================================================
