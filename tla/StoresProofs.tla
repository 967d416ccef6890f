------------------------------ MODULE StoresProofs ------------------------------
(***************************************************************************)
(* Theorems about the stores of MCStores, for every set of paths, versions,  *)
(* documents and runners and every bound.  Each part keeps an invariant of    *)
(* its own, and a step of one part leaves the state of the others alone.      *)
(***************************************************************************)
EXTENDS MCStores, FiniteSetTheorems, TLAPS

-----------------------------------------------------------------------------
(* The catalog.  A pass converts what it read; who writes in the meantime    *)
(* leaves a trace: the ghost of a change the row cannot show, a write in      *)
(* progress or torn, or a row of another size.                                *)

Unsettled(p) == p \in torn \/ (writer # Idle /\ writer.path = p)
Converted(p) == row[p] # None /\ row[p].state = "converted"

WriterShape ==
    \/ writer = Idle
    \/ writer.pc = "register" /\ writer.path \in Paths /\ file[writer.path] # None /\ writer.size = Size(file[writer.path])
    \/ writer.pc = "remove" /\ writer.path \in Paths /\ file[writer.path] = None
PassShape ==
    pass # Idle =>
      /\ DOMAIN pass = {"pc", "todo", "retry", "reading", "bytes"}
      /\ pass.pc \in {"next", "write", "fail", "convert"}
      /\ pass.todo \in Seq(Paths) /\ pass.todo # <<>> /\ IsInjective(pass.todo)
      /\ pass.reading = IF pass.pc = "next" THEN None ELSE Head(pass.todo)
CatalogTyped ==
    /\ file \in [Paths -> Versions \cup {None}] /\ md \in [Paths -> Versions \cup {None}]
    /\ row \in [Paths -> RowType \cup {None}]
    /\ WriterShape /\ PassShape

\* What has become of the bytes a pass has read.
ReadIsTraced(p, bytes) ==
    file[p] = bytes \/ p \in outdated \/ (file[p] = None /\ (Unsettled(p) \/ row[p] = None))
PassReads ==
    pass # Idle =>
      /\ \A i \in DOMAIN pass.todo : ~Converted(pass.todo[i])
      /\ pass.pc # "next" => pass.bytes \in Versions \cup {None} /\ ReadIsTraced(pass.reading, pass.bytes)
      /\ pass.pc = "convert" => pass.bytes \in Versions /\ md[pass.reading] = pass.bytes
IsTraced(p) ==
    \/ md[p] = file[p]
    \/ p \in outdated
    \/ Unsettled(p) /\ (file[p] = None \/ Size(file[p]) # row[p].size)
ConvertedIsTraced == \A p \in Paths : Converted(p) => md[p] # None /\ IsTraced(p)

CatalogInv == CatalogTyped /\ EveryBinaryHasARow /\ ConvertedIsTraced /\ PassReads

LEMMA CatalogStarts == CatalogInit => CatalogInv
  BY DEF CatalogInit, CatalogInv, CatalogTyped, WriterShape, PassShape, EveryBinaryHasARow, ConvertedIsTraced, PassReads, Converted

\* What each step of the writer and of the pass does to a path, in the terms of
\* the invariant.
LEMMA RowFacts ==
    ASSUME CatalogTyped, NEW p \in Paths
    PROVE  /\ file[p] = None \/ file[p] \in Versions
           /\ row[p] # None => row[p] \in RowType /\ row[p].size \in Nat
           /\ \A n \in Nat, out \in Paths \cup {None}, s \in {"pending", "failed", "converted"} :
                 Row(s, n, out) # None /\ Row(s, n, out) \in RowType
  BY CatalogAssumption DEF CatalogTyped, RowType, Row

LEMMA WriteBytesKeeps ==
    ASSUME CatalogInv, NEW p \in Paths, NEW v \in Versions, WriteBytes(p, v)
    PROVE  CatalogInv'
<1>1. v # None /\ Size(v) \in Nat
  BY CatalogAssumption
<1>2. /\ file' = [file EXCEPT ![p] = v] /\ writer = Idle
      /\ writer' = [pc |-> "register", path |-> p, size |-> Size(v)]
      /\ row' = row /\ md' = md /\ pass' = pass /\ torn' = torn
      /\ outdated \subseteq outdated'
      /\ row[p] # None /\ row[p].size = Size(v) /\ file[p] # v => p \in outdated'
      /\ pass # Idle /\ p = pass.reading => p \in outdated'
  BY DEF WriteBytes
<1>3. writer' # Idle /\ writer'.path = p /\ file'[p] = v /\ \A q \in Paths : q # p => file'[q] = file[q]
  BY <1>2 DEF Idle, CatalogInv, CatalogTyped
<1>4. CatalogTyped'
  BY <1>1, <1>2, <1>3 DEF CatalogInv, CatalogTyped, WriterShape, PassShape
<1>5. EveryBinaryHasARow'
  BY <1>1, <1>2, <1>3 DEF CatalogInv, EveryBinaryHasARow
<1>6. ConvertedIsTraced'
  <2> SUFFICES ASSUME NEW q \in Paths, Converted(q) PROVE md[q] # None /\ IsTraced(q)'
    BY <1>2 DEF ConvertedIsTraced, Converted
  <2>1. md[q] # None /\ IsTraced(q)
    BY DEF CatalogInv, ConvertedIsTraced
  <2>2. CASE q # p
    BY <1>2, <1>3, <2>1, <2>2 DEF IsTraced, Unsettled
  <2>3. CASE q = p
    BY <1>1, <1>2, <1>3, <2>1, <2>3 DEF IsTraced, Unsettled, Converted
  <2> QED BY <2>2, <2>3
<1>7. PassReads'
  BY <1>2, <1>3, CatalogAssumption DEF CatalogInv, PassReads, ReadIsTraced, Converted, Unsettled, CatalogTyped, PassShape
<1> QED BY <1>4, <1>5, <1>6, <1>7 DEF CatalogInv

LEMMA RegisterKeeps ==
    ASSUME CatalogInv, Register
    PROVE  CatalogInv'
<1>1. PICK p : p = writer.path
  OBVIOUS
<1>2. p \in Paths /\ file[p] # None /\ writer.size = Size(file[p]) /\ Size(file[p]) \in Nat /\ writer # Idle
  BY <1>1, CatalogAssumption DEF Register, CatalogInv, CatalogTyped, WriterShape, Idle
<1>3. /\ row' = IF row[p] # None /\ row[p].size = Size(file[p]) THEN row ELSE [row EXCEPT ![p] = Row("pending", Size(file[p]), None)]
      /\ torn' = torn \ {p} /\ writer' = Idle
      /\ file' = file /\ md' = md /\ pass' = pass /\ outdated' = outdated
  BY <1>1, <1>2 DEF Register, KeepsRow
<1>4. Row("pending", Size(file[p]), None) # None /\ Row("pending", Size(file[p]), None) \in RowType
  BY <1>2, RowFacts DEF CatalogInv
<1>5. /\ row'[p] # None /\ ~Converted(p) => ~Converted(p)'
      /\ Converted(p)' => row' = row /\ row[p].size = Size(file[p])
      /\ \A q \in Paths : q # p => row'[q] = row[q]
  BY <1>2, <1>3, <1>4 DEF CatalogInv, CatalogTyped, Converted, Row
<1>6. CatalogTyped'
  BY <1>2, <1>3, <1>4 DEF CatalogInv, CatalogTyped, WriterShape, PassShape
<1>7. EveryBinaryHasARow'
  <2>1. row'[p] # None
    BY <1>2, <1>3, <1>4 DEF CatalogInv, CatalogTyped
  <2> QED BY <1>1, <1>2, <1>3, <1>5, <2>1 DEF CatalogInv, EveryBinaryHasARow
<1>8. ConvertedIsTraced'
  <2> SUFFICES ASSUME NEW q \in Paths, Converted(q)' PROVE md[q] # None /\ IsTraced(q)'
    BY <1>3 DEF ConvertedIsTraced
  <2>1. CASE q # p
    <3>1. Converted(q) /\ row'[q] = row[q]
      BY <1>5, <2>1 DEF Converted
    <3>2. Unsettled(q) => Unsettled(q)'
      BY <1>1, <1>3, <2>1 DEF Unsettled
    <3> QED BY <1>3, <3>1, <3>2 DEF CatalogInv, ConvertedIsTraced, IsTraced
  <2>2. CASE q = p
    BY <1>2, <1>3, <1>5, <2>2 DEF CatalogInv, ConvertedIsTraced, IsTraced, Converted
  <2> QED BY <2>1, <2>2
<1>9. PassReads'
  <2> SUFFICES ASSUME pass # Idle PROVE PassReads'
    BY <1>3 DEF PassReads
  <2>1. pass.pc # "next" => ReadIsTraced(pass.reading, pass.bytes)'
    <3> SUFFICES ASSUME pass.pc # "next" PROVE ReadIsTraced(pass.reading, pass.bytes)'
      OBVIOUS
    <3>1. pass.reading \in Paths /\ ReadIsTraced(pass.reading, pass.bytes)
      BY CatalogAssumption DEF CatalogInv, CatalogTyped, PassShape, PassReads
    <3> QED BY <1>1, <1>2, <1>3, <1>5, <3>1 DEF ReadIsTraced, Unsettled
  <2>2. \A i \in DOMAIN pass.todo : ~Converted(pass.todo[i])'
    <3> SUFFICES ASSUME NEW i \in DOMAIN pass.todo PROVE ~Converted(pass.todo[i])'
      OBVIOUS
    <3>1. pass.todo[i] \in Paths /\ ~Converted(pass.todo[i])
      BY DEF CatalogInv, CatalogTyped, PassShape, PassReads
    <3> QED BY <1>3, <1>5, <3>1 DEF Converted
  <2> QED BY <1>3, <2>1, <2>2 DEF CatalogInv, PassReads
<1> QED BY <1>6, <1>7, <1>8, <1>9 DEF CatalogInv

LEMMA DropBinaryKeeps ==
    ASSUME CatalogInv, NEW p \in Paths, DropBinary(p)
    PROVE  CatalogInv'
<1>1. /\ file' = [file EXCEPT ![p] = None] /\ writer = Idle
      /\ writer' = [pc |-> "remove", path |-> p]
      /\ row' = row /\ md' = md /\ pass' = pass /\ torn' = torn /\ outdated' = outdated
  BY DEF DropBinary
<1>2. writer' # Idle /\ writer'.path = p /\ file'[p] = None /\ \A q \in Paths : q # p => file'[q] = file[q]
  BY <1>1 DEF Idle, CatalogInv, CatalogTyped
<1>3. CatalogTyped'
  BY <1>1, <1>2 DEF CatalogInv, CatalogTyped, WriterShape, PassShape
<1>4. EveryBinaryHasARow'
  BY <1>1, <1>2 DEF CatalogInv, EveryBinaryHasARow
<1>5. ConvertedIsTraced'
  BY <1>1, <1>2 DEF CatalogInv, ConvertedIsTraced, IsTraced, Unsettled, Converted
<1>6. PassReads'
  BY <1>1, <1>2, CatalogAssumption DEF CatalogInv, PassReads, ReadIsTraced, Converted, Unsettled, CatalogTyped, PassShape
<1> QED BY <1>3, <1>4, <1>5, <1>6 DEF CatalogInv

LEMMA RemoveRowKeeps ==
    ASSUME CatalogInv, RemoveRow
    PROVE  CatalogInv'
<1>1. PICK p : p = writer.path
  OBVIOUS
<1>2. p \in Paths /\ file[p] = None /\ writer # Idle
  BY <1>1 DEF RemoveRow, CatalogInv, CatalogTyped, WriterShape, Idle
<1>3. /\ row' = [row EXCEPT ![p] = None]
      /\ torn' = torn \ {p} /\ outdated' = outdated \ {p} /\ writer' = Idle
      /\ file' = file /\ md' = md /\ pass' = pass
  BY <1>1 DEF RemoveRow
<1>4. row'[p] = None /\ \A q \in Paths : q # p => row'[q] = row[q]
  BY <1>2, <1>3 DEF CatalogInv, CatalogTyped
<1>5. CatalogTyped'
  BY <1>2, <1>3 DEF CatalogInv, CatalogTyped, WriterShape, PassShape
<1>6. EveryBinaryHasARow'
  BY <1>1, <1>2, <1>3, <1>4 DEF CatalogInv, EveryBinaryHasARow
<1>7. ConvertedIsTraced'
  <2> SUFFICES ASSUME NEW q \in Paths, Converted(q)' PROVE md[q] # None /\ IsTraced(q)'
    BY <1>3 DEF ConvertedIsTraced
  <2>1. q # p /\ row'[q] = row[q] /\ Converted(q)
    BY <1>4 DEF Converted
  <2>2. Unsettled(q) => Unsettled(q)'
    BY <1>1, <1>3, <2>1 DEF Unsettled
  <2> QED BY <1>3, <2>1, <2>2 DEF CatalogInv, ConvertedIsTraced, IsTraced
<1>8. PassReads'
  <2> SUFFICES ASSUME pass # Idle PROVE PassReads'
    BY <1>3 DEF PassReads
  <2>1. pass.pc # "next" => ReadIsTraced(pass.reading, pass.bytes)'
    <3> SUFFICES ASSUME pass.pc # "next" PROVE ReadIsTraced(pass.reading, pass.bytes)'
      OBVIOUS
    <3>1. pass.reading \in Paths /\ ReadIsTraced(pass.reading, pass.bytes)
      BY CatalogAssumption DEF CatalogInv, CatalogTyped, PassShape, PassReads
    <3>2. CASE pass.reading = p
      BY <1>2, <1>3, <1>4, <3>2 DEF ReadIsTraced
    <3>3. CASE pass.reading # p
      BY <1>1, <1>3, <1>4, <3>1, <3>3 DEF ReadIsTraced, Unsettled
    <3> QED BY <3>2, <3>3
  <2>2. \A i \in DOMAIN pass.todo : ~Converted(pass.todo[i])'
    <3> SUFFICES ASSUME NEW i \in DOMAIN pass.todo PROVE ~Converted(pass.todo[i])'
      OBVIOUS
    <3>1. pass.todo[i] \in Paths /\ ~Converted(pass.todo[i])
      BY DEF CatalogInv, CatalogTyped, PassShape, PassReads
    <3> QED BY <1>3, <1>4, <3>1 DEF Converted
  <2> QED BY <1>3, <2>1, <2>2 DEF CatalogInv, PassReads
<1> QED BY <1>5, <1>6, <1>7, <1>8 DEF CatalogInv

LEMMA BatchFacts ==
    ASSUME CatalogTyped, NEW retry \in BOOLEAN, NEW b \in Batches(retry)
    PROVE  /\ b \in Seq(Paths) /\ IsInjective(b) /\ Len(b) <= Limit
           /\ \A i \in DOMAIN b : row[b[i]] # None /\ (row[b[i]].state = "pending" \/ (retry /\ row[b[i]].state = "failed"))
           /\ Range(b) \cap InState("failed") # {} => InState("pending") \subseteq Range(b)
<1> DEFINE eligible == UNION {InState(s) : s \in Range(Queue(retry))}
           most == IF Cardinality(eligible) < Limit THEN Cardinality(eligible) ELSE Limit
           first == InState(Head(Queue(retry)))
<1>1. b \in [1..most -> eligible] /\ IsInjective(b) /\ (Range(b) \subseteq first \/ first \subseteq Range(b))
  BY DEF Batches
<1>2. \A s : InState(s) \subseteq Paths
  BY DEF InState
<1>3. eligible \subseteq Paths
  BY <1>2
<1>4. Cardinality(eligible) \in Nat /\ most \in Nat /\ most <= Limit
  <2>1. Cardinality(eligible) \in Nat
    BY <1>3, FS_Subset, FS_CardinalityType, CatalogAssumption
  <2> QED BY <2>1, CatalogAssumption
<1>5. b \in Seq(Paths) /\ Len(b) = most
  <2> HIDE DEF eligible, most
  <2> QED BY <1>1, <1>3, <1>4
<1>6. Head(Queue(retry)) = "pending" /\ Range(Queue(retry)) = IF retry THEN {"pending", "failed"} ELSE {"pending"}
  BY DEF Queue, Range
<1>7. \A p \in eligible : row[p] # None /\ (row[p].state = "pending" \/ (retry /\ row[p].state = "failed"))
  BY <1>6 DEF InState
<1>8. first = InState("pending")
  BY <1>6
<1>9. Range(b) \cap InState("failed") # {} => InState("pending") \subseteq Range(b)
  <2>1. InState("failed") \cap InState("pending") = {}
    BY DEF InState
  <2> QED BY <1>1, <1>8, <2>1
<1> QED BY <1>1, <1>4, <1>5, <1>7, <1>9

LEMMA StartPassKeeps ==
    ASSUME CatalogInv, NEW retry \in BOOLEAN, StartPass(retry)
    PROVE  CatalogInv'
<1>1. PICK b \in Batches(retry) :
        b # <<>> /\ pass' = [pc |-> "next", todo |-> b, retry |-> retry, reading |-> None, bytes |-> None]
  BY DEF StartPass
<1>2. UNCHANGED <<file, row, md, writer, outdated, torn>>
  BY DEF StartPass
<1>3. /\ b \in Seq(Paths) /\ IsInjective(b)
      /\ \A i \in DOMAIN b : row[b[i]] # None /\ (row[b[i]].state = "pending" \/ (retry /\ row[b[i]].state = "failed"))
  BY BatchFacts DEF CatalogInv
<1>4. \A i \in DOMAIN b : ~Converted(b[i])
  BY <1>3 DEF Converted
<1>5. CatalogTyped'
  BY <1>1, <1>2, <1>3 DEF CatalogInv, CatalogTyped, WriterShape, PassShape
<1>6. PassReads'
  BY <1>1, <1>2, <1>4 DEF PassReads, Converted
<1> QED BY <1>2, <1>5, <1>6 DEF CatalogInv, EveryBinaryHasARow, ConvertedIsTraced, IsTraced, Unsettled, Converted

LEMMA ReadSourceKeeps ==
    ASSUME CatalogInv, ReadSource
    PROVE  CatalogInv'
<1>1. PICK p : p = Head(pass.todo)
  OBVIOUS
<1>2. pass # Idle /\ pass.pc = "next" /\ p = pass.todo[1] /\ 1 \in DOMAIN pass.todo /\ p \in Paths
  BY <1>1 DEF ReadSource, Idle, CatalogInv, CatalogTyped, PassShape
<1>3. /\ pass' = [pass EXCEPT !.pc = "write", !.reading = p, !.bytes = file[p]]
      /\ outdated' = outdated \ {p}
      /\ UNCHANGED <<file, row, md, writer, torn>>
  BY <1>1 DEF ReadSource
<1>4. /\ DOMAIN pass' = DOMAIN pass /\ pass'.pc = "write" /\ pass'.todo = pass.todo
      /\ pass'.reading = p /\ pass'.bytes = file[p] /\ pass' # Idle
  BY <1>2, <1>3 DEF CatalogInv, CatalogTyped, PassShape, Idle
<1>5. ~Converted(p)
  BY <1>2 DEF CatalogInv, PassReads
<1>6. CatalogTyped'
  BY <1>1, <1>2, <1>3, <1>4 DEF CatalogInv, CatalogTyped, WriterShape, PassShape
<1>7. PassReads'
  BY <1>2, <1>3, <1>4 DEF CatalogInv, CatalogTyped, PassReads, ReadIsTraced, Converted
<1>8. ConvertedIsTraced'
  BY <1>2, <1>3, <1>5 DEF CatalogInv, ConvertedIsTraced, IsTraced, Unsettled, Converted
<1> QED BY <1>3, <1>6, <1>7, <1>8 DEF CatalogInv, EveryBinaryHasARow

LEMMA WriteMarkdownKeeps ==
    ASSUME CatalogInv, WriteMarkdown
    PROVE  CatalogInv'
<1>1. PICK p : p = pass.reading
  OBVIOUS
<1>2. pass # Idle /\ pass.pc = "write" /\ p \in Paths /\ p = Head(pass.todo) /\ p = pass.todo[1] /\ 1 \in DOMAIN pass.todo
  BY <1>1 DEF WriteMarkdown, Idle, CatalogInv, CatalogTyped, PassShape
<1>3. ReadIsTraced(p, pass.bytes) /\ ~Converted(p)
  BY <1>1, <1>2 DEF CatalogInv, PassReads
<1>4. UNCHANGED <<file, row, writer, outdated, torn>>
  BY DEF WriteMarkdown
<1>5. PICK bad \in BOOLEAN :
        /\ pass.bytes = None => bad
        /\ md' = IF bad THEN md ELSE [md EXCEPT ![p] = pass.bytes]
        /\ pass' = [pass EXCEPT !.pc = IF bad THEN "fail" ELSE "convert"]
  <2>1. PICK fails \in BOOLEAN :
          LET bad == fails \/ pass.bytes = None \/ (pass.bytes # None /\ ~Convertible(pass.bytes))
          IN  /\ md' = IF bad THEN md ELSE [md EXCEPT ![p] = pass.bytes]
              /\ pass' = [pass EXCEPT !.pc = IF bad THEN "fail" ELSE "convert"]
    BY <1>1 DEF WriteMarkdown
  <2>2. CASE fails \/ pass.bytes = None \/ (pass.bytes # None /\ ~Convertible(pass.bytes))
    BY <2>1, <2>2
  <2>3. CASE ~(fails \/ pass.bytes = None \/ (pass.bytes # None /\ ~Convertible(pass.bytes)))
    BY <2>1, <2>3
  <2> QED BY <2>2, <2>3
<1>6. /\ DOMAIN pass' = DOMAIN pass /\ pass'.pc = (IF bad THEN "fail" ELSE "convert") /\ pass'.todo = pass.todo
      /\ pass'.reading = p /\ pass'.bytes = pass.bytes /\ pass' # Idle
  BY <1>1, <1>2, <1>5 DEF CatalogInv, CatalogTyped, PassShape, Idle
<1>7. bad \/ pass.bytes \in Versions
  BY <1>2, <1>5 DEF CatalogInv, PassReads
<1>8. md'[p] = (IF bad THEN md[p] ELSE pass.bytes) /\ md' \in [Paths -> Versions \cup {None}] /\ \A q \in Paths : q # p => md'[q] = md[q]
  BY <1>2, <1>5, <1>7 DEF CatalogInv, CatalogTyped
<1>9. CatalogTyped'
  BY <1>2, <1>4, <1>6, <1>8 DEF CatalogInv, CatalogTyped, WriterShape, PassShape
<1>10. PassReads'
  BY <1>2, <1>3, <1>4, <1>6, <1>7, <1>8 DEF CatalogInv, PassReads, ReadIsTraced, Converted, Unsettled
<1>11. ConvertedIsTraced'
  BY <1>2, <1>3, <1>4, <1>8 DEF CatalogInv, ConvertedIsTraced, IsTraced, Unsettled, Converted
<1> QED BY <1>4, <1>9, <1>10, <1>11 DEF CatalogInv, EveryBinaryHasARow

LEMMA RecordKeeps ==
    ASSUME CatalogInv, Record
    PROVE  CatalogInv'
<1>1. PICK p : p = pass.reading
  OBVIOUS
<1>2. /\ pass # Idle /\ pass.pc \in {"fail", "convert"} /\ p \in Paths /\ p = pass.todo[1] /\ 1 \in DOMAIN pass.todo
      /\ pass.todo \in Seq(Paths) /\ IsInjective(pass.todo)
  BY <1>1 DEF Record, Idle, CatalogInv, CatalogTyped, PassShape
<1>3. ReadIsTraced(p, pass.bytes) /\ (pass.pc = "convert" => pass.bytes \in Versions /\ md[p] = pass.bytes)
  BY <1>1, <1>2 DEF CatalogInv, PassReads
<1>4. UNCHANGED <<file, md, writer, outdated, torn>>
  BY DEF Record
<1>5. PICK state \in {"failed", "converted"}, out \in Paths \cup {None} :
        /\ state = "converted" => pass.pc = "convert"
        /\ row' = IF row[p] = None THEN row ELSE [row EXCEPT ![p] = Row(state, @.size, out)]
  BY <1>1, <1>2 DEF Record, SetStatus
<1>6. /\ row[p] = None => row' = row
      /\ row[p] # None => row'[p] # None /\ row'[p].state = state /\ row'[p].size = row[p].size
      /\ \A q \in Paths : q # p => row'[q] = row[q]
      /\ row' \in [Paths -> RowType \cup {None}]
  BY <1>2, <1>5, RowFacts DEF CatalogInv, CatalogTyped, Row
<1>7. /\ Tail(pass.todo) \in Seq(Paths) /\ IsInjective(Tail(pass.todo))
      /\ \A i \in DOMAIN Tail(pass.todo) : i + 1 \in DOMAIN pass.todo /\ Tail(pass.todo)[i] = pass.todo[i + 1] /\ pass.todo[i + 1] # p
  <2>1. /\ Tail(pass.todo) \in Seq(Paths)
        /\ \A i \in DOMAIN Tail(pass.todo) : i \in Nat /\ i # 0 /\ i + 1 \in DOMAIN pass.todo /\ Tail(pass.todo)[i] = pass.todo[i + 1]
    BY <1>2
  <2>2. \A i \in DOMAIN Tail(pass.todo) : i + 1 # 1
    BY <2>1
  <2>3. \A i \in DOMAIN Tail(pass.todo) : pass.todo[i + 1] # p
    BY <1>2, <2>1, <2>2 DEF IsInjective
  <2>4. IsInjective(Tail(pass.todo))
    BY <1>2, <2>1 DEF IsInjective
  <2> QED BY <2>1, <2>3, <2>4
<1>8. pass' = Idle \/ (Tail(pass.todo) # <<>> /\ pass' = [pc |-> "next", todo |-> Tail(pass.todo), retry |-> pass.retry, reading |-> None, bytes |-> None])
  BY DEF Record
<1>9. CatalogTyped'
  <2>1. PassShape'
    <3>1. CASE pass' = Idle
      BY <3>1 DEF PassShape
    <3>2. CASE Tail(pass.todo) # <<>> /\ pass' = [pc |-> "next", todo |-> Tail(pass.todo), retry |-> pass.retry, reading |-> None, bytes |-> None]
      BY <1>7, <3>2 DEF PassShape
    <3> QED BY <1>8, <3>1, <3>2
  <2> QED BY <1>4, <1>6, <2>1 DEF CatalogInv, CatalogTyped, WriterShape
<1>10. PassReads'
  <2>1. PICK rest : rest = Tail(pass.todo)
    OBVIOUS
  <2>2. \A i \in DOMAIN rest : ~Converted(rest[i])'
    <3> SUFFICES ASSUME NEW i \in DOMAIN rest PROVE ~Converted(rest[i])'
      OBVIOUS
    <3>1. rest[i] \in Paths /\ rest[i] # p /\ ~Converted(rest[i])
      BY <1>2, <1>7, <2>1 DEF CatalogInv, PassReads
    <3> QED BY <1>6, <3>1 DEF Converted
  <2>3. pass' = Idle \/ (pass'.todo = rest /\ pass'.pc = "next")
    <3>1. CASE pass' = [pc |-> "next", todo |-> Tail(pass.todo), retry |-> pass.retry, reading |-> None, bytes |-> None]
      BY <2>1, <3>1
    <3> QED BY <1>8, <3>1
  <2> QED BY <2>2, <2>3 DEF PassReads
<1>11. ConvertedIsTraced'
  <2> SUFFICES ASSUME NEW q \in Paths, Converted(q)' PROVE md[q] # None /\ IsTraced(q)'
    BY <1>4 DEF ConvertedIsTraced
  <2>1. CASE q # p \/ row[p] = None
    BY <1>4, <1>6, <2>1 DEF CatalogInv, ConvertedIsTraced, IsTraced, Unsettled, Converted
  <2>2. CASE q = p /\ row[p] # None
    <3>1. pass.pc = "convert"
      BY <1>5, <1>6, <2>2 DEF Converted
    <3> QED BY <1>3, <1>4, <2>2, <3>1, CatalogAssumption DEF ReadIsTraced, IsTraced, Unsettled
  <2> QED BY <2>1, <2>2
<1>12. EveryBinaryHasARow'
  BY <1>2, <1>4, <1>6 DEF CatalogInv, EveryBinaryHasARow
<1> QED BY <1>9, <1>10, <1>11, <1>12 DEF CatalogInv

LEMMA DeathsKeep ==
    ASSUME CatalogInv, WriterDies \/ PassDies
    PROVE  CatalogInv'
<1>1. CASE WriterDies
  <2>1. /\ torn' = torn \cup {writer.path} /\ writer' = Idle
        /\ UNCHANGED <<file, row, md, pass, outdated>>
    BY <1>1 DEF WriterDies
  <2>2. CatalogTyped'
    BY <2>1 DEF CatalogInv, CatalogTyped, WriterShape, PassShape
  <2>3. \A p : Unsettled(p) => Unsettled(p)'
    BY <2>1 DEF Unsettled
  <2>4. EveryBinaryHasARow'
    BY <2>1 DEF CatalogInv, EveryBinaryHasARow
  <2>5. ConvertedIsTraced'
    BY <2>1, <2>3 DEF CatalogInv, ConvertedIsTraced, IsTraced, Converted
  <2>6. PassReads'
    BY <2>1, <2>3 DEF CatalogInv, PassReads, ReadIsTraced, Converted
  <2> QED BY <2>2, <2>4, <2>5, <2>6 DEF CatalogInv
<1>2. CASE PassDies
  BY <1>2 DEF PassDies, CatalogInv, CatalogTyped, WriterShape, PassShape, EveryBinaryHasARow, ConvertedIsTraced, IsTraced,
              Unsettled, Converted, PassReads
<1> QED BY <1>1, <1>2

LEMMA CatalogKeeps == CatalogInv /\ [CatalogNext]_catalogVars => CatalogInv'
<1> SUFFICES ASSUME CatalogInv, [CatalogNext]_catalogVars PROVE CatalogInv'
  OBVIOUS
<1>1. CASE UNCHANGED catalogVars
  BY <1>1 DEF catalogVars, CatalogInv, CatalogTyped, WriterShape, PassShape, EveryBinaryHasARow, ConvertedIsTraced, IsTraced,
              Unsettled, Converted, PassReads, ReadIsTraced
<1>2. CASE CatalogNext
  BY <1>2, WriteBytesKeeps, RegisterKeeps, DropBinaryKeeps, RemoveRowKeeps, StartPassKeeps, ReadSourceKeeps,
     WriteMarkdownKeeps, RecordKeeps, DeathsKeep DEF CatalogNext
<1> QED BY <1>1, <1>2

LEMMA CatalogFollows == CatalogInv => ConvertedIsCurrent
  BY DEF CatalogInv, ConvertedIsTraced, IsTraced, Unsettled, Converted, ConvertedIsCurrent, InState

LEMMA PassesAreOrdered == CatalogInv /\ [CatalogNext]_catalogVars => [BatchIsDue]_catalogVars
<1> SUFFICES ASSUME CatalogInv, CatalogNext, pass = Idle, pass' # Idle
             PROVE  /\ Len(pass'.todo) <= Limit
                    /\ \A p \in Range(pass'.todo) : row[p].state = "pending" \/ (pass'.retry /\ row[p].state = "failed")
                    /\ Range(pass'.todo) \cap InState("failed") # {} => InState("pending") \subseteq Range(pass'.todo)
  BY DEF BatchIsDue
<1>1. PICK retry \in BOOLEAN : StartPass(retry)
  BY DEF CatalogNext, WriteBytes, DropBinary, Register, RemoveRow, ReadSource, WriteMarkdown, Record, WriterDies, PassDies, Idle
<1>2. PICK b \in Batches(retry) : pass'.todo = b /\ pass'.retry = retry
  BY <1>1 DEF StartPass
<1> QED BY <1>2, BatchFacts DEF CatalogInv, Range

-----------------------------------------------------------------------------
(* The manifests.  Who prunes removes what as many later ones cover; the     *)
(* pointer and the manifest it names differ only while their cycle is        *)
(* between two of its writes, and no two cycles under way have one id.        *)

IdType == [second : Nat, token : Nat]
Active == {"writing", "pointing", "pruning", "unlinking"}
CycleTyped(c) ==
    /\ DOMAIN c = {"at", "started", "id", "began", "kinds", "hooked", "doomed"}
    /\ c.at \in {"idle", "extracting"} \cup Active
    /\ c.started \in Nat /\ c.began \subseteq Files /\ DOMAIN c.kinds \subseteq Files
    /\ c.at \in Active => c.id \in taken
    /\ c.doomed \subseteq IdType
    /\ c.at # "unlinking" => c.doomed = {}
ManifestsTyped ==
    /\ now \in Nat /\ ends \in Nat /\ IsFiniteSet(taken) /\ taken \subseteq IdType /\ DOMAIN manifests \subseteq taken
    /\ DOMAIN cycle = Runners /\ DOMAIN vault = Runners
    /\ \A r \in Runners : CycleTyped(cycle[r]) /\ vault[r] \subseteq Files

IdsAreOnesOwn ==
    \A r, s \in Runners : r # s /\ cycle[r].at \in Active /\ cycle[s].at \in Active => cycle[r].id # cycle[s].id
\* ReportIsNet, path by path.
NetOf(there, began, kinds, p) ==
    IF p \in DOMAIN kinds
    THEN \/ kinds[p] = "added" /\ p \in there
         \/ kinds[p] = "updated" /\ p \in there /\ p \in began
         \/ kinds[p] = "removed" /\ p \notin there
    ELSE p \in there <=> p \in began
ReportIsNetByPath ==
    \A r \in Runners : cycle[r].at # "idle" => \A p \in Files : NetOf(vault[r], cycle[r].began, cycle[r].kinds, p)
DoomedAreCovered == \A r \in Runners : \A i \in cycle[r].doomed : Cardinality(Later(i)) >= Retain
DraftsAreWritten ==
    \A r \in Runners : cycle[r].at = "pointing" /\ cycle[r].id \in DOMAIN manifests => manifests[cycle[r].id] = Document(r)
PointerFollows ==
    ends = 0 /\ latest # NoId =>
      /\ latest.of.hooked = TRUE \/ \E r \in Runners : cycle[r].at \in {"writing", "pointing"} /\ cycle[r].id = latest.id
      /\ latest.id \in DOMAIN manifests =>
            manifests[latest.id] = latest.of \/ \E r \in Runners : cycle[r].at = "pointing" /\ cycle[r].id = latest.id

ManifestsInv ==
    /\ ManifestsTyped /\ IdsAreOnesOwn /\ ReportIsNetByPath /\ DoomedAreCovered /\ DraftsAreWritten /\ PointerFollows

LEMMA BeforeFacts ==
    ASSUME NEW i \in IdType, NEW j \in IdType, NEW k \in IdType
    PROVE  ~Before(i, i) /\ (Before(i, j) /\ Before(j, k) => Before(i, k))
  BY DEF Before, IdType

LEMMA LaterFacts ==
    ASSUME ManifestsTyped, NEW i
    PROVE  IsFiniteSet(Later(i)) /\ Cardinality(Later(i)) \in Nat /\ Later(i) \subseteq DOMAIN manifests
<1>1. Later(i) \subseteq taken /\ Later(i) \subseteq DOMAIN manifests
  BY DEF Later, ManifestsTyped
<1> QED BY <1>1, FS_Subset, FS_CardinalityType DEF ManifestsTyped

LEMMA ManifestsStart == ManifestsInit => ManifestsInv
<1> SUFFICES ASSUME ManifestsInit PROVE ManifestsInv
  OBVIOUS
<1>1. /\ \A r \in Runners : cycle[r] = Resting
      /\ DOMAIN cycle = Runners /\ DOMAIN vault = Runners /\ DOMAIN manifests = {}
      /\ latest = NoId /\ taken = {} /\ now = 1 /\ ends = 0 /\ \A r \in Runners : vault[r] \subseteq Files
  BY DEF ManifestsInit
<1>2. ManifestsTyped
  BY <1>1, FS_EmptySet DEF ManifestsTyped, CycleTyped, Resting, Active
<1> QED BY <1>1, <1>2 DEF ManifestsInv, IdsAreOnesOwn, ReportIsNetByPath, DoomedAreCovered, DraftsAreWritten, PointerFollows,
        Resting, Active

\* A step of one runner: the cycles of the others stay, and so does what is said
\* of them.
LEMMA OthersStay ==
    ASSUME ManifestsTyped, NEW r \in Runners, NEW c, cycle' = [cycle EXCEPT ![r] = c]
    PROVE  /\ DOMAIN cycle' = Runners /\ cycle'[r] = c
           /\ \A q \in Runners : q # r => cycle'[q] = cycle[q]
  BY DEF ManifestsTyped

LEMMA NetStays ==
    ASSUME ManifestsInv, NEW r \in Runners, NEW c, cycle' = [cycle EXCEPT ![r] = c], vault' = vault,
           c.at = "idle" \/ (cycle[r].at # "idle" /\ c.began = cycle[r].began /\ c.kinds = cycle[r].kinds)
    PROVE  ReportIsNetByPath'
  BY OthersStay DEF ManifestsInv, ReportIsNetByPath

LEMMA IdsStay ==
    ASSUME ManifestsInv, NEW r \in Runners, NEW c, cycle' = [cycle EXCEPT ![r] = c],
           c.at \in Active => cycle[r].at \in Active /\ c.id = cycle[r].id
    PROVE  IdsAreOnesOwn'
  BY OthersStay DEF ManifestsInv, IdsAreOnesOwn

LEMMA TypeStays ==
    ASSUME ManifestsInv, NEW r \in Runners, NEW c, cycle' = [cycle EXCEPT ![r] = c], CycleTyped(c),
           UNCHANGED <<now, taken, vault>>, DOMAIN manifests' \subseteq taken, ends' = ends \/ ends' \in Nat
    PROVE  ManifestsTyped'
<1>1. \A q : CycleTyped(q) => CycleTyped(q)'
  BY DEF CycleTyped
<1> QED BY <1>1, OthersStay DEF ManifestsInv, ManifestsTyped

LEMMA BeginKeeps ==
    ASSUME ManifestsInv, NEW r \in Runners, Begin(r)
    PROVE  ManifestsInv'
<1>1. PICK c : c = [Resting EXCEPT !.at = "extracting", !.began = vault[r], !.started = now]
  OBVIOUS
<1>2. /\ cycle' = [cycle EXCEPT ![r] = c] /\ cycle[r].at = "idle"
      /\ UNCHANGED <<now, taken, vault, manifests, latest, ends>>
  BY <1>1 DEF Begin
<1>3. /\ DOMAIN c = {"at", "started", "id", "began", "kinds", "hooked", "doomed"}
      /\ c.at = "extracting" /\ c.began = vault[r] /\ c.started = now /\ c.kinds = <<>> /\ c.doomed = {}
  BY <1>1 DEF Resting
<1>4. CycleTyped(c)
  BY <1>3 DEF CycleTyped, ManifestsInv, ManifestsTyped, Active
<1>5. cycle'[r] = c /\ \A q \in Runners : q # r => cycle'[q] = cycle[q]
  BY <1>2, OthersStay DEF ManifestsInv
<1>6. ManifestsTyped' /\ IdsAreOnesOwn'
  BY <1>2, <1>3, <1>4, TypeStays, IdsStay DEF Active, ManifestsInv, ManifestsTyped
<1>7. ReportIsNetByPath'
  <2>1. \A p \in Files : NetOf(vault[r], c.began, c.kinds, p)
    BY <1>3 DEF NetOf
  <2> QED BY <1>2, <1>5, <2>1 DEF ManifestsInv, ReportIsNetByPath
<1>8. DoomedAreCovered' /\ DraftsAreWritten' /\ PointerFollows'
  BY <1>2, <1>3, <1>5 DEF ManifestsInv, DoomedAreCovered, DraftsAreWritten, PointerFollows, Later, Document
<1> QED BY <1>6, <1>7, <1>8 DEF ManifestsInv

LEMMA ChangeKeeps ==
    ASSUME ManifestsInv, NEW r \in Runners, NEW p \in Files, WriteFile(r, p) \/ DeleteFile(r, p)
    PROVE  ManifestsInv'
<1>1. PICK kind \in {"added", "updated", "removed"} :
        /\ \/ kind = "added" /\ p \notin vault[r] /\ vault' = [vault EXCEPT ![r] = @ \cup {p}]
           \/ kind = "updated" /\ p \in vault[r] /\ vault' = [vault EXCEPT ![r] = @ \cup {p}]
           \/ kind = "removed" /\ p \in vault[r] /\ vault' = [vault EXCEPT ![r] = @ \ {p}]
        /\ Changes(r, p, kind)
  <2>1. CASE DeleteFile(r, p)
    BY <2>1 DEF DeleteFile
  <2>2. CASE WriteFile(r, p) /\ p \in vault[r]
    BY <2>2 DEF WriteFile
  <2>3. CASE WriteFile(r, p) /\ p \notin vault[r]
    BY <2>3 DEF WriteFile
  <2> QED BY <2>1, <2>2, <2>3
<1>2. PICK kinds : kinds = Recorded(cycle[r].kinds, p, kind)
  OBVIOUS
<1>3. PICK c : c = [cycle[r] EXCEPT !.kinds = kinds]
  OBVIOUS
<1>4. CycleTyped(cycle[r]) /\ cycle[r].at = "extracting"
  BY <1>1 DEF Changes, ManifestsInv, ManifestsTyped
<1>5. cycle' = [cycle EXCEPT ![r] = c] /\ UNCHANGED <<now, taken, manifests, latest, ends>>
  BY <1>1, <1>2, <1>3 DEF Changes
<1>6. /\ DOMAIN c = DOMAIN cycle[r] /\ c.at = "extracting" /\ c.started = cycle[r].started
      /\ c.began = cycle[r].began /\ c.kinds = kinds /\ c.doomed = cycle[r].doomed
  BY <1>3, <1>4 DEF CycleTyped
<1>7. DOMAIN kinds = DOMAIN cycle[r].kinds \cup {p}
      /\ (\A q \in DOMAIN cycle[r].kinds : q # p => kinds[q] = cycle[r].kinds[q])
      /\ kinds[p] = IF p \in DOMAIN cycle[r].kinds /\ cycle[r].kinds[p] = "added" /\ kind = "updated" THEN "added" ELSE kind
  BY <1>2 DEF Recorded, Put
<1>8. CycleTyped(c)
  BY <1>4, <1>6, <1>7 DEF CycleTyped, Active
<1>9. cycle'[r] = c /\ DOMAIN cycle' = Runners /\ \A q \in Runners : q # r => cycle'[q] = cycle[q]
  BY <1>5, OthersStay DEF ManifestsInv
<1>10. /\ DOMAIN vault' = Runners /\ vault'[r] \subseteq Files
       /\ \A q \in Runners : q # r => vault'[q] = vault[q]
       /\ \A q : q # p => (q \in vault'[r] <=> q \in vault[r])
       /\ p \in vault'[r] <=> kind # "removed"
  BY <1>1 DEF ManifestsInv, ManifestsTyped
<1>11. ManifestsTyped'
  <2>1. \A q : CycleTyped(q) => CycleTyped(q)'
    BY <1>5 DEF CycleTyped
  <2> QED BY <1>5, <1>8, <1>9, <1>10, <2>1 DEF ManifestsInv, ManifestsTyped
<1>12. IdsAreOnesOwn'
  BY <1>5, <1>6, IdsStay DEF Active
<1>13. ReportIsNetByPath'
  <2>1. \A q \in Files : NetOf(vault[r], cycle[r].began, cycle[r].kinds, q)
    BY <1>4 DEF ManifestsInv, ReportIsNetByPath
  <2>2. \A q \in Files : q # p => NetOf(vault'[r], c.began, kinds, q)
    BY <1>6, <1>7, <1>10, <2>1 DEF NetOf
  <2>3. NetOf(vault'[r], c.began, kinds, p)
    BY <1>1, <1>6, <1>7, <1>10, <2>1 DEF NetOf
  <2>4. \A q \in Files : NetOf(vault'[r], c.began, kinds, q)
    BY <2>2, <2>3
  <2> QED BY <1>6, <1>9, <1>10, <2>4 DEF ManifestsInv, ReportIsNetByPath
<1>14. DoomedAreCovered' /\ DraftsAreWritten' /\ PointerFollows'
  BY <1>4, <1>5, <1>6, <1>9 DEF ManifestsInv, DoomedAreCovered, DraftsAreWritten, PointerFollows, Later, Document
<1> QED BY <1>11, <1>12, <1>13, <1>14 DEF ManifestsInv

LEMMA NewCycleKeeps ==
    ASSUME ManifestsInv, NEW r \in Runners, NEW token \in Nat, NewCycle(r, token)
    PROVE  ManifestsInv'
<1>1. PICK id : id = [second |-> cycle[r].started, token |-> token]
  OBVIOUS
<1>2. PICK c : c = [cycle[r] EXCEPT !.at = "writing", !.id = id]
  OBVIOUS
<1>3. CycleTyped(cycle[r]) /\ cycle[r].at = "extracting"
  BY DEF NewCycle, ManifestsInv, ManifestsTyped
<1>4. /\ cycle' = [cycle EXCEPT ![r] = c] /\ id \notin taken /\ taken' = taken \cup {id}
      /\ UNCHANGED <<now, vault, manifests, latest, ends>>
  BY <1>1, <1>2 DEF NewCycle
<1>5. /\ DOMAIN c = DOMAIN cycle[r] /\ c.at = "writing" /\ c.started = cycle[r].started /\ c.id = id
      /\ c.began = cycle[r].began /\ c.kinds = cycle[r].kinds /\ c.doomed = cycle[r].doomed /\ c.doomed = {}
  BY <1>2, <1>3 DEF CycleTyped
<1>6. id \in IdType
  BY <1>1, <1>3 DEF CycleTyped, IdType
<1>7. cycle'[r] = c /\ DOMAIN cycle' = Runners /\ \A q \in Runners : q # r => cycle'[q] = cycle[q]
  BY <1>4, OthersStay DEF ManifestsInv
<1>8. ManifestsTyped'
  <2>1. \A q : CycleTyped(q) => CycleTyped(q)'
    BY <1>4 DEF CycleTyped
  <2>2. CycleTyped(c)'
    BY <1>3, <1>4, <1>5 DEF CycleTyped, Active
  <2>3. IsFiniteSet(taken')
    BY <1>4, FS_AddElement DEF ManifestsInv, ManifestsTyped
  <2> QED BY <1>4, <1>6, <1>7, <2>1, <2>2, <2>3 DEF ManifestsInv, ManifestsTyped
<1>9. IdsAreOnesOwn'
  <2>1. \A q \in Runners : cycle[q].at \in Active => cycle[q].id # id
    BY <1>4 DEF ManifestsInv, ManifestsTyped, CycleTyped
  <2> QED BY <1>5, <1>7, <2>1 DEF ManifestsInv, IdsAreOnesOwn
<1>10. ReportIsNetByPath'
  BY <1>3, <1>4, <1>5, NetStays
<1>11. DoomedAreCovered' /\ DraftsAreWritten' /\ PointerFollows'
  BY <1>3, <1>4, <1>5, <1>7 DEF ManifestsInv, DoomedAreCovered, DraftsAreWritten, PointerFollows, Later, Document
<1> QED BY <1>8, <1>9, <1>10, <1>11 DEF ManifestsInv

LEMMA WriteManifestKeeps ==
    ASSUME ManifestsInv, NEW r \in Runners, WriteManifest(r)
    PROVE  ManifestsInv'
<1>1. PICK id : id = cycle[r].id
  OBVIOUS
<1>2. PICK c : c = [cycle[r] EXCEPT !.at = "pointing"]
  OBVIOUS
<1>3. PICK doc : doc = Document(r)
  OBVIOUS
<1>4. CycleTyped(cycle[r]) /\ cycle[r].at = "writing" /\ id \in taken
  BY <1>1 DEF WriteManifest, ManifestsInv, ManifestsTyped, CycleTyped, Active
<1>5. /\ cycle' = [cycle EXCEPT ![r] = c] /\ UNCHANGED <<now, taken, vault, latest, ends>>
      /\ manifests' = [i \in DOMAIN manifests \cup {id} |-> IF i = id THEN doc ELSE manifests[i]]
  BY <1>1, <1>2, <1>3 DEF WriteManifest, Goes
<1>6. /\ DOMAIN c = DOMAIN cycle[r] /\ c.at = "pointing" /\ c.started = cycle[r].started /\ c.id = id
      /\ c.began = cycle[r].began /\ c.kinds = cycle[r].kinds /\ c.hooked = cycle[r].hooked /\ c.doomed = cycle[r].doomed
      /\ c.doomed = {}
  BY <1>1, <1>2, <1>4 DEF CycleTyped
<1>7. cycle'[r] = c /\ DOMAIN cycle' = Runners /\ \A q \in Runners : q # r => cycle'[q] = cycle[q]
  BY <1>5, OthersStay DEF ManifestsInv
<1>8. DOMAIN manifests' = DOMAIN manifests \cup {id} /\ manifests'[id] = doc /\ \A i \in DOMAIN manifests : i # id => manifests'[i] = manifests[i]
  BY <1>5
<1>9. CycleTyped(c)
  BY <1>4, <1>6 DEF CycleTyped, Active
<1>10. ManifestsTyped'
  BY <1>4, <1>5, <1>8, <1>9, TypeStays DEF ManifestsInv, ManifestsTyped
<1>11. IdsAreOnesOwn' /\ ReportIsNetByPath'
  BY <1>1, <1>4, <1>5, <1>6, IdsStay, NetStays DEF Active
<1>12. DoomedAreCovered'
  <2> SUFFICES ASSUME NEW q \in Runners, NEW i \in cycle'[q].doomed PROVE Cardinality(Later(i)') >= Retain
    BY DEF DoomedAreCovered
  <2>1. i \in cycle[q].doomed /\ Cardinality(Later(i)) >= Retain
    BY <1>6, <1>7 DEF ManifestsInv, DoomedAreCovered
  <2>2. Later(i) \subseteq Later(i)'
    BY <1>8 DEF Later
  <2>3. IsFiniteSet(Later(i)') /\ Cardinality(Later(i)') \in Nat
    BY <1>10, LaterFacts, FS_Subset, FS_CardinalityType DEF ManifestsTyped, Later
  <2>4. Cardinality(Later(i)) <= Cardinality(Later(i)')
    BY <2>2, <2>3, FS_Subset
  <2> QED BY <2>1, <2>3, <2>4, LaterFacts, ManifestsAssumption DEF ManifestsInv
<1>13. DraftsAreWritten'
  <2> SUFFICES ASSUME NEW q \in Runners, cycle'[q].at = "pointing", cycle'[q].id \in DOMAIN manifests'
               PROVE  manifests'[cycle'[q].id] = Document(q)'
    BY DEF DraftsAreWritten
  <2>1. CASE q = r
    BY <1>3, <1>6, <1>7, <1>8, <2>1 DEF Document
  <2>2. CASE q # r
    <3>1. cycle'[q] = cycle[q] /\ cycle[q].id # id /\ cycle[q].id \in DOMAIN manifests
      BY <1>1, <1>4, <1>7, <1>8, <2>2 DEF ManifestsInv, IdsAreOnesOwn, Active
    <3> QED BY <1>8, <3>1 DEF ManifestsInv, DraftsAreWritten, Document
  <2> QED BY <2>1, <2>2
<1>14. PointerFollows'
  <2> SUFFICES ASSUME ends = 0, latest # NoId PROVE PointerFollows'
    BY <1>5 DEF PointerFollows
  <2>1. latest.of.hooked = TRUE \/ \E q \in Runners : cycle'[q].at \in {"writing", "pointing"} /\ cycle'[q].id = latest.id
    <3>1. CASE latest.of.hooked = TRUE
      BY <3>1
    <3>2. CASE \E q \in Runners : cycle[q].at \in {"writing", "pointing"} /\ cycle[q].id = latest.id
      BY <1>1, <1>6, <1>7, <3>2
    <3> QED BY <3>1, <3>2 DEF ManifestsInv, PointerFollows
  <2>2. ASSUME latest.id \in DOMAIN manifests'
        PROVE  manifests'[latest.id] = latest.of \/ \E q \in Runners : cycle'[q].at = "pointing" /\ cycle'[q].id = latest.id
    <3>1. CASE latest.id = id
      BY <1>6, <1>7, <3>1
    <3>2. CASE latest.id # id
      <4>1. latest.id \in DOMAIN manifests /\ manifests'[latest.id] = manifests[latest.id]
        BY <1>8, <2>2, <3>2
      <4>2. CASE manifests[latest.id] = latest.of
        BY <4>1, <4>2
      <4>3. CASE \E q \in Runners : cycle[q].at = "pointing" /\ cycle[q].id = latest.id
        BY <1>4, <1>7, <4>3
      <4> QED BY <4>1, <4>2, <4>3 DEF ManifestsInv, PointerFollows
    <3> QED BY <3>1, <3>2
  <2> QED BY <1>5, <2>1, <2>2 DEF PointerFollows
<1> QED BY <1>10, <1>11, <1>12, <1>13, <1>14 DEF ManifestsInv

LEMMA WriteLatestKeeps ==
    ASSUME ManifestsInv, NEW r \in Runners, WriteLatest(r)
    PROVE  ManifestsInv'
<1>1. PICK to : to = IF cycle[r].hooked THEN "pruning" ELSE "writing"
  OBVIOUS
<1>2. PICK c : c = [cycle[r] EXCEPT !.at = to, !.hooked = TRUE]
  OBVIOUS
<1>3. CycleTyped(cycle[r]) /\ cycle[r].at = "pointing" /\ to \in Active /\ to # "pointing" /\ to # "unlinking"
  BY <1>1 DEF WriteLatest, ManifestsInv, ManifestsTyped, Active
<1>4. /\ cycle' = [cycle EXCEPT ![r] = c] /\ UNCHANGED <<now, taken, vault, manifests, ends>>
      /\ latest' = [id |-> cycle[r].id, of |-> Document(r)]
  BY <1>1, <1>2 DEF WriteLatest
<1>5. /\ DOMAIN c = DOMAIN cycle[r] /\ c.at = to /\ c.started = cycle[r].started /\ c.id = cycle[r].id
      /\ c.began = cycle[r].began /\ c.kinds = cycle[r].kinds /\ c.doomed = cycle[r].doomed
  BY <1>2, <1>3 DEF CycleTyped
<1>6. cycle'[r] = c /\ DOMAIN cycle' = Runners /\ \A q \in Runners : q # r => cycle'[q] = cycle[q]
  BY <1>4, OthersStay DEF ManifestsInv
<1>7. CycleTyped(c)
  BY <1>3, <1>5 DEF CycleTyped, Active
<1>8. ManifestsTyped'
  BY <1>4, <1>7, TypeStays DEF ManifestsInv, ManifestsTyped
<1>9. IdsAreOnesOwn' /\ ReportIsNetByPath'
  BY <1>3, <1>4, <1>5, IdsStay, NetStays DEF Active
<1>10. DoomedAreCovered'
  BY <1>4, <1>5, <1>6 DEF ManifestsInv, DoomedAreCovered, Later
<1>11. DraftsAreWritten'
  BY <1>3, <1>4, <1>5, <1>6 DEF ManifestsInv, DraftsAreWritten, Document
<1>12. PointerFollows'
  <2>1. latest'.id = cycle[r].id /\ latest'.of = Document(r) /\ latest'.of.hooked = cycle[r].hooked
    BY <1>4 DEF Document
  <2>2. latest'.of.hooked = TRUE \/ \E q \in Runners : cycle'[q].at \in {"writing", "pointing"} /\ cycle'[q].id = latest'.id
    <3>1. CASE cycle[r].hooked = TRUE
      BY <2>1, <3>1
    <3>2. CASE cycle[r].hooked # TRUE
      <4>1. to = "writing"
        BY <1>1, <3>2, ZenonT(20) DEF ManifestsInv
      <4> QED BY <1>5, <1>6, <2>1, <4>1
    <3> QED BY <3>1, <3>2
  <2>3. latest'.id \in DOMAIN manifests' => manifests'[latest'.id] = latest'.of
    BY <1>3, <1>4, <2>1 DEF ManifestsInv, DraftsAreWritten
  <2> QED BY <2>2, <2>3 DEF PointerFollows
<1> QED BY <1>8, <1>9, <1>10, <1>11, <1>12 DEF ManifestsInv

LEMMA ListKeeps ==
    ASSUME ManifestsInv, NEW r \in Runners, List(r)
    PROVE  ManifestsInv'
<1>1. PICK doomed : doomed = Doomed
  OBVIOUS
<1>2. PICK c : c = [cycle[r] EXCEPT !.at = "unlinking", !.doomed = doomed]
  OBVIOUS
<1>3. CycleTyped(cycle[r]) /\ cycle[r].at = "pruning"
  BY DEF List, ManifestsInv, ManifestsTyped
<1>4. cycle' = [cycle EXCEPT ![r] = c] /\ UNCHANGED <<now, taken, vault, manifests, latest, ends>>
  BY <1>1, <1>2 DEF List
<1>5. /\ DOMAIN c = DOMAIN cycle[r] /\ c.at = "unlinking" /\ c.started = cycle[r].started /\ c.id = cycle[r].id
      /\ c.began = cycle[r].began /\ c.kinds = cycle[r].kinds /\ c.doomed = doomed
  BY <1>2, <1>3 DEF CycleTyped
<1>6. cycle'[r] = c /\ DOMAIN cycle' = Runners /\ \A q \in Runners : q # r => cycle'[q] = cycle[q]
  BY <1>4, OthersStay DEF ManifestsInv
<1>7. doomed \subseteq IdType /\ \A i \in doomed : Cardinality(Later(i)) >= Retain
  BY <1>1 DEF Doomed, ManifestsInv, ManifestsTyped
<1>8. CycleTyped(c)
  BY <1>3, <1>5, <1>7 DEF CycleTyped, Active
<1>9. ManifestsTyped'
  BY <1>4, <1>8, TypeStays DEF ManifestsInv, ManifestsTyped
<1>10. IdsAreOnesOwn' /\ ReportIsNetByPath'
  BY <1>3, <1>4, <1>5, IdsStay, NetStays DEF Active
<1>11. DoomedAreCovered'
  BY <1>4, <1>5, <1>6, <1>7 DEF ManifestsInv, DoomedAreCovered, Later
<1>12. DraftsAreWritten' /\ PointerFollows'
  BY <1>3, <1>4, <1>5, <1>6 DEF ManifestsInv, DraftsAreWritten, Document, PointerFollows
<1> QED BY <1>9, <1>10, <1>11, <1>12 DEF ManifestsInv

\* A cycle that ends: nothing of it is under way any more.
LEMMA EndKeeps ==
    ASSUME ManifestsInv, NEW r \in Runners, cycle' = [cycle EXCEPT ![r] = Resting],
           UNCHANGED <<now, taken, vault, manifests, latest>>,
           ends' \in Nat \ {0} \/ (ends' = ends /\ cycle[r].at \notin {"writing", "pointing"})
    PROVE  ManifestsInv'
<1>1. DOMAIN Resting = {"at", "started", "id", "began", "kinds", "hooked", "doomed"} /\ Resting.at = "idle"
      /\ Resting.doomed = {} /\ Resting.started = 0 /\ Resting.began = {} /\ DOMAIN Resting.kinds = {}
  BY DEF Resting
<1>2. cycle'[r] = Resting /\ DOMAIN cycle' = Runners /\ \A q \in Runners : q # r => cycle'[q] = cycle[q]
  BY OthersStay DEF ManifestsInv
<1>3. CycleTyped(Resting)
  BY <1>1 DEF CycleTyped, Active
<1>4. ManifestsTyped'
  BY <1>3, TypeStays DEF ManifestsInv, ManifestsTyped
<1>5. IdsAreOnesOwn' /\ ReportIsNetByPath'
  BY <1>1, IdsStay, NetStays DEF Active
<1>6. DoomedAreCovered' /\ DraftsAreWritten'
  BY <1>1, <1>2 DEF ManifestsInv, DoomedAreCovered, Later, DraftsAreWritten, Document
<1>7. PointerFollows'
  BY <1>1, <1>2 DEF ManifestsInv, PointerFollows
<1> QED BY <1>4, <1>5, <1>6, <1>7 DEF ManifestsInv

\* One that is unlinked has as many later than itself as any of those before it need.
LEMMA UnlinkOneKeeps ==
    ASSUME ManifestsInv, NEW r \in Runners, NEW i \in cycle[r].doomed, i \in DOMAIN manifests, cycle[r].at = "unlinking",
           manifests' = [j \in DOMAIN manifests \ {i} |-> manifests[j]],
           cycle' = [cycle EXCEPT ![r].doomed = @ \ {i}],
           UNCHANGED <<now, taken, vault, latest, ends>>
    PROVE  ManifestsInv'
<1>1. PICK c : c = [cycle[r] EXCEPT !.doomed = @ \ {i}]
  OBVIOUS
<1>2. CycleTyped(cycle[r])
  BY DEF ManifestsInv, ManifestsTyped
<1>3. cycle' = [cycle EXCEPT ![r] = c]
  BY <1>1
<1>4. /\ DOMAIN c = DOMAIN cycle[r] /\ c.at = "unlinking" /\ c.started = cycle[r].started /\ c.id = cycle[r].id
      /\ c.began = cycle[r].began /\ c.kinds = cycle[r].kinds /\ c.doomed = cycle[r].doomed \ {i}
  BY <1>1, <1>2 DEF CycleTyped
<1>5. cycle'[r] = c /\ DOMAIN cycle' = Runners /\ \A q \in Runners : q # r => cycle'[q] = cycle[q]
  BY <1>3, OthersStay DEF ManifestsInv
<1>6. DOMAIN manifests' = DOMAIN manifests \ {i} /\ \A j \in DOMAIN manifests' : manifests'[j] = manifests[j]
  OBVIOUS
<1>7. CycleTyped(c)
  BY <1>2, <1>4 DEF CycleTyped, Active
<1>8. ManifestsTyped'
  BY <1>3, <1>6, <1>7, TypeStays DEF ManifestsInv, ManifestsTyped
<1>9. IdsAreOnesOwn' /\ ReportIsNetByPath'
  BY <1>3, <1>4, IdsStay, NetStays DEF Active
<1>10. DoomedAreCovered'
  <2> SUFFICES ASSUME NEW q \in Runners, NEW k \in cycle'[q].doomed PROVE Cardinality(Later(k)') >= Retain
    BY DEF DoomedAreCovered
  <2>1. k \in cycle[q].doomed /\ Cardinality(Later(k)) >= Retain /\ k \in IdType
    BY <1>4, <1>5 DEF ManifestsInv, ManifestsTyped, CycleTyped, DoomedAreCovered
  <2>2. i \in IdType /\ Cardinality(Later(i)) >= Retain
    BY <1>2 DEF ManifestsInv, CycleTyped, DoomedAreCovered
  <2>3. Later(k)' = Later(k) \ {i}
    BY <1>6 DEF Later
  <2>4. IsFiniteSet(Later(k)') /\ Cardinality(Later(k)') \in Nat
    BY <2>3, LaterFacts, FS_Subset, FS_CardinalityType DEF ManifestsInv
  <2>5. CASE i \notin Later(k)
    <3>1. Later(k)' = Later(k)
      BY <2>3, <2>5
    <3> QED BY <2>1, <3>1
  <2>6. CASE i \in Later(k)
    <3>1. \A j \in DOMAIN manifests : j \in IdType
      BY DEF ManifestsInv, ManifestsTyped
    <3>2. Later(i) \subseteq Later(k)'
      BY <2>1, <2>2, <2>3, <2>6, <3>1, BeforeFacts DEF Later
    <3>3. Cardinality(Later(i)) <= Cardinality(Later(k)')
      BY <2>4, <3>2, FS_Subset
    <3> QED BY <2>2, <2>4, <3>3, LaterFacts, ManifestsAssumption DEF ManifestsInv
  <2> QED BY <2>5, <2>6
<1>11. DraftsAreWritten' /\ PointerFollows'
  BY <1>4, <1>5, <1>6 DEF ManifestsInv, DraftsAreWritten, Document, PointerFollows
<1> QED BY <1>8, <1>9, <1>10, <1>11 DEF ManifestsInv

LEMMA ManifestsKeep == ManifestsInv /\ [ManifestsNext]_manifestVars => ManifestsInv'
<1> SUFFICES ASSUME ManifestsInv, [ManifestsNext]_manifestVars PROVE ManifestsInv'
  OBVIOUS
<1>1. CASE UNCHANGED manifestVars \/ Second
  <2>1. UNCHANGED <<taken, vault, cycle, manifests, latest, ends>> /\ now' \in Nat
    BY <1>1 DEF Second, manifestVars, ManifestsInv, ManifestsTyped
  <2> QED BY <2>1 DEF ManifestsInv, ManifestsTyped, CycleTyped, IdsAreOnesOwn, ReportIsNetByPath, DoomedAreCovered, Later,
               DraftsAreWritten, Document, PointerFollows
<1>2. ASSUME NEW r \in Runners, Die(r)
      PROVE  ManifestsInv'
  <2>1. ends' \in Nat \ {0}
    BY <1>2 DEF Die, ManifestsInv, ManifestsTyped
  <2> QED BY <1>2, <2>1, EndKeeps DEF Die
<1>3. ASSUME NEW r \in Runners, Unlink(r)
      PROVE  ManifestsInv'
  BY <1>3, EndKeeps, UnlinkOneKeeps DEF Unlink
<1> QED BY <1>1, <1>2, <1>3, BeginKeeps, ChangeKeeps, NewCycleKeeps, WriteManifestKeeps, WriteLatestKeeps, ListKeeps
     DEF ManifestsNext

LEMMA ManifestsFollow == ManifestsInv => ManifestsAreTrue
<1> SUFFICES ASSUME ManifestsInv PROVE ManifestsAreTrue
  OBVIOUS
<1>1. ReportIsNet
  <2> SUFFICES ASSUME NEW r \in Runners, cycle[r].at # "idle"
               PROVE  LET kinds == cycle[r].kinds
                          Of(kind) == {p \in DOMAIN kinds : kinds[p] = kind}
                      IN  /\ vault[r] = (cycle[r].began \cup Of("added") \cup Of("updated")) \ Of("removed")
                          /\ Of("updated") \subseteq cycle[r].began
    BY DEF ReportIsNet
  <2> DEFINE kinds == cycle[r].kinds
             Of(kind) == {p \in DOMAIN kinds : kinds[p] = kind}
             there == vault[r]
             began == cycle[r].began
  <2>1. DOMAIN kinds \subseteq Files /\ there \subseteq Files /\ began \subseteq Files /\ \A p \in Files : NetOf(there, began, kinds, p)
    BY DEF ManifestsInv, ManifestsTyped, CycleTyped, ReportIsNetByPath
  <2> HIDE DEF kinds, there, began
  <2>2. Of("updated") \subseteq began
    BY <2>1 DEF NetOf
  <2>3. \A p \in Files : p \in there <=> p \in (began \cup Of("added") \cup Of("updated")) \ Of("removed")
    BY <2>1 DEF NetOf
  <2>4. there = (began \cup Of("added") \cup Of("updated")) \ Of("removed")
    BY <2>1, <2>3
  <2> QED BY <2>2, <2>4 DEF kinds, there, began
<1>2. PruneSparesTheNewest
  BY DEF PruneSparesTheNewest, ManifestsInv, DoomedAreCovered
<1>3. PointerIsSettled
  BY DEF PointerIsSettled, ManifestsInv, PointerFollows
<1> QED BY <1>1, <1>2, <1>3 DEF ManifestsAreTrue

-----------------------------------------------------------------------------
(* The two backends.  The tables are what the dictionaries say, entity by     *)
(* entity, edge by edge and text by text: the entities' numbers are what both *)
(* gave out in the same order.  Of the vectors nothing relates the two stores, *)
(* since a refused chunk leaves one behind; each keeps its own in order.      *)

RowOf(id) == [id |-> id, key |-> mem.entities[id].key, perma |-> mem.entities[id].perma, doc |-> mem.entities[id].doc]
TextOf(id) == [rowid |-> id, doc |-> mem.text[id]]

BackendsTyped ==
    /\ DOMAIN sql = {"entity", "relation", "search", "chunks", "embeddings", "next"}
    /\ DOMAIN mem = {"entities", "ids", "edges", "text", "chunks", "next"}
    /\ mem.next \in Nat
    /\ \A id \in DOMAIN mem.entities : id \in Nat /\ id < mem.next /\ mem.entities[id].doc \in Docs
    /\ \A id \in DOMAIN mem.text : mem.text[id] \in Docs
\* The keys and the entities they lead to.
IdsLead ==
    /\ \A k \in DOMAIN mem.ids : mem.ids[k] \in DOMAIN mem.entities /\ mem.entities[mem.ids[k]].key = k
    /\ \A id \in DOMAIN mem.entities : mem.entities[id].key \in DOMAIN mem.ids /\ mem.ids[mem.entities[id].key] = id
\* An entity has an edge for each link of its document, which leads from it.
EdgesLead ==
    /\ DOMAIN mem.edges = DOMAIN mem.entities
    /\ \A id \in DOMAIN mem.entities :
         /\ mem.edges[id] = [i \in DOMAIN mem.entities[id].doc.links |-> mem.edges[id][i]]
         /\ \A i \in DOMAIN mem.entities[id].doc.links :
              /\ mem.edges[id][i] = [from |-> id, to |-> mem.edges[id][i].to, name |-> mem.entities[id].doc.links[i]]
TablesFollow ==
    /\ sql.next = mem.next
    /\ sql.entity = {RowOf(id) : id \in DOMAIN mem.entities}
    /\ sql.relation = UNION {Range(mem.edges[id]) : id \in DOMAIN mem.edges}
    /\ sql.search = {TextOf(id) : id \in DOMAIN mem.text}
ChunksStand(db) ==
    /\ \A c \in db.chunks : c.n \in Nat \ {0} /\ c.entity \in SqlLive /\ Place(c) \in db.embeddings
    /\ \A c, d \in db.chunks : Place(c) = Place(d) => c = d
EntriesStand(m) == \A id \in DOMAIN m.chunks : DOMAIN m.chunks[id] \subseteq Nat \ {0}
VectorsStand == ChunksStand(sql) /\ EntriesStand(mem)

BackendsInv == BackendsTyped /\ IdsLead /\ EdgesLead /\ TablesFollow /\ VectorsStand

LEMMA BackendsStart == BackendsInit => BackendsInv
  BY DEF BackendsInit, BackendsInv, BackendsTyped, IdsLead, EdgesLead, TablesFollow, VectorsStand, ChunksStand, EntriesStand, SqlInit, MemInit, RowOf, TextOf,
         SqlLive

\* The tables, row by row.
LEMMA TableFacts ==
    ASSUME BackendsInv
    PROVE  /\ \A r : r \in sql.entity <=> \E id \in DOMAIN mem.entities : r = RowOf(id)
           /\ \A t : t \in sql.search <=> \E id \in DOMAIN mem.text : t = TextOf(id)
           /\ \A x : x \in sql.relation <=> \E id \in DOMAIN mem.edges : \E i \in DOMAIN mem.edges[id] : x = mem.edges[id][i]
           /\ \A id : RowOf(id).id = id /\ RowOf(id).key = mem.entities[id].key /\ RowOf(id).doc = mem.entities[id].doc
                      /\ RowOf(id).perma = mem.entities[id].perma
           /\ \A id : TextOf(id).rowid = id /\ TextOf(id).doc = mem.text[id]
           /\ SqlLive = DOMAIN mem.entities
<1>1. \A r : r \in sql.entity <=> \E id \in DOMAIN mem.entities : r = RowOf(id)
  BY DEF BackendsInv, TablesFollow
<1>2. \A t : t \in sql.search <=> \E id \in DOMAIN mem.text : t = TextOf(id)
  BY DEF BackendsInv, TablesFollow
<1>3. \A x : x \in sql.relation <=> \E id \in DOMAIN mem.edges : \E i \in DOMAIN mem.edges[id] : x = mem.edges[id][i]
  BY DEF BackendsInv, TablesFollow, Range
<1>4. \A id : RowOf(id).id = id /\ RowOf(id).key = mem.entities[id].key /\ RowOf(id).doc = mem.entities[id].doc
              /\ RowOf(id).perma = mem.entities[id].perma
  BY DEF RowOf
<1>5. \A id : TextOf(id).rowid = id /\ TextOf(id).doc = mem.text[id]
  BY DEF TextOf
<1>6. SqlLive = DOMAIN mem.entities
  BY <1>1, <1>4 DEF SqlLive
<1> QED BY <1>1, <1>2, <1>3, <1>4, <1>5, <1>6

LEMMA LiveFacts == TablesFollow => SqlLive = DOMAIN mem.entities
<1> SUFFICES ASSUME TablesFollow PROVE SqlLive = DOMAIN mem.entities
  OBVIOUS
<1>1. \A r : r \in sql.entity <=> \E id \in DOMAIN mem.entities : r = RowOf(id)
  BY DEF TablesFollow
<1>2. \A id : RowOf(id).id = id
  BY DEF RowOf
<1> QED BY <1>1, <1>2 DEF SqlLive

LEMMA EdgeFacts ==
    ASSUME BackendsInv, NEW id \in DOMAIN mem.entities
    PROVE  /\ id \in DOMAIN mem.edges /\ DOMAIN mem.edges[id] = DOMAIN mem.entities[id].doc.links
           /\ \A i \in DOMAIN mem.edges[id] :
                /\ DOMAIN mem.edges[id][i] = {"from", "to", "name"}
                /\ mem.edges[id][i].from = id /\ mem.edges[id][i].name = mem.entities[id].doc.links[i]
<1>1. /\ id \in DOMAIN mem.edges
      /\ mem.edges[id] = [i \in DOMAIN mem.entities[id].doc.links |-> mem.edges[id][i]]
      /\ \A i \in DOMAIN mem.entities[id].doc.links :
           mem.edges[id][i] = [from |-> id, to |-> mem.edges[id][i].to, name |-> mem.entities[id].doc.links[i]]
  BY DEF BackendsInv, EdgesLead
<1>2. DOMAIN mem.edges[id] = DOMAIN mem.entities[id].doc.links
  BY <1>1
<1>3. ASSUME NEW i \in DOMAIN mem.edges[id]
      PROVE  /\ DOMAIN mem.edges[id][i] = {"from", "to", "name"}
             /\ mem.edges[id][i].from = id /\ mem.edges[id][i].name = mem.entities[id].doc.links[i]
  <2>1. PICK x : x = [from |-> id, to |-> mem.edges[id][i].to, name |-> mem.entities[id].doc.links[i]]
    OBVIOUS
  <2>2. mem.edges[id][i] = x
    BY <1>1, <1>2, <2>1
  <2> QED BY <2>1, <2>2
<1> QED BY <1>1, <1>2, <1>3

LEMMA UpsertKeeps ==
    ASSUME BackendsInv, NEW k \in Keys, NEW d \in Docs, Upsert(k, d)
    PROVE  BackendsInv'
<1>1. PICK e : e = Permalinked(k, d)
  OBVIOUS
<1>2. PICK id : id = IdFor(mem, k)
  OBVIOUS
<1>3. PICK edges : edges = EdgesOf(id, d)
  OBVIOUS
<1>4. e.key = k /\ e.doc = d
  BY <1>1 DEF Permalinked
<1>5. sql' = SqlUpsertOne(sql, e) /\ mem' = PutEntity(mem, e, edges)
  BY <1>1, <1>2, <1>3, <1>4 DEF Upsert, Changing, MemUpsertOne
<1>6. /\ mem'.ids = Assoc(mem.ids, k, id) /\ mem'.entities = Assoc(mem.entities, id, e) /\ mem'.edges = Assoc(mem.edges, id, edges)
      /\ mem'.next = (IF k \in DOMAIN mem.ids THEN mem.next ELSE mem.next + 1)
      /\ mem'.text = mem.text /\ mem'.chunks = mem.chunks /\ DOMAIN mem' = DOMAIN mem
  BY <1>2, <1>4, <1>5 DEF PutEntity, BackendsInv, BackendsTyped
<1>7. /\ DOMAIN mem'.ids = DOMAIN mem.ids \cup {k} /\ mem'.ids[k] = id
      /\ \A q \in DOMAIN mem.ids : q # k => mem'.ids[q] = mem.ids[q]
      /\ DOMAIN mem'.entities = DOMAIN mem.entities \cup {id} /\ mem'.entities[id] = e
      /\ \A i \in DOMAIN mem.entities : i # id => mem'.entities[i] = mem.entities[i]
      /\ DOMAIN mem'.edges = DOMAIN mem.edges \cup {id} /\ mem'.edges[id] = edges
      /\ \A i \in DOMAIN mem.edges : i # id => mem'.edges[i] = mem.edges[i]
  BY <1>6 DEF Assoc
<1>8. /\ k \in DOMAIN mem.ids => id = mem.ids[k] /\ id \in DOMAIN mem.entities /\ mem.entities[id].key = k
      /\ k \notin DOMAIN mem.ids => id = mem.next /\ id \notin DOMAIN mem.entities /\ \A i \in DOMAIN mem.entities : mem.entities[i].key # k
      /\ \A i \in DOMAIN mem.entities : i # id => mem.entities[i].key # k
  BY <1>2 DEF IdFor, BackendsInv, BackendsTyped, IdsLead
<1>9. id \in Nat /\ id < mem'.next /\ mem'.next \in Nat /\ mem.next <= mem'.next
  BY <1>6, <1>8 DEF BackendsInv, BackendsTyped
<1>10. PICK old : old = {r \in sql.entity : r.key = k}
  OBVIOUS
<1>11. /\ k \in DOMAIN mem.ids => old = {RowOf(id)}
       /\ k \notin DOMAIN mem.ids => old = {}
  BY <1>8, <1>10, TableFacts
<1>12. id = IF old = {} THEN sql.next ELSE (CHOOSE r \in old : TRUE).id
  BY <1>8, <1>11, TableFacts DEF BackendsInv, TablesFollow
<1>13. PICK here : here = [id |-> id, key |-> k, perma |-> e.perma, doc |-> d]
  OBVIOUS
<1>14. sql' = [sql EXCEPT !.entity = (@ \ old) \cup {here},
                          !.relation = {r \in @ : r.from # id} \cup {[from |-> id, to |-> Null, name |-> n] : n \in Range(d.links)},
                          !.next = IF old = {} THEN @ + 1 ELSE @]
  BY <1>4, <1>5, <1>10, <1>12, <1>13 DEF SqlUpsertOne
<1>15. /\ sql'.entity = (sql.entity \ old) \cup {here}
       /\ sql'.relation = {r \in sql.relation : r.from # id} \cup {[from |-> id, to |-> Null, name |-> n] : n \in Range(d.links)}
       /\ sql'.next = (IF old = {} THEN sql.next + 1 ELSE sql.next)
       /\ sql'.search = sql.search /\ sql'.chunks = sql.chunks /\ sql'.embeddings = sql.embeddings /\ DOMAIN sql' = DOMAIN sql
  BY <1>14 DEF BackendsInv, BackendsTyped
<1>16. BackendsTyped'
  BY <1>4, <1>6, <1>7, <1>9, <1>15 DEF BackendsInv, BackendsTyped
<1>17. IdsLead'
  BY <1>4, <1>7, <1>8 DEF BackendsInv, IdsLead
<1>18. EdgesLead'
  <2>1. DOMAIN mem'.edges = DOMAIN mem'.entities
    BY <1>7 DEF BackendsInv, EdgesLead
  <2>2. /\ edges = [i \in DOMAIN d.links |-> edges[i]]
        /\ \A i \in DOMAIN d.links : edges[i] = [from |-> id, to |-> edges[i].to, name |-> d.links[i]]
    BY <1>3 DEF EdgesOf, Edge
  <2>3. ASSUME NEW j \in DOMAIN mem'.entities
        PROVE  /\ mem'.edges[j] = [i \in DOMAIN mem'.entities[j].doc.links |-> mem'.edges[j][i]]
               /\ \A i \in DOMAIN mem'.entities[j].doc.links :
                    mem'.edges[j][i] = [from |-> j, to |-> mem'.edges[j][i].to, name |-> mem'.entities[j].doc.links[i]]
    <3>1. CASE j = id
      BY <1>4, <1>7, <2>2, <3>1
    <3>2. CASE j # id
      <4>1. j \in DOMAIN mem.entities /\ j \in DOMAIN mem.edges /\ mem'.edges[j] = mem.edges[j] /\ mem'.entities[j] = mem.entities[j]
        BY <1>7, <2>1, <3>2 DEF BackendsInv, EdgesLead
      <4> QED BY <4>1 DEF BackendsInv, EdgesLead
    <3> QED BY <3>1, <3>2
  <2> QED BY <2>1, <2>3 DEF EdgesLead
<1>19. sql'.next = mem'.next
  BY <1>6, <1>11, <1>15 DEF BackendsInv, TablesFollow
<1>20. sql'.entity = {RowOf(i) : i \in DOMAIN mem.entities}'
  <2>1. RowOf(id)' = here
    BY <1>4, <1>7, <1>13 DEF RowOf
  <2>2. \A i \in DOMAIN mem.entities : i # id => RowOf(i)' = RowOf(i)
    BY <1>7 DEF RowOf
  <2>3. \A r : r \in sql.entity \ old <=> \E i \in DOMAIN mem.entities : i # id /\ r = RowOf(i)
    BY <1>8, <1>10, TableFacts
  <2>4. \A r : r \in sql'.entity <=> \E i \in DOMAIN mem'.entities : r = RowOf(i)'
    BY <1>7, <1>15, <2>1, <2>2, <2>3
  <2> QED BY <2>4
<1>21. sql'.relation = UNION {Range(mem'.edges[i]) : i \in DOMAIN mem'.edges}
  <2>1. Range(edges) = {[from |-> id, to |-> Null, name |-> n] : n \in Range(d.links)}
    BY <1>3 DEF Range, EdgesOf, Edge
  <2>2. \A x : x \in sql.relation /\ x.from # id <=> \E i \in DOMAIN mem.edges : i # id /\ x \in Range(mem.edges[i])
    BY TableFacts, EdgeFacts DEF Range, BackendsInv, EdgesLead
  <2>3. \A x : x \in sql'.relation <=> \E i \in DOMAIN mem'.edges : x \in Range(mem'.edges[i])
    BY <1>7, <1>15, <2>1, <2>2
  <2> QED BY <2>3
<1>22. TablesFollow'
  <2>1. sql'.search = {TextOf(i) : i \in DOMAIN mem.text}'
    BY <1>6, <1>15 DEF TextOf, BackendsInv, TablesFollow
  <2> QED BY <1>19, <1>20, <1>21, <2>1 DEF TablesFollow
<1>23. VectorsStand'
  <2> (SqlLive = DOMAIN mem.entities)'
    BY <1>22, LiveFacts, PTL
  <2>1. SqlLive' = DOMAIN mem'.entities
    OBVIOUS
  <2>2. SqlLive = DOMAIN mem.entities /\ SqlLive \subseteq SqlLive'
    BY <1>7, <2>1, TableFacts
  <2> QED BY <1>6, <1>15, <2>2 DEF BackendsInv, VectorsStand, ChunksStand, EntriesStand, Place
<1> QED BY <1>16, <1>17, <1>18, <1>22, <1>23 DEF BackendsInv

LEMMA DeleteKeeps ==
    ASSUME BackendsInv, NEW keys \in SUBSET Keys, Delete(keys)
    PROVE  BackendsInv'
<1> DEFINE ids == {mem.ids[k] : k \in keys \cap DOMAIN mem.ids}
<1>1. ids = {mem.ids[k] : k \in keys \cap DOMAIN mem.ids}
  OBVIOUS
<1>2. \A id \in DOMAIN mem.entities : id \in ids <=> mem.entities[id].key \in keys
  BY <1>1 DEF BackendsInv, IdsLead
<1>3. ids = {r.id : r \in {x \in sql.entity : x.key \in keys}}
  <2>1. \A id : id \in ids => id \in DOMAIN mem.entities
    BY <1>1 DEF BackendsInv, IdsLead
  <2>2. \A id : id \in ids <=> \E r \in sql.entity : r.key \in keys /\ r.id = id
    BY <1>2, <2>1, TableFacts
  <2> QED BY <2>2
<1>4. /\ mem'.ids = Dropped(mem.ids, keys) /\ mem'.entities = Dropped(mem.entities, ids)
      /\ mem'.edges = [id \in DOMAIN mem.edges \ ids |-> [i \in DOMAIN mem.edges[id] |-> Cut(mem.edges[id][i], ids)]]
      /\ mem'.text = mem.text /\ mem'.chunks = mem.chunks /\ mem'.next = mem.next /\ DOMAIN mem' = DOMAIN mem
  <2>1. mem' = [mem EXCEPT !.ids = Dropped(@, keys), !.entities = Dropped(@, ids),
                           !.edges = [id \in DOMAIN @ \ ids |-> [i \in DOMAIN @[id] |-> Cut(@[id][i], ids)]]]
    BY DEF Delete, Changing, MemDelete
  <2> HIDE DEF ids
  <2> QED BY <2>1 DEF BackendsInv, BackendsTyped
<1>5. sql' = [sql EXCEPT !.entity = {r \in @ : r.id \notin ids},
                         !.relation = {Cut(r, ids) : r \in {x \in @ : x.from \notin ids}},
                         !.chunks = {c \in @ : c.entity \notin ids}]
  BY <1>3 DEF Delete, Changing, SqlDelete
<1> HIDE DEF ids
<1>6. /\ sql'.entity = {r \in sql.entity : r.id \notin ids}
      /\ sql'.relation = {Cut(r, ids) : r \in {x \in sql.relation : x.from \notin ids}}
      /\ sql'.chunks = {c \in sql.chunks : c.entity \notin ids}
      /\ sql'.search = sql.search /\ sql'.embeddings = sql.embeddings /\ sql'.next = sql.next /\ DOMAIN sql' = DOMAIN sql
  BY <1>5 DEF BackendsInv, BackendsTyped
<1>7. /\ DOMAIN mem'.ids = DOMAIN mem.ids \ keys /\ \A k \in DOMAIN mem'.ids : mem'.ids[k] = mem.ids[k]
      /\ DOMAIN mem'.entities = DOMAIN mem.entities \ ids
      /\ \A id \in DOMAIN mem'.entities : mem'.entities[id] = mem.entities[id]
      /\ DOMAIN mem'.edges = DOMAIN mem.edges \ ids
  BY <1>4 DEF Dropped
<1>8. BackendsTyped'
  BY <1>4, <1>6, <1>7 DEF BackendsInv, BackendsTyped
<1>9. IdsLead'
  BY <1>2, <1>7 DEF BackendsInv, IdsLead
<1>10. \A id \in DOMAIN mem'.edges :
          /\ DOMAIN mem'.edges[id] = DOMAIN mem.edges[id]
          /\ \A i \in DOMAIN mem.edges[id] : mem'.edges[id][i] = Cut(mem.edges[id][i], ids)
  <2>1. mem'.edges = [id \in DOMAIN mem.edges \ ids |-> [i \in DOMAIN mem.edges[id] |-> Cut(mem.edges[id][i], ids)]]
    BY <1>4
  <2>2. \A id \in DOMAIN mem'.edges : mem'.edges[id] = [i \in DOMAIN mem.edges[id] |-> Cut(mem.edges[id][i], ids)]
    BY <2>1
  <2>3. ASSUME NEW id \in DOMAIN mem'.edges
        PROVE  /\ DOMAIN mem'.edges[id] = DOMAIN mem.edges[id]
               /\ \A i \in DOMAIN mem.edges[id] : mem'.edges[id][i] = Cut(mem.edges[id][i], ids)
    BY <2>2
  <2> QED BY <2>3
<1>11. EdgesLead'
  <2>1. DOMAIN mem'.edges = DOMAIN mem'.entities
    BY <1>7 DEF BackendsInv, EdgesLead
  <2>2. ASSUME NEW id \in DOMAIN mem'.entities
        PROVE  /\ mem'.edges[id] = [i \in DOMAIN mem'.entities[id].doc.links |-> mem'.edges[id][i]]
               /\ \A i \in DOMAIN mem'.entities[id].doc.links :
                    mem'.edges[id][i] = [from |-> id, to |-> mem'.edges[id][i].to, name |-> mem'.entities[id].doc.links[i]]
    <3>1. id \in DOMAIN mem.entities /\ mem'.entities[id] = mem.entities[id] /\ id \in DOMAIN mem'.edges
      BY <1>7, <2>1
    <3>2. DOMAIN mem'.edges[id] = DOMAIN mem'.entities[id].doc.links
      BY <1>10, <3>1, EdgeFacts
    <3>3. ASSUME NEW i \in DOMAIN mem'.edges[id]
          PROVE  mem'.edges[id][i] = [from |-> id, to |-> mem'.edges[id][i].to, name |-> mem'.entities[id].doc.links[i]]
      <4>1. i \in DOMAIN mem.edges[id] /\ i \in DOMAIN mem.entities[id].doc.links
        BY <1>10, <3>1, <3>2, <3>3
      <4>2. PICK to : to = IF mem.edges[id][i].to \in ids THEN Null ELSE mem.edges[id][i].to
        OBVIOUS
      <4>3. mem'.edges[id][i] = [mem.edges[id][i] EXCEPT !.to = to]
        BY <1>10, <3>1, <4>1, <4>2 DEF Cut
      <4>4. mem.edges[id][i] = [from |-> id, to |-> mem.edges[id][i].to, name |-> mem.entities[id].doc.links[i]]
        BY <3>1, <4>1 DEF BackendsInv, EdgesLead
      <4>5. mem'.edges[id][i] = [from |-> id, to |-> to, name |-> mem.entities[id].doc.links[i]]
        BY <4>3, <4>4
      <4> QED BY <3>1, <4>5
    <3>4. mem'.edges[id] = [i \in DOMAIN mem.edges[id] |-> Cut(mem.edges[id][i], ids)]
      BY <1>4, <1>7, <3>1
    <3>5. mem'.edges[id] = [i \in DOMAIN mem'.edges[id] |-> mem'.edges[id][i]]
      <4> QED BY <3>4
    <3> QED BY <3>2, <3>3, <3>5
  <2> QED BY <2>1, <2>2 DEF EdgesLead
<1>12. sql'.entity = {RowOf(i) : i \in DOMAIN mem.entities}'
  <2>1. \A i \in DOMAIN mem'.entities : RowOf(i)' = RowOf(i)
    BY <1>7 DEF RowOf
  <2>2. \A r : r \in sql'.entity <=> \E i \in DOMAIN mem'.entities : r = RowOf(i)
    BY <1>6, <1>7, TableFacts
  <2> QED BY <2>1, <2>2
<1>13. sql'.relation = UNION {Range(mem'.edges[i]) : i \in DOMAIN mem'.edges}
  <2>1. \A x : x \in sql.relation /\ x.from \notin ids <=>
               \E id \in DOMAIN mem'.edges : \E i \in DOMAIN mem.edges[id] : x = mem.edges[id][i]
    <3>1. DOMAIN mem.edges = DOMAIN mem.entities
      BY DEF BackendsInv, EdgesLead
    <3> QED BY <1>7, <3>1, TableFacts, EdgeFacts
  <2>2. \A y : y \in sql'.relation <=>
               \E id \in DOMAIN mem'.edges : \E i \in DOMAIN mem.edges[id] :
                  y = Cut(mem.edges[id][i], ids)
    <3>1. sql'.relation = {Cut(r, ids) : r \in {x \in sql.relation : x.from \notin ids}}
      BY <1>6
    <3> QED BY <2>1, <3>1
  <2>3. \A y : y \in sql'.relation <=> \E id \in DOMAIN mem'.edges : \E i \in DOMAIN mem'.edges[id] : y = mem'.edges[id][i]
    <3> QED BY <1>7, <1>10, <2>2
  <2> QED BY <2>3 DEF Range
<1>14. TablesFollow'
  <2>1. sql'.search = {TextOf(i) : i \in DOMAIN mem.text}'
    BY <1>4, <1>6 DEF TextOf, BackendsInv, TablesFollow
  <2>2. sql'.next = mem'.next
    BY <1>4, <1>6 DEF BackendsInv, TablesFollow
  <2> QED BY <1>12, <1>13, <2>1, <2>2 DEF TablesFollow
<1>15. VectorsStand'
  <2> (SqlLive = DOMAIN mem.entities)'
    BY <1>14, LiveFacts, PTL
  <2>1. SqlLive' = DOMAIN mem'.entities
    OBVIOUS
  <2>2. \A c \in sql'.chunks : c.entity \in SqlLive'
    BY <1>6, <1>7, <2>1, TableFacts DEF BackendsInv, VectorsStand, ChunksStand, EntriesStand
  <2> QED BY <1>4, <1>6, <2>2 DEF BackendsInv, VectorsStand, ChunksStand, EntriesStand, Place
<1> QED BY <1>8, <1>9, <1>11, <1>14, <1>15 DEF BackendsInv

\* A relation is resolved by the entities that bear its name: the same ones, and
\* the first of them, in both.
LEMMA ResolveKeeps ==
    ASSUME BackendsInv, Resolve
    PROVE  BackendsInv'
<1> DEFINE bears(id) == {mem.entities[id].doc.title, mem.entities[id].perma} \cup Range(mem.entities[id].doc.aliases)
           names == UNION {bears(id) : id \in DOMAIN mem.entities}
           bearers(n) == {id \in DOMAIN mem.entities : n \in bears(id)}
           lookup == [n \in names |-> Min(bearers(n))]
           led(x) == IF x.to # Null \/ x.name \notin DOMAIN lookup THEN x ELSE [x EXCEPT !.to = lookup[x.name]]
           hits(n) == {r.id : r \in {x \in sql.entity : x.doc.title = n \/ x.perma = n \/ n \in Range(x.doc.aliases)}}
           resolved(x) == IF x.to # Null \/ hits(x.name) = {} THEN x ELSE [x EXCEPT !.to = Min(hits(x.name))]
<1>1. /\ mem'.edges = [id \in DOMAIN mem.edges |-> [i \in DOMAIN mem.edges[id] |-> led(mem.edges[id][i])]]
      /\ mem'.ids = mem.ids /\ mem'.entities = mem.entities /\ mem'.text = mem.text /\ mem'.chunks = mem.chunks
      /\ mem'.next = mem.next /\ DOMAIN mem' = DOMAIN mem
  BY DEF Resolve, Deriving, MemResolve, BackendsInv, BackendsTyped
<1>2. /\ sql'.relation = {resolved(r) : r \in sql.relation}
      /\ sql'.entity = sql.entity /\ sql'.search = sql.search /\ sql'.chunks = sql.chunks /\ sql'.embeddings = sql.embeddings
      /\ sql'.next = sql.next /\ DOMAIN sql' = DOMAIN sql
  BY DEF Resolve, Deriving, SqlResolve, BackendsInv, BackendsTyped
<1>3. \A n : hits(n) = bearers(n)
  BY TableFacts
<1>4. \A n : n \in DOMAIN lookup <=> hits(n) # {}
  <2>1. DOMAIN lookup = names
    OBVIOUS
  <2>2. \A n : n \in names <=> \E id \in DOMAIN mem.entities : n \in bears(id)
    OBVIOUS
  <2>3. \A n : bearers(n) # {} <=> \E id \in DOMAIN mem.entities : n \in bears(id)
    OBVIOUS
  <2> HIDE DEF lookup, names, bearers, bears, hits
  <2> QED BY <1>3, <2>1, <2>2, <2>3
<1>5. \A n \in DOMAIN lookup : lookup[n] = Min(hits(n))
  BY <1>3
<1> HIDE DEF lookup, hits
<1>6. ASSUME NEW id \in DOMAIN mem.entities, NEW i \in DOMAIN mem.edges[id]
      PROVE  /\ resolved(mem.edges[id][i]) = led(mem.edges[id][i])
             /\ led(mem.edges[id][i]) = [from |-> id, to |-> led(mem.edges[id][i]).to, name |-> mem.entities[id].doc.links[i]]
  <2>1. PICK to, name : to = mem.edges[id][i].to /\ name = mem.entities[id].doc.links[i]
    OBVIOUS
  <2>2. PICK x : x = [from |-> id, to |-> to, name |-> name]
    OBVIOUS
  <2>3. mem.edges[id][i] = x
    <3>1. i \in DOMAIN mem.entities[id].doc.links
      BY EdgeFacts
    <3> QED BY <2>1, <2>2, <3>1 DEF BackendsInv, EdgesLead
  <2>4. CASE to # Null \/ hits(name) = {}
    <3>1. resolved(x) = x /\ led(x) = x
      BY <1>4, <2>2, <2>4
    <3> QED BY <2>1, <2>2, <2>3, <3>1
  <2>5. CASE ~(to # Null \/ hits(name) = {})
    <3>1. resolved(x) = [x EXCEPT !.to = Min(hits(name))] /\ led(x) = [x EXCEPT !.to = Min(hits(name))]
      BY <1>4, <1>5, <2>2, <2>5
    <3>2. [x EXCEPT !.to = Min(hits(name))] = [from |-> id, to |-> Min(hits(name)), name |-> name]
      BY <2>2
    <3> QED BY <2>1, <2>3, <3>1, <3>2
  <2> QED BY <2>4, <2>5
<1> HIDE DEF led, resolved
<1>7. DOMAIN mem.edges = DOMAIN mem.entities
  BY DEF BackendsInv, EdgesLead
<1>8. /\ DOMAIN mem'.edges = DOMAIN mem.edges
      /\ \A id \in DOMAIN mem.edges :
           /\ DOMAIN mem'.edges[id] = DOMAIN mem.edges[id]
           /\ \A i \in DOMAIN mem.edges[id] : mem'.edges[id][i] = led(mem.edges[id][i])
  <2>1. \A id \in DOMAIN mem.edges : mem'.edges[id] = [i \in DOMAIN mem.edges[id] |-> led(mem.edges[id][i])]
    BY <1>1
  <2>2. ASSUME NEW id \in DOMAIN mem.edges
        PROVE  /\ DOMAIN mem'.edges[id] = DOMAIN mem.edges[id]
               /\ \A i \in DOMAIN mem.edges[id] : mem'.edges[id][i] = led(mem.edges[id][i])
    BY <2>1
  <2> QED BY <1>1, <2>2
<1>9. EdgesLead'
  <2>1. DOMAIN mem'.edges = DOMAIN mem'.entities
    BY <1>1, <1>7, <1>8
  <2>2. ASSUME NEW id \in DOMAIN mem'.entities
        PROVE  /\ mem'.edges[id] = [i \in DOMAIN mem'.entities[id].doc.links |-> mem'.edges[id][i]]
               /\ \A i \in DOMAIN mem'.entities[id].doc.links :
                    mem'.edges[id][i] = [from |-> id, to |-> mem'.edges[id][i].to, name |-> mem'.entities[id].doc.links[i]]
    <3>1. id \in DOMAIN mem.entities /\ id \in DOMAIN mem.edges /\ mem'.entities = mem.entities
          /\ DOMAIN mem'.edges[id] = DOMAIN mem.entities[id].doc.links /\ DOMAIN mem.edges[id] = DOMAIN mem.entities[id].doc.links
      BY <1>1, <1>7, <1>8, EdgeFacts
    <3>2. \A i \in DOMAIN mem.edges[id] :
             mem'.edges[id][i] = [from |-> id, to |-> mem'.edges[id][i].to, name |-> mem.entities[id].doc.links[i]]
      BY <1>6, <1>8, <3>1
    <3>3. mem'.edges[id] = [i \in DOMAIN mem.edges[id] |-> led(mem.edges[id][i])]
      BY <1>1, <3>1
    <3>4. mem'.edges[id] = [i \in DOMAIN mem'.edges[id] |-> mem'.edges[id][i]]
      BY <3>3
    <3> QED BY <3>1, <3>2, <3>4
  <2> QED BY <2>1, <2>2 DEF EdgesLead
<1>10. sql'.relation = UNION {Range(mem'.edges[i]) : i \in DOMAIN mem'.edges}
  <2>1. \A y : y \in sql'.relation <=> \E id \in DOMAIN mem.edges : \E i \in DOMAIN mem.edges[id] : y = resolved(mem.edges[id][i])
    BY <1>2, TableFacts
  <2>2. \A y : y \in sql'.relation <=> \E id \in DOMAIN mem'.edges : \E i \in DOMAIN mem'.edges[id] : y = mem'.edges[id][i]
    <3>1. \A id \in DOMAIN mem.edges : \A i \in DOMAIN mem.edges[id] : mem'.edges[id][i] = resolved(mem.edges[id][i])
      BY <1>6, <1>7, <1>8
    <3>2. DOMAIN mem'.edges = DOMAIN mem.edges /\ \A id \in DOMAIN mem.edges : DOMAIN mem'.edges[id] = DOMAIN mem.edges[id]
      BY <1>8
    <3> QED BY <2>1, <3>1, <3>2
  <2> QED BY <2>2 DEF Range
<1>11. TablesFollow'
  <2>1. /\ sql'.entity = {RowOf(i) : i \in DOMAIN mem.entities}'
        /\ sql'.search = {TextOf(i) : i \in DOMAIN mem.text}'
    BY <1>1, <1>2 DEF TablesFollow, BackendsInv, RowOf, TextOf
  <2> QED BY <1>1, <1>2, <1>10, <2>1 DEF TablesFollow, BackendsInv
<1>12. BackendsTyped' /\ IdsLead' /\ VectorsStand'
  BY <1>1, <1>2 DEF BackendsInv, BackendsTyped, IdsLead, VectorsStand, ChunksStand, EntriesStand, SqlLive, Place
<1> QED BY <1>9, <1>11, <1>12 DEF BackendsInv

LEMMA RebuildKeeps ==
    ASSUME BackendsInv, Rebuild
    PROVE  BackendsInv'
<1>1. /\ mem'.text = [id \in DOMAIN mem.entities |-> mem.entities[id].doc]
      /\ mem'.ids = mem.ids /\ mem'.entities = mem.entities /\ mem'.edges = mem.edges /\ mem'.chunks = mem.chunks
      /\ mem'.next = mem.next /\ DOMAIN mem' = DOMAIN mem
  BY DEF Rebuild, Deriving, MemRebuild, BackendsInv, BackendsTyped
<1>2. /\ sql'.search = {[rowid |-> r.id, doc |-> r.doc] : r \in sql.entity}
      /\ sql'.entity = sql.entity /\ sql'.relation = sql.relation /\ sql'.chunks = sql.chunks
      /\ sql'.embeddings = sql.embeddings /\ sql'.next = sql.next /\ DOMAIN sql' = DOMAIN sql
  BY DEF Rebuild, Deriving, SqlRebuild, BackendsInv, BackendsTyped
<1>3. sql'.search = {TextOf(id) : id \in DOMAIN mem.text}'
  <2>1. \A id \in DOMAIN mem.entities : TextOf(id)' = [rowid |-> id, doc |-> mem.entities[id].doc]
    BY <1>1 DEF TextOf
  <2>2. \A t : t \in sql'.search <=> \E id \in DOMAIN mem.entities : t = [rowid |-> id, doc |-> mem.entities[id].doc]
    BY <1>2, TableFacts
  <2> QED BY <1>1, <2>1, <2>2
<1>4. TablesFollow'
  BY <1>1, <1>2, <1>3 DEF TablesFollow, BackendsInv, RowOf
<1>5. BackendsTyped' /\ IdsLead' /\ EdgesLead' /\ VectorsStand'
  BY <1>1, <1>2 DEF BackendsInv, BackendsTyped, IdsLead, EdgesLead, VectorsStand, ChunksStand, EntriesStand, SqlLive, Place
<1> QED BY <1>4, <1>5 DEF BackendsInv

\* The chunks of the texts: one of each number up to the last, for each text.
LEMMA ChunkFacts ==
    ASSUME BackendsInv
    PROVE  /\ \A c : c \in Chunks(sql.search) <=>
                 \E id \in DOMAIN mem.text : \E i \in DOMAIN mem.text[id].parts :
                    c = [entity |-> id, n |-> i, text |-> mem.text[id].parts[i]]
           /\ \A id \in DOMAIN mem.text : Len(mem.text[id].parts) \in Nat /\ DOMAIN mem.text[id].parts = 1..Len(mem.text[id].parts)
           /\ \A c \in Chunks(sql.search) : c.n \in Nat \ {0}
           /\ \A c, d \in Chunks(sql.search) : Place(c) = Place(d) => c = d
           /\ \A c : c.n \in Nat \ {0} =>
                ((\E t \in sql.search : t.rowid = c.entity /\ c.n <= Len(t.doc.parts))
                    <=> \E d \in Chunks(sql.search) : Place(d) = Place(c))
<1> DEFINE chunk(id, i) == [entity |-> id, n |-> i, text |-> mem.text[id].parts[i]]
<1>1. \A c : c \in Chunks(sql.search) <=> \E id \in DOMAIN mem.text : \E i \in DOMAIN mem.text[id].parts : c = chunk(id, i)
  <2>1. \A c : c \in Chunks(sql.search) <=>
           \E t \in sql.search : \E i \in DOMAIN t.doc.parts : c = [entity |-> t.rowid, n |-> i, text |-> t.doc.parts[i]]
    BY DEF Chunks
  <2> QED BY <2>1, TableFacts
<1>2. \A id \in DOMAIN mem.text : Len(mem.text[id].parts) \in Nat /\ DOMAIN mem.text[id].parts = 1..Len(mem.text[id].parts)
  <2>1. \A id \in DOMAIN mem.text : mem.text[id].parts \in Seq(STRING)
    BY DocsAssumption DEF BackendsInv, BackendsTyped
  <2> QED BY <2>1
<1>3. \A id, i : chunk(id, i).entity = id /\ chunk(id, i).n = i /\ Place(chunk(id, i)) = <<id, i>>
  BY DEF Place
<1> HIDE DEF chunk
<1>4. \A c \in Chunks(sql.search) : c.n \in Nat \ {0}
  BY <1>1, <1>2, <1>3
<1>5. \A c, d \in Chunks(sql.search) : Place(c) = Place(d) => c = d
  BY <1>1, <1>3
<1>6. ASSUME NEW c, c.n \in Nat \ {0}
      PROVE  (\E t \in sql.search : t.rowid = c.entity /\ c.n <= Len(t.doc.parts))
                <=> \E d \in Chunks(sql.search) : Place(d) = Place(c)
  <2>1. (\E t \in sql.search : t.rowid = c.entity /\ c.n <= Len(t.doc.parts))
           <=> (c.entity \in DOMAIN mem.text /\ c.n <= Len(mem.text[c.entity].parts))
    BY TableFacts
  <2>2. (\E d \in Chunks(sql.search) : Place(d) = Place(c))
           <=> (c.entity \in DOMAIN mem.text /\ c.n \in DOMAIN mem.text[c.entity].parts)
    BY <1>1, <1>3 DEF Place
  <2> QED BY <1>2, <1>6, <2>1, <2>2
<1> QED BY <1>1, <1>2, <1>4, <1>5, <1>6 DEF chunk

\* What write_chunks leaves, whichever of the missing it was given.
LEMMA WritesStand ==
    ASSUME BackendsInv, NEW s, ChunksStand(s), s.search = sql.search, s.entity = sql.entity, DOMAIN s = DOMAIN sql,
           NEW w \in SUBSET (Missing(s) \ Homeless(s))
    PROVE  /\ ChunksStand(SqlWrite(s, w))
           /\ SqlWrite(s, w).chunks = {c \in s.chunks : \A d \in w : Place(d) # Place(c)} \cup w
           /\ SqlWrite(s, w).embeddings = s.embeddings \cup {Place(d) : d \in w}
<1>1. PICK t : t = SqlWrite(s, w)
  OBVIOUS
<1>2. /\ t.chunks = {c \in s.chunks : \A d \in w : Place(d) # Place(c)} \cup w
      /\ t.embeddings = s.embeddings \cup {Place(d) : d \in w}
  BY <1>1 DEF SqlWrite, BackendsInv, BackendsTyped
<1>3. \A c \in w : c \in Chunks(sql.search) /\ c.n \in Nat \ {0} /\ c.entity \in SqlLive
  BY ChunkFacts DEF Missing, Homeless, SqlLive
<1>4. \A c, d \in w : Place(c) = Place(d) => c = d
  BY <1>3, ChunkFacts
<1>5. ChunksStand(t)
  BY <1>2, <1>3, <1>4 DEF ChunksStand
<1> QED BY <1>1, <1>2, <1>5

\* A sync that is not refused leaves the chunks of the texts, whatever there was.
LEMMA SyncLeavesTheTexts ==
    ASSUME BackendsInv, NEW s, ChunksStand(s), s.search = sql.search, s.entity = sql.entity, DOMAIN s = DOMAIN sql, Homeless(s) = {},
           NEW t, t = SqlPruneVectors(SqlWrite(s, Missing(s)))
    PROVE  /\ t.chunks = Chunks(sql.search) /\ t.embeddings = {Place(c) : c \in t.chunks}
           /\ ChunksStand(t)
<1>1. PICK u : u = SqlWrite(s, Missing(s))
  OBVIOUS
<1>2. /\ ChunksStand(u) /\ u.search = sql.search /\ DOMAIN u = DOMAIN sql
      /\ u.chunks = {c \in s.chunks : \A d \in Missing(s) : Place(d) # Place(c)} \cup Missing(s)
  <2>1. Missing(s) \in SUBSET (Missing(s) \ Homeless(s))
    OBVIOUS
  <2>2. u.search = sql.search /\ DOMAIN u = DOMAIN sql
    BY <1>1 DEF SqlWrite, BackendsInv, BackendsTyped
  <2> QED BY <1>1, <2>1, <2>2, WritesStand
<1>3. t.chunks = Kept(u) /\ t.embeddings = u.embeddings \cap {Place(c) : c \in Kept(u)}
  BY <1>1, <1>2 DEF SqlPruneVectors, BackendsInv, BackendsTyped
<1>4. \A c : c \in Kept(u) <=> c \in u.chunks /\ \E d \in Chunks(sql.search) : Place(d) = Place(c)
  BY <1>2, ChunkFacts DEF Kept, ChunksStand
<1>5. Missing(s) = Chunks(sql.search) \ s.chunks
  BY DEF Missing
<1>6. Kept(u) = Chunks(sql.search)
  <2>1. ASSUME NEW c \in Chunks(sql.search) PROVE c \in Kept(u)
    <3>1. CASE c \in s.chunks
      BY <1>2, <1>4, <1>5, <3>1, ChunkFacts
    <3>2. CASE c \notin s.chunks
      BY <1>2, <1>4, <1>5, <3>2
    <3> QED BY <3>1, <3>2
  <2>2. ASSUME NEW c \in Kept(u) PROVE c \in Chunks(sql.search)
    <3>1. CASE c \in Missing(s)
      BY <1>5, <3>1
    <3>2. CASE c \notin Missing(s)
      <4>1. c \in s.chunks /\ \A d \in Missing(s) : Place(d) # Place(c)
        BY <1>2, <1>4, <3>2
      <4>2. PICK d \in Chunks(sql.search) : Place(d) = Place(c)
        BY <1>4
      <4>3. d \in s.chunks
        BY <1>5, <4>1, <4>2
      <4> QED BY <4>1, <4>2, <4>3 DEF ChunksStand
    <3> QED BY <3>1, <3>2
  <2> QED BY <2>1, <2>2
<1>7. \A c \in Kept(u) : c \in u.chunks /\ Place(c) \in u.embeddings
  BY <1>2, <1>4 DEF ChunksStand
<1>8. t.embeddings = {Place(c) : c \in t.chunks}
  BY <1>3, <1>7
<1>9. ChunksStand(t)
  BY <1>2, <1>3, <1>7, <1>8 DEF ChunksStand
<1> QED BY <1>3, <1>6, <1>8, <1>9

LEMMA EntriesAreTheTexts ==
    ASSUME BackendsInv, NEW m, EntriesStand(m), m.text = mem.text, DOMAIN m = DOMAIN mem,
           NEW p, p = MemPruneVectors(MemWrite(m))
    PROVE  MemChunks(p) = Chunks(sql.search) /\ EntriesStand(p)
<1>1. PICK texts, olds : texts = mem.text /\ olds = m.chunks
  OBVIOUS
<1> DEFINE old(id) == IF id \in DOMAIN olds THEN olds[id] ELSE <<>>
           new(id) == IF id \in DOMAIN texts THEN texts[id].parts ELSE <<>>
           entry(id) == [i \in DOMAIN old(id) \cup DOMAIN new(id) |-> IF i \in DOMAIN new(id) THEN new(id)[i] ELSE old(id)[i]]
<1>2. PICK u : u = MemWrite(m)
  OBVIOUS
<1>3. u.chunks = [id \in DOMAIN olds \cup DOMAIN texts |-> entry(id)] /\ u.text = texts /\ DOMAIN u = DOMAIN mem
  BY <1>1, <1>2 DEF MemWrite, BackendsInv, BackendsTyped
<1>4. p.chunks = [id \in DOMAIN u.chunks \cap DOMAIN u.text |->
                     [i \in {n \in DOMAIN u.chunks[id] : n <= Len(u.text[id].parts)} |-> u.chunks[id][i]]]
  BY <1>2, <1>3 DEF MemPruneVectors, BackendsInv, BackendsTyped
<1>5. DOMAIN p.chunks = DOMAIN texts
  BY <1>3, <1>4
<1>6. ASSUME NEW id \in DOMAIN texts
      PROVE  /\ DOMAIN p.chunks[id] = DOMAIN texts[id].parts
             /\ \A i \in DOMAIN texts[id].parts : p.chunks[id][i] = texts[id].parts[i]
  <2>1. PICK parts : parts = texts[id].parts
    OBVIOUS
  <2>2. Len(parts) \in Nat /\ DOMAIN parts = 1..Len(parts)
    BY <1>1, <2>1, ChunkFacts
  <2>3. DOMAIN old(id) \subseteq Nat \ {0}
    BY <1>1 DEF EntriesStand
  <2>4. u.chunks[id] = entry(id)
    <3> HIDE DEF entry
    <3> QED BY <1>3
  <2>5. DOMAIN u.chunks[id] = DOMAIN old(id) \cup DOMAIN parts /\ \A i \in DOMAIN parts : u.chunks[id][i] = parts[i]
    BY <2>1, <2>4
  <2>6. p.chunks[id] = [i \in {n \in DOMAIN u.chunks[id] : n <= Len(parts)} |-> u.chunks[id][i]]
    BY <1>3, <1>4, <2>1
  <2>7. {n \in DOMAIN u.chunks[id] : n <= Len(parts)} = DOMAIN parts
    BY <2>2, <2>3, <2>5
  <2>8. DOMAIN p.chunks[id] = DOMAIN parts /\ \A i \in DOMAIN parts : p.chunks[id][i] = parts[i]
    BY <2>5, <2>6, <2>7
  <2> QED BY <2>1, <2>8
<1>7. EntriesStand(p)
  BY <1>1, <1>5, <1>6, ChunkFacts DEF EntriesStand
<1>8. \A c : c \in MemChunks(p) <=> \E id \in DOMAIN p.chunks : \E i \in DOMAIN p.chunks[id] :
                                       c = [entity |-> id, n |-> i, text |-> p.chunks[id][i]]
  BY DEF MemChunks
<1>9. \A c : c \in MemChunks(p) <=> c \in Chunks(sql.search)
  BY <1>1, <1>5, <1>6, <1>8, ChunkFacts
<1> QED BY <1>7, <1>9

LEMMA SyncFacts ==
    ASSUME BackendsInv, NEW full \in BOOLEAN, SyncVectors(full)
    PROVE  /\ ChunksStand(sql') /\ EntriesStand(mem')
           /\ Homeless(IF full THEN SqlClear(sql) ELSE sql) = {} =>
                 /\ sql'.chunks = Chunks(sql.search)
                 /\ sql'.embeddings = {Place(c) : c \in sql'.chunks}
                 /\ MemChunks(mem') = sql'.chunks
           /\ sql'.entity = sql.entity /\ sql'.relation = sql.relation /\ sql'.search = sql.search
           /\ sql'.next = sql.next /\ DOMAIN sql' = DOMAIN sql
           /\ mem'.entities = mem.entities /\ mem'.ids = mem.ids /\ mem'.edges = mem.edges /\ mem'.text = mem.text
           /\ mem'.next = mem.next /\ DOMAIN mem' = DOMAIN mem
<1>1. PICK s : s = IF full THEN SqlClear(sql) ELSE sql
  OBVIOUS
<1>2. PICK m : m = IF full THEN [mem EXCEPT !.chunks = <<>>] ELSE mem
  OBVIOUS
<1>3. mem' = MemPruneVectors(MemWrite(m)) /\
      IF Homeless(s) = {} THEN sql' = SqlPruneVectors(SqlWrite(s, Missing(s)))
                          ELSE \E w \in Windows(s) : sql' = SqlWrite(s, w)
  BY <1>1, <1>2 DEF SyncVectors, Deriving
<1>4. /\ ChunksStand(s) /\ s.search = sql.search /\ s.entity = sql.entity /\ s.relation = sql.relation /\ s.next = sql.next
      /\ DOMAIN s = DOMAIN sql
  <2>1. CASE full
    BY <1>1, <2>1 DEF SqlClear, ChunksStand, BackendsInv, BackendsTyped
  <2>2. CASE ~full
    BY <1>1, <2>2 DEF BackendsInv, VectorsStand
  <2> QED BY <2>1, <2>2
<1>5. /\ EntriesStand(m) /\ m.text = mem.text /\ m.entities = mem.entities /\ m.ids = mem.ids /\ m.edges = mem.edges
      /\ m.next = mem.next /\ DOMAIN m = DOMAIN mem
  <2>1. CASE full
    BY <1>2, <2>1 DEF EntriesStand, BackendsInv, BackendsTyped
  <2>2. CASE ~full
    BY <1>2, <2>2 DEF BackendsInv, VectorsStand
  <2> QED BY <2>1, <2>2
<1>6. MemChunks(mem') = Chunks(sql.search) /\ EntriesStand(mem')
  BY <1>3, <1>5, EntriesAreTheTexts
<1>7. /\ mem'.entities = mem.entities /\ mem'.ids = mem.ids /\ mem'.edges = mem.edges /\ mem'.text = mem.text
      /\ mem'.next = mem.next /\ DOMAIN mem' = DOMAIN mem
  <2>1. PICK u : u = MemWrite(m)
    OBVIOUS
  <2>2. /\ u.entities = mem.entities /\ u.ids = mem.ids /\ u.edges = mem.edges /\ u.text = mem.text /\ u.next = mem.next
        /\ DOMAIN u = DOMAIN mem
    BY <1>5, <2>1 DEF MemWrite, BackendsInv, BackendsTyped
  <2> QED BY <1>3, <2>1, <2>2 DEF MemPruneVectors, BackendsInv, BackendsTyped
<1>8. CASE Homeless(s) = {}
  <2>1. sql' = SqlPruneVectors(SqlWrite(s, Missing(s)))
    BY <1>3, <1>8
  <2>2. ChunksStand(sql') /\ sql'.chunks = Chunks(sql.search) /\ sql'.embeddings = {Place(c) : c \in sql'.chunks}
    BY <1>4, <1>8, <2>1, SyncLeavesTheTexts
  <2>3. PICK u : u = SqlWrite(s, Missing(s))
    OBVIOUS
  <2>4. /\ u.entity = sql.entity /\ u.relation = sql.relation /\ u.search = sql.search /\ u.next = sql.next /\ DOMAIN u = DOMAIN sql
    BY <1>4, <2>3 DEF SqlWrite, BackendsInv, BackendsTyped
  <2>5. /\ sql'.entity = sql.entity /\ sql'.relation = sql.relation /\ sql'.search = sql.search
        /\ sql'.next = sql.next /\ DOMAIN sql' = DOMAIN sql
    BY <2>1, <2>3, <2>4 DEF SqlPruneVectors, BackendsInv, BackendsTyped
  <2> QED BY <1>6, <1>7, <2>2, <2>5
<1>9. CASE Homeless(s) # {}
  <2>1. PICK w \in Windows(s) : sql' = SqlWrite(s, w)
    BY <1>3, <1>9
  <2>2. w \in SUBSET (Missing(s) \ Homeless(s))
    BY DEF Windows
  <2>3. ChunksStand(sql')
    BY <1>4, <2>1, <2>2, WritesStand
  <2>4. /\ sql'.entity = sql.entity /\ sql'.relation = sql.relation /\ sql'.search = sql.search
        /\ sql'.next = sql.next /\ DOMAIN sql' = DOMAIN sql
    BY <1>4, <2>1 DEF SqlWrite, BackendsInv, BackendsTyped
  <2> QED BY <1>1, <1>6, <1>7, <1>9, <2>3, <2>4
<1> QED BY <1>8, <1>9

LEMMA SyncKeeps ==
    ASSUME BackendsInv, NEW full \in BOOLEAN, SyncVectors(full)
    PROVE  BackendsInv'
<1>1. /\ sql'.entity = sql.entity /\ sql'.relation = sql.relation /\ sql'.search = sql.search
      /\ sql'.next = sql.next /\ DOMAIN sql' = DOMAIN sql
  BY SyncFacts
<1>2. /\ mem'.entities = mem.entities /\ mem'.ids = mem.ids /\ mem'.edges = mem.edges /\ mem'.text = mem.text
      /\ mem'.next = mem.next /\ DOMAIN mem' = DOMAIN mem
  BY SyncFacts
<1>3. ChunksStand(sql') /\ EntriesStand(mem')
  BY SyncFacts
<1>4. TablesFollow'
  <2>1. /\ sql'.entity = {RowOf(i) : i \in DOMAIN mem.entities}'
        /\ sql'.search = {TextOf(i) : i \in DOMAIN mem.text}'
    BY <1>1, <1>2 DEF TablesFollow, BackendsInv, RowOf, TextOf
  <2>2. TablesFollow
    BY DEF BackendsInv
  <2>3. sql'.relation = UNION {Range(mem'.edges[i]) : i \in DOMAIN mem'.edges} /\ sql'.next = mem'.next
    BY <1>1, <1>2, <2>2 DEF TablesFollow
  <2> QED BY <2>1, <2>3 DEF TablesFollow
<1>5. VectorsStand'
  <2>1. SqlLive' = SqlLive
    BY <1>1 DEF SqlLive
  <2> QED BY <1>3, <2>1 DEF VectorsStand, ChunksStand, EntriesStand
<1>6. BackendsTyped' /\ IdsLead' /\ EdgesLead'
  BY <1>1, <1>2 DEF BackendsInv, BackendsTyped, IdsLead, EdgesLead
<1> QED BY <1>4, <1>5, <1>6 DEF BackendsInv

LEMMA BackendsKeep == BackendsInv /\ [BackendsNext]_backendVars => BackendsInv'
<1> SUFFICES ASSUME BackendsInv, [BackendsNext]_backendVars PROVE BackendsInv'
  OBVIOUS
<1>1. CASE UNCHANGED backendVars
  <2>1. sql' = sql /\ mem' = mem
    BY <1>1 DEF backendVars
  <2> QED BY <2>1 DEF BackendsInv, BackendsTyped, IdsLead, EdgesLead, TablesFollow, VectorsStand, ChunksStand, EntriesStand,
                      RowOf, TextOf, SqlLive
<1>2. CASE BackendsNext
  <2>1. ASSUME NEW keys \in SUBSET Keys \ {{}}, Delete(keys) PROVE BackendsInv'
    BY <2>1, DeleteKeeps
  <2> QED BY <1>2, <2>1, UpsertKeeps, ResolveKeeps, RebuildKeeps, SyncKeeps DEF BackendsNext
<1> QED BY <1>1, <1>2

\* A relation for each link, and no two for one.
LEMMA EdgesAreCounted ==
    ASSUME BackendsInv, NEW id \in DOMAIN mem.entities
    PROVE  Cardinality(Range(mem.edges[id])) = Len(mem.edges[id])
<1>1. PICK f : f = mem.edges[id]
  OBVIOUS
<1>2. PICK links : links = mem.entities[id].doc.links
  OBVIOUS
<1>3. links \in Seq(STRING) /\ IsInjective(links)
  BY <1>2, DocsAssumption DEF BackendsInv, BackendsTyped
<1>4. PICK n : n = Len(links)
  OBVIOUS
<1>5. n \in Nat /\ DOMAIN links = 1..n
  BY <1>3, <1>4
<1>6. f = [i \in 1..n |-> f[i]] /\ \A i \in 1..n : f[i].name = links[i]
  <2>1. mem.edges[id] = [i \in DOMAIN mem.entities[id].doc.links |-> mem.edges[id][i]]
    BY DEF BackendsInv, EdgesLead
  <2>2. f = [i \in 1..n |-> f[i]]
    BY <1>1, <1>2, <1>5, <2>1
  <2>3. \A i \in 1..n : f[i].name = links[i]
    BY <1>1, <1>2, <1>5, EdgeFacts
  <2> QED BY <2>2, <2>3
<1>7. f \in [1..n -> Range(f)]
  BY <1>6 DEF Range
<1>8. \A i, j \in 1..n : f[i] = f[j] => i = j
  BY <1>3, <1>5, <1>6 DEF IsInjective
<1>9. f \in Bijection(1..n, Range(f))
  <2>1. f \in Injection(1..n, Range(f))
    BY <1>7, <1>8 DEF Injection, IsInjective
  <2>2. f \in Surjection(1..n, Range(f))
    BY <1>7 DEF Surjection, Range
  <2> QED BY <2>1, <2>2 DEF Bijection
<1>10. ExistsBijection(1..n, Range(f))
  BY <1>9 DEF ExistsBijection
<1>11. IsFiniteSet(1..n) /\ Cardinality(1..n) = n
  BY <1>5, FS_Interval
<1>12. Cardinality(Range(f)) = n
  BY <1>10, <1>11, FS_Bijection
<1>13. Len(f) = n
  <2>1. f \in Seq(Range(f))
    BY <1>5, <1>7
  <2> QED BY <1>5, <1>7, <2>1
<1> QED BY <1>1, <1>12, <1>13

LEMMA BackendsFollow == BackendsInv => ReadsAgree
<1> SUFFICES ASSUME BackendsInv PROVE ReadsAgree
  OBVIOUS
<1> DEFINE doc(id) == mem.entities[id].doc
<1>1. {<<r.key, r.id>> : r \in sql.entity} = {<<k, mem.ids[k]>> : k \in DOMAIN mem.ids}
  <2>1. \A p : p \in {<<r.key, r.id>> : r \in sql.entity} <=> \E id \in DOMAIN mem.entities : p = <<mem.entities[id].key, id>>
    BY TableFacts
  <2>2. \A p : p \in {<<k, mem.ids[k]>> : k \in DOMAIN mem.ids} <=> \E id \in DOMAIN mem.entities : p = <<mem.entities[id].key, id>>
    BY DEF BackendsInv, IdsLead
  <2> QED BY <2>1, <2>2
<1>2. SqlLive = DOMAIN mem.entities
  BY TableFacts
<1>3. ASSUME NEW n \in Names
      PROVE  SqlFind(n) = MemFind(n) /\ SqlByPermalink(n) = MemByPermalink(n)
  <2> DEFINE titled == {r \in sql.entity : Fold(r.doc.title) = Fold(n)}
             aliased == {r \in sql.entity : \E a \in Range(r.doc.aliases) : Fold(a) = Fold(n)}
             partial == {r \in sql.entity : Within(Fold(n), Fold(r.doc.title))}
             called == {r \in sql.entity : r.perma = n}
             titledIds == {id \in DOMAIN mem.entities : Fold(doc(id).title) = Fold(n)}
             aliasedIds == {id \in DOMAIN mem.entities : \E a \in Range(doc(id).aliases) : Fold(a) = Fold(n)}
             partialIds == {id \in DOMAIN mem.entities : Within(Fold(n), Fold(doc(id).title))}
             calledIds == {id \in DOMAIN mem.entities : mem.entities[id].perma = n}
  <2>1. /\ {r.id : r \in titled} = titledIds /\ {r.id : r \in aliased} = aliasedIds
    BY TableFacts
  <2>2. /\ {r.id : r \in partial} = partialIds /\ {r.id : r \in called} = calledIds
    BY TableFacts
  <2>3. \A rows : (rows = {} <=> {r.id : r \in rows} = {}) /\ SqlFirst(rows) = MemFirst({r.id : r \in rows})
    BY DEF SqlFirst, MemFirst
  <2>4. SqlFind(n) = SqlFirst(IF titled # {} THEN titled ELSE IF aliased # {} THEN aliased ELSE partial)
    BY DEF SqlFind
  <2>5. MemFind(n) = IF titledIds # {} THEN MemFirst(titledIds) ELSE IF aliasedIds # {} THEN MemFirst(aliasedIds)
                     ELSE MemFirst(partialIds)
    BY DEF MemFind
  <2>6. SqlByPermalink(n) = SqlFirst(called) /\ MemByPermalink(n) = MemFirst(calledIds)
    BY DEF SqlByPermalink, MemByPermalink
  <2> HIDE DEF titled, aliased, partial, called, titledIds, aliasedIds, partialIds, calledIds
  <2>7. SqlFind(n) = MemFind(n)
    <3>1. CASE titled # {}
      <4>1. SqlFind(n) = SqlFirst(titled) /\ titledIds # {}
        BY <2>1, <2>3, <2>4, <3>1
      <4> QED BY <2>1, <2>3, <2>5, <4>1
    <3>2. CASE titled = {} /\ aliased # {}
      <4>1. SqlFind(n) = SqlFirst(aliased) /\ titledIds = {} /\ aliasedIds # {}
        BY <2>1, <2>3, <2>4, <3>2
      <4> QED BY <2>1, <2>3, <2>5, <4>1
    <3>3. CASE titled = {} /\ aliased = {}
      <4>1. SqlFind(n) = SqlFirst(partial) /\ titledIds = {} /\ aliasedIds = {}
        BY <2>1, <2>3, <2>4, <3>3
      <4> QED BY <2>2, <2>3, <2>5, <4>1
    <3> QED BY <3>1, <3>2, <3>3
  <2> QED BY <2>2, <2>3, <2>6, <2>7
<1>4. ASSUME NEW id \in SqlLive
      PROVE  /\ SqlOutgoing(id) = Range(MemOutgoing(id))
             /\ Cardinality(SqlOutgoing(id)) = Len(MemOutgoing(id))
             /\ SqlIncoming(id) = MemIncoming(id)
  <2>1. id \in DOMAIN mem.entities /\ id \in DOMAIN mem.edges /\ DOMAIN mem.edges = DOMAIN mem.entities /\ MemOutgoing(id) = mem.edges[id]
    BY <1>2 DEF MemOutgoing, BackendsInv, EdgesLead
  <2>2. SqlOutgoing(id) = Range(mem.edges[id])
    <3>1. \A x : x \in SqlOutgoing(id) <=> \E i \in DOMAIN mem.edges[id] : x = mem.edges[id][i]
      BY <2>1, TableFacts, EdgeFacts DEF SqlOutgoing
    <3> QED BY <3>1 DEF Range
  <2>3. SqlIncoming(id) = MemIncoming(id)
    BY DEF SqlIncoming, MemIncoming, BackendsInv, TablesFollow
  <2> QED BY <2>1, <2>2, <2>3, EdgesAreCounted
<1>5. ASSUME NEW since, NEW kinds
      PROVE  SqlRecent(since, kinds) = MemRecent(since, kinds)
  BY TableFacts DEF SqlRecent, MemRecent
<1>6. ASSUME NEW w \in Words, NEW kinds, w # Null
      PROVE  SqlSearch(w, kinds) = MemSearch(w, kinds)
  <2>1. \A x : x \in SqlSearch(w, kinds) <=>
           x \in DOMAIN mem.entities /\ doc(x).kind \in kinds /\ x \in DOMAIN mem.text /\ w \in mem.text[x].words
    BY <1>6, TableFacts DEF SqlSearch
  <2>2. \A x : x \in MemSearch(w, kinds) <=>
           x \in DOMAIN mem.entities /\ doc(x).kind \in kinds /\ x \in DOMAIN mem.text /\ w \in mem.text[x].words
    BY <1>6 DEF MemSearch
  <2> QED BY <2>1, <2>2
<1>7. \A w \in Words : w # Null
  BY DocsAssumption DEF Words
<1> QED BY <1>1, <1>2, <1>3, <1>4, <1>5, <1>6, <1>7 DEF ReadsAgree

LEMMA SyncsAreExact == BackendsInv /\ [BackendsNext]_backendVars => [\A full \in BOOLEAN : SyncsExactly(full)]_backendVars
<1> SUFFICES ASSUME BackendsInv, NEW full \in BOOLEAN, SyncVectors(full)
             PROVE  /\ \A c \in sql'.chunks : Place(c) \in sql'.embeddings /\ c.entity \in SqlLive
                    /\ Homeless(IF full THEN SqlClear(sql) ELSE sql) = {} =>
                          /\ sql'.chunks = Chunks(sql.search)
                          /\ sql'.embeddings = {Place(c) : c \in sql'.chunks}
                          /\ MemChunks(mem') = sql'.chunks
  BY DEF SyncsExactly
<1> QED BY SyncFacts DEF ChunksStand

-----------------------------------------------------------------------------
(* Every store, whichever part a behaviour is one of *)

StoresInv == BackendsInv /\ CatalogInv /\ ManifestsInv

LEMMA PartsStep ==
    [StoresNext]_storesVars => [BackendsNext]_backendVars /\ [CatalogNext]_catalogVars /\ [ManifestsNext]_manifestVars
  BY DEF StoresNext, storesVars

LEMMA StoresInvariant == StoresSpec => []StoresInv
<1>1. StoresInit => StoresInv
  BY BackendsStart, CatalogStarts, ManifestsStart DEF StoresInit, StoresInv
<1>2. StoresInv /\ [StoresNext]_storesVars => StoresInv'
  BY PartsStep, BackendsKeep, CatalogKeeps, ManifestsKeep DEF StoresInv
<1> QED BY <1>1, <1>2, PTL DEF StoresSpec, storesVars

\* index/backends/sqlite_*.py, memory.py: every read of the protocol gives the same
\* answer on the database and on the dictionaries that stand in for it in the tests,
\* after any number of calls about any documents, whatever their titles, aliases and
\* links.
THEOREM BackendsAlwaysAgree == StoresSpec => []ReadsAgree
<1>1. StoresInv => ReadsAgree
  BY BackendsFollow DEF StoresInv
<1> QED BY <1>1, StoresInvariant, PTL

\* vector/sync.py, vector/backends/: a sync leaves each chunk with its embedding and
\* none of an entity that is gone, and one that is not refused leaves in both stores
\* the chunks of the last rebuild's texts, whatever was left by those before it.
THEOREM VectorsAlwaysAgree == StoresSpec => VectorsAgree
<1>1. StoresInv /\ [StoresNext]_storesVars => [\A full \in BOOLEAN : SyncsExactly(full)]_backendVars
  BY PartsStep, SyncsAreExact DEF StoresInv
<1> QED BY <1>1, StoresInvariant, PTL DEF StoresSpec, storesVars, VectorsAgree

\* catalog/, manifest.py: every binary has a row, a converted row the markdown of the
\* bytes on disk but for what its storage cannot see; a report is the net of its cycle,
\* pruning spares the newest, and the pointer ends with the outcomes of the hooks;
\* for any number of files, cycles, processes, deaths and writes in between.
THEOREM RecordsAlwaysKeepUp == StoresSpec => []RecordsKeepUp
<1>1. StoresInv => RecordsKeepUp
  BY CatalogFollows, ManifestsFollow DEF StoresInv, CatalogInv, RecordsKeepUp
<1> QED BY <1>1, StoresInvariant, PTL

\* catalog_extract.py: no pass takes more than its limit, and none a failed row while a
\* pending one is left out.
THEOREM PassesAlwaysInOrder == StoresSpec => PassOrder
<1>1. StoresInv /\ [StoresNext]_storesVars => [BatchIsDue]_catalogVars
  BY PartsStep, PassesAreOrdered DEF StoresInv
<1> QED BY <1>1, StoresInvariant, PTL DEF StoresSpec, storesVars, PassOrder

\* vector/sync.py, catalog_extract.py: what is worked through in batches is what is due,
\* in both vector stores and in the catalog, however the batches are cut.
THEOREM BatchesAlwaysExact == StoresSpec => BatchesAreExact
BY VectorsAlwaysAgree, PassesAlwaysInOrder DEF BatchesAreExact
=============================================================================
