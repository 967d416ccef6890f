----------------------------- MODULE IndexProofs -----------------------------
(***************************************************************************)
(* Theorems about IndexSync, for every set of files and roots, every batch   *)
(* size and every bound on edits, faults and syncs.  The argument: each      *)
(* transaction leaves the tables coherent whatever came between it and the   *)
(* one before; what a stage of a sync has made is true of the files as they  *)
(* are, unless something has disturbed the sync since; and while nothing has,*)
(* the owners it read are still those of the table.                          *)
(***************************************************************************)
EXTENDS MCIndexSync, WellFoundedInduction, TLAPS

\* The rows the tables hold, and what a process holds at each stage of its sync.
Permas == {Natural(c) : c \in Contents} \cup {Fallback(f) : f \in Files}
RowType == [text : Contents, sum : Contents, perma : Permas]
Sums == Contents \cup {None}

IsRecord(r, fields) == DOMAIN r = fields /\ r = [i \in fields |-> r[i]]

WalkType(r) ==
    /\ IsRecord(r, {"pc", "roots", "full", "before", "walk", "found", "todo"})
    /\ r.roots \in Seq(Roots) /\ r.full \in BOOLEAN /\ r.before \in [Files -> Sums]
    /\ r.walk \in Seq(Roots) /\ r.found \subseteq Files /\ r.todo \subseteq Files
ParseType(r) ==
    /\ IsRecord(r, {"pc", "roots", "todo", "owners", "batch"})
    /\ r.roots \in Seq(Roots) /\ r.todo \subseteq Files
    /\ r.batch \in Seq([key : Files, row : RowType])
SumType(r) ==
    /\ IsRecord(r, {"pc", "roots", "todo", "owners", "batch", "text"})
    /\ r.roots \in Seq(Roots) /\ r.todo \subseteq Files /\ r.todo # {} /\ r.text \in Contents
    /\ r.batch \in Seq([key : Files, row : RowType])
WriteType(r) ==
    /\ IsRecord(r, {"pc", "roots", "texts", "puts"})
    /\ r.roots \in Seq(Roots)
    /\ \A x \in r.puts : x.doc \in r.texts
RunType(r) ==
    \/ r = Idle
    \/ r.pc \in {"walk", "owners"} /\ WalkType(r)
    \/ r.pc = "parse" /\ ParseType(r)
    \/ r.pc = "sum" /\ SumType(r)
    \/ r.pc \in {"text", "vectors", "done"} /\ r = [pc |-> r.pc, roots |-> r.roots] /\ r.roots \in Seq(Roots)
    \/ r.pc = "hashes" /\ r = [pc |-> r.pc, roots |-> r.roots, texts |-> r.texts] /\ r.roots \in Seq(Roots)
    \/ r.pc = "write" /\ WriteType(r)

Typed ==
    /\ disk \in [Files -> Sums] /\ entity \in [Files -> RowType \cup {None}]
    /\ gen \in [Files -> Nat]
    /\ rel = [f \in Files |-> rel[f]] /\ vec = [f \in Files |-> vec[f]]
    /\ run = [p \in Procs |-> run[p]] /\ \A p \in Procs : RunType(run[p])
    /\ quiet \subseteq Procs /\ steady \in [Procs -> SUBSET Files]

CohereInv == Typed /\ TablesCohere
-----------------------------------------------------------------------------
(* Files, in the order of the walk *)

LEMMA LeastOfNats ==
    ASSUME NEW S \in SUBSET Nat, S # {}
    PROVE  \E x \in S : \A y \in S : x <= y
<1>1. PICK x \in S : \A y \in S : ~ (<<y, x>> \in OpToRel(<, Nat))
  BY NatLessThanWellFounded, WFMin
<1>2. \A y \in S : x <= y
  <2> SUFFICES ASSUME NEW y \in S, ~ (x <= y) PROVE FALSE  OBVIOUS
  <2>1. <<y, x>> \in OpToRel(<, Nat)  BY DEF OpToRel
  <2> QED  BY <1>1, <2>1
<1> QED  BY <1>2

LEMMA FirstOf ==
    ASSUME NEW S \in SUBSET Files, S # {}
    PROVE  First(S) \in S
<1> DEFINE T == {Place(f) : f \in S}
<1>1. T \in SUBSET Nat /\ T # {}  BY FilesAssumption
<1>2. PICK x \in T : \A y \in T : x <= y  BY <1>1, LeastOfNats
<1>3. PICK f \in S : \A g \in S : Place(f) <= Place(g)  BY <1>2
<1> QED  BY <1>3 DEF First

\* The largest of the statements of a batch that write a key.
LEMMA LastOf ==
    ASSUME NEW n \in Nat, NEW S \in SUBSET (1..n), S # {}
    PROVE  Max(S) \in S /\ \A i \in S : i <= Max(S)
<1> DEFINE T == {n - i : i \in S}
<1>0. \A i \in S : i \in Nat /\ n - i \in Nat  OBVIOUS
<1>1. T \in SUBSET Nat /\ T # {}  BY <1>0
<1>2. PICK x \in T : \A y \in T : x <= y  BY <1>1, LeastOfNats
<1>3. PICK i \in S : x = n - i  OBVIOUS
<1>4. \A j \in S : i >= j
  <2> SUFFICES ASSUME NEW j \in S PROVE i >= j  OBVIOUS
  <2>1. n - i <= n - j  BY <1>2, <1>3
  <2> QED  BY <2>1
<1> QED  BY <1>4 DEF Max

\* What a batch leaves of the table.
LEMMA UpsertedIs ==
    ASSUME entity \in [Files -> RowType \cup {None}],
           NEW batch \in Seq([key : Files, row : RowType]), NEW n \in Nat, n <= Len(batch),
           NEW f \in Files
    PROVE  \/ /\ Upserted(batch, n)[f] = entity[f]
              /\ \A i \in 1..n : batch[i].key # f
           \/ \E i \in 1..n : /\ batch[i].key = f /\ Upserted(batch, n)[f] = batch[i].row
                              /\ \A j \in 1..n : batch[j].key = f => j <= i
<1> DEFINE mine == {i \in 1..n : batch[i].key = f}
<1>1. Upserted(batch, n)[f] = IF mine = {} THEN entity[f] ELSE batch[Max(mine)].row
  BY DEF Upserted
<1>2. CASE mine = {}  BY <1>1, <1>2
<1>3. CASE mine # {}
  <2>1. Max(mine) \in mine /\ \A i \in mine : i <= Max(mine)  BY <1>3, LastOf
  <2> QED  BY <1>1, <1>3, <2>1
<1> QED  BY <1>2, <1>3

LEMMA UpsertedType ==
    ASSUME entity \in [Files -> RowType \cup {None}],
           NEW batch \in Seq([key : Files, row : RowType]), NEW n \in Nat, n <= Len(batch)
    PROVE  Upserted(batch, n) \in [Files -> RowType \cup {None}]
<1>1. ASSUME NEW f \in Files PROVE Upserted(batch, n)[f] \in RowType \cup {None}
  <2>0. \A i \in 1..n : i \in 1..Len(batch)  OBVIOUS
  <2> DEFINE Statement == [key : Files, row : RowType]
  <2>1. \A i \in 1..n : batch[i] \in Statement
    <3>1. batch \in Seq(Statement)  OBVIOUS
    <3> HIDE DEF Statement
    <3> QED  BY <2>0, <3>1
  <2>2. \A i \in 1..n : batch[i].row \in RowType  BY <2>1
  <2>3. \/ Upserted(batch, n)[f] = entity[f]
        \/ \E i \in 1..n : Upserted(batch, n)[f] = batch[i].row
    BY ZenonT(40), UpsertedIs
  <2> QED  BY <2>2, <2>3
<1>2. DOMAIN Upserted(batch, n) = Files  BY DEF Upserted
<1>3. Upserted(batch, n) = [f \in Files |-> Upserted(batch, n)[f]]  BY DEF Upserted
<1> QED  BY <1>1, <1>3
-----------------------------------------------------------------------------
(* Types *)

\* A step of a process, and what it leaves of the other's.
LEMMA GoType ==
    ASSUME Typed, NEW p \in Procs, NEW r, RunType(r), Go(p, r)
    PROVE  /\ run' = [q \in Procs |-> run'[q]] /\ \A q \in Procs : RunType(run'[q])
           /\ run'[p] = r /\ \A q \in Procs \ {p} : run'[q] = run[q]
           /\ quiet' \subseteq Procs /\ quiet' \subseteq quiet \cap {p}
BY DEF Typed, Go

LEMMA IdleType == RunType(Idle)  BY DEF RunType

LEMMA BeginType ==
    ASSUME Typed, NEW p \in Procs, NEW roots \in Seq(Roots), NEW full \in BOOLEAN,
           Begin(p, roots, full)
    PROVE  Typed'
<1> DEFINE before == [f \in Files |-> IF entity[f] = None THEN None ELSE entity[f].sum]
           r == [pc |-> "walk", roots |-> roots, full |-> full, before |-> before,
                 walk |-> roots, found |-> {}, todo |-> {}]
<1>1. before \in [Files -> Sums]  BY DEF Typed, RowType, Sums
<1>2. RunType(r)
  <2> HIDE DEF before
  <2> QED  BY <1>1 DEF RunType, WalkType, IsRecord
<1>3. run' = [run EXCEPT ![p] = r] /\ quiet' = {p} /\ UNCHANGED <<tables, world>>
      /\ steady' = [steady EXCEPT ![p] = {f \in Files : disk[f] # None}]
  BY DEF Begin
<1> HIDE DEF r
<1>4. run' = [q \in Procs |-> run'[q]] /\ \A q \in Procs : RunType(run'[q])
  BY <1>2, <1>3 DEF Typed
<1> QED  BY <1>3, <1>4 DEF Typed, tables, world

LEMMA StepTypes ==
    ASSUME Typed, NEW p \in Procs, Sync(p)
    PROVE  Typed'
<1> USE DEF tables, world, Reads
<1>0. /\ disk \in [Files -> Sums] /\ entity \in [Files -> RowType \cup {None}]
      /\ gen \in [Files -> Nat] /\ steady \in [Procs -> SUBSET Files]
      /\ RunType(run[p])
  BY DEF Typed
\* A step that only goes on.
<1>1. ASSUME NEW r, RunType(r), Go(p, r), UNCHANGED <<world, steady>>,
             entity' \in [Files -> RowType \cup {None}], gen' \in [Files -> Nat],
             rel' = [f \in Files |-> rel'[f]], vec' = [f \in Files |-> vec'[f]]
      PROVE  Typed'
  BY <1>1, GoType DEF Typed
<1>2. ASSUME NEW r, RunType(r), Go(p, r), Reads(p) PROVE Typed'
  BY <1>1, <1>2 DEF Typed
<1>3. ASSUME Ends(p) PROVE Typed'
  BY <1>2, <1>3, IdleType DEF Ends
<1>4. CASE ScanRoot(p)
  <2>1. WalkType(run[p]) /\ run[p].pc = "walk" /\ run[p].walk # <<>>
    BY <1>0, <1>4 DEF ScanRoot, At, RunType, ParseType, SumType, WriteType, Idle
  <2>2. CASE Head(run[p].walk) \in gone  BY <1>3, <1>4, <2>2 DEF ScanRoot
  <2>3. CASE Head(run[p].walk) \notin gone
    <3> DEFINE here == Listing(Head(run[p].walk))
               more == {f \in here : Wanted(p, f)}
               r == [run[p] EXCEPT !.walk = Tail(@), !.found = @ \cup here, !.todo = @ \cup more]
    <3>1. here \subseteq Files /\ more \subseteq Files  BY DEF Listing, Keys
    <3>2. Go(p, r) /\ Reads(p)  BY <1>4, <2>3 DEF ScanRoot
    <3> HIDE DEF here, more
    <3>4. IsRecord(r, DOMAIN run[p]) /\ \A x \in DOMAIN run[p] : x \notin {"walk", "found", "todo"} => r[x] = run[p][x]
      BY <2>1 DEF WalkType, IsRecord
    <3>5. r.walk = Tail(run[p].walk) /\ r.found = run[p].found \cup here /\ r.todo = run[p].todo \cup more
      BY <2>1 DEF WalkType, IsRecord
    <3> HIDE DEF r
    <3>6. r.pc = "walk" /\ r.roots = run[p].roots /\ r.full = run[p].full /\ r.before = run[p].before
      BY <2>1, <3>4 DEF WalkType, IsRecord
    <3>7. DOMAIN run[p] = {"pc", "roots", "full", "before", "walk", "found", "todo"}
      BY <2>1 DEF WalkType, IsRecord
    <3>3. WalkType(r) /\ r.pc = "walk"
      BY <2>1, <3>1, <3>4, <3>5, <3>6, <3>7 DEF WalkType
    <3> HIDE DEF r
    <3> QED  BY <1>2, <3>2, <3>3 DEF RunType
  <2> QED  BY <2>2, <2>3
<1>5. CASE Prune(p)
  <2>1. WalkType(run[p])
    BY <1>0, <1>5 DEF Prune, At, RunType, ParseType, SumType, WriteType, Idle
  <2> DEFINE r == [run[p] EXCEPT !.pc = "owners"]
  <2>2. Go(p, r) /\ UNCHANGED <<gen, fts, world, steady>>  BY <1>5 DEF Prune
  <2>3. WalkType(r) /\ r.pc = "owners"  BY <2>1 DEF WalkType, IsRecord
  <2> HIDE DEF r
  <2>4. /\ entity' \in [Files -> RowType \cup {None}]
        /\ rel' = [f \in Files |-> rel'[f]] /\ vec' = [f \in Files |-> vec'[f]]
    BY <1>0, <1>5 DEF Prune, Cascaded
  <2> QED  BY <1>0, <1>1, <2>2, <2>3, <2>4 DEF RunType
<1>6. CASE LoadOwners(p)
  <2>1. WalkType(run[p])
    BY <1>0, <1>6 DEF LoadOwners, At, RunType, ParseType, SumType, WriteType, Idle
  <2> DEFINE owners == [m \in {entity[f].perma : f \in Rows} |-> CHOOSE f \in Rows : entity[f].perma = m]
             r == [pc |-> "parse", roots |-> run[p].roots, todo |-> run[p].todo, batch |-> <<>>,
                   owners |-> owners]
  <2>2. Go(p, r) /\ Reads(p)  BY <1>6 DEF LoadOwners
  <2> HIDE DEF owners
  <2>3. ParseType(r) /\ r.pc = "parse"  BY <2>1 DEF WalkType, ParseType, IsRecord
  <2> HIDE DEF r
  <2> QED  BY <1>2, <2>2, <2>3 DEF RunType
<1>7. CASE ReadText(p)
  <2>1. ParseType(run[p]) /\ run[p].pc = "parse" /\ run[p].todo # {} /\ run[p].todo \subseteq Files
    BY <1>0, <1>7 DEF ReadText, At, RunType, WalkType, ParseType, SumType, WriteType, Idle
  <2> DEFINE f == First(run[p].todo)
  <2>2. f \in Files  BY <2>1, FirstOf
  <2> HIDE DEF f
  <2>3. CASE ~Readable(f)
    <3> DEFINE r == [run[p] EXCEPT !.todo = @ \ {f}]
    <3>1. Go(p, r) /\ Reads(p)  BY <1>7, <2>3 DEF ReadText, f
    <3>2. ParseType(r) /\ r.pc = "parse"  BY <2>1 DEF ParseType, IsRecord
    <3> HIDE DEF r
    <3> QED  BY <1>2, <3>1, <3>2 DEF RunType
  <2>4. CASE Readable(f)
    <3> DEFINE r == [pc |-> "sum", roots |-> run[p].roots, todo |-> run[p].todo,
                     owners |-> run[p].owners, batch |-> run[p].batch, text |-> disk[f]]
    <3>1. Go(p, r) /\ Reads(p)  BY <1>7, <2>4 DEF ReadText, f
    <3>2. disk[f] \in Contents  BY <1>0, <2>2, <2>4 DEF Readable, Sums
    <3>3. SumType(r) /\ r.pc = "sum"  BY <2>1, <3>2 DEF ParseType, SumType, IsRecord
    <3> HIDE DEF r
    <3> QED  BY <1>2, <3>1, <3>3 DEF RunType
  <2> QED  BY <2>3, <2>4
<1>8. CASE ReadSum(p)
  <2>1. SumType(run[p]) /\ run[p].pc = "sum"
    BY <1>0, <1>8 DEF ReadSum, At, RunType, WalkType, ParseType, SumType, WriteType, Idle
  <2> DEFINE f == First(run[p].todo)
             m == Permalink(f, run[p].text, run[p].owners)
             owners == [x \in DOMAIN run[p].owners \cup {m} |-> IF x = m THEN f ELSE run[p].owners[x]]
             e == [key |-> f, row |-> [text |-> run[p].text, sum |-> disk[f], perma |-> m]]
             more == Append(run[p].batch, e)
             r == [pc |-> "parse", roots |-> run[p].roots, todo |-> run[p].todo \ {f},
                   owners |-> owners, batch |-> more]
  <2>2. f \in Files  BY <2>1, FirstOf DEF SumType
  <2>3. CASE ~Readable(f)  BY <1>3, <1>8, <2>3 DEF ReadSum
  <2>4. CASE Readable(f)
    <3>1. Go(p, r) /\ Reads(p)  BY <1>8, <2>4 DEF ReadSum
    <3>2. m \in Permas
      <4>1. run[p].text \in Contents  BY <2>1 DEF SumType
      <4> HIDE DEF f
      <4> QED  BY <2>2, <4>1 DEF Permalink, Permas
    <3> HIDE DEF f, m, owners
    <3>3. e \in [key : Files, row : RowType]
      BY <1>0, <2>1, <2>2, <2>4, <3>2 DEF SumType, Readable, Sums, RowType
    <3> HIDE DEF e
    <3>5. more \in Seq([key : Files, row : RowType])  BY <2>1, <3>3 DEF SumType
    <3> HIDE DEF more
    <3>4. ParseType(r) /\ r.pc = "parse"  BY <2>1, <3>5 DEF ParseType, SumType, IsRecord
    <3> HIDE DEF r
    <3> QED  BY <1>2, <3>1, <3>4 DEF RunType
  <2> QED  BY <2>3, <2>4
<1>9. CASE Upsert(p)
  <2>1. ParseType(run[p]) /\ run[p].pc = "parse"
    BY <1>0, <1>9 DEF Upsert, At, RunType, WalkType, ParseType, SumType, WriteType, Idle
  <2>2. CASE Collides(run[p].batch)  BY <1>3, <1>9, <2>2 DEF Upsert
  <2>3. CASE ~Collides(run[p].batch)
    <3> DEFINE n == Len(run[p].batch)
               after == Upserted(run[p].batch, n)
               r == [run[p] EXCEPT !.batch = <<>>]
    <3>1. Go(p, r) /\ UNCHANGED <<world, steady, vec>> /\ entity' = after
      BY <1>9, <2>3 DEF Upsert
    <3>2. n \in Nat /\ run[p].batch \in Seq([key : Files, row : RowType])  BY <2>1 DEF ParseType, IsRecord
    <3>3. after \in [Files -> RowType \cup {None}]
      <4>1. n <= Len(run[p].batch)  BY <3>2
      <4> HIDE DEF n
      <4> QED  BY <1>0, <3>2, <4>1, UpsertedType
    <3>4. ParseType(r) /\ r.pc = "parse"  BY SMTT(40), <2>1 DEF ParseType, IsRecord
    <3> HIDE DEF r, after
    <3>5. gen' \in [Files -> Nat]
      <4> DEFINE keys == {run[p].batch[i].key : i \in DOMAIN run[p].batch}
      <4>1. gen' = [f \in Files |-> IF f \in keys /\ entity[f] = None THEN gen[f] + 1 ELSE gen[f]]
        BY <1>9, <2>3 DEF Upsert
      <4> HIDE DEF keys
      <4> QED  BY <1>0, <4>1
    <3>7. rel' = [f \in Files |-> rel'[f]]
      BY <1>9, <2>3 DEF Upsert, Unresolved
    <3>6. vec' = [f \in Files |-> vec'[f]]  BY <3>1 DEF Typed
    <3> QED  BY <1>1, <3>1, <3>3, <3>4, <3>5, <3>6, <3>7 DEF RunType
  <2> QED  BY <2>2, <2>3
<1>10. CASE Resolve(p)
  <2>1. run[p].roots \in Seq(Roots)
    BY <1>0, <1>10 DEF Resolve, At, RunType, WalkType, ParseType, SumType, WriteType, Idle
  <2> DEFINE r == [pc |-> "text", roots |-> run[p].roots]
  <2>2. Go(p, r) /\ UNCHANGED <<entity, gen, vec, world, steady>> /\ rel' = [f \in Files |-> rel'[f]]
    BY <1>10 DEF Resolve
  <2>3. RunType(r)  BY <2>1 DEF RunType
  <2> HIDE DEF r
  <2> QED  BY <1>0, <1>1, <2>2, <2>3 DEF Typed
<1>11. CASE RebuildText(p)
  <2>1. run[p].roots \in Seq(Roots)
    BY <1>0, <1>11 DEF RebuildText, At, RunType, WalkType, ParseType, SumType, WriteType, Idle
  <2> DEFINE r == [pc |-> "vectors", roots |-> run[p].roots]
  <2>2. Go(p, r) /\ UNCHANGED <<entity, gen, rel, vec, world, steady>>
    BY <1>11 DEF RebuildText
  <2>3. RunType(r)  BY <2>1 DEF RunType
  <2> HIDE DEF r
  <2> QED  BY <1>0, <1>1, <2>2, <2>3 DEF Typed
<1>12. CASE ReadTexts(p)
  <2>1. run[p].roots \in Seq(Roots)
    BY <1>0, <1>12 DEF ReadTexts, At, RunType, WalkType, ParseType, SumType, WriteType, Idle
  <2> DEFINE r == [pc |-> "hashes", roots |-> run[p].roots, texts |-> fts]
  <2>2. Go(p, r) /\ Reads(p)  BY <1>12 DEF ReadTexts
  <2>3. RunType(r)  BY <2>1 DEF RunType
  <2> HIDE DEF r
  <2> QED  BY <1>2, <2>2, <2>3
<1>13. CASE ReadHashes(p)
  <2>1. run[p].roots \in Seq(Roots)
    BY <1>0, <1>13 DEF ReadHashes, At, RunType, WalkType, ParseType, SumType, WriteType, Idle
  <2> DEFINE puts == UNION {{[doc |-> d, n |-> i] : i \in Changed(d)} : d \in run[p].texts}
             r == [pc |-> "write", roots |-> run[p].roots, texts |-> run[p].texts, puts |-> puts]
  <2>2. Go(p, r) /\ Reads(p)  BY <1>13 DEF ReadHashes
  <2>3. \A x \in puts : x.doc \in run[p].texts  OBVIOUS
  <2> HIDE DEF puts
  <2>4. RunType(r)  BY <2>1, <2>3 DEF RunType, WriteType, IsRecord
  <2> HIDE DEF r
  <2> QED  BY <1>2, <2>2, <2>4
<1>14. CASE WriteChunks(p)
  <2>1. WriteType(run[p]) /\ run[p].pc = "write"
    BY <1>0, <1>14 DEF WriteChunks, At, RunType, WalkType, ParseType, SumType, WriteType, Idle
  <2>2. PICK window \in SUBSET run[p].puts :
           \/ Ends(p)
           \/ /\ vec' = [f \in Files |-> Stored(f, window)]
              /\ Go(p, [run[p] EXCEPT !.puts = @ \ window])
              /\ UNCHANGED <<entity, gen, rel, fts, orphans, world, steady, left>>
    BY <1>14 DEF WriteChunks
  <2>3. CASE Ends(p)  BY <1>3, <2>3
  <2>4. CASE /\ vec' = [f \in Files |-> Stored(f, window)]
             /\ Go(p, [run[p] EXCEPT !.puts = @ \ window])
             /\ UNCHANGED <<entity, gen, rel, fts, orphans, world, steady, left>>
    <3> DEFINE r == [run[p] EXCEPT !.puts = @ \ window]
    <3>1. WriteType(r) /\ r.pc = "write"  BY <2>1 DEF WriteType, IsRecord
    <3>2. Go(p, r)  BY <2>4
    <3> HIDE DEF r
    <3>3. vec' = [f \in Files |-> vec'[f]] /\ rel' = [f \in Files |-> rel'[f]]  BY <2>4 DEF Typed
    <3> QED  BY <1>0, <1>1, <2>4, <3>1, <3>2, <3>3 DEF RunType
  <2> QED  BY <2>2, <2>3, <2>4
<1>15. CASE PruneVectors(p)
  <2>1. run[p].roots \in Seq(Roots)
    BY <1>0, <1>15 DEF PruneVectors, At, RunType, WalkType, ParseType, SumType, WriteType, Idle
  <2> DEFINE r == [pc |-> "done", roots |-> run[p].roots]
  <2>2. Go(p, r) /\ UNCHANGED <<entity, gen, rel, world, steady>> /\ vec' = [f \in Files |-> vec'[f]]
    BY <1>15 DEF PruneVectors
  <2>3. RunType(r)  BY <2>1 DEF RunType
  <2> HIDE DEF r
  <2> QED  BY <1>0, <1>1, <2>2, <2>3 DEF Typed
<1>16. CASE Finish(p)
  BY <1>3, <1>16 DEF Finish
<1> QED
  BY <1>4, <1>5, <1>6, <1>7, <1>8, <1>9, <1>10, <1>11, <1>12, <1>13, <1>14, <1>15, <1>16 DEF Sync

LEMMA NextTyped ==
    ASSUME Typed, [Next]_vars
    PROVE  Typed'
<1>1. CASE \E p \in Procs : Sync(p)  BY <1>1, StepTypes
<1>2. CASE StartCycle
  <2>1. RootSeq \in Seq(Roots)  BY FilesAssumption DEF Roots
  <2> QED  BY <1>2, <2>1, BeginType DEF StartCycle, Procs
<1>3. CASE StartCli
  <2>1. PICK r \in Roots, all \in BOOLEAN, full \in BOOLEAN :
           Begin(Cli, IF all THEN RootSeq ELSE <<r>>, full)
    BY <1>3 DEF StartCli
  <2>2. (IF all THEN RootSeq ELSE <<r>>) \in Seq(Roots)  BY FilesAssumption DEF Roots
  <2> QED  BY <2>1, <2>2, BeginType DEF Procs
<1>4. CASE \E f \in Files : (\E c \in Contents : WriteFile(f, c)) \/ RemoveFile(f) \/ Lock(f)
  <2>1. /\ UNCHANGED <<tables, run>> /\ quiet' = {}
        /\ disk' \in [Files -> Sums] /\ steady' \in [Procs -> SUBSET Files]
    BY <1>4 DEF Typed, WriteFile, RemoveFile, Lock, Changes, Sums
  <2> QED  BY <2>1 DEF Typed, tables
<1>5. CASE \E r \in Roots : Unmount(r)
  BY <1>5 DEF Typed, Unmount, Changes, tables
<1>6. CASE \E p \in Procs : Fault(p)
  <2>1. PICK p \in Procs : Go(p, Idle) /\ UNCHANGED <<tables, world, steady>>
    BY <1>6 DEF Fault
  <2> QED  BY <2>1, IdleType, GoType DEF Typed, tables, world
<1>7. CASE UNCHANGED vars
  BY <1>7 DEF Typed, vars
<1> QED  BY <1>1, <1>2, <1>3, <1>4, <1>5, <1>6, <1>7 DEF Next, Environment, Procs
-----------------------------------------------------------------------------
(* The tables refer to each other's rows *)

\* What the statements after the last that writes a key leave of it.
LEMMA UpsertedSettles ==
    ASSUME entity \in [Files -> RowType \cup {None}],
           NEW batch \in Seq([key : Files, row : RowType]), NEW f \in Files,
           NEW n \in Nat, n <= Len(batch),
           \A i \in 1..Len(batch) : batch[i].key = f => i <= n
    PROVE  Upserted(batch, n)[f] = Upserted(batch, Len(batch))[f]
<1> DEFINE all == Len(batch)
<1>0. all \in Nat /\ all <= Len(batch) /\ \A i \in 1..n : i \in 1..all  OBVIOUS
<1>a. /\ entity \in [Files -> RowType \cup {None}] /\ batch \in Seq([key : Files, row : RowType])
      /\ n \in Nat /\ n <= Len(batch) /\ f \in Files
  OBVIOUS
<1> HIDE DEF all
<1>b. ASSUME NEW m \in Nat, m <= Len(batch)
      PROVE  \A k \in Files :
                \/ /\ Upserted(batch, m)[k] = entity[k]
                   /\ \A i \in 1..m : batch[i].key # k
                \/ \E i \in 1..m : /\ batch[i].key = k /\ Upserted(batch, m)[k] = batch[i].row
                                   /\ \A j \in 1..m : batch[j].key = k => j <= i
  BY ONLY ZenonT(40), <1>a, <1>b, UpsertedIs
<1>1. \/ /\ Upserted(batch, n)[f] = entity[f]
         /\ \A i \in 1..n : batch[i].key # f
      \/ \E i \in 1..n : /\ batch[i].key = f /\ Upserted(batch, n)[f] = batch[i].row
                         /\ \A j \in 1..n : batch[j].key = f => j <= i
  BY <1>b
<1>2. \/ /\ Upserted(batch, all)[f] = entity[f]
         /\ \A i \in 1..all : batch[i].key # f
      \/ \E i \in 1..all : /\ batch[i].key = f /\ Upserted(batch, all)[f] = batch[i].row
                           /\ \A j \in 1..all : batch[j].key = f => j <= i
  BY <1>0, <1>b
<1>3. \A i \in 1..all : batch[i].key = f => i \in 1..n  BY <1>0 DEF all
<1>4. \A i, j \in 1..n : i <= j /\ j <= i => i = j  OBVIOUS
<1>5. Upserted(batch, n)[f] = Upserted(batch, all)[f]
  <2>1. CASE \A i \in 1..n : batch[i].key # f
    <3>1. \A i \in 1..all : batch[i].key # f  BY <1>3, <2>1
    <3> QED  BY <1>1, <1>2, <2>1, <3>1
  <2>2. CASE ~ \A i \in 1..n : batch[i].key # f
    <3>1. PICK i \in 1..n : /\ batch[i].key = f /\ Upserted(batch, n)[f] = batch[i].row
                            /\ \A j \in 1..n : batch[j].key = f => j <= i
      BY <1>1, <2>2
    <3>2. PICK k \in 1..all : /\ batch[k].key = f /\ Upserted(batch, all)[f] = batch[k].row
                              /\ \A j \in 1..all : batch[j].key = f => j <= k
      BY <1>0, <1>2, <2>2
    <3>3. k \in 1..n /\ i \in 1..all  BY <1>0, <1>3, <3>2
    <3>4. i = k  BY <1>4, <3>1, <3>2, <3>3
    <3> QED  BY <3>1, <3>2, <3>4
  <2> QED  BY <2>1, <2>2
<1> QED  BY <1>5 DEF all

\* A batch that does not collide leaves every permalink to one entity.
LEMMA UpsertedApart ==
    ASSUME entity \in [Files -> RowType \cup {None}],
           NEW batch \in Seq([key : Files, row : RowType]), ~Collides(batch),
           NEW f \in Files, NEW g \in Files, f # g,
           NEW i \in 1..Len(batch), batch[i].key = f,
           \A j \in 1..Len(batch) : batch[j].key = f => j <= i,
           \A j \in 1..Len(batch) : batch[j].key = g => j <= i,
           Upserted(batch, Len(batch))[g] # None
    PROVE  Upserted(batch, Len(batch))[g].perma # batch[i].row.perma
<1>1. i - 1 \in Nat /\ i - 1 <= Len(batch) /\ i \in DOMAIN batch  OBVIOUS
<1>2. \A j \in 1..Len(batch) : batch[j].key = g => j <= i - 1
  <2> SUFFICES ASSUME NEW j \in 1..Len(batch), batch[j].key = g PROVE j <= i - 1  OBVIOUS
  <2>1. j <= i /\ j # i  OBVIOUS
  <2> QED  BY <2>1
<1>3. Upserted(batch, i - 1)[g] = Upserted(batch, Len(batch))[g]
  <2> DEFINE n == i - 1
  <2>1. n \in Nat /\ n <= Len(batch) /\ \A j \in 1..Len(batch) : batch[j].key = g => j <= n
    BY <1>1, <1>2
  <2> HIDE DEF n
  <2>2. Upserted(batch, n)[g] = Upserted(batch, Len(batch))[g]  BY <2>1, UpsertedSettles
  <2> QED  BY <2>2 DEF n
<1>4. g \in Files \ {batch[i].key}  OBVIOUS
<1> QED  BY <1>1, <1>3, <1>4 DEF Collides

LEMMA PermalinksStayApart ==
    ASSUME entity \in [Files -> RowType \cup {None}],
           NEW batch \in Seq([key : Files, row : RowType]), ~Collides(batch),
           \A f, g \in Rows : entity[f].perma = entity[g].perma => f = g,
           NEW f \in Files, NEW g \in Files,
           Upserted(batch, Len(batch))[f] # None, Upserted(batch, Len(batch))[g] # None,
           Upserted(batch, Len(batch))[f].perma = Upserted(batch, Len(batch))[g].perma
    PROVE  f = g
<1> DEFINE all == Len(batch)
           after == Upserted(batch, all)
           LastOne(k, i) == /\ batch[i].key = k /\ after[k] = batch[i].row
                            /\ \A j \in 1..all : batch[j].key = k => j <= i
           Unwritten(k) == after[k] = entity[k] /\ \A i \in 1..all : batch[i].key # k
<1> SUFFICES ASSUME f # g PROVE FALSE  OBVIOUS
<1>1. \A k \in Files : Unwritten(k) \/ \E i \in 1..all : LastOne(k, i)
  <2>1. all \in Nat /\ all <= Len(batch)  OBVIOUS
  <2> HIDE DEF all
  <2> QED  BY ZenonT(40), <2>1, UpsertedIs
\* The later of two last statements would have met the other's permalink.
<1>2. ASSUME NEW k \in Files, NEW m \in Files, k # m, NEW i \in 1..all, LastOne(k, i),
             \A j \in 1..all : batch[j].key = m => j <= i,
             after[m] # None
      PROVE  after[k].perma # after[m].perma
  BY ZenonT(40), <1>2, UpsertedApart
<1> HIDE DEF after
<1>3. CASE Unwritten(f) /\ Unwritten(g)
  BY <1>3 DEF Rows, after
<1>4. CASE Unwritten(f) /\ \E i \in 1..all : LastOne(g, i)
  BY <1>2, <1>4 DEF after
<1>5. CASE Unwritten(g) /\ \E i \in 1..all : LastOne(f, i)
  BY <1>2, <1>5 DEF after
<1>6. ASSUME NEW i \in 1..all, NEW k \in 1..all, LastOne(f, i), LastOne(g, k) PROVE FALSE
  <2>1. CASE i <= k
    <3>1. \A j \in 1..all : batch[j].key = f => j <= k  BY <1>6, <2>1
    <3> QED  BY <1>2, <1>6, <3>1 DEF after
  <2>2. CASE k <= i
    <3>1. \A j \in 1..all : batch[j].key = g => j <= i  BY <1>6, <2>2
    <3> QED  BY <1>2, <1>6, <3>1 DEF after
  <2> QED  BY <2>1, <2>2
<1> QED  BY <1>1, <1>3, <1>4, <1>5, <1>6

LEMMA NoneIsNoRow == None \notin RowType /\ None \notin Files /\ None \notin Contents
BY FilesAssumption DEF RowType, Permas

\* Only a step that writes one of these can upset them.
LEMMA CoheresUnchanged ==
    ASSUME TablesCohere, UNCHANGED <<entity, rel, vec>>
    PROVE  TablesCohere'
BY DEF TablesCohere, Rows

LEMMA PruneCoheres ==
    ASSUME Typed, TablesCohere, NEW p \in Procs, Prune(p)
    PROVE  TablesCohere'
<1> DEFINE dead == Departed(p)
<1>1. /\ entity' = [f \in Files |-> IF f \in dead THEN None ELSE entity[f]]
      /\ rel' = [f \in Files |-> IF f \in dead THEN <<>>
                    ELSE [n \in DOMAIN rel[f] |-> IF rel[f][n] \in dead THEN None ELSE rel[f][n]]]
      /\ vec' = [f \in Files |-> IF f \in dead THEN <<>> ELSE vec[f]]
  BY DEF Prune, Cascaded
<1> HIDE DEF dead
<1>2. \A f \in Files : f \in Rows' <=> f \in Rows /\ f \notin dead
  BY <1>1 DEF Rows
<1>3. ASSUME NEW f \in Rows', NEW g \in Rows', entity'[f].perma = entity'[g].perma PROVE f = g
  <2>1. f \in Files /\ g \in Files  BY DEF Rows
  <2> QED  BY <1>1, <1>2, <1>3, <2>1 DEF TablesCohere
<1>4. ASSUME NEW f \in Rows', NEW n \in DOMAIN rel'[f] PROVE rel'[f][n] \in Rows' \cup {None}
  <2>1. f \in Files /\ f \in Rows /\ f \notin dead  BY <1>2 DEF Rows
  <2>2. rel'[f] = [m \in DOMAIN rel[f] |-> IF rel[f][m] \in dead THEN None ELSE rel[f][m]]
    BY <1>1, <2>1
  <2>3. n \in DOMAIN rel[f]  BY <2>2
  <2>4. rel[f][n] \in Rows \cup {None}  BY <2>1, <2>3 DEF TablesCohere
  <2>5. rel'[f][n] = IF rel[f][n] \in dead THEN None ELSE rel[f][n]  BY <2>2, <2>3
  <2>6. \A g \in Rows : g \in Files  BY DEF Rows
  <2> QED  BY <1>2, <2>4, <2>5, <2>6
<1>5. ASSUME NEW f \in Files \ Rows' PROVE rel'[f] = <<>> /\ vec'[f] = <<>>
  <2>1. CASE f \in dead  BY <1>1, <2>1
  <2>2. CASE f \notin dead
    <3>1. rel[f] = <<>> /\ vec[f] = <<>>  BY <1>2, <1>5, <2>2 DEF TablesCohere
    <3>2. rel'[f] = [n \in DOMAIN rel[f] |-> IF rel[f][n] \in dead THEN None ELSE rel[f][n]]
          /\ vec'[f] = vec[f]
      BY <1>1, <2>2
    <3>3. DOMAIN rel[f] = {}  BY <3>1
    <3>4. rel'[f] = <<>>  BY <3>2, <3>3
    <3> QED  BY <3>1, <3>2, <3>4
  <2> QED  BY <2>1, <2>2
<1> QED  BY <1>3, <1>4, <1>5 DEF TablesCohere

LEMMA UpsertCoheres ==
    ASSUME Typed, TablesCohere, NEW p \in Procs, Upsert(p)
    PROVE  TablesCohere'
<1> DEFINE batch == run[p].batch
           after == Upserted(batch, Len(batch))
           keys == {batch[i].key : i \in DOMAIN batch}
<1>0. RunType(run[p])  BY DEF Typed
<1>1. ParseType(run[p])
  BY <1>0 DEF Upsert, At, RunType, WalkType, ParseType, SumType, WriteType, Idle
<1>2. batch \in Seq([key : Files, row : RowType]) /\ entity \in [Files -> RowType \cup {None}]
  BY <1>1 DEF ParseType, Typed
<1>3. CASE Collides(batch)
  BY <1>3, CoheresUnchanged DEF Upsert, Ends, Reads, tables
<1>4. CASE ~Collides(batch)
  <2>1. /\ entity' = after /\ UNCHANGED vec
        /\ rel' = [f \in Files |-> IF f \in keys THEN [n \in after[f].text.links |-> None] ELSE rel[f]]
    BY <1>4 DEF Upsert, Unresolved
  <2>2. ASSUME NEW f \in Files
        PROVE  IF f \in keys THEN after[f] # None ELSE after[f] = entity[f]
    <3>1. Len(batch) \in Nat /\ Len(batch) <= Len(batch) /\ DOMAIN batch = 1..Len(batch)  BY <1>2
    <3>2. \A i \in 1..Len(batch) : batch[i].row # None
      <4> DEFINE Statement == [key : Files, row : RowType]
      <4>1. \A i \in 1..Len(batch) : batch[i] \in Statement
        <5>1. batch \in Seq(Statement)  BY <1>2
        <5> HIDE DEF batch, Statement
        <5> QED  BY <5>1
      <4> QED  BY <4>1, NoneIsNoRow
    <3> DEFINE n == Len(batch)
    <3> HIDE DEF n, batch
    <3>3. n \in Nat /\ n <= Len(batch)  BY <3>1 DEF n
    <3>4. \/ /\ Upserted(batch, n)[f] = entity[f]
             /\ \A i \in 1..n : batch[i].key # f
          \/ \E i \in 1..n : batch[i].key = f /\ Upserted(batch, n)[f] = batch[i].row
      BY ZenonT(40), <1>2, <3>3, UpsertedIs
    <3> QED  BY <3>1, <3>2, <3>4 DEF n
  <2>3. \A f \in Rows : f \in Rows'
    BY <2>1, <2>2 DEF Rows
  <2>4. ASSUME NEW f \in Rows', NEW g \in Rows', entity'[f].perma = entity'[g].perma PROVE f = g
    <3>1. f \in Files /\ g \in Files /\ after[f] # None /\ after[g] # None  BY <2>1 DEF Rows
    <3>2. after[f].perma = after[g].perma  BY <2>1, <2>4
    <3>3. \A h, k \in Rows : entity[h].perma = entity[k].perma => h = k  BY DEF TablesCohere
    <3> HIDE DEF batch
    <3> QED  BY <1>2, <1>4, <3>1, <3>2, <3>3, PermalinksStayApart
  <2> HIDE DEF after, keys
  <2>5. ASSUME NEW f \in Rows', NEW n \in DOMAIN rel'[f] PROVE rel'[f][n] \in Rows' \cup {None}
    <3>1. f \in Files  BY DEF Rows
    <3>2. CASE f \in keys  BY <2>1, <2>5, <3>1, <3>2
    <3>3. CASE f \notin keys
      <4>1. rel'[f] = rel[f] /\ after[f] = entity[f]  BY <2>1, <2>2, <3>1, <3>3
      <4>2. f \in Rows  BY <2>1, <4>1, <3>1 DEF Rows
      <4> QED  BY <2>3, <2>5, <4>1, <4>2 DEF TablesCohere
    <3> QED  BY <3>2, <3>3
  <2>6. ASSUME NEW f \in Files \ Rows' PROVE rel'[f] = <<>> /\ vec'[f] = <<>>
    <3>1. after[f] = None  BY <2>1, <2>6 DEF Rows
    <3>2. f \notin keys /\ entity[f] = None  BY <2>2, <3>1
    <3> QED  BY <2>1, <3>2 DEF TablesCohere, Rows
  <2> QED  BY <2>4, <2>5, <2>6 DEF TablesCohere
<1> QED  BY <1>3, <1>4

LEMMA ResolveCoheres ==
    ASSUME Typed, TablesCohere, NEW p \in Procs, Resolve(p)
    PROVE  TablesCohere'
<1>1. UNCHANGED <<entity, vec>>  BY DEF Resolve
<1>2. PICK pick :
         /\ \A f \in Files : \A n \in DOMAIN rel[f] : pick[n] = None \/ pick[n] \in Matches(n)
         /\ rel' = [f \in Files |-> [n \in DOMAIN rel[f] |->
                       IF rel[f][n] = None THEN pick[n] ELSE rel[f][n]]]
  BY DEF Resolve
<1>3. Rows' = Rows /\ Rows \subseteq Files  BY <1>1 DEF Rows
<1>4. ASSUME NEW f \in Rows, NEW n \in DOMAIN rel'[f] PROVE rel'[f][n] \in Rows \cup {None}
  <2>1. rel'[f] = [m \in DOMAIN rel[f] |-> IF rel[f][m] = None THEN pick[m] ELSE rel[f][m]]
    BY <1>2, <1>3
  <2>2. n \in DOMAIN rel[f] /\ rel'[f][n] = IF rel[f][n] = None THEN pick[n] ELSE rel[f][n]
    BY <2>1
  <2>3. rel[f][n] \in Rows \cup {None}  BY <2>2 DEF TablesCohere
  <2>4. pick[n] \in Rows \cup {None}  BY <1>2, <1>3, <2>2 DEF Matches
  <2> QED  BY <2>2, <2>3, <2>4
<1>5. ASSUME NEW f \in Files \ Rows PROVE rel'[f] = <<>> /\ vec'[f] = <<>>
  <2>1. rel[f] = <<>> /\ vec[f] = <<>>  BY DEF TablesCohere
  <2>2. rel'[f] = [m \in DOMAIN rel[f] |-> IF rel[f][m] = None THEN pick[m] ELSE rel[f][m]]
    BY <1>2
  <2>3. DOMAIN rel[f] = {}  BY <2>1
  <2> QED  BY <1>1, <2>1, <2>2, <2>3
<1>6. \A f, g \in Rows : entity'[f].perma = entity'[g].perma => f = g
  BY <1>1 DEF TablesCohere
<1> QED  BY <1>3, <1>4, <1>5, <1>6 DEF TablesCohere

LEMMA WriteCoheres ==
    ASSUME Typed, TablesCohere, NEW p \in Procs, WriteChunks(p)
    PROVE  TablesCohere'
<1>1. PICK window \in SUBSET run[p].puts :
         \/ Ends(p)
         \/ /\ \A x \in window : Live(x.doc)
            /\ vec' = [f \in Files |-> Stored(f, window)] /\ UNCHANGED <<entity, rel>>
  BY DEF WriteChunks
<1>2. CASE Ends(p)  BY <1>2, CoheresUnchanged DEF Ends, Reads, tables
<1>3. CASE /\ \A x \in window : Live(x.doc)
           /\ vec' = [f \in Files |-> Stored(f, window)] /\ UNCHANGED <<entity, rel>>
  <2>1. ASSUME NEW f \in Files \ Rows PROVE vec'[f] = <<>>
    <3> DEFINE new == {x \in window : x.doc.key = f}
    <3>1. vec[f] = <<>>  BY DEF TablesCohere
    <3>2. new = {}  BY <1>3 DEF Live, Rows
    <3>3. DOMAIN vec[f] \cup {x.n : x \in new} = {}  BY <3>1, <3>2
    <3>4. Stored(f, window) = <<>>  BY <3>3 DEF Stored
    <3> QED  BY <1>3, <3>4
  <2> QED  BY <1>3, <2>1 DEF TablesCohere, Rows
<1> QED  BY <1>1, <1>2, <1>3

LEMMA PruneVectorsCoheres ==
    ASSUME Typed, TablesCohere, NEW p \in Procs, PruneVectors(p)
    PROVE  TablesCohere'
<1>1. UNCHANGED <<entity, rel>>  BY DEF PruneVectors
<1>2. ASSUME NEW f \in Files \ Rows PROVE vec'[f] = <<>>
  <2>1. PICK kept : /\ \A n \in kept : n \in DOMAIN vec[f]
                    /\ vec'[f] = [i \in kept |-> vec[f][i]]
    <3> DEFINE mine == {d \in run[p].texts : d.key = f /\ Live(d)}
               keeps == {n \in DOMAIN vec[f] : \E d \in mine : n \in Numbers(d.text)}
    <3>1. vec'[f] = [i \in keeps |-> vec[f][i]]  BY DEF PruneVectors
    <3> QED  BY <3>1
  <2>2. vec[f] = <<>>  BY DEF TablesCohere
  <2>3. kept = {}  BY <2>1, <2>2
  <2> QED  BY <2>1, <2>3
<1> QED  BY <1>1, <1>2 DEF TablesCohere, Rows

LEMMA StepCoheres ==
    ASSUME Typed, TablesCohere, [Next]_vars
    PROVE  TablesCohere'
<1>1. ASSUME NEW p \in Procs, Sync(p) PROVE TablesCohere'
  <2> USE CoheresUnchanged DEF Ends, Reads, tables
  <2>1. CASE ScanRoot(p)  BY <2>1 DEF ScanRoot
  <2>2. CASE Prune(p)  BY <2>2, PruneCoheres
  <2>3. CASE LoadOwners(p)  BY <2>3 DEF LoadOwners
  <2>4. CASE ReadText(p)  BY <2>4 DEF ReadText
  <2>5. CASE ReadSum(p)  BY <2>5 DEF ReadSum
  <2>6. CASE Upsert(p)  BY <2>6, UpsertCoheres
  <2>7. CASE Resolve(p)  BY <2>7, ResolveCoheres
  <2>8. CASE RebuildText(p)  BY <2>8 DEF RebuildText
  <2>9. CASE ReadTexts(p)  BY <2>9 DEF ReadTexts
  <2>10. CASE ReadHashes(p)  BY <2>10 DEF ReadHashes
  <2>11. CASE WriteChunks(p)  BY <2>11, WriteCoheres
  <2>12. CASE PruneVectors(p)  BY <2>12, PruneVectorsCoheres
  <2>13. CASE Finish(p)  BY <2>13 DEF Finish
  <2> QED
    BY <1>1, <2>1, <2>2, <2>3, <2>4, <2>5, <2>6, <2>7, <2>8, <2>9, <2>10, <2>11, <2>12, <2>13 DEF Sync
<1>2. CASE StartCycle \/ StartCli \/ Environment
  BY <1>2, CoheresUnchanged DEF StartCycle, StartCli, Begin, Environment, WriteFile, RemoveFile, Lock,
    Unmount, Changes, Fault, tables
<1>3. CASE UNCHANGED vars  BY <1>3, CoheresUnchanged DEF vars
<1> QED  BY <1>1, <1>2, <1>3 DEF Next, Procs

LEMMA CohereInit == ASSUME Init PROVE CohereInv
<1>0. disk \in [Files -> Sums]  BY FilesAssumption DEF Init, Sums
<1>1. Typed  BY <1>0 DEF Init, Typed, RunType, Procs
<1>2. TablesCohere  BY DEF Init, TablesCohere, Rows
<1> QED  BY <1>1, <1>2 DEF CohereInv

\* Whatever two syncs interleave, whichever dies between two transactions and
\* whatever changes on disk meanwhile: no two entities have one permalink, every
\* edge leads to an entity that exists and every chunk belongs to one
\* (delete_entities and its foreign keys, upsert_entities, resolve_relations,
\* write_chunks and the vector prune).
THEOREM TablesAlwaysCohere == Spec => []TablesCohere
<1>1. Init => CohereInv  BY CohereInit
<1>2. CohereInv /\ [Next]_vars => CohereInv'  BY NextTyped, StepCoheres DEF CohereInv
<1>3. CohereInv => TablesCohere  BY DEF CohereInv
<1> QED  BY <1>1, <1>2, <1>3, PTL DEF Spec
-----------------------------------------------------------------------------
(* What a sync prunes *)

\* A file that has been on disk since a sync began is found once its root is scanned.
Seen(p, r) ==
    r.pc = "walk" =>
        \A f \in steady[p] :
            RootOf(f) \in Range(r.roots) /\ RootOf(f) \notin Range(r.walk) => f \in r.found
PruneInv ==
    /\ Typed
    /\ \A p \in Procs : \A f \in steady[p] : disk[f] # None
    /\ \A p \in Procs : Seen(p, run[p])

LEMMA RangeOfTail ==
    ASSUME NEW S, NEW s \in Seq(S), s # <<>>
    PROVE  \A x \in Range(s) : x = Head(s) \/ x \in Range(Tail(s))
<1> SUFFICES ASSUME NEW i \in 1..Len(s), s[i] # Head(s) PROVE s[i] \in Range(Tail(s))
  BY DEF Range
<1>1. i - 1 \in 1..Len(Tail(s)) /\ Tail(s)[i - 1] = s[i]  OBVIOUS
<1>2. DOMAIN Tail(s) = 1..Len(Tail(s))  OBVIOUS
<1> QED  BY <1>1, <1>2 DEF Range

LEMMA PruneInvStep ==
    ASSUME PruneInv, [Next]_vars
    PROVE  PruneInv'
<1>0. Typed'  BY NextTyped DEF PruneInv
<1>1. \A q \in Procs : \A f \in steady'[q] : disk'[f] # None
  <2>1. CASE \E p \in Procs : Sync(p) \/ Fault(p)
    <3>1. UNCHANGED <<disk, steady>>
      BY ZenonT(40), <2>1 DEF Sync, ScanRoot, Prune, LoadOwners, ReadText, ReadSum, Upsert, Resolve, RebuildText,
        ReadTexts, ReadHashes, WriteChunks, PruneVectors, Finish, Fault, Ends, Reads, world
    <3> QED  BY <3>1 DEF PruneInv
  <2>2. CASE StartCycle \/ StartCli
    <3>1. PICK p \in Procs : /\ steady' = [steady EXCEPT ![p] = {f \in Files : disk[f] # None}]
                             /\ UNCHANGED disk
      BY <2>2 DEF StartCycle, StartCli, Begin, Procs, world
    <3> QED  BY <3>1 DEF PruneInv, Typed
  <2>3. CASE \E f \in Files : \E c \in Contents : WriteFile(f, c)
    <3>1. PICK f \in Files, c \in Contents : disk' = [disk EXCEPT ![f] = c] /\ UNCHANGED steady
      BY <2>3 DEF WriteFile
    <3> QED  BY <3>1, NoneIsNoRow DEF PruneInv, Typed
  <2>4. CASE \E f \in Files : RemoveFile(f)
    <3>1. PICK f \in Files : /\ disk' = [disk EXCEPT ![f] = None]
                             /\ steady' = [p \in Procs |-> steady[p] \ {f}]
      BY <2>4 DEF RemoveFile
    <3> QED  BY <3>1 DEF PruneInv, Typed
  <2>5. CASE UNCHANGED <<disk, steady>>  BY <2>5 DEF PruneInv
  <2> QED
    BY <2>1, <2>2, <2>3, <2>4, <2>5 DEF Next, Environment, Lock, Unmount, vars, Procs
<1>2. \A q \in Procs : Seen(q, run[q])'
  <2> SUFFICES ASSUME NEW q \in Procs PROVE Seen(q, run[q])'  OBVIOUS
  <2> USE DEF Seen
  <2>1. ASSUME NEW p \in Procs, NEW r, Go(p, r), UNCHANGED steady, r.pc = "walk" => Seen(p, r)
        PROVE  Seen(q, run[q])'
    BY <2>1 DEF PruneInv, Typed, Go
  <2>2. CASE \E p \in Procs : ScanRoot(p)
    <3>1. PICK p \in Procs : ScanRoot(p)  BY <2>2
    <3>2. CASE Head(run[p].walk) \in gone
      BY <2>1, <3>1, <3>2 DEF ScanRoot, Ends, Reads, Idle
    <3>3. CASE Head(run[p].walk) \notin gone
      <4> DEFINE here == Listing(Head(run[p].walk))
                 r == [run[p] EXCEPT !.walk = Tail(@), !.found = @ \cup here,
                          !.todo = @ \cup {f \in here : Wanted(p, f)}]
      <4>1. Go(p, r) /\ UNCHANGED steady  BY <3>1, <3>3 DEF ScanRoot, Reads
      <4>2. WalkType(run[p]) /\ run[p].walk # <<>> /\ run[p].pc = "walk"
        <5>1. RunType(run[p])  BY DEF PruneInv, Typed
        <5> QED  BY <3>1, <5>1 DEF ScanRoot, At, RunType, ParseType, SumType, WriteType, Idle
      <4> HIDE DEF here
      <4>3. r.walk = Tail(run[p].walk) /\ r.found = run[p].found \cup here /\ r.roots = run[p].roots
        BY <4>2 DEF WalkType, IsRecord
      <4> HIDE DEF r
      <4>4. ASSUME NEW f \in steady[p], RootOf(f) \in Range(r.roots), RootOf(f) \notin Range(r.walk)
            PROVE  f \in r.found
        <5>1. f \in Files /\ disk[f] # None  BY DEF PruneInv, Typed
        <5>2. CASE RootOf(f) \notin Range(run[p].walk)
          BY <4>2, <4>3, <4>4, <5>2 DEF PruneInv
        <5>3. CASE RootOf(f) \in Range(run[p].walk)
          <6>1. RootOf(f) = Head(run[p].walk)
            BY <4>2, <4>3, <4>4, <5>3, RangeOfTail DEF WalkType
          <6>2. f \in here  BY <5>1, <6>1 DEF here, Listing, Keys
          <6> QED  BY <4>3, <6>2
        <5> QED  BY <5>2, <5>3
      <4> QED  BY <2>1, <4>1, <4>4
    <3> QED  BY <3>2, <3>3
  <2>3. CASE \E p \in Procs : Sync(p) /\ ~ScanRoot(p)
    <3>1. PICK p \in Procs : Sync(p) /\ ~ScanRoot(p)  BY <2>3
    <3>2. UNCHANGED steady
      BY <3>1 DEF Sync, Prune, LoadOwners, ReadText, ReadSum, Upsert, Resolve, RebuildText,
        ReadTexts, ReadHashes, WriteChunks, PruneVectors, Finish, Ends, Reads
    <3>3. \E r : Go(p, r) /\ r.pc # "walk"
      <4>0. RunType(run[p])  BY DEF PruneInv, Typed
      <4>1. CASE Ends(p)  BY <4>1 DEF Ends, Idle
      <4>2. CASE Prune(p) 
        <5>1. WalkType(run[p])
          BY <4>0, <4>2 DEF Prune, At, RunType, ParseType, SumType, WriteType, Idle
        <5> DEFINE r == [run[p] EXCEPT !.pc = "owners"]
        <5>2. Go(p, r)  BY <4>2 DEF Prune
        <5>3. r.pc = "owners"  BY <5>1 DEF WalkType, IsRecord
        <5> QED  BY <5>2, <5>3
      <4>3. CASE ReadText(p) \/ Upsert(p)
        <5>1. ParseType(run[p]) /\ run[p].pc = "parse"
          BY <4>0, <4>3 DEF ReadText, Upsert, At, RunType, WalkType, ParseType, SumType, WriteType, Idle
        <5>2. \A x : [run[p] EXCEPT !.todo = x].pc = "parse" /\ [run[p] EXCEPT !.batch = x].pc = "parse"
          BY <5>1 DEF ParseType, IsRecord
        <5>3. CASE ReadText(p)
          <6> DEFINE f == First(run[p].todo)
                     s == [pc |-> "sum", roots |-> run[p].roots, todo |-> run[p].todo,
                           owners |-> run[p].owners, batch |-> run[p].batch, text |-> disk[f]]
          <6>1. Go(p, IF ~Readable(f) THEN [run[p] EXCEPT !.todo = @ \ {f}] ELSE s)
            BY <5>3 DEF ReadText
          <6>2. s.pc = "sum"  OBVIOUS
          <6> HIDE DEF f, s
          <6> QED  BY <5>2, <6>1, <6>2
        <5>4. CASE Upsert(p)  BY <4>1, <5>2, <5>4 DEF Upsert
        <5> QED  BY <4>3, <5>3, <5>4
      <4>4. CASE WriteChunks(p) /\ ~Ends(p)
        <5>1. WriteType(run[p]) /\ run[p].pc = "write"
          BY <4>0, <4>4 DEF WriteChunks, At, RunType, WalkType, ParseType, SumType, WriteType, Idle
        <5>2. \A x : [run[p] EXCEPT !.puts = x].pc = "write"  BY <5>1 DEF WriteType, IsRecord
        <5>3. PICK x : Go(p, [run[p] EXCEPT !.puts = x])  BY <4>4 DEF WriteChunks
        <5> QED  BY <5>2, <5>3
      <4>5. CASE ReadSum(p)  BY <4>1, <4>5 DEF ReadSum
      <4>6. CASE LoadOwners(p) \/ Resolve(p) \/ RebuildText(p) \/ ReadTexts(p) \/ ReadHashes(p)
                 \/ PruneVectors(p)
        BY <4>6 DEF LoadOwners, Resolve, RebuildText, ReadTexts, ReadHashes, PruneVectors
      <4> QED  BY <3>1, <4>1, <4>2, <4>3, <4>4, <4>5, <4>6 DEF Sync, Finish
    <3> QED  BY <2>1, <3>2, <3>3
  <2>4. CASE StartCycle \/ StartCli
    <3>0. PICK p \in Procs : \E roots, full : Begin(p, roots, full)
      BY <2>4 DEF StartCycle, StartCli, Procs
    <3>1. PICK roots, full : Begin(p, roots, full)  BY <3>0
    <3> DEFINE before == [f \in Files |-> IF entity[f] = None THEN None ELSE entity[f].sum]
               r == [pc |-> "walk", roots |-> roots, full |-> full, before |-> before,
                     walk |-> roots, found |-> {}, todo |-> {}]
    <3>2. run' = [run EXCEPT ![p] = r]
          /\ steady' = [steady EXCEPT ![p] = {f \in Files : disk[f] # None}]
      BY <3>1 DEF Begin
    <3> HIDE DEF before
    <3>3. r.roots = r.walk  OBVIOUS
    <3> HIDE DEF r
    <3> QED  BY <3>2, <3>3 DEF PruneInv, Typed
  <2>5. CASE \E f \in Files : (\E c \in Contents : WriteFile(f, c)) \/ RemoveFile(f) \/ Lock(f)
    <3>1. UNCHANGED run /\ \A p \in Procs : steady'[p] \subseteq steady[p]
      BY <2>5 DEF WriteFile, RemoveFile, Lock, Changes
    <3> QED  BY <3>1 DEF PruneInv
  <2>6. CASE \E p \in Procs : Fault(p)
    BY <2>1, <2>6 DEF Fault, Idle
  <2>7. CASE UNCHANGED <<run, steady>>  BY <2>7 DEF PruneInv
  <2> QED
    BY <2>2, <2>3, <2>4, <2>5, <2>6, <2>7 DEF Next, Environment, Unmount, Changes, vars, Procs
<1> QED  BY <1>0, <1>1, <1>2 DEF PruneInv

\* The step that takes a row away.
LEMMA OnlyPruneRemoves ==
    ASSUME PruneInv, [Next]_vars, NEW f \in Rows, entity'[f] = None
    PROVE  \E p \in Procs : Prune(p) /\ f \in Departed(p)
<1>1. ASSUME NEW p \in Procs, Upsert(p) PROVE FALSE
  <2> DEFINE batch == run[p].batch
             n == Len(batch)
  <2>0. RunType(run[p])  BY DEF PruneInv, Typed
  <2>1. ParseType(run[p])
    BY <1>1, <2>0 DEF Upsert, At, RunType, WalkType, ParseType, SumType, WriteType, Idle
  <2>2. batch \in Seq([key : Files, row : RowType]) /\ entity \in [Files -> RowType \cup {None}]
    BY <2>1 DEF ParseType, PruneInv, Typed
  <2>3. f \in Files /\ entity[f] # None  BY DEF Rows
  <2>4. entity' = Upserted(batch, n)
    BY <1>1, <2>3 DEF Upsert, Ends, Reads, tables
  <2>5. n \in Nat /\ n <= Len(batch)  BY <2>2
  <2>6. \A i \in 1..n : batch[i].row # None
    <3> DEFINE Statement == [key : Files, row : RowType]
    <3>1. \A i \in 1..n : batch[i] \in Statement
      <4>1. batch \in Seq(Statement)  BY <2>2
      <4> HIDE DEF batch, Statement
      <4> QED  BY <4>1
    <3> QED  BY <3>1, NoneIsNoRow
  <2> HIDE DEF n, batch
  <2>7. \/ Upserted(batch, n)[f] = entity[f]
        \/ \E i \in 1..n : Upserted(batch, n)[f] = batch[i].row
    BY ZenonT(40), <2>2, <2>3, <2>5, UpsertedIs
  <2> QED  BY <2>3, <2>4, <2>6, <2>7
<1>2. entity' # entity /\ f \in Files  BY DEF Rows
<1>3. PICK p \in Procs : Prune(p)
  BY <1>1, <1>2 DEF Next, Sync, StartCycle, StartCli, Begin, ScanRoot, LoadOwners, ReadText, ReadSum,
    Resolve, RebuildText, ReadTexts, ReadHashes, WriteChunks, PruneVectors, Finish, Ends, Reads,
    Environment, WriteFile, RemoveFile, Lock, Unmount, Changes, Fault, tables, vars, Procs
<1>4. entity' = [g \in Files |-> IF g \in Departed(p) THEN None ELSE entity[g]]
  BY <1>3 DEF Prune
<1> QED  BY <1>2, <1>3, <1>4 DEF Rows

\* A row is removed only by the prune of a sync that walked its root, and only
\* if its file was away at some moment of that sync: no root that is unmounted,
\* no file that cannot be read and no narrowed walk loses a row
\* (sync_index, _scan_roots, _discover).
THEOREM PrunesOnlyTheDeparted == Spec => PrunesOnlyDeparted
<1>1. ASSUME PruneInv, [Next]_vars
      PROVE  [\A f \in Rows : entity'[f] = None =>
                 \E p \in Procs : /\ At(p, "walk") /\ run'[p].pc = "owners"
                                  /\ RootOf(f) \in Range(run[p].roots) /\ f \notin steady[p]]_vars
  <2> SUFFICES ASSUME NEW f \in Rows, entity'[f] = None
               PROVE  \E p \in Procs : /\ At(p, "walk") /\ run'[p].pc = "owners"
                                       /\ RootOf(f) \in Range(run[p].roots) /\ f \notin steady[p]
    OBVIOUS
  <2>1. PICK p \in Procs : Prune(p) /\ f \in Departed(p)  BY <1>1, OnlyPruneRemoves
  <2>2. RunType(run[p])  BY <1>1 DEF PruneInv, Typed
  <2>3. WalkType(run[p]) /\ At(p, "walk") /\ run[p].walk = <<>>
    BY <2>1, <2>2 DEF Prune, At, RunType, WalkType, ParseType, SumType, WriteType, Idle
  <2>4. RootOf(f) \in Range(run[p].roots) /\ f \notin run[p].found
    BY <2>1 DEF Departed, Keys
  <2>5. Range(run[p].walk) = {}  BY <2>3 DEF Range
  <2>6. f \notin steady[p]
    BY <1>1, <2>3, <2>4, <2>5 DEF PruneInv, Seen, At
  <2>7. run'[p].pc = "owners"
    <3> DEFINE r == [run[p] EXCEPT !.pc = "owners"]
    <3>1. run' = [run EXCEPT ![p] = r]  BY <2>1 DEF Prune, Go
    <3>2. r.pc = "owners"  BY <2>3 DEF WalkType, IsRecord
    <3> HIDE DEF r
    <3>3. DOMAIN run = Procs  BY <1>1 DEF PruneInv, Typed
    <3> QED  BY <3>1, <3>2, <3>3
  <2> QED  BY <2>3, <2>4, <2>6, <2>7
<1>2. Init => PruneInv
  <2> SUFFICES ASSUME Init PROVE PruneInv  OBVIOUS
  <2>1. Typed  BY CohereInit DEF CohereInv
  <2> QED  BY <2>1 DEF Init, PruneInv, Seen, Idle
<1>3. PruneInv /\ [Next]_vars => PruneInv'  BY PruneInvStep
<1> QED  BY <1>1, <1>2, <1>3, PTL DEF Spec, PrunesOnlyDeparted
-----------------------------------------------------------------------------
(* The mirror *)

\* A checksum is that of the text beside it, in the table and in a batch; between
\* the two reads of a file it may vanish but not change.
SumsOf(r) ==
    /\ r.pc \in {"parse", "sum"} => \A i \in DOMAIN r.batch : r.batch[i].row.sum = r.batch[i].row.text
    /\ r.pc = "sum" => disk[First(r.todo)] \in {r.text, None}
SumsName == ChecksumNamesText /\ \A p \in Procs : SumsOf(run[p])

Current(f) == entity[f] # None /\ entity[f].sum = disk[f]

\* The roots scanned: what is there has been found, and what is stale is listed.
Walked(r) ==
    /\ \A f \in Files : r.before[f] = IF entity[f] = None THEN None ELSE entity[f].sum
    /\ \A f \in r.found : disk[f] # None
    /\ \A f \in Files : RootOf(f) \in Range(r.roots) /\ RootOf(f) \notin Range(r.walk) =>
          /\ RootOf(f) \notin gone
          /\ disk[f] # None => f \in r.found /\ (f \in locked \/ f \in r.todo \/ Current(f))

\* The roots pruned: what is stale is listed or in the batch, and the rest is right.
Pruned(r, batch) ==
    /\ \A i \in DOMAIN batch : batch[i].row.sum = disk[batch[i].key]
    /\ \A f \in Keys(Range(r.roots)) :
          /\ RootOf(f) \notin gone
          /\ disk[f] = None => entity[f] = None
          /\ disk[f] # None => \/ f \in locked \/ f \in r.todo \/ Current(f)
                               \/ \E i \in DOMAIN batch : batch[i].key = f

\* The hashes read: a chunk is stored as the text has it, or is due to be.
ChunksDue(r) ==
    /\ \A x \in r.puts : x.n \in Numbers(x.doc.text)
    /\ \A f \in Rows : \A i \in Numbers(entity[f].text) :
          \/ i \in DOMAIN vec[f] /\ vec[f][i] = entity[f].text.chunks[i]
          \/ \E x \in r.puts : x.doc.key = f /\ x.n = i

\* What a sync that nothing disturbed has made at each stage.
Made(r) ==
    /\ r.pc = "walk" => Walked(r)
    /\ r.pc = "owners" => Pruned(r, <<>>)
    /\ r.pc \in {"parse", "sum"} => Pruned(r, r.batch)
    /\ r.pc \in {"text", "vectors", "hashes", "write", "done"} =>
          RowsMirror(Range(r.roots)) /\ EdgesResolved
    /\ r.pc \in {"vectors", "hashes", "write", "done"} => TextMirrors
    /\ r.pc \in {"hashes", "write"} => r.texts = fts
    /\ r.pc = "write" => ChunksDue(r)
    /\ r.pc = "done" => VectorsMirror

MirrorInv == Typed /\ SumsName /\ \A p \in quiet : Made(run[p])

\* A step of a process keeps all this if what it goes on with does.
LEMMA MirrorGo ==
    ASSUME Typed, SumsName, \A q \in quiet : Made(run[q]), Typed',
           NEW p \in Procs, NEW r, r = run'[p], Go(p, r), UNCHANGED disk,
           ChecksumNamesText', SumsOf(r), p \in quiet => Made(r)'
    PROVE  MirrorInv'
<1>1. run' = [run EXCEPT ![p] = r] /\ quiet' \subseteq quiet \cap {p}
  BY DEF Go, Typed
<1>2. \A q \in Procs : SumsOf(run[q])'
  <2> SUFFICES ASSUME NEW q \in Procs PROVE SumsOf(run[q])'  OBVIOUS
  <2>1. run'[q] = IF q = p THEN r ELSE run[q]  BY <1>1 DEF Typed
  <2> QED  BY <2>1 DEF SumsName, SumsOf
<1>3. \A q \in quiet' : Made(run[q])'
  <2> SUFFICES ASSUME p \in quiet PROVE Made(run[p])'  BY <1>1
  <2>1. Made(r)'  OBVIOUS
  <2> QED  BY SMTT(40), <2>1 DEF Made, Walked, Pruned, ChunksDue, RowsMirror, Current
<1> QED  BY <1>2, <1>3 DEF MirrorInv, SumsName

LEMMA MirrorEnds ==
    ASSUME MirrorInv, Typed', NEW p \in Procs, Ends(p)
    PROVE  MirrorInv'
<1> PICK r : r = run'[p]  OBVIOUS
<1>1. r = Idle /\ Go(p, r) /\ UNCHANGED <<disk, entity>>
  BY DEF MirrorInv, Ends, Typed, Go, Reads, tables, world
<1>2. SumsOf(r) /\ Made(r)'  BY <1>1 DEF SumsOf, Made, Idle
<1>3. ChecksumNamesText'  BY <1>1 DEF MirrorInv, SumsName, ChecksumNamesText, Rows
<1> QED  BY <1>1, <1>2, <1>3, MirrorGo DEF MirrorInv

LEMMA MirrorScan ==
    ASSUME MirrorInv, Typed', NEW p \in Procs, ScanRoot(p)
    PROVE  MirrorInv'
<1>1. CASE Head(run[p].walk) \in gone
  BY <1>1, MirrorEnds DEF ScanRoot
<1>2. CASE Head(run[p].walk) \notin gone
  <2>0. RunType(run[p]) /\ run = [q \in Procs |-> run[q]]  BY DEF MirrorInv, Typed
  <2>1. WalkType(run[p]) /\ run[p].walk # <<>> /\ run[p].pc = "walk"
    BY <2>0 DEF ScanRoot, At, RunType, ParseType, SumType, WriteType, Idle
  <2> DEFINE root == Head(run[p].walk)
             here == Listing(root)
             more == {f \in here : Wanted(p, f)}
  <2> PICK r : r = run'[p]  OBVIOUS
  <2>2. r = [run[p] EXCEPT !.walk = Tail(@), !.found = @ \cup here, !.todo = @ \cup more]
        /\ Go(p, r) /\ Reads(p)
    BY <1>2, <2>0 DEF ScanRoot, Go
  <2> HIDE DEF here, more
  <2>3. /\ r.walk = Tail(run[p].walk) /\ r.found = run[p].found \cup here
        /\ r.todo = run[p].todo \cup more
        /\ r.pc = "walk" /\ r.roots = run[p].roots /\ r.before = run[p].before
    BY <2>1, <2>2 DEF WalkType, IsRecord
  <2>4. UNCHANGED <<disk, locked, gone, entity>>  BY <2>2 DEF Reads, tables, world
  <2>5. ASSUME p \in quiet PROVE Walked(r)'
    <3>1. Walked(run[p])  BY <2>1, <2>5 DEF MirrorInv, Made
    <3>2. \A f \in Files : r.before[f] = IF entity'[f] = None THEN None ELSE entity'[f].sum
      BY <2>3, <2>4, <3>1 DEF Walked
    <3>3. \A f \in r.found : disk'[f] # None
      BY <2>3, <2>4, <3>1 DEF Walked, here, Listing
    <3>4. ASSUME NEW f \in Files, RootOf(f) \in Range(r.roots), RootOf(f) \notin Range(r.walk)
          PROVE  /\ RootOf(f) \notin gone
                 /\ disk[f] # None => f \in r.found /\ (f \in locked \/ f \in r.todo \/ Current(f))
      <4>1. CASE RootOf(f) \notin Range(run[p].walk)
        BY <2>3, <3>1, <3>4, <4>1 DEF Walked
      <4>2. CASE RootOf(f) \in Range(run[p].walk)
        <5>1. RootOf(f) = root
          BY <2>1, <2>3, <3>4, <4>2, RangeOfTail DEF WalkType
        <5>2. RootOf(f) \notin gone  BY <1>2, <5>1
        <5>3. ASSUME disk[f] # None PROVE f \in here
          BY <5>1, <5>3 DEF here, Listing, Keys
        <5>4. ASSUME disk[f] # None, f \notin locked, f \notin more PROVE Current(f)
          <6>1. ~Wanted(p, f)  BY <5>3, <5>4 DEF more
          <6>2. run[p].before[f] # None /\ disk[f] = run[p].before[f]
            BY <5>2, <5>4, <6>1 DEF Wanted, Readable
          <6> QED  BY <3>1, <6>2 DEF Walked, Current
        <5> QED  BY <2>3, <5>2, <5>3, <5>4
      <4> QED  BY <4>1, <4>2
    <3> QED  BY <2>4, <3>2, <3>3, <3>4 DEF Walked, Current
  <2>6. SumsOf(r) /\ (p \in quiet => Made(r)')  BY <2>3, <2>5 DEF SumsOf, Made
  <2>7. ChecksumNamesText'  BY <2>4 DEF MirrorInv, SumsName, ChecksumNamesText, Rows
  <2> QED  BY <2>2, <2>4, <2>6, <2>7, MirrorGo DEF MirrorInv
<1> QED  BY <1>1, <1>2

LEMMA MirrorPrune ==
    ASSUME MirrorInv, Typed', NEW p \in Procs, Prune(p)
    PROVE  MirrorInv'
<1>0. RunType(run[p]) /\ run = [q \in Procs |-> run[q]]  BY DEF MirrorInv, Typed
<1>1. WalkType(run[p]) /\ run[p].walk = <<>> /\ run[p].pc = "walk"
  BY <1>0 DEF Prune, At, RunType, ParseType, SumType, WriteType, Idle
<1> PICK r : r = run'[p]  OBVIOUS
<1>2. r = [run[p] EXCEPT !.pc = "owners"] /\ Go(p, r)  BY <1>0 DEF Prune, Go
<1>3. r.pc = "owners" /\ r.roots = run[p].roots /\ r.todo = run[p].todo
  BY <1>1, <1>2 DEF WalkType, IsRecord
<1> DEFINE dead == Departed(p)
<1>4. UNCHANGED <<disk, locked, gone>>
      /\ entity' = [f \in Files |-> IF f \in dead THEN None ELSE entity[f]]
  BY DEF Prune, world
<1>5. ASSUME p \in quiet PROVE Pruned(r, <<>>)'
  <2>1. Walked(run[p])  BY <1>1, <1>5 DEF MirrorInv, Made
  <2>2. Range(run[p].walk) = {}  BY <1>1 DEF Range
  <2>3. ASSUME NEW f \in Keys(Range(r.roots))
        PROVE  /\ RootOf(f) \notin gone
               /\ disk[f] = None => entity'[f] = None
               /\ disk[f] # None => f \in locked \/ f \in r.todo
                                    \/ (entity'[f] # None /\ entity'[f].sum = disk[f])
    <3>1. f \in Files /\ RootOf(f) \in Range(run[p].roots)  BY <1>3, <2>3 DEF Keys
    <3>2. /\ RootOf(f) \notin gone
          /\ disk[f] # None =>
                f \in run[p].found /\ (f \in locked \/ f \in run[p].todo \/ Current(f))
      BY <2>1, <2>2, <3>1 DEF Walked
    <3>3. ASSUME disk[f] = None PROVE entity'[f] = None
      <4>1. f \notin run[p].found  BY <2>1, <3>3 DEF Walked
      <4>2. CASE entity[f] = None  BY <1>4, <3>1, <4>2
      <4>3. CASE entity[f] # None
        <5>1. run[p].before[f] = entity[f].sum  BY <2>1, <3>1, <4>3 DEF Walked
        <5>2. entity[f].sum \in Contents  BY <3>1, <4>3 DEF MirrorInv, Typed, RowType
        <5>3. f \in dead  BY <3>1, <4>1, <5>1, <5>2, NoneIsNoRow DEF Departed, Keys
        <5> QED  BY <1>4, <3>1, <5>3
      <4> QED  BY <4>2, <4>3
    <3>4. ASSUME disk[f] # None PROVE entity'[f] = entity[f]
      BY <1>4, <3>1, <3>2, <3>4 DEF Departed
    <3> QED  BY <1>3, <3>2, <3>3, <3>4 DEF Current
  <2> HIDE DEF dead
  <2>4. Keys(Range(r.roots))' = Keys(Range(r.roots))  BY DEF Keys
  <2> QED  BY <1>4, <2>3, <2>4 DEF Pruned, Current
<1>6. SumsOf(r) /\ (p \in quiet => Made(r)')  BY <1>3, <1>5 DEF SumsOf, Made
<1>7. ChecksumNamesText'
  <2>1. \A f \in Files : entity'[f] # None => entity'[f] = entity[f] /\ entity[f] # None
    BY <1>4
  <2> QED  BY <2>1 DEF MirrorInv, SumsName, ChecksumNamesText, Rows
<1> QED  BY <1>2, <1>4, <1>6, <1>7, MirrorGo DEF MirrorInv

LEMMA MirrorOwners ==
    ASSUME MirrorInv, Typed', NEW p \in Procs, LoadOwners(p)
    PROVE  MirrorInv'
<1>0. run = [q \in Procs |-> run[q]]  BY DEF MirrorInv, Typed
<1> PICK r : r = run'[p]  OBVIOUS
<1>1. /\ Go(p, r) /\ UNCHANGED <<disk, locked, gone, entity>> /\ run[p].pc = "owners"
      /\ r.pc = "parse" /\ r.roots = run[p].roots /\ r.todo = run[p].todo /\ r.batch = <<>>
  <2> DEFINE owners == [m \in {entity[f].perma : f \in Rows} |-> CHOOSE f \in Rows : entity[f].perma = m]
             s == [pc |-> "parse", roots |-> run[p].roots, todo |-> run[p].todo, batch |-> <<>>,
                   owners |-> owners]
  <2>1. Go(p, s) /\ Reads(p) /\ run[p].pc = "owners"  BY DEF LoadOwners, At
  <2> HIDE DEF owners
  <2>2. s.pc = "parse" /\ s.roots = run[p].roots /\ s.todo = run[p].todo /\ s.batch = <<>>  OBVIOUS
  <2> HIDE DEF s
  <2>3. r = s  BY <1>0, <2>1 DEF Go
  <2> QED  BY <2>1, <2>2, <2>3 DEF Reads, tables, world
<1>2. ASSUME p \in quiet PROVE Pruned(r, r.batch)'
  <2>1. Pruned(run[p], <<>>)  BY <1>1, <1>2 DEF MirrorInv, Made
  <2> QED  BY <1>1, <2>1 DEF Pruned, Keys, Current
<1>3. SumsOf(r) /\ (p \in quiet => Made(r)')  BY <1>1, <1>2 DEF SumsOf, Made
<1>4. ChecksumNamesText'  BY <1>1 DEF MirrorInv, SumsName, ChecksumNamesText, Rows
<1> QED  BY <1>1, <1>3, <1>4, MirrorGo DEF MirrorInv

\* What a process holds while it parses, and its next file.
LEMMA Parsing ==
    ASSUME Typed, NEW p \in Procs, run[p].pc = "parse" \/ run[p].pc = "sum"
    PROVE  /\ run[p].todo \subseteq Files
           /\ run[p].batch \in Seq([key : Files, row : RowType])
           /\ run[p].pc = "parse" => ParseType(run[p])
           /\ run[p].todo # {} => First(run[p].todo) \in Files
<1>1. RunType(run[p])  BY DEF Typed
<1>2. (run[p].pc = "parse" /\ ParseType(run[p])) \/ (run[p].pc = "sum" /\ SumType(run[p]))
  BY <1>1 DEF RunType, Idle
<1>3. run[p].todo \subseteq Files /\ run[p].batch \in Seq([key : Files, row : RowType])
  BY <1>2 DEF ParseType, SumType
<1>4. run[p].todo # {} => First(run[p].todo) \in Files  BY <1>3, FirstOf
<1> QED  BY <1>2, <1>3, <1>4

LEMMA MirrorText ==
    ASSUME MirrorInv, Typed', NEW p \in Procs, ReadText(p)
    PROVE  MirrorInv'
<1> PICK r : r = run'[p]  OBVIOUS
<1> DEFINE f == First(run[p].todo)
           s == [pc |-> "sum", roots |-> run[p].roots, todo |-> run[p].todo,
                 owners |-> run[p].owners, batch |-> run[p].batch, text |-> disk[f]]
           t == [run[p] EXCEPT !.todo = @ \ {f}]
<1>1. /\ run[p].pc = "parse" /\ run[p].todo # {} /\ UNCHANGED <<disk, locked, gone, entity>>
      /\ Go(p, IF ~Readable(f) THEN t ELSE s)
  BY DEF ReadText, At, Reads, tables, world
<1>2. ParseType(run[p]) /\ f \in Files  BY <1>1, Parsing DEF MirrorInv
<1>3. s.pc = "sum" /\ s.roots = run[p].roots /\ s.todo = run[p].todo /\ s.batch = run[p].batch
      /\ s.text = disk[f]
  OBVIOUS
<1>4. t.pc = "parse" /\ t.roots = run[p].roots /\ t.todo = run[p].todo \ {f} /\ t.batch = run[p].batch
  BY <1>1, <1>2 DEF ParseType, IsRecord
<1> HIDE DEF f, s, t
<1>5. r = (IF ~Readable(f) THEN t ELSE s) /\ Go(p, r)
  BY <1>1 DEF Go, MirrorInv, Typed
<1>6. /\ r.pc \in {"parse", "sum"} /\ r.roots = run[p].roots /\ r.batch = run[p].batch
      /\ r.todo = run[p].todo \/ (~Readable(f) /\ r.todo = run[p].todo \ {f})
      /\ r.pc = "sum" => r.todo = run[p].todo /\ r.text = disk[f]
  BY <1>3, <1>4, <1>5
<1>7. ASSUME p \in quiet PROVE Pruned(r, r.batch)'
  <2>1. Pruned(run[p], run[p].batch)  BY <1>1, <1>7 DEF MirrorInv, Made
  <2>2. ASSUME NEW g \in Keys(Range(r.roots))
        PROVE  /\ RootOf(g) \notin gone
               /\ disk[g] = None => entity[g] = None
               /\ disk[g] # None => \/ g \in locked \/ g \in r.todo \/ Current(g)
                                    \/ \E i \in DOMAIN r.batch : r.batch[i].key = g
    <3>1. /\ RootOf(g) \notin gone
          /\ disk[g] = None => entity[g] = None
          /\ disk[g] # None => \/ g \in locked \/ g \in run[p].todo \/ Current(g)
                               \/ \E i \in DOMAIN run[p].batch : run[p].batch[i].key = g
      BY <1>6, <2>1, <2>2 DEF Pruned
    <3>2. g \in run[p].todo /\ g \notin r.todo => g = f /\ ~Readable(f)  BY <1>6
    <3> QED  BY <1>6, <3>1, <3>2 DEF Readable
  <2> QED  BY <1>1, <1>6, <2>1, <2>2 DEF Pruned, Keys, Current
<1>8. SumsOf(run[p])  BY DEF MirrorInv, SumsName
<1>9. SumsOf(r)  BY <1>1, <1>6, <1>8 DEF SumsOf, f
<1>10. p \in quiet => Made(r)'  BY <1>6, <1>7 DEF Made
<1>11. ChecksumNamesText'  BY <1>1 DEF MirrorInv, SumsName, ChecksumNamesText, Rows
<1> QED  BY <1>1, <1>5, <1>9, <1>10, <1>11, MirrorGo DEF MirrorInv

LEMMA MirrorSum ==
    ASSUME MirrorInv, Typed', NEW p \in Procs, ReadSum(p)
    PROVE  MirrorInv'
<1> DEFINE f == First(run[p].todo)
<1>1. CASE ~Readable(f)  BY <1>1, MirrorEnds DEF ReadSum
<1>2. CASE Readable(f)
  <2> PICK r : r = run'[p]  OBVIOUS
  <2> DEFINE m == Permalink(f, run[p].text, run[p].owners)
             owners == [x \in DOMAIN run[p].owners \cup {m} |-> IF x = m THEN f ELSE run[p].owners[x]]
             e == [key |-> f, row |-> [text |-> run[p].text, sum |-> disk[f], perma |-> m]]
             more == Append(run[p].batch, e)
             s == [pc |-> "parse", roots |-> run[p].roots, todo |-> run[p].todo \ {f},
                   owners |-> owners, batch |-> more]
  <2>1. run[p].pc = "sum" /\ UNCHANGED <<disk, locked, gone, entity>> /\ Go(p, s)
    BY <1>2 DEF ReadSum, At, Reads, tables, world
  <2>2. r = s /\ Go(p, r)  BY <2>1 DEF Go, MirrorInv, Typed
  <2>3. e.key = f /\ e.row.sum = disk[f] /\ e.row.text = run[p].text  OBVIOUS
  <2>4. run[p].batch \in Seq([key : Files, row : RowType])  BY <2>1, Parsing DEF MirrorInv
  <2>5. /\ \A i \in DOMAIN run[p].batch : i \in DOMAIN more /\ more[i] = run[p].batch[i]
        /\ \E i \in DOMAIN more : more[i] = e
        /\ \A i \in DOMAIN more : i \in DOMAIN run[p].batch \/ more[i] = e
    <3> DEFINE n == Len(run[p].batch)
    <3> HIDE DEF e
    <3>1. n \in Nat /\ DOMAIN run[p].batch = 1..n /\ DOMAIN more = 1..(n + 1)  BY <2>4
    <3>2. more[n + 1] = e /\ \A i \in 1..n : more[i] = run[p].batch[i]  BY <2>4
    <3>3. n + 1 \in 1..(n + 1) /\ \A i \in 1..(n + 1) : i \in 1..n \/ i = n + 1  BY <3>1
    <3> HIDE DEF n, more
    <3> QED  BY <3>1, <3>2, <3>3
  <2> HIDE DEF e, owners, m, more
  <2>6. r.pc = "parse" /\ r.roots = run[p].roots /\ r.todo = run[p].todo \ {f} /\ r.batch = more
    BY <2>2
  <2> HIDE DEF f, s
  <2>7. ASSUME p \in quiet PROVE Pruned(r, r.batch)'
    <3>1. Pruned(run[p], run[p].batch)  BY <2>1, <2>7 DEF MirrorInv, Made
    <3>2. \A i \in DOMAIN more : more[i].row.sum = disk[more[i].key]
      BY <2>3, <2>5, <3>1 DEF Pruned
    <3>3. ASSUME NEW g \in Keys(Range(r.roots))
          PROVE  /\ RootOf(g) \notin gone
                 /\ disk[g] = None => entity[g] = None
                 /\ disk[g] # None => \/ g \in locked \/ g \in r.todo \/ Current(g)
                                      \/ \E i \in DOMAIN more : more[i].key = g
      <4>1. /\ RootOf(g) \notin gone
            /\ disk[g] = None => entity[g] = None
            /\ disk[g] # None => \/ g \in locked \/ g \in run[p].todo \/ Current(g)
                                 \/ \E i \in DOMAIN run[p].batch : run[p].batch[i].key = g
        BY <2>6, <3>1, <3>3 DEF Pruned
      <4>2. g \in run[p].todo => g \in r.todo \/ \E i \in DOMAIN more : more[i].key = g
        BY <2>3, <2>5, <2>6
      <4>3. (\E i \in DOMAIN run[p].batch : run[p].batch[i].key = g) => \E i \in DOMAIN more : more[i].key = g
        BY <2>5
      <4> QED  BY <4>1, <4>2, <4>3
    <3> QED  BY <2>1, <2>6, <3>2, <3>3 DEF Pruned, Keys, Current
  <2>8. SumsOf(run[p])  BY DEF MirrorInv, SumsName
  <2>9. disk[f] = run[p].text  BY <1>2, <2>1, <2>8 DEF SumsOf, Readable, f
  <2>10. SumsOf(r)
    <3>1. \A i \in DOMAIN more : more[i].row.sum = more[i].row.text
      BY <2>1, <2>3, <2>5, <2>8, <2>9 DEF SumsOf
    <3> QED  BY <2>6, <3>1 DEF SumsOf
  <2>11. p \in quiet => Made(r)'  BY <2>6, <2>7 DEF Made
  <2>12. ChecksumNamesText'  BY <2>1 DEF MirrorInv, SumsName, ChecksumNamesText, Rows
  <2> QED  BY <2>1, <2>2, <2>10, <2>11, <2>12, MirrorGo DEF MirrorInv
<1> QED  BY <1>1, <1>2

\* What an upsert makes of a file's row.
LEMMA UpsertRows ==
    ASSUME Typed, NEW p \in Procs, Upsert(p), ~Collides(run[p].batch), NEW f \in Files
    PROVE  \/ entity'[f] = entity[f] /\ \A i \in DOMAIN run[p].batch : run[p].batch[i].key # f
           \/ \E i \in DOMAIN run[p].batch :
                 /\ run[p].batch[i].key = f /\ entity'[f] = run[p].batch[i].row
                 /\ entity'[f] # None /\ entity'[f].sum # None
<1> DEFINE batch == run[p].batch
           n == Len(batch)
<1>1. run[p].pc = "parse" /\ entity' = Upserted(batch, n)  BY DEF Upsert, At
<1>2. batch \in Seq([key : Files, row : RowType]) /\ entity \in [Files -> RowType \cup {None}]
  BY <1>1, Parsing DEF Typed
<1>3. n \in Nat /\ n <= Len(batch) /\ DOMAIN batch = 1..n  BY <1>2
<1>4. \A i \in 1..n : batch[i].row # None /\ batch[i].row.sum # None
  <2> DEFINE Statement == [key : Files, row : RowType]
  <2>1. \A i \in 1..n : batch[i] \in Statement
    <3>1. batch \in Seq(Statement)  BY <1>2
    <3> HIDE DEF batch, Statement
    <3> QED  BY <3>1
  <2>2. \A i \in 1..n : batch[i].row \in RowType  BY <2>1
  <2>3. \A x \in RowType : x.sum \in Contents  BY DEF RowType
  <2> QED  BY <2>2, <2>3, NoneIsNoRow
<1> HIDE DEF n, batch
<1>5. \/ Upserted(batch, n)[f] = entity[f] /\ \A i \in 1..n : batch[i].key # f
      \/ \E i \in 1..n : batch[i].key = f /\ Upserted(batch, n)[f] = batch[i].row
  BY ZenonT(40), <1>2, <1>3, UpsertedIs
<1>6. \/ entity'[f] = entity[f] /\ \A i \in DOMAIN batch : batch[i].key # f
      \/ \E i \in DOMAIN batch : /\ batch[i].key = f /\ entity'[f] = batch[i].row
                                 /\ entity'[f] # None /\ entity'[f].sum # None
  BY <1>1, <1>3, <1>4, <1>5
<1> QED  BY <1>6 DEF batch

LEMMA MirrorUpsert ==
    ASSUME MirrorInv, Typed', NEW p \in Procs, Upsert(p)
    PROVE  MirrorInv'
<1>1. CASE Collides(run[p].batch)  BY <1>1, MirrorEnds DEF Upsert
<1>2. CASE ~Collides(run[p].batch)
  <2> PICK r : r = run'[p]  OBVIOUS
  <2>1. /\ run[p].pc = "parse" /\ UNCHANGED <<disk, locked, gone>>
        /\ Go(p, [run[p] EXCEPT !.batch = <<>>])
    BY <1>2 DEF Upsert, At, world
  <2>2. ParseType(run[p])  BY <2>1, Parsing DEF MirrorInv
  <2>3. r = [run[p] EXCEPT !.batch = <<>>] /\ Go(p, r)  BY <2>1 DEF Go, MirrorInv, Typed
  <2>4. r.pc = "parse" /\ r.roots = run[p].roots /\ r.todo = run[p].todo /\ r.batch = <<>>
    BY <2>1, <2>2, <2>3 DEF ParseType, IsRecord
  <2>5. \A f \in Files :
           \/ entity'[f] = entity[f] /\ \A i \in DOMAIN run[p].batch : run[p].batch[i].key # f
           \/ \E i \in DOMAIN run[p].batch :
                 /\ run[p].batch[i].key = f /\ entity'[f] = run[p].batch[i].row
                 /\ entity'[f] # None /\ entity'[f].sum # None
    BY <1>2, UpsertRows DEF MirrorInv
  <2>6. ASSUME p \in quiet PROVE Pruned(r, r.batch)'
    <3>1. Pruned(run[p], run[p].batch)  BY <2>1, <2>6 DEF MirrorInv, Made
    <3>2. ASSUME NEW f \in Keys(Range(r.roots))
          PROVE  /\ RootOf(f) \notin gone
                 /\ disk[f] = None => entity'[f] = None
                 /\ disk[f] # None => f \in locked \/ f \in r.todo
                                      \/ (entity'[f] # None /\ entity'[f].sum = disk[f])
      <4>1. /\ f \in Files /\ RootOf(f) \notin gone
            /\ disk[f] = None => entity[f] = None
            /\ disk[f] # None => \/ f \in locked \/ f \in run[p].todo \/ Current(f)
                                 \/ \E i \in DOMAIN run[p].batch : run[p].batch[i].key = f
        BY <2>4, <3>1, <3>2 DEF Pruned, Keys
      <4>2. CASE entity'[f] = entity[f] /\ \A i \in DOMAIN run[p].batch : run[p].batch[i].key # f
        BY <2>4, <4>1, <4>2 DEF Current
      <4>3. ASSUME NEW i \in DOMAIN run[p].batch,
                   run[p].batch[i].key = f, entity'[f] = run[p].batch[i].row,
                   entity'[f] # None, entity'[f].sum # None
            PROVE  disk[f] # None /\ entity'[f] # None /\ entity'[f].sum = disk[f]
        BY <3>1, <4>3 DEF Pruned
      <4> QED  BY <2>5, <4>1, <4>2, <4>3
    <3>3. DOMAIN r.batch = {}  BY <2>4
    <3> QED  BY <2>1, <3>2, <3>3 DEF Pruned, Keys, Current
  <2>7. SumsOf(r) /\ (p \in quiet => Made(r)')  BY <2>4, <2>6 DEF SumsOf, Made
  <2>8. ChecksumNamesText'
    <3> SUFFICES ASSUME NEW f \in Files, entity'[f] # None PROVE entity'[f].sum = entity'[f].text
      BY DEF ChecksumNamesText, Rows
    <3>1. SumsOf(run[p]) /\ ChecksumNamesText  BY DEF MirrorInv, SumsName
    <3> QED  BY <2>1, <2>5, <3>1 DEF SumsOf, ChecksumNamesText, Rows
  <2> QED  BY <2>1, <2>3, <2>7, <2>8, MirrorGo DEF MirrorInv
<1> QED  BY <1>1, <1>2

LEMMA MirrorResolve ==
    ASSUME MirrorInv, Typed', NEW p \in Procs, Resolve(p)
    PROVE  MirrorInv'
<1> PICK r : r = run'[p]  OBVIOUS
<1>1. /\ UNCHANGED <<disk, locked, gone, entity>> /\ run[p].todo = {} /\ run[p].batch = <<>>
      /\ run[p].pc = "parse" /\ Go(p, [pc |-> "text", roots |-> run[p].roots])
  BY DEF Resolve, At, world
<1>2. r = [pc |-> "text", roots |-> run[p].roots] /\ Go(p, r)  BY <1>1 DEF Go, MirrorInv, Typed
<1>3. r.pc = "text" /\ r.roots = run[p].roots  BY <1>2
<1>4. ASSUME p \in quiet PROVE RowsMirror(Range(r.roots))'
  <2>1. Pruned(run[p], run[p].batch)  BY <1>1, <1>4 DEF MirrorInv, Made
  <2>2. ASSUME NEW f \in Keys(Range(r.roots)) \ locked
        PROVE  IF disk[f] = None THEN entity[f] = None
               ELSE entity[f] # None /\ entity[f].text = disk[f] /\ entity[f].sum = disk[f]
    <3>1. /\ f \in Files /\ (disk[f] = None => entity[f] = None)
          /\ disk[f] # None => \/ f \in run[p].todo \/ Current(f)
                               \/ \E i \in DOMAIN run[p].batch : run[p].batch[i].key = f
      BY <1>3, <2>1, <2>2 DEF Pruned, Keys
    <3>2. DOMAIN run[p].batch = {} /\ run[p].todo = {}  BY <1>1
    <3>3. Current(f) => entity[f].text = entity[f].sum
      BY <3>1 DEF MirrorInv, SumsName, ChecksumNamesText, Rows, Current
    <3> QED  BY <3>1, <3>2, <3>3 DEF Current
  <2> QED  BY <1>1, <2>2 DEF RowsMirror, Keys
<1>5. EdgesResolved'
  <2>0. PICK pick \in [UNION {DOMAIN rel[f] : f \in Files} -> Files \cup {None}] :
         /\ \A n \in UNION {DOMAIN rel[f] : f \in Files} :
               IF Matches(n) = {} THEN pick[n] = None ELSE pick[n] \in Matches(n)
         /\ rel' = [f \in Files |-> [n \in DOMAIN rel[f] |->
                       IF rel[f][n] = None THEN pick[n] ELSE rel[f][n]]]
    BY ZenonT(30) DEF Resolve
  <2>1. /\ \A f \in Files : \A n \in DOMAIN rel[f] :
               IF Matches(n) = {} THEN pick[n] = None ELSE pick[n] \in Matches(n)
        /\ rel' = [f \in Files |-> [n \in DOMAIN rel[f] |->
                       IF rel[f][n] = None THEN pick[n] ELSE rel[f][n]]]
    BY <2>0
  <2>2. ASSUME NEW f \in Files, NEW n \in DOMAIN rel'[f], rel'[f][n] = None PROVE Matches(n) = {}
    <3>1. rel'[f] = [m \in DOMAIN rel[f] |-> IF rel[f][m] = None THEN pick[m] ELSE rel[f][m]]
      BY <2>1
    <3>2. n \in DOMAIN rel[f] /\ pick[n] = None  BY <2>2, <3>1
    <3>3. Matches(n) \subseteq Files  BY DEF Matches, Rows
    <3> QED  BY <2>1, <3>2, <3>3, NoneIsNoRow
  <2>3. \A n : Matches(n)' = Matches(n)  BY <1>1 DEF Matches, Rows
  <2> QED  BY <2>2, <2>3 DEF EdgesResolved, Rows
<1>6. SumsOf(r) /\ (p \in quiet => Made(r)')  BY <1>3, <1>4, <1>5 DEF SumsOf, Made
<1>7. ChecksumNamesText'  BY <1>1 DEF MirrorInv, SumsName, ChecksumNamesText, Rows
<1> QED  BY <1>1, <1>2, <1>6, <1>7, MirrorGo DEF MirrorInv

\* The rows, once made, are left alone by the rest of the sync.
LEMMA RowsStay ==
    ASSUME UNCHANGED <<disk, locked, entity, rel>>, NEW roots,
           RowsMirror(Range(roots)), EdgesResolved
    PROVE  RowsMirror(Range(roots))' /\ EdgesResolved'
<1>1. RowsMirror(Range(roots))'  BY DEF RowsMirror, Keys
<1>2. Rows' = Rows /\ \A n : Matches(n)' = Matches(n)  BY DEF Matches, Rows
<1>3. EdgesResolved'  BY <1>2 DEF EdgesResolved
<1> QED  BY <1>1, <1>3

LEMMA MirrorTexts ==
    ASSUME MirrorInv, Typed', NEW p \in Procs, RebuildText(p) \/ ReadTexts(p)
    PROVE  MirrorInv'
<1> PICK r : r = run'[p]  OBVIOUS
<1>1. UNCHANGED <<disk, locked, gen, entity, rel>> /\ run[p].pc \in {"text", "vectors"}
  BY DEF RebuildText, ReadTexts, At, Reads, tables, world
<1>2. /\ Go(p, r) /\ r.pc \in {"vectors", "hashes"} /\ r.roots = run[p].roots
      /\ r.pc = "hashes" => r.texts = fts /\ UNCHANGED fts /\ run[p].pc = "vectors"
      /\ r.pc = "vectors" => TextMirrors'
  <2>1. CASE RebuildText(p)
    <3>1. r = [pc |-> "vectors", roots |-> run[p].roots] /\ Go(p, r)
      BY <2>1 DEF RebuildText, Go, MirrorInv, Typed
    <3>2. fts' = {[key |-> f, gen |-> gen[f], text |-> entity[f].text] : f \in Rows}
      BY <2>1 DEF RebuildText
    <3>3. TextMirrors'  BY <1>1, <3>2 DEF TextMirrors, Rows
    <3> QED  BY <3>1, <3>3
  <2>2. CASE ReadTexts(p)
    <3>1. r = [pc |-> "hashes", roots |-> run[p].roots, texts |-> fts] /\ Go(p, r) /\ UNCHANGED fts
          /\ run[p].pc = "vectors"
      BY <2>2 DEF ReadTexts, Go, At, Reads, tables, MirrorInv, Typed
    <3> QED  BY <3>1
  <2> QED  BY <2>1, <2>2
<1>3. ASSUME p \in quiet PROVE Made(r)'
  <2>1. Made(run[p])  BY <1>3 DEF MirrorInv
  <2>2. RowsMirror(Range(r.roots)) /\ EdgesResolved  BY <1>1, <1>2, <2>1 DEF Made
  <2>3. RowsMirror(Range(r.roots))' /\ EdgesResolved'  BY <1>1, <2>2, RowsStay
  <2>4. r.pc = "hashes" => TextMirrors'
    <3>1. run[p].pc = "vectors" => TextMirrors  BY <2>1 DEF Made
    <3> QED  BY <1>1, <1>2, <3>1 DEF TextMirrors, Rows
  <2> QED  BY <1>2, <2>3, <2>4 DEF Made
<1>4. SumsOf(r)  BY <1>2 DEF SumsOf
<1>5. ChecksumNamesText'  BY <1>1 DEF MirrorInv, SumsName, ChecksumNamesText, Rows
<1> QED  BY <1>1, <1>2, <1>3, <1>4, <1>5, MirrorGo DEF MirrorInv

LEMMA MirrorHashes ==
    ASSUME MirrorInv, Typed', NEW p \in Procs, ReadHashes(p)
    PROVE  MirrorInv'
<1> PICK r : r = run'[p]  OBVIOUS
<1> DEFINE puts == UNION {{[doc |-> d, n |-> i] : i \in Changed(d)} : d \in run[p].texts}
<1>1. /\ UNCHANGED <<tables, disk, locked>> /\ run[p].pc = "hashes" /\ Go(p, r)
      /\ r = [pc |-> "write", roots |-> run[p].roots, texts |-> run[p].texts, puts |-> puts]
  BY DEF ReadHashes, At, Reads, world, Go, MirrorInv, Typed
<1> HIDE DEF puts
<1>2. r.pc = "write" /\ r.roots = run[p].roots /\ r.texts = run[p].texts /\ r.puts = puts
  BY <1>1
<1>3. ASSUME p \in quiet PROVE Made(r)'
  <2>1. Made(run[p])  BY <1>3 DEF MirrorInv
  <2>2. /\ RowsMirror(Range(r.roots)) /\ EdgesResolved /\ TextMirrors /\ run[p].texts = fts
    BY <1>1, <1>2, <2>1 DEF Made
  <2>3. RowsMirror(Range(r.roots))' /\ EdgesResolved'  BY <1>1, <2>2, RowsStay DEF tables
  <2>4. TextMirrors' /\ r.texts = fts'  BY <1>1, <1>2, <2>2 DEF TextMirrors, Rows, tables
  <2>5. ASSUME NEW x \in puts PROVE x.n \in Numbers(x.doc.text)
    <3>1. PICK d \in run[p].texts : \E i \in Changed(d) : x = [doc |-> d, n |-> i]  BY DEF puts
    <3>2. PICK i \in Changed(d) : x = [doc |-> d, n |-> i]  BY <3>1
    <3>3. i \in Numbers(d.text)  BY DEF Changed
    <3> QED  BY <3>2, <3>3
  <2>6. ASSUME NEW f \in Rows, NEW i \in Numbers(entity[f].text)
        PROVE  \/ i \in DOMAIN vec[f] /\ vec[f][i] = entity[f].text.chunks[i]
               \/ \E x \in puts : x.doc.key = f /\ x.n = i
    <3> DEFINE d == [key |-> f, gen |-> gen[f], text |-> entity[f].text]
               x == [doc |-> d, n |-> i]
    <3>1. d \in run[p].texts  BY <2>2 DEF TextMirrors
    <3>2. d.key = f /\ d.gen = gen[f] /\ d.text = entity[f].text  OBVIOUS
    <3>3. entity[f] # None  BY DEF Rows
    <3> HIDE DEF d
    <3>4. CASE i \in Changed(d)
      <4>1. x \in puts  BY <3>1, <3>4 DEF puts
      <4> QED  BY <3>2, <4>1
    <3>5. CASE i \notin Changed(d)  BY <3>2, <3>3, <3>5 DEF Changed
    <3> QED  BY <3>4, <3>5
  <2>7. ChunksDue(r)'  BY <1>1, <1>2, <2>5, <2>6 DEF ChunksDue, Rows, tables
  <2> QED  BY <1>2, <2>3, <2>4, <2>7 DEF Made
<1>4. SumsOf(r)  BY <1>2 DEF SumsOf
<1>5. ChecksumNamesText'  BY <1>1 DEF MirrorInv, SumsName, ChecksumNamesText, Rows, tables
<1> QED  BY <1>1, <1>3, <1>4, <1>5, MirrorGo DEF MirrorInv

LEMMA MirrorWrite ==
    ASSUME MirrorInv, Typed', NEW p \in Procs, WriteChunks(p)
    PROVE  MirrorInv'
<1>1. CASE Ends(p)  BY <1>1, MirrorEnds
<1>2. CASE ~Ends(p)
  <2> PICK r : r = run'[p]  OBVIOUS
  <2>0. PICK window \in SUBSET run[p].puts :
           /\ vec' = [f \in Files |-> Stored(f, window)]
           /\ Go(p, [run[p] EXCEPT !.puts = @ \ window])
           /\ UNCHANGED <<entity, gen, rel, fts, disk, locked>>
    BY <1>2 DEF WriteChunks, world
  <2>1. WriteType(run[p]) /\ run[p].pc = "write"
    <3>1. RunType(run[p])  BY DEF MirrorInv, Typed
    <3> QED  BY <3>1 DEF WriteChunks, At, RunType, WalkType, ParseType, SumType, WriteType, Idle
  <2>2. r = [run[p] EXCEPT !.puts = @ \ window] /\ Go(p, r)  BY <2>0 DEF Go, MirrorInv, Typed
  <2>3. r.pc = "write" /\ r.roots = run[p].roots /\ r.texts = run[p].texts /\ r.puts = run[p].puts \ window
    BY <2>1, <2>2 DEF WriteType, IsRecord
  <2>4. ASSUME p \in quiet PROVE Made(r)'
    <3>1. Made(run[p])  BY <2>4 DEF MirrorInv
    <3>2. /\ RowsMirror(Range(r.roots)) /\ EdgesResolved /\ TextMirrors /\ run[p].texts = fts
          /\ ChunksDue(run[p])
      BY <2>1, <2>3, <3>1 DEF Made
    <3>3. RowsMirror(Range(r.roots))' /\ EdgesResolved'  BY <2>0, <3>2, RowsStay
    <3>4. TextMirrors' /\ r.texts = fts'  BY <2>0, <2>3, <3>2 DEF TextMirrors, Rows
    <3>5. \A x \in r.puts : x.n \in Numbers(x.doc.text)  BY <2>3, <3>2 DEF ChunksDue
    <3>6. ASSUME NEW f \in Rows, NEW i \in Numbers(entity[f].text)
          PROVE  \/ i \in DOMAIN vec'[f] /\ vec'[f][i] = entity[f].text.chunks[i]
                 \/ \E x \in r.puts : x.doc.key = f /\ x.n = i
      <4> DEFINE new == {x \in window : x.doc.key = f}
                 at(j) == CHOOSE x \in new : x.n = j
                 where == DOMAIN vec[f] \cup {x.n : x \in new}
      <4>1. vec'[f] = [j \in where |-> IF \E x \in new : x.n = j THEN at(j).doc.text.chunks[j] ELSE vec[f][j]]
        <5>1. f \in Files  BY DEF Rows
        <5> QED  BY <2>0, <5>1 DEF Stored
      <4>2. CASE \E x \in new : x.n = i
        <5>1. at(i) \in new /\ at(i).n = i  BY <4>2
        <5>2. at(i).doc \in fts  BY <2>1, <3>2, <5>1 DEF WriteType
        <5>3. \A d \in fts : d.key = f => d.text = entity[f].text  BY <3>2 DEF TextMirrors
        <5>4. at(i).doc.text = entity[f].text  BY <5>1, <5>2, <5>3
        <5>5. i \in where  BY <4>2
        <5> HIDE DEF at, where, new
        <5>6. vec'[f][i] = at(i).doc.text.chunks[i] /\ i \in DOMAIN vec'[f]  BY <4>1, <4>2, <5>5
        <5> QED  BY <5>4, <5>6
      <4>3. CASE ~ \E x \in new : x.n = i
        <5>1. \/ i \in DOMAIN vec[f] /\ vec[f][i] = entity[f].text.chunks[i]
              \/ \E x \in run[p].puts : x.doc.key = f /\ x.n = i
          BY <3>2 DEF ChunksDue
        <5>2. CASE i \in DOMAIN vec[f] /\ vec[f][i] = entity[f].text.chunks[i]
          <6>1. i \in where  BY <5>2
          <6> HIDE DEF at, where, new
          <6> QED  BY <4>1, <4>3, <5>2, <6>1
        <5>3. CASE \E x \in run[p].puts : x.doc.key = f /\ x.n = i
          BY <2>3, <4>3, <5>3
        <5> QED  BY <5>1, <5>2, <5>3
      <4> QED  BY <4>2, <4>3
    <3>7. ChunksDue(r)'  BY <2>0, <3>5, <3>6 DEF ChunksDue, Rows
    <3> QED  BY <2>3, <3>3, <3>4, <3>7 DEF Made
  <2>5. SumsOf(r)  BY <2>3 DEF SumsOf
  <2>6. ChecksumNamesText'  BY <2>0 DEF MirrorInv, SumsName, ChecksumNamesText, Rows
  <2> QED  BY <2>0, <2>2, <2>4, <2>5, <2>6, MirrorGo DEF MirrorInv
<1> QED  BY <1>1, <1>2

LEMMA MirrorPruneVectors ==
    ASSUME MirrorInv, Typed', NEW p \in Procs, PruneVectors(p)
    PROVE  MirrorInv'
<1> PICK r : r = run'[p]  OBVIOUS
<1>1. /\ UNCHANGED <<entity, gen, rel, fts, disk, locked>> /\ run[p].pc = "write"
      /\ run[p].puts = {} /\ orphans' = {} /\ Go(p, r)
      /\ r = [pc |-> "done", roots |-> run[p].roots]
  BY DEF PruneVectors, At, world, Go, MirrorInv, Typed
<1>2. r.pc = "done" /\ r.roots = run[p].roots  BY <1>1
<1>3. ASSUME p \in quiet PROVE Made(r)'
  <2>1. Made(run[p])  BY <1>3 DEF MirrorInv
  <2>2. /\ RowsMirror(Range(r.roots)) /\ EdgesResolved /\ TextMirrors /\ run[p].texts = fts
        /\ ChunksDue(run[p])
    BY <1>1, <1>2, <2>1 DEF Made
  <2>3. RowsMirror(Range(r.roots))' /\ EdgesResolved'  BY <1>1, <2>2, RowsStay
  <2>4. TextMirrors'  BY <1>1, <2>2 DEF TextMirrors, Rows
  <2>5. ASSUME NEW f \in Rows
        PROVE  vec'[f] = [i \in Numbers(entity[f].text) |-> entity[f].text.chunks[i]]
    <3> DEFINE mine == {d \in run[p].texts : d.key = f /\ Live(d)}
               kept == {n \in DOMAIN vec[f] : \E d \in mine : n \in Numbers(d.text)}
               mark == [key |-> f, gen |-> gen[f], text |-> entity[f].text]
    <3>1. f \in Files /\ entity[f] # None  BY DEF Rows
    <3>2. vec'[f] = [i \in kept |-> vec[f][i]]  BY <3>1 DEF PruneVectors
    <3>3. mark \in mine
      <4>1. mark \in run[p].texts  BY <2>2 DEF TextMirrors
      <4> QED  BY <3>1, <4>1 DEF Live
    <3>4. \A d \in mine : d.text = entity[f].text  BY <2>2 DEF TextMirrors
    <3>5. mark.text = entity[f].text  OBVIOUS
    <3> HIDE DEF mine, mark
    <3>6. \A i \in Numbers(entity[f].text) : i \in DOMAIN vec[f] /\ vec[f][i] = entity[f].text.chunks[i]
      BY <1>1, <2>2 DEF ChunksDue
    <3>7. kept = Numbers(entity[f].text)  BY <3>3, <3>4, <3>5, <3>6
    <3> HIDE DEF kept
    <3> QED  BY <3>2, <3>6, <3>7
  <2>6. VectorsMirror'  BY <1>1, <2>5 DEF VectorsMirror, Rows
  <2> QED  BY <1>2, <2>3, <2>4, <2>6 DEF Made
<1>4. SumsOf(r)  BY <1>2 DEF SumsOf
<1>5. ChecksumNamesText'  BY <1>1 DEF MirrorInv, SumsName, ChecksumNamesText, Rows
<1> QED  BY <1>1, <1>3, <1>4, <1>5, MirrorGo DEF MirrorInv

\* A sync that begins has made nothing and knows the rows as they are.
LEMMA MirrorBegin ==
    ASSUME MirrorInv, Typed', NEW p \in Procs, NEW roots, NEW full, Begin(p, roots, full)
    PROVE  MirrorInv'
<1> DEFINE before == [f \in Files |-> IF entity[f] = None THEN None ELSE entity[f].sum]
           r == [pc |-> "walk", roots |-> roots, full |-> full, before |-> before,
                 walk |-> roots, found |-> {}, todo |-> {}]
<1>1. /\ run' = [run EXCEPT ![p] = r] /\ quiet' = {p} /\ UNCHANGED <<disk, entity>>
  BY DEF Begin, tables, world
<1>2. r.pc = "walk" /\ r.roots = r.walk /\ r.before = before /\ r.found = {}  OBVIOUS
<1>3. \A f \in Files : before[f] = IF entity[f] = None THEN None ELSE entity[f].sum  OBVIOUS
<1> HIDE DEF before, r
<1>4. run'[p] = r /\ \A q \in Procs \ {p} : run'[q] = run[q]  BY <1>1 DEF MirrorInv, Typed
<1>5. Made(run[p])'  BY <1>1, <1>2, <1>3, <1>4 DEF Made, Walked
<1>6. \A q \in Procs : SumsOf(run[q])'
  <2> SUFFICES ASSUME NEW q \in Procs PROVE SumsOf(run[q])'  OBVIOUS
  <2>1. CASE q = p  BY <1>2, <1>4, <2>1 DEF SumsOf
  <2>2. CASE q # p  BY <1>1, <1>4, <2>2 DEF MirrorInv, SumsName, SumsOf
  <2> QED  BY <2>1, <2>2
<1>7. ChecksumNamesText'  BY <1>1 DEF MirrorInv, SumsName, ChecksumNamesText, Rows
<1> QED  BY <1>1, <1>5, <1>6, <1>7 DEF MirrorInv, SumsName

\* No file changes between its two reads: what a process reads is one version.
NoTornReads == ~TornReads

LEMMA MirrorStep ==
    ASSUME NoTornReads, MirrorInv, [Next]_vars
    PROVE  MirrorInv'
<1>0. Typed'  BY NextTyped DEF MirrorInv
<1>1. ASSUME NEW p \in Procs, Sync(p) PROVE MirrorInv'
  BY <1>0, <1>1, MirrorScan, MirrorPrune, MirrorOwners, MirrorText, MirrorSum, MirrorUpsert,
    MirrorResolve, MirrorTexts, MirrorHashes, MirrorWrite, MirrorPruneVectors, MirrorEnds
    DEF Sync, Finish
<1>2. CASE StartCycle \/ StartCli
  <2>0. PICK p \in Procs : \E roots, full : Begin(p, roots, full)
    BY <1>2 DEF StartCycle, StartCli, Procs
  <2>1. PICK roots, full : Begin(p, roots, full)  BY <2>0
  <2> QED  BY <1>0, <2>1, MirrorBegin
<1>3. ASSUME UNCHANGED <<entity, run>>, quiet' = {},
             \A q \in Procs : run[q].pc = "sum" =>
                disk'[First(run[q].todo)] \in {disk[First(run[q].todo)], None}
      PROVE  MirrorInv'
  <2>1. \A q \in Procs : SumsOf(run[q])'
    BY <1>3 DEF MirrorInv, SumsName, SumsOf
  <2>2. ChecksumNamesText'  BY <1>3 DEF MirrorInv, SumsName, ChecksumNamesText, Rows
  <2> QED  BY <1>0, <1>3, <2>1, <2>2 DEF MirrorInv, SumsName
<1>4. ASSUME NEW f \in Files, NEW c \in Contents, WriteFile(f, c) PROVE MirrorInv'
  <2>1. \A q \in Procs : run[q].pc = "sum" => First(run[q].todo) # f
    BY <1>4 DEF WriteFile, Untorn, At, NoTornReads
  <2>2. UNCHANGED <<entity, run>> /\ quiet' = {} /\ disk' = [disk EXCEPT ![f] = c]
    BY <1>4 DEF WriteFile, Changes, tables
  <2>3. \A g : g # f => disk'[g] = disk[g]  BY <2>2
  <2> QED  BY <1>3, <2>1, <2>2, <2>3
<1>5. ASSUME NEW f \in Files, RemoveFile(f) PROVE MirrorInv'
  <2>1. UNCHANGED <<entity, run>> /\ quiet' = {} /\ disk' = [disk EXCEPT ![f] = None]
    BY <1>5 DEF RemoveFile, Changes, tables
  <2>2. \A g : disk'[g] = disk[g] \/ disk'[g] = None  BY <2>1 DEF MirrorInv, Typed
  <2> QED  BY <1>3, <2>1, <2>2
<1>6. CASE (\E f \in Files : Lock(f)) \/ (\E r \in Roots : Unmount(r))
  BY <1>3, <1>6 DEF Lock, Unmount, Changes, tables
<1>7. ASSUME NEW p \in Procs, Fault(p) PROVE MirrorInv'
  <2> PICK r : r = run'[p]  OBVIOUS
  <2>1. r = Idle /\ Go(p, r) /\ UNCHANGED <<disk, entity>>
    BY <1>7 DEF MirrorInv, Fault, Typed, Go, tables, world
  <2>2. SumsOf(r) /\ Made(r)'  BY <2>1 DEF SumsOf, Made, Idle
  <2>3. ChecksumNamesText'  BY <2>1 DEF MirrorInv, SumsName, ChecksumNamesText, Rows
  <2> QED  BY <1>0, <2>1, <2>2, <2>3, MirrorGo DEF MirrorInv
<1>8. CASE UNCHANGED vars
  <2>1. \A q \in Procs : SumsOf(run[q])'
    BY <1>8 DEF vars, MirrorInv, SumsName, SumsOf
  <2>2. ChecksumNamesText'
    BY <1>8 DEF vars, MirrorInv, SumsName, ChecksumNamesText, Rows
  <2>3. \A q \in quiet' : Made(run[q])'
    BY <1>8 DEF vars, MirrorInv, Made, Walked, Pruned, ChunksDue, RowsMirror, Keys, Current,
      EdgesResolved, Matches, TextMirrors, VectorsMirror, Rows
  <2> QED  BY <1>0, <2>1, <2>2, <2>3 DEF MirrorInv, SumsName
<1> QED
  BY <1>1, <1>2, <1>4, <1>5, <1>6, <1>7, <1>8 DEF Next, Environment, Procs

\* If no file changes between the two reads that give its text and its checksum,
\* then a sync that nothing disturbed leaves the index equal to the files it
\* walked: rows, text index, chunks and embeddings, and no link left open that
\* could be closed.  It does so whatever earlier syncs, faults and edits left,
\* and the tables cohere throughout (sync_index, sync_vectors, run_index_step).
THEOREM IndexIsAMirror ==
    ASSUME NoTornReads
    PROVE  Spec => []IndexMirrors
<1>1. Init => MirrorInv /\ CohereInv
  <2> SUFFICES ASSUME Init PROVE MirrorInv /\ CohereInv  OBVIOUS
  <2>1. CohereInv  BY CohereInit
  <2> QED
    BY <2>1 DEF Init, CohereInv, MirrorInv, SumsName, ChecksumNamesText, SumsOf, Rows, Idle
<1>2. MirrorInv /\ CohereInv /\ [Next]_vars => (MirrorInv /\ CohereInv)'
  BY MirrorStep, StepCoheres, NextTyped DEF CohereInv
<1>3. MirrorInv /\ CohereInv => IndexMirrors
  <2> SUFFICES ASSUME MirrorInv, CohereInv, NEW p \in quiet, At(p, "done")
               PROVE  RowsMirror(Range(run[p].roots)) /\ TextMirrors /\ VectorsMirror /\ EdgesResolved
    BY DEF IndexMirrors, UndisturbedSyncMirrors, CohereInv
  <2> QED  BY DEF MirrorInv, Made, At
<1> QED  BY <1>1, <1>2, <1>3, PTL DEF Spec
-----------------------------------------------------------------------------
(* A sync that nothing disturbs completes *)

\* The permalinks a row of a file may bear, in the table and in a batch.
Own(f) == {Natural(c) : c \in Contents} \cup {Fallback(f)}
NamedOwn ==
    /\ \A f \in Rows : entity[f].perma \in Own(f)
    /\ \A p \in Procs : run[p].pc \in {"parse", "sum"} =>
          \A i \in DOMAIN run[p].batch : run[p].batch[i].row.perma \in Own(run[p].batch[i].key)

\* The owners a sync keeps are those of every row and of every row it is to write.
Owned(r) ==
    /\ \A f \in Rows : entity[f].perma \in DOMAIN r.owners /\ r.owners[entity[f].perma] = f
    /\ \A i \in DOMAIN r.batch :
          /\ r.batch[i].row.perma \in DOMAIN r.owners
          /\ r.owners[r.batch[i].row.perma] = r.batch[i].key

\* What keeps a sync that nothing disturbs from failing.
Unfailing(r) ==
    /\ r.pc = "sum" => Readable(First(r.todo))
    /\ r.pc \in {"parse", "sum"} => Owned(r)
    /\ r.pc = "vectors" => \A d \in fts : Live(d)
    /\ r.pc = "hashes" => \A d \in r.texts : Live(d)
    /\ r.pc = "write" => \A x \in r.puts : Live(x.doc)

CompleteInv ==
    /\ CohereInv /\ NamedOwn
    /\ left \in [edits : Nat, faults : Nat, cli : Nat]
    /\ \A p \in quiet : Unfailing(run[p])

\* No two keys have one slug, and none is the permalink a document asks for.
SlugsApart ==
    /\ \A f, g \in Files : Fallback(f) = Fallback(g) => f = g
    /\ \A f \in Files : \A c \in Contents : Fallback(f) # Natural(c)

\* A step of a process keeps all this if what it goes on with does.
LEMMA CompleteGo ==
    ASSUME CompleteInv, CohereInv', NEW p \in Procs, NEW r, r = run'[p], Go(p, r),
           UNCHANGED <<disk, locked, gone, left>>,
           \A f \in Rows' : entity'[f].perma \in Own(f),
           r.pc \in {"parse", "sum"} =>
              \A i \in DOMAIN r.batch : r.batch[i].row.perma \in Own(r.batch[i].key),
           p \in quiet => Unfailing(r)'
    PROVE  CompleteInv'
<1>1. run' = [run EXCEPT ![p] = r] /\ quiet' \subseteq quiet \cap {p}
  BY DEF Go, CompleteInv, CohereInv, Typed
<1>2. \A q \in Procs : run'[q] = IF q = p THEN r ELSE run[q]
  BY <1>1 DEF CompleteInv, CohereInv, Typed
<1>3. NamedOwn'
  BY <1>2 DEF CompleteInv, NamedOwn, Own
<1>4. \A q \in quiet' : Unfailing(run[q])'
  <2> SUFFICES ASSUME p \in quiet PROVE Unfailing(run[p])'  BY <1>1
  <2>1. Unfailing(r)'  OBVIOUS
  <2> QED  BY <2>1 DEF Unfailing, Owned
<1> QED  BY <1>3, <1>4 DEF CompleteInv

LEMMA CompleteEnds ==
    ASSUME CompleteInv, CohereInv', NEW p \in Procs, Ends(p)
    PROVE  CompleteInv'
<1> PICK r : r = run'[p]  OBVIOUS
<1>1. r = Idle /\ Go(p, r) /\ UNCHANGED <<disk, locked, gone, left, entity>>
  BY DEF CompleteInv, CohereInv, Ends, Typed, Go, Reads, tables, world
<1>2. r.pc = "idle"  BY <1>1 DEF Idle
<1>3. Unfailing(r)'  BY <1>2 DEF Unfailing
<1>4. \A f \in Rows' : entity'[f].perma \in Own(f)
  BY <1>1 DEF CompleteInv, NamedOwn, Rows
<1> QED  BY <1>1, <1>2, <1>3, <1>4, CompleteGo

LEMMA CompleteScan ==
    ASSUME CompleteInv, CohereInv', NEW p \in Procs, ScanRoot(p) \/ Prune(p)
    PROVE  CompleteInv' /\ (p \in quiet /\ run'[p] = Idle => gone # {})
<1>0. RunType(run[p]) /\ run = [q \in Procs |-> run[q]]  BY DEF CompleteInv, CohereInv, Typed
<1>1. WalkType(run[p]) /\ run[p].pc = "walk"
  BY <1>0 DEF ScanRoot, Prune, At, RunType, ParseType, SumType, WriteType, Idle
<1>2. CASE ScanRoot(p) /\ Head(run[p].walk) \in gone
  BY <1>2, CompleteEnds DEF ScanRoot
<1>3. CASE Prune(p) \/ (ScanRoot(p) /\ Head(run[p].walk) \notin gone)
  <2> PICK r : r = run'[p]  OBVIOUS
  <2>1. Go(p, r) /\ UNCHANGED <<disk, locked, gone, left>> /\ r.pc \in {"walk", "owners"}
    <3>1. CASE Prune(p)
      <4>1. r = [run[p] EXCEPT !.pc = "owners"] /\ Go(p, r) /\ UNCHANGED <<disk, locked, gone, left>>
        BY <1>0, <3>1 DEF Prune, Go, world
      <4> QED  BY <1>1, <4>1 DEF WalkType, IsRecord
    <3>2. CASE ScanRoot(p) /\ Head(run[p].walk) \notin gone
      <4> DEFINE here == Listing(Head(run[p].walk))
                 more == {f \in here : Wanted(p, f)}
      <4>1. r = [run[p] EXCEPT !.walk = Tail(@), !.found = @ \cup here, !.todo = @ \cup more]
        BY <1>0, <3>2 DEF ScanRoot, Go
      <4>2. Go(p, r) /\ UNCHANGED <<disk, locked, gone, left>>
        BY <1>0, <3>2 DEF ScanRoot, Go, Reads, world
      <4> QED  BY <1>1, <4>1, <4>2 DEF WalkType, IsRecord
    <3> QED  BY <1>3, <3>1, <3>2
  <2>2. r # Idle  BY <2>1 DEF Idle
  <2>3. Unfailing(r)'  BY <2>1 DEF Unfailing
  <2>4. \A f \in Files : entity'[f] # None => entity'[f] = entity[f]
    BY <1>3 DEF Prune, ScanRoot, Reads, tables
  <2>5. \A f \in Rows' : entity'[f].perma \in Own(f)
    BY <2>4 DEF CompleteInv, NamedOwn, Rows
  <2> QED  BY <2>1, <2>2, <2>3, <2>5, CompleteGo
<1> QED  BY <1>2, <1>3

LEMMA CompleteOwners ==
    ASSUME CompleteInv, CohereInv', NEW p \in Procs, LoadOwners(p)
    PROVE  CompleteInv' /\ run'[p] # Idle
<1>0. run = [q \in Procs |-> run[q]]  BY DEF CompleteInv, CohereInv, Typed
<1> PICK r : r = run'[p]  OBVIOUS
<1> DEFINE owners == [m \in {entity[f].perma : f \in Rows} |-> CHOOSE f \in Rows : entity[f].perma = m]
           s == [pc |-> "parse", roots |-> run[p].roots, todo |-> run[p].todo, batch |-> <<>>,
                 owners |-> owners]
<1>1. Go(p, s) /\ Reads(p)  BY DEF LoadOwners
<1>2. s.pc = "parse" /\ s.batch = <<>> /\ s.owners = owners  OBVIOUS
<1>3. \A f \in Rows : entity[f].perma \in DOMAIN owners /\ owners[entity[f].perma] = f
  <2> SUFFICES ASSUME NEW f \in Rows PROVE owners[entity[f].perma] = f  OBVIOUS
  <2> DEFINE g == CHOOSE g \in Rows : entity[g].perma = entity[f].perma
  <2>1. g \in Rows /\ entity[g].perma = entity[f].perma  OBVIOUS
  <2>2. owners[entity[f].perma] = g  OBVIOUS
  <2> HIDE DEF g
  <2>3. g = f  BY <2>1 DEF CompleteInv, CohereInv, TablesCohere
  <2> QED  BY <2>2, <2>3
<1> HIDE DEF owners, s
<1>4. r = s  BY <1>0, <1>1 DEF Go
<1>5. UNCHANGED <<disk, locked, gone, left, entity>>  BY <1>1 DEF Reads, tables, world
<1>6. DOMAIN r.batch = {}  BY <1>2, <1>4
<1>7. Unfailing(r)'
  BY <1>2, <1>3, <1>4, <1>5, <1>6 DEF Unfailing, Owned, Rows
<1>8. \A f \in Rows' : entity'[f].perma \in Own(f)
  BY <1>5 DEF CompleteInv, NamedOwn, Rows
<1>9. r # Idle  BY <1>2, <1>4 DEF Idle
<1> QED  BY <1>1, <1>4, <1>5, <1>6, <1>7, <1>8, <1>9, CompleteGo

LEMMA CompleteText ==
    ASSUME CompleteInv, CohereInv', NEW p \in Procs, ReadText(p)
    PROVE  CompleteInv' /\ run'[p] # Idle
<1> PICK r : r = run'[p]  OBVIOUS
<1> DEFINE f == First(run[p].todo)
           s == [pc |-> "sum", roots |-> run[p].roots, todo |-> run[p].todo,
                 owners |-> run[p].owners, batch |-> run[p].batch, text |-> disk[f]]
           t == [run[p] EXCEPT !.todo = @ \ {f}]
<1>1. /\ run[p].pc = "parse" /\ UNCHANGED <<disk, locked, gone, left, entity>>
      /\ Go(p, IF ~Readable(f) THEN t ELSE s)
  BY DEF ReadText, At, Reads, tables, world
<1>2. ParseType(run[p])  BY <1>1, Parsing DEF CompleteInv, CohereInv
<1>3. s.pc = "sum" /\ s.todo = run[p].todo /\ s.batch = run[p].batch /\ s.owners = run[p].owners
  OBVIOUS
<1>4. t.pc = "parse" /\ t.batch = run[p].batch /\ t.owners = run[p].owners
  BY <1>1, <1>2 DEF ParseType, IsRecord
<1> HIDE DEF s, t
<1>5. r = (IF ~Readable(f) THEN t ELSE s) /\ Go(p, r)
  BY <1>1 DEF Go, CompleteInv, CohereInv, Typed
<1>6. /\ r.pc \in {"parse", "sum"} /\ r.batch = run[p].batch /\ r.owners = run[p].owners
      /\ r.pc = "sum" => Readable(First(r.todo))
  BY <1>3, <1>4, <1>5
<1>7. ASSUME p \in quiet PROVE Unfailing(r)'
  <2>1. Owned(run[p])  BY <1>1, <1>7 DEF CompleteInv, Unfailing
  <2> QED  BY <1>1, <1>6, <2>1 DEF Unfailing, Owned, Readable, Rows
<1>8. /\ \A g \in Rows' : entity'[g].perma \in Own(g)
      /\ \A i \in DOMAIN r.batch : r.batch[i].row.perma \in Own(r.batch[i].key)
  BY <1>1, <1>6 DEF CompleteInv, NamedOwn, Rows
<1>9. r # Idle  BY <1>6 DEF Idle
<1> QED  BY <1>1, <1>5, <1>7, <1>8, <1>9, CompleteGo

LEMMA CompleteSum ==
    ASSUME SlugsApart, CompleteInv, CohereInv', NEW p \in Procs, ReadSum(p)
    PROVE  CompleteInv' /\ (p \in quiet => run'[p] # Idle)
<1> DEFINE f == First(run[p].todo)
<1>0. run[p].pc = "sum"  BY DEF ReadSum, At
<1>1. CASE ~Readable(f)
  <2>1. p \notin quiet  BY <1>0, <1>1 DEF CompleteInv, Unfailing
  <2> QED  BY <1>1, <2>1, CompleteEnds DEF ReadSum
<1>2. CASE Readable(f)
  <2> PICK r : r = run'[p]  OBVIOUS
  <2> DEFINE m == Permalink(f, run[p].text, run[p].owners)
             owners == [x \in DOMAIN run[p].owners \cup {m} |-> IF x = m THEN f ELSE run[p].owners[x]]
             e == [key |-> f, row |-> [text |-> run[p].text, sum |-> disk[f], perma |-> m]]
             more == Append(run[p].batch, e)
             s == [pc |-> "parse", roots |-> run[p].roots, todo |-> run[p].todo \ {f},
                   owners |-> owners, batch |-> more]
  <2>1. UNCHANGED <<disk, locked, gone, left, entity>> /\ Go(p, s)
    BY <1>2 DEF ReadSum, At, Reads, tables, world
  <2>2. r = s /\ Go(p, r)  BY <2>1 DEF Go, CompleteInv, CohereInv, Typed
  <2>3. e.key = f /\ e.row.perma = m  OBVIOUS
  <2>4. run[p].batch \in Seq([key : Files, row : RowType])
    BY <1>0, Parsing DEF CompleteInv, CohereInv
  <2>5. \A i \in DOMAIN more : more[i] = e \/ (i \in DOMAIN run[p].batch /\ more[i] = run[p].batch[i])
    <3> DEFINE n == Len(run[p].batch)
    <3> HIDE DEF e
    <3>1. n \in Nat /\ DOMAIN run[p].batch = 1..n /\ DOMAIN more = 1..(n + 1)  BY <2>4
    <3>2. more[n + 1] = e /\ \A i \in 1..n : more[i] = run[p].batch[i]  BY <2>4
    <3>3. \A i \in 1..(n + 1) : i \in 1..n \/ i = n + 1  BY <3>1
    <3> HIDE DEF n, more
    <3> QED  BY <3>1, <3>2, <3>3
  <2>6. run[p].text \in Contents /\ f \in Files
    <3>1. RunType(run[p])  BY DEF CompleteInv, CohereInv, Typed
    <3>2. SumType(run[p])  BY <1>0, <3>1 DEF RunType, WalkType, ParseType, WriteType, Idle
    <3> QED  BY <3>2, FirstOf DEF SumType
  <2> HIDE DEF e, more
  <2>7. r.pc = "parse" /\ r.owners = owners /\ r.batch = more  BY <2>2
  <2> HIDE DEF f, s
  <2>8. m \in Own(f)
    BY <2>6 DEF Permalink, Own
  \* Whoever else had the permalink, the file would have been given its slug.
  <2>9. ASSUME Owned(run[p]), NEW g \in Files, m \in Own(g), m \in DOMAIN run[p].owners,
               run[p].owners[m] = g
        PROVE  g = f
    <3>1. CASE m = Fallback(f)  BY <2>6, <2>9, <3>1 DEF SlugsApart, Own
    <3>2. CASE m # Fallback(f)  BY <2>9, <3>2 DEF Permalink
    <3> QED  BY <3>1, <3>2
  <2> HIDE DEF m
  <2>10. ASSUME p \in quiet PROVE Unfailing(r)'
    <3>1. Owned(run[p])  BY <1>0, <2>10 DEF CompleteInv, Unfailing
    <3>2. m \in DOMAIN owners /\ owners[m] = f
          /\ \A x \in DOMAIN run[p].owners : x \in DOMAIN owners /\ (x # m => owners[x] = run[p].owners[x])
      OBVIOUS
    <3> HIDE DEF owners
    <3>3. ASSUME NEW g \in Files, NEW x, x \in Own(g), x \in DOMAIN run[p].owners, run[p].owners[x] = g
          PROVE  x \in DOMAIN owners /\ owners[x] = g
      BY <2>9, <3>1, <3>2, <3>3
    <3>4. \A g \in Rows : entity[g].perma \in DOMAIN owners /\ owners[entity[g].perma] = g
      BY <3>1, <3>3 DEF Owned, Rows, CompleteInv, NamedOwn
    <3>5. ASSUME NEW i \in DOMAIN run[p].batch
          PROVE  /\ run[p].batch[i].row.perma \in DOMAIN owners
                 /\ owners[run[p].batch[i].row.perma] = run[p].batch[i].key
      <4>1. run[p].batch[i].row.perma \in Own(run[p].batch[i].key)
        BY <1>0 DEF CompleteInv, NamedOwn
      <4>2. run[p].batch[i].key \in Files
        <5> DEFINE Statement == [key : Files, row : RowType]
        <5>1. run[p].batch[i] \in Statement
          <6>1. run[p].batch \in Seq(Statement)  BY <2>4
          <6> HIDE DEF Statement
          <6> QED  BY <6>1
        <5> QED  BY <5>1
      <4> QED  BY <3>1, <3>3, <4>1, <4>2 DEF Owned
    <3>6. \A i \in DOMAIN more : more[i].row.perma \in DOMAIN owners /\ owners[more[i].row.perma] = more[i].key
      BY <2>3, <2>5, <3>2, <3>5
    <3> QED  BY <2>1, <2>7, <3>4, <3>6 DEF Unfailing, Owned, Rows
  <2>11. \A g \in Rows' : entity'[g].perma \in Own(g)
    BY <2>1 DEF CompleteInv, NamedOwn, Rows
  <2>12. \A i \in DOMAIN more : more[i].row.perma \in Own(more[i].key)
    BY <1>0, <2>3, <2>5, <2>8 DEF CompleteInv, NamedOwn
  <2>13. r # Idle  BY <2>7 DEF Idle
  <2> QED  BY <2>1, <2>2, <2>7, <2>10, <2>11, <2>12, <2>13, CompleteGo
<1> QED  BY <1>1, <1>2

LEMMA CompleteUpsert ==
    ASSUME CompleteInv, CohereInv', NEW p \in Procs, Upsert(p)
    PROVE  CompleteInv' /\ (p \in quiet => run'[p] # Idle)
<1> DEFINE batch == run[p].batch
           n == Len(batch)
<1>0. run[p].pc = "parse"  BY DEF Upsert, At
<1>1. batch \in Seq([key : Files, row : RowType]) /\ ParseType(run[p])
  BY <1>0, Parsing DEF CompleteInv, CohereInv
<1>2. n \in Nat /\ n <= Len(batch) /\ DOMAIN batch = 1..n  BY <1>1
<1>3. ASSUME p \in quiet PROVE ~Collides(batch)
  <2>1. Owned(run[p])  BY <1>0, <1>3 DEF CompleteInv, Unfailing
  <2> SUFFICES ASSUME NEW i \in DOMAIN batch, NEW f \in Files \ {batch[i].key},
                      Upserted(batch, i - 1)[f] # None,
                      Upserted(batch, i - 1)[f].perma = batch[i].row.perma
               PROVE  FALSE
    BY DEF Collides
  <2> DEFINE k == i - 1
  <2>2. k \in Nat /\ k <= Len(batch) /\ \A j \in 1..k : j \in DOMAIN batch  BY <1>2
  <2>3. entity \in [Files -> RowType \cup {None}]  BY DEF CompleteInv, CohereInv, Typed
  <2> HIDE DEF n, batch, k
  <2>4. \/ Upserted(batch, k)[f] = entity[f]
        \/ \E j \in 1..k : batch[j].key = f /\ Upserted(batch, k)[f] = batch[j].row
    <3>1. batch \in Seq([key : Files, row : RowType]) /\ k \in Nat /\ k <= Len(batch)
      BY <1>1, <2>2
    <3>2. ASSUME NEW m \in Nat, m <= Len(batch)
          PROVE  \A g \in Files :
                    \/ /\ Upserted(batch, m)[g] = entity[g]
                       /\ \A j \in 1..m : batch[j].key # g
                    \/ \E j \in 1..m : /\ batch[j].key = g /\ Upserted(batch, m)[g] = batch[j].row
                                       /\ \A l \in 1..m : batch[l].key = g => l <= j
      BY ONLY ZenonT(40), <2>3, <3>1, <3>2, UpsertedIs
    <3>3. f \in Files  OBVIOUS
    <3> QED  BY <3>1, <3>2, <3>3
  <2>5. run[p].owners[batch[i].row.perma] = batch[i].key  BY <2>1 DEF Owned, batch
  <2>6. Upserted(batch, k)[f] # None /\ Upserted(batch, k)[f].perma = batch[i].row.perma  BY DEF k
  <2>7. CASE Upserted(batch, k)[f] = entity[f]
    BY <2>1, <2>5, <2>6, <2>7 DEF Owned, Rows
  <2>8. CASE \E j \in 1..k : batch[j].key = f /\ Upserted(batch, k)[f] = batch[j].row
    <3>1. PICK j \in 1..k : batch[j].key = f /\ Upserted(batch, k)[f] = batch[j].row  BY <2>8
    <3>2. j \in DOMAIN batch  BY <2>2
    <3>3. run[p].owners[batch[j].row.perma] = batch[j].key  BY <2>1, <3>2 DEF Owned, batch
    <3> QED  BY <2>5, <2>6, <3>1, <3>3
  <2> QED  BY <2>4, <2>7, <2>8
<1>4. CASE Collides(batch)
  BY <1>3, <1>4, CompleteEnds DEF Upsert
<1>5. CASE ~Collides(batch)
  <2> PICK r : r = run'[p]  OBVIOUS
  <2>1. UNCHANGED <<disk, locked, gone, left>> /\ Go(p, [run[p] EXCEPT !.batch = <<>>])
    BY <1>5 DEF Upsert, world
  <2>2. r = [run[p] EXCEPT !.batch = <<>>] /\ Go(p, r)
    BY <2>1 DEF Go, CompleteInv, CohereInv, Typed
  <2>3. r.pc = "parse" /\ r.owners = run[p].owners /\ r.batch = <<>>
    BY <1>0, <1>1, <2>2 DEF ParseType, IsRecord
  <2>4. \A f \in Files :
           \/ entity'[f] = entity[f]
           \/ \E i \in DOMAIN batch : batch[i].key = f /\ entity'[f] = batch[i].row
    BY <1>5, UpsertRows DEF CompleteInv, CohereInv
  <2>5. \A f \in Rows' : entity'[f].perma \in Own(f)
    BY <1>0, <2>4 DEF CompleteInv, NamedOwn, Rows
  <2>6. ASSUME p \in quiet PROVE Unfailing(r)'
    <3>1. Owned(run[p])  BY <1>0, <2>6 DEF CompleteInv, Unfailing
    <3>2. \A f \in Rows' : entity'[f].perma \in DOMAIN r.owners /\ r.owners[entity'[f].perma] = f
      BY <2>3, <2>4, <3>1 DEF Owned, Rows
    <3>3. DOMAIN r.batch = {}  BY <2>3
    <3> QED  BY <2>3, <3>2, <3>3 DEF Unfailing, Owned
  <2>7. DOMAIN r.batch = {}  BY <2>3
  <2>8. r # Idle  BY <2>3 DEF Idle
  <2> QED  BY <2>1, <2>2, <2>5, <2>6, <2>7, <2>8, CompleteGo
<1> QED  BY <1>4, <1>5

LEMMA CompleteRest ==
    ASSUME CompleteInv, CohereInv', NEW p \in Procs,
           Resolve(p) \/ RebuildText(p) \/ ReadTexts(p) \/ ReadHashes(p) \/ PruneVectors(p)
    PROVE  CompleteInv' /\ run'[p] # Idle
<1>0. run = [q \in Procs |-> run[q]]  BY DEF CompleteInv, CohereInv, Typed
<1> PICK r : r = run'[p]  OBVIOUS
<1>1. UNCHANGED <<disk, locked, gone, left, entity, gen>>
  BY DEF Resolve, RebuildText, ReadTexts, ReadHashes, PruneVectors, Reads, tables, world
<1>2. Go(p, r) /\ r.pc \in {"text", "vectors", "hashes", "write", "done"}
  BY <1>0 DEF Resolve, RebuildText, ReadTexts, ReadHashes, PruneVectors, Go
<1>3. ASSUME p \in quiet PROVE Unfailing(r)'
  <2>1. Unfailing(run[p])  BY <1>3 DEF CompleteInv
  <2>2. CASE Resolve(p) \/ PruneVectors(p)
    <3>1. r.pc \in {"text", "done"}  BY <1>0, <2>2 DEF Resolve, PruneVectors, Go
    <3> QED  BY <3>1 DEF Unfailing
  <2>3. CASE RebuildText(p)
    <3>1. r.pc = "vectors"  BY <1>0, <2>3 DEF RebuildText, Go
    <3>2. fts' = {[key |-> f, gen |-> gen[f], text |-> entity[f].text] : f \in Rows}
      BY <2>3 DEF RebuildText
    <3>3. \A d \in fts' : entity[d.key] # None /\ gen[d.key] = d.gen  BY <3>2 DEF Rows
    <3> QED  BY <1>1, <3>1, <3>3 DEF Unfailing, Live
  <2>4. CASE ReadTexts(p)
    <3>1. run[p].pc = "vectors" /\ r = [pc |-> "hashes", roots |-> run[p].roots, texts |-> fts]
      BY <1>0, <2>4 DEF ReadTexts, Go, At
    <3>2. r.pc = "hashes" /\ r.texts = fts  BY <3>1
    <3> QED  BY <1>1, <2>1, <3>1, <3>2 DEF Unfailing, Live
  <2>5. CASE ReadHashes(p)
    <3> DEFINE puts == UNION {{[doc |-> d, n |-> i] : i \in Changed(d)} : d \in run[p].texts}
    <3>1. /\ run[p].pc = "hashes"
          /\ r = [pc |-> "write", roots |-> run[p].roots, texts |-> run[p].texts, puts |-> puts]
      BY <1>0, <2>5 DEF ReadHashes, Go, At
    <3>2. \A x \in puts : x.doc \in run[p].texts  OBVIOUS
    <3> HIDE DEF puts
    <3>3. r.pc = "write" /\ r.puts = puts  BY <3>1
    <3> QED  BY <1>1, <2>1, <3>1, <3>2, <3>3 DEF Unfailing, Live
  <2> QED  BY <2>2, <2>3, <2>4, <2>5
<1>4. \A f \in Rows' : entity'[f].perma \in Own(f)
  BY <1>1 DEF CompleteInv, NamedOwn, Rows
<1>5. r # Idle  BY <1>2 DEF Idle
<1> QED  BY <1>1, <1>2, <1>3, <1>4, <1>5, CompleteGo

LEMMA CompleteWrite ==
    ASSUME CompleteInv, CohereInv', NEW p \in Procs, WriteChunks(p)
    PROVE  CompleteInv' /\ (p \in quiet => run'[p] # Idle)
<1>1. PICK window \in SUBSET run[p].puts :
         \/ (\E x \in window : ~Live(x.doc)) /\ Ends(p)
         \/ Go(p, [run[p] EXCEPT !.puts = @ \ window])
            /\ UNCHANGED <<entity, gen, disk, locked, gone, left>>
  BY DEF WriteChunks, world
<1>2. WriteType(run[p]) /\ run[p].pc = "write"
  <2>1. RunType(run[p])  BY DEF CompleteInv, CohereInv, Typed
  <2> QED  BY <2>1 DEF WriteChunks, At, RunType, WalkType, ParseType, SumType, WriteType, Idle
<1>3. p \in quiet => \A x \in run[p].puts : Live(x.doc)
  BY <1>2 DEF CompleteInv, Unfailing
<1>4. CASE (\E x \in window : ~Live(x.doc)) /\ Ends(p)
  BY <1>3, <1>4, CompleteEnds
<1>5. CASE Go(p, [run[p] EXCEPT !.puts = @ \ window])
           /\ UNCHANGED <<entity, gen, disk, locked, gone, left>>
  <2> PICK r : r = run'[p]  OBVIOUS
  <2>1. r = [run[p] EXCEPT !.puts = @ \ window] /\ Go(p, r)
    BY <1>5 DEF Go, CompleteInv, CohereInv, Typed
  <2>2. r.pc = "write" /\ r.puts = run[p].puts \ window
    BY <1>2, <2>1 DEF WriteType, IsRecord
  <2>3. p \in quiet => Unfailing(r)'  BY <1>3, <1>5, <2>2 DEF Unfailing, Live
  <2>4. \A f \in Rows' : entity'[f].perma \in Own(f)
    BY <1>5 DEF CompleteInv, NamedOwn, Rows
  <2>5. r # Idle  BY <2>2 DEF Idle
  <2> QED  BY <1>5, <2>1, <2>2, <2>3, <2>4, <2>5, CompleteGo
<1> QED  BY <1>1, <1>4, <1>5

LEMMA CompleteSync ==
    ASSUME SlugsApart, CompleteInv, CohereInv', NEW p \in Procs, Sync(p)
    PROVE  CompleteInv' /\ (p \in quiet /\ run'[p] = Idle => At(p, "done") \/ gone # {})
BY CompleteScan, CompleteOwners, CompleteText, CompleteSum, CompleteUpsert, CompleteRest,
   CompleteWrite, CompleteEnds DEF Sync, Finish

\* What the environment leaves: no sync in progress that nothing has disturbed, or
\* one that begins.
LEMMA CompleteWorld ==
    ASSUME CompleteInv, CohereInv', StartCycle \/ StartCli \/ Environment
    PROVE  /\ CompleteInv'
           /\ \A p \in quiet' : run'[p] # Idle \/ left'.faults < left.faults
<1>0. run = [q \in Procs |-> run[q]] /\ left \in [edits : Nat, faults : Nat, cli : Nat]
  BY DEF CompleteInv, CohereInv, Typed
<1>1. CASE StartCycle \/ StartCli
  <2>0. PICK p \in Procs : \E roots, full : Begin(p, roots, full)
    BY <1>1 DEF StartCycle, StartCli, Procs
  <2>1. PICK roots, full : Begin(p, roots, full)  BY <2>0
  <2> DEFINE before == [f \in Files |-> IF entity[f] = None THEN None ELSE entity[f].sum]
             r == [pc |-> "walk", roots |-> roots, full |-> full, before |-> before,
                   walk |-> roots, found |-> {}, todo |-> {}]
  <2>2. run' = [run EXCEPT ![p] = r] /\ quiet' = {p} /\ UNCHANGED entity
    BY <2>1 DEF Begin, tables
  <2>3. r.pc = "walk"  OBVIOUS
  <2> HIDE DEF r, before
  <2>4. \A q \in Procs : run'[q] = IF q = p THEN r ELSE run[q]  BY <1>0, <2>2
  <2>5. NamedOwn'  BY <2>2, <2>3, <2>4 DEF CompleteInv, NamedOwn, Rows, Own
  <2>6. Unfailing(run[p])'  BY <2>3, <2>4 DEF Unfailing
  <2>7. left' \in [edits : Nat, faults : Nat, cli : Nat]
    <3>1. left.cli > 0 => left.cli - 1 \in Nat  BY <1>0
    <3> QED  BY <1>0, <1>1, <3>1 DEF StartCycle, StartCli
  <2>8. run'[p] # Idle  BY <2>3, <2>4 DEF Idle
  <2> QED  BY <2>2, <2>5, <2>6, <2>7, <2>8 DEF CompleteInv
<1>2. CASE Changes /\ UNCHANGED <<entity, run>>
  <2>1. left.edits > 0 => left.edits - 1 \in Nat  BY <1>0
  <2>2. left' \in [edits : Nat, faults : Nat, cli : Nat] /\ quiet' = {}
    BY <1>0, <1>2, <2>1 DEF Changes
  <2>3. NamedOwn'  BY <1>2 DEF CompleteInv, NamedOwn, Rows, Own
  <2> QED  BY <2>2, <2>3 DEF CompleteInv
<1>3. ASSUME NEW p \in Procs, Fault(p)
      PROVE  CompleteInv' /\ left'.faults < left.faults
  <2>1. run' = [run EXCEPT ![p] = Idle] /\ quiet' \subseteq {p} /\ UNCHANGED entity
        /\ left.faults > 0 /\ left' = [left EXCEPT !.faults = @ - 1]
    BY <1>3 DEF Fault, Go, tables, CompleteInv, CohereInv, Typed
  <2>2. Idle.pc = "idle"  BY DEF Idle
  <2>3. \A q \in Procs : run'[q] = IF q = p THEN Idle ELSE run[q]  BY <1>0, <2>1
  <2>4. NamedOwn'  BY <2>1, <2>2, <2>3 DEF CompleteInv, NamedOwn, Rows, Own
  <2>5. Unfailing(run[p])'  BY <2>2, <2>3 DEF Unfailing
  <2>6. left.faults - 1 \in Nat /\ left.faults - 1 < left.faults  BY <1>0, <2>1
  <2>7. left' \in [edits : Nat, faults : Nat, cli : Nat] /\ left'.faults = left.faults - 1
    BY <1>0, <2>1, <2>6
  <2> QED  BY <2>1, <2>4, <2>5, <2>6, <2>7 DEF CompleteInv
<1>4. CASE Environment
  <2>1. (Changes /\ UNCHANGED <<entity, run>>) \/ \E p \in Procs : Fault(p)
    BY <1>4 DEF Environment, WriteFile, RemoveFile, Lock, Unmount, Changes, tables
  <2>2. Changes => quiet' = {}  BY DEF Changes
  <2> QED  BY <1>2, <1>3, <2>1, <2>2
<1> QED  BY <1>1, <1>4

\* If the slugs of the keys are apart, from each other and from what documents ask
\* for, then a sync that nothing disturbs runs to its end unless a root is missing:
\* no permalink collides, no chunk loses its entity and no file is lost between its
\* two reads, whatever earlier syncs left (_ensure_unique_permalink, upsert_entities,
\* write_chunks).
THEOREM UndisturbedSyncsComplete ==
    ASSUME SlugsApart
    PROVE  Spec => UndisturbedSyncCompletes
<1>1. Init => CompleteInv
  <2> SUFFICES ASSUME Init PROVE CompleteInv  OBVIOUS
  <2>1. CohereInv  BY CohereInit
  <2>2. left \in [edits : Nat, faults : Nat, cli : Nat]  BY BoundsAssumption DEF Init
  <2> QED  BY <2>1, <2>2 DEF Init, CompleteInv, NamedOwn, Rows, Idle
<1>2. CompleteInv /\ [Next]_vars => CompleteInv'
  <2> SUFFICES ASSUME CompleteInv, [Next]_vars PROVE CompleteInv'  OBVIOUS
  <2>1. CohereInv'  BY NextTyped, StepCoheres DEF CompleteInv, CohereInv
  <2>2. CASE UNCHANGED vars
    <3>1. /\ disk' = disk /\ locked' = locked /\ gone' = gone /\ entity' = entity /\ gen' = gen
          /\ fts' = fts /\ run' = run /\ quiet' = quiet /\ left' = left
      BY <2>2 DEF vars
    <3>2. NamedOwn'  BY <3>1 DEF CompleteInv, NamedOwn, Own, Rows
    <3>3. ASSUME NEW p \in quiet PROVE Unfailing(run[p])'
      <4>1. Unfailing(run[p])  BY DEF CompleteInv
      <4> QED  BY <3>1, <4>1 DEF Unfailing, Owned, Rows, Live, Readable
    <3> QED  BY <2>1, <3>1, <3>2, <3>3 DEF CompleteInv
  <2> QED  BY <2>1, <2>2, CompleteSync, CompleteWorld DEF Next, Procs
<1>3. CompleteInv /\ [Next]_vars =>
        [\A p \in quiet : run'[p] = Idle /\ p \in quiet' =>
            At(p, "done") \/ gone # {} \/ left'.faults < left.faults]_vars
  <2> SUFFICES ASSUME CompleteInv, Next, NEW p \in quiet, run'[p] = Idle, p \in quiet'
               PROVE  At(p, "done") \/ gone # {} \/ left'.faults < left.faults
    OBVIOUS
  <2>1. CohereInv'  BY NextTyped, StepCoheres DEF CompleteInv, CohereInv
  <2>2. p \in Procs  BY DEF CompleteInv, CohereInv, Typed
  <2>3. CASE StartCycle \/ StartCli \/ Environment  BY <2>1, <2>3, CompleteWorld
  <2>4. ASSUME NEW q \in Procs, Sync(q) PROVE At(p, "done") \/ gone # {}
    <3>1. quiet' \subseteq quiet \cap {q}
      BY <2>4 DEF Sync, ScanRoot, Prune, LoadOwners, ReadText, ReadSum, Upsert, Resolve, RebuildText,
        ReadTexts, ReadHashes, WriteChunks, PruneVectors, Finish, Ends, Go, CompleteInv, CohereInv, Typed
    <3> QED  BY <2>1, <2>4, <3>1, CompleteSync
  <2> QED  BY <2>3, <2>4 DEF Next, Procs
<1> QED  BY <1>1, <1>2, <1>3, PTL DEF Spec, UndisturbedSyncCompletes
=============================================================================
