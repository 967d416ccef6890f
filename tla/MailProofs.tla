----------------------------- MODULE MailProofs -----------------------------
(***************************************************************************)
(* Theorems about the email extractor over a mailbox that changes while it *)
(* runs, for every sequence of folders, every set of ids with any keys,    *)
(* every page cap, and any number of failed runs, resyncs and changes.     *)
(***************************************************************************)
EXTENDS MCMailMirror, SequenceTheorems, TLAPS
-----------------------------------------------------------------------------
(* The inductive invariant *)

Numbers(f) == 1..Len(feed[f])

\* What a delta feed says of where a message is: an id has its changes in one place,
\* is there or gone, is gone once its removal is in the feed, and while it is there
\* one of its changes is the last.
OfOnePlace ==
    \A f, g \in Places : \A n \in Numbers(f), m \in Numbers(g) :
        feed[f][n].id = feed[g][m].id => f = g
ThereOrGone ==
    \A f \in Places : \A n \in Numbers(f) :
        /\ where[feed[f][n].id] \in {f, "gone"}
        /\ feed[f][n].op = "removed" => where[feed[f][n].id] = "gone"
HasALastChange ==
    \A i \in Ids, f \in Places : where[i] = f =>
        \E n \in Numbers(f) : /\ feed[f][n] = Put(i)
                              /\ \A m \in Numbers(f) : m > n => feed[f][m].id # i
FeedOK == OfOnePlace /\ ThereOrGone /\ HasALastChange

\* What a state document (the stored one, or the run's) says of the vault: a message
\* its link has passed is kept, an id whose removal it has passed, or whose removal
\* was before its chain began, is not in its map, and its map knows ids only.
Passed(i, f, pos) == \A n \in Numbers(f) : feed[f][n].id = i => n <= pos
Kept(i, map) == i \in skipped \/ (i \in vault /\ i \in map)

Covers(doc) ==
    \A i \in Ids, f \in Places :
        where[i] = f /\ Passed(i, f, doc.link[f].pos) => Kept(i, doc.map)
ForgetsTheGone(doc) ==
    \A f \in Places : \A n \in Numbers(f) :
        /\ feed[f][n].op = "removed"
        /\ n <= doc.link[f].pos \/ n <= doc.link[f].base
        => feed[f][n].id \notin doc.map
LinksAreBehind(doc) ==
    \A f \in Places :
        /\ doc.link[f].pos <= Len(feed[f]) /\ doc.link[f].base <= Len(feed[f])
        /\ f \notin doc.begun => doc.link[f] = NoLink
MapsTheBorn(doc) == \A i \in doc.map : where[i] # "unborn"
DocumentOK(doc) == Covers(doc) /\ ForgetsTheGone(doc) /\ LinksAreBehind(doc) /\ MapsTheBorn(doc)

\* Only a folder whose chain has begun, or that is being synced, has ids in the map.
MapsTheBegun(doc, places) ==
    \A f \in Places : \A n \in Numbers(f) : feed[f][n].id \in doc.map => f \in places

\* A round in hand: what it will have passed is kept or still in the batch, and what
\* the batch holds is neither behind the link nor already removed.
RoundOK ==
    /\ state.link[Folder].pos <= resume.pos /\ state.link[Folder].base <= resume.base
    /\ resume.pos <= Len(feed[Folder]) /\ resume.base <= Len(feed[Folder])
    /\ \A n \in batch : n \in Numbers(Folder) /\ state.link[Folder].pos < n /\ n <= resume.pos
    /\ \A n \in batch, m \in Numbers(Folder) :
         feed[Folder][n].op = "put" /\ feed[Folder][m] = Removed(feed[Folder][n].id)
         => m > resume.pos /\ m > resume.base
    /\ \A i \in Ids :
         where[i] = Folder /\ Passed(i, Folder, resume.pos)
         => Kept(i, state.map) \/ \E n \in batch : feed[Folder][n] = Put(i)
    /\ \A n \in Numbers(Folder) :
         /\ feed[Folder][n].op = "removed"
         /\ n <= resume.pos \/ n <= resume.base
         => feed[Folder][n].id \notin state.map \/ n \in batch

StoredOK == DocumentOK(stored) /\ MapsTheBegun(stored, stored.begun)
RunOK ==
    /\ DocumentOK(state) /\ vault \subseteq state.map \cup adrift
    /\ \A f \in Places : stored.link[f].pos <= state.link[f].pos
    /\ MapsTheBegun(state, state.begun \cup IF pc = "items" THEN {Folder} ELSE {})
    /\ pc = "items" => RoundOK
MailInv ==
    /\ TypeOK /\ FeedOK /\ StoredOK
    /\ IF pc = "idle" THEN state = NoState /\ vault \subseteq stored.map \cup adrift ELSE RunOK
-----------------------------------------------------------------------------
(* Types *)

LEMMA PlacesAreThere ==
    /\ Len(Folders) \in Nat \ {0}
    /\ \A n \in 1..Len(Folders) : Folders[n] \in Places
    /\ "gone" \notin Places /\ "unborn" \notin Places
<1>1. Folders \in Seq(STRING) /\ Folders # <<>> /\ {"unborn", "gone"} \cap Places = {}
  BY MailAssumption
<1>2. Len(Folders) \in Nat \ {0}  BY <1>1, EmptySeq
<1>3. \A n \in 1..Len(Folders) : Folders[n] \in Places  BY DEF Places
<1> QED  BY <1>1, <1>2, <1>3

\* What the type of the feeds and of the documents says of their parts.
LEMMA TypesOfParts ==
    ASSUME TypeOK
    PROVE  /\ \A f \in Places : Len(feed[f]) \in Nat /\ feed[f] \in Seq(Changes)
           /\ \A f \in Places : \A n \in Numbers(f) :
                feed[f][n] \in Changes /\ feed[f][n].id \in Ids /\ n \in Nat
           /\ \A doc \in States, f \in Places :
                doc.link[f] \in Links /\ doc.link[f].pos \in Nat /\ doc.link[f].base \in Nat
           /\ resume.pos \in Nat /\ resume.base \in Nat
<1>1. \A f \in Places : feed[f] \in Seq(Changes)  BY DEF TypeOK
<1>2. \A f \in Places : Len(feed[f]) \in Nat /\ DOMAIN feed[f] = Numbers(f)
  BY <1>1 DEF Numbers
<1>3. \A f \in Places : \A n \in Numbers(f) : feed[f][n] \in Changes /\ n \in Nat
  BY <1>1, <1>2 DEF Numbers
<1>4. \A c \in Changes : c.id \in Ids  BY DEF Changes
<1>5. \A doc \in States, f \in Places : doc.link[f] \in Links  BY DEF States
<1>6. \A l \in Links : l.pos \in Nat /\ l.base \in Nat  BY DEF Links
<1> QED  BY <1>1, <1>2, <1>3, <1>4, <1>5, <1>6 DEF TypeOK

LEMMA EmptyType == NoState \in States /\ NoLink \in Links
BY DEF NoState, NoLink, States, Links
-----------------------------------------------------------------------------
(* The mailbox *)

\* What any change of the mailbox does: a feed grows by changes to a message that was
\* unborn or there, and where a message comes to be, its last change is a put.
New(f) == Numbers(f)' \ Numbers(f)
Evolves ==
    /\ \A f \in Places :
         /\ Len(feed'[f]) \in Nat /\ Len(feed[f]) <= Len(feed'[f])
         /\ \A n \in Numbers(f) : n \in Numbers(f)' /\ feed'[f][n] = feed[f][n]
    /\ \A f \in Places : \A n \in New(f) :
         /\ where[feed'[f][n].id] \in {"unborn", f} /\ where'[feed'[f][n].id] \in {f, "gone"}
         /\ feed'[f][n].op = "removed" => where'[feed'[f][n].id] = "gone"
    /\ \A f, g \in Places : \A n \in New(f), m \in New(g) :
         feed'[f][n].id = feed'[g][m].id => f = g
    /\ \A i \in Ids : where[i] # "unborn" => where'[i] \in {where[i], "gone"}
    /\ \A i \in Ids, f \in Places : where'[i] = f =>
         \/ where[i] = f /\ \A n \in New(f) : feed'[f][n].id # i
         \/ \E n \in New(f) : /\ feed'[f][n] = Put(i)
                              /\ \A m \in New(f) : m > n => feed'[f][m].id # i

LEMMA Appended ==
    ASSUME TypeOK, NEW f \in Places, NEW c \in Changes, feed'[f] = Append(feed[f], c)
    PROVE  /\ Len(feed'[f]) = Len(feed[f]) + 1 /\ Len(feed'[f]) \in Nat
           /\ \A n \in Numbers(f) : n \in Numbers(f)' /\ feed'[f][n] = feed[f][n]
           /\ New(f) = {Len(feed[f]) + 1} /\ feed'[f][Len(feed[f]) + 1] = c
<1>1. feed[f] \in Seq(Changes) /\ Len(feed[f]) \in Nat  BY TypesOfParts
<1>2. /\ Len(feed'[f]) = Len(feed[f]) + 1 /\ feed'[f][Len(feed[f]) + 1] = c
      /\ \A n \in 1..Len(feed[f]) : feed'[f][n] = feed[f][n]
  BY <1>1
<1> QED  BY <1>1, <1>2 DEF Numbers, New

LEMMA Untouched ==
    ASSUME TypeOK, NEW f \in Places, feed'[f] = feed[f]
    PROVE  /\ Len(feed'[f]) = Len(feed[f]) /\ Len(feed'[f]) \in Nat
           /\ \A n \in Numbers(f) : n \in Numbers(f)' /\ feed'[f][n] = feed[f][n]
           /\ New(f) = {}
BY TypesOfParts DEF Numbers, New

LEMMA OneAppended ==
    ASSUME TypeOK, NEW f \in Places, NEW c \in Changes,
           feed'[f] = Append(feed[f], c), \A g \in Places \ {f} : feed'[g] = feed[g],
           where[c.id] \in {"unborn", f}, where'[c.id] \in {f, "gone"},
           c.op = "removed" => where'[c.id] = "gone", where'[c.id] = f => c = Put(c.id),
           \A i \in Ids \ {c.id} : where'[i] = where[i]
    PROVE  Evolves
<1>1. /\ Len(feed'[f]) = Len(feed[f]) + 1 /\ Len(feed'[f]) \in Nat
      /\ \A n \in Numbers(f) : n \in Numbers(f)' /\ feed'[f][n] = feed[f][n]
      /\ New(f) = {Len(feed[f]) + 1} /\ feed'[f][Len(feed[f]) + 1] = c
  BY Appended
<1>2. \A g \in Places \ {f} :
         /\ Len(feed'[g]) = Len(feed[g]) /\ Len(feed'[g]) \in Nat
         /\ \A n \in Numbers(g) : n \in Numbers(g)' /\ feed'[g][n] = feed[g][n]
         /\ New(g) = {}
  BY Untouched
<1>3. \A g \in Places : Len(feed[g]) \in Nat  BY TypesOfParts
<1>4. \A g \in Places : \A n \in New(g) : g = f /\ n = Len(feed[f]) + 1 /\ feed'[g][n] = c
  BY <1>1, <1>2
<1>5. \A g \in Places :
         /\ Len(feed'[g]) \in Nat /\ Len(feed[g]) <= Len(feed'[g])
         /\ \A n \in Numbers(g) : n \in Numbers(g)' /\ feed'[g][n] = feed[g][n]
  <2> SUFFICES ASSUME NEW g \in Places
               PROVE  /\ Len(feed'[g]) \in Nat /\ Len(feed[g]) <= Len(feed'[g])
                      /\ \A n \in Numbers(g) : n \in Numbers(g)' /\ feed'[g][n] = feed[g][n]
    OBVIOUS
  <2>1. CASE g = f
    <3>1. Len(feed[f]) <= Len(feed'[f])  BY <1>1, <1>3
    <3> QED  BY <1>1, <2>1, <3>1
  <2>2. CASE g # f  BY <1>2, <1>3, <2>2
  <2> QED  BY <2>1, <2>2
<1>6. \A i \in Ids, g \in Places : where'[i] = g =>
         \/ where[i] = g /\ \A n \in New(g) : feed'[g][n].id # i
         \/ \E n \in New(g) : /\ feed'[g][n] = Put(i)
                              /\ \A m \in New(g) : m > n => feed'[g][m].id # i
  <2> SUFFICES ASSUME NEW i \in Ids, NEW g \in Places, where'[i] = g
               PROVE  \/ where[i] = g /\ \A n \in New(g) : feed'[g][n].id # i
                      \/ \E n \in New(g) : /\ feed'[g][n] = Put(i)
                                           /\ \A m \in New(g) : m > n => feed'[g][m].id # i
    OBVIOUS
  <2>1. CASE i # c.id  BY <1>4, <2>1
  <2>2. CASE i = c.id
    <3>1. g = f /\ c = Put(i)  BY <2>2, PlacesAreThere
    <3>2. Len(feed[f]) + 1 \in New(f) /\ feed'[f][Len(feed[f]) + 1] = Put(i)  BY <1>1, <3>1
    <3>3. \A m \in New(f) : ~(m > Len(feed[f]) + 1)  BY <1>1, <1>3
    <3> QED  BY <3>1, <3>2, <3>3
  <2> QED  BY <2>1, <2>2
<1>7. \A i \in Ids : where[i] # "unborn" => where'[i] \in {where[i], "gone"}
  OBVIOUS
<1> QED  BY <1>4, <1>5, <1>6, <1>7 DEF Evolves

\* A move is a removal in one place and a put of another id in another.
LEMMA MoveEvolves ==
    ASSUME TypeOK, NEW i \in Ids, NEW j \in Ids, NEW h \in Places, Move(i, j, h)
    PROVE  Evolves
<1> USE PlacesAreThere
<1>0. /\ feed \in [Places -> Seq(Changes)] /\ where \in [Ids -> Places \cup {"unborn", "gone"}]
      /\ Put(j) \in Changes /\ Put(j).id = j /\ Put(j).op = "put"
      /\ Removed(i) \in Changes /\ Removed(i).id = i
  BY DEF TypeOK, Put, Removed, Changes
<1>1. PICK f \in Places : /\ where[i] = f /\ h # f /\ where[j] = "unborn" /\ i # j
                          /\ where' = [where EXCEPT ![i] = "gone", ![j] = h]
                          /\ feed' = [feed EXCEPT ![f] = Append(@, Removed(i)), ![h] = Append(@, Put(j))]
  BY <1>0 DEF Move
<1>2. /\ feed'[f] = Append(feed[f], Removed(i)) /\ feed'[h] = Append(feed[h], Put(j))
      /\ \A g \in Places \ {f, h} : feed'[g] = feed[g]
  BY <1>0, <1>1
<1>3. where'[i] = "gone" /\ where'[j] = h /\ \A k \in Ids \ {i, j} : where'[k] = where[k]
  BY <1>0, <1>1
<1>4. /\ Len(feed'[f]) = Len(feed[f]) + 1 /\ Len(feed'[f]) \in Nat
      /\ \A n \in Numbers(f) : n \in Numbers(f)' /\ feed'[f][n] = feed[f][n]
      /\ New(f) = {Len(feed[f]) + 1} /\ feed'[f][Len(feed[f]) + 1] = Removed(i)
  BY <1>0, <1>2, Appended
<1>5. /\ Len(feed'[h]) = Len(feed[h]) + 1 /\ Len(feed'[h]) \in Nat
      /\ \A n \in Numbers(h) : n \in Numbers(h)' /\ feed'[h][n] = feed[h][n]
      /\ New(h) = {Len(feed[h]) + 1} /\ feed'[h][Len(feed[h]) + 1] = Put(j)
  BY <1>0, <1>2, Appended
<1>6. \A g \in Places \ {f, h} :
         /\ Len(feed'[g]) = Len(feed[g]) /\ Len(feed'[g]) \in Nat
         /\ \A n \in Numbers(g) : n \in Numbers(g)' /\ feed'[g][n] = feed[g][n]
         /\ New(g) = {}
  BY <1>2, Untouched
<1>7. \A g \in Places : Len(feed[g]) \in Nat  BY TypesOfParts
<1>8. \A g \in Places : \A n \in New(g) :
         \/ g = f /\ feed'[g][n] = Removed(i)
         \/ g = h /\ feed'[g][n] = Put(j) /\ n = Len(feed[h]) + 1
  BY <1>4, <1>5, <1>6
<1>9. \A g \in Places :
         /\ Len(feed'[g]) \in Nat /\ Len(feed[g]) <= Len(feed'[g])
         /\ \A n \in Numbers(g) : n \in Numbers(g)' /\ feed'[g][n] = feed[g][n]
  <2> SUFFICES ASSUME NEW g \in Places
               PROVE  /\ Len(feed'[g]) \in Nat /\ Len(feed[g]) <= Len(feed'[g])
                      /\ \A n \in Numbers(g) : n \in Numbers(g)' /\ feed'[g][n] = feed[g][n]
    OBVIOUS
  <2>1. CASE g = f  BY <1>4, <1>7, <2>1
  <2>2. CASE g = h  BY <1>5, <1>7, <2>2
  <2>3. CASE g \notin {f, h}  BY <1>6, <1>7, <2>3
  <2> QED  BY <2>1, <2>2, <2>3
<1>10. \A k \in Ids, g \in Places : where'[k] = g =>
         \/ where[k] = g /\ \A n \in New(g) : feed'[g][n].id # k
         \/ \E n \in New(g) : /\ feed'[g][n] = Put(k)
                              /\ \A m \in New(g) : m > n => feed'[g][m].id # k
  <2> SUFFICES ASSUME NEW k \in Ids, NEW g \in Places, where'[k] = g
               PROVE  \/ where[k] = g /\ \A n \in New(g) : feed'[g][n].id # k
                      \/ \E n \in New(g) : /\ feed'[g][n] = Put(k)
                                           /\ \A m \in New(g) : m > n => feed'[g][m].id # k
    OBVIOUS
  <2>1. CASE k \notin {i, j}  BY <1>0, <1>3, <1>8, <2>1
  <2>2. CASE k = i  BY <1>3, <2>2
  <2>3. CASE k = j
    <3>1. g = h  BY <1>3, <2>3
    <3>2. Len(feed[h]) + 1 \in New(h) /\ feed'[h][Len(feed[h]) + 1] = Put(k)  BY <1>5, <2>3
    <3>3. \A m \in New(h) : ~(m > Len(feed[h]) + 1)  BY <1>5, <1>7
    <3> QED  BY <3>1, <3>2, <3>3
  <2> QED  BY <2>1, <2>2, <2>3
<1>11. \A k \in Ids : where[k] # "unborn" => where'[k] \in {where[k], "gone"}
  BY <1>1, <1>3
<1>12. \A g \in Places : \A n \in New(g) :
         /\ where[feed'[g][n].id] \in {"unborn", g} /\ where'[feed'[g][n].id] \in {g, "gone"}
         /\ feed'[g][n].op = "removed" => where'[feed'[g][n].id] = "gone"
  BY ZenonT(40), <1>0, <1>1, <1>3, <1>8
<1>13. \A g, k \in Places : \A n \in New(g), m \in New(k) :
         feed'[g][n].id = feed'[k][m].id => g = k
  BY <1>0, <1>1, <1>8
<1> QED  BY <1>9, <1>10, <1>11, <1>12, <1>13 DEF Evolves

LEMMA MailboxEvolves ==
    ASSUME TypeOK, Mailbox
    PROVE  Evolves
<1> USE PlacesAreThere
<1>0. /\ feed \in [Places -> Seq(Changes)] /\ where \in [Ids -> Places \cup {"unborn", "gone"}]
      /\ \A i \in Ids : Put(i) \in Changes /\ Put(i).id = i /\ Put(i).op = "put"
      /\ \A i \in Ids : Removed(i) \in Changes /\ Removed(i).id = i
  BY DEF TypeOK, Put, Removed, Changes
<1>1. ASSUME NEW i \in Ids, NEW f \in Places, Arrive(i, f) PROVE Evolves
  <2>1. /\ where[i] = "unborn" /\ where'[i] = f /\ \A j \in Ids \ {i} : where'[j] = where[j]
        /\ feed'[f] = Append(feed[f], Put(i)) /\ \A g \in Places \ {f} : feed'[g] = feed[g]
    BY <1>0, <1>1 DEF Arrive
  <2> QED  BY <1>0, <2>1, OneAppended
<1>2. ASSUME NEW i \in Ids, Touch(i) PROVE Evolves
  <2>1. PICK f \in Places :
          /\ where[i] = f /\ where' = where
          /\ feed'[f] = Append(feed[f], Put(i)) /\ \A g \in Places \ {f} : feed'[g] = feed[g]
    BY <1>0, <1>2 DEF Touch
  <2> QED  BY <1>0, <2>1, OneAppended
<1>3. ASSUME NEW i \in Ids, Delete(i) PROVE Evolves
  <2>1. PICK f \in Places :
          /\ where[i] = f /\ where'[i] = "gone" /\ \A j \in Ids \ {i} : where'[j] = where[j]
          /\ feed'[f] = Append(feed[f], Removed(i)) /\ \A g \in Places \ {f} : feed'[g] = feed[g]
    BY <1>0, <1>3 DEF Delete
  <2> QED  BY <1>0, <2>1, OneAppended
<1> QED  BY <1>1, <1>2, <1>3, MoveEvolves DEF Mailbox

LEMMA FeedEvolves ==
    ASSUME TypeOK, TypeOK', FeedOK, Evolves
    PROVE  FeedOK'
<1> USE PlacesAreThere
<1>1. \A f \in Places : \A n \in Numbers(f)' :
        \/ n \in New(f)
        \/ n \in Numbers(f) /\ feed'[f][n] = feed[f][n]
  BY DEF Evolves, New
<1>2. \A f \in Places : \A n \in Numbers(f) : where[feed[f][n].id] \in {f, "gone"}
  BY DEF FeedOK, ThereOrGone
<1>3. \A f \in Places : \A n \in Numbers(f) : feed[f][n].id \in Ids  BY TypesOfParts
<1>4. OfOnePlace'
  <2> SUFFICES ASSUME NEW f \in Places, NEW g \in Places, NEW n \in Numbers(f)', NEW m \in Numbers(g)',
                      feed'[f][n].id = feed'[g][m].id
               PROVE  f = g
    BY DEF OfOnePlace
  <2>1. CASE n \in New(f) /\ m \in New(g)  BY <2>1 DEF Evolves
  <2>2. CASE n \in New(f) /\ m \in Numbers(g) /\ feed'[g][m] = feed[g][m]
    <3>1. where[feed'[f][n].id] \in {"unborn", f}  BY <2>2 DEF Evolves
    <3>2. where[feed[g][m].id] \in {g, "gone"}  BY <1>2, <2>2
    <3> QED  BY <2>2, <3>1, <3>2
  <2>3. CASE n \in Numbers(f) /\ feed'[f][n] = feed[f][n] /\ m \in New(g)
    <3>1. where[feed'[g][m].id] \in {"unborn", g}  BY <2>3 DEF Evolves
    <3>2. where[feed[f][n].id] \in {f, "gone"}  BY <1>2, <2>3
    <3> QED  BY <2>3, <3>1, <3>2
  <2>4. CASE n \in Numbers(f) /\ feed'[f][n] = feed[f][n] /\ m \in Numbers(g) /\ feed'[g][m] = feed[g][m]
    BY <2>4 DEF FeedOK, OfOnePlace
  <2> QED  BY <1>1, <2>1, <2>2, <2>3, <2>4
<1>5. ThereOrGone'
  BY <1>1, <1>2, <1>3 DEF Evolves, FeedOK, ThereOrGone
<1>6. HasALastChange'
  <2> SUFFICES ASSUME NEW i \in Ids, NEW f \in Places, where'[i] = f
               PROVE  \E n \in Numbers(f)' :
                         /\ feed'[f][n] = Put(i)
                         /\ \A m \in Numbers(f)' : m > n => feed'[f][m].id # i
    BY DEF HasALastChange, Put
  <2>1. CASE where[i] = f /\ \A n \in New(f) : feed'[f][n].id # i
    <3>1. PICK n \in Numbers(f) : /\ feed[f][n] = Put(i)
                                  /\ \A m \in Numbers(f) : m > n => feed[f][m].id # i
      BY <2>1 DEF FeedOK, HasALastChange
    <3>2. n \in Numbers(f)' /\ feed'[f][n] = Put(i)  BY <3>1 DEF Evolves
    <3> QED  BY <1>1, <2>1, <3>1, <3>2
  <2>2. ASSUME NEW n \in New(f), feed'[f][n] = Put(i),
               \A m \in New(f) : m > n => feed'[f][m].id # i
        PROVE  \E k \in Numbers(f)' :
                  /\ feed'[f][k] = Put(i)
                  /\ \A m \in Numbers(f)' : m > k => feed'[f][m].id # i
    <3>1. n \in Numbers(f)'  BY DEF New
    <3>2. \A m \in Numbers(f) : m < n
      BY TypesOfParts DEF New, Numbers, Evolves
    <3>3. \A m \in Numbers(f) : ~(m > n)  BY <3>1, <3>2, TypesOfParts DEF Numbers, Evolves
    <3> QED  BY <1>1, <2>2, <3>1, <3>3
  <2>3. \/ where[i] = f /\ \A n \in New(f) : feed'[f][n].id # i
        \/ \E n \in New(f) : /\ feed'[f][n] = Put(i)
                             /\ \A m \in New(f) : m > n => feed'[f][m].id # i
    BY ZenonT(40) DEF Evolves
  <2> QED  BY <2>1, <2>2, <2>3
<1> QED  BY <1>4, <1>5, <1>6 DEF FeedOK

\* A document outlives a change of the mailbox: what is new is ahead of every link.
LEMMA DocumentEvolves ==
    ASSUME TypeOK, FeedOK, Evolves, vault' = vault, skipped' = skipped
    PROVE  /\ \A doc \in States : DocumentOK(doc) => DocumentOK(doc)'
           /\ \A doc \in States, places \in SUBSET Places :
                MapsTheBorn(doc) /\ MapsTheBegun(doc, places) => MapsTheBegun(doc, places)'
<1> USE PlacesAreThere
<1>1. \A f \in Places : \A n \in Numbers(f)' :
        \/ n \in New(f) /\ n > Len(feed[f])
        \/ n \in Numbers(f) /\ feed'[f][n] = feed[f][n]
  <2> SUFFICES ASSUME NEW f \in Places, NEW n \in Numbers(f)', n \notin Numbers(f)
               PROVE  n \in New(f) /\ n > Len(feed[f])
    BY DEF Evolves
  <2>1. Len(feed[f]) \in Nat /\ Len(feed'[f]) \in Nat  BY TypesOfParts DEF Evolves
  <2> QED  BY <2>1 DEF New, Numbers
<1>2. ASSUME NEW doc \in States, DocumentOK(doc) PROVE DocumentOK(doc)'
  <2>0. \A f \in Places : /\ Len(feed[f]) \in Nat /\ Len(feed'[f]) \in Nat
                          /\ Len(feed[f]) <= Len(feed'[f])
                          /\ doc.link[f].pos \in Nat /\ doc.link[f].base \in Nat
                          /\ doc.link[f].pos <= Len(feed[f]) /\ doc.link[f].base <= Len(feed[f])
    BY <1>2, TypesOfParts DEF Evolves, DocumentOK, LinksAreBehind
  <2>1. \A f \in Places : \A n \in Numbers(f)' :
          n <= doc.link[f].pos \/ n <= doc.link[f].base =>
             n \in Numbers(f) /\ feed'[f][n] = feed[f][n]
    <3> SUFFICES ASSUME NEW f \in Places, NEW n \in Numbers(f)', n > Len(feed[f])
                 PROVE  ~(n <= doc.link[f].pos \/ n <= doc.link[f].base)
      BY <1>1
    <3> QED  BY <2>0 DEF Numbers
  <2>2. Covers(doc)'
    <3> SUFFICES ASSUME NEW i \in Ids, NEW f \in Places, where'[i] = f,
                        Passed(i, f, doc.link[f].pos)'
                 PROVE  Kept(i, doc.map)'
      BY DEF Covers
    <3>1. \A n \in Numbers(f)' : feed'[f][n].id = i => n \in Numbers(f)
      BY <2>1 DEF Passed
    <3>2. ~ \E n \in New(f) : feed'[f][n] = Put(i)
      BY <3>1 DEF New, Put
    <3>3. where[i] = f  BY <3>2 DEF Evolves
    <3>4. Passed(i, f, doc.link[f].pos)  BY DEF Passed, Evolves
    <3> QED  BY <1>2, <3>3, <3>4 DEF DocumentOK, Covers, Kept
  <2>3. ForgetsTheGone(doc)'
    BY <1>2, <2>1 DEF DocumentOK, ForgetsTheGone
  <2>4. LinksAreBehind(doc)'
    <3> SUFFICES ASSUME NEW f \in Places
                 PROVE  /\ doc.link[f].pos <= Len(feed'[f]) /\ doc.link[f].base <= Len(feed'[f])
                        /\ f \notin doc.begun => doc.link[f] = NoLink
      BY DEF LinksAreBehind
    <3> QED  BY <1>2, <2>0 DEF DocumentOK, LinksAreBehind
  <2>5. MapsTheBorn(doc)'
    <3>1. doc.map \subseteq Ids  BY DEF States
    <3> QED  BY <1>2, <3>1 DEF Evolves, DocumentOK, MapsTheBorn
  <2> QED  BY <2>2, <2>3, <2>4, <2>5 DEF DocumentOK
<1>3. ASSUME NEW doc \in States, NEW places \in SUBSET Places,
             MapsTheBorn(doc), MapsTheBegun(doc, places)
      PROVE  MapsTheBegun(doc, places)'
  <2> SUFFICES ASSUME NEW f \in Places, NEW n \in Numbers(f)', feed'[f][n].id \in doc.map
               PROVE  f \in places
    BY DEF MapsTheBegun
  <2>1. CASE n \in Numbers(f) /\ feed'[f][n] = feed[f][n]  BY <1>3, <2>1 DEF MapsTheBegun
  <2>2. CASE n \in New(f)
    <3>1. feed'[f][n].id \in Ids /\ where[feed'[f][n].id] = f
      BY <1>3, <2>2 DEF Evolves, MapsTheBorn, States
    <3>2. PICK m \in Numbers(f) : feed[f][m] = Put(feed'[f][n].id)
      BY <3>1 DEF FeedOK, HasALastChange
    <3>3. feed[f][m].id \in doc.map  BY <3>2 DEF Put
    <3> QED  BY <1>3, <3>3 DEF MapsTheBegun
  <2> QED  BY <1>1, <2>1, <2>2
<1> QED  BY <1>2, <1>3

\* So does a round in hand.
LEMMA RoundEvolves ==
    ASSUME TypeOK, FeedOK, Evolves, RoundOK, at \in 1..Len(Folders),
           UNCHANGED <<vault, skipped, state, at, batch, resume>>
    PROVE  RoundOK'
<1>0. Folder \in Places /\ Folder' = Folder  BY PlacesAreThere DEF Folder
<1>1. \A n \in Numbers(Folder)' :
        \/ n \in New(Folder) /\ n > Len(feed[Folder])
        \/ n \in Numbers(Folder) /\ feed'[Folder][n] = feed[Folder][n]
  <2> SUFFICES ASSUME NEW n \in Numbers(Folder)', n \notin Numbers(Folder)
               PROVE  n \in New(Folder) /\ n > Len(feed[Folder])
    BY <1>0 DEF Evolves, Numbers
  <2>1. Len(feed[Folder]) \in Nat /\ Len(feed'[Folder]) \in Nat  BY <1>0, TypesOfParts DEF Evolves
  <2> QED  BY <1>0, <2>1 DEF New, Numbers
<1>2. /\ Len(feed[Folder]) \in Nat /\ Len(feed'[Folder]) \in Nat
      /\ Len(feed[Folder]) <= Len(feed'[Folder]) /\ resume.pos \in Nat /\ resume.base \in Nat
      /\ resume.pos <= Len(feed[Folder]) /\ resume.base <= Len(feed[Folder])
  BY <1>0, TypesOfParts DEF Evolves, RoundOK
<1>3. \A n \in Numbers(Folder)' :
        \/ n > resume.pos /\ n > resume.base
        \/ n \in Numbers(Folder) /\ feed'[Folder][n] = feed[Folder][n]
  <2> SUFFICES ASSUME NEW n \in Numbers(Folder)', n > Len(feed[Folder])
               PROVE  n > resume.pos /\ n > resume.base
    BY <1>1
  <2> QED  BY <1>0, <1>2 DEF Numbers
<1>4. \A n \in Numbers(Folder) : n \in Numbers(Folder)' /\ feed'[Folder][n] = feed[Folder][n]
  BY <1>0 DEF Evolves, Numbers
<1>5. \A n \in batch : n \in Numbers(Folder) /\ state.link[Folder].pos < n /\ n <= resume.pos
  BY DEF RoundOK
<1>6. \A n \in batch, m \in Numbers(Folder)' :
        feed'[Folder][n].op = "put" /\ feed'[Folder][m] = Removed(feed'[Folder][n].id)
        => m > resume.pos /\ m > resume.base
  BY <1>3, <1>4, <1>5 DEF RoundOK
<1>7. ASSUME NEW i \in Ids, where'[i] = Folder, Passed(i, Folder, resume.pos)'
      PROVE  Kept(i, state.map) \/ \E n \in batch : feed'[Folder][n] = Put(i)
  <2>1. \A n \in Numbers(Folder)' : feed'[Folder][n].id = i => n <= resume.pos
    BY <1>0, <1>7 DEF Passed, Numbers
  <2>2. ~ \E n \in New(Folder) : feed'[Folder][n] = Put(i)
    <3> SUFFICES ASSUME NEW n \in New(Folder), feed'[Folder][n] = Put(i) PROVE FALSE
      OBVIOUS
    <3>1. n \in Numbers(Folder)' /\ n \notin Numbers(Folder)  BY <1>0 DEF New, Numbers
    <3>2. n <= resume.pos  BY <2>1, <3>1 DEF Put
    <3> QED  BY <1>2, <3>1, <3>2 DEF Numbers
  <2>3. where[i] = Folder  BY <1>0, <1>7, <2>2 DEF Evolves
  <2>4. Passed(i, Folder, resume.pos)  BY <1>4, <2>1 DEF Passed
  <2>5. Kept(i, state.map) \/ \E n \in batch : feed[Folder][n] = Put(i)
    BY <2>3, <2>4 DEF RoundOK
  <2> QED  BY <1>4, <1>5, <2>5
<1>8. \A n \in Numbers(Folder)' :
        /\ feed'[Folder][n].op = "removed"
        /\ n <= resume.pos \/ n <= resume.base
        => feed'[Folder][n].id \notin state.map \/ n \in batch
  <2> SUFFICES ASSUME NEW n \in Numbers(Folder)', feed'[Folder][n].op = "removed",
                      n <= resume.pos \/ n <= resume.base
               PROVE  feed'[Folder][n].id \notin state.map \/ n \in batch
    OBVIOUS
  <2>1. n \in Numbers(Folder) /\ feed'[Folder][n] = feed[Folder][n]
    BY <1>2, <1>3 DEF Numbers
  <2> QED  BY <2>1 DEF RoundOK
<1> QED
  <2>1. /\ state'.link[Folder'].pos <= resume'.pos /\ state'.link[Folder'].base <= resume'.base
        /\ resume'.pos <= Len(feed'[Folder']) /\ resume'.base <= Len(feed'[Folder'])
    BY <1>0, <1>2 DEF RoundOK
  <2>2. \A i \in Ids : where'[i] = Folder' /\ Passed(i, Folder, resume.pos)' =>
           Kept(i, state.map)' \/ \E n \in batch' : feed'[Folder'][n] = Put(i)
    BY <1>0, <1>7 DEF Kept
  <2> QED  BY <1>0, <1>4, <1>5, <1>6, <1>8, <2>1, <2>2 DEF RoundOK, Numbers
-----------------------------------------------------------------------------
(* The run *)

LEMMA LeastOfBoth ==
    ASSUME NEW m \in Nat, NEW n \in Nat
    PROVE  LeastOf(m, n) \in Nat /\ LeastOf(m, n) <= m /\ LeastOf(m, n) <= n
BY DEF LeastOf

\* Where the round of a folder begins: at its link, or now.
LEMMA BeginsIsALink ==
    ASSUME TypeOK, Folder \in Places
    PROVE  /\ Begins \in Links /\ Begins.pos \in Nat /\ Begins.base \in Nat
           /\ Folder \in state.begun => Begins = state.link[Folder]
           /\ Folder \notin state.begun => Begins.pos = 0 /\ Begins.base = Len(feed[Folder])
<1>1. state.link[Folder] \in Links /\ Len(feed[Folder]) \in Nat  BY TypesOfParts DEF TypeOK
<1>2. Begins \in Links  BY <1>1 DEF Begins, Links
<1> QED  BY <1>2 DEF Begins, Links

LEMMA NextType == MailInv /\ [Next]_vars => TypeOK'
<1> SUFFICES ASSUME TypeOK, pc = "items" => batch \subseteq Numbers(Folder), [Next]_vars
             PROVE  TypeOK'
  BY DEF MailInv, RunOK, RoundOK
<1> USE PlacesAreThere, EmptyType
<1>0. /\ aborts \in 0..MaxAborts /\ forgets \in 0..MaxForgets /\ touches \in 0..MaxTouches
      /\ MaxAborts \in Nat /\ MaxForgets \in Nat /\ MaxTouches \in Nat
  BY MailAssumption DEF TypeOK
<1>1. CASE Mailbox
  <2>1. UNCHANGED <<stored, vault, run, history, aborts, forgets>>
    BY <1>1 DEF Mailbox, Arrive, Touch, Delete, Move
  <2>2. touches' \in 0..MaxTouches
    BY <1>0, <1>1 DEF Mailbox, Arrive, Touch, Delete, Move
  <2>3. where' \in [Ids -> Places \cup {"unborn", "gone"}]
    <3>1. ASSUME NEW i \in Ids, NEW f \in Places, Arrive(i, f)
          PROVE  where' \in [Ids -> Places \cup {"unborn", "gone"}]
      BY <3>1 DEF Arrive, TypeOK
    <3>2. ASSUME NEW i \in Ids, Touch(i) \/ Delete(i)
          PROVE  where' \in [Ids -> Places \cup {"unborn", "gone"}]
      BY <3>2 DEF Touch, Delete, TypeOK
    <3>3. ASSUME NEW i \in Ids, NEW j \in Ids, NEW f \in Places, Move(i, j, f)
          PROVE  where' \in [Ids -> Places \cup {"unborn", "gone"}]
      BY <3>3 DEF Move, TypeOK
    <3> QED  BY <1>1, <3>1, <3>2, <3>3 DEF Mailbox
  <2>4. \A i \in Ids : Put(i) \in Changes /\ Removed(i) \in Changes
    BY DEF Put, Removed, Changes
  <2>5. \A f \in Places, c \in Changes : Append(feed[f], c) \in Seq(Changes)
    BY TypesOfParts
  <2>6. feed' \in [Places -> Seq(Changes)]
    <3>1. ASSUME NEW i \in Ids, NEW f \in Places, Arrive(i, f) PROVE feed' \in [Places -> Seq(Changes)]
      BY <2>4, <2>5, <3>1 DEF Arrive, TypeOK
    <3>2. ASSUME NEW i \in Ids, Touch(i) PROVE feed' \in [Places -> Seq(Changes)]
      BY <2>4, <2>5, <3>2 DEF Touch, TypeOK
    <3>3. ASSUME NEW i \in Ids, Delete(i) PROVE feed' \in [Places -> Seq(Changes)]
      BY <2>4, <2>5, <3>3 DEF Delete, TypeOK
    <3>4. ASSUME NEW i \in Ids, NEW j \in Ids, NEW f \in Places, Move(i, j, f)
          PROVE  feed' \in [Places -> Seq(Changes)]
      <4> DEFINE half == [feed EXCEPT ![where[i]] = Append(@, Removed(i))]
      <4>1. where[i] \in Places \ {f}  BY <3>4 DEF Move
      <4>2. half \in [Places -> Seq(Changes)] /\ half[f] = feed[f]
        BY <2>4, <2>5, <4>1 DEF TypeOK
      <4>3. feed' = [half EXCEPT ![f] = Append(feed[f], Put(j))]
        BY <3>4, <4>1 DEF Move, TypeOK
      <4> HIDE DEF half
      <4> QED  BY <2>4, <2>5, <4>2, <4>3
    <3> QED  BY <1>1, <3>1, <3>2, <3>3, <3>4 DEF Mailbox
  <2> QED  BY <2>1, <2>2, <2>3, <2>6 DEF TypeOK, run, history
<1>2. CASE Start
  <2>1. stored' \in States /\ state' = stored' /\ forgets' \in 0..MaxForgets
    BY <1>0, <1>2 DEF Start, TypeOK
  <2>2. /\ pc' = "folder" /\ at' = 1 /\ seen' = {} /\ adrift' = adrift \cup (vault \ stored'.map)
        /\ UNCHANGED <<feed, where, touches, vault, batch, resume, skipped, aborts>>
    BY <1>2 DEF Start, upstream, Adrift
  <2>3. at' \in 0..(Len(Folders) + 1) /\ at' \in 1..Len(Folders)  BY <2>2
  <2> QED  BY <2>1, <2>2, <2>3 DEF TypeOK
<1>3. CASE Fetch
  <2>1. Folder \in Places  BY <1>3 DEF Fetch, Folder, TypeOK
  <2>2. Len(feed[Folder]) \in Nat /\ PageCap \in Nat  BY <2>1, TypesOfParts, MailAssumption
  <2>3. Begins.pos \in Nat /\ Begins.base \in Nat  BY <2>1, BeginsIsALink
  <2>4. EndOfRound(Begins) \in Nat /\ LeastOf(Begins.pos + PageCap, Len(feed[Folder])) \in Nat
    <3>1. Begins.pos + PageCap \in Nat  BY <2>2, <2>3
    <3> QED  BY <2>2, <3>1, LeastOfBoth DEF EndOfRound
  <2>5. resume' \in Links  BY <1>3, <2>3, <2>4 DEF Fetch, Links
  <2>6. batch' \subseteq Nat  BY <1>3, <2>3, <2>4 DEF Fetch
  <2> QED  BY <1>3, <2>5, <2>6 DEF Fetch, TypeOK, upstream, history
<1>4. CASE Item
  <2>1. Folder \in Places  BY <1>4 DEF Item, Folder, TypeOK
  <2>2. PICK n \in batch : /\ batch' = batch \ {n}
                           /\ LET change == feed[Folder][n]
                              IN  IF change.op = "removed"
                                  THEN Remove(change.id) /\ UNCHANGED <<seen, skipped>>
                                  ELSE Write(change.id)
    BY <1>4 DEF Item
  <2>3. vault' \subseteq Ids /\ state' \in States /\ seen' \subseteq {KeyOf[i] : i \in Ids}
        /\ skipped' \subseteq Ids
    <3> DEFINE i == feed[Folder][n].id
    <3>1. CASE Remove(i) /\ UNCHANGED <<seen, skipped>>
      <4>1. vault' \subseteq Ids /\ seen' = seen /\ skipped' = skipped
        BY <3>1 DEF Remove, TypeOK
      <4>2. [state EXCEPT !.map = @ \ {i}] \in States  BY DEF TypeOK, States
      <4>3. state' \in States  BY <3>1, <4>2 DEF Remove, TypeOK
      <4> QED  BY <4>1, <4>3 DEF TypeOK
    <3>2. CASE Write(i) /\ i \in Ids
      <4>1. CASE skipped' = skipped \cup {i} /\ UNCHANGED <<vault, state, seen>>
        BY <3>2, <4>1 DEF TypeOK
      <4>2. CASE /\ seen' = seen \cup {KeyOf[i]} /\ WriteAndMap(i) /\ skipped' = skipped \ {i}
        <5>1. state' \in States  BY <3>2, <4>2 DEF WriteAndMap, TypeOK, States
        <5> QED  BY <3>2, <4>2, <5>1 DEF WriteAndMap, TypeOK
      <4> QED  BY <3>2, <4>1, <4>2 DEF Write
    <3>3. feed[Folder][n].op # "removed" => i \in Ids
      <4>1. n \in Numbers(Folder)  BY <1>4 DEF Item
      <4> QED  BY <2>1, <4>1, TypesOfParts
    <3> QED  BY <2>2, <3>1, <3>2, <3>3
  <2> QED  BY <1>4, <2>2, <2>3 DEF Item, TypeOK, upstream
<1>5. CASE EndFolder
  <2>1. Folder \in Places /\ at \in 1..Len(Folders)  BY <1>5 DEF EndFolder, Folder, TypeOK
  <2>2. state' \in States  BY <1>5, <2>1 DEF EndFolder, TypeOK, States
  <2>3. at' \in 0..(Len(Folders) + 1) /\ pc' \in {"folder", "commit"}
        /\ (pc' = "folder" => at' \in 1..Len(Folders))
    BY <1>5, <2>1 DEF EndFolder, IsLast
  <2> QED  BY <1>5, <2>2, <2>3 DEF EndFolder, TypeOK, upstream, history
<1>6. CASE Commit
  BY <1>6 DEF Commit, Ended, TypeOK, upstream
<1>7. CASE Abort
  <2>1. aborts' \in 0..MaxAborts  BY <1>0, <1>7 DEF Abort
  <2> QED  BY <1>7, <2>1 DEF Abort, Ended, Adrift, TypeOK, upstream
<1>8. CASE UNCHANGED vars
  BY <1>8 DEF vars, upstream, run, history, TypeOK
<1> QED  BY <1>1, <1>2, <1>3, <1>4, <1>5, <1>6, <1>7, <1>8 DEF Next, Extractor

LEMMA FeedStays == ASSUME UNCHANGED <<feed, where>> PROVE FeedOK => FeedOK'
<1>1. \A f : Numbers(f)' = Numbers(f)  BY DEF Numbers
<1>2. OfOnePlace => OfOnePlace'  BY <1>1 DEF OfOnePlace
<1>3. ThereOrGone => ThereOrGone'  BY <1>1 DEF ThereOrGone
<1>4. HasALastChange => HasALastChange'
  <2> SUFFICES ASSUME HasALastChange, NEW i \in Ids, NEW f \in Places, where'[i] = f
               PROVE  \E n \in Numbers(f)' : /\ feed'[f][n] = Put(i)
                                             /\ \A m \in Numbers(f)' : m > n => feed'[f][m].id # i
    BY DEF HasALastChange, Put
  <2>1. PICK n \in Numbers(f) : /\ feed[f][n] = Put(i)
                                /\ \A m \in Numbers(f) : m > n => feed[f][m].id # i
    BY DEF HasALastChange
  <2>2. n \in Numbers(f)'  BY <1>1
  <2> QED  BY <1>1, <2>1, <2>2
<1> QED  BY <1>2, <1>3, <1>4 DEF FeedOK

LEMMA NothingMoves ==
    ASSUME UNCHANGED <<feed, where, vault, skipped>>
    PROVE  /\ FeedOK => FeedOK'
           /\ \A doc : DocumentOK(doc) => DocumentOK(doc)'
           /\ \A doc, places : MapsTheBegun(doc, places) => MapsTheBegun(doc, places)'
<1>1. \A f : Numbers(f)' = Numbers(f)  BY DEF Numbers
<1>2. FeedOK => FeedOK'  BY FeedStays
<1>3. \A doc : DocumentOK(doc) => DocumentOK(doc)'
  BY <1>1 DEF DocumentOK, Covers, ForgetsTheGone, LinksAreBehind, MapsTheBorn, Passed, Kept
<1>4. \A doc, places : MapsTheBegun(doc, places) => MapsTheBegun(doc, places)'
  BY <1>1 DEF MapsTheBegun
<1> QED  BY <1>2, <1>3, <1>4

LEMMA EmptyDocument ==
    ASSUME TypeOK, FeedOK
    PROVE  DocumentOK(NoState) /\ \A places : MapsTheBegun(NoState, places)
<1> USE DEF NoState, NoLink
<1>1. Covers(NoState)
  <2> SUFFICES ASSUME NEW i \in Ids, NEW f \in Places, where[i] = f, Passed(i, f, 0)
               PROVE  FALSE
    BY DEF Covers
  <2>1. PICK n \in Numbers(f) : feed[f][n] = Put(i)  BY DEF FeedOK, HasALastChange
  <2>2. n <= 0  BY <2>1 DEF Passed, Put
  <2> QED  BY <2>2, TypesOfParts DEF Numbers
<1>2. LinksAreBehind(NoState)  BY TypesOfParts DEF LinksAreBehind
<1>3. ForgetsTheGone(NoState) /\ MapsTheBorn(NoState) /\ \A places : MapsTheBegun(NoState, places)
  BY DEF ForgetsTheGone, MapsTheBorn, MapsTheBegun
<1> QED  BY <1>1, <1>2, <1>3 DEF DocumentOK

LEMMA InitMailInv == Init => MailInv
<1> SUFFICES ASSUME Init PROVE MailInv  OBVIOUS
<1> USE PlacesAreThere
<1>1. TypeOK
  <2>1. 0 \in 0..(Len(Folders) + 1) /\ 0 \in 0..MaxAborts /\ 0 \in 0..MaxForgets /\ 0 \in 0..MaxTouches
    BY MailAssumption
  <2>2. feed \in [Places -> Seq(Changes)]  BY DEF Init
  <2> QED  BY <2>1, <2>2, EmptyType DEF Init, TypeOK
<1>2. \A f \in Places : Numbers(f) = {}  BY DEF Init, Numbers
<1>3. FeedOK
  BY <1>2 DEF Init, FeedOK, OfOnePlace, ThereOrGone, HasALastChange
<1>4. StoredOK  BY <1>1, <1>3, EmptyDocument DEF Init, StoredOK
<1> QED  BY <1>1, <1>3, <1>4 DEF Init, MailInv

LEMMA MailboxKeeps == ASSUME MailInv, TypeOK', Mailbox PROVE MailInv'
<1>0. TypeOK /\ FeedOK /\ StoredOK /\ stored \in States /\ state \in States
  BY DEF MailInv, TypeOK
<1>1. UNCHANGED <<stored, vault, run, history>>
  BY DEF Mailbox, Arrive, Touch, Delete, Move
<1>2. UNCHANGED <<stored, vault, pc, state, at, batch, resume, skipped, adrift>>
  BY <1>1 DEF run, history
<1>3. Evolves /\ FeedOK'  BY <1>0, MailboxEvolves, FeedEvolves
<1>4. /\ \A doc \in States : DocumentOK(doc) => DocumentOK(doc)'
      /\ \A doc \in States, places \in SUBSET Places :
           MapsTheBorn(doc) /\ MapsTheBegun(doc, places) => MapsTheBegun(doc, places)'
  BY <1>0, <1>2, <1>3, DocumentEvolves
<1>5. StoredOK'
  <2>1. stored.begun \in SUBSET Places  BY <1>0 DEF States
  <2>2. DocumentOK(stored)'  BY <1>0, <1>2, <1>4 DEF StoredOK
  <2>3. MapsTheBegun(stored, stored.begun)'
    BY <1>0, <1>2, <1>4, <2>1 DEF StoredOK, DocumentOK
  <2> QED  BY <2>2, <2>3 DEF StoredOK
<1>6. CASE pc = "idle"  BY <1>0, <1>2, <1>3, <1>5, <1>6 DEF MailInv
<1>7. CASE pc # "idle"
  <2> DEFINE places == state.begun \cup IF pc = "items" THEN {Folder} ELSE {}
  <2>0. RunOK  BY <1>7 DEF MailInv
  <2>1. pc = "items" => at \in 1..Len(Folders) /\ Folder \in Places
    BY <1>0, PlacesAreThere DEF TypeOK, Folder
  <2>2. places \in SUBSET Places  BY <1>0, <2>1 DEF States
  <2>3. DocumentOK(state)'  BY <1>0, <1>2, <1>4, <2>0 DEF RunOK
  <2>4. MapsTheBegun(state, places)'
    <3>1. MapsTheBegun(state, places)  BY <2>0 DEF RunOK
    <3>2. places' = places  BY <1>2 DEF Folder
    <3> HIDE DEF places
    <3> QED  BY <1>0, <1>2, <1>4, <2>0, <2>2, <3>1, <3>2 DEF RunOK, DocumentOK
  <2>5. pc = "items" => RoundOK'
    BY <1>0, <1>2, <1>3, <2>0, <2>1, RoundEvolves DEF RunOK
  <2>6. RunOK'  BY <1>2, <2>0, <2>3, <2>4, <2>5 DEF RunOK, Folder
  <2> QED  BY <1>2, <1>3, <1>5, <1>7, <2>6 DEF MailInv
<1> QED  BY <1>6, <1>7

LEMMA StartKeeps == ASSUME MailInv, TypeOK', Start PROVE MailInv'
<1>0. /\ TypeOK /\ FeedOK /\ StoredOK /\ stored \in States
      /\ vault \subseteq stored.map \cup adrift
  BY DEF MailInv, TypeOK, Start
<1>1. PICK doc \in {stored, NoState} :
        /\ stored' = doc /\ state' = doc /\ pc' = "folder"
        /\ adrift' = adrift \cup (vault \ doc.map)
        /\ UNCHANGED <<feed, where, vault, skipped>>
  BY DEF Start, upstream, Adrift
<1>2. doc \in States /\ DocumentOK(doc) /\ MapsTheBegun(doc, doc.begun)
  BY <1>0, <1>1, EmptyDocument, EmptyType DEF StoredOK
<1>3. FeedOK' /\ DocumentOK(doc)' /\ MapsTheBegun(doc, doc.begun)'
  BY <1>0, <1>1, <1>2, NothingMoves
<1>4. StoredOK'  BY <1>1, <1>3 DEF StoredOK
<1>5. \A f \in Places : doc.link[f].pos <= doc.link[f].pos
  BY <1>0, <1>2, TypesOfParts
<1>6. MapsTheBegun(state, state.begun \cup IF pc = "items" THEN {Folder} ELSE {})'
  <2>1. state'.begun \cup (IF pc' = "items" THEN {Folder'} ELSE {}) = doc.begun  BY <1>1
  <2> QED  BY <1>1, <1>3, <2>1
<1>7. RunOK'  BY <1>0, <1>1, <1>3, <1>5, <1>6 DEF RunOK
<1> QED  BY <1>1, <1>3, <1>4, <1>7 DEF MailInv

LEMMA EndFolderKeeps == ASSUME MailInv, TypeOK', EndFolder PROVE MailInv'
<1>0. /\ TypeOK /\ FeedOK /\ StoredOK /\ stored \in States /\ state \in States
      /\ RunOK /\ RoundOK /\ batch = {} /\ pc = "items"
  BY DEF MailInv, TypeOK, EndFolder, RunOK
<1>1. Folder \in Places  BY <1>0, PlacesAreThere DEF TypeOK, Folder
<1>2. PICK doc : /\ doc = [state EXCEPT !.link[Folder] = resume, !.begun = @ \cup {Folder}]
                 /\ state' = doc /\ pc' \in {"folder", "commit"}
                 /\ UNCHANGED <<feed, where, vault, stored, skipped, adrift>>
  BY DEF EndFolder, upstream, history
<1>3. /\ doc.map = state.map /\ doc.begun = state.begun \cup {Folder}
      /\ doc.link[Folder] = resume /\ \A f \in Places \ {Folder} : doc.link[f] = state.link[f]
  BY <1>0, <1>1, <1>2 DEF States
<1>4. DocumentOK(state) /\ MapsTheBegun(state, state.begun \cup {Folder})
  BY <1>0 DEF RunOK
<1>5. Covers(doc)
  <2> SUFFICES ASSUME NEW i \in Ids, NEW f \in Places, where[i] = f, Passed(i, f, doc.link[f].pos)
               PROVE  Kept(i, state.map)
    BY <1>3 DEF Covers
  <2>1. CASE f = Folder  BY <1>0, <1>3, <2>1 DEF RoundOK
  <2>2. CASE f # Folder  BY <1>3, <1>4, <2>2 DEF DocumentOK, Covers
  <2> QED  BY <2>1, <2>2
<1>6. ForgetsTheGone(doc)
  <2> SUFFICES ASSUME NEW f \in Places, NEW n \in Numbers(f), feed[f][n].op = "removed",
                      n <= doc.link[f].pos \/ n <= doc.link[f].base
               PROVE  feed[f][n].id \notin state.map
    BY <1>3 DEF ForgetsTheGone
  <2>1. CASE f = Folder  BY <1>0, <1>3, <2>1 DEF RoundOK
  <2>2. CASE f # Folder  BY <1>3, <1>4, <2>2 DEF DocumentOK, ForgetsTheGone
  <2> QED  BY <2>1, <2>2
<1>7. LinksAreBehind(doc)
  <2> SUFFICES ASSUME NEW f \in Places
               PROVE  /\ doc.link[f].pos <= Len(feed[f]) /\ doc.link[f].base <= Len(feed[f])
                      /\ f \notin doc.begun => doc.link[f] = NoLink
    BY DEF LinksAreBehind
  <2>1. CASE f = Folder  BY <1>0, <1>3, <2>1 DEF RoundOK
  <2>2. CASE f # Folder  BY <1>3, <1>4, <2>2 DEF DocumentOK, LinksAreBehind
  <2> QED  BY <2>1, <2>2
<1>8. MapsTheBorn(doc) /\ MapsTheBegun(doc, doc.begun)
  BY <1>3, <1>4 DEF DocumentOK, MapsTheBorn, MapsTheBegun
<1>9. FeedOK' /\ DocumentOK(doc)' /\ MapsTheBegun(doc, doc.begun)'
  <2>1. DocumentOK(doc)  BY <1>5, <1>6, <1>7, <1>8 DEF DocumentOK
  <2> QED  BY <1>0, <1>2, <1>8, <2>1, NothingMoves
<1>10. StoredOK'
  <2>1. DocumentOK(stored)' /\ MapsTheBegun(stored, stored.begun)'
    BY <1>0, <1>2, NothingMoves DEF StoredOK
  <2> QED  BY <2>1 DEF StoredOK
<1>11. \A f \in Places : stored.link[f].pos <= doc.link[f].pos
  <2> SUFFICES ASSUME NEW f \in Places PROVE stored.link[f].pos <= doc.link[f].pos
    OBVIOUS
  <2>1. stored.link[f].pos <= state.link[f].pos  BY <1>0 DEF RunOK
  <2>2. CASE f = Folder
    <3>1. /\ stored.link[f].pos \in Nat /\ state.link[f].pos \in Nat /\ resume.pos \in Nat
          /\ state.link[f].pos <= resume.pos
      BY <1>0, <2>2, TypesOfParts DEF RoundOK
    <3> QED  BY <1>3, <2>1, <2>2, <3>1
  <2>3. CASE f # Folder  BY <1>3, <2>1, <2>3
  <2> QED  BY <2>2, <2>3
<1>12. MapsTheBegun(state, state.begun \cup IF pc = "items" THEN {Folder} ELSE {})'
  <2>1. state'.begun \cup (IF pc' = "items" THEN {Folder'} ELSE {}) = doc.begun  BY <1>2
  <2> QED  BY <1>2, <1>9, <2>1
<1>13. RunOK'
  <2>1. vault' \subseteq doc.map \cup adrift'  BY <1>0, <1>2, <1>3 DEF RunOK
  <2> QED  BY <1>2, <1>9, <1>11, <1>12, <2>1 DEF RunOK
<1> QED  BY <1>2, <1>9, <1>10, <1>13 DEF MailInv

LEMMA CommitKeeps == ASSUME MailInv, TypeOK', Commit PROVE MailInv'
<1>0. TypeOK /\ FeedOK /\ RunOK  BY DEF MailInv, Commit
<1>1. PICK doc : /\ doc = state /\ stored' = doc /\ adrift' = adrift \ doc.map
                 /\ state' = NoState /\ pc' = "idle"
                 /\ UNCHANGED <<feed, where, vault, skipped>>
  BY DEF Commit, Ended, upstream
<1>2. DocumentOK(doc) /\ MapsTheBegun(doc, doc.begun)
  <2>1. state.begun \cup (IF pc = "items" THEN {Folder} ELSE {}) = state.begun  BY DEF Commit
  <2> QED  BY <1>0, <1>1, <2>1 DEF RunOK
<1>3. FeedOK' /\ DocumentOK(doc)' /\ MapsTheBegun(doc, doc.begun)'
  BY <1>0, <1>1, <1>2, NothingMoves
<1>4. StoredOK'  BY <1>1, <1>3 DEF StoredOK
<1>5. vault' \subseteq stored'.map \cup adrift'  BY <1>0, <1>1 DEF RunOK
<1> QED  BY <1>1, <1>3, <1>4, <1>5 DEF MailInv

LEMMA AbortKeeps == ASSUME MailInv, TypeOK', Abort PROVE MailInv'
<1>0. TypeOK /\ FeedOK /\ StoredOK  BY DEF MailInv
<1>1. /\ adrift' = adrift \cup (vault' \ stored.map) /\ state' = NoState /\ pc' = "idle"
      /\ UNCHANGED <<feed, where, stored, vault, skipped>>
  BY DEF Abort, Ended, upstream, Adrift
<1>2. FeedOK' /\ DocumentOK(stored)' /\ MapsTheBegun(stored, stored.begun)'
  BY <1>0, <1>1, NothingMoves DEF StoredOK
<1> QED  BY <1>1, <1>2 DEF MailInv, StoredOK

\* A round: what it will pass has its last change in the batch, or was behind the
\* link already; and a removal it leaves out is older than its chain, of which no
\* id is in the map.
LEMMA FetchKeeps == ASSUME MailInv, TypeOK', Fetch PROVE MailInv'
<1>0. /\ TypeOK /\ FeedOK /\ StoredOK /\ RunOK /\ pc = "folder"
      /\ stored \in States /\ state \in States
  BY DEF MailInv, TypeOK, Fetch
<1>1. Folder \in Places  BY <1>0, PlacesAreThere DEF TypeOK, Folder
<1>2. /\ resume' = [pos |-> EndOfRound(Begins), base |-> Begins.base]
      /\ batch' = {n \in (Begins.pos + 1)..EndOfRound(Begins) : Reports(n, Begins.base)}
      /\ pc' = "items" /\ Folder' = Folder
      /\ UNCHANGED <<feed, where, stored, vault, state, skipped, adrift>>
  BY DEF Fetch, EndOfRound, Folder, upstream, history
<1>3. /\ Len(feed[Folder]) \in Nat /\ PageCap \in Nat
      /\ Begins.pos \in Nat /\ Begins.base \in Nat /\ state.link[Folder].pos \in Nat
  BY <1>0, <1>1, TypesOfParts, BeginsIsALink, MailAssumption
<1>4. /\ state.link[Folder].pos = Begins.pos /\ state.link[Folder].base <= Begins.base
      /\ Begins.pos <= Len(feed[Folder]) /\ Begins.base <= Len(feed[Folder])
  <2>1. LinksAreBehind(state)  BY <1>0 DEF RunOK, DocumentOK
  <2>2. CASE Folder \in state.begun
    BY <1>0, <1>1, <1>3, <2>1, <2>2, BeginsIsALink DEF LinksAreBehind
  <2>3. CASE Folder \notin state.begun
    BY <1>0, <1>1, <1>3, <2>1, <2>3, BeginsIsALink DEF LinksAreBehind, NoLink
  <2> QED  BY <2>2, <2>3
<1>5. /\ EndOfRound(Begins) \in Nat /\ EndOfRound(Begins) <= Len(feed[Folder])
      /\ Begins.pos <= EndOfRound(Begins)
  BY <1>3, <1>4 DEF EndOfRound, LeastOf
<1> DEFINE end == EndOfRound(Begins)
<1> HIDE DEF end
<1>6. end \in Nat /\ end <= Len(feed[Folder]) /\ Begins.pos <= end
      /\ resume'.pos = end /\ resume'.base = Begins.base
      /\ batch' = {n \in (Begins.pos + 1)..end : Reports(n, Begins.base)}
  BY <1>2, <1>5 DEF end
<1>7. \A n \in batch' : /\ n \in Numbers(Folder) /\ Begins.pos < n /\ n <= end
                        /\ Reports(n, Begins.base)
  BY <1>3, <1>6 DEF Numbers
<1>8. \A n \in Numbers(Folder) : Reports(n, Begins.base) /\ n > Begins.pos /\ n <= end => n \in batch'
  BY <1>3, <1>6 DEF Numbers
<1>9. \A n \in batch', m \in Numbers(Folder) :
        feed[Folder][n].op = "put" /\ feed[Folder][m] = Removed(feed[Folder][n].id) => FALSE
  <2> SUFFICES ASSUME NEW n \in batch', NEW m \in Numbers(Folder), feed[Folder][n].op = "put",
                      feed[Folder][m] = Removed(feed[Folder][n].id)
               PROVE  FALSE
    OBVIOUS
  <2>1. where[feed[Folder][n].id] = Folder  BY <1>7 DEF Reports
  <2>2. where[feed[Folder][n].id] = "gone"
    BY <1>0, <1>1 DEF FeedOK, ThereOrGone, Removed
  <2> QED  BY <1>1, <2>1, <2>2, PlacesAreThere
<1>10. ASSUME NEW i \in Ids, where[i] = Folder, Passed(i, Folder, end)
       PROVE  Kept(i, state.map) \/ \E n \in batch' : feed[Folder][n] = Put(i)
  <2>1. PICK n \in Numbers(Folder) : /\ feed[Folder][n] = Put(i)
                                     /\ \A m \in Numbers(Folder) : m > n => feed[Folder][m].id # i
    BY <1>0, <1>1, <1>10 DEF FeedOK, HasALastChange
  <2>2. n \in Nat /\ n <= end  BY <1>3, <1>10, <2>1 DEF Passed, Put, Numbers
  <2>3. CASE n > Begins.pos
    <3>1. \A m \in (n + 1)..Len(feed[Folder]) : m \in Numbers(Folder) /\ m > n
      BY <1>3, <2>2 DEF Numbers
    <3>2. Reports(n, Begins.base)  BY <1>10, <2>1, <3>1 DEF Reports, Put
    <3> QED  BY <1>8, <2>1, <2>2, <2>3, <3>2
  <2>4. CASE n <= Begins.pos
    <3>1. Passed(i, Folder, state.link[Folder].pos)
      <4> SUFFICES ASSUME NEW m \in Numbers(Folder), feed[Folder][m].id = i
                   PROVE  m <= Begins.pos
        BY <1>4 DEF Passed
      <4>1. ~(m > n) /\ m \in Nat  BY <1>3, <2>1 DEF Numbers
      <4> QED  BY <1>3, <2>2, <2>4, <4>1
    <3> QED  BY <1>0, <1>1, <1>10, <3>1 DEF RunOK, DocumentOK, Covers
  <2> QED  BY <1>3, <2>2, <2>3, <2>4
<1>11. \A n \in Numbers(Folder) :
         /\ feed[Folder][n].op = "removed"
         /\ n <= end \/ n <= Begins.base
         => feed[Folder][n].id \notin state.map \/ n \in batch'
  <2> SUFFICES ASSUME NEW n \in Numbers(Folder), feed[Folder][n].op = "removed",
                      n <= end \/ n <= Begins.base, n \notin batch'
               PROVE  feed[Folder][n].id \notin state.map
    OBVIOUS
  <2>0. n \in Nat  BY <1>3 DEF Numbers
  <2>1. n <= Begins.pos \/ n <= Begins.base
    <3> SUFFICES ASSUME n > Begins.pos, n > Begins.base PROVE FALSE
      BY <1>3, <2>0
    <3>1. Reports(n, Begins.base)  BY DEF Reports
    <3>2. n <= end  BY <1>3, <2>0
    <3> QED  BY <1>8, <3>1, <3>2
  <2>2. CASE Folder \in state.begun
    <3>1. Begins = state.link[Folder]  BY <1>0, <1>1, <2>2, BeginsIsALink
    <3> QED  BY <1>0, <1>1, <2>1, <3>1 DEF RunOK, DocumentOK, ForgetsTheGone
  <2>3. CASE Folder \notin state.begun
    <3>1. MapsTheBegun(state, state.begun)
      <4>1. state.begun \cup (IF pc = "items" THEN {Folder} ELSE {}) = state.begun  BY <1>0
      <4> QED  BY <1>0, <4>1 DEF RunOK
    <3> QED  BY <1>1, <2>3, <3>1 DEF MapsTheBegun
  <2> QED  BY <2>2, <2>3
<1>12. RoundOK'
  <2>1. /\ state'.link[Folder'].pos <= resume'.pos /\ state'.link[Folder'].base <= resume'.base
        /\ resume'.pos <= Len(feed'[Folder']) /\ resume'.base <= Len(feed'[Folder'])
    BY <1>2, <1>4, <1>6
  <2>2. Numbers(Folder)' = Numbers(Folder)  BY <1>2 DEF Numbers
  <2>3. \A n \in batch' : n \in Numbers(Folder)' /\ state'.link[Folder'].pos < n /\ n <= resume'.pos
    BY <1>2, <1>4, <1>6, <1>7, <2>2
  <2>4. \A i \in Ids : where'[i] = Folder' /\ Passed(i, Folder, resume.pos)' =>
           Kept(i, state.map)' \/ \E n \in batch' : feed'[Folder'][n] = Put(i)
    <3> SUFFICES ASSUME NEW i \in Ids, where'[i] = Folder', Passed(i, Folder, resume.pos)'
                 PROVE  Kept(i, state.map)' \/ \E n \in batch' : feed'[Folder'][n] = Put(i)
      OBVIOUS
    <3>1. Passed(i, Folder, end)  BY <1>2, <1>6, <2>2 DEF Passed
    <3> QED  BY <1>2, <1>10, <3>1 DEF Kept
  <2>5. \A n \in batch', m \in Numbers(Folder)' :
          feed'[Folder'][n].op = "put" /\ feed'[Folder'][m] = Removed(feed'[Folder'][n].id)
          => m > resume'.pos /\ m > resume'.base
    BY <1>2, <1>9, <2>2
  <2>6. \A n \in Numbers(Folder)' :
          /\ feed'[Folder'][n].op = "removed"
          /\ n <= resume'.pos \/ n <= resume'.base
          => feed'[Folder'][n].id \notin state'.map \/ n \in batch'
    BY <1>2, <1>6, <1>11, <2>2
  <2> QED  BY <2>1, <2>3, <2>4, <2>5, <2>6 DEF RoundOK
<1>13. /\ FeedOK' /\ DocumentOK(state)' /\ DocumentOK(stored)'
       /\ MapsTheBegun(stored, stored.begun)'
  BY <1>0, <1>2, NothingMoves DEF StoredOK, RunOK
<1>14. MapsTheBegun(state, state.begun \cup IF pc = "items" THEN {Folder} ELSE {})'
  <2>1. MapsTheBegun(state, state.begun)
    <3>1. state.begun \cup (IF pc = "items" THEN {Folder} ELSE {}) = state.begun  BY <1>0
    <3> QED  BY <1>0, <3>1 DEF RunOK
  <2>2. Numbers(Folder)' = Numbers(Folder) /\ \A f \in Places : Numbers(f)' = Numbers(f)
    BY <1>2 DEF Numbers
  <2> QED  BY <1>2, <2>1, <2>2 DEF MapsTheBegun
<1>15. RunOK'  BY <1>0, <1>2, <1>12, <1>13, <1>14 DEF RunOK
<1> QED  BY <1>2, <1>13, <1>15 DEF MailInv, StoredOK

\* What one change does to the vault, the map and the messages passed over: it takes
\* the file and the entry, passes the message over, or writes both.
Removes(i) ==
    /\ where[i] = "gone" /\ skipped' = skipped
    /\ state'.map = state.map \ {i} /\ vault' \subseteq vault /\ vault \ {i} \subseteq vault'
    /\ i \in vault' => i \notin state.map
PassesOver(i) == skipped' = skipped \cup {i} /\ vault' = vault /\ state'.map = state.map
Writes(i) == skipped' = skipped \ {i} /\ vault' = vault \cup {i} /\ state'.map = state.map \cup {i}

LEMMA ItemHandles ==
    ASSUME MailInv, Item
    PROVE  \E n \in batch :
             LET change == feed[Folder][n]
             IN  /\ batch' = batch \ {n} /\ adrift' = adrift \cap vault'
                 /\ state'.link = state.link /\ state'.begun = state.begun
                 /\ UNCHANGED <<feed, where, stored, pc, at, resume>>
                 /\ IF change.op = "removed" THEN Removes(change.id)
                    ELSE PassesOver(change.id) \/ Writes(change.id)
<1>1. PICK n \in batch : /\ batch' = batch \ {n}
                         /\ LET change == feed[Folder][n]
                            IN  IF change.op = "removed"
                                THEN Remove(change.id) /\ UNCHANGED <<seen, skipped>>
                                ELSE Write(change.id)
  BY DEF Item
<1>2. adrift' = adrift \cap vault' /\ UNCHANGED <<feed, where, stored, pc, at, resume>>
  BY DEF Item, upstream
<1>3. state \in States /\ Folder \in Places /\ n \in Numbers(Folder)
  BY PlacesAreThere DEF MailInv, RunOK, RoundOK, Item, TypeOK, Folder
<1> DEFINE i == feed[Folder][n].id
<1>4. CASE feed[Folder][n].op = "removed"
  <2>1. where[i] = "gone"  BY <1>3, <1>4 DEF MailInv, FeedOK, ThereOrGone
  <2>2. Remove(i) /\ skipped' = skipped  BY <1>1, <1>4
  <2>3. /\ state'.link = state.link /\ state'.begun = state.begun /\ Removes(i)
    BY <1>3, <2>1, <2>2 DEF Remove, Removes, States
  <2> QED  BY <1>1, <1>2, <1>4, <2>3
<1>5. CASE feed[Folder][n].op # "removed"
  <2>1. Write(i)  BY <1>1, <1>5
  <2>2. /\ state'.link = state.link /\ state'.begun = state.begun
           /\ (PassesOver(i) \/ Writes(i))
    BY <1>3, <2>1 DEF Write, WriteAndMap, PassesOver, Writes, States
  <2> QED  BY <1>1, <1>2, <1>5, <2>2
<1> QED  BY <1>4, <1>5

LEMMA ItemKeeps == ASSUME MailInv, TypeOK', Item PROVE MailInv'
<1> USE PlacesAreThere
<1>0. /\ TypeOK /\ FeedOK /\ StoredOK /\ RunOK /\ RoundOK /\ pc = "items"
      /\ stored \in States /\ state \in States /\ Folder \in Places
  BY DEF MailInv, TypeOK, Item, RunOK, Folder
<1>1. PICK n \in batch :
         LET change == feed[Folder][n]
         IN  /\ batch' = batch \ {n} /\ adrift' = adrift \cap vault'
             /\ state'.link = state.link /\ state'.begun = state.begun
             /\ UNCHANGED <<feed, where, stored, pc, at, resume>>
             /\ IF change.op = "removed" THEN Removes(change.id)
                ELSE PassesOver(change.id) \/ Writes(change.id)
  BY ItemHandles
<1>2. PICK i \in Ids : feed[Folder][n].id = i
  BY <1>0, <1>1, TypesOfParts DEF RoundOK
<1>3. /\ batch' = batch \ {n} /\ adrift' = adrift \cap vault'
      /\ state'.link = state.link /\ state'.begun = state.begun
      /\ UNCHANGED <<feed, where, stored, pc, at, resume>> /\ Folder' = Folder
      /\ \A f : Numbers(f)' = Numbers(f)
  BY <1>1 DEF Numbers, Folder
<1>4. \/ feed[Folder][n].op = "removed" /\ Removes(i)
      \/ feed[Folder][n].op = "put" /\ (PassesOver(i) \/ Writes(i))
  <2>1. feed[Folder][n] \in Changes  BY <1>0, <1>1, TypesOfParts DEF RoundOK
  <2> QED  BY <1>1, <1>2, <2>1 DEF Changes
<1>5. n \in Numbers(Folder) /\ where[i] \in {Folder, "gone"}
  BY <1>0, <1>1, <1>2 DEF RoundOK, FeedOK, ThereOrGone
<1>6. /\ n \in Nat /\ state.link[Folder].pos < n /\ stored.link[Folder].pos < n
      /\ state.link[Folder].pos \in Nat /\ state.link[Folder].base \in Nat
      /\ resume.pos \in Nat /\ resume.base \in Nat
  <2>1. /\ n \in Nat /\ state.link[Folder].pos \in Nat /\ stored.link[Folder].pos \in Nat
        /\ state.link[Folder].base \in Nat /\ resume.pos \in Nat /\ resume.base \in Nat
    BY <1>0, <1>5, TypesOfParts
  <2>2. state.link[Folder].pos < n /\ stored.link[Folder].pos <= state.link[Folder].pos
    BY <1>0, <1>1 DEF RoundOK, RunOK
  <2> QED  BY <2>1, <2>2
\* The change in hand is behind no link, so no obligation of a document is about it.
<1>7. \A j \in Ids, f \in Places :
        \/ where[j] = f /\ Passed(j, f, stored.link[f].pos)
        \/ where[j] = f /\ Passed(j, f, state.link[f].pos)
        => j # i
  <2> SUFFICES ASSUME NEW f \in Places, where[i] = f,
                      Passed(i, f, stored.link[f].pos) \/ Passed(i, f, state.link[f].pos)
               PROVE  FALSE
    OBVIOUS
  <2>1. f = Folder  BY <1>5
  <2>2. n <= stored.link[Folder].pos \/ n <= state.link[Folder].pos
    BY <1>2, <1>5, <2>1 DEF Passed
  <2> QED  BY <1>0, <1>6, <2>2, TypesOfParts
<1>8. \A j \in Ids : j # i =>
        /\ (j \in skipped => j \in skipped') /\ (j \in vault => j \in vault')
        /\ j \in state'.map <=> j \in state.map
  BY <1>4 DEF Removes, PassesOver, Writes
\* A removal of the message that is written has not been passed.
<1>9. \A f \in Places : \A m \in Numbers(f) :
        feed[f][m].op = "removed" /\ feed[f][m].id = i /\ feed[Folder][n].op = "put"
        => f = Folder /\ m > resume.pos /\ m > resume.base
  <2> SUFFICES ASSUME NEW f \in Places, NEW m \in Numbers(f), feed[f][m].op = "removed",
                      feed[f][m].id = i, feed[Folder][n].op = "put"
               PROVE  f = Folder /\ m > resume.pos /\ m > resume.base
    OBVIOUS
  <2>1. f = Folder  BY <1>0, <1>2, <1>5 DEF FeedOK, OfOnePlace
  <2>2. feed[f][m] \in Changes  BY <1>0, TypesOfParts
  <2>3. feed[Folder][m] = Removed(i)  BY <2>1, <2>2 DEF Changes, Removed
  <2> QED  BY <1>0, <1>1, <1>2, <2>1, <2>3 DEF RoundOK
<1>10. FeedOK'  BY <1>0, <1>3, FeedStays
<1>11. StoredOK'
  <2>1. Covers(stored)'
    <3> SUFFICES ASSUME NEW j \in Ids, NEW f \in Places, where[j] = f,
                        Passed(j, f, stored.link[f].pos)
                 PROVE  Kept(j, stored.map)'
      BY <1>3 DEF Covers, Passed
    <3>1. j # i  BY <1>7
    <3>2. Kept(j, stored.map)  BY <1>0 DEF StoredOK, DocumentOK, Covers
    <3> QED  BY <1>3, <1>8, <3>1, <3>2 DEF Kept
  <2>2. ForgetsTheGone(stored)' /\ LinksAreBehind(stored)' /\ MapsTheBorn(stored)'
        /\ MapsTheBegun(stored, stored.begun)'
    BY <1>0, <1>3 DEF StoredOK, DocumentOK, ForgetsTheGone, LinksAreBehind, MapsTheBorn,
                      MapsTheBegun
  <2> QED  BY <2>1, <2>2 DEF StoredOK, DocumentOK
<1>12. DocumentOK(state)'
  <2>1. Covers(state)'
    <3> SUFFICES ASSUME NEW j \in Ids, NEW f \in Places, where[j] = f,
                        Passed(j, f, state.link[f].pos)
                 PROVE  Kept(j, state.map)'
      BY <1>3 DEF Covers, Passed
    <3>1. j # i  BY <1>7
    <3>2. Kept(j, state.map)  BY <1>0 DEF RunOK, DocumentOK, Covers
    <3> QED  BY <1>8, <3>1, <3>2 DEF Kept
  <2>2. ForgetsTheGone(state)'
    <3> SUFFICES ASSUME NEW f \in Places, NEW m \in Numbers(f), feed[f][m].op = "removed",
                        m <= state.link[f].pos \/ m <= state.link[f].base
                 PROVE  feed[f][m].id \notin state'.map
      BY <1>3 DEF ForgetsTheGone
    <3>1. feed[f][m].id \notin state.map /\ feed[f][m].id \in Ids /\ m \in Nat
      BY <1>0, TypesOfParts DEF RunOK, DocumentOK, ForgetsTheGone
    <3>2. CASE feed[f][m].id # i  BY <1>8, <3>1, <3>2
    <3>3. CASE feed[f][m].id = i /\ feed[Folder][n].op = "put"
      <4>1. f = Folder /\ m > resume.pos /\ m > resume.base  BY <1>9, <3>3
      <4>2. state.link[Folder].pos <= resume.pos /\ state.link[Folder].base <= resume.base
        BY <1>0 DEF RoundOK
      <4> QED  BY <1>6, <3>1, <4>1, <4>2
    <3>4. CASE feed[f][m].id = i /\ Removes(i)  BY <3>4 DEF Removes
    <3> QED  BY <1>4, <3>2, <3>3, <3>4
  <2>3. LinksAreBehind(state)'
    BY <1>0, <1>3 DEF RunOK, DocumentOK, LinksAreBehind
  <2>4. MapsTheBorn(state)'
    <3>1. where[i] # "unborn"  BY <1>0, <1>5
    <3>2. state'.map \subseteq state.map \cup {i}
      BY <1>4 DEF Removes, PassesOver, Writes
    <3> QED  BY <1>0, <1>3, <3>1, <3>2 DEF RunOK, DocumentOK, MapsTheBorn
  <2> QED  BY <2>1, <2>2, <2>3, <2>4 DEF DocumentOK
<1>13. vault' \subseteq state'.map \cup adrift'
  <2>1. vault \subseteq state.map \cup adrift  BY <1>0 DEF RunOK
  <2> QED  BY <1>3, <1>4, <2>1 DEF Removes, PassesOver, Writes
<1>14. MapsTheBegun(state, state.begun \cup IF pc = "items" THEN {Folder} ELSE {})'
  <2> SUFFICES ASSUME NEW f \in Places, NEW m \in Numbers(f), feed[f][m].id \in state'.map
               PROVE  f \in state.begun \cup {Folder}
    BY <1>0, <1>3 DEF MapsTheBegun
  <2>1. CASE feed[f][m].id = i  BY <1>0, <1>2, <1>5, <2>1 DEF FeedOK, OfOnePlace
  <2>2. CASE feed[f][m].id # i
    <3>1. feed[f][m].id \in state.map  BY <1>0, <1>8, <2>2, TypesOfParts
    <3> QED  BY <1>0, <3>1 DEF RunOK, MapsTheBegun
  <2> QED  BY <2>1, <2>2
<1>15. RoundOK'
  <2>1. \A j \in Ids : where[j] = Folder /\ Passed(j, Folder, resume.pos) =>
           Kept(j, state.map)' \/ \E m \in batch' : feed[Folder][m] = Put(j)
    <3> SUFFICES ASSUME NEW j \in Ids, where[j] = Folder, Passed(j, Folder, resume.pos)
                 PROVE  Kept(j, state.map)' \/ \E m \in batch' : feed[Folder][m] = Put(j)
      OBVIOUS
    <3>1. CASE j # i
      <4>1. Kept(j, state.map) \/ \E m \in batch : feed[Folder][m] = Put(j)
        BY <1>0 DEF RoundOK
      <4>2. ASSUME NEW m \in batch, feed[Folder][m] = Put(j) PROVE m \in batch'
        BY <1>2, <1>3, <3>1, <4>2 DEF Put
      <4>3. Kept(j, state.map) => Kept(j, state.map)'  BY <1>8, <3>1 DEF Kept
      <4> QED  BY <4>1, <4>2, <4>3
    <3>2. CASE j = i  BY <1>0, <1>4, <3>2 DEF Removes, PassesOver, Writes, Kept
    <3> QED  BY <3>1, <3>2
  <2>2. \A m \in Numbers(Folder) :
          /\ feed[Folder][m].op = "removed"
          /\ m <= resume.pos \/ m <= resume.base
          => feed[Folder][m].id \notin state'.map \/ m \in batch'
    <3> SUFFICES ASSUME NEW m \in Numbers(Folder), feed[Folder][m].op = "removed",
                        m <= resume.pos \/ m <= resume.base, m \notin batch'
                 PROVE  feed[Folder][m].id \notin state'.map
      OBVIOUS
    <3>0. m \in Nat /\ feed[Folder][m].id \in Ids  BY <1>0, TypesOfParts
    <3>1. CASE feed[Folder][m].id = i
      <4>1. feed[Folder][n].op # "put"  BY <1>0, <1>6, <1>9, <3>0, <3>1
      <4> QED  BY <1>4, <3>1, <4>1 DEF Removes
    <3>2. CASE feed[Folder][m].id # i
      <4>1. m # n  BY <1>2, <3>2
      <4>2. feed[Folder][m].id \notin state.map  BY <1>0, <1>3, <4>1 DEF RoundOK
      <4> QED  BY <1>8, <3>0, <3>2, <4>2
    <3> QED  BY <3>1, <3>2
  <2>3. \A j \in Ids : where'[j] = Folder' /\ Passed(j, Folder, resume.pos)' =>
           Kept(j, state.map)' \/ \E m \in batch' : feed'[Folder'][m] = Put(j)
    <3> SUFFICES ASSUME NEW j \in Ids, where'[j] = Folder', Passed(j, Folder, resume.pos)'
                 PROVE  Kept(j, state.map)' \/ \E m \in batch' : feed'[Folder'][m] = Put(j)
      OBVIOUS
    <3>1. Passed(j, Folder, resume.pos)  BY <1>3 DEF Passed
    <3> QED  BY <1>3, <2>1, <3>1
  <2>4. /\ state'.link[Folder'].pos <= resume'.pos /\ state'.link[Folder'].base <= resume'.base
        /\ resume'.pos <= Len(feed'[Folder']) /\ resume'.base <= Len(feed'[Folder'])
        /\ \A m \in batch' : m \in Numbers(Folder)' /\ state'.link[Folder'].pos < m /\ m <= resume'.pos
    BY <1>0, <1>3 DEF RoundOK
  <2>5. \A m \in batch', l \in Numbers(Folder)' :
          feed'[Folder'][m].op = "put" /\ feed'[Folder'][l] = Removed(feed'[Folder'][m].id)
          => l > resume'.pos /\ l > resume'.base
    BY <1>0, <1>3 DEF RoundOK
  <2>6. \A m \in Numbers(Folder)' :
          /\ feed'[Folder'][m].op = "removed"
          /\ m <= resume'.pos \/ m <= resume'.base
          => feed'[Folder'][m].id \notin state'.map \/ m \in batch'
    BY <1>3, <2>2
  <2> QED  BY <2>3, <2>4, <2>5, <2>6 DEF RoundOK
<1>16. RunOK'
  <2>1. \A f \in Places : stored'.link[f].pos <= state'.link[f].pos  BY <1>0, <1>3 DEF RunOK
  <2> QED  BY <1>12, <1>13, <1>14, <1>15, <2>1 DEF RunOK
<1> QED  BY <1>0, <1>3, <1>10, <1>11, <1>16 DEF MailInv

LEMMA NextMailInv == MailInv /\ [Next]_vars => MailInv'
<1> SUFFICES ASSUME MailInv, [Next]_vars PROVE MailInv'  OBVIOUS
<1>1. TypeOK'  BY NextType
<1>2. CASE UNCHANGED vars
  <2>1. UNCHANGED <<feed, where, stored, vault, pc, state, at, batch, resume, skipped, adrift>>
    BY <1>2 DEF vars, upstream, run, history
  <2>2. FeedOK' /\ (\A doc : DocumentOK(doc) => DocumentOK(doc)')
        /\ \A doc, places : MapsTheBegun(doc, places) => MapsTheBegun(doc, places)'
    BY <2>1, NothingMoves DEF MailInv
  <2>3. StoredOK'  BY <2>1, <2>2 DEF MailInv, StoredOK
  <2>4. RunOK => RunOK'
    <3>1. Folder' = Folder /\ \A f : Numbers(f)' = Numbers(f)  BY <2>1 DEF Folder, Numbers
    <3>2. RoundOK => RoundOK'  BY <2>1, <3>1 DEF RoundOK, Passed, Kept
    <3> QED  BY <2>1, <2>2, <3>1, <3>2 DEF RunOK
  <2> QED  BY <1>1, <2>1, <2>2, <2>3, <2>4 DEF MailInv
<1> QED
  BY <1>1, <1>2, MailboxKeeps, StartKeeps, FetchKeeps, ItemKeeps, EndFolderKeeps, CommitKeeps,
     AbortKeeps DEF Next, Extractor
-----------------------------------------------------------------------------
(* What the invariant is for *)

\* Every variable keeps its type.
THEOREM MailTypeCorrect == Spec => []TypeOK
<1>1. MailInv => TypeOK  BY DEF MailInv
<1> QED  BY <1>1, InitMailInv, NextMailInv, PTL DEF Spec

\* No message is lost behind a delta link, whatever the page cap cut and whatever
\* failed, died or was forgotten, and every file has its way back unless a run that
\* failed, or --resync, lost the entry (email.py, pagination.py, removal.py).
THEOREM NothingIsBehindTheLink == Spec => []NothingBehindTheLink
<1>1. MailInv => NothingBehindTheLink
  <2> SUFFICES ASSUME MailInv PROVE CoveredByLink /\ EveryFileHasAWayBack
    BY DEF NothingBehindTheLink
  <2>1. CoveredByLink
    BY DEF MailInv, StoredOK, DocumentOK, Covers, Passed, Kept, Numbers, CoveredByLink
  <2>2. EveryFileHasAWayBack  BY DEF MailInv, RunOK, EveryFileHasAWayBack
  <2> QED  BY <2>1, <2>2
<1> QED  BY <1>1, InitMailInv, NextMailInv, PTL DEF Spec

\* A removal behind the stored link has taken the file and the entry, unless the
\* entry had been lost (CONTRACTS.md: upstream deletion propagates).
THEOREM DeletionsAlwaysPropagate == Spec => []DeletionsPropagate
<1>1. MailInv => DeletionsPropagate
  <2> SUFFICES ASSUME MailInv, NEW f \in Places, NEW n \in 1..stored.link[f].pos,
                      feed[f][n].op = "removed"
               PROVE  feed[f][n].id \notin stored.map /\ feed[f][n].id \notin vault \ adrift
    BY DEF DeletionsPropagate
  <2>0. TypeOK /\ StoredOK /\ stored \in States  BY DEF MailInv, TypeOK
  <2>1. /\ Len(feed[f]) \in Nat /\ stored.link[f].pos \in Nat
        /\ stored.link[f].pos <= Len(feed[f])
    BY <2>0, TypesOfParts DEF StoredOK, DocumentOK, LinksAreBehind
  <2>2. n \in Numbers(f) /\ n <= stored.link[f].pos  BY <2>1 DEF Numbers
  <2>3. feed[f][n].id \notin stored.map
    BY <2>0, <2>2 DEF StoredOK, DocumentOK, ForgetsTheGone
  <2>4. CASE pc = "idle"  BY <2>3, <2>4 DEF MailInv
  <2>5. CASE pc # "idle"
    <3>1. RunOK /\ state \in States  BY <2>0, <2>5 DEF MailInv, TypeOK
    <3>2. n <= state.link[f].pos
      <4>1. stored.link[f].pos <= state.link[f].pos  BY <3>1 DEF RunOK
      <4>2. state.link[f].pos \in Nat /\ n \in Nat  BY <2>0, <2>1, <3>1, TypesOfParts
      <4> QED  BY <2>1, <2>2, <4>1, <4>2
    <3>3. feed[f][n].id \notin state.map
      BY <2>2, <3>1, <3>2 DEF RunOK, DocumentOK, ForgetsTheGone
    <3> QED  BY <2>3, <3>1, <3>3 DEF RunOK
  <2> QED  BY <2>4, <2>5
<1> QED  BY <1>1, InitMailInv, NextMailInv, PTL DEF Spec
=============================================================================
