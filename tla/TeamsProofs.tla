----------------------------- MODULE TeamsProofs -----------------------------
(***************************************************************************)
(* Theorems about TeamsMerge, for every set of conversations and messages,   *)
(* every page size and cap, and every bound.  The argument: while a listing  *)
(* is read, each chain of the conversation in hand is fetched, in the page,  *)
(* still to come, or changed since the listing began; the last can be told,  *)
(* for its stamp is above every watermark and every stamp that was read.     *)
(***************************************************************************)
EXTENDS MCTeamsMerge, FiniteSetTheorems, WellFoundedInduction, TLAPS

\* The chain m is in.
Mates(m) == Chain(Root(m))

\* A stamp that was made after what has been read of the listing.
Fresh(x) ==
    /\ stored.watermark[Cur] < x /\ state.watermark[Cur] < x
    /\ \A n \in Messages : fetched[n] < x /\ page[n] < x
    /\ pc # "merge" => before <= x

\* What was read, v, is of the conversation in hand and, chain by chain, whole but
\* for what changed after.
Whole(v) ==
    \A m \in Messages :
        /\ v[m] > 0 => ConversationOf[m] = Cur
        /\ (\E n \in Mates(m) : v[n] > 0) => v[m] = modified[m] \/ Fresh(modified[m])
Above(v) == \A m \in Messages : v[m] > 0 => \E n \in Mates(m) : before <= v[n]

\* What follows in the listing, and what a cap has cut off below it.
ToCome(m) ==
    /\ pc = "chains" => more
    /\ \A n \in Mates(m) : modified[n] < before
CutOffBelow(m) ==
    /\ truncated
    /\ since = 0 => \A k \in Messages : fetched[k] > 0 =>
                        \E l \in Mates(k) : \A n \in Mates(m) : modified[n] < fetched[l]
Covered ==
    \A m \in In(Cur) :
        \/ \A n \in Mates(m) : modified[n] <= since
        \/ \E n \in Mates(m) : fetched[n] > 0 \/ page[n] > 0 \/ Fresh(modified[n])
        \/ IF pc = "merge" THEN CutOffBelow(m) ELSE ToCome(m)

\* The page of chains in hand: below what has been fetched, and not fetched yet.
PageOK ==
    /\ ~IsChat /\ \E n \in Messages : page[n] > 0
    /\ \A m, n \in Messages : page[m] = page[n] /\ page[m] > 0 => m = n
    /\ \A m, n \in Messages : fetched[m] > 0 /\ page[n] > 0 =>
          /\ n \notin Mates(m)
          /\ \E l \in Mates(m) : \A k \in Mates(n) : page[k] < fetched[l]

FetchOK ==
    /\ since = 0 \/ since = state.watermark[Cur]
    /\ Whole(fetched) /\ Whole(page) /\ Covered
    /\ pc # "merge" => ~truncated /\ Above(fetched) /\ Above(page)
    /\ IF pc = "chains" THEN PageOK ELSE page = Nothing

\* A stamp is of one message, and no watermark is ahead of the conversations.
StampsOK ==
    /\ \A m, n \in Messages : modified[m] = modified[n] /\ modified[m] > 0 => m = n
    /\ \A c \in Places : stored.watermark[c] <= Now /\ state.watermark[c] <= Now

\* What a watermark promises of the stores.
Vouched(mark) ==
    \A m \in Posted :
        LET c == ConversationOf[m]
        IN  storeFile[c] = "ok" /\ (\A n \in Mates(m) : modified[n] <= mark[c])
            => InStore(m) \/ modified[m] < floor[c] \/ c \in gutted

WatermarkInv ==
    /\ TypeOK /\ StampsOK
    /\ Vouched(stored.watermark) /\ Vouched(state.watermark)
    /\ pc \in {"idle", "begin", "commit"} => fetched = Nothing /\ page = Nothing /\ ~truncated
    /\ pc \in {"fetch", "chains", "merge"} => FetchOK
-----------------------------------------------------------------------------
(* Largest and smallest stamps *)

LEMMA MinOfNats ==
    ASSUME NEW S \in SUBSET Nat, S # {}
    PROVE  Min(S) \in S /\ \A x \in S : Min(S) <= x
<1>1. PICK x \in S : \A y \in S : ~ (<<y, x>> \in OpToRel(<, Nat))
  BY NatLessThanWellFounded, WFMin
<1>2. \A y \in S : x <= y
  <2> SUFFICES ASSUME NEW y \in S, ~ (x <= y) PROVE FALSE  OBVIOUS
  <2>1. <<y, x>> \in OpToRel(<, Nat)  BY DEF OpToRel
  <2> QED  BY <1>1, <2>1
<1> QED  BY <1>2 DEF Min

LEMMA MaxOfNats ==
    ASSUME NEW S \in SUBSET Nat, S # {}, NEW k \in Nat, \A x \in S : x <= k
    PROVE  Max(S) \in S /\ \A x \in S : x <= Max(S)
<1> DEFINE T == {k - x : x \in S}
<1>0. \A x \in S : k - x \in Nat  OBVIOUS
<1>1. T \in SUBSET Nat /\ T # {}  BY <1>0
<1>2. Min(T) \in T /\ \A y \in T : Min(T) <= y  BY <1>1, MinOfNats
<1>3. PICK x \in S : Min(T) = k - x  BY <1>2
<1>4. \A y \in S : x >= y
  <2> SUFFICES ASSUME NEW y \in S PROVE x >= y  OBVIOUS
  <2>1. k - x <= k - y  BY <1>2, <1>3
  <2> QED  BY <2>1
<1> QED  BY <1>4 DEF Max

\* Stamps are naturals, and the bound is one.
LEMMA StampFacts == MaxStamp \in Nat /\ Stamps \subseteq Nat /\ 0 \in Stamps
BY TeamsAssumption DEF Stamps

LEMMA Positive ==
    ASSUME NEW v \in [Messages -> Stamps], NEW m \in Messages
    PROVE  v[m] \in Nat /\ v[m] <= MaxStamp /\ (v[m] > 0 <=> v[m] # 0)
<1>1. v[m] \in Nat /\ v[m] <= MaxStamp  BY StampFacts DEF Stamps
<1> QED  BY <1>1

\* The later of two stamps.
LEMMA Later ==
    ASSUME NEW x \in Stamps, NEW y \in Stamps
    PROVE  /\ Max({x, y}) \in Stamps /\ Max({x, y}) = IF x <= y THEN y ELSE x
<1>1. {x, y} \in SUBSET Nat /\ \A z \in {x, y} : z <= MaxStamp
  BY StampFacts DEF Stamps
<1>2. Max({x, y}) \in {x, y} /\ \A z \in {x, y} : z <= Max({x, y})
  BY <1>1, StampFacts, MaxOfNats
<1> QED  BY <1>1, <1>2

\* A chain, and the stamp of its last change.
LEMMA ChainFacts ==
    ASSUME extractor \in Extractors, NEW m \in Messages
    PROVE  /\ m \in Mates(m) /\ Mates(m) \subseteq Messages /\ Root(m) \in Messages
           /\ \A n \in Messages : n \in Mates(m) <=> Root(n) = Root(m)
           /\ \A n \in Mates(m) : Mates(n) = Mates(m) /\ m \in Mates(n)
           /\ \A n \in Mates(m) : ConversationOf[n] = ConversationOf[m]
           /\ ConversationOf[Root(m)] = ConversationOf[m] /\ Root(Root(m)) = Root(m)
           /\ ConversationOf[m] \in Places
<1>1. /\ RootOf \in [Messages -> Messages] /\ RootOf[RootOf[m]] = RootOf[m]
      /\ \A n \in Messages : ConversationOf[RootOf[n]] = ConversationOf[n]
      /\ ConversationOf \in [Messages -> Places]
  BY TeamsAssumption
<1> QED  BY <1>1 DEF Mates, Chain, Root

LEMMA TopOf ==
    ASSUME extractor \in Extractors, NEW v \in [Messages -> Stamps], NEW m \in Messages
    PROVE  LET top == ChainModified(Root(m), v)
           IN  /\ top \in Stamps /\ \A n \in Mates(m) : v[n] <= top
               /\ \E n \in Mates(m) : v[n] = top
<1> DEFINE S == {v[n] : n \in Mates(m)}
<1>1. m \in Mates(m) /\ Mates(m) \subseteq Messages  BY ChainFacts
<1>2. S \in SUBSET Nat /\ S # {} /\ \A x \in S : x <= MaxStamp
  BY <1>1, StampFacts DEF Stamps
<1>3. Max(S) \in S /\ \A x \in S : x <= Max(S)  BY <1>2, StampFacts, MaxOfNats
<1>4. ChainModified(Root(m), v) = Max(S)  BY DEF ChainModified, Mates
<1> QED  BY <1>1, <1>3, <1>4

\* The stamp of the last change of all.
LEMMA LatestOf ==
    ASSUME NEW v \in [Messages -> Stamps]
    PROVE  LET latest == Max({0} \cup {v[m] : m \in Messages})
           IN  /\ latest \in Stamps /\ \A m \in Messages : v[m] <= latest
               /\ latest = 0 \/ \E m \in Messages : v[m] = latest
<1> DEFINE S == {0} \cup {v[m] : m \in Messages}
<1>1. S \in SUBSET Nat /\ S # {} /\ \A x \in S : x <= MaxStamp
  BY StampFacts DEF Stamps
<1>2. Max(S) \in S /\ \A x \in S : x <= Max(S)  BY <1>1, StampFacts, MaxOfNats
<1> QED  BY <1>2, StampFacts

LEMMA NowFacts ==
    ASSUME modified \in [Messages -> Stamps]
    PROVE  Now \in Stamps /\ \A m \in Messages : modified[m] <= Now
BY LatestOf DEF Now

\* The chains of a listing are named by their roots.
LEMMA ChainsAreRoots ==
    ASSUME extractor \in Extractors, NEW v, NEW r \in Chains(v)
    PROVE  r \in Messages /\ Root(r) = r /\ Mates(r) = Chain(r)
<1>1. PICK m \in Messages : r = Root(m)  BY DEF Chains
<1> QED  BY <1>1, ChainFacts DEF Mates

\* A conversation in hand is one of them.
LEMMA CurIsThere == TypeOK /\ pc \notin {"idle", "commit"} => Cur \in Places
BY DEF TypeOK, Cur, Places

\* What a page of the listing shows is above what follows.
LEMMA PageFacts ==
    ASSUME TypeOK, ReadPage
    PROVE  /\ Listed \subseteq Chains(modified) /\ Shown \subseteq Listed
           /\ more' = (Shown # Listed) /\ (Shown = {} => Listed = {})
           /\ before' \in 0..(MaxStamp + 1) /\ before' <= before
           /\ \A r \in Shown : before' <= ChainModified(r, modified)
           /\ \A r \in Listed \ Shown : ChainModified(r, modified) < before'
           /\ before' = before \/ \E r \in Shown : before' = ChainModified(r, modified)
<1>0. /\ extractor \in Extractors /\ modified \in [Messages -> Stamps]
      /\ before \in Nat /\ before <= MaxStamp + 1 /\ MaxStamp \in Nat /\ PageSize \in Nat \ {0}
      /\ IsFiniteSet(Messages)
  BY TeamsAssumption, StampFacts DEF TypeOK
<1> DEFINE C(r) == ChainModified(r, modified)
           A(r) == {q \in Listed : C(q) > C(r)}
<1>1. /\ Listed \subseteq Chains(modified) /\ Shown \subseteq Listed
      /\ \A r \in Listed : r \in Shown <=> Cardinality(A(r)) < PageSize
      /\ more' = (Shown # Listed)
  BY DEF Listed, Shown, ReadPage
<1>2. \A r \in Listed : r \in Messages /\ C(r) \in Nat /\ C(r) <= MaxStamp /\ C(r) < before
  <2> SUFFICES ASSUME NEW r \in Listed
               PROVE  r \in Messages /\ C(r) \in Nat /\ C(r) <= MaxStamp /\ C(r) < before
    OBVIOUS
  <2>1. r \in Messages /\ Root(r) = r  BY <1>0, <1>1, ChainsAreRoots
  <2>2. C(r) \in Stamps  BY <1>0, <2>1, TopOf
  <2> QED  BY <2>1, <2>2, StampFacts DEF Listed, Stamps
<1>3. IsFiniteSet(Listed)  BY <1>0, <1>2, FS_Subset
<1>4. \A r \in Listed : IsFiniteSet(A(r)) /\ Cardinality(A(r)) \in Nat
  BY <1>3, FS_Subset, FS_CardinalityType
<1>5. \A r \in Listed \ Shown, p \in Shown : C(r) < C(p)
  <2> SUFFICES ASSUME NEW r \in Listed \ Shown, NEW p \in Shown, C(p) <= C(r) PROVE FALSE
    BY <1>1, <1>2
  <2>1. p \in Listed  BY <1>1
  <2>2. A(r) \subseteq A(p)  BY <1>2, <2>1
  <2>3. Cardinality(A(r)) <= Cardinality(A(p))  BY <1>4, <2>1, <2>2, FS_Subset
  <2>4. Cardinality(A(p)) < PageSize /\ ~ (Cardinality(A(r)) < PageSize)  BY <1>1, <2>1
  <2>5. Cardinality(A(p)) \in Nat /\ Cardinality(A(r)) \in Nat  BY <1>4, <2>1
  <2> HIDE DEF A
  <2> QED  BY <1>0, <2>3, <2>4, <2>5
<1>6. Shown = {} => Listed = {}
  <2> SUFFICES ASSUME Listed # {} PROVE Shown # {}  OBVIOUS
  <2> DEFINE S == {C(r) : r \in Listed}
  <2>1. S \in SUBSET Nat /\ S # {} /\ \A x \in S : x <= MaxStamp  BY <1>2
  <2>2. Max(S) \in S /\ \A x \in S : x <= Max(S)  BY <1>0, <2>1, MaxOfNats
  <2>3. PICK r \in Listed : Max(S) = C(r)  BY <2>2
  <2>4. A(r) = {}
    <3> SUFFICES ASSUME NEW q \in Listed, C(q) > C(r) PROVE FALSE  OBVIOUS
    <3>1. C(q) <= C(r)  BY <2>2, <2>3
    <3> QED  BY <1>2, <3>1
  <2>5. Cardinality(A(r)) < PageSize  BY <1>0, <2>4, FS_EmptySet
  <2> QED  BY <1>1, <2>5
<1> DEFINE B == {before} \cup {C(r) : r \in Shown}
<1>7. before' = Min(B)  BY DEF ReadPage
<1>8. B \in SUBSET Nat /\ B # {}  BY <1>0, <1>1, <1>2
<1>9. before' \in B /\ \A x \in B : before' <= x  BY <1>7, <1>8, MinOfNats
<1>10. before' \in Nat /\ before' <= before  BY <1>8, <1>9
<1>11. \A r \in Listed \ Shown : C(r) < before'  BY <1>2, <1>5, <1>9
<1>12. before' \in 0..(MaxStamp + 1)  BY <1>0, <1>10
<1> QED  BY <1>1, <1>6, <1>9, <1>10, <1>11, <1>12

\* What the run notes, and how it advances the watermark.
LEMMA AdvanceFacts ==
    ASSUME TypeOK, pc = "merge"
    PROVE  /\ Noted \in States /\ Noted.watermark = state.watermark /\ Noted.map = state.map
           /\ Advanced \in States /\ Advanced.map = state.map
           /\ \A c \in Places \ {Cur} : Advanced.watermark[c] = state.watermark[c]
           /\ ~Advances => Advanced.watermark[Cur] = state.watermark[Cur]
           /\ Advances => /\ since <= Advanced.watermark[Cur]
                          /\ \A m \in Messages : fetched[m] <= Advanced.watermark[Cur]
                          /\ \/ Advanced.watermark[Cur] = since
                             \/ \E m \in Messages : Advanced.watermark[Cur] = fetched[m]
<1>0. /\ Cur \in Places /\ state \in States /\ since \in Stamps
      /\ fetched \in [Messages -> Stamps]
  BY CurIsThere DEF TypeOK
<1>1. Noted \in States /\ Noted.watermark = state.watermark /\ Noted.map = state.map
  BY <1>0 DEF Noted, States
<1> DEFINE S == {since} \cup {fetched[m] : m \in Messages}
<1>2. S \in SUBSET Nat /\ S # {} /\ S \subseteq Stamps /\ \A x \in S : x <= MaxStamp
  BY <1>0, StampFacts DEF Stamps
<1>3. Max(S) \in S /\ \A x \in S : x <= Max(S)  BY <1>2, StampFacts, MaxOfNats
<1>4. CASE Advances
  <2> DEFINE top == Max(S)
  <2>1. Advanced = [Noted EXCEPT !.watermark[Cur] = top]  BY <1>4 DEF Advanced
  <2>2. top \in Stamps  BY <1>2, <1>3
  <2> HIDE DEF top
  <2>3. /\ Advanced \in States /\ Advanced.map = state.map /\ Advanced.watermark[Cur] = top
        /\ \A c \in Places \ {Cur} : Advanced.watermark[c] = state.watermark[c]
    BY <1>0, <1>1, <2>1, <2>2 DEF States
  <2> QED  BY <1>1, <1>3, <1>4, <2>3 DEF top
<1>5. CASE ~Advances
  BY <1>1, <1>5 DEF Advanced
<1> QED  BY <1>4, <1>5

\* The lowest chain of a backfill that a cap has ended.
LEMMA ReachedFacts ==
    ASSUME TypeOK, fetched # Nothing
    PROVE  /\ Reached \in Stamps /\ (~truncated => Reached = 0)
           /\ truncated => \E k \in Messages : /\ fetched[k] > 0
                                               /\ \A l \in Mates(k) : fetched[l] <= Reached
<1>0. fetched \in [Messages -> Stamps] /\ extractor \in Extractors  BY DEF TypeOK
<1>1. CASE ~truncated  BY <1>1, StampFacts DEF Reached
<1>2. CASE truncated
  <2> DEFINE S == {ChainModified(r, fetched) : r \in Chains(fetched)}
  <2>1. PICK m \in Messages : fetched[m] # 0  BY <1>0 DEF Nothing
  <2>2. fetched[m] <= ChainModified(Root(m), fetched) /\ ChainModified(Root(m), fetched) \in Stamps
    BY <1>0, TopOf, ChainFacts
  <2>3. Root(m) \in Chains(fetched)
    <3>1. ChainModified(Root(m), fetched) > 0
      <4> DEFINE top == ChainModified(Root(m), fetched)
      <4>1. fetched[m] \in Nat /\ top \in Nat  BY <1>0, <2>2, StampFacts
      <4>2. fetched[m] <= top  BY <2>2
      <4> HIDE DEF top
      <4>3. top > 0  BY <2>1, <4>1, <4>2
      <4> QED  BY <4>3 DEF top
    <3> QED  BY <3>1 DEF Chains
  <2>4. \A r \in Chains(fetched) : r \in Messages /\ Root(r) = r  BY <1>0, ChainsAreRoots
  <2>5. \A r \in Chains(fetched) : ChainModified(r, fetched) \in Stamps
    <3> SUFFICES ASSUME NEW r \in Chains(fetched) PROVE ChainModified(r, fetched) \in Stamps
      OBVIOUS
    <3>1. r \in Messages /\ Root(r) = r  BY <2>4
    <3>2. ChainModified(Root(r), fetched) \in Stamps  BY <1>0, <3>1, TopOf
    <3> QED  BY <3>1, <3>2
  <2>6. S \in SUBSET Nat /\ S # {} /\ S \subseteq Stamps  BY <2>3, <2>5, StampFacts
  <2>7. Min(S) \in S  BY <2>6, MinOfNats
  <2>8. PICK r \in Chains(fetched) : Min(S) = ChainModified(r, fetched)  BY <2>7
  <2>9. Reached = ChainModified(r, fetched)  BY <1>2, <2>8 DEF Reached
  <2>10. /\ \A n \in Mates(r) : fetched[n] <= ChainModified(r, fetched)
         /\ \E n \in Mates(r) : fetched[n] = ChainModified(r, fetched)
    <3>1. r \in Messages /\ Root(r) = r  BY <2>4
    <3>2. /\ \A n \in Mates(r) : fetched[n] <= ChainModified(Root(r), fetched)
          /\ \E n \in Mates(r) : fetched[n] = ChainModified(Root(r), fetched)
      BY <1>0, <3>1, TopOf
    <3> QED  BY <3>1, <3>2
  <2>11. PICK k \in Mates(r) : fetched[k] = ChainModified(r, fetched)  BY <2>10
  <2>12. k \in Messages /\ Mates(k) = Mates(r)  BY <1>0, <2>4, ChainFacts
  <2>13. fetched[k] > 0  BY <2>11 DEF Chains
  <2> QED  BY <1>2, <2>5, <2>9, <2>10, <2>12, <2>13
<1> QED  BY <1>1, <1>2
-----------------------------------------------------------------------------
(* Types *)

LEMMA ConstantTypes ==
    /\ Len(Conversations) \in Nat /\ NoState \in States /\ Nothing \in [Messages -> Stamps]
    /\ Conversations # <<>> => Len(Conversations) >= 1
<1>1. Conversations \in Seq(STRING)  BY TeamsAssumption
<1> QED  BY <1>1, StampFacts DEF NoState, States, Nothing

\* The end of a run, and the next conversation.
LEMMA EndedType ==
    ASSUME Ended
    PROVE  /\ pc' = "idle" /\ state' \in States /\ at' \in 0..(Len(Conversations) + 1)
           /\ since' \in Stamps /\ before' \in 0..(MaxStamp + 1) /\ pages' \in Nat
           /\ {page', fetched'} \subseteq [Messages -> Stamps] /\ {more', truncated'} \subseteq BOOLEAN
<1>1. 0 \in 0..(Len(Conversations) + 1) /\ 0 \in 0..(MaxStamp + 1)
  BY ConstantTypes, StampFacts
<1> QED  BY <1>1, ConstantTypes, StampFacts DEF Ended

LEMMA ToNextType ==
    ASSUME TypeOK, ToNext, pc \notin {"idle", "commit"}
    PROVE  /\ pc' \in {"begin", "commit"} /\ at' \in 0..(Len(Conversations) + 1)
           /\ pc' # "commit" => at' \in 1..Len(Conversations)
           /\ since' \in Stamps /\ before' \in 0..(MaxStamp + 1) /\ pages' \in Nat
           /\ {page', fetched'} \subseteq [Messages -> Stamps] /\ {more', truncated'} \subseteq BOOLEAN
<1>1. 0 \in 0..(MaxStamp + 1)  BY StampFacts
<1>2. at \in 1..Len(Conversations)  BY DEF TypeOK
<1>3. at + 1 \in 0..(Len(Conversations) + 1)  BY <1>2, ConstantTypes
<1>4. at # Len(Conversations) => at + 1 \in 1..Len(Conversations)  BY <1>2, ConstantTypes
<1> QED  BY <1>1, <1>3, <1>4, ConstantTypes, StampFacts DEF ToNext, IsLast

LEMMA InitType == Init => TypeOK
<1>1. Nothing \in [Messages -> Stamps] /\ NoState \in States /\ 0 \in Stamps /\ MaxStamp \in Nat
  BY ConstantTypes, StampFacts
<1>2. /\ 0 \in 0..(MaxStamp + 1) /\ 0 \in 0..(Len(Conversations) + 1)
      /\ 0 \in 0..MaxFaults /\ 0 \in 0..MaxAborts /\ 0 \in 0..MaxLosses
  BY <1>1, ConstantTypes, TeamsAssumption
<1> SUFFICES ASSUME Init PROVE TypeOK  OBVIOUS
<1> QED  BY <1>1, <1>2 DEF Init, TypeOK

LEMMA NextType == TypeOK /\ [Next]_vars => TypeOK'
<1> SUFFICES ASSUME TypeOK, [Next]_vars PROVE TypeOK'  OBVIOUS
<1> USE DEF TypeOK, files, fetch, run, history, bounds
<1>0. /\ MaxStamp \in Nat /\ 0 \in Stamps /\ Stamps \subseteq Nat
      /\ {MaxFaults, MaxAborts, MaxLosses} \subseteq Nat
      /\ Len(Conversations) \in Nat /\ NoState \in States /\ Nothing \in [Messages -> Stamps]
      /\ Conversations # <<>> => Len(Conversations) >= 1
  BY TeamsAssumption, ConstantTypes, StampFacts
<1>1. pc \notin {"idle", "commit"} => Cur \in Places  BY CurIsThere
<1>2. /\ \A v \in [Messages -> Stamps] : \A c : Without(v, c) \in [Messages -> Stamps]
      /\ \A v \in [Messages -> Stamps], w \in [Messages -> Stamps] :
           [m \in Messages |-> Max({v[m], w[m]})] \in [Messages -> Stamps]
  BY <1>0, Later DEF Without
<1>3. Ended => /\ pc' = "idle" /\ state' \in States /\ at' \in 0..(Len(Conversations) + 1)
                /\ since' \in Stamps /\ before' \in 0..(MaxStamp + 1) /\ pages' \in Nat
                /\ {page', fetched'} \subseteq [Messages -> Stamps]
                /\ {more', truncated'} \subseteq BOOLEAN
  BY EndedType
<1>4. ToNext /\ pc \notin {"idle", "commit"} =>
         /\ pc' \in {"begin", "commit"} /\ at' \in 0..(Len(Conversations) + 1)
         /\ pc' # "commit" => at' \in 1..Len(Conversations)
         /\ since' \in Stamps /\ before' \in 0..(MaxStamp + 1) /\ pages' \in Nat
         /\ {page', fetched'} \subseteq [Messages -> Stamps] /\ {more', truncated'} \subseteq BOOLEAN
  BY ToNextType
<1>5. Snapshot \in [Messages -> Stamps]  BY <1>0 DEF Snapshot
<1>6. ASSUME NEW m \in Messages, Change(m) PROVE TypeOK'
  <2>1. Now \in Stamps /\ Now < MaxStamp  BY <1>6, NowFacts DEF Change
  <2>2. Now + 1 \in Stamps
    <3> HIDE DEF TypeOK
    <3> QED  BY <1>0, <2>1 DEF Stamps
  <2> QED  BY <1>6, <2>2 DEF Change
<1>7. ASSUME NEW c \in Places, LoseStore(c) PROVE TypeOK'
  BY SMTT(40), <1>0, <1>2, <1>7 DEF LoseStore
<1>8. CASE Start
  BY <1>0, <1>8 DEF Start
<1>9. CASE Begin
  <2>1. Since \in Stamps  BY <1>0, <1>1, <1>9 DEF Begin, Since, States
  <2>2. MaxStamp + 1 \in 0..(MaxStamp + 1)  BY <1>0
  <2> QED  BY <1>9, <2>1, <2>2 DEF Begin
<1>10. CASE FetchPage
  <2>1. before' \in 0..(MaxStamp + 1) /\ more' \in BOOLEAN  BY <1>10, PageFacts DEF FetchPage
  <2>2. fetched' \in [Messages -> Stamps] /\ pages' \in Nat  BY <1>2, <1>5, <1>10 DEF FetchPage
  <2>3. pc' \in {"fetch", "merge"} /\ truncated' \in BOOLEAN  BY <1>10, <2>1 DEF FetchPage
  <2> QED  BY <1>10, <2>1, <2>2, <2>3 DEF FetchPage
<1>11. CASE FetchRoots
  <2>1. before' \in 0..(MaxStamp + 1) /\ more' \in BOOLEAN  BY <1>11, PageFacts DEF FetchRoots
  <2> QED  BY <1>5, <1>11, <2>1 DEF FetchRoots
<1>12. CASE FetchChain
  <2>1. PICK r \in Chains(page) :
          LET chain == [m \in Messages |->
                          CASE Root(m) # r -> 0
                            [] Root(m) = r /\ m \in Late -> modified[m]
                            [] OTHER -> page[m]]
              with == [m \in Messages |-> Max({fetched[m], chain[m]})]
              rest == [m \in Messages |-> IF Root(m) = r THEN 0 ELSE page[m]]
          IN  IF AtTheWatermark(ChainModified(r, chain))
              THEN pc' = "merge" /\ page' = Nothing /\ UNCHANGED <<fetched, truncated>>
              ELSE /\ fetched' = with /\ truncated' = Enough(with)
                   /\ page' = IF Enough(with) THEN Nothing ELSE rest
                   /\ pc' = CASE Enough(with) -> "merge"
                              [] ~Enough(with) /\ rest # Nothing -> "chains"
                              [] OTHER -> IF more THEN "fetch" ELSE "merge"
    BY <1>12 DEF FetchChain
  <2> DEFINE chain == [m \in Messages |->
                          CASE Root(m) # r -> 0
                            [] Root(m) = r /\ m \in Late -> modified[m]
                            [] OTHER -> page[m]]
             with == [m \in Messages |-> Max({fetched[m], chain[m]})]
             rest == [m \in Messages |-> IF Root(m) = r THEN 0 ELSE page[m]]
  <2>2. chain \in [Messages -> Stamps] /\ rest \in [Messages -> Stamps]  BY <1>0
  <2> HIDE DEF chain
  <2>3. with \in [Messages -> Stamps]  BY <1>2, <2>2
  <2>4. Enough(with) \in BOOLEAN  BY DEF Enough
  <2>5. \/ pc' = "merge" /\ page' = Nothing /\ UNCHANGED <<fetched, truncated>>
        \/ /\ fetched' = with /\ truncated' = Enough(with) /\ page' \in {Nothing, rest}
           /\ pc' \in {"merge", "chains", "fetch"}
    BY <2>1 DEF chain
  <2>6. /\ fetched' \in [Messages -> Stamps] /\ page' \in [Messages -> Stamps]
        /\ truncated' \in BOOLEAN /\ pc' \in {"merge", "chains", "fetch"}
    BY <1>0, <2>2, <2>3, <2>4, <2>5
  <2> QED  BY <1>12, <2>6 DEF FetchChain
<1>13. CASE Unreachable
  <2>1. ToNext /\ pc \notin {"idle", "commit"} /\ faults' \in 0..MaxFaults
    BY <1>0, <1>13 DEF Unreachable
  <2> QED  BY <1>4, <1>13, <2>1 DEF Unreachable
<1>14. CASE Skip
  <2>1. Noted \in States  BY <1>14, AdvanceFacts DEF Skip
  <2>2. ToNext /\ pc \notin {"idle", "commit"} /\ faults' \in 0..MaxFaults
    BY <1>0, <1>14 DEF Skip
  <2> QED  BY <1>4, <1>14, <2>1, <2>2 DEF Skip
<1>15. CASE Merge
  <2>1. Advanced \in States  BY <1>15, AdvanceFacts DEF Merge
  <2>2. Reached \in Stamps  BY <1>15, ReachedFacts DEF Merge
  <2>3. WithMerged \in [Messages -> Stamps]  BY DEF WithMerged
  <2>4. /\ pc' \in {"render", "begin", "commit"} /\ at' \in 0..(Len(Conversations) + 1)
        /\ pc' # "commit" => at' \in 1..Len(Conversations)
        /\ since' \in Stamps /\ before' \in 0..(MaxStamp + 1) /\ pages' \in Nat
        /\ {page', fetched'} \subseteq [Messages -> Stamps] /\ {more', truncated'} \subseteq BOOLEAN
    BY <1>4, <1>15 DEF Merge
  <2>5. /\ kept' \in [Messages -> Stamps] /\ storeFile' \in [Places -> {"missing", "corrupt", "ok"}]
        /\ floor' \in [Places -> Stamps] /\ gutted' \subseteq Places
    BY <1>1, <1>15, <2>2, <2>3 DEF Merge
  <2> QED  BY <1>15, <2>1, <2>4, <2>5 DEF Merge
<1>16. CASE Render
  <2>1. RendersTheStore \in [Messages -> Stamps]  BY DEF RendersTheStore
  <2>2. [state EXCEPT !.map = @ \cup {Cur}] \in States  BY <1>1, <1>16 DEF Render, States
  <2> QED  BY <1>4, <1>16, <2>1, <2>2 DEF Render
<1>17. CASE Commit
  BY <1>3, <1>17 DEF Commit
<1>18. CASE Abort
  BY SMTT(40), <1>0, <1>1, <1>3, <1>18 DEF Abort, CutOff, States
<1>19. CASE TornSave
  <2>1. Cur \in Places /\ aborts' \in 0..MaxAborts  BY <1>0, <1>1, <1>19 DEF TornSave, CutOff
  <2>2. /\ kept' \in [Messages -> Stamps] /\ storeFile' \in [Places -> {"missing", "corrupt", "ok"}]
        /\ gutted' \subseteq Places /\ behind' \subseteq Places
    BY <1>2, <1>19, <2>1 DEF TornSave, States
  <2> QED  BY <1>3, <1>19, <2>1, <2>2 DEF TornSave, CutOff
<1>20. CASE UNCHANGED vars
  BY <1>20 DEF vars
<1> QED
  BY <1>6, <1>7, <1>8, <1>9, <1>10, <1>11, <1>12, <1>13, <1>14, <1>15, <1>16, <1>17,
     <1>18, <1>19, <1>20 DEF Next, Extractor
-----------------------------------------------------------------------------
(* Stores, pages and maps *)

\* The files, the pages and the maps of conversations that nothing has set behind.
FilesOK ==
    /\ losses = 0 => \A c \in Places : storeFile[c] = "missing" =>
                         stored.watermark[c] = 0 /\ state.watermark[c] = 0
    /\ pc = "render" => storeFile[Cur] = "ok"
    /\ pc # "idle" => stored.map \subseteq state.map
    /\ \A c \in Places \ behind : \A m \in In(c) :
          /\ storeFile[c] = "missing" => kept[m] = 0 /\ rendered[m] = 0
          /\ storeFile[c] = "ok" => rendered[m] = kept[m] \/ (pc = "render" /\ Cur = c)
          /\ rendered[m] > 0 => c \in IF pc = "idle" THEN stored.map ELSE state.map

OfTheOneInHand == \A m \in Messages : fetched[m] > 0 => ConversationOf[m] = Cur

LEMMA FilesStep ==
    ASSUME TypeOK, FilesOK, pc = "merge" => OfTheOneInHand, [Next]_vars
    PROVE  FilesOK'
<1> USE DEF FilesOK, files, fetch, run, history, bounds
<1>0. /\ pc \notin {"idle", "commit"} => Cur \in Places
      /\ stored \in States /\ state \in States /\ storeFile \in [Places -> {"missing", "corrupt", "ok"}]
      /\ kept \in [Messages -> Stamps] /\ rendered \in [Messages -> Stamps]
      /\ fetched \in [Messages -> Stamps] /\ losses \in Nat
  BY SMTT(40), CurIsThere, TeamsAssumption DEF TypeOK
<1>1. ASSUME NEW m \in Messages, Change(m) PROVE FilesOK'
  BY <1>1 DEF Change, Cur, In
<1>2. ASSUME NEW c \in Places, LoseStore(c) PROVE FilesOK'
  <2>1. losses' # 0 /\ ~(pc = "render" /\ Cur = c) /\ Cur' = Cur  BY <1>0, <1>2 DEF LoseStore, Cur
  <2>2. \A d \in Places \ behind' : d # c /\ storeFile'[d] = storeFile[d]
    BY <1>0, <1>2 DEF LoseStore
  <2>3. \A d \in Places \ behind' : \A m \in In(d) : kept'[m] = kept[m] /\ rendered'[m] = rendered[m]
    BY <1>2, <2>2 DEF LoseStore, Without, In
  <2>4. pc' = "render" => storeFile'[Cur'] = "ok"  BY <1>0, <1>2, <2>1 DEF LoseStore
  <2> QED  BY <1>2, <2>1, <2>2, <2>3, <2>4 DEF LoseStore, In
<1>3. CASE Start
  BY <1>0, <1>3 DEF Start, In
<1>4. CASE Begin \/ FetchPage \/ FetchRoots \/ FetchChain
  <2>1. /\ UNCHANGED <<storeFile, kept, rendered, stored, state, losses, behind>>
        /\ pc \notin {"idle", "render"} /\ pc' \notin {"idle", "render"}
    BY <1>4 DEF Begin, FetchPage, FetchRoots, FetchChain
  <2> QED  BY <2>1 DEF In
<1>5. CASE Unreachable \/ Skip
  <2>1. /\ UNCHANGED <<storeFile, kept, rendered, stored, losses, behind>>
        /\ pc \notin {"idle", "render"} /\ pc' \notin {"idle", "render"}
        /\ state'.watermark = state.watermark /\ state'.map = state.map
    BY <1>5, AdvanceFacts DEF Unreachable, Skip, ToNext
  <2> QED  BY <2>1 DEF In
<1>6. CASE Merge
  <2>1. /\ state'.map = state.map /\ UNCHANGED <<stored, losses, behind, rendered>> /\ pc = "merge"
        /\ \A c \in Places \ {Cur} : state'.watermark[c] = state.watermark[c]
        /\ pc' \in {"render", "begin", "commit"} /\ Cur \in Places
    BY <1>0, <1>6, AdvanceFacts DEF Merge, ToNext
  <2>2. \A m \in Merged : m \in In(Cur)
    <3>0. \A m \in Merged : m \in Messages /\ fetched[m] # 0  BY DEF Merged
    <3>1. \A m \in Merged : m \in Messages /\ fetched[m] > 0  BY <1>0, <3>0, Positive
    <3> QED  BY <2>1, <3>1 DEF OfTheOneInHand, In
  <2>3. /\ storeFile'[Cur] = "ok"
        /\ \A c \in Places \ {Cur} : storeFile'[c] = storeFile[c]
    BY <1>0, <1>6, <2>1 DEF Merge, Saves
  <2>4. /\ \A m \in Messages \ In(Cur) : kept'[m] = kept[m]
        /\ Merged = {} => kept' = kept
    <3>1. kept' = kept \/ kept' = WithMerged  BY <1>6 DEF Merge
    <3>2. \A m \in Messages \ Merged : WithMerged[m] = kept[m]  BY DEF WithMerged
    <3>3. Merged = {} => WithMerged = kept  BY <1>0 DEF WithMerged
    <3> QED  BY <2>2, <3>1, <3>2, <3>3
  <2>5. IF Merged # {} THEN pc' = "render" /\ Cur' = Cur ELSE pc' # "render"
    BY <1>6 DEF Merge, ToNext, Cur
  <2>6. \A c \in Places \ behind : \A m \in In(c) :
          storeFile'[c] = "ok" => rendered'[m] = kept'[m] \/ (pc' = "render" /\ Cur' = c)
    <3> SUFFICES ASSUME NEW c \in Places \ behind, NEW m \in In(c), storeFile'[c] = "ok"
                 PROVE  rendered'[m] = kept'[m] \/ (pc' = "render" /\ Cur' = c)
      OBVIOUS
    <3>1. CASE c # Cur  BY <2>1, <2>3, <2>4, <3>1 DEF In
    <3>2. CASE c = Cur /\ Merged # {}  BY <2>5, <3>2
    <3>3. CASE c = Cur /\ Merged = {}
      <4>1. storeFile[c] \in {"missing", "ok"}  BY <1>0, <1>6, <3>3 DEF Merge
      <4> QED  BY <2>1, <2>4, <3>3, <4>1
    <3> QED  BY <3>1, <3>2, <3>3
  <2>7. \A c \in Places \ behind : \A m \in In(c) :
          storeFile'[c] = "missing" => kept'[m] = 0 /\ rendered'[m] = 0
    BY <2>1, <2>3, <2>4 DEF In
  <2>8. \A c \in Places \ behind : \A m \in In(c) : rendered'[m] > 0 => c \in state'.map
    BY <2>1
  <2>9. losses' = 0 => \A c \in Places : storeFile'[c] = "missing" =>
                          stored'.watermark[c] = 0 /\ state'.watermark[c] = 0
    BY <2>1, <2>3
  <2>10. pc' = "render" => storeFile'[Cur'] = "ok"  BY <2>3, <2>5
  <2> QED  BY <2>1, <2>6, <2>7, <2>8, <2>9, <2>10 DEF In
<1>7. CASE Render
  <2>1. /\ pc = "render" /\ pc' \in {"begin", "commit"} /\ Cur \in Places
        /\ UNCHANGED <<stored, storeFile, kept, losses>> /\ behind' = behind \ {Cur}
        /\ state'.watermark = state.watermark /\ state'.map = state.map \cup {Cur}
    BY <1>0, <1>7 DEF Render, ToNext, States
  <2>2. \A m \in Messages : rendered'[m] = IF m \in In(Cur) THEN kept[m] ELSE rendered[m]
    BY <1>7 DEF Render, RendersTheStore
  <2>3. storeFile[Cur] = "ok"  BY <2>1
  <2>4. \A c \in Places \ behind' : \A m \in In(c) :
          /\ storeFile[c] = "missing" => kept[m] = 0 /\ rendered'[m] = 0
          /\ storeFile[c] = "ok" => rendered'[m] = kept[m]
          /\ rendered'[m] > 0 => c \in state'.map
    <3> SUFFICES ASSUME NEW c \in Places \ behind', NEW m \in In(c)
                 PROVE  /\ storeFile[c] = "missing" => kept[m] = 0 /\ rendered'[m] = 0
                        /\ storeFile[c] = "ok" => rendered'[m] = kept[m]
                        /\ rendered'[m] > 0 => c \in state'.map
      OBVIOUS
    <3>1. CASE c = Cur  BY <2>1, <2>2, <2>3, <3>1 DEF In
    <3>2. CASE c # Cur  BY <2>1, <2>2, <3>2 DEF In
    <3> QED  BY <3>1, <3>2
  <2> QED  BY <2>1, <2>3, <2>4 DEF In
<1>8. CASE Commit
  <2>1. /\ pc = "commit" /\ pc' = "idle" /\ state' = NoState /\ stored' = state
        /\ UNCHANGED <<storeFile, kept, rendered, losses, behind>>
    BY <1>8 DEF Commit, Ended
  <2>2. \A c \in Places : state'.watermark[c] = 0  BY <2>1 DEF NoState
  <2> QED  BY <2>1, <2>2 DEF In
<1>9. CASE Abort
  <2>1. /\ pc # "idle" /\ pc' = "idle" /\ state' = NoState
        /\ UNCHANGED <<stored, storeFile, kept, rendered, losses>>
        /\ behind' = behind \cup (state.map \ stored.map) \cup (IF pc = "render" THEN {Cur} ELSE {})
    BY <1>9 DEF Abort, CutOff, Ended
  <2>2. \A c \in Places : state'.watermark[c] = 0  BY <2>1 DEF NoState
  <2> QED  BY <2>1, <2>2 DEF In
<1>10. CASE TornSave
  <2>1. /\ pc = "merge" /\ pc' = "idle" /\ state' = NoState /\ UNCHANGED <<stored, rendered, losses>>
        /\ behind' = behind \cup {Cur} \cup (state.map \ stored.map) /\ Cur \in Places
    BY <1>0, <1>10 DEF TornSave, CutOff, Ended
  <2>2. \A c \in Places : state'.watermark[c] = 0  BY <2>1 DEF NoState
  <2>3. /\ storeFile'[Cur] # "missing" /\ \A c \in Places \ {Cur} : storeFile'[c] = storeFile[c]
        /\ \A m \in Messages \ In(Cur) : kept'[m] = kept[m]
    BY <1>0, <1>10, <2>1 DEF TornSave, Without
  <2> QED  BY <2>1, <2>2, <2>3 DEF In
<1>11. CASE UNCHANGED vars
  BY <1>11 DEF vars, Cur, In
<1> QED
  BY <1>1, <1>2, <1>3, <1>4, <1>5, <1>6, <1>7, <1>8, <1>9, <1>10, <1>11 DEF Next, Extractor
-----------------------------------------------------------------------------
(* What a watermark promises *)

LEMMA RootsStay ==
    ASSUME UNCHANGED extractor
    PROVE  \A m : Root(m)' = Root(m) /\ Mates(m)' = Mates(m)
BY DEF Mates, Chain, Root, IsChat

LEMMA VouchedStays ==
    ASSUME UNCHANGED <<extractor, modified, storeFile, kept, floor, gutted>>,
           NEW mark, Vouched(mark)
    PROVE  Vouched(mark)'
BY RootsStay DEF Vouched, Posted, InStore

\* A change is above every watermark, and so its chain is behind none.
LEMMA ChangeKeepsVouched ==
    ASSUME TypeOK, NEW m \in Messages, Change(m),
           NEW mark \in [Places -> Stamps], \A c \in Places : mark[c] <= Now, Vouched(mark)
    PROVE  Vouched(mark)'
<1>1. /\ extractor \in Extractors /\ modified \in [Messages -> Stamps] /\ Now \in Nat
      /\ modified' = [modified EXCEPT ![m] = Now + 1]
      /\ UNCHANGED <<extractor, storeFile, kept, floor, gutted>>
  BY NowFacts, StampFacts DEF TypeOK, Change, files, history
<1>2. \A n \in Messages : Mates(n)' = Mates(n)  BY <1>1, RootsStay
<1> SUFFICES ASSUME NEW n \in Posted', NEW c \in Places, c = ConversationOf[n],
                    storeFile[c] = "ok", \A k \in Mates(n) : modified'[k] <= mark[c]
             PROVE  kept[n] = modified'[n] \/ modified'[n] < floor[c] \/ c \in gutted
  <2>1. \A n \in Posted' : n \in Messages /\ ConversationOf[n] \in Places
    BY <1>1, ChainFacts DEF Posted
  <2> QED  BY <1>1, <1>2, <2>1 DEF Vouched, InStore
<1>3. n \in Messages \ Noise /\ modified'[n] > 0 /\ n \in Mates(n) /\ Mates(n) \subseteq Messages
  BY <1>1, ChainFacts DEF Posted
<1>4. m \notin Mates(n)
  <2> SUFFICES ASSUME m \in Mates(n) PROVE FALSE  OBVIOUS
  <2>1. Now + 1 <= mark[c] /\ mark[c] <= Now /\ mark[c] \in Nat  BY <1>1, StampFacts
  <2> QED  BY <1>1, <2>1
<1>5. \A k \in Mates(n) : modified'[k] = modified[k]  BY <1>1, <1>3, <1>4
<1>6. n \in Posted  BY <1>3, <1>5 DEF Posted
<1> QED  BY <1>3, <1>5, <1>6 DEF Vouched, InStore

LEMMA LoseStoreKeepsVouched ==
    ASSUME TypeOK, NEW c \in Places, LoseStore(c), NEW mark, Vouched(mark)
    PROVE  Vouched(mark)'
<1>1. /\ UNCHANGED <<extractor, modified, floor, gutted>>
      /\ storeFile' = [storeFile EXCEPT ![c] = "missing"] /\ kept' = Without(kept, c)
      /\ storeFile \in [Places -> {"missing", "corrupt", "ok"}] /\ extractor \in Extractors
  BY DEF TypeOK, LoseStore
<1>2. \A n \in Messages : Mates(n)' = Mates(n)  BY <1>1, RootsStay
<1>3. \A n \in Messages : storeFile'[ConversationOf[n]] = "ok" =>
          storeFile[ConversationOf[n]] = "ok" /\ kept'[n] = kept[n]
  <2>1. \A n \in Messages : ConversationOf[n] \in Places  BY <1>1, ChainFacts
  <2> QED  BY <1>1, <2>1 DEF Without, In
<1> QED  BY <1>1, <1>2, <1>3 DEF Vouched, Posted, InStore

LEMMA TornSaveKeepsVouched ==
    ASSUME TypeOK, TornSave, NEW mark, Vouched(mark)
    PROVE  Vouched(mark)'
<1>1. /\ UNCHANGED <<extractor, modified, floor>> /\ gutted' = gutted \cup {Cur} /\ Cur \in Places
      /\ kept' = Without(kept, Cur) /\ \A c \in Places \ {Cur} : storeFile'[c] = storeFile[c]
      /\ extractor \in Extractors
  BY CurIsThere DEF TypeOK, TornSave, CutOff
<1>2. \A n \in Messages : Mates(n)' = Mates(n)  BY <1>1, RootsStay
<1>3. \A n \in Messages : ConversationOf[n] \in gutted' \/
          /\ storeFile'[ConversationOf[n]] = storeFile[ConversationOf[n]] /\ kept'[n] = kept[n]
          /\ ConversationOf[n] \in gutted => ConversationOf[n] \in gutted'
  <2>1. \A n \in Messages : ConversationOf[n] \in Places  BY <1>1, ChainFacts
  <2> QED  BY <1>1, <2>1 DEF Without, In
<1> QED  BY <1>1, <1>2, <1>3 DEF Vouched, Posted, InStore

\* A merge vouches for a watermark that is not ahead of what came after the listing.
LEMMA MergeVouches ==
    ASSUME TypeOK, FetchOK, Merge, NEW old, NEW mark, Vouched(old),
           \A c \in Places \ {Cur} : mark[c] = old[c],
           \A n \in Messages : Fresh(modified[n]) => ~ (modified[n] <= mark[Cur]),
           \/ mark[Cur] = old[Cur]
           \/ old[Cur] = state.watermark[Cur] /\ (since = 0 \/ ~truncated)
    PROVE  Vouched(mark)'
<1>0. /\ Cur \in Places /\ extractor \in Extractors /\ pc = "merge" /\ fetched # Nothing
      /\ modified \in [Messages -> Stamps] /\ kept \in [Messages -> Stamps]
      /\ fetched \in [Messages -> Stamps] /\ since \in Nat /\ floor \in [Places -> Stamps]
      /\ storeFile \in [Places -> {"missing", "corrupt", "ok"}]
      /\ storeFile[Cur] # "corrupt" /\ UNCHANGED <<extractor, modified>>
      /\ page = Nothing
  BY CurIsThere, StampFacts DEF TypeOK, Merge, FetchOK
<1>1. \A n \in Messages : Mates(n)' = Mates(n)  BY <1>0, RootsStay
<1>2. \A n \in Messages : kept'[n] = IF n \in Merged THEN fetched[n] ELSE kept[n]
  <2>1. Saves \/ Merged = {}  BY DEF Saves
  <2> QED  BY <1>0, <2>1 DEF Merge, WithMerged
<1>3. \A n \in Merged : ConversationOf[n] = Cur
  <2>1. \A n \in Merged : n \in Messages /\ fetched[n] # 0  BY DEF Merged
  <2> QED  BY <1>0, <2>1, Positive DEF FetchOK, Whole
<1>4. /\ \A c \in Places \ {Cur} : storeFile'[c] = storeFile[c] /\ floor'[c] = floor[c]
      /\ \A c \in Places \ {Cur} : c \in gutted => c \in gutted'
  BY <1>0 DEF Merge
<1>5. /\ since = 0 => floor'[Cur] = Reached
      /\ since > 0 /\ storeFile[Cur] = "missing" => Cur \in gutted'
      /\ since > 0 /\ storeFile[Cur] # "missing" => floor' = floor /\ gutted' = gutted
  BY <1>0 DEF Merge
<1> SUFFICES ASSUME NEW m \in Posted, storeFile'[ConversationOf[m]] = "ok",
                    \A n \in Mates(m) : modified[n] <= mark[ConversationOf[m]]
             PROVE  \/ kept'[m] = modified[m] \/ modified[m] < floor'[ConversationOf[m]]
                    \/ ConversationOf[m] \in gutted'
  BY <1>0, <1>1 DEF Vouched, Posted, InStore
<1>6. /\ m \in Messages /\ m \notin Noise /\ modified[m] > 0 /\ modified[m] \in Nat
      /\ m \in Mates(m) /\ Mates(m) \subseteq Messages /\ ConversationOf[m] \in Places
  BY <1>0, ChainFacts, Positive DEF Posted
<1>7. CASE ConversationOf[m] # Cur
  <2>1. kept'[m] = kept[m]  BY <1>2, <1>3, <1>6, <1>7
  <2> QED  BY <1>4, <1>6, <1>7, <2>1 DEF Vouched, InStore
<1>8. CASE ConversationOf[m] = Cur
  <2>1. \A n \in Mates(m) : ~ Fresh(modified[n])  BY <1>6, <1>8
  <2>2. (\E n \in Mates(m) : fetched[n] > 0) => fetched[m] = modified[m]
    BY <1>6, <2>1 DEF FetchOK, Whole
  <2>3. fetched[m] = modified[m] => kept'[m] = modified[m]
    BY <1>2, <1>6 DEF Merged
  <2>4. kept[m] = modified[m] => kept'[m] = modified[m]
    <3>1. m \in Merged => fetched[m] > 0  BY <1>0, <1>6, Positive DEF Merged
    <3> QED  BY <1>2, <1>6, <2>2, <3>1
  <2>5. \/ \A n \in Mates(m) : modified[n] <= since
        \/ \E n \in Mates(m) : fetched[n] > 0
        \/ CutOffBelow(m)
    <3>1. m \in In(Cur)  BY <1>6, <1>8 DEF In
    <3>2. \A n \in Mates(m) : ~ (page[n] > 0)  BY <1>0, <1>6 DEF Nothing
    <3> QED  BY <1>0, <2>1, <3>1, <3>2 DEF FetchOK, Covered
  <2>6. CASE since = 0
    <3>1. CASE \A n \in Mates(m) : modified[n] <= since  BY <1>6, <2>6, <3>1
    <3>2. CASE \E n \in Mates(m) : fetched[n] > 0  BY <2>2, <2>3, <3>2
    <3>3. CASE CutOffBelow(m)
      <4>1. /\ truncated
            /\ \A k \in Messages : fetched[k] > 0 => \E l \in Mates(k) : modified[m] < fetched[l]
        BY <1>6, <2>6, <3>3 DEF CutOffBelow
      <4>2. PICK k \in Messages : fetched[k] > 0 /\ \A l \in Mates(k) : fetched[l] <= Reached
        BY <1>0, <4>1, ReachedFacts
      <4>3. PICK l \in Mates(k) : modified[m] < fetched[l] /\ fetched[l] <= Reached
        BY <4>1, <4>2
      <4>4. fetched[l] \in Nat /\ Reached \in Nat
        <5>1. l \in Messages  BY <1>0, ChainFacts
        <5> QED  BY <1>0, <5>1, Positive, ReachedFacts, StampFacts
      <4> QED  BY <1>5, <1>6, <1>8, <2>6, <4>3, <4>4
    <3> QED  BY <2>5, <3>1, <3>2, <3>3
  <2>7. CASE since > 0 /\ storeFile[Cur] = "missing"  BY <1>5, <1>8, <2>7
  <2>8. CASE since > 0 /\ storeFile[Cur] = "ok"
    <3>1. floor' = floor /\ gutted' = gutted  BY <1>5, <2>8
    <3>2. CASE \A n \in Mates(m) : modified[n] <= old[Cur]
      BY <1>8, <2>4, <2>8, <3>1, <3>2 DEF Vouched, InStore
    <3>3. CASE ~ \A n \in Mates(m) : modified[n] <= old[Cur]
      <4>1. mark[Cur] # old[Cur]  BY <1>8, <3>3
      <4>2. old[Cur] = state.watermark[Cur] /\ ~truncated  BY <2>8, <4>1
      <4>3. since = old[Cur]  BY <2>8, <4>2 DEF FetchOK
      <4>4. \E n \in Mates(m) : fetched[n] > 0
        BY <2>5, <3>3, <4>2, <4>3 DEF CutOffBelow
      <4> QED  BY <2>2, <2>3, <4>4
    <3> QED  BY <3>2, <3>3
  <2> QED  BY <1>0, <2>6, <2>7, <2>8
<1> QED  BY <1>7, <1>8
-----------------------------------------------------------------------------
(* Changes *)

LEMMA ChangeStamps ==
    ASSUME TypeOK, NEW m \in Messages, Change(m)
    PROVE  /\ modified' = [modified EXCEPT ![m] = Now + 1] /\ modified'[m] = Now + 1
           /\ Now \in Nat /\ Now' \in Nat /\ Now + 1 <= Now'
           /\ \A n \in Messages : modified'[n] \in Nat /\ modified[n] \in Nat
           /\ \A n \in Messages : modified[n] <= Now /\ modified'[n] <= Now + 1
<1>1. /\ modified \in [Messages -> Stamps] /\ modified' = [modified EXCEPT ![m] = Now + 1]
      /\ Now < MaxStamp
  BY DEF TypeOK, Change
<1>2. Now \in Stamps /\ \A n \in Messages : modified[n] <= Now  BY <1>1, NowFacts
<1>3. Now + 1 \in Stamps /\ Now \in Nat /\ Now + 1 \in Nat  BY <1>1, <1>2, StampFacts DEF Stamps
<1>4. modified' \in [Messages -> Stamps]  BY <1>1, <1>3
<1>5. PICK v \in [Messages -> Stamps] : v = modified'  BY <1>4
<1>6. Now' = Max({0} \cup {v[n] : n \in Messages})  BY <1>5 DEF Now
<1>7. Now' \in Stamps /\ v[m] <= Now'  BY <1>6, LatestOf
<1>8. v[m] = Now + 1  BY <1>1, <1>5
<1>9. Now' \in Nat /\ Now + 1 <= Now'  BY <1>7, <1>8, StampFacts
<1>10. \A n \in Messages : modified[n] \in Nat /\ modified'[n] \in Nat
  BY <1>1, <1>4, StampFacts
<1>11. \A n \in Messages : modified'[n] <= Now + 1
  <2> SUFFICES ASSUME NEW n \in Messages PROVE modified'[n] <= Now + 1  OBVIOUS
  <2>1. CASE n = m  BY <1>3, <1>5, <1>8, <2>1
  <2>2. CASE n # m  BY <1>1, <1>2, <1>3, <1>10, <2>2
  <2> QED  BY <2>1, <2>2
<1> QED  BY <1>1, <1>2, <1>3, <1>5, <1>8, <1>9, <1>10, <1>11

\* What has been read was made by now.
LEMMA ReadByNow ==
    ASSUME TypeOK, FetchOK
    PROVE  \A n \in Messages : fetched[n] <= Now /\ page[n] <= Now
<1> SUFFICES ASSUME NEW n \in Messages PROVE fetched[n] <= Now /\ page[n] <= Now  OBVIOUS
<1>1. /\ fetched[n] \in Nat /\ page[n] \in Nat /\ Now \in Nat /\ modified[n] \in Nat
      /\ modified[n] <= Now /\ n \in Mates(n)
  BY Positive, NowFacts, StampFacts, ChainFacts DEF TypeOK
<1>2. fetched[n] > 0 => fetched[n] <= modified[n]  BY <1>1 DEF FetchOK, Whole, Fresh
<1>3. page[n] > 0 => page[n] <= modified[n]  BY <1>1 DEF FetchOK, Whole, Fresh
<1> QED  BY <1>1, <1>2, <1>3

LEMMA ChangeKeepsFetch ==
    ASSUME TypeOK, StampsOK, FetchOK, NEW m \in Messages, Change(m),
           pc \in {"fetch", "chains", "merge"}
    PROVE  FetchOK'
<1>0. /\ extractor \in Extractors /\ Cur \in Places /\ stored \in States /\ state \in States
      /\ before \in Nat /\ MaxStamp \in Nat
      /\ fetched \in [Messages -> Stamps] /\ page \in [Messages -> Stamps]
  BY CurIsThere, StampFacts DEF TypeOK
<1>1. /\ UNCHANGED <<extractor, stored, state, at, since, before, page, more, fetched, truncated, pc>>
      /\ Cur' = Cur /\ In(Cur)' = In(Cur) /\ \A n : Mates(n)' = Mates(n)
  BY RootsStay DEF Change, run, fetch, Cur, In
<1>2. /\ modified'[m] = Now + 1 /\ \A n \in Messages \ {m} : modified'[n] = modified[n]
      /\ \A n \in Messages : modified'[n] \in Nat /\ modified'[n] <= Now + 1
      /\ Now \in Nat
  BY <1>0, ChangeStamps DEF TypeOK
<1>3. \A n \in Messages : fetched[n] \in Nat /\ page[n] \in Nat /\ fetched[n] <= Now /\ page[n] <= Now
  BY <1>0, Positive, ReadByNow
<1>4. pc = "merge" \/ before <= Now + 1 => Fresh(Now + 1)
  <2>1. /\ stored.watermark[Cur] \in Nat /\ stored.watermark[Cur] <= Now
        /\ state.watermark[Cur] \in Nat /\ state.watermark[Cur] <= Now
    BY <1>0, StampFacts DEF StampsOK, States
  <2> QED  BY <1>2, <1>3, <2>1 DEF Fresh
<1>5. \A n \in Messages : Mates(n) \subseteq Messages  BY <1>0, ChainFacts
\* Once something is read, a change is fresh.
<1>6. ASSUME NEW v \in [Messages -> Stamps], Whole(v), \A n \in Messages : v[n] <= Now /\ v[n] \in Nat,
             pc # "merge" => Above(v)
      PROVE  Whole(v)'
  <2> SUFFICES ASSUME NEW n \in Messages
               PROVE  /\ v[n] > 0 => ConversationOf[n] = Cur
                      /\ (\E k \in Mates(n) : v[k] > 0) => v[n] = modified'[n] \/ Fresh(modified'[n])
    BY <1>1 DEF Whole, Fresh
  <2>1. v[n] > 0 => ConversationOf[n] = Cur  BY <1>6 DEF Whole
  <2>2. ASSUME NEW k \in Mates(n), v[k] > 0 PROVE v[n] = modified'[n] \/ Fresh(modified'[n])
    <3>1. CASE n # m  BY <1>2, <1>6, <2>2, <3>1 DEF Whole
    <3>2. CASE n = m
      <4>1. pc = "merge" \/ \E l \in Messages : before <= v[l] /\ v[l] <= Now /\ v[l] \in Nat
        BY <1>5, <1>6, <2>2 DEF Above
      <4>2. pc = "merge" \/ before <= Now + 1  BY <1>0, <1>2, <4>1
      <4> QED  BY <1>2, <1>4, <3>2, <4>2
    <3> QED  BY <3>1, <3>2
  <2> QED  BY <2>1, <2>2
<1>7. PICK f, g : f = fetched /\ f = fetched' /\ g = page /\ g = page'  BY <1>1
<1>8. Whole(f)' /\ Whole(g)'
  <2>1. /\ f \in [Messages -> Stamps] /\ g \in [Messages -> Stamps] /\ Whole(f) /\ Whole(g)
        /\ pc # "merge" => Above(f) /\ Above(g)
    BY <1>0, <1>7 DEF FetchOK
  <2>2. \A n \in Messages : f[n] <= Now /\ f[n] \in Nat /\ g[n] <= Now /\ g[n] \in Nat
    BY <1>3, <1>7
  <2> QED  BY <1>6, <2>1, <2>2
<1>9. Whole(fetched)' /\ Whole(page)'  BY <1>7, <1>8 DEF Whole
<1>10. Covered'
  <2> SUFFICES ASSUME NEW n \in In(Cur)
               PROVE  \/ \A k \in Mates(n) : modified'[k] <= since
                      \/ \E k \in Mates(n) : fetched[k] > 0 \/ page[k] > 0 \/ Fresh(modified'[k])
                      \/ IF pc = "merge" THEN CutOffBelow(n)' ELSE ToCome(n)'
    BY <1>1 DEF Covered, Fresh
  <2>0. n \in Messages /\ Mates(n) \subseteq Messages  BY <1>5 DEF In
  <2>1. CASE m \notin Mates(n)
    <3>1. \A k \in Mates(n) : modified'[k] = modified[k]  BY <1>2, <2>0, <2>1
    <3>2. CutOffBelow(n) => CutOffBelow(n)'  BY <1>1, <3>1 DEF CutOffBelow
    <3>3. ToCome(n) => ToCome(n)'  BY <1>1, <3>1 DEF ToCome
    <3> QED  BY <3>1, <3>2, <3>3 DEF FetchOK, Covered
  <2>2. CASE m \in Mates(n) /\ (pc = "merge" \/ before <= Now + 1)
    BY <1>2, <1>4, <2>2
  <2>3. CASE m \in Mates(n) /\ pc # "merge" /\ ~ (before <= Now + 1)
    <3>1. pc # "chains"
      <4> SUFFICES ASSUME pc = "chains" PROVE FALSE  OBVIOUS
      <4>1. PICK k \in Messages : page[k] > 0  BY DEF FetchOK, PageOK
      <4>2. PICK l \in Mates(k) : before <= page[l]  BY <4>1 DEF FetchOK, Above
      <4>3. l \in Messages  BY <1>5
      <4> QED  BY <1>0, <1>2, <1>3, <2>3, <4>2, <4>3
    <3>2. \A k \in Mates(n) : modified'[k] < before  BY <1>0, <1>2, <2>0, <2>3
    <3> QED  BY <1>1, <2>3, <3>1, <3>2 DEF ToCome
  <2> QED  BY <2>1, <2>2, <2>3
<1>11. Above(fetched) /\ Above(page) => Above(fetched)' /\ Above(page)'
  BY <1>1 DEF Above
<1>12. PageOK => PageOK'  BY <1>1 DEF PageOK, IsChat
<1>13. since' = 0 \/ since' = state'.watermark[Cur']  BY <1>1 DEF FetchOK
<1> QED  BY <1>1, <1>9, <1>10, <1>11, <1>12, <1>13 DEF FetchOK
-----------------------------------------------------------------------------
(* Reading *)

LEMMA BeginKeepsFetch ==
    ASSUME TypeOK, Begin, fetched = Nothing, page = Nothing, ~truncated
    PROVE  FetchOK'
<1>0. /\ extractor \in Extractors /\ modified \in [Messages -> Stamps] /\ MaxStamp \in Nat
  BY StampFacts DEF TypeOK
<1>1. /\ pc' = "fetch" /\ before' = MaxStamp + 1 /\ Cur' = Cur
      /\ UNCHANGED <<extractor, modified, state, stored, page, fetched, truncated>>
      /\ since' = 0 \/ since' = state.watermark[Cur]
  BY DEF Begin, Since, Cur
<1>2. \A m : Mates(m)' = Mates(m)  BY <1>1, RootsStay
<1>3. \A m \in Messages : ~ (fetched[m] > 0) /\ ~ (page[m] > 0)  BY DEF Nothing
<1>4. \A m \in Messages : Mates(m) \subseteq Messages  BY <1>0, ChainFacts
<1>5. Whole(fetched)' /\ Whole(page)'
  BY <1>1, <1>2, <1>3, <1>4 DEF Whole
<1>6. Above(fetched)' /\ Above(page)'  BY <1>1, <1>3 DEF Above
<1>7. \A m \in Messages : modified[m] < MaxStamp + 1  BY <1>0, Positive
<1>8. Covered'  BY <1>1, <1>2, <1>4, <1>7 DEF Covered, ToCome, In
<1> QED  BY <1>1, <1>5, <1>6, <1>8 DEF FetchOK

\* What is read below a stamp that is fresh leaves it fresh.
LEMMA FreshStays ==
    ASSUME UNCHANGED <<at, stored, state>>, pc # "merge" => before' <= before,
           before \in Nat, before' \in Nat, pc = "merge" => pc' = "merge",
           NEW x \in Nat, Fresh(x), \A n \in Messages : fetched'[n] < x /\ page'[n] < x
    PROVE  Fresh(x)'
BY DEF Fresh, Cur

LEMMA FetchPageKeeps ==
    ASSUME TypeOK, FetchOK, FetchPage
    PROVE  FetchOK'
<1>0. /\ extractor \in Extractors /\ modified \in [Messages -> Stamps] /\ before \in Nat
      /\ fetched \in [Messages -> Stamps] /\ page = Nothing /\ IsChat /\ pc = "fetch"
      /\ since \in Nat /\ ReadPage /\ ~truncated
  BY StampFacts DEF TypeOK, FetchPage, FetchOK
<1>1. /\ UNCHANGED <<extractor, modified, stored, state, at, since, page>>
      /\ Cur' = Cur /\ In(Cur)' = In(Cur)
      /\ \/ pc' = "fetch" /\ truncated' = truncated
         \/ pc' = "merge" /\ truncated' = more'
  BY <1>0 DEF FetchPage, Cur, In
<1>2. \A m \in Messages : Mates(m) = {m} /\ Mates(m)' = {m} /\ Root(m) = m
  BY <1>0, <1>1 DEF Mates, Chain, Root, IsChat
<1>3. \A m \in Messages : modified[m] \in Nat /\ fetched[m] \in Nat /\ ChainModified(m, modified) = modified[m]
  <2> SUFFICES ASSUME NEW m \in Messages
               PROVE  modified[m] \in Nat /\ fetched[m] \in Nat /\ ChainModified(m, modified) = modified[m]
    OBVIOUS
  <2>1. \E n \in Mates(m) : modified[n] = ChainModified(Root(m), modified)  BY <1>0, TopOf
  <2> QED  BY <1>0, <1>2, <2>1, Positive
<1>4. /\ before' \in Nat /\ before' <= before /\ Shown \subseteq Listed
      /\ \A m \in Shown : m \in Messages /\ before' <= modified[m]
      /\ \A m \in Listed \ Shown : modified[m] < before'
      /\ more' = (Shown # Listed)
  <2>1. \A m \in Listed : m \in Messages  BY <1>0, PageFacts, ChainsAreRoots
  <2>2. before' \in Nat /\ before' <= before /\ Shown \subseteq Listed /\ more' = (Shown # Listed)
    BY <1>0, StampFacts, PageFacts
  <2>3. \A m \in Shown : before' <= ChainModified(m, modified)  BY <1>0, PageFacts
  <2>4. \A m \in Listed \ Shown : ChainModified(m, modified) < before'  BY <1>0, PageFacts
  <2> QED  BY <1>3, <2>1, <2>2, <2>3, <2>4
<1>5. \A m \in Messages : m \in Listed <=> /\ modified[m] > 0 /\ ConversationOf[m] = Cur
                                          /\ modified[m] < before /\ modified[m] > since
  BY <1>0, <1>2, <1>3 DEF Listed, Chains
\* What is shown has not been fetched.
<1>6. \A m \in Shown : fetched[m] = 0
  <2> SUFFICES ASSUME NEW m \in Shown, fetched[m] > 0 PROVE FALSE  BY <1>3, <1>4
  <2>1. m \in Messages /\ modified[m] < before /\ modified[m] \in Nat /\ fetched[m] \in Nat
    BY <1>3, <1>4, <1>5
  <2>2. before <= fetched[m]  BY <1>0, <1>2, <2>1 DEF FetchOK, Above
  <2>3. fetched[m] = modified[m] \/ before <= modified[m]
    BY <1>0, <1>2, <2>1 DEF FetchOK, Whole, Fresh
  <2> QED  BY <1>0, <2>1, <2>2, <2>3
<1>7. \A m \in Messages : fetched'[m] = IF m \in Shown THEN modified[m] ELSE fetched[m]
  <2> SUFFICES ASSUME NEW m \in Messages
               PROVE  fetched'[m] = IF m \in Shown THEN modified[m] ELSE fetched[m]
    OBVIOUS
  <2>1. fetched'[m] = Max({fetched[m], IF m \in Shown THEN modified[m] ELSE 0})
    BY <1>2 DEF FetchPage, Snapshot
  <2>2. fetched[m] \in Stamps /\ modified[m] \in Stamps /\ 0 \in Stamps  BY <1>0, StampFacts
  <2>3. Max({fetched[m], modified[m]}) = IF fetched[m] <= modified[m] THEN modified[m] ELSE fetched[m]
    BY <2>2, Later
  <2>4. Max({fetched[m], 0}) = IF fetched[m] <= 0 THEN 0 ELSE fetched[m]
    BY <2>2, Later
  <2> QED  BY <1>3, <1>6, <2>1, <2>3, <2>4
<1>8. \A m \in Messages : Fresh(modified[m]) => Fresh(modified[m])'
  <2> SUFFICES ASSUME NEW m \in Messages, Fresh(modified[m]) PROVE Fresh(modified[m])'  OBVIOUS
  <2>1. PICK x \in Nat : x = modified[m] /\ x = modified'[m]  BY <1>1, <1>3
  <2>2. Fresh(x)  BY <2>1
  <2>3. \A n \in Messages : fetched'[n] < x /\ page'[n] < x
    <3>1. \A n \in Messages : fetched[n] < x /\ page[n] < x  BY <2>2 DEF Fresh
    <3>2. before <= x  BY <1>0, <2>2 DEF Fresh
    <3>3. \A n \in Shown : modified[n] < x  BY <1>0, <1>3, <1>4, <1>5, <3>2
    <3> QED  BY <1>1, <1>7, <3>1, <3>3
  <2>4. Fresh(x)'  BY <1>0, <1>1, <1>4, <2>2, <2>3, FreshStays
  <2> QED  BY <2>1, <2>4 DEF Fresh
<1>9. Whole(fetched)' /\ Whole(page)'
  <2>1. \A m \in Messages : fetched'[m] > 0 =>
           /\ ConversationOf[m] = Cur
           /\ fetched'[m] = modified[m] \/ Fresh(modified[m])
    BY <1>2, <1>4, <1>5, <1>7 DEF FetchOK, Whole
  <2>2. \A m \in Messages : ~ (page'[m] > 0)  BY <1>0, <1>1 DEF Nothing
  <2>3. \A m \in Messages : /\ fetched'[m] > 0 => ConversationOf[m] = Cur'
                            /\ fetched'[m] > 0 => fetched'[m] = modified'[m] \/ Fresh(modified[m])'
    BY <1>1, <1>8, <2>1
  <2> QED  BY <1>2, <2>2, <2>3 DEF Whole
<1>10. \A m \in Messages : fetched'[m] > 0 => before' <= fetched'[m]
  <2> SUFFICES ASSUME NEW m \in Messages, fetched'[m] > 0 PROVE before' <= fetched'[m]  OBVIOUS
  <2>1. CASE m \in Shown  BY <1>4, <1>7, <2>1
  <2>2. CASE m \notin Shown
    <3>1. before <= fetched[m]  BY <1>0, <1>2, <1>7, <2>2 DEF FetchOK, Above
    <3> QED  BY <1>0, <1>3, <1>4, <1>7, <2>2, <3>1
  <2> QED  BY <2>1, <2>2
<1>11. Covered'
  <2> SUFFICES ASSUME NEW m \in In(Cur)
               PROVE  \/ modified'[m] <= since' \/ fetched'[m] > 0 \/ Fresh(modified[m])'
                      \/ IF pc' = "merge" THEN CutOffBelow(m)' ELSE ToCome(m)'
    <3>1. \A m \in In(Cur) : m \in Messages  BY DEF In
    <3> QED  BY <1>1, <1>2, <3>1 DEF Covered
  <2>0. m \in Messages /\ ConversationOf[m] = Cur  BY DEF In
  <2>1. \/ modified[m] <= since \/ fetched[m] > 0 \/ Fresh(modified[m]) \/ modified[m] < before
    BY <1>0, <1>2, <2>0 DEF FetchOK, Covered, ToCome, Nothing
  <2>2. CASE modified[m] <= since \/ Fresh(modified[m])  BY <1>1, <1>8, <2>0, <2>2
  <2>3. CASE fetched[m] > 0  BY <1>4, <1>6, <1>7, <2>0, <2>3
  <2>4. CASE modified[m] < before /\ ~ (modified[m] <= since)
    <3>1. m \in Listed /\ modified[m] > 0  BY <1>0, <1>3, <1>5, <2>0, <2>4
    <3>2. CASE m \in Shown  BY <1>7, <2>0, <3>1, <3>2
    <3>3. CASE m \notin Shown
      <4>1. modified[m] < before' /\ more'  BY <1>4, <3>1, <3>3
      <4>2. CASE pc' = "fetch"  BY <1>1, <1>2, <2>0, <4>1, <4>2 DEF ToCome
      <4>3. CASE pc' = "merge"
        <5>1. \A k \in Messages : fetched'[k] > 0 => modified[m] < fetched'[k]
          <6>1. \A k \in Messages : fetched'[k] \in Nat  BY <1>3, <1>7
          <6> QED  BY <1>3, <1>4, <1>10, <2>0, <4>1, <6>1
        <5> QED  BY <1>1, <1>2, <2>0, <4>1, <4>3, <5>1 DEF CutOffBelow
      <4> QED  BY <1>1, <4>2, <4>3
    <3> QED  BY <3>2, <3>3
  <2> QED  BY <2>1, <2>2, <2>3, <2>4
<1>12. Above(fetched)' /\ Above(page)'
  BY <1>0, <1>1, <1>2, <1>10 DEF Above, Nothing
<1> QED  BY <1>0, <1>1, <1>9, <1>11, <1>12 DEF FetchOK, Nothing

LEMMA FetchRootsKeeps ==
    ASSUME TypeOK, StampsOK, FetchOK, FetchRoots
    PROVE  FetchOK'
<1> DEFINE C(r) == ChainModified(r, modified)
<1>0. /\ extractor \in Extractors /\ modified \in [Messages -> Stamps] /\ before \in Nat
      /\ fetched \in [Messages -> Stamps] /\ page = Nothing /\ ~IsChat /\ pc = "fetch"
      /\ since \in Nat /\ ReadPage /\ ~truncated
  BY StampFacts DEF TypeOK, FetchRoots, FetchOK
<1>1. /\ UNCHANGED <<extractor, modified, stored, state, at, since, fetched, truncated>>
      /\ Cur' = Cur /\ In(Cur)' = In(Cur) /\ \A m : Mates(m)' = Mates(m)
      /\ pc' = IF Shown = {} THEN "merge" ELSE "chains"
      /\ \A m \in Messages : page'[m] = IF Root(m) \in Shown THEN modified[m] ELSE 0
  BY <1>0, RootsStay DEF FetchRoots, Snapshot, Cur, In
<1>2. \A m \in Messages :
         /\ m \in Mates(m) /\ Mates(m) \subseteq Messages /\ Root(m) \in Messages
         /\ \A n \in Mates(m) : Root(n) = Root(m) /\ Mates(n) = Mates(m) /\ m \in Mates(n)
         /\ ConversationOf[Root(m)] = ConversationOf[m]
  BY <1>0, ChainFacts
<1>3. \A m \in Messages :
         /\ modified[m] \in Nat /\ fetched[m] \in Nat /\ C(Root(m)) \in Nat
         /\ \A n \in Mates(m) : modified[n] <= C(Root(m))
         /\ \E n \in Mates(m) : modified[n] = C(Root(m))
  BY <1>0, TopOf, Positive, StampFacts
<1>4. /\ before' \in Nat /\ before' <= before /\ more' = (Shown # Listed) /\ Shown \subseteq Listed
      /\ \A r \in Shown : before' <= C(r)
      /\ \A r \in Listed \ Shown : C(r) < before'
      /\ Shown = {} => Listed = {}
      /\ \A r \in Listed : r \in Messages /\ Root(r) = r
  BY <1>0, PageFacts, ChainsAreRoots, StampFacts
<1>5. \A m \in Messages : Root(m) \in Listed <=> /\ C(Root(m)) > 0 /\ ConversationOf[m] = Cur
                                                /\ C(Root(m)) < before
  BY <1>0, <1>2 DEF Listed, Chains
<1> HIDE DEF C
\* What is shown has not been fetched, and is below what has.
<1>6. \A m \in Messages : fetched[m] > 0 => \E l \in Mates(m) : before <= fetched[l]
  BY <1>0 DEF FetchOK, Above
<1>7. \A m \in Messages : fetched[m] > 0 => Root(m) \notin Shown
  <2> SUFFICES ASSUME NEW m \in Messages, fetched[m] > 0, Root(m) \in Shown PROVE FALSE
    OBVIOUS
  <2>1. PICK l \in Mates(m) : before <= fetched[l]  BY <1>6
  <2>2. l \in Messages /\ m \in Mates(l)  BY <1>2
  <2>3. fetched[l] = modified[l] \/ before <= modified[l]
    BY <1>0, <2>2 DEF FetchOK, Whole, Fresh
  <2>4. modified[l] <= C(Root(m)) /\ C(Root(m)) < before  BY <1>3, <1>4, <1>5
  <2> QED  BY <1>0, <1>3, <2>1, <2>2, <2>3, <2>4
<1>8. \A m \in Messages : /\ page'[m] \in Nat /\ (page'[m] > 0 => Root(m) \in Shown)
                          /\ page'[m] > 0 => page'[m] < before
  BY <1>0, <1>1, <1>2, <1>3, <1>4, <1>5
<1>9. \A m \in Messages : Fresh(modified[m]) => Fresh(modified[m])'
  <2> SUFFICES ASSUME NEW m \in Messages, Fresh(modified[m]) PROVE Fresh(modified[m])'  OBVIOUS
  <2>1. PICK x \in Nat : x = modified[m] /\ x = modified'[m]  BY <1>1, <1>3
  <2>2. Fresh(x)  BY <2>1
  <2>3. \A n \in Messages : fetched'[n] < x /\ page'[n] < x
    <3>1. \A n \in Messages : fetched[n] < x  BY <2>2 DEF Fresh
    <3>2. before <= x  BY <1>0, <2>2 DEF Fresh
    <3> QED  BY <1>0, <1>1, <1>3, <1>8, <3>1, <3>2
  <2>4. Fresh(x)'  BY <1>0, <1>1, <1>4, <2>2, <2>3, FreshStays
  <2> QED  BY <2>1, <2>4 DEF Fresh
<1>10. Whole(fetched)'
  <2>1. \A m \in Messages : (\E n \in Mates(m) : fetched[n] > 0) =>
           fetched[m] = modified[m] \/ Fresh(modified[m])'
    BY <1>0, <1>9 DEF FetchOK, Whole
  <2>2. \A m \in Messages : fetched[m] > 0 => ConversationOf[m] = Cur
    BY DEF FetchOK, Whole
  <2>3. \A m \in Messages : modified'[m] = modified[m] /\ fetched'[m] = fetched[m]  BY <1>1
  <2> QED  BY <1>1, <2>1, <2>2, <2>3 DEF Whole
<1>11. Whole(page)'
  <2>1. \A m \in Messages : page'[m] > 0 => ConversationOf[m] = Cur'
    BY <1>1, <1>4, <1>5, <1>8
  <2>2. \A m \in Messages : (\E n \in Mates(m) : page'[n] > 0) => page'[m] = modified'[m]
    BY <1>1, <1>2, <1>8
  <2> QED  BY <1>1, <2>1, <2>2 DEF Whole
<1>12. Above(fetched)' /\ Above(page)'
  <2>1. \A m \in Messages : fetched[m] > 0 => \E l \in Mates(m) : before' <= fetched[l]
    BY <1>0, <1>2, <1>3, <1>4, <1>6
  <2>2. \A m \in Messages : page'[m] > 0 => \E l \in Mates(m) : before' <= page'[l]
    BY <1>1, <1>2, <1>3, <1>4, <1>8
  <2> QED  BY <1>1, <2>1, <2>2 DEF Above
<1>13. IF pc' = "chains" THEN PageOK' ELSE page' = Nothing
  <2>1. CASE Shown = {}
    <3>1. page' = Nothing  BY <1>0, <2>1 DEF FetchRoots, Snapshot, Nothing
    <3> QED  BY <1>1, <2>1, <3>1
  <2>2. CASE Shown # {}
    <3>1. ~IsChat'  BY <1>0, <1>1 DEF IsChat
    <3>2. \E n \in Messages : page'[n] > 0
      <4>1. PICK r \in Shown : TRUE  BY <2>2
      <4>2. r \in Messages /\ Root(r) = r /\ r \in Listed  BY <1>4
      <4>3. PICK n \in Mates(r) : modified[n] = C(r)  BY <1>3, <4>2
      <4>4. n \in Messages /\ Root(n) = r /\ C(r) > 0  BY <1>2, <1>5, <4>2
      <4> QED  BY <1>1, <4>3, <4>4
    <3>3. \A m, n \in Messages : page'[m] = page'[n] /\ page'[m] > 0 => m = n
      BY <1>1, <1>8 DEF StampsOK
    <3>4. \A m, n \in Messages : fetched[m] > 0 /\ page'[n] > 0 =>
             n \notin Mates(m) /\ \E l \in Mates(m) : \A k \in Mates(n) : page'[k] < fetched[l]
      <4> SUFFICES ASSUME NEW m \in Messages, NEW n \in Messages, fetched[m] > 0, page'[n] > 0
                   PROVE  n \notin Mates(m) /\ \E l \in Mates(m) : \A k \in Mates(n) : page'[k] < fetched[l]
        OBVIOUS
      <4>1. n \notin Mates(m)  BY <1>2, <1>7, <1>8
      <4>2. PICK l \in Mates(m) : before <= fetched[l]  BY <1>6
      <4>3. C(Root(n)) < before  BY <1>4, <1>5, <1>8
      <4>4. \A k \in Mates(n) : page'[k] <= C(Root(n)) /\ page'[k] \in Nat
        BY <1>1, <1>2, <1>3, <1>8
      <4>5. l \in Messages /\ fetched[l] \in Nat  BY <1>2, <1>3
      <4> QED  BY <1>0, <1>3, <4>1, <4>2, <4>3, <4>4, <4>5
    <3>5. PageOK'  BY <1>1, <3>1, <3>2, <3>3, <3>4 DEF PageOK
    <3> QED  BY <1>1, <2>2, <3>5
  <2> QED  BY <2>1, <2>2
<1>14. Covered'
  <2> SUFFICES ASSUME NEW m \in In(Cur)
               PROVE  \/ \A n \in Mates(m) : modified[n] <= since
                      \/ \E n \in Mates(m) : fetched[n] > 0 \/ page'[n] > 0 \/ Fresh(modified[n])'
                      \/ pc' = "chains" /\ ToCome(m)'
    <3>1. \A n : modified'[n] = modified[n] /\ fetched'[n] = fetched[n] /\ since' = since
      BY <1>1
    <3> QED  BY <1>1, <3>1 DEF Covered
  <2>0. m \in Messages /\ ConversationOf[m] = Cur  BY DEF In
  <2>1. \/ \A n \in Mates(m) : modified[n] <= since
        \/ \E n \in Mates(m) : fetched[n] > 0 \/ Fresh(modified[n])
        \/ \A n \in Mates(m) : modified[n] < before
    BY <1>0, <1>2, <2>0 DEF FetchOK, Covered, ToCome, Nothing
  <2>2. CASE \A n \in Mates(m) : modified[n] <= since  BY <2>2
  <2>3. CASE \E n \in Mates(m) : fetched[n] > 0 \/ Fresh(modified[n])  BY <1>2, <1>9, <2>0, <2>3
  <2>4. CASE (\A n \in Mates(m) : modified[n] < before) /\ C(Root(m)) = 0
    BY <1>0, <1>2, <1>3, <2>0, <2>4
  <2>5. CASE (\A n \in Mates(m) : modified[n] < before) /\ C(Root(m)) # 0
    <3>1. Root(m) \in Listed /\ C(Root(m)) > 0  BY <1>3, <1>5, <2>0, <2>5
    <3>2. CASE Root(m) \in Shown
      <4>1. PICK n \in Mates(m) : modified[n] = C(Root(m))  BY <1>3, <2>0
      <4>2. page'[n] > 0  BY <1>1, <1>2, <2>0, <3>1, <3>2, <4>1
      <4> QED  BY <4>2
    <3>3. CASE Root(m) \notin Shown
      <4>1. C(Root(m)) < before' /\ more' /\ Shown # {}  BY <1>4, <3>1, <3>3
      <4>2. \A n \in Mates(m) : modified[n] < before'  BY <1>2, <1>3, <1>4, <2>0, <4>1
      <4>3. pc' = "chains" /\ ToCome(m)'  BY <1>1, <4>1, <4>2 DEF ToCome
      <4> QED  BY <4>3
    <3> QED  BY <3>2, <3>3
  <2> QED  BY <2>1, <2>2, <2>3, <2>4, <2>5
<1> QED  BY <1>0, <1>1, <1>10, <1>11, <1>12, <1>13, <1>14 DEF FetchOK

\* No reply comes by a reply page: what is read of a chain is what its page showed.
NoReplyPages == Late = {} \/ Extractors \subseteq {"teams_chats"}

\* A step takes the highest chain of the page, or stops.
LEMMA ChainTaken ==
    ASSUME NoReplyPages, TypeOK, FetchOK, FetchChain
    PROVE  \E r \in Messages : \E l \in Chain(r) :
              /\ page[l] > 0 /\ \A n \in Messages : page[n] <= page[l]
              /\ \/ /\ since > 0 /\ page[l] <= since
                    /\ pc' = "merge" /\ page' = Nothing /\ UNCHANGED <<fetched, truncated>>
                 \/ /\ \A m \in Messages : fetched'[m] = IF Root(m) = r THEN page[m] ELSE fetched[m]
                    /\ \/ since = 0 /\ truncated' /\ page' = Nothing /\ pc' = "merge"
                       \/ /\ ~truncated'
                          /\ \A m \in Messages : page'[m] = IF Root(m) = r THEN 0 ELSE page[m]
                          /\ \/ page' # Nothing /\ pc' = "chains"
                             \/ page' = Nothing /\ pc' = IF more THEN "fetch" ELSE "merge"
<1>0. /\ extractor \in Extractors /\ fetched \in [Messages -> Stamps] /\ page \in [Messages -> Stamps]
      /\ since \in Nat /\ pc = "chains" /\ PageOK
  BY StampFacts DEF TypeOK, FetchChain, FetchOK
<1>1. Late = {}  BY <1>0 DEF NoReplyPages, PageOK, IsChat
<1>2. PICK r \in Chains(page) :
        LET chain == [m \in Messages |->
                          CASE Root(m) # r -> 0
                            [] Root(m) = r /\ m \in Late -> modified[m]
                            [] OTHER -> page[m]]
            with == [m \in Messages |-> Max({fetched[m], chain[m]})]
            rest == [m \in Messages |-> IF Root(m) = r THEN 0 ELSE page[m]]
        IN  /\ \A q \in Chains(page) : ChainModified(q, page) <= ChainModified(r, page)
            /\ IF AtTheWatermark(ChainModified(r, chain))
               THEN pc' = "merge" /\ page' = Nothing /\ UNCHANGED <<fetched, truncated>>
               ELSE /\ fetched' = with /\ truncated' = Enough(with)
                    /\ page' = IF Enough(with) THEN Nothing ELSE rest
                    /\ pc' = CASE Enough(with) -> "merge"
                               [] ~Enough(with) /\ rest # Nothing -> "chains"
                               [] OTHER -> IF more THEN "fetch" ELSE "merge"
  BY DEF FetchChain
<1> DEFINE chain == [m \in Messages |->
                          CASE Root(m) # r -> 0
                            [] Root(m) = r /\ m \in Late -> modified[m]
                            [] OTHER -> page[m]]
           with == [m \in Messages |-> Max({fetched[m], chain[m]})]
           rest == [m \in Messages |-> IF Root(m) = r THEN 0 ELSE page[m]]
           top == ChainModified(r, page)
<1>3. r \in Messages /\ Root(r) = r /\ Mates(r) = Chain(r) /\ top > 0
  BY <1>0, ChainsAreRoots DEF Chains
<1>4. PICK l \in Chain(r) : page[l] = top
  <2>1. \E n \in Mates(r) : page[n] = ChainModified(Root(r), page)  BY <1>0, <1>3, TopOf
  <2> QED  BY <1>3, <2>1
<1>5. top \in Nat
  <2>1. ChainModified(Root(r), page) \in Stamps  BY <1>0, <1>3, TopOf
  <2> QED  BY <1>3, <2>1, StampFacts
<1>6. \A n \in Messages : page[n] <= top
  <2> SUFFICES ASSUME NEW n \in Messages PROVE page[n] <= top  OBVIOUS
  <2>1. /\ n \in Mates(n) /\ Root(n) \in Messages /\ page[n] \in Nat
        /\ page[n] <= ChainModified(Root(n), page) /\ ChainModified(Root(n), page) \in Nat
    BY <1>0, ChainFacts, TopOf, StampFacts
  <2>2. CASE Root(n) \in Chains(page)
    <3>1. ChainModified(Root(n), page) <= top  BY <1>2, <2>2
    <3> HIDE DEF top
    <3> QED  BY <1>5, <2>1, <3>1
  <2>3. CASE Root(n) \notin Chains(page)
    <3>1. ~ (ChainModified(Root(n), page) > 0)  BY <2>3 DEF Chains
    <3> HIDE DEF top
    <3> QED  BY <1>5, <2>1, <3>1
  <2> QED  BY <2>2, <2>3
<1>7. \A m \in Messages : chain[m] = IF Root(m) = r THEN page[m] ELSE 0  BY <1>1
<1>8. \A m \in Chain(r) : m \in Messages /\ Root(m) = r  BY DEF Chain
<1>9. ChainModified(r, chain) = top
  <2>1. {chain[m] : m \in Chain(r)} = {page[m] : m \in Chain(r)}  BY <1>7, <1>8
  <2> HIDE DEF chain
  <2> QED  BY <2>1 DEF ChainModified
<1>10. \A m \in Messages : with[m] = IF Root(m) = r THEN page[m] ELSE fetched[m]
  <2> SUFFICES ASSUME NEW m \in Messages
               PROVE  with[m] = IF Root(m) = r THEN page[m] ELSE fetched[m]
    OBVIOUS
  <2>1. with[m] = Max({fetched[m], IF Root(m) = r THEN page[m] ELSE 0})
    <3>1. with[m] = Max({fetched[m], chain[m]})  OBVIOUS
    <3>2. chain[m] = IF Root(m) = r THEN page[m] ELSE 0  BY <1>7
    <3> HIDE DEF chain, with
    <3> QED  BY <3>1, <3>2
  <2> HIDE DEF with, chain
  <2>2. fetched[m] \in Stamps /\ page[m] \in Stamps /\ 0 \in Stamps /\ fetched[m] \in Nat /\ page[m] \in Nat
    BY <1>0, StampFacts
  <2>3. CASE Root(m) = r
    <3>1. l \in Mates(m) /\ l \in Messages /\ page[l] > 0
      BY <1>3, <1>4, <1>8, <2>3 DEF Mates
    <3>2. ~ (fetched[m] > 0)  BY <1>0, <3>1 DEF PageOK
    <3>3. fetched[m] = 0  BY <2>2, <3>2
    <3>4. Max({0, page[m]}) = IF 0 <= page[m] THEN page[m] ELSE 0  BY <2>2, Later
    <3> QED  BY <2>1, <2>2, <2>3, <3>3, <3>4
  <2>4. CASE Root(m) # r
    <3>1. Max({fetched[m], 0}) = IF fetched[m] <= 0 THEN 0 ELSE fetched[m]  BY <2>2, Later
    <3> QED  BY <2>1, <2>2, <2>4, <3>1
  <2> QED  BY <2>3, <2>4
<1>11. \A m \in Messages : rest[m] = IF Root(m) = r THEN 0 ELSE page[m]  OBVIOUS
<1>12. /\ IF AtTheWatermark(top)
          THEN pc' = "merge" /\ page' = Nothing /\ UNCHANGED <<fetched, truncated>>
          ELSE /\ fetched' = with /\ truncated' = Enough(with)
               /\ page' = IF Enough(with) THEN Nothing ELSE rest
               /\ pc' = CASE Enough(with) -> "merge"
                          [] ~Enough(with) /\ rest # Nothing -> "chains"
                          [] OTHER -> IF more THEN "fetch" ELSE "merge"
  <2> HIDE DEF top
  <2> QED  BY <1>2, <1>9 DEF top
<1>13. page[l] > 0 /\ \A n \in Messages : page[n] <= page[l]  BY <1>3, <1>4, <1>6
<1>14. CASE AtTheWatermark(top)
  BY <1>3, <1>4, <1>12, <1>13, <1>14 DEF AtTheWatermark
<1>15. CASE ~AtTheWatermark(top) /\ Enough(with)
  <2>1. /\ fetched' = with /\ truncated' /\ page' = Nothing /\ pc' = "merge" /\ since = 0
    BY <1>12, <1>15 DEF Enough
  <2>2. \A m \in Messages : fetched'[m] = IF Root(m) = r THEN page[m] ELSE fetched[m]
    <3> HIDE DEF with
    <3> QED  BY <1>10, <2>1
  <2> QED  BY <1>3, <1>4, <1>13, <2>1, <2>2
<1>16. CASE ~AtTheWatermark(top) /\ ~Enough(with)
  <2> HIDE DEF with, rest, chain
  <2>1. /\ fetched' = with /\ ~truncated' /\ page' = rest
        /\ pc' = CASE rest # Nothing -> "chains" [] OTHER -> IF more THEN "fetch" ELSE "merge"
    BY <1>12, <1>16
  <2>2. \A m \in Messages : fetched'[m] = IF Root(m) = r THEN page[m] ELSE fetched[m]
    BY <1>10, <2>1
  <2>3. \A m \in Messages : page'[m] = IF Root(m) = r THEN 0 ELSE page[m]
    BY <1>11, <2>1
  <2>4. \/ page' # Nothing /\ pc' = "chains"
        \/ page' = Nothing /\ pc' = IF more THEN "fetch" ELSE "merge"
    BY <2>1
  <2> QED  BY <1>3, <1>4, <1>13, <2>1, <2>2, <2>3, <2>4
<1> QED  BY <1>14, <1>15, <1>16

LEMMA FetchChainKeeps ==
    ASSUME NoReplyPages, TypeOK, FetchOK, FetchChain
    PROVE  FetchOK'
<1>0. /\ extractor \in Extractors /\ modified \in [Messages -> Stamps] /\ before \in Nat
      /\ fetched \in [Messages -> Stamps] /\ page \in [Messages -> Stamps]
      /\ since \in Nat /\ pc = "chains" /\ PageOK /\ ~IsChat /\ ~truncated
      /\ Whole(fetched) /\ Whole(page) /\ Above(fetched) /\ Above(page) /\ Covered
  BY SMTT(40), StampFacts DEF TypeOK, FetchChain, FetchOK, PageOK
<1>1. /\ UNCHANGED <<extractor, modified, stored, state, at, since, before, more>>
      /\ Cur' = Cur /\ In(Cur)' = In(Cur) /\ (\A m : Mates(m)' = Mates(m)) /\ ~IsChat'
      /\ \A m \in Messages : modified'[m] = modified[m]
  BY <1>0, RootsStay DEF FetchChain, Cur, In, IsChat
<1>2. \A m \in Messages :
         /\ m \in Mates(m) /\ Mates(m) \subseteq Messages
         /\ \A n \in Mates(m) : n \in Messages /\ Root(n) = Root(m) /\ Mates(n) = Mates(m) /\ m \in Mates(n)
         /\ \A n \in Messages : Root(n) = Root(m) => n \in Mates(m)
         /\ modified[m] \in Nat /\ fetched[m] \in Nat /\ page[m] \in Nat
  BY <1>0, ChainFacts, Positive
<1>3. PICK r \in Messages : \E l \in Chain(r) :
              /\ page[l] > 0 /\ \A n \in Messages : page[n] <= page[l]
              /\ \/ /\ since > 0 /\ page[l] <= since
                    /\ pc' = "merge" /\ page' = Nothing /\ UNCHANGED <<fetched, truncated>>
                 \/ /\ \A m \in Messages : fetched'[m] = IF Root(m) = r THEN page[m] ELSE fetched[m]
                    /\ \/ since = 0 /\ truncated' /\ page' = Nothing /\ pc' = "merge"
                       \/ /\ ~truncated'
                          /\ \A m \in Messages : page'[m] = IF Root(m) = r THEN 0 ELSE page[m]
                          /\ \/ page' # Nothing /\ pc' = "chains"
                             \/ page' = Nothing /\ pc' = IF more THEN "fetch" ELSE "merge"
  BY ChainTaken
<1>4. PICK l \in Chain(r) :
              /\ page[l] > 0 /\ \A n \in Messages : page[n] <= page[l]
              /\ \/ /\ since > 0 /\ page[l] <= since
                    /\ pc' = "merge" /\ page' = Nothing /\ UNCHANGED <<fetched, truncated>>
                 \/ /\ \A m \in Messages : fetched'[m] = IF Root(m) = r THEN page[m] ELSE fetched[m]
                    /\ \/ since = 0 /\ truncated' /\ page' = Nothing /\ pc' = "merge"
                       \/ /\ ~truncated'
                          /\ \A m \in Messages : page'[m] = IF Root(m) = r THEN 0 ELSE page[m]
                          /\ \/ page' # Nothing /\ pc' = "chains"
                             \/ page' = Nothing /\ pc' = IF more THEN "fetch" ELSE "merge"
  BY <1>3
<1>5. l \in Messages /\ Root(l) = r  BY DEF Chain
<1>6. \A m \in Messages : ~ (Nothing[m] > 0) /\ Nothing[m] = 0  BY DEF Nothing
<1>7. /\ \A m \in Messages : page'[m] \in {0, page[m]} /\ fetched'[m] \in {page[m], fetched[m]}
      /\ \A m \in Messages : fetched[m] > 0 => fetched'[m] > 0
  <2>1. \A m \in Messages : fetched[m] > 0 => Root(m) # r  BY <1>0, <1>2, <1>4, <1>5 DEF PageOK
  <2> QED  BY <1>4, <1>6, <2>1
<1>8. \A m \in Messages : Fresh(modified[m]) => Fresh(modified[m])'
  <2> SUFFICES ASSUME NEW m \in Messages, Fresh(modified[m]) PROVE Fresh(modified[m])'  OBVIOUS
  <2>1. PICK x \in Nat : x = modified[m] /\ x = modified'[m]  BY <1>1, <1>2
  <2>2. Fresh(x)  BY <2>1
  <2>3. \A n \in Messages : fetched'[n] < x /\ page'[n] < x
    <3> SUFFICES ASSUME NEW n \in Messages PROVE fetched'[n] < x /\ page'[n] < x  OBVIOUS
    <3>1. fetched[n] < x /\ page[n] < x  BY <2>2 DEF Fresh
    <3>2. 0 < x  BY <1>2, <3>1
    <3> QED  BY <1>7, <3>1, <3>2
  <2>4. Fresh(x)'  BY <1>0, <1>1, <2>2, <2>3, FreshStays
  <2> QED  BY <2>1, <2>4 DEF Fresh
\* What is known of the chains at hand.
<1>9. \A m \in Messages :
         /\ page[m] > 0 \/ fetched[m] > 0 => ConversationOf[m] = Cur
         /\ \A n \in Mates(m) : page[n] > 0 => page[m] = modified[m] \/ Fresh(modified[m])'
         /\ \A n \in Mates(m) : fetched[n] > 0 => fetched[m] = modified[m] \/ Fresh(modified[m])'
  BY <1>0, <1>8 DEF Whole
<1>10. CASE since > 0 /\ page[l] <= since /\ pc' = "merge" /\ page' = Nothing
            /\ UNCHANGED <<fetched, truncated>>
  <2>1. \A m \in Messages : fetched'[m] = fetched[m] /\ page'[m] = 0  BY <1>6, <1>10
  <2>2. Whole(fetched)' /\ Whole(page)'  BY <1>1, <1>2, <1>9, <2>1 DEF Whole
  <2>3. before <= since
    <3>1. PICK k \in Mates(l) : before <= page[k]  BY <1>0, <1>4, <1>5 DEF Above
    <3>2. k \in Messages /\ page[k] <= page[l]  BY <1>2, <1>4, <1>5
    <3> QED  BY <1>0, <1>2, <1>5, <1>10, <3>1, <3>2
  <2>4. Covered'
    <3> SUFFICES ASSUME NEW m \in In(Cur)
                 PROVE  \/ \A n \in Mates(m) : modified[n] <= since
                        \/ \E n \in Mates(m) : fetched[n] > 0 \/ Fresh(modified[n])'
      BY <1>1, <1>2, <1>10, <2>1 DEF Covered, In
    <3>0. m \in Messages  BY DEF In
    <3>1. CASE \E n \in Mates(m) : page[n] > 0
      <4>1. \A n \in Mates(m) : page[n] = modified[n] \/ Fresh(modified[n])'
        BY <1>2, <1>9, <3>0, <3>1
      <4>2. \A n \in Mates(m) : page[n] <= since  BY <1>0, <1>2, <1>4, <1>5, <1>10, <3>0
      <4> QED  BY <4>1, <4>2
    <3>2. CASE ToCome(m)
      BY <1>0, <1>2, <2>3, <3>0, <3>2 DEF ToCome
    <3>3. CASE \E n \in Mates(m) : fetched[n] > 0 \/ Fresh(modified[n])
      BY <1>2, <1>8, <3>0, <3>3
    <3>4. CASE \A n \in Mates(m) : modified[n] <= since  BY <3>4
    <3> QED  BY <1>0, <3>1, <3>2, <3>3, <3>4 DEF Covered
  <2> QED  BY <1>1, <1>10, <2>2, <2>4 DEF FetchOK
<1>11. CASE /\ \A m \in Messages : fetched'[m] = IF Root(m) = r THEN page[m] ELSE fetched[m]
            /\ \/ since = 0 /\ truncated' /\ page' = Nothing /\ pc' = "merge"
               \/ /\ ~truncated'
                  /\ \A m \in Messages : page'[m] = IF Root(m) = r THEN 0 ELSE page[m]
                  /\ \/ page' # Nothing /\ pc' = "chains"
                     \/ page' = Nothing /\ pc' = IF more THEN "fetch" ELSE "merge"
  <2>0. \A m \in Messages : page'[m] = 0 \/ (page'[m] = page[m] /\ Root(m) # r)
    BY <1>6, <1>11
  <2>1. Whole(fetched)'
    <3> SUFFICES ASSUME NEW m \in Messages
                 PROVE  /\ fetched'[m] > 0 => ConversationOf[m] = Cur
                        /\ (\E n \in Mates(m) : fetched'[n] > 0)
                              => fetched'[m] = modified[m] \/ Fresh(modified[m])'
      BY <1>1 DEF Whole
    <3>1. CASE Root(m) = r
      <4>1. fetched'[m] = page[m] /\ \A n \in Mates(m) : fetched'[n] = page[n]
        BY <1>2, <1>11, <3>1
      <4> QED  BY <1>9, <4>1
    <3>2. CASE Root(m) # r
      <4>1. fetched'[m] = fetched[m] /\ \A n \in Mates(m) : fetched'[n] = fetched[n]
        BY <1>2, <1>11, <3>2
      <4> QED  BY <1>9, <4>1
    <3> QED  BY <3>1, <3>2
  <2>2. Whole(page)'
    <3> SUFFICES ASSUME NEW m \in Messages
                 PROVE  /\ page'[m] > 0 => ConversationOf[m] = Cur
                        /\ (\E n \in Mates(m) : page'[n] > 0)
                              => page'[m] = modified[m] \/ Fresh(modified[m])'
      BY <1>1 DEF Whole
    <3>1. page'[m] > 0 => ConversationOf[m] = Cur  BY <1>9, <2>0
    <3>2. ASSUME NEW n \in Mates(m), page'[n] > 0
          PROVE  page'[m] = modified[m] \/ Fresh(modified[m])'
      <4>1. n \in Messages /\ Root(n) = Root(m)  BY <1>2
      <4>2. page'[n] = page[n] /\ Root(n) # r /\ page' # Nothing  BY <1>6, <2>0, <3>2, <4>1
      <4>3. page'[m] = page[m]  BY <1>11, <4>1, <4>2
      <4> QED  BY <1>9, <3>2, <4>2, <4>3
    <3> QED  BY <3>1, <3>2
  \* Which is above what follows in the listing.
  <2>3. \A m \in Messages : fetched'[m] > 0 => \E k \in Mates(m) : before <= fetched'[k]
    <3> SUFFICES ASSUME NEW m \in Messages, fetched'[m] > 0
                 PROVE  \E k \in Mates(m) : before <= fetched'[k]
      OBVIOUS
    <3>1. CASE Root(m) = r
      <4>1. PICK k \in Mates(m) : before <= page[k]  BY <1>0, <1>11, <3>1 DEF Above
      <4> QED  BY <1>2, <1>11, <3>1, <4>1
    <3>2. CASE Root(m) # r
      <4>1. PICK k \in Mates(m) : before <= fetched[k]  BY <1>0, <1>11, <3>2 DEF Above
      <4> QED  BY <1>2, <1>11, <3>2, <4>1
    <3> QED  BY <3>1, <3>2
  \* And above what is left of the page.
  <2>4. \A m, n \in Messages : fetched'[m] > 0 /\ page[n] > 0 /\ Root(n) # r =>
           \E k \in Mates(m) : \A j \in Mates(n) : page[j] < fetched'[k]
    <3> SUFFICES ASSUME NEW m \in Messages, NEW n \in Messages,
                        fetched'[m] > 0, page[n] > 0, Root(n) # r
                 PROVE  \E k \in Mates(m) : \A j \in Mates(n) : page[j] < fetched'[k]
      OBVIOUS
    <3>1. CASE Root(m) = r
      <4>1. l \in Mates(m) /\ fetched'[l] = page[l]  BY <1>2, <1>5, <1>11, <3>1
      <4>2. \A j \in Mates(n) : page[j] < page[l]
        <5> SUFFICES ASSUME NEW j \in Mates(n) PROVE page[j] < page[l]  OBVIOUS
        <5>1. j \in Messages /\ j # l  BY <1>2, <1>5, <3>1
        <5>2. page[j] # page[l]  BY <1>0, <1>4, <1>5, <5>1 DEF PageOK
        <5> QED  BY <1>2, <1>4, <1>5, <5>1, <5>2
      <4> QED  BY <4>1, <4>2
    <3>2. CASE Root(m) # r
      <4>1. PICK k \in Mates(m) : \A j \in Mates(n) : page[j] < fetched[k]
        BY <1>0, <1>11, <3>2 DEF PageOK
      <4>2. fetched'[k] = fetched[k]  BY <1>2, <1>11, <3>2
      <4> QED  BY <4>1, <4>2
    <3> QED  BY <3>1, <3>2
  <2>5. Above(fetched)' BY <1>1, <2>3 DEF Above
  <2>6. pc' # "merge" => Above(page)'
    <3>1. \A m \in Messages : page'[m] > 0 => \E k \in Mates(m) : before <= page'[k]
      <4> SUFFICES ASSUME NEW m \in Messages, page'[m] > 0
                   PROVE  \E k \in Mates(m) : before <= page'[k]
        OBVIOUS
      <4>1. page'[m] = page[m] /\ Root(m) # r /\ page' # Nothing  BY <1>6, <2>0
      <4>2. PICK k \in Mates(m) : before <= page[k]  BY <1>0, <4>1 DEF Above
      <4>3. page'[k] = page[k]  BY <1>2, <1>11, <4>1
      <4> QED  BY <4>2, <4>3
    <3> QED  BY <1>1, <3>1 DEF Above
  <2>7. IF pc' = "chains" THEN PageOK' ELSE page' = Nothing
    <3>1. CASE pc' = "chains"
      <4>0. page' # Nothing /\ \A m \in Messages : page'[m] = IF Root(m) = r THEN 0 ELSE page[m]
        BY <1>11, <3>1
      <4>1. \E n \in Messages : page'[n] > 0
        <5>1. page' \in [Messages -> Stamps] => \E n \in Messages : page'[n] # 0
          BY <4>0 DEF Nothing
        <5>2. page' \in [Messages -> Stamps]  BY NextType DEF TypeOK, Next, Extractor
        <5>3. PICK n \in Messages : page'[n] # 0  BY <5>1, <5>2
        <5> QED  BY <1>2, <2>0, <5>3
      <4>2. \A m, n \in Messages : page'[m] = page'[n] /\ page'[m] > 0 => m = n
        BY <1>0, <4>0 DEF PageOK
      <4>3. \A m, n \in Messages : fetched'[m] > 0 /\ page'[n] > 0 =>
               n \notin Mates(m) /\ \E k \in Mates(m) : \A j \in Mates(n) : page'[j] < fetched'[k]
        <5> SUFFICES ASSUME NEW m \in Messages, NEW n \in Messages, fetched'[m] > 0, page'[n] > 0
                     PROVE  /\ n \notin Mates(m)
                            /\ \E k \in Mates(m) : \A j \in Mates(n) : page'[j] < fetched'[k]
          OBVIOUS
        <5>1. page[n] > 0 /\ Root(n) # r  BY <2>0
        <5>2. n \notin Mates(m)
          <6>1. CASE Root(m) = r  BY <1>2, <5>1, <6>1
          <6>2. CASE Root(m) # r  BY <1>0, <1>11, <5>1, <6>2 DEF PageOK
          <6> QED  BY <6>1, <6>2
        <5>3. PICK k \in Mates(m) : \A j \in Mates(n) : page[j] < fetched'[k]  BY <2>4, <5>1
        <5>4. \A j \in Mates(n) : page'[j] = page[j]  BY <1>2, <4>0, <5>1
        <5> QED  BY <5>2, <5>3, <5>4
      <4>4. PageOK'  BY <1>1, <4>1, <4>2, <4>3 DEF PageOK
      <4> QED  BY <3>1, <4>4
    <3>2. CASE pc' # "chains"  BY <1>11, <3>2
    <3> QED  BY <3>1, <3>2
  <2>8. Covered'
    <3> SUFFICES ASSUME NEW m \in In(Cur)
                 PROVE  \/ \A n \in Mates(m) : modified[n] <= since
                        \/ \E n \in Mates(m) : fetched'[n] > 0 \/ page'[n] > 0 \/ Fresh(modified[n])'
                        \/ IF pc' = "merge" THEN CutOffBelow(m)' ELSE ToCome(m)'
      BY <1>1, <1>2 DEF Covered, In
    <3>0. m \in Messages /\ Mates(m) \subseteq Messages  BY <1>2 DEF In
    <3>1. CASE \A n \in Mates(m) : modified[n] <= since  BY <3>1
    <3>2. CASE \E n \in Mates(m) : fetched[n] > 0 \/ Fresh(modified[n])
      BY <1>7, <1>8, <3>0, <3>2
    <3>3. CASE \E n \in Mates(m) : page[n] > 0 /\ Root(n) = r
      BY <1>11, <3>0, <3>3
    <3>4. ASSUME NEW n \in Mates(m), page[n] > 0, Root(n) # r
          PROVE  \/ \E k \in Mates(m) : page'[k] > 0 \/ Fresh(modified[k])'
                 \/ pc' = "merge" /\ CutOffBelow(m)'
      <4>1. n \in Messages /\ Mates(n) = Mates(m)  BY <1>2, <3>0
      <4>2. CASE pc' = "merge" /\ truncated'
        <5> SUFFICES ASSUME \A k \in Mates(m) : ~ Fresh(modified[k])'
                     PROVE  CutOffBelow(m)'
          BY <4>2
        <5>1. \A k \in Mates(m) : page[k] = modified[k]  BY <1>2, <1>9, <3>0, <3>4
        <5>2. \A j \in Messages : fetched'[j] > 0 =>
                 \E k \in Mates(j) : \A i \in Mates(m) : modified[i] < fetched'[k]
          BY <2>4, <3>4, <4>1, <5>1
        <5> QED  BY <1>1, <4>2, <5>2 DEF CutOffBelow
      <4>3. CASE ~ (pc' = "merge" /\ truncated')
        <5>1. page'[n] = page[n]  BY <1>11, <3>4, <4>1, <4>3
        <5> QED  BY <3>4, <5>1
      <4> QED  BY <4>2, <4>3
    <3>5. CASE ToCome(m)
      <4>1. more /\ \A n \in Mates(m) : modified[n] < before  BY <1>0, <3>5 DEF ToCome
      <4>2. CASE pc' # "merge"  BY <1>1, <4>1, <4>2 DEF ToCome
      <4>3. CASE pc' = "merge"
        <5>1. truncated'  BY <1>11, <4>1, <4>3
        <5>2. \A j \in Messages : fetched'[j] > 0 =>
                 \E k \in Mates(j) : \A i \in Mates(m) : modified[i] < fetched'[k]
          <6> SUFFICES ASSUME NEW j \in Messages, fetched'[j] > 0
                       PROVE  \E k \in Mates(j) : \A i \in Mates(m) : modified[i] < fetched'[k]
            OBVIOUS
          <6>1. PICK k \in Mates(j) : before <= fetched'[k]  BY <2>3
          <6>2. k \in Messages /\ fetched'[k] \in Nat  BY <1>2, <1>7
          <6> QED  BY <1>0, <1>2, <3>0, <4>1, <6>1, <6>2
        <5> QED  BY <1>1, <4>3, <5>1, <5>2 DEF CutOffBelow
      <4> QED  BY <4>2, <4>3
    <3> QED  BY <1>0, <1>2, <3>0, <3>1, <3>2, <3>3, <3>4, <3>5 DEF Covered
  <2>9. since' = 0 \/ since' = state'.watermark[Cur']  BY <1>1 DEF FetchOK
  <2>10. pc' # "merge" => ~truncated'  BY <1>11
  <2> QED  BY <2>1, <2>2, <2>5, <2>6, <2>7, <2>8, <2>9, <2>10 DEF FetchOK
<1> QED  BY <1>4, <1>10, <1>11
-----------------------------------------------------------------------------
(* The stores and what shows them *)

\* A run reads what is of the conversation in hand, and holds nothing between two.
ReadsOne ==
    /\ pc \in {"fetch", "chains", "merge"} =>
          \A m \in Messages : fetched[m] > 0 \/ page[m] > 0 => ConversationOf[m] = Cur
    /\ pc \in {"idle", "begin", "commit"} => fetched = Nothing /\ page = Nothing

StoreInv == TypeOK /\ FilesOK /\ ReadsOne

LEMMA EmptyHanded ==
    ASSUME Ended \/ ToNext
    PROVE  pc' \in {"idle", "begin", "commit"} /\ fetched' = Nothing /\ page' = Nothing
BY DEF Ended, ToNext

LEMMA ReadsStep ==
    ASSUME TypeOK, ReadsOne, [Next]_vars
    PROVE  ReadsOne'
<1> USE DEF ReadsOne
<1>0. /\ extractor \in Extractors /\ modified \in [Messages -> Stamps]
      /\ fetched \in [Messages -> Stamps] /\ page \in [Messages -> Stamps]
      /\ \A m \in Messages : Nothing[m] = 0
  BY DEF TypeOK, Nothing
<1>1. ASSUME NEW m \in Messages, Change(m) PROVE ReadsOne'
  BY <1>1 DEF Change, run, fetch, Cur
<1>2. ASSUME NEW c \in Places, LoseStore(c) PROVE ReadsOne'
  BY <1>2 DEF LoseStore, run, fetch, Cur
<1>3. CASE Start
  BY <1>3 DEF Start, fetch
<1>4. CASE Begin
  BY <1>0, <1>4 DEF Begin, Cur
<1>5. CASE FetchPage \/ FetchRoots
  <2>1. ReadPage /\ Cur' = Cur /\ pc = "fetch" /\ pc' \in {"fetch", "chains", "merge"}
    BY <1>5 DEF FetchPage, FetchRoots, Cur
  <2>2. \A r \in Shown : r \in Listed  BY <2>1, PageFacts
  <2>3. \A m \in Messages : ConversationOf[Root(m)] = ConversationOf[m]  BY <1>0, ChainFacts
  <2>4. \A m \in Messages : Snapshot[m] # 0 => ConversationOf[m] = Cur
    BY <2>2, <2>3 DEF Snapshot, Listed
  <2>5. Snapshot \in [Messages -> Stamps]  BY <1>0, StampFacts DEF Snapshot
  <2>6. CASE FetchRoots
    <3>1. page' = Snapshot /\ fetched' = fetched  BY <2>6 DEF FetchRoots
    <3>2. \A m \in Messages : Snapshot[m] > 0 => Snapshot[m] # 0  BY <2>5, Positive
    <3> QED  BY <2>1, <2>4, <3>1, <3>2
  <2>7. CASE FetchPage
    <3>1. page' = page /\ \A m \in Messages : fetched'[m] = Max({fetched[m], Snapshot[m]})
      BY <2>7 DEF FetchPage
    <3>2. \A m \in Messages : fetched'[m] \in {fetched[m], Snapshot[m]}
      <4> SUFFICES ASSUME NEW m \in Messages PROVE fetched'[m] \in {fetched[m], Snapshot[m]}
        OBVIOUS
      <4>1. fetched[m] \in Stamps /\ Snapshot[m] \in Stamps  BY <1>0, <2>5
      <4>2. Max({fetched[m], Snapshot[m]}) \in {fetched[m], Snapshot[m]}  BY <4>1, Later
      <4> QED  BY <3>1, <4>2
    <3>3. \A m \in Messages : Snapshot[m] > 0 => Snapshot[m] # 0  BY <2>5, Positive
    <3> QED  BY <2>1, <2>4, <3>1, <3>2, <3>3
  <2> QED  BY <1>5, <2>6, <2>7
<1>6. CASE FetchChain
  <2>1. PICK r \in Chains(page) :
          LET chain == [m \in Messages |->
                          CASE Root(m) # r -> 0
                            [] Root(m) = r /\ m \in Late -> modified[m]
                            [] OTHER -> page[m]]
              with == [m \in Messages |-> Max({fetched[m], chain[m]})]
              rest == [m \in Messages |-> IF Root(m) = r THEN 0 ELSE page[m]]
          IN  IF AtTheWatermark(ChainModified(r, chain))
              THEN pc' = "merge" /\ page' = Nothing /\ UNCHANGED <<fetched, truncated>>
              ELSE /\ fetched' = with /\ truncated' = Enough(with)
                   /\ page' = IF Enough(with) THEN Nothing ELSE rest
                   /\ pc' = CASE Enough(with) -> "merge"
                              [] ~Enough(with) /\ rest # Nothing -> "chains"
                              [] OTHER -> IF more THEN "fetch" ELSE "merge"
    BY <1>6 DEF FetchChain
  <2> DEFINE chain == [m \in Messages |->
                          CASE Root(m) # r -> 0
                            [] Root(m) = r /\ m \in Late -> modified[m]
                            [] OTHER -> page[m]]
             with == [m \in Messages |-> Max({fetched[m], chain[m]})]
             rest == [m \in Messages |-> IF Root(m) = r THEN 0 ELSE page[m]]
  <2>2. \A m \in Messages : chain[m] \in {0, modified[m], page[m]} /\ (Root(m) # r => chain[m] = 0)
    OBVIOUS
  <2>3. \A m \in Messages : rest[m] \in {0, page[m]}  OBVIOUS
  <2>4. \A m \in Messages : with[m] = Max({fetched[m], chain[m]})  OBVIOUS
  <2> HIDE DEF chain
  <2>5. \/ pc' = "merge" /\ page' = Nothing /\ fetched' = fetched
        \/ fetched' = with /\ page' \in {Nothing, rest} /\ pc' \in {"merge", "chains", "fetch"}
    BY <2>1 DEF chain
  <2> HIDE DEF with, rest
  <2>6. \A m \in Messages : with[m] \in {fetched[m], chain[m]}
    <3> SUFFICES ASSUME NEW m \in Messages PROVE with[m] \in {fetched[m], chain[m]}  OBVIOUS
    <3>1. fetched[m] \in Stamps /\ chain[m] \in Stamps  BY <1>0, <2>2, StampFacts
    <3>2. Max({fetched[m], chain[m]}) \in {fetched[m], chain[m]}  BY <3>1, Later
    <3> QED  BY <2>4, <3>2
  <2>7. \A m \in Messages : Root(m) = r => ConversationOf[m] = Cur
    <3>1. r \in Messages /\ Root(r) = r /\ ChainModified(r, page) > 0
      BY <1>0, ChainsAreRoots DEF Chains
    <3>2. PICK k \in Mates(r) : page[k] = ChainModified(Root(r), page)  BY <1>0, <3>1, TopOf
    <3>3. k \in Messages /\ page[k] > 0 /\ ConversationOf[k] = ConversationOf[r]
      BY <1>0, <3>1, <3>2, ChainFacts
    <3>4. ConversationOf[k] = Cur  BY <1>6, <3>3 DEF FetchChain
    <3>5. \A m \in Messages : ConversationOf[Root(m)] = ConversationOf[m]  BY <1>0, ChainFacts
    <3> QED  BY <3>3, <3>4, <3>5
  <2>8. \A m \in Messages : chain[m] > 0 => Root(m) = r  BY <2>2
  <2>9. pc = "chains" /\ Cur' = Cur /\ pc' \in {"fetch", "chains", "merge"}
    BY <1>6, <2>5 DEF FetchChain, Cur
  <2> QED  BY <1>0, <2>3, <2>5, <2>6, <2>7, <2>8, <2>9
<1>7. CASE Unreachable \/ Skip \/ Render \/ Commit \/ Abort \/ TornSave
  <2>1. Ended \/ ToNext
    BY <1>7 DEF Unreachable, Skip, Render, Commit, Abort, TornSave, CutOff
  <2> QED  BY <2>1, EmptyHanded
<1>8. CASE Merge
  <2>1. pc' = "render" \/ ToNext  BY <1>8 DEF Merge
  <2> QED  BY <2>1, EmptyHanded
<1>9. CASE UNCHANGED vars
  BY <1>9 DEF vars, run, fetch, Cur
<1> QED
  BY <1>1, <1>2, <1>3, <1>4, <1>5, <1>6, <1>7, <1>8, <1>9 DEF Next, Extractor

LEMMA StoreInvariant == Spec => []StoreInv
<1>1. Init => StoreInv
  <2> SUFFICES ASSUME Init PROVE StoreInv  OBVIOUS
  <2>1. TypeOK  BY InitType
  <2>2. \A m \in Messages : Nothing[m] = 0  BY DEF Nothing
  <2>3. FilesOK  BY <2>2 DEF Init, FilesOK, NoState, In
  <2>4. ReadsOne  BY DEF Init, ReadsOne
  <2> QED  BY <2>1, <2>3, <2>4 DEF StoreInv
<1>2. StoreInv /\ [Next]_vars => StoreInv'
  <2> SUFFICES ASSUME StoreInv, [Next]_vars PROVE StoreInv'  OBVIOUS
  <2>1. TypeOK /\ FilesOK /\ ReadsOne  BY DEF StoreInv
  <2>2. pc = "merge" => OfTheOneInHand  BY <2>1 DEF ReadsOne, OfTheOneInHand
  <2>3. TypeOK'  BY <2>1, NextType
  <2>4. FilesOK'  BY <2>1, <2>2, FilesStep
  <2>5. ReadsOne'  BY <2>1, ReadsStep
  <2> QED  BY <2>3, <2>4, <2>5 DEF StoreInv
<1> QED  BY <1>1, <1>2, PTL DEF Spec

\* Every variable keeps its type, whatever fails, dies or is deleted.
THEOREM TeamsTypeCorrect == Spec => []TypeOK
<1>1. StoreInv => TypeOK  BY DEF StoreInv
<1> QED  BY <1>1, StoreInvariant, PTL

\* A store that nobody deleted is there when its watermark is (_resolve_watermark would
\* fetch its history again), and messages.md shows it and the map leads there, unless a
\* run was cut off after the last rendering (write_chat, _write_channel).
THEOREM StoresVouch == Spec => []StoreVouches
<1>1. StoreInv => StoreVouches
  <2> SUFFICES ASSUME TypeOK, FilesOK PROVE StoreVouches  BY DEF StoreInv
  <2>1. FileMatchesWatermark
    <3> SUFFICES ASSUME losses = 0, NEW c \in Places, stored.watermark[c] > 0
                 PROVE  storeFile[c] # "missing"
      BY DEF FileMatchesWatermark
    <3>1. stored.watermark[c] # 0  OBVIOUS
    <3> QED  BY <3>1 DEF FilesOK
  <2>2. RenderedIsTheStore  BY DEF FilesOK, RenderedIsTheStore
  <2> QED  BY <2>1, <2>2 DEF StoreVouches
<1> QED  BY <1>1, StoreInvariant, PTL
-----------------------------------------------------------------------------
(* The watermark *)

LEMMA ZeroVouches ==
    ASSUME TypeOK, NEW mark, \A c \in Places : mark[c] = 0
    PROVE  Vouched(mark)
<1>1. \A m \in Posted : m \in Mates(m) /\ ConversationOf[m] \in Places /\ modified[m] > 0
                        /\ modified[m] \in Nat
  BY ChainFacts, Positive DEF TypeOK, Posted
<1>2. \A m \in Posted : ~ (modified[m] <= mark[ConversationOf[m]])  BY <1>1
<1> QED  BY <1>1, <1>2 DEF Vouched

LEMMA StampsStay ==
    ASSUME StampsOK, UNCHANGED <<modified, stored>>, state'.watermark = state.watermark
    PROVE  StampsOK'
BY DEF StampsOK, Now

LEMMA FetchStays ==
    ASSUME FetchOK, UNCHANGED <<extractor, modified, stored, state, run>>
    PROVE  FetchOK'
<1>1. /\ UNCHANGED <<pc, at, since, before, page, more, fetched, truncated>>
      /\ Cur' = Cur /\ In(Cur)' = In(Cur) /\ \A m : Mates(m)' = Mates(m)
  BY RootsStay DEF run, fetch, Cur, In
<1>2. \A x : Fresh(x)' <=> Fresh(x)  BY <1>1 DEF Fresh
<1>3. Whole(fetched)' /\ Whole(page)'  BY <1>1, <1>2 DEF FetchOK, Whole
<1>4. Covered'  BY <1>1, <1>2 DEF FetchOK, Covered, CutOffBelow, ToCome
<1>5. pc' # "merge" => Above(fetched)' /\ Above(page)'  BY <1>1 DEF FetchOK, Above
<1>6. IF pc' = "chains" THEN PageOK' ELSE page' = Nothing
  BY <1>1 DEF FetchOK, PageOK, IsChat
<1> QED  BY <1>1, <1>3, <1>4, <1>5, <1>6 DEF FetchOK

\* What the merge says was read up to is not ahead of the conversations, and below
\* whatever came after the listing.
LEMMA AdvanceIsRead ==
    ASSUME WatermarkInv, Merge
    PROVE  /\ \A c \in Places : Advanced.watermark[c] <= Now
           /\ \A n \in Messages : Fresh(modified[n]) => ~ (modified[n] <= Advanced.watermark[Cur])
<1>0. /\ TypeOK /\ FetchOK /\ StampsOK /\ Cur \in Places /\ since \in Nat /\ pc = "merge"
      /\ state.watermark[Cur] \in Nat /\ Now \in Nat
      /\ \A n \in Messages : fetched[n] \in Nat /\ modified[n] \in Nat
  <2>1. TypeOK /\ FetchOK /\ StampsOK /\ pc = "merge"  BY DEF WatermarkInv, Merge
  <2>2. Cur \in Places /\ since \in Nat  BY <2>1, CurIsThere, StampFacts DEF TypeOK
  <2>3. state.watermark[Cur] \in Nat  BY <2>1, <2>2, StampFacts DEF TypeOK, States
  <2>4. Now \in Nat  BY <2>1, NowFacts, StampFacts DEF TypeOK
  <2>5. \A n \in Messages : fetched[n] \in Nat /\ modified[n] \in Nat
    BY <2>1, Positive DEF TypeOK
  <2> QED  BY <2>1, <2>2, <2>3, <2>4, <2>5
<1>1. since = 0 \/ since = state.watermark[Cur]  BY <1>0 DEF FetchOK
<1>2. \/ Advanced.watermark[Cur] = state.watermark[Cur] \/ Advanced.watermark[Cur] = 0
      \/ \E m \in Messages : Advanced.watermark[Cur] = fetched[m]
  BY <1>0, <1>1, AdvanceFacts
<1>3. \A c \in Places : Advanced.watermark[c] <= Now
  <2>1. Advanced.watermark[Cur] <= Now
    BY <1>0, <1>2, ReadByNow DEF StampsOK
  <2>2. \A c \in Places \ {Cur} : Advanced.watermark[c] <= Now
    BY <1>0, AdvanceFacts DEF StampsOK
  <2> QED  BY <2>1, <2>2
<1>4. \A n \in Messages : Fresh(modified[n]) => ~ (modified[n] <= Advanced.watermark[Cur])
  <2> SUFFICES ASSUME NEW n \in Messages, Fresh(modified[n])
               PROVE  ~ (modified[n] <= Advanced.watermark[Cur])
    OBVIOUS
  <2>1. state.watermark[Cur] < modified[n] /\ \A m \in Messages : fetched[m] < modified[n]
    BY DEF Fresh
  <2> QED  BY <1>0, <1>2, <2>1
<1> QED  BY <1>3, <1>4

LEMMA WatermarkStep ==
    ASSUME NoReplyPages, WatermarkInv, [Next]_vars
    PROVE  WatermarkInv'
<1>0. /\ TypeOK /\ StampsOK /\ Vouched(stored.watermark) /\ Vouched(state.watermark)
      /\ pc \in {"idle", "begin", "commit"} => fetched = Nothing /\ page = Nothing /\ ~truncated
      /\ pc \in {"fetch", "chains", "merge"} => FetchOK
      /\ stored \in States /\ state \in States
  BY DEF WatermarkInv, TypeOK
<1>1. TypeOK'  BY <1>0, NextType
<1>2. PICK old, mark : /\ old = stored.watermark /\ mark = state.watermark
                       /\ Vouched(old) /\ Vouched(mark)
                       /\ old \in [Places -> Stamps] /\ mark \in [Places -> Stamps]
  BY <1>0 DEF States
<1>3. \A c \in Places : NoState.watermark[c] = 0  BY DEF NoState
\* A step that leaves the stores and the watermarks alone.
<1>4. ASSUME UNCHANGED <<extractor, modified, storeFile, kept, floor, gutted, stored>>,
             state'.watermark = state.watermark
      PROVE  StampsOK' /\ Vouched(stored.watermark)' /\ Vouched(state.watermark)'
  <2>1. Vouched(old)' /\ Vouched(mark)'  BY <1>2, <1>4, VouchedStays
  <2>2. stored'.watermark = old /\ state'.watermark = mark  BY <1>2, <1>4
  <2> QED  BY <1>0, <1>4, <2>1, <2>2, StampsStay DEF Vouched
<1>5. ASSUME Ended \/ ToNext
      PROVE  /\ pc' \in {"idle", "begin", "commit"}
             /\ fetched' = Nothing /\ page' = Nothing /\ ~truncated'
  BY <1>5 DEF Ended, ToNext
<1>6. ASSUME NEW m \in Messages, Change(m) PROVE WatermarkInv'
  <2>1. /\ UNCHANGED <<stored, state, pc, fetched, page, truncated>>
        /\ stored'.watermark = old /\ state'.watermark = mark
    BY <1>2, <1>6 DEF Change, run, fetch
  <2>2. Vouched(old)' /\ Vouched(mark)'
    BY <1>0, <1>2, <1>6, ChangeKeepsVouched DEF StampsOK
  <2>3. StampsOK'
    <3>1. /\ modified'[m] = Now + 1 /\ Now \in Nat /\ Now' \in Nat /\ Now + 1 <= Now'
          /\ \A n \in Messages \ {m} : modified'[n] = modified[n] /\ modified[n] <= Now
          /\ \A n \in Messages : modified[n] \in Nat
      BY <1>0, <1>6, ChangeStamps DEF TypeOK
    <3>2. \A k, n \in Messages : modified'[k] = modified'[n] /\ modified'[k] > 0 => k = n
      <4> SUFFICES ASSUME NEW k \in Messages, NEW n \in Messages, k # n,
                          modified'[k] = modified'[n], modified'[k] > 0
                   PROVE  FALSE
        OBVIOUS
      <4>1. CASE k = m  BY <3>1, <4>1
      <4>2. CASE n = m  BY <3>1, <4>2
      <4>3. CASE k # m /\ n # m  BY <1>0, <3>1, <4>3 DEF StampsOK
      <4> QED  BY <4>1, <4>2, <4>3
    <3>3. \A c \in Places : stored'.watermark[c] <= Now' /\ state'.watermark[c] <= Now'
      <4> SUFFICES ASSUME NEW c \in Places PROVE old[c] <= Now' /\ mark[c] <= Now'
        BY <2>1
      <4>1. old[c] <= Now /\ mark[c] <= Now /\ old[c] \in Nat /\ mark[c] \in Nat
        BY <1>0, <1>2, StampFacts DEF StampsOK
      <4> QED  BY <3>1, <4>1
    <3> QED  BY <3>2, <3>3 DEF StampsOK
  <2>4. pc' \in {"fetch", "chains", "merge"} => FetchOK'
    BY <1>0, <1>6, <2>1, ChangeKeepsFetch
  <2>5. Vouched(stored.watermark)' /\ Vouched(state.watermark)'  BY <2>1, <2>2 DEF Vouched
  <2> QED  BY <1>0, <1>1, <2>1, <2>3, <2>4, <2>5 DEF WatermarkInv
<1>7. ASSUME NEW c \in Places, LoseStore(c) PROVE WatermarkInv'
  <2>1. UNCHANGED <<extractor, modified, stored, state, run>>  BY <1>7 DEF LoseStore, run
  <2>2. Vouched(old)' /\ Vouched(mark)'  BY <1>0, <1>2, <1>7, LoseStoreKeepsVouched
  <2>3. Vouched(stored.watermark)' /\ Vouched(state.watermark)'
    BY <1>2, <2>1, <2>2 DEF Vouched
  <2>4. StampsOK'  BY <1>0, <2>1, StampsStay
  <2>5. UNCHANGED <<pc, fetched, page, truncated>>  BY <2>1 DEF run, fetch
  <2>6. pc' \in {"fetch", "chains", "merge"} => FetchOK'  BY <1>0, <2>1, <2>5, FetchStays
  <2> QED  BY <1>0, <1>1, <2>3, <2>4, <2>5, <2>6 DEF WatermarkInv
<1>8. CASE Start
  <2>1. /\ pc = "idle" /\ pc' \in {"begin", "commit"} /\ state' = stored
        /\ UNCHANGED <<extractor, modified, stored, storeFile, kept, fetched, page, truncated,
                       floor, gutted>>
    BY <1>8 DEF Start, files, fetch, history
  <2>2. StampsOK'  BY <1>0, <2>1 DEF StampsOK, Now
  <2>3. Vouched(old)'  BY <1>2, <2>1, VouchedStays
  <2>4. Vouched(stored.watermark)' /\ Vouched(state.watermark)'
    BY <1>2, <2>1, <2>3 DEF Vouched
  <2> QED  BY <1>0, <1>1, <2>1, <2>2, <2>4 DEF WatermarkInv
<1>9. CASE Begin \/ FetchPage \/ FetchRoots \/ FetchChain
  <2>1. /\ UNCHANGED <<extractor, modified, storeFile, kept, floor, gutted, stored>>
        /\ state'.watermark = state.watermark
    BY <1>9 DEF Begin, FetchPage, FetchRoots, FetchChain, files, history
  <2>2. FetchOK'
    <3>1. CASE Begin
      BY <1>0, <3>1, BeginKeepsFetch DEF Begin
    <3>2. CASE FetchPage
      BY <1>0, <3>2, FetchPageKeeps DEF FetchPage
    <3>3. CASE FetchRoots
      BY <1>0, <3>3, FetchRootsKeeps DEF FetchRoots
    <3>4. CASE FetchChain
      BY <1>0, <3>4, FetchChainKeeps DEF FetchChain
    <3> QED  BY <1>9, <3>1, <3>2, <3>3, <3>4
  <2>3. pc' \notin {"idle", "begin", "commit"}
    BY <1>9 DEF Begin, FetchPage, FetchRoots, FetchChain
  <2> QED  BY <1>1, <1>4, <2>1, <2>2, <2>3 DEF WatermarkInv
<1>10. CASE Unreachable \/ Skip \/ Render
  <2>1. /\ UNCHANGED <<extractor, modified, storeFile, kept, floor, gutted, stored>>
        /\ state'.watermark = state.watermark /\ ToNext
    BY <1>0, <1>10, AdvanceFacts DEF Unreachable, Skip, Render, files, history, States
  <2> QED  BY <1>1, <1>4, <1>5, <2>1 DEF WatermarkInv
<1>11. CASE Merge
  <2>1. /\ UNCHANGED <<extractor, modified, stored>> /\ state' = Advanced /\ pc = "merge"
        /\ FetchOK /\ Cur \in Places
    BY <1>0, <1>11, CurIsThere DEF Merge
  <2>2. /\ \A c \in Places : Advanced.watermark[c] <= Now
        /\ \A n \in Messages : Fresh(modified[n]) => ~ (modified[n] <= Advanced.watermark[Cur])
    BY <1>11, AdvanceIsRead
  <2>3. StampsOK'
    BY <1>0, <2>1, <2>2 DEF StampsOK, Now
  <2>4. Vouched(old)'
    <3>1. \A n \in Messages : Fresh(modified[n]) => ~ (modified[n] <= old[Cur])
      <4> SUFFICES ASSUME NEW n \in Messages, Fresh(modified[n]) PROVE ~ (modified[n] <= old[Cur])
        OBVIOUS
      <4>1. old[Cur] < modified[n] /\ old[Cur] \in Nat /\ modified[n] \in Nat
        BY <1>0, <1>2, <2>1, Positive, StampFacts DEF Fresh, TypeOK
      <4> QED  BY <4>1
    <3> QED  BY <1>0, <1>2, <1>11, <2>1, <3>1, MergeVouches
  <2>5. PICK new : new = Advanced.watermark  OBVIOUS
  <2>6. /\ \A c \in Places \ {Cur} : new[c] = mark[c]
        /\ \/ new[Cur] = mark[Cur]
           \/ mark[Cur] = state.watermark[Cur] /\ (since = 0 \/ ~truncated)
    BY <1>0, <1>2, <2>1, <2>5, AdvanceFacts DEF Advances
  <2>7. \A n \in Messages : Fresh(modified[n]) => ~ (modified[n] <= new[Cur])
    BY <2>2, <2>5
  <2>8. Vouched(new)'  BY <1>0, <1>2, <1>11, <2>1, <2>6, <2>7, MergeVouches
  <2>9. Vouched(stored.watermark)' /\ Vouched(state.watermark)'
    BY <1>2, <2>1, <2>4, <2>5, <2>8 DEF Vouched
  <2>10. \/ pc' = "render"
         \/ pc' \in {"idle", "begin", "commit"} /\ fetched' = Nothing /\ page' = Nothing /\ ~truncated'
    BY <1>5, <1>11 DEF Merge
  <2> QED  BY <1>1, <2>3, <2>9, <2>10 DEF WatermarkInv
<1>12. CASE Commit \/ Abort \/ TornSave
  <2>1. /\ Ended /\ state' = NoState /\ UNCHANGED <<extractor, modified>>
        /\ stored' = IF Commit THEN state ELSE stored
    BY <1>12 DEF Commit, Abort, TornSave, CutOff, Ended
  <2>2. StampsOK'
    <3>1. Now' = Now /\ Now \in Nat  BY <1>0, <2>1, NowFacts, StampFacts DEF TypeOK, Now
    <3>2. \A c \in Places : stored'.watermark[c] <= Now /\ state'.watermark[c] <= Now
      BY <1>0, <1>3, <2>1, <3>1 DEF StampsOK
    <3> QED  BY <1>0, <2>1, <3>1, <3>2 DEF StampsOK
  <2>3. Vouched(old)' /\ Vouched(mark)'
    <3>1. CASE TornSave  BY <1>0, <1>2, <3>1, TornSaveKeepsVouched
    <3>2. CASE Commit \/ Abort
      <4>1. UNCHANGED <<extractor, modified, storeFile, kept, floor, gutted>>
        BY <3>2 DEF Commit, Abort, CutOff, files, history
      <4> QED  BY <1>2, <4>1, VouchedStays
    <3> QED  BY <1>12, <3>1, <3>2
  <2>4. Vouched(stored.watermark)'
    <3>1. stored'.watermark = mark \/ stored'.watermark = old  BY <1>2, <2>1
    <3> QED  BY <2>3, <3>1 DEF Vouched
  <2>5. PICK none : none = NoState.watermark  OBVIOUS
  <2>6. Vouched(none)'
    <3>1. \A c \in Places : none[c] = 0  BY <1>3, <2>5
    <3>2. \A m \in Messages : /\ m \in Mates(m) /\ Mates(m)' = Mates(m) /\ ConversationOf[m] \in Places
                              /\ modified'[m] = modified[m] /\ modified[m] \in Nat
      BY <1>0, <2>1, RootsStay, ChainFacts, Positive DEF TypeOK
    <3>3. \A m \in Posted' : m \in Messages /\ modified'[m] > 0  BY DEF Posted
    <3>4. \A m \in Posted' : ~ (modified'[m] <= none[ConversationOf[m]])  BY <3>1, <3>2, <3>3
    <3> QED  BY <3>2, <3>3, <3>4 DEF Vouched
  <2>7. Vouched(state.watermark)'  BY <2>1, <2>5, <2>6 DEF Vouched
  <2> QED  BY <1>1, <1>5, <2>1, <2>2, <2>4, <2>7 DEF WatermarkInv
<1>13. CASE UNCHANGED vars
  <2>1. /\ UNCHANGED <<extractor, modified, storeFile, kept, floor, gutted, stored, state, run>>
        /\ UNCHANGED <<pc, fetched, page, truncated>>
    BY <1>13 DEF vars, files, history, run, fetch
  <2>2. pc' \in {"fetch", "chains", "merge"} => FetchOK'  BY <1>0, <2>1, FetchStays
  <2> QED  BY <1>0, <1>1, <1>4, <2>1, <2>2 DEF WatermarkInv
<1> QED
  BY <1>6, <1>7, <1>8, <1>9, <1>10, <1>11, <1>12, <1>13 DEF Next, Extractor

LEMMA WatermarkInvariant ==
    ASSUME NoReplyPages
    PROVE  Spec => []WatermarkInv
<1>1. Init => WatermarkInv
  <2> SUFFICES ASSUME Init PROVE WatermarkInv  OBVIOUS
  <2>1. TypeOK  BY InitType
  <2>2. /\ modified = Nothing /\ stored = NoState /\ state = NoState /\ pc = "idle"
        /\ fetched = Nothing /\ page = Nothing /\ ~truncated
    BY DEF Init
  <2>3. \A c \in Places : stored.watermark[c] = 0 /\ state.watermark[c] = 0
    BY <2>2 DEF NoState
  <2>4. Vouched(stored.watermark) /\ Vouched(state.watermark)  BY <2>1, <2>3, ZeroVouches
  <2>5. Now \in Nat  BY <2>1, NowFacts, StampFacts DEF TypeOK
  <2>6. \A m \in Messages : modified[m] = 0  BY <2>2 DEF Nothing
  <2>7. StampsOK  BY <2>3, <2>5, <2>6 DEF StampsOK
  <2> QED  BY <2>1, <2>2, <2>4, <2>7 DEF WatermarkInv
<1>2. WatermarkInv /\ [Next]_vars => WatermarkInv'  BY WatermarkStep
<1> QED  BY <1>1, <1>2, PTL DEF Spec

\* "Never silently skips data" (_message_store.py): whatever a cap cut, whatever failed,
\* died or was deleted, and whatever changed while the listing was read, a change that no
\* fetch will ask for again is in the store, but for what the backfill's caps left out or
\* went with a store that was emptied under its watermark.  (A reply that comes by a reply
\* page can be newer than the listing it is read with: what follows does not hold of it.)
THEOREM NothingIsBehindTheWatermark ==
    ASSUME NoReplyPages
    PROVE  Spec => []NothingBehindTheWatermark
<1>1. WatermarkInv => NothingBehindTheWatermark
  <2> SUFFICES ASSUME TypeOK, Vouched(stored.watermark), NEW m \in Posted,
                      storeFile[ConversationOf[m]] = "ok", BehindTheWatermark(m)
               PROVE  InStore(m) \/ LeftOut(m)
    BY DEF WatermarkInv, NothingBehindTheWatermark
  <2> DEFINE c == ConversationOf[m]
             top == ChainModified(Root(m), modified)
  <2>1. /\ m \in Messages /\ m \in Mates(m) /\ c \in Places /\ Mates(m) \subseteq Messages
        /\ modified \in [Messages -> Stamps] /\ extractor \in Extractors
    BY ChainFacts DEF TypeOK, Posted
  <2>2. /\ top \in Nat /\ top <= stored.watermark[c] /\ stored.watermark[c] \in Nat
        /\ \A n \in Mates(m) : modified[n] <= top
        /\ \A n \in Messages : modified[n] \in Nat
    <3>1. top \in Stamps /\ \A n \in Mates(m) : modified[n] <= top  BY <2>1, TopOf
    <3>2. stored.watermark[c] \in Nat  BY <2>1, StampFacts DEF TypeOK, States
    <3>3. \A n \in Messages : modified[n] \in Nat  BY <2>1, StampFacts
    <3>4. top <= stored.watermark[c]  BY DEF BehindTheWatermark
    <3> QED  BY <3>1, <3>2, <3>3, <3>4, StampFacts
  <2> HIDE DEF top
  <2>3. \A n \in Mates(m) : modified[n] <= stored.watermark[c]  BY <2>1, <2>2
  <2>4. InStore(m) \/ modified[m] < floor[c] \/ c \in gutted  BY <2>3 DEF Vouched
  <2> QED  BY <2>1, <2>3, <2>4 DEF LeftOut
<1>2. Spec => []WatermarkInv  BY WatermarkInvariant
<1> QED  BY <1>1, <1>2, PTL
===============================================================================
