----------------------------- MODULE MirrorsProofs -----------------------------
(***************************************************************************)
(* Theorems about the mirrors of MCMirrors, for every set of items, events   *)
(* and attachments and every bound.  Each part keeps an invariant of its own, *)
(* and a step of one part leaves the state of the others alone.              *)
(***************************************************************************)
EXTENDS MCMirrors, FiniteSetTheorems, WellFoundedInduction, TLAPS

IsRecord(r, fields) == DOMAIN r = fields /\ r = [i \in fields |-> r[i]]
IsFunction(f) == f = [i \in DOMAIN f |-> f[i]]

LEMMA LeastOfNats ==
    ASSUME NEW S \in SUBSET Nat, S # {}
    PROVE  \E x \in S : \A y \in S : x <= y
<1>1. PICK x \in S : \A y \in S : ~ (<<y, x>> \in OpToRel(<, Nat))
  BY NatLessThanWellFounded, WFMin
<1>2. \A y \in S : x <= y
  <2> SUFFICES ASSUME NEW y \in S, ~ (x <= y) PROVE FALSE
    OBVIOUS
  <2>1. <<y, x>> \in OpToRel(<, Nat)
    BY DEF OpToRel
  <2> QED BY <1>1, <2>1
<1> QED BY <1>2

LEMMA GreatestOfNats ==
    ASSUME NEW S \in SUBSET Nat, S # {}, NEW k \in Nat, \A x \in S : x <= k
    PROVE  Max(S) \in S /\ \A x \in S : x <= Max(S)
<1> DEFINE gaps == {k - x : x \in S}
<1>1. gaps \in SUBSET Nat /\ gaps # {}
  <2>1. \A x \in S : k - x \in Nat
    OBVIOUS
  <2> QED BY <2>1
<1>2. PICK g \in gaps : \A y \in gaps : g <= y
  <2> HIDE DEF gaps
  <2> QED BY <1>1, LeastOfNats
<1>3. PICK x \in S : g = k - x
  OBVIOUS
<1>4. \A y \in S : x >= y
  <2> SUFFICES ASSUME NEW y \in S PROVE x >= y
    OBVIOUS
  <2>1. k - x <= k - y
    BY <1>2, <1>3
  <2> QED BY <2>1
<1> QED BY <1>4 DEF Max

-----------------------------------------------------------------------------
(* The calendar *)

Happenings == EventDocs \cup {Unmade, Deleted}
Entries == [event : Events, doc : EventDocs, ver : Nat \ {0}]
MapType == [Events -> Spots \cup {Nowhere}]
JobType(j) ==
    /\ IsRecord(j, {"pc", "map", "seen", "todo"}) /\ j.pc = "events"
    /\ j.map \in MapType /\ j.seen \in [Events -> Nat] /\ j.todo \subseteq Entries
CalendarTyped ==
    /\ event \in [Events -> Happenings]
    /\ version \in [Events -> Nat \ {0}]
    /\ IsRecord(state, {"known", "map"}) /\ state.known \in [Events -> Nat] /\ state.map \in MapType
    /\ page \in [Spots \X Events -> EventDocs \cup {Nowhere}]
    /\ job = Resting \/ JobType(job)

\* The entry and the page of an event are as it is.
Written(e, map) == map[e] = PlaceOf(event[e]) /\ page[<<PlaceOf(event[e]), e>>] = event[e]
Vouches(times, map) ==
    \A e \in Events : times[e] <= version[e] /\ (Exists(e) /\ times[e] = version[e] => Written(e, map))
\* What a run has before it: an event as it was at some time, which is now or
\* earlier, and not earlier than what is remembered of it.
ListedOnce(j) == \A c, d \in j.todo : c.event = d.event => c = d
Pending(j) ==
    \A c \in j.todo :
        /\ c.ver <= version[c.event] /\ (c.ver = version[c.event] => c.doc = event[c.event])
        /\ state.known[c.event] <= c.ver
        /\ j.seen[c.event] = 0 /\ j.map[c.event] = state.map[c.event]
CalendarInv ==
    /\ CalendarTyped
    /\ Vouches(state.known, state.map)
    /\ job # Resting => ListedOnce(job) /\ Pending(job) /\ Vouches(job.seen, job.map)

LEMMA CalendarStarts == CalendarInit => CalendarInv
  BY CalendarAssumption DEF CalendarInit, CalendarInv, CalendarTyped, IsRecord, Happenings, MapType, Vouches, Spots, Resting

\* An event moves on: what is known of it is of an earlier time.
LEMMA EditKeeps ==
    ASSUME CalendarInv, NEW e \in Events, NEW d \in EventDocs \cup {Deleted}, Edit(e, d)
    PROVE  CalendarInv'
<1> USE DEF CalendarInv, Edit
<1>1. event' \in [Events -> Happenings] /\ event' = [event EXCEPT ![e] = d]
  BY DEF CalendarTyped, Happenings
<1>2. version' \in [Events -> Nat \ {0}] /\ version' = [version EXCEPT ![e] = @ + 1]
  BY DEF CalendarTyped
<1>3. CalendarTyped'
  BY <1>1, <1>2 DEF CalendarTyped, JobType
<1>4. version'[e] = version[e] + 1 /\ \A f \in Events : f # e => version'[f] = version[f] /\ event'[f] = event[f]
  BY <1>1, <1>2 DEF CalendarTyped
<1>5. \A f \in Events : version[f] \in Nat /\ version[f] <= version'[f]
  BY <1>4 DEF CalendarTyped
<1>6. ASSUME NEW times \in [Events -> Nat], NEW map, Vouches(times, map) PROVE Vouches(times, map)'
  <2> SUFFICES ASSUME NEW f \in Events
               PROVE  /\ times[f] <= version'[f]
                      /\ Exists(f)' /\ times[f] = version'[f] => Written(f, map)'
    BY DEF Vouches
  <2>1. times[f] \in Nat /\ times[f] <= version[f]
    BY <1>6 DEF Vouches
  <2>2. CASE f = e
    BY <2>1, <2>2, <1>4, <1>5
  <2>3. CASE f # e
    BY <2>1, <2>3, <1>4, <1>6 DEF Vouches, Exists, Written
  <2> QED BY <2>2, <2>3
<1>7. Vouches(state.known, state.map)'
  BY <1>6 DEF CalendarTyped
<1>8. ASSUME job # Resting PROVE ListedOnce(job') /\ Pending(job)' /\ Vouches(job.seen, job.map)'
  <2>1. JobType(job) /\ Pending(job) /\ job' = job /\ state' = state
    BY <1>8 DEF CalendarTyped
  <2>2. Vouches(job.seen, job.map)'
    BY <1>6, <1>8, <2>1 DEF JobType
  <2>3. Pending(job)'
    <3> SUFFICES ASSUME NEW c \in job.todo
                 PROVE  c.ver <= version'[c.event] /\ (c.ver = version'[c.event] => c.doc = event'[c.event])
      BY <2>1 DEF Pending
    <3>1. c.ver \in Nat /\ c.event \in Events
      BY <2>1 DEF JobType, Entries
    <3>2. c.ver <= version[c.event] /\ (c.ver = version[c.event] => c.doc = event[c.event])
      BY <2>1 DEF Pending
    <3> QED BY <3>1, <3>2, <1>4, <1>5
  <2> QED BY <1>8, <2>1, <2>2, <2>3
<1> QED BY <1>3, <1>7, <1>8

LEMMA ListKeeps == CalendarInv /\ List => CalendarInv'
<1> SUFFICES ASSUME CalendarInv, List PROVE CalendarInv'
  OBVIOUS
<1>1. PICK view \in Views :
        job' = [pc |-> "events", map |-> state.map, seen |-> [e \in Events |-> 0],
                todo |-> {[event |-> e, doc |-> event[e], ver |-> version[e]] : e \in view}]
  BY DEF List
<1>2. \A e \in view : e \in Events /\ event[e] \in EventDocs /\ version[e] \in Nat \ {0}
  BY DEF Views, Window, Exists, CalendarInv, CalendarTyped, Happenings
<1>3. UNCHANGED <<event, version, state, page>>
  BY DEF List
<1>4. JobType(job')
  <2>1. job'.todo \subseteq Entries
    BY <1>1, <1>2 DEF Entries
  <2>2. /\ IsRecord(job', {"pc", "map", "seen", "todo"})
        /\ job'.pc = "events" /\ job'.map = state.map /\ job'.seen \in [Events -> Nat]
    BY <1>1 DEF IsRecord
  <2> QED BY <2>1, <2>2 DEF JobType, CalendarInv, CalendarTyped
<1>5. CalendarTyped'
  BY <1>3, <1>4 DEF CalendarInv, CalendarTyped
<1>6. ListedOnce(job')
  BY <1>1 DEF ListedOnce
<1>7. Pending(job)'
  <2> SUFFICES ASSUME NEW c \in job'.todo
               PROVE  /\ c.ver <= version[c.event] /\ c.doc = event[c.event]
                      /\ state.known[c.event] <= c.ver
                      /\ job'.seen[c.event] = 0 /\ job'.map[c.event] = state.map[c.event]
    BY <1>3 DEF Pending
  <2>1. PICK e \in view : c = [event |-> e, doc |-> event[e], ver |-> version[e]]
    BY <1>1
  <2>2. state.known[e] <= version[e]
    BY <1>2 DEF CalendarInv, Vouches
  <2> QED BY <2>1, <2>2, <1>1, <1>2
<1>8. Vouches(job.seen, job.map)'
  BY <1>1, <1>3 DEF Vouches, CalendarInv, CalendarTyped
<1>9. Vouches(state.known, state.map)'
  BY <1>3 DEF Vouches, CalendarInv, Exists, Written
<1> QED BY <1>5, <1>6, <1>7, <1>8, <1>9 DEF CalendarInv

\* The two ways an event of the listing is done with, the first when it is as it is
\* remembered, leave its page and its entry as it is, if it still is as listed.
LEMMA SeenKeeps ==
    ASSUME CalendarInv, job.pc = "events", NEW c \in job.todo, NEW map \in MapType,
           job' = Seen(c, map), UNCHANGED <<event, version, state>>,
           page' \in [Spots \X Events -> EventDocs \cup {Nowhere}],
           \A e \in Events \ {c.event} : map[e] = job.map[e] /\ \A x \in Spots : page'[<<x, e>>] = page[<<x, e>>],
           c.ver = version[c.event] => map[c.event] = PlaceOf(c.doc) /\ page'[<<PlaceOf(c.doc), c.event>>] = c.doc,
           state.known[c.event] = c.ver => page' = page
    PROVE  CalendarInv'
<1>1. job # Resting /\ JobType(job) /\ c \in Entries
  BY DEF CalendarInv, CalendarTyped, Resting, JobType
<1>2. c.event \in Events /\ c.ver \in Nat \ {0} /\ c.doc \in EventDocs
  BY <1>1 DEF Entries
<1>3. /\ IsRecord(job', {"pc", "map", "seen", "todo"}) /\ job'.pc = "events"
      /\ job'.map = map /\ job'.seen = [job.seen EXCEPT ![c.event] = c.ver] /\ job'.todo = job.todo \ {c}
  BY <1>1 DEF Seen, JobType, IsRecord
<1>4. job'.seen \in [Events -> Nat] /\ job'.seen[c.event] = c.ver
        /\ \A e \in Events : e # c.event => job'.seen[e] = job.seen[e]
  BY <1>1, <1>2, <1>3 DEF JobType
<1>5. JobType(job') /\ job' # Resting
  BY <1>1, <1>3, <1>4 DEF JobType, Resting
<1>6. CalendarTyped'
  BY <1>5 DEF CalendarInv, CalendarTyped
<1>7. /\ c.ver <= version[c.event] /\ (c.ver = version[c.event] => c.doc = event[c.event])
      /\ state.known[c.event] <= c.ver
      /\ \A d \in job'.todo : d.event # c.event /\ d \in job.todo
  BY <1>1, <1>3 DEF CalendarInv, Pending, ListedOnce
<1>8. \A e \in Events : Exists(e) => PlaceOf(event[e]) \in Spots
  BY DEF Exists, Spots, CalendarInv, CalendarTyped, Happenings
<1>9. ListedOnce(job')
  BY <1>1, <1>7 DEF ListedOnce, CalendarInv
<1>10. Pending(job)'
  <2> SUFFICES ASSUME NEW d \in job'.todo
               PROVE  /\ d.ver <= version[d.event] /\ (d.ver = version[d.event] => d.doc = event[d.event])
                      /\ state.known[d.event] <= d.ver
                      /\ job'.seen[d.event] = 0 /\ job'.map[d.event] = state.map[d.event]
    BY DEF Pending
  <2>1. d \in job.todo /\ d.event \in Events /\ d.event # c.event
    BY <1>1, <1>7 DEF JobType, Entries
  <2> QED BY <2>1, <1>1, <1>3, <1>4 DEF CalendarInv, Pending
<1>11. Vouches(job.seen, job.map)'
  <2> SUFFICES ASSUME NEW e \in Events
               PROVE  /\ job'.seen[e] <= version[e]
                      /\ Exists(e) /\ job'.seen[e] = version[e]
                            => map[e] = PlaceOf(event[e]) /\ page'[<<PlaceOf(event[e]), e>>] = event[e]
    BY <1>3 DEF Vouches, Written, Exists
  <2>1. CASE e = c.event
    BY <2>1, <1>2, <1>4, <1>7
  <2>2. CASE e # c.event
    BY <2>2, <1>1, <1>4, <1>8 DEF CalendarInv, Vouches, Written
  <2> QED BY <2>1, <2>2
<1>12. Vouches(state.known, state.map)'
  <2> SUFFICES ASSUME NEW e \in Events
               PROVE  /\ state.known[e] <= version[e]
                      /\ Exists(e) /\ state.known[e] = version[e]
                            => state.map[e] = PlaceOf(event[e]) /\ page'[<<PlaceOf(event[e]), e>>] = event[e]
    BY DEF Vouches, Written, Exists
  <2>0. /\ state.known[e] <= version[e]
        /\ Exists(e) /\ state.known[e] = version[e]
              => state.map[e] = PlaceOf(event[e]) /\ page[<<PlaceOf(event[e]), e>>] = event[e]
    BY DEF CalendarInv, Vouches, Written
  <2>1. CASE e = c.event
    <3>1. state.known[e] \in Nat /\ version[e] \in Nat
      BY DEF CalendarInv, CalendarTyped
    <3>2. state.known[e] = version[e] => state.known[e] = c.ver
      BY <2>1, <3>1, <1>2, <1>7
    <3> QED BY <2>0, <2>1, <3>2
  <2>2. CASE e # c.event
    BY <2>0, <2>2, <1>8
  <2> QED BY <2>1, <2>2
<1> QED BY <1>5, <1>6, <1>9, <1>10, <1>11, <1>12 DEF CalendarInv

LEMMA HandleEventKeeps == CalendarInv /\ HandleEvent => CalendarInv'
<1> SUFFICES ASSUME CalendarInv, HandleEvent PROVE CalendarInv'
  OBVIOUS
<1>1. PICK c \in job.todo : \/ Unchanged(c) /\ job' = Seen(c, job.map) /\ UNCHANGED page
                            \/ ~Unchanged(c) /\ WriteEvent(c)
  BY DEF HandleEvent, Tells, SelectsCancelled
<1>2. job # Resting /\ JobType(job) /\ c \in Entries /\ job.pc = "events"
  BY DEF CalendarInv, CalendarTyped, Resting, JobType, HandleEvent
<1>3. c.event \in Events /\ c.ver \in Nat \ {0} /\ c.doc \in EventDocs /\ PlaceOf(c.doc) \in Spots
  BY <1>2 DEF Entries, Spots
<1>4. page \in [Spots \X Events -> EventDocs \cup {Nowhere}] /\ UNCHANGED <<event, version, state>>
  BY DEF CalendarInv, CalendarTyped, HandleEvent
<1>5. /\ c.ver <= version[c.event] /\ (c.ver = version[c.event] => c.doc = event[c.event])
      /\ job.map[c.event] = state.map[c.event]
  BY <1>2 DEF CalendarInv, Pending
<1>6. CASE Unchanged(c) /\ job' = Seen(c, job.map) /\ UNCHANGED page
  <2>1. c.ver = version[c.event] => job.map[c.event] = PlaceOf(c.doc) /\ page[<<PlaceOf(c.doc), c.event>>] = c.doc
    <3> SUFFICES ASSUME c.ver = version[c.event]
                 PROVE  job.map[c.event] = PlaceOf(c.doc) /\ page[<<PlaceOf(c.doc), c.event>>] = c.doc
      OBVIOUS
    <3>1. Exists(c.event) /\ state.known[c.event] = version[c.event]
      BY <1>3, <1>5, <1>6, CalendarAssumption DEF Exists, Unchanged
    <3> QED BY <1>3, <1>5, <3>1 DEF CalendarInv, Vouches, Written
  <2>2. job.map \in MapType
    BY <1>2 DEF JobType
  <2>3. /\ page' = page
        /\ \A e \in Events \ {c.event} : job.map[e] = job.map[e] /\ \A x \in Spots : page'[<<x, e>>] = page[<<x, e>>]
    BY <1>6
  <2> QED BY <1>2, <1>4, <1>6, <2>1, <2>2, <2>3, SeenKeeps
<1>7. CASE ~Unchanged(c) /\ WriteEvent(c)
  <2> DEFINE map == [job.map EXCEPT ![c.event] = PlaceOf(c.doc)]
  <2>1. map \in MapType /\ map[c.event] = PlaceOf(c.doc) /\ \A e \in Events \ {c.event} : map[e] = job.map[e]
    BY <1>2, <1>3 DEF JobType, MapType
  <2>2. /\ page' \in [Spots \X Events -> EventDocs \cup {Nowhere}]
        /\ page'[<<PlaceOf(c.doc), c.event>>] = c.doc
        /\ \A e \in Events \ {c.event}, x \in Spots : page'[<<x, e>>] = page[<<x, e>>]
    BY <1>3, <1>4, <1>7 DEF WriteEvent, EventPage
  <2>3. job' = Seen(c, map) /\ state.known[c.event] # c.ver
    BY <1>7 DEF WriteEvent, Unchanged
  <2> HIDE DEF map
  <2> QED BY <1>2, <1>4, <2>1, <2>2, <2>3, SeenKeeps
<1> QED BY <1>1, <1>6, <1>7

LEMMA CalendarStep == CalendarInv /\ [CalendarNext]_calendarVars => CalendarInv'
<1> SUFFICES ASSUME CalendarInv, [CalendarNext]_calendarVars PROVE CalendarInv'
  OBVIOUS
<1>1. CASE List
  BY <1>1, ListKeeps
<1>2. CASE HandleEvent
  BY <1>2, HandleEventKeeps
<1>3. CASE Return
  <2>1. job # Resting /\ JobType(job) /\ UNCHANGED <<event, version, page>>
        /\ state' = [known |-> job.seen, map |-> job.map] /\ job' = Resting
    BY <1>3 DEF CalendarInv, CalendarTyped, Resting, JobType, Return
  <2>2. CalendarTyped'
    BY <2>1 DEF CalendarInv, CalendarTyped, IsRecord, JobType
  <2>3. Vouches(state.known, state.map)'
    BY <2>1 DEF CalendarInv, Vouches, Written, Exists
  <2> QED BY <2>1, <2>2, <2>3 DEF CalendarInv
<1>4. CASE Die \/ DayPasses \/ UNCHANGED calendarVars
  <2>1. UNCHANGED <<event, version, page, state>> /\ job' \in {job, Resting}
    BY <1>4 DEF Die, DayPasses, calendarVars
  <2>2. CalendarTyped' /\ Vouches(state.known, state.map)'
    BY <2>1 DEF CalendarInv, CalendarTyped, JobType, Vouches, Written, Exists
  <2>3. CASE job' = Resting
    BY <2>2, <2>3 DEF CalendarInv
  <2>4. CASE job' = job
    BY <2>1, <2>2, <2>4 DEF CalendarInv, ListedOnce, Pending, Vouches, Written, Exists
  <2> QED BY <2>1, <2>3, <2>4
<1>5. CASE \E e \in Events, d \in EventDocs \cup {Deleted} : Edit(e, d)
  BY <1>5, EditKeeps
<1> QED BY <1>1, <1>2, <1>3, <1>4, <1>5 DEF CalendarNext, CalendarRun

-----------------------------------------------------------------------------
(* The media of a message *)

FileKinds == {a.kind : a \in UNION {Range(l) : l \in AttachmentLists}}
FileType == [name : Names, kind : FileKinds, bytes : Nat]
FileSeqs == Seq(FileType)
RefsType(refs) == /\ IsFunction(refs) /\ DOMAIN refs \subseteq Nat
                  /\ \A i \in DOMAIN refs : refs[i] \in [name : Names, converted : BOOLEAN]
LineType(c) ==
    /\ IsRecord(c, {"etag", "edited", "deleted", "body", "shown", "refs"})
    /\ c.etag \in Nat /\ c.deleted \in BOOLEAN /\ c.body \in Nat
    /\ c.shown \subseteq Images /\ RefsType(c.refs)
MessageType(m) ==
    /\ IsRecord(m, {"etag", "edited", "deleted", "body", "files", "images"})
    /\ m.etag \in Nat /\ m.edited \in BOOLEAN /\ m.deleted \in BOOLEAN /\ m.body \in Nat
    /\ m.files \in FileSeqs /\ m.images \subseteq Images
MediaTyped ==
    /\ settings.attachments \in BOOLEAN /\ settings.images \in BOOLEAN
    /\ MessageType(message)
    /\ copy = Unwritten \/ LineType(copy)
    /\ failed \subseteq Names
    /\ disk \in [FilePaths \cup ImagePaths -> Nat \cup {Unwritten}]
    /\ interrupted \in BOOLEAN

\* A message nobody edited has the body it was posted with, and so has a copy of it.
BodiesMatch ==
    /\ ~message.edited /\ ~message.deleted => message.body = 1
    /\ copy # Unwritten =>
          /\ ~message.edited /\ ~copy.deleted => copy.body = 1
          /\ copy.etag <= message.etag
          /\ copy.etag = message.etag => copy.body = message.body /\ copy.deleted = message.deleted
MediaInv == MediaTyped /\ BodiesMatch /\ LinksLead
-----------------------------------------------------------------------------
LEMMA AttachedType ==
    ASSUME NEW list \in AttachmentLists, NEW n \in Nat
    PROVE  Attached(list, n) \in FileSeqs
<1>1. list \in Seq([name : {a.name : a \in Range(list)}, kind : {a.kind : a \in Range(list)}])
  BY MediaAssumption
<1>2. \A i \in 1..Len(list) : list[i] \in Range(list) /\ DOMAIN list = 1..Len(list) /\ Len(list) \in Nat
  <2>1. DOMAIN list = 1..Len(list) /\ Len(list) \in Nat
    BY <1>1
  <2> QED BY <2>1 DEF Range
<1>3. \A i \in 1..Len(list) : [name |-> list[i].name, kind |-> list[i].kind, bytes |-> n * 10 + i] \in FileType
  BY <1>2 DEF Names, FileKinds, FileType
<1>4. Attached(list, n) = [i \in 1..Len(list) |-> [name |-> list[i].name, kind |-> list[i].kind, bytes |-> n * 10 + i]]
  BY <1>1 DEF Attached
<1> QED BY <1>1, <1>3, <1>4 DEF FileSeqs

\* A message is changed upstream: its etag tells it from the copy.
LEMMA PostsKeeps ==
    ASSUME MediaInv, NEW m, MessageType(m), Posts(m), m.etag = message.etag + 1,
           message.edited => m.edited, ~m.edited /\ ~m.deleted => m.body = 1
    PROVE  MediaInv'
<1>1. message' = m /\ UNCHANGED <<settings, copy, failed, disk, interrupted>>
  BY DEF Posts
<1>2. MediaTyped'
  BY <1>1 DEF MediaInv, MediaTyped, LineType, RefsType
<1>3. LinksLead'
  BY <1>1 DEF MediaInv, LinksLead
<1>4. message.etag \in Nat /\ m.etag \in Nat
  BY DEF MediaInv, MediaTyped, MessageType
<1>5. copy # Unwritten => copy.etag \in Nat /\ copy.etag <= message.etag
  BY DEF MediaInv, MediaTyped, LineType, BodiesMatch
<1>6. copy # Unwritten => copy.etag <= m.etag /\ copy.etag # m.etag
  BY <1>4, <1>5
<1>7. BodiesMatch'
  BY <1>1, <1>6 DEF MediaInv, BodiesMatch
<1> QED BY <1>2, <1>3, <1>7 DEF MediaInv

\* What a list of links promises of the disk.
LinksHold(c, d) ==
    /\ \A i \in c.shown : d[[of |-> "image", name |-> i]] # Unwritten
    /\ \A r \in Range(c.refs) :
          LET file == d[[of |-> "file", name |-> r.name]]
          IN  /\ file # Unwritten
              /\ r.converted /\ Cardinality({j \in DOMAIN c.refs : c.refs[j].name = r.name}) = 1
                    => d[[of |-> "text", name |-> r.name]] = file
RefNames(c) == {r.name : r \in Range(c.refs)}

LEMMA DownloadFacts ==
    ASSUME MediaTyped, NEW ends, NEW got, got = DownloadAttachments(message, ends)
    PROVE  /\ RefsType(got.refs) /\ got.failed \subseteq Names
           /\ got.disk \in [FilePaths \cup ImagePaths -> Nat \cup {Unwritten}]
           /\ RefNames(got) \subseteq DownloadableNames(message, failed)
           /\ \A n \in failed : got.disk[[of |-> "file", name |-> n]] = disk[[of |-> "file", name |-> n]]
           /\ \A p \in ImagePaths : got.disk[p] = disk[p]
           /\ LinksHold([shown |-> {}, refs |-> got.refs], got.disk)
<1> DEFINE took == IF settings.attachments THEN Obtained(message, ends) ELSE {}
           There(p) == {i \in took : message.files[i].name = p.name /\ (p.of = "text" => ends[i] = "text")}
           m == message
           n == Len(message.files)
<1>1. message.files \in FileSeqs /\ n \in Nat /\ DOMAIN message.files = 1..n
  BY DEF MediaTyped, MessageType, FileSeqs
<1>2. \A i \in 1..n : message.files[i].name \in Names /\ message.files[i].bytes \in Nat /\ message.files[i] \in Range(message.files)
  <2>1. \A i \in 1..n : message.files[i] \in FileType
    BY <1>1 DEF FileSeqs
  <2>2. \A i \in 1..n : message.files[i] \in Range(message.files)
    BY <1>1 DEF Range
  <2> QED BY <2>1, <2>2 DEF FileType
<1>3. /\ got.refs = [i \in took |-> Reference(message, ends, i)]
      /\ got.disk = [p \in DOMAIN disk |-> Stored(message, ends, took, p)]
      /\ got.failed = IF settings.attachments THEN failed \cup Refused(message, ends) ELSE failed
  BY DEF DownloadAttachments
<1>4. \A i \in took : i \in 1..n /\ IsDownloadable(message.files[i], failed) /\ ends[i] \in {"text", "file"}
  BY <1>1 DEF Obtained, Tried, Classified, IsDownloadable
<1>5. \A p : There(p) # {} => Max(There(p)) \in There(p)
  <2> SUFFICES ASSUME NEW p, There(p) # {} PROVE Max(There(p)) \in There(p)
    OBVIOUS
  <2>1. There(p) \subseteq took
    OBVIOUS
  <2>2. There(p) \in SUBSET Nat /\ \A x \in There(p) : x <= n
    BY <1>1, <1>4, <2>1
  <2> HIDE DEF There, n
  <2> QED BY <1>1, <2>2, GreatestOfNats
<1>6. \A p : Stored(message, ends, took, p) = IF p.of = "image" \/ There(p) = {} THEN disk[p] ELSE message.files[Max(There(p))].bytes
  BY DEF Stored
<1>7. DOMAIN disk = FilePaths \cup ImagePaths /\ \A p \in DOMAIN disk : disk[p] \in Nat \cup {Unwritten}
  BY DEF MediaTyped
<1>8. \A p : There(p) # {} => Max(There(p)) \in 1..n /\ message.files[Max(There(p))].bytes \in Nat
  BY ZenonT(40), <1>2, <1>4, <1>5
<1> HIDE DEF There, took, n
<1>9. got.disk \in [FilePaths \cup ImagePaths -> Nat \cup {Unwritten}]
  BY <1>3, <1>6, <1>7, <1>8
<1>10. RefsType(got.refs)
  BY <1>1, <1>2, <1>3, <1>4 DEF RefsType, IsFunction, Reference
<1>11. got.failed \subseteq Names
  BY <1>1, <1>2, <1>3 DEF Refused, MediaTyped
<1>12. RefNames(got) \subseteq DownloadableNames(message, failed)
  BY <1>2, <1>3, <1>4 DEF RefNames, DownloadableNames, Reference, Range
<1>13. ASSUME NEW x \in failed
       PROVE  got.disk[[of |-> "file", name |-> x]] = disk[[of |-> "file", name |-> x]]
  <2> DEFINE p == [of |-> "file", name |-> x]
  <2>1. p \in DOMAIN disk /\ p.name = x /\ p.of = "file"
    BY <1>7 DEF MediaTyped, FilePaths
  <2>2. There(p) = {}
    BY <1>4, <2>1 DEF There, IsDownloadable
  <2> QED BY <1>3, <1>6, <2>1, <2>2
<1>14. \A p \in ImagePaths : got.disk[p] = disk[p]
  BY <1>3, <1>6, <1>7 DEF ImagePaths
<1>15. LinksHold([shown |-> {}, refs |-> got.refs], got.disk)
  <2> SUFFICES ASSUME NEW i \in took, NEW r, r = got.refs[i]
               PROVE  /\ got.disk[[of |-> "file", name |-> r.name]] # Unwritten
                      /\ r.converted /\ Cardinality({j \in took : got.refs[j].name = r.name}) = 1
                            => got.disk[[of |-> "text", name |-> r.name]] = got.disk[[of |-> "file", name |-> r.name]]
    <3>1. DOMAIN got.refs = took
      BY <1>3
    <3> QED BY <3>1 DEF LinksHold, Range
  <2> DEFINE f == [of |-> "file", name |-> r.name]
             t == [of |-> "text", name |-> r.name]
             same == {j \in took : got.refs[j].name = r.name}
  <2>1. r.name = message.files[i].name /\ r.name \in Names /\ (r.converted <=> ends[i] = "text")
    <3>1. r = [name |-> message.files[i].name, converted |-> ends[i] = "text"]
      BY <1>3 DEF Reference
    <3>2. r.converted = (ends[i] = "text") /\ r.name = message.files[i].name
      BY <3>1
    <3> QED BY <1>2, <1>4, <3>2
  <2>2. f \in DOMAIN disk /\ t \in DOMAIN disk /\ f.of = "file" /\ t.of = "text" /\ f.name = r.name /\ t.name = r.name
    BY <1>7, <2>1 DEF FilePaths
  <2>3. i \in There(f)
    BY <2>1, <2>2 DEF There
  <2>4. got.disk[f] = message.files[Max(There(f))].bytes /\ got.disk[f] \in Nat
    BY <1>3, <1>6, <1>8, <2>2, <2>3
  <2>5. ASSUME r.converted, Cardinality(same) = 1
        PROVE  got.disk[t] = got.disk[f]
    <3>1. i \in same /\ i \in There(t)
      BY <2>1, <2>2, <2>5 DEF There
    <3>2. IsFiniteSet(same)
      <4>1. same \in SUBSET Nat /\ n \in Nat /\ \A x \in same : x <= n
        BY <1>1, <1>4
      <4> HIDE DEF same
      <4> QED BY <4>1, FS_BoundedSetOfNaturals
    <3>3. PICK x : same = {x}
      <4> HIDE DEF same
      <4> QED BY <2>5, <3>2, FS_Singleton
    <3>4. \A j \in took : message.files[j].name = r.name => j \in same
      BY <1>3 DEF Reference
    <3>5. There(f) = {i} /\ There(t) = {i}
      BY <2>2, <2>3, <3>1, <3>3, <3>4 DEF There
    <3>6. Max(There(t)) = Max(There(f)) /\ There(t) # {}
      BY <3>5
    <3>7. got.disk[t] = Stored(message, ends, took, t)
      BY <1>3, <2>2
    <3>8. Stored(message, ends, took, t) = message.files[Max(There(t))].bytes
      BY <1>6, <2>2, <3>6
    <3> HIDE DEF f, t
    <3> QED BY <2>4, <3>6, <3>7, <3>8
  <2> QED BY <2>4, <2>5, MediaAssumption
<1> QED BY <1>9, <1>10, <1>11, <1>12, <1>13, <1>14, <1>15

\* A line made anew, or taken over, and what the disk is then.
LEMMA MadeFacts ==
    ASSUME MediaTyped, NEW made \in Makings
    PROVE  /\ CanReuse(message, copy, failed) =>
                 /\ ~made.asked /\ made.failed = failed /\ made.disk = disk
                 /\ made.line.body = copy.body /\ made.line.shown = copy.shown /\ made.line.refs = copy.refs
           /\ ~CanReuse(message, copy, failed) =>
                 /\ made.asked /\ made.line.body = message.body /\ LinksHold(made.line, made.disk)
                 /\ RefNames(made.line) \subseteq DownloadableNames(message, failed)
                 /\ \A n \in failed : made.disk[[of |-> "file", name |-> n]] = disk[[of |-> "file", name |-> n]]
           /\ made.line.etag = message.etag /\ made.line.deleted = message.deleted
           /\ LineType(made.line) /\ made.failed \subseteq Names
           /\ made.disk \in [FilePaths \cup ImagePaths -> Nat \cup {Unwritten}]
<1>1. PICK came \in SUBSET message.images, ends \in Endings : made = Made(message, came, ends)
  BY DEF Makings
<1> DEFINE got == DownloadAttachments(message, ends)
           shown == InlineImages(message, came)
           line == [etag |-> message.etag, edited |-> message.edited, deleted |-> message.deleted,
                    body |-> message.body, shown |-> shown, refs |-> got.refs]
           dsk == [p \in DOMAIN disk |-> IF p.of = "image" /\ p.name \in shown THEN message.body ELSE got.disk[p]]
<1>2. made = IF CanReuse(message, copy, failed)
             THEN [line |-> [line EXCEPT !.body = copy.body, !.shown = copy.shown, !.refs = copy.refs],
                   failed |-> failed, disk |-> disk, asked |-> FALSE]
             ELSE [line |-> line, failed |-> got.failed, asked |-> TRUE, disk |-> dsk]
  BY <1>1 DEF Made
<1>3. /\ RefsType(got.refs) /\ got.failed \subseteq Names
      /\ got.disk \in [FilePaths \cup ImagePaths -> Nat \cup {Unwritten}]
      /\ RefNames(got) \subseteq DownloadableNames(message, failed)
      /\ \A n \in failed : got.disk[[of |-> "file", name |-> n]] = disk[[of |-> "file", name |-> n]]
      /\ LinksHold([shown |-> {}, refs |-> got.refs], got.disk)
  <2> HIDE DEF got
  <2>1. got = DownloadAttachments(message, ends)
    BY DEF got
  <2> QED BY ONLY <2>1, MediaTyped, DownloadFacts
<1>4. shown \subseteq Images /\ MessageType(message) /\ DOMAIN disk = FilePaths \cup ImagePaths
  BY DEF InlineImages, MediaTyped, MessageType
<1> HIDE DEF got, shown
<1>5. CASE CanReuse(message, copy, failed)
  <2>1. LineType(copy)
    BY <1>5 DEF CanReuse, MediaTyped
  <2>2. made.line = [etag |-> message.etag, edited |-> message.edited, deleted |-> message.deleted,
                     body |-> copy.body, shown |-> copy.shown, refs |-> copy.refs]
    BY <1>2, <1>5
  <2>3. made.failed = failed /\ made.disk = disk /\ ~made.asked
    BY <1>2, <1>5
  <2>4. LineType(made.line)
    BY <1>4, <2>1, <2>2 DEF LineType, IsRecord, MessageType
  <2> QED BY <1>5, <2>2, <2>3, <2>4 DEF MediaTyped
<1>6. CASE ~CanReuse(message, copy, failed)
  <2>1. made.line = line /\ made.failed = got.failed /\ made.disk = dsk /\ made.asked
    BY <1>2, <1>6
  <2>2. LineType(line)
    BY <1>3, <1>4 DEF LineType, IsRecord, MessageType
  <2>3. dsk \in [FilePaths \cup ImagePaths -> Nat \cup {Unwritten}]
    BY <1>3, <1>4 DEF MessageType
  <2>4. \A p \in FilePaths : dsk[p] = got.disk[p]
    BY <1>4 DEF FilePaths
  <2>5. \A i \in shown : dsk[[of |-> "image", name |-> i]] = message.body
    BY <1>4 DEF ImagePaths
  <2>6. \A r \in Range(got.refs) : r.name \in Names
    BY <1>3 DEF RefsType, Range
  <2>7. \A x \in Names : /\ dsk[[of |-> "file", name |-> x]] = got.disk[[of |-> "file", name |-> x]]
                         /\ dsk[[of |-> "text", name |-> x]] = got.disk[[of |-> "text", name |-> x]]
    BY <2>4 DEF FilePaths
  <2>8. LinksHold(line, dsk)
    <3>1. \A i \in line.shown : dsk[[of |-> "image", name |-> i]] # Unwritten
      BY ZenonT(40), <1>4, <2>5, MediaAssumption DEF MessageType
    <3>2. \A r \in Range(got.refs) :
             /\ dsk[[of |-> "file", name |-> r.name]] # Unwritten
             /\ r.converted /\ Cardinality({j \in DOMAIN got.refs : got.refs[j].name = r.name}) = 1
                   => dsk[[of |-> "text", name |-> r.name]] = dsk[[of |-> "file", name |-> r.name]]
      <4>1. \A r \in Range(got.refs) :
               /\ got.disk[[of |-> "file", name |-> r.name]] # Unwritten
               /\ r.converted /\ Cardinality({j \in DOMAIN got.refs : got.refs[j].name = r.name}) = 1
                     => got.disk[[of |-> "text", name |-> r.name]] = got.disk[[of |-> "file", name |-> r.name]]
        BY <1>3 DEF LinksHold
      <4> HIDE DEF dsk
      <4> QED BY <2>6, <2>7, <4>1
    <3> HIDE DEF dsk
    <3> QED BY <3>1, <3>2 DEF LinksHold
  <2>9. RefNames(line) \subseteq DownloadableNames(message, failed)
    BY <1>3 DEF RefNames
  <2>10. \A n \in failed : dsk[[of |-> "file", name |-> n]] = disk[[of |-> "file", name |-> n]]
    <3>1. failed \subseteq Names
      BY DEF MediaTyped
    <3> HIDE DEF dsk
    <3> QED BY <1>3, <2>7, <3>1
  <2>11. line.etag = message.etag /\ line.deleted = message.deleted /\ line.body = message.body
    OBVIOUS
  <2> HIDE DEF line, dsk
  <2> QED BY <1>3, <1>6, <2>1, <2>2, <2>3, <2>8, <2>9, <2>10, <2>11
<1> QED BY <1>5, <1>6

LEMMA IngestKeeps ==
    ASSUME MediaInv, NEW made \in Makings, NEW keepsStore \in BOOLEAN, NEW keepsState \in BOOLEAN,
           Ingest(made, keepsStore, keepsState)
    PROVE  MediaInv'
<1> DEFINE reuses == CanReuse(message, copy, failed)
<1>1. /\ reuses => /\ ~made.asked /\ made.failed = failed /\ made.disk = disk
                   /\ made.line.body = copy.body /\ made.line.shown = copy.shown /\ made.line.refs = copy.refs
      /\ ~reuses => made.asked /\ made.line.body = message.body /\ LinksHold(made.line, made.disk)
      /\ made.line.etag = message.etag /\ made.line.deleted = message.deleted
      /\ LineType(made.line) /\ made.failed \subseteq Names
      /\ made.disk \in [FilePaths \cup ImagePaths -> Nat \cup {Unwritten}]
  BY MadeFacts DEF MediaInv
<1>2. /\ disk' = made.disk /\ copy' = (IF keepsStore THEN made.line ELSE copy)
      /\ failed' = (IF keepsState THEN made.failed ELSE failed)
      /\ interrupted' = (IF made.asked THEN ~keepsStore ELSE interrupted)
      /\ UNCHANGED <<settings, message>>
  BY DEF Ingest
<1>3. MediaTyped'
  <2>1. copy' = Unwritten \/ LineType(copy')
    BY <1>1, <1>2 DEF MediaInv, MediaTyped
  <2>2. interrupted' \in BOOLEAN
    BY <1>2 DEF MediaInv, MediaTyped
  <2>3. failed' \subseteq Names
    BY <1>1, <1>2 DEF MediaInv, MediaTyped
  <2> QED BY <1>1, <1>2, <2>1, <2>2, <2>3 DEF MediaInv, MediaTyped
<1>4. BodiesMatch'
  <2>1. CASE ~keepsStore
    BY <1>2, <2>1 DEF MediaInv, BodiesMatch
  <2>2. CASE keepsStore /\ reuses
    <3>1. /\ copy # Unwritten /\ ~copy.deleted /\ ~message.deleted /\ ~message.edited
          /\ copy.body = 1 /\ message.body = 1
      BY <2>2 DEF CanReuse, MediaInv, BodiesMatch
    <3>2. copy'.body = 1 /\ copy'.etag = message.etag /\ copy'.deleted = message.deleted
      BY <1>1, <1>2, <2>2, <3>1
    <3> QED BY <1>2, <3>1, <3>2 DEF MediaInv, BodiesMatch, MediaTyped, MessageType
  <2>3. CASE keepsStore /\ ~reuses
    <3>1. copy'.body = message.body /\ copy'.etag = message.etag /\ copy'.deleted = message.deleted
      BY <1>1, <1>2, <2>3
    <3> QED BY <1>2, <3>1 DEF MediaInv, BodiesMatch, MediaTyped, MessageType
  <2> QED BY <2>1, <2>2, <2>3
<1>5. LinksLead'
  <2> SUFFICES ASSUME copy' # Unwritten, ~interrupted' PROVE LinksHold(copy', disk')
    BY DEF LinksLead, LinksHold
  <2>1. CASE reuses
    <3>1. copy # Unwritten /\ ~interrupted /\ disk' = disk /\ copy'.shown = copy.shown /\ copy'.refs = copy.refs
      BY <1>1, <1>2, <2>1 DEF CanReuse
    <3>2. LinksHold(copy, disk)
      BY <3>1 DEF MediaInv, LinksLead, LinksHold
    <3> QED BY <3>1, <3>2 DEF LinksHold
  <2>2. CASE ~reuses
    BY <1>1, <1>2, <2>2
  <2> QED BY <2>1, <2>2
<1> QED BY <1>3, <1>4, <1>5 DEF MediaInv

LEMMA MediaStep == MediaInv /\ [MediaNext]_mediaVars => MediaInv'
<1> SUFFICES ASSUME MediaInv, [MediaNext]_mediaVars PROVE MediaInv'
  OBVIOUS
<1>0. MessageType(message) /\ message.etag \in Nat /\ Next1 \in Nat
  BY DEF MediaInv, MediaTyped, MessageType, Next1
<1>1. CASE React
  <2> DEFINE m == [message EXCEPT !.etag = Next1]
  <2>1. /\ m = [etag |-> Next1, edited |-> message.edited, deleted |-> message.deleted, body |-> message.body,
                files |-> message.files, images |-> message.images]
        /\ Posts(m)
    BY <1>0, <1>1 DEF React, MessageType, IsRecord
  <2>2. MessageType(m) /\ m.etag = message.etag + 1 /\ (~m.edited /\ ~m.deleted => m.body = 1) /\ m.edited = message.edited
    BY <1>0, <2>1 DEF MessageType, IsRecord, Next1, MediaInv, BodiesMatch
  <2> HIDE DEF m
  <2> QED BY <2>1, <2>2, PostsKeeps
<1>2. CASE DeleteMessage
  <2> DEFINE m == [message EXCEPT !.etag = Next1, !.deleted = TRUE, !.body = 0, !.files = <<>>, !.images = {}]
  <2>0. Posts(m)
    BY <1>2 DEF DeleteMessage
  <2>1. /\ IsRecord(m, {"etag", "edited", "deleted", "body", "files", "images"})
        /\ m.etag = Next1 /\ m.edited = message.edited /\ m.deleted = TRUE /\ m.body = 0 /\ m.files = <<>> /\ m.images = {}
    BY <1>0 DEF MessageType, IsRecord
  <2>2. MessageType(m) /\ m.etag = message.etag + 1 /\ m.deleted /\ m.edited = message.edited
    BY <1>0, <2>1 DEF MessageType, Next1, FileSeqs
  <2> HIDE DEF m
  <2> QED BY <2>0, <2>2, PostsKeeps
<1>3. CASE Undelete
  <2> DEFINE m == [message EXCEPT !.etag = Next1, !.deleted = FALSE, !.body = 1]
  <2>0. Posts(m)
    BY <1>3 DEF Undelete
  <2>1. /\ IsRecord(m, {"etag", "edited", "deleted", "body", "files", "images"})
        /\ m.etag = Next1 /\ m.edited = message.edited /\ m.deleted = FALSE /\ m.body = 1
        /\ m.files = message.files /\ m.images = message.images
    BY <1>0 DEF MessageType, IsRecord
  <2>2. MessageType(m) /\ m.etag = message.etag + 1 /\ m.body = 1 /\ m.edited = message.edited
    BY <1>0, <2>1 DEF MessageType, Next1
  <2> HIDE DEF m
  <2> QED BY <2>0, <2>2, PostsKeeps
<1>4. ASSUME NEW l \in AttachmentLists, EditMessage(l, Images \ message.images) PROVE MediaInv'
  <2> DEFINE files == Attached(l, Next1)
             m == [message EXCEPT !.etag = Next1, !.edited = TRUE, !.body = Next1, !.files = files,
                                  !.images = Images \ message.images]
  <2>0. Posts(m)
    BY <1>4 DEF EditMessage
  <2>1. /\ IsRecord(m, {"etag", "edited", "deleted", "body", "files", "images"})
        /\ m.etag = Next1 /\ m.edited = TRUE /\ m.deleted = message.deleted /\ m.body = Next1
        /\ m.files = files /\ m.images = Images \ message.images
    <3> HIDE DEF files
    <3> QED BY <1>0 DEF MessageType, IsRecord
  <2>2. files \in FileSeqs
    BY <1>0, AttachedType
  <2>3. MessageType(m) /\ m.etag = message.etag + 1 /\ m.edited
    <3> HIDE DEF m, files
    <3> QED BY <1>0, <2>1, <2>2 DEF MessageType, Next1
  <2> HIDE DEF m
  <2> QED BY <2>0, <2>3, PostsKeeps
<1>5. ASSUME NEW made \in Makings, NEW s \in BOOLEAN, NEW t \in BOOLEAN, Ingest(made, s, t) PROVE MediaInv'
  BY <1>5, IngestKeeps
<1>6. CASE UNCHANGED mediaVars
  BY <1>6 DEF mediaVars, MediaInv, MediaTyped, MessageType, LineType, RefsType, BodiesMatch, LinksLead
<1> QED BY <1>1, <1>2, <1>3, <1>4, <1>5, <1>6 DEF MediaNext

LEMMA MediaStarts == MediaInit => MediaInv
<1> SUFFICES ASSUME MediaInit PROVE MediaInv
  OBVIOUS
<1>1. PICK l \in AttachmentLists, s \in SUBSET Images : message = Post(l, s)
  BY DEF MediaInit
<1>2. Attached(l, 1) \in FileSeqs
  BY AttachedType
<1>3. MessageType(message)
  BY <1>1, <1>2 DEF MessageType, IsRecord, Post
<1> QED BY <1>1, <1>3 DEF MediaInit, MediaInv, MediaTyped, BodiesMatch, LinksLead, Post

\* What a sync keeps, asks for and brings.
LEMMA MediaStaysStep ==
    ASSUME MediaInv, [MediaNext]_mediaVars
    PROVE  [IngestsExactly]_mediaVars
<1> SUFFICES ASSUME MediaNext PROVE IngestsExactly \/ UNCHANGED mediaVars
  OBVIOUS
<1>1. ASSUME NEW m, Posts(m) PROVE IngestsExactly
  BY <1>1 DEF Posts, IngestsExactly
<1>2. ASSUME NEW made \in Makings, NEW s \in BOOLEAN, NEW t \in BOOLEAN, Ingest(made, s, t)
      PROVE  IngestsExactly
  <2>1. /\ CanReuse(message, copy, failed) =>
              made.disk = disk /\ made.line.shown = copy.shown /\ made.line.refs = copy.refs
        /\ ~CanReuse(message, copy, failed) =>
              /\ RefNames(made.line) \subseteq DownloadableNames(message, failed)
              /\ \A n \in failed : made.disk[[of |-> "file", name |-> n]] = disk[[of |-> "file", name |-> n]]
    BY <1>2, MadeFacts DEF MediaInv
  <2>2. disk' = made.disk /\ copy' = (IF s THEN made.line ELSE copy)
    BY <1>2 DEF Ingest
  <2>3. CASE CanReuse(message, copy, failed)
    <3>1. disk' = disk /\ (copy' # copy => copy'.shown = copy.shown /\ copy'.refs = copy.refs)
      BY <2>1, <2>2, <2>3
    <3>2. {r.name : r \in Range(copy.refs)} = DownloadableNames(message, failed)
      BY <2>3 DEF CanReuse
    <3>3. copy' # copy => NamesIn(copy') \subseteq DownloadableNames(message, failed)
      BY <3>1, <3>2 DEF NamesIn
    <3> QED BY <3>1, <3>3 DEF IngestsExactly
  <2>4. CASE ~CanReuse(message, copy, failed)
    <3>1. copy' # copy => NamesIn(copy') \subseteq DownloadableNames(message, failed)
      BY <2>1, <2>2, <2>4 DEF NamesIn, RefNames
    <3>2. ~(/\ copy # Unwritten /\ ~message.edited /\ ~message.deleted /\ ~copy.deleted
            /\ NamesIn(copy) = DownloadableNames(message, failed))
      BY <2>4 DEF CanReuse, NamesIn
    <3> QED BY <2>1, <2>2, <2>4, <3>1, <3>2 DEF IngestsExactly
  <2> QED BY <2>3, <2>4
<1> QED BY <1>1, <1>2 DEF MediaNext, React, DeleteMessage, Undelete, EditMessage
-----------------------------------------------------------------------------
(* The delta mirrors *)

Places == {d.place : d \in DocsOf(kind)} \cup {None}
LinkType == [pos : Nat, base : Nat, new : BOOLEAN]
StateType(s) ==
    /\ IsRecord(s, {"link", "map"})
    /\ s.link \in [Feeds(kind) -> LinkType] /\ s.map \in [Items -> Places]
ChangeType == [item : Items, doc : DocsOf(kind) \cup {Gone}, at : Nat]
RoundType(r) ==
    /\ IsRecord(r, {"state", "groups", "todo", "batch"})
    /\ StateType(r.state) /\ r.groups \in Seq(Range(GroupsOf(kind)))
    /\ r.todo \in Seq(Feeds(kind)) /\ r.batch \subseteq ChangeType
DeltaTyped ==
    /\ kind \in Kinds
    /\ doc \in [Items -> DocsOf(kind) \cup {Unborn, Gone}]
    /\ clock \in Nat /\ at \in [Items -> Nat \ {0}] /\ \A i \in Items : at[i] <= clock
    /\ StateType(stored)
    /\ \A p \in vault : p.item \in Items /\ p.place # None
    /\ run = Idle \/ RoundType(run)

LinkOf(s, i) == s.link[FeedOf(kind, i)]
PathsOf(i) == {<<p.item, p.place>> : p \in PagesOf(i)}
Mirrored(i, map) ==
    IF Departs(doc[i])
    THEN PathsOf(i) \subseteq lost
    ELSE doc[i].sort \notin {"folder", "unnamed"} =>
            /\ map[i] = doc[i].place
            /\ \E p \in PagesOf(i) :
                  /\ p.place = doc[i].place /\ p.meta = doc[i]
                  /\ p.status = "converted" => p.body = doc[i].ver
\* A link vouches for no later time than there is; one that was never begun has no
\* page on the map; and what was gone when it was begun has no page but a lost one.
Sound(s) ==
    \A i \in Items :
        /\ LinkOf(s, i).pos <= clock /\ LinkOf(s, i).base <= clock
        /\ LinkOf(s, i).new => s.map[i] = None /\ LinkOf(s, i).pos = 0
        /\ doc[i] = Gone /\ ~LinkOf(s, i).new /\ at[i] <= LinkOf(s, i).base => PathsOf(i) \subseteq lost
Leads(map) == \A p \in vault : p.place = map[p.item] \/ <<p.item, p.place>> \in lost
\* What the link of a run covers is mirrored, or in the batch before it.
Reached(r) ==
    \A i \in Items : doc[i] # Unborn /\ at[i] <= LinkOf(r.state, i).pos
        => Mirrored(i, r.state.map) \/ \E c \in r.batch : c.item = i
\* A change in the batch is the item's last one, or the link does not cover that;
\* it is none that the stored link covers.
Reported(r) ==
    \A c \in r.batch :
        /\ ~LinkOf(r.state, c.item).new /\ at[c.item] > LinkOf(stored, c.item).pos
        /\ c.doc = doc[c.item] \/ at[c.item] > LinkOf(r.state, c.item).pos
        /\ ~(doc[c.item] = Gone /\ at[c.item] <= LinkOf(r.state, c.item).base)
\* A run's links are those it began with, or later.
Advances(r) ==
    \A i \in Items :
        /\ LinkOf(stored, i).pos <= LinkOf(r.state, i).pos
        /\ ~LinkOf(stored, i).new => /\ ~LinkOf(r.state, i).new
                                     /\ LinkOf(r.state, i).base = LinkOf(stored, i).base
RunInv(r) == Sound(r.state) /\ Leads(r.state.map) /\ Reached(r) /\ Reported(r) /\ Advances(r)
DeltaInv ==
    /\ DeltaTyped /\ Sound(stored) /\ LinkCoversVault
    /\ run = Idle => Leads(stored.map)
    /\ run # Idle => RunInv(run)

LEMMA ItemsAreFinite == IsFiniteSet(Items)
<1> DEFINE n == Len(ItemSeq)
<1>1. n \in Nat /\ ItemSeq \in [1..n -> Items]
  BY MirrorAssumption
<1>2. \A x \in Items : \E j \in 1..n : ItemSeq[j] = x
  BY <1>1 DEF Items, Range
<1>3. ItemSeq \in Surjection(1..n, Items)
  BY <1>1, <1>2 DEF Surjection
<1>4. IsFiniteSet(1..n)
  BY <1>1, FS_Interval
<1> HIDE DEF n
<1> QED BY <1>3, <1>4, FS_Surjection

LEMMA KindFacts ==
    ASSUME DeltaTyped
    PROVE  /\ \A i \in Items : FeedOf(kind, i) \in Feeds(kind)
           /\ \A d \in DocsOf(kind) : /\ d.sort \in SortsOf(kind) /\ d.place # None /\ d.place \in Places
                                      /\ d # Gone /\ d # Unborn
           /\ GroupsOf(kind) \in Seq(Range(GroupsOf(kind)))
           /\ \A g \in Range(GroupsOf(kind)) : FeedsIn(g) \in Seq(Feeds(kind))
           /\ kind \in {"onedrive", "sharepoint", "contacts", "directory"}
  BY MirrorAssumption DEF DeltaTyped, Places

LEMMA LinkFacts ==
    ASSUME DeltaTyped, NEW s, StateType(s), NEW i \in Items
    PROVE  LinkOf(s, i) \in LinkType /\ LinkOf(s, i).pos \in Nat /\ LinkOf(s, i).base \in Nat /\ LinkOf(s, i).new \in BOOLEAN
  BY KindFacts DEF LinkOf, StateType, LinkType

LEMMA NotIdle == \A r : RoundType(r) => r # Idle
  BY SMTT(40) DEF RoundType, IsRecord, Idle

LEMMA DeltaStarts == Init => DeltaInv
<1> SUFFICES ASSUME Init PROVE DeltaInv
  OBVIOUS
<1>1. kind \in Kinds /\ stored = NoState(kind) /\ vault = {} /\ run = Idle /\ lost = {}
  BY DEF Init
<1>2. FirstDocs(kind) \subseteq DocsOf(kind) /\ ItemSeq \in Seq(Items) /\ \A i \in Items : FeedOf(kind, i) \in Feeds(kind)
  BY <1>1, MirrorAssumption
<1>3. doc \in [Items -> DocsOf(kind) \cup {Unborn, Gone}]
  BY <1>2 DEF Init, InitUpstream
<1>4. clock = Len(ItemSeq) /\ clock \in Nat /\ DOMAIN ItemSeq = 1..clock
  BY <1>2 DEF Init, InitUpstream
<1>5. at \in [Items -> 1..clock]
  <2>1. \A i \in Items : \E n \in DOMAIN ItemSeq : ItemSeq[n] = i
    BY DEF Items, Range
  <2>2. \A i \in Items : (CHOOSE n \in DOMAIN ItemSeq : ItemSeq[n] = i) \in 1..clock
    BY <1>4, <2>1
  <2> QED BY <2>2 DEF Init, InitUpstream
<1>6. StateType(stored) /\ \A i \in Items : LinkOf(stored, i) = NoLink /\ stored.map[i] = None
  BY <1>1, <1>2 DEF StateType, IsRecord, NoState, NoLink, LinkType, LinkOf, Places
<1>7. DeltaTyped
  BY <1>1, <1>3, <1>4, <1>5, <1>6 DEF DeltaTyped
<1>8. Sound(stored)
  BY <1>4, <1>6 DEF Sound, NoLink
<1>9. LinkCoversVault
  BY <1>4, <1>5, <1>6 DEF LinkCoversVault, Covered, LinkOf, NoLink
<1> QED BY <1>1, <1>7, <1>8, <1>9 DEF DeltaInv, Leads

\* A change upstream is later than every link.
LEMMA ChangeKeeps ==
    ASSUME DeltaInv, NEW x \in Items, NEW d \in DocsOf(kind) \cup {Gone}, Change(x, d)
    PROVE  DeltaInv'
<1>1. DeltaTyped
  BY DEF DeltaInv
<1>2. /\ doc' = [doc EXCEPT ![x] = d] /\ clock' = clock + 1 /\ at' = [at EXCEPT ![x] = clock + 1]
      /\ UNCHANGED <<kind, stored, vault, run, lost>>
  BY DEF Change
<1>3. DeltaTyped'
  <2>1. doc' \in [Items -> DocsOf(kind) \cup {Unborn, Gone}] /\ clock' \in Nat /\ at' \in [Items -> Nat \ {0}]
    BY <1>1, <1>2 DEF DeltaTyped
  <2>2. \A i \in Items : at'[i] <= clock'
    BY <1>1, <1>2 DEF DeltaTyped
  <2>3. StateType(stored)' /\ (run = Idle \/ RoundType(run))'
    BY <1>1, <1>2 DEF DeltaTyped, StateType, RoundType, Places, ChangeType
  <2> QED BY <1>1, <1>2, <2>1, <2>2, <2>3 DEF DeltaTyped
<1>4. at'[x] = clock + 1 /\ \A i \in Items : i # x => doc'[i] = doc[i] /\ at'[i] = at[i]
  BY <1>1, <1>2 DEF DeltaTyped
<1>5. \A i \in Items : i # x => \A map : Mirrored(i, map)' <=> Mirrored(i, map)
  <2> SUFFICES ASSUME NEW i \in Items, i # x, NEW map PROVE Mirrored(i, map)' <=> Mirrored(i, map)
    OBVIOUS
  <2> QED BY <1>2, <1>4 DEF Mirrored, Departs, Disabled, PathsOf, PagesOf
<1>6. ASSUME NEW s, StateType(s), Sound(s)
      PROVE  /\ Sound(s)'
             /\ \A i \in Items : at'[i] <= LinkOf(s, i)'.pos => i # x /\ at[i] <= LinkOf(s, i).pos
  <2>1. \A i \in Items : /\ LinkOf(s, i)' = LinkOf(s, i) /\ LinkOf(s, i).pos \in Nat /\ LinkOf(s, i).base \in Nat
                         /\ LinkOf(s, i).pos <= clock /\ LinkOf(s, i).base <= clock
    BY <1>1, <1>2, <1>6, LinkFacts DEF LinkOf, Sound
  <2>2. clock \in Nat
    BY <1>1 DEF DeltaTyped
  <2>3. \A i \in Items : at'[i] <= LinkOf(s, i)'.pos \/ at'[i] <= LinkOf(s, i)'.base => i # x
    BY <1>4, <2>1, <2>2
  <2>4. \A i \in Items : LinkOf(s, i).pos <= clock' /\ LinkOf(s, i).base <= clock'
    BY <1>2, <2>1, <2>2
  <2>5. \A i \in Items : PathsOf(i)' = PathsOf(i)
    BY <1>2 DEF PathsOf, PagesOf
  <2>6. Sound(s)'
    BY <1>2, <1>4, <1>6, <2>1, <2>3, <2>4, <2>5 DEF Sound
  <2> QED BY <1>4, <2>1, <2>3, <2>6
<1>7. StateType(stored) /\ Sound(stored)
  BY <1>1 DEF DeltaInv, DeltaTyped
<1>8. LinkCoversVault'
  <2> SUFFICES ASSUME NEW i \in Items, Covered(i)' PROVE Mirrored(i, stored.map)'
    BY DEF LinkCoversVault, Mirrored, PathsOf
  <2>1. i # x /\ at[i] <= LinkOf(stored, i).pos
    BY <1>2, <1>6, <1>7 DEF Covered, LinkOf
  <2>2. Covered(i)
    BY <1>2, <1>4, <2>1 DEF Covered, LinkOf
  <2>3. Mirrored(i, stored.map)
    BY <2>2 DEF DeltaInv, LinkCoversVault, Mirrored, PathsOf
  <2> QED BY <1>2, <1>5, <2>1, <2>3
<1>9. Sound(stored)'
  <2>1. PICK s : s = stored
    OBVIOUS
  <2>2. Sound(s)'
    BY <1>6, <1>7, <2>1
  <2> QED BY <1>2, <2>1, <2>2 DEF Sound
<1>10. run = Idle => Leads(stored.map)'
  BY <1>2 DEF DeltaInv, Leads
<1>11. ASSUME run # Idle PROVE RunInv(run)'
  <2>1. PICK r : r = run
    OBVIOUS
  <2>2. RoundType(r) /\ RunInv(r) /\ StateType(r.state) /\ Sound(r.state) /\ run' = r
    BY <1>1, <1>2, <1>11, <2>1 DEF DeltaInv, DeltaTyped, RoundType, RunInv
  <2>3. /\ Sound(r.state)'
        /\ \A i \in Items : at'[i] <= LinkOf(r.state, i)'.pos => i # x /\ at[i] <= LinkOf(r.state, i).pos
    BY <1>6, <2>2
  <2>4. Leads(r.state.map)' /\ Advances(r)'
    BY <1>2, <2>2 DEF RunInv, Leads, Advances, LinkOf
  <2>5. Reached(r)'
    <3> SUFFICES ASSUME NEW i \in Items, doc'[i] # Unborn, at'[i] <= LinkOf(r.state, i)'.pos
                 PROVE  Mirrored(i, r.state.map)' \/ \E c \in r.batch : c.item = i
      BY DEF Reached
    <3>1. i # x /\ at[i] <= LinkOf(r.state, i).pos /\ doc[i] # Unborn
      BY <1>4, <2>3
    <3> QED BY <1>5, <2>2, <3>1 DEF RunInv, Reached
  <2>6. Reported(r)'
    <3> SUFFICES ASSUME NEW c \in r.batch
                 PROVE  /\ ~LinkOf(r.state, c.item).new /\ at'[c.item] > LinkOf(stored, c.item).pos
                        /\ c.doc = doc'[c.item] \/ at'[c.item] > LinkOf(r.state, c.item).pos
                        /\ ~(doc'[c.item] = Gone /\ at'[c.item] <= LinkOf(r.state, c.item).base)
      BY <1>2 DEF Reported, LinkOf
    <3>1. c.item \in Items
      BY <2>2 DEF RoundType, ChangeType
    <3>2. /\ ~LinkOf(r.state, c.item).new /\ at[c.item] > LinkOf(stored, c.item).pos
          /\ c.doc = doc[c.item] \/ at[c.item] > LinkOf(r.state, c.item).pos
          /\ ~(doc[c.item] = Gone /\ at[c.item] <= LinkOf(r.state, c.item).base)
      BY <2>2 DEF RunInv, Reported
    <3>3. CASE c.item # x
      BY <1>4, <3>1, <3>2, <3>3
    <3>4. CASE c.item = x
      <4>1. /\ LinkOf(stored, x).pos \in Nat /\ LinkOf(stored, x).pos <= clock
            /\ LinkOf(r.state, x).pos \in Nat /\ LinkOf(r.state, x).pos <= clock
            /\ LinkOf(r.state, x).base \in Nat /\ LinkOf(r.state, x).base <= clock
            /\ clock \in Nat
        BY <1>1, <1>7, <2>2, LinkFacts DEF Sound, DeltaTyped
      <4>2. /\ clock + 1 > LinkOf(stored, x).pos /\ clock + 1 > LinkOf(r.state, x).pos
            /\ ~(clock + 1 <= LinkOf(r.state, x).base)
        BY <4>1
      <4> QED BY <1>4, <3>2, <3>4, <4>2
    <3> QED BY <3>3, <3>4
  <2> QED BY <2>2, <2>3, <2>4, <2>5, <2>6 DEF RunInv
<1> QED BY <1>2, <1>3, <1>8, <1>9, <1>10, <1>11 DEF DeltaInv

\* A step that changes what the run holds, and nothing else.
LEMMA RunAlone ==
    ASSUME DeltaInv, NEW r, run' = r, RoundType(r), RunInv(r),
           UNCHANGED <<kind, upstream, stored, vault, lost>>
    PROVE  DeltaInv'
<1>1. r # Idle /\ UNCHANGED <<kind, doc, at, clock, stored, vault, lost>>
  BY NotIdle DEF upstream
<1>2. DeltaTyped'
  BY <1>1 DEF DeltaInv, DeltaTyped, StateType, RoundType, Places, ChangeType
<1>3. Sound(stored)' /\ LinkCoversVault'
  BY <1>1 DEF DeltaInv, Sound, LinkOf, PathsOf, PagesOf, LinkCoversVault, Covered, Departs, Disabled
<1>4. RunInv(r)'
  <2>1. Sound(r.state)' /\ Leads(r.state.map)'
    BY <1>1 DEF RunInv, Sound, Leads, LinkOf, PathsOf, PagesOf
  <2>2. Reached(r)'
    BY <1>1 DEF RunInv, Reached, Mirrored, LinkOf, PathsOf, PagesOf, Departs, Disabled
  <2>3. Reported(r)' /\ Advances(r)'
    BY <1>1 DEF RunInv, Reported, Advances, LinkOf
  <2> QED BY <2>1, <2>2, <2>3 DEF RunInv
<1> QED BY <1>1, <1>2, <1>3, <1>4 DEF DeltaInv

LEMMA StartKeeps == DeltaInv /\ Start => DeltaInv'
<1> SUFFICES ASSUME DeltaInv, Start PROVE DeltaInv'
  OBVIOUS
<1> DEFINE r == [state |-> stored, groups |-> GroupsOf(kind), todo |-> <<>>, batch |-> {}]
<1>1. run = Idle /\ run' = r /\ UNCHANGED <<kind, upstream, stored, vault, lost>>
  BY DEF Start, Go
<1>2. DeltaTyped
  BY DEF DeltaInv
<1>3. RoundType(r)
  <2>1. StateType(stored) /\ GroupsOf(kind) \in Seq(Range(GroupsOf(kind)))
    BY <1>2, KindFacts DEF DeltaTyped
  <2>2. IsRecord(r, {"state", "groups", "todo", "batch"})
    BY DEF IsRecord
  <2>3. r.state = stored /\ r.groups = GroupsOf(kind) /\ r.todo = <<>> /\ r.batch = {}
    OBVIOUS
  <2> HIDE DEF r
  <2> QED BY <2>1, <2>2, <2>3 DEF RoundType
<1>4. r.state = stored /\ r.batch = {}
  OBVIOUS
<1> HIDE DEF r
<1>5. Sound(r.state) /\ Leads(r.state.map) /\ Reported(r) /\ Advances(r)
  <2>1. \A i \in Items : LinkOf(stored, i).pos \in Nat
    BY <1>2, LinkFacts DEF DeltaTyped
  <2> QED BY <1>1, <1>4, <2>1 DEF DeltaInv, Reported, Advances
<1>6. Reached(r)
  BY <1>4 DEF DeltaInv, LinkCoversVault, Covered, Reached, Mirrored, LinkOf, PathsOf
<1> QED BY <1>1, <1>3, <1>5, <1>6, RunAlone DEF RunInv

\* The listing of drives, folders and feeds.
LEMMA ListingKeeps ==
    ASSUME DeltaInv, run # Idle, run.batch = {}, NEW groups \in Seq(Range(GroupsOf(kind))), NEW todo \in Seq(Feeds(kind)),
           Go([run EXCEPT !.groups = groups, !.todo = todo]), UNCHANGED <<vault, lost>>
    PROVE  DeltaInv'
<1> DEFINE r == [run EXCEPT !.groups = groups, !.todo = todo]
<1>1. RoundType(run) /\ RunInv(run)
  BY DEF DeltaInv, DeltaTyped
<1>2. IsRecord(r, {"state", "groups", "todo", "batch"}) /\ r.state = run.state /\ r.batch = {} /\ r.groups = groups /\ r.todo = todo
  BY <1>1 DEF RoundType, IsRecord
<1>3. run' = r /\ UNCHANGED <<kind, upstream, stored, vault, lost>>
  BY DEF Go
<1> HIDE DEF r
<1>4. RoundType(r)
  BY <1>1, <1>2 DEF RoundType
<1>5. RunInv(r)
  BY <1>1, <1>2 DEF RunInv, Reached, Reported, Advances
<1> QED BY <1>3, <1>4, <1>5, RunAlone

LEMMA ListsKeep == DeltaInv /\ (ListDrives \/ ListFolders \/ OneFeed \/ DriveFails) => DeltaInv'
<1> SUFFICES ASSUME DeltaInv, ListDrives \/ ListFolders \/ OneFeed \/ DriveFails PROVE DeltaInv'
  OBVIOUS
<1>1. /\ run # Idle => RoundType(run)
      /\ \A g \in Range(GroupsOf(kind)) : FeedsIn(g) \in Seq(Feeds(kind))
  BY KindFacts DEF DeltaInv, DeltaTyped
<1>2. CASE AtListing /\ Go([run EXCEPT !.groups = Tail(@), !.todo = FeedsIn(Head(run.groups))]) /\ UNCHANGED <<vault, lost>>
  <2>1. run # Idle /\ run.batch = {} /\ run.groups \in Seq(Range(GroupsOf(kind))) /\ run.groups # <<>>
    BY <1>1, <1>2 DEF AtListing, RoundType
  <2>2. Tail(run.groups) \in Seq(Range(GroupsOf(kind))) /\ Head(run.groups) \in Range(GroupsOf(kind))
    BY <2>1
  <2>3. Go([run EXCEPT !.groups = Tail(run.groups), !.todo = FeedsIn(Head(run.groups))])
    BY <1>2
  <2> QED BY <1>1, <1>2, <2>1, <2>2, <2>3, ListingKeeps
<1>3. CASE AtListing /\ Go([run EXCEPT !.groups = Tail(@)]) /\ UNCHANGED <<vault, lost>>
  <2>1. /\ run # Idle /\ run.batch = {} /\ run.groups \in Seq(Range(GroupsOf(kind))) /\ run.groups # <<>>
        /\ run.todo \in Seq(Feeds(kind)) /\ RoundType(run)
    BY <1>1, <1>3 DEF AtListing, RoundType
  <2>2. Tail(run.groups) \in Seq(Range(GroupsOf(kind)))
    BY <2>1
  <2>3. [run EXCEPT !.groups = Tail(@)] = [run EXCEPT !.groups = Tail(run.groups), !.todo = run.todo]
    BY <2>1 DEF RoundType, IsRecord
  <2>4. Go([run EXCEPT !.groups = Tail(run.groups), !.todo = run.todo])
    BY <1>3, <2>3
  <2> QED BY <1>3, <2>1, <2>2, <2>4, ListingKeeps
<1>4. CASE DriveFails
  <2>1. /\ run # Idle /\ run.batch = {} /\ run.todo \in Seq(Feeds(kind)) /\ run.todo # <<>>
        /\ run.groups \in Seq(Range(GroupsOf(kind))) /\ RoundType(run)
    BY <1>1, <1>4 DEF DriveFails, AtRound, RoundType
  <2>2. Tail(run.todo) \in Seq(Feeds(kind))
    BY <2>1
  <2>3. [run EXCEPT !.todo = Tail(@)] = [run EXCEPT !.groups = run.groups, !.todo = Tail(run.todo)]
    BY <2>1 DEF RoundType, IsRecord
  <2>4. Go([run EXCEPT !.groups = run.groups, !.todo = Tail(run.todo)]) /\ UNCHANGED <<vault, lost>>
    BY <1>4, <2>3 DEF DriveFails
  <2> QED BY <2>1, <2>2, <2>4, ListingKeeps
<1> QED BY <1>2, <1>3, <1>4 DEF ListDrives, ListFolders, OneFeed, Lists

\* The cap cuts a round off behind a change: what came before it was fetched.
LEMMA FetchedFacts ==
    ASSUME DeltaTyped, NEW ahead \in SUBSET Items, NEW link \in LinkType, \A i \in ahead : at[i] > link.pos
    PROVE  LET pos == ResumeLink(ahead, link).pos
           IN  /\ pos \in Nat /\ pos <= clock
               /\ link.pos <= clock => link.pos <= pos
               /\ \A i \in ahead : at[i] <= pos => i \in Fetched(ahead)
<1> DEFINE before(i) == {j \in ahead : at[j] < at[i]}
           times == {at[i] : i \in Fetched(ahead)}
<1>1. \A i \in Items : at[i] \in Nat /\ at[i] <= clock
  BY DEF DeltaTyped
<1>2. clock \in Nat /\ link.pos \in Nat
  BY DEF DeltaTyped, LinkType
<1>3. ResumeLink(ahead, link).pos = IF Fetched(ahead) = ahead THEN clock ELSE Max(times)
  BY DEF ResumeLink, LinkType
<1>4. CASE Fetched(ahead) = ahead
  BY <1>2, <1>3, <1>4
<1>5. CASE Fetched(ahead) # ahead
  <2>1. ahead # {} /\ Fetched(ahead) \subseteq ahead
    BY <1>5 DEF Fetched
  <2>2. PICK first \in ahead : \A j \in ahead : at[first] <= at[j]
    <3> DEFINE all == {at[i] : i \in ahead}
    <3>1. all \in SUBSET Nat /\ all # {}
      BY <1>1, <2>1
    <3>2. PICK x \in all : \A y \in all : x <= y
      <4> HIDE DEF all
      <4> QED BY <3>1, LeastOfNats
    <3> QED BY <3>2
  <2>3. first \in Fetched(ahead)
    <3>1. before(first) = {}
      BY <1>1, <2>2
    <3>2. Cardinality(before(first)) = 0
      BY <3>1, FS_EmptySet
    <3> QED BY <3>2, MirrorAssumption DEF Fetched
  <2>4. times \in SUBSET Nat /\ times # {} /\ \A x \in times : x <= clock
    BY <1>1, <2>1, <2>3
  <2>5. Max(times) \in times /\ \A x \in times : x <= Max(times)
    <3> HIDE DEF times
    <3> QED BY <1>2, <2>4, GreatestOfNats
  <2>6. PICK last \in Fetched(ahead) : Max(times) = at[last]
    BY <2>5
  <2>7. last \in Items /\ at[last] > link.pos /\ Max(times) <= clock /\ Max(times) \in Nat
    BY <2>1, <2>4, <2>5, <2>6
  <2>8. ASSUME NEW i \in ahead, at[i] <= Max(times) PROVE i \in Fetched(ahead)
    <3>1. before(i) \subseteq before(last)
      BY <1>1, <2>6, <2>7, <2>8
    <3>2. IsFiniteSet(before(last))
      <4>1. before(last) \in SUBSET Items
        OBVIOUS
      <4> QED BY <4>1, ItemsAreFinite, FS_Subset
    <3>3. /\ Cardinality(before(i)) <= Cardinality(before(last))
          /\ Cardinality(before(i)) \in Nat /\ Cardinality(before(last)) \in Nat
      <4> HIDE DEF before
      <4> QED BY <3>1, <3>2, FS_Subset, FS_CardinalityType
    <3>4. Cardinality(before(last)) < PageCap
      BY <2>6 DEF Fetched
    <3>5. PageCap \in Nat
      BY MirrorAssumption
    <3>6. Cardinality(before(i)) < PageCap
      <4> HIDE DEF before
      <4> QED BY <3>3, <3>4, <3>5
    <3> QED BY <3>6 DEF Fetched
  <2> HIDE DEF times
  <2> QED BY <1>2, <1>3, <1>5, <2>6, <2>7, <2>8
<1> QED BY <1>4, <1>5

LEMMA RoundKeeps == DeltaInv /\ Round => DeltaInv'
<1> SUFFICES ASSUME DeltaInv, Round PROVE DeltaInv'
  OBVIOUS
<1> DEFINE f == Head(run.todo)
           old == run.state.link[f]
           link == Begun(old)
           ahead == Ahead(f, link)
           new == ResumeLink(ahead, link)
           batch == {[item |-> i, doc |-> doc[i], at |-> at[i]] : i \in Fetched(ahead)}
           r == [run EXCEPT !.todo = Tail(@), !.state.link[f] = new, !.batch = batch]
<1>1. run # Idle /\ run.batch = {} /\ run.todo # <<>> /\ run' = r /\ UNCHANGED <<kind, upstream, stored, vault, lost>>
  BY DEF Round, AtRound, Go
<1>2. DeltaTyped /\ RoundType(run) /\ RunInv(run) /\ StateType(run.state)
  BY <1>1 DEF DeltaInv, DeltaTyped, RoundType
<1>3. f \in Feeds(kind) /\ Tail(run.todo) \in Seq(Feeds(kind))
  BY <1>1, <1>2 DEF RoundType
<1>4. old \in LinkType /\ clock \in Nat
  BY <1>2, <1>3 DEF StateType, DeltaTyped
<1> HIDE DEF f
<1>5. /\ link \in LinkType /\ ~link.new /\ link.pos = (IF old.new THEN 0 ELSE old.pos)
      /\ link.base = (IF old.new THEN clock ELSE old.base)
  BY <1>4 DEF Begun, LinkType
<1> HIDE DEF old, link
<1>6. \A i \in ahead : i \in Items /\ FeedOf(kind, i) = f /\ doc[i] # Unborn /\ at[i] > link.pos /\ (doc[i] = Gone => at[i] > link.base)
  BY DEF Ahead
<1>7. new \in LinkType /\ new.base = link.base /\ ~new.new
      /\ new.pos \in Nat /\ new.pos <= clock /\ (link.pos <= clock => link.pos <= new.pos)
      /\ \A i \in ahead : at[i] <= new.pos => i \in Fetched(ahead)
  <2>1. ahead \in SUBSET Items
    BY <1>6
  <2>2. /\ new.pos \in Nat /\ new.pos <= clock /\ (link.pos <= clock => link.pos <= new.pos)
        /\ \A i \in ahead : at[i] <= new.pos => i \in Fetched(ahead)
    <3> HIDE DEF ahead
    <3> QED BY <1>2, <1>5, <1>6, <2>1, FetchedFacts
  <2>3. \E pos : new = [link EXCEPT !.pos = pos]
    BY DEF ResumeLink
  <2>4. new \in LinkType /\ new.base = link.base /\ ~new.new
    <3>1. PICK pos : new = [link EXCEPT !.pos = pos]
      BY <2>3
    <3>2. new.pos = pos
      BY <1>5, <3>1 DEF LinkType
    <3> HIDE DEF new
    <3> QED BY <1>5, <2>2, <3>1, <3>2 DEF LinkType
  <2> QED BY <2>2, <2>4
<1>8. batch \subseteq ChangeType
  <2>1. Fetched(ahead) \subseteq ahead
    BY DEF Fetched
  <2>2. \A i \in ahead : at[i] \in Nat /\ doc[i] \in DocsOf(kind) \cup {Gone}
    BY <1>2, <1>6 DEF DeltaTyped
  <2> HIDE DEF ahead
  <2> QED BY <1>6, <2>1, <2>2 DEF ChangeType
<1> HIDE DEF new, batch
<1>9. /\ IsRecord(r, {"state", "groups", "todo", "batch"}) /\ r.groups = run.groups /\ r.todo = Tail(run.todo) /\ r.batch = batch
      /\ IsRecord(r.state, {"link", "map"}) /\ r.state.map = run.state.map
      /\ r.state.link = [run.state.link EXCEPT ![f] = new]
  BY <1>2 DEF RoundType, StateType, IsRecord
<1>10. /\ r.state.link \in [Feeds(kind) -> LinkType]
       /\ r.state.link[f] = new /\ \A g \in Feeds(kind) : g # f => r.state.link[g] = run.state.link[g]
  BY <1>2, <1>3, <1>7, <1>9 DEF StateType
<1> HIDE DEF r
<1>11. RoundType(r)
  BY <1>2, <1>3, <1>8, <1>9, <1>10 DEF RoundType, StateType
<1>12. \A i \in Items : LinkOf(r.state, i) = IF FeedOf(kind, i) = f THEN new ELSE LinkOf(run.state, i)
  BY <1>2, <1>10, KindFacts DEF LinkOf
<1>13. \A i \in Items : FeedOf(kind, i) = f => LinkOf(run.state, i) = old
  BY DEF LinkOf, old
<1>14. \A i \in Items : /\ LinkOf(run.state, i).pos \in Nat /\ LinkOf(stored, i).pos \in Nat
                        /\ LinkOf(run.state, i).pos <= clock /\ LinkOf(run.state, i).base <= clock
                        /\ LinkOf(run.state, i).base \in Nat
                        /\ at[i] \in Nat /\ at[i] > 0
  BY <1>2, LinkFacts DEF RunInv, Sound, DeltaInv, DeltaTyped
<1>15. \A i \in Items : FeedOf(kind, i) = f => link.pos <= clock /\ link.base <= clock /\ LinkOf(run.state, i).pos <= link.pos
  BY <1>4, <1>5, <1>13, <1>14, <1>2 DEF RunInv, Sound, LinkType
\* Of the items of the feed that the new link covers, what was gone has no page.
<1>16. \A i \in Items : FeedOf(kind, i) = f /\ doc[i] = Gone /\ at[i] <= link.base => PathsOf(i) \subseteq lost
  <2> SUFFICES ASSUME NEW i \in Items, FeedOf(kind, i) = f, doc[i] = Gone, at[i] <= link.base
               PROVE  PathsOf(i) \subseteq lost
    OBVIOUS
  <2>1. CASE old.new
    <3>1. run.state.map[i] = None
      BY <1>2, <1>13, <2>1 DEF RunInv, Sound
    <3>2. \A p \in PagesOf(i) : p.place # None /\ p.item = i
      BY <1>2 DEF DeltaTyped, PagesOf
    <3> QED BY <1>2, <3>1, <3>2 DEF RunInv, Leads, PathsOf, PagesOf
  <2>2. CASE ~old.new
    <3>1. at[i] <= old.base
      BY <1>5, <2>2
    <3> QED BY <1>2, <1>13, <2>2, <3>1 DEF RunInv, Sound
  <2> QED BY <2>1, <2>2
<1>17. Sound(r.state)
  <2> SUFFICES ASSUME NEW i \in Items
               PROVE  /\ LinkOf(r.state, i).pos <= clock /\ LinkOf(r.state, i).base <= clock
                      /\ LinkOf(r.state, i).new => r.state.map[i] = None /\ LinkOf(r.state, i).pos = 0
                      /\ doc[i] = Gone /\ ~LinkOf(r.state, i).new /\ at[i] <= LinkOf(r.state, i).base => PathsOf(i) \subseteq lost
    BY DEF Sound
  <2>1. CASE FeedOf(kind, i) = f
    BY <1>7, <1>12, <1>15, <1>16, <2>1
  <2>2. CASE FeedOf(kind, i) # f
    BY <1>2, <1>9, <1>12, <2>2 DEF RunInv, Sound
  <2> QED BY <2>1, <2>2
<1>18. Reached(r)
  <2> SUFFICES ASSUME NEW i \in Items, doc[i] # Unborn, at[i] <= LinkOf(r.state, i).pos
               PROVE  Mirrored(i, r.state.map) \/ \E c \in r.batch : c.item = i
    BY DEF Reached
  <2>1. at[i] <= LinkOf(run.state, i).pos => Mirrored(i, r.state.map)
    BY <1>1, <1>2, <1>9 DEF RunInv, Reached
  <2>2. CASE FeedOf(kind, i) # f
    BY <1>12, <2>1, <2>2
  <2>3. CASE FeedOf(kind, i) = f /\ i \in ahead
    <3>1. i \in Fetched(ahead)
      BY <1>7, <1>12, <2>3
    <3> DEFINE c == [item |-> i, doc |-> doc[i], at |-> at[i]]
    <3>2. c \in batch /\ c.item = i
      BY <3>1 DEF batch
    <3> HIDE DEF c
    <3> QED BY <1>9, <3>2
  <2>4. CASE FeedOf(kind, i) = f /\ i \notin ahead
    <3>1. ~(at[i] > link.pos) \/ (doc[i] = Gone /\ ~(at[i] > link.base))
      BY <2>4 DEF Ahead
    <3>2. CASE ~(at[i] > link.pos)
      <4>1. at[i] <= link.pos /\ ~old.new
        BY <1>5, <1>14, <3>2 DEF LinkType
      <4>2. at[i] <= LinkOf(run.state, i).pos
        BY <1>5, <1>13, <2>4, <4>1
      <4> QED BY <2>1, <4>2
    <3>3. CASE doc[i] = Gone /\ ~(at[i] > link.base)
      <4>1. at[i] <= link.base
        BY <1>5, <1>14, <3>3 DEF LinkType
      <4> QED BY <1>16, <2>4, <3>3, <4>1 DEF Mirrored, Departs
    <3> QED BY <3>1, <3>2, <3>3
  <2> QED BY <2>2, <2>3, <2>4
<1>19. Advances(r)
  <2> SUFFICES ASSUME NEW i \in Items
               PROVE  /\ LinkOf(stored, i).pos <= LinkOf(r.state, i).pos
                      /\ ~LinkOf(stored, i).new => ~LinkOf(r.state, i).new /\ LinkOf(r.state, i).base = LinkOf(stored, i).base
    BY DEF Advances
  <2>1. /\ LinkOf(stored, i).pos <= LinkOf(run.state, i).pos
        /\ ~LinkOf(stored, i).new => ~LinkOf(run.state, i).new /\ LinkOf(run.state, i).base = LinkOf(stored, i).base
    BY <1>2 DEF RunInv, Advances
  <2>2. CASE FeedOf(kind, i) = f
    <3>1. LinkOf(stored, i).pos <= new.pos
      <4>1. LinkOf(stored, i).pos \in Nat /\ LinkOf(run.state, i).pos \in Nat /\ link.pos \in Nat /\ new.pos \in Nat
        BY <1>5, <1>7, <1>14 DEF LinkType
      <4>2. LinkOf(run.state, i).pos <= link.pos /\ link.pos <= new.pos
        BY <1>7, <1>15, <2>2
      <4> QED BY <2>1, <4>1, <4>2
    <3> QED BY <1>5, <1>7, <1>12, <1>13, <2>1, <2>2, <3>1
  <2>3. CASE FeedOf(kind, i) # f
    BY <1>12, <2>1, <2>3
  <2> QED BY <2>2, <2>3
<1>20. Reported(r)
  <2> SUFFICES ASSUME NEW c \in r.batch
               PROVE  /\ ~LinkOf(r.state, c.item).new /\ at[c.item] > LinkOf(stored, c.item).pos
                      /\ c.doc = doc[c.item]
                      /\ ~(doc[c.item] = Gone /\ at[c.item] <= LinkOf(r.state, c.item).base)
    BY DEF Reported
  <2>1. PICK i \in Fetched(ahead) : c = [item |-> i, doc |-> doc[i], at |-> at[i]]
    BY <1>9 DEF batch
  <2>2. i \in ahead /\ c.item = i /\ c.doc = doc[i]
    BY <2>1 DEF Fetched
  <2> HIDE DEF ahead
  <2>3. i \in Items /\ LinkOf(r.state, i) = new /\ at[i] > link.pos /\ (doc[i] = Gone => at[i] > link.base)
    BY <1>6, <1>12, <2>2
  <2>4. LinkOf(stored, i).pos <= LinkOf(run.state, i).pos /\ LinkOf(run.state, i).pos <= link.pos
    BY <1>2, <1>6, <1>15, <2>2 DEF RunInv, Advances
  <2>5. LinkOf(stored, i).pos \in Nat /\ LinkOf(run.state, i).pos \in Nat /\ link.pos \in Nat /\ link.base \in Nat /\ at[i] \in Nat
    BY <1>5, <1>14, <2>3 DEF LinkType
  <2> QED BY <1>7, <2>2, <2>3, <2>4, <2>5
<1>21. Leads(r.state.map)
  BY <1>2, <1>9 DEF RunInv
<1> QED BY <1>1, <1>11, <1>17, <1>18, <1>19, <1>20, <1>21, RunAlone DEF RunInv

\* An item of the batch is done with: of what the others have nothing changes, and its
\* own pages are on the map or lost, and as it is if it still is as reported.
LEMMA HandledKeeps ==
    ASSUME DeltaInv, run # Idle, NEW c \in run.batch, NEW r, run' = r,
           IsRecord(r, {"state", "groups", "todo", "batch"}), r.groups = run.groups, r.todo = run.todo,
           r.batch = run.batch \ {c}, IsRecord(r.state, {"link", "map"}), r.state.link = run.state.link,
           r.state.map \in [Items -> Places], \A j \in Items : j # c.item => r.state.map[j] = run.state.map[j],
           UNCHANGED <<kind, upstream, stored>>,
           \A p : p.item # c.item => (p \in vault' <=> p \in vault),
           \A p \in vault' : p.item = c.item =>
               p.place # None /\ (p.place = r.state.map[p.item] \/ <<p.item, p.place>> \in lost'),
           \A j, x : j # c.item => (<<j, x>> \in lost' <=> <<j, x>> \in lost),
           c.doc = doc[c.item] => Mirrored(c.item, r.state.map)'
    PROVE  DeltaInv'
<1>1. DeltaTyped /\ RoundType(run) /\ RunInv(run) /\ UNCHANGED <<kind, doc, at, clock, stored>>
  BY DEF DeltaInv, DeltaTyped, upstream
<1>2. c.item \in Items
  BY <1>1 DEF RoundType, ChangeType
<1>3. RoundType(r) /\ r # Idle
  <2>1. RoundType(r)
    BY <1>1 DEF RoundType, StateType
  <2> QED BY <2>1, NotIdle
<1>4. DeltaTyped'
  <2>1. \A p \in vault' : p.item \in Items /\ p.place # None
    BY <1>1, <1>2 DEF DeltaTyped
  <2>2. StateType(stored)' /\ RoundType(r)'
    BY <1>1, <1>3 DEF DeltaTyped, StateType, RoundType, Places, ChangeType
  <2> QED BY <1>1, <2>1, <2>2 DEF DeltaTyped
<1>5. \A j \in Items : j # c.item => PagesOf(j)' = PagesOf(j)
  BY DEF PagesOf
<1>6. \A j \in Items : j # c.item => (PathsOf(j)' \subseteq lost' <=> PathsOf(j) \subseteq lost)
  <2> SUFFICES ASSUME NEW j \in Items, j # c.item PROVE PathsOf(j)' \subseteq lost' <=> PathsOf(j) \subseteq lost
    OBVIOUS
  <2>1. \A p \in PagesOf(j) : p.item = j
    BY DEF PagesOf
  <2>2. PathsOf(j)' = PathsOf(j) /\ \A y \in PathsOf(j) : y \in lost' <=> y \in lost
    BY <1>5, <2>1 DEF PathsOf
  <2> QED BY <2>2
<1>7. \A j \in Items : j # c.item => \A map, new : new[j] = map[j] => (Mirrored(j, new)' <=> Mirrored(j, map))
  <2> SUFFICES ASSUME NEW j \in Items, j # c.item, NEW map, NEW new, new[j] = map[j]
               PROVE  Mirrored(j, new)' <=> Mirrored(j, map)
    OBVIOUS
  <2>1. doc' = doc /\ PagesOf(j)' = PagesOf(j) /\ (PathsOf(j)' \subseteq lost' <=> PathsOf(j) \subseteq lost)
    BY <1>1, <1>5, <1>6
  <2> QED BY <2>1 DEF Mirrored, Departs, Disabled
\* Neither link covers what is gone from the batch but once it is mirrored.
<1>8. /\ ~LinkOf(run.state, c.item).new /\ at[c.item] > LinkOf(stored, c.item).pos
      /\ c.doc = doc[c.item] \/ at[c.item] > LinkOf(run.state, c.item).pos
      /\ ~(doc[c.item] = Gone /\ at[c.item] <= LinkOf(run.state, c.item).base)
  BY <1>1 DEF RunInv, Reported
<1>9. \A i \in Items : LinkOf(r.state, i) = LinkOf(run.state, i)
  BY DEF LinkOf
<1>10. /\ ~LinkOf(stored, c.item).new => LinkOf(run.state, c.item).base = LinkOf(stored, c.item).base
       /\ LinkOf(stored, c.item).pos \in Nat /\ LinkOf(run.state, c.item).pos \in Nat /\ at[c.item] \in Nat
  BY <1>1, <1>2, LinkFacts DEF RunInv, Advances, DeltaTyped, RoundType
<1>11. Sound(stored)'
  <2> SUFFICES ASSUME NEW i \in Items
               PROVE  /\ LinkOf(stored, i).pos <= clock /\ LinkOf(stored, i).base <= clock
                      /\ LinkOf(stored, i).new => stored.map[i] = None /\ LinkOf(stored, i).pos = 0
                      /\ doc[i] = Gone /\ ~LinkOf(stored, i).new /\ at[i] <= LinkOf(stored, i).base
                            => PathsOf(i)' \subseteq lost'
    BY <1>1 DEF Sound, LinkOf
  <2> QED BY <1>6, <1>8, <1>10 DEF DeltaInv, Sound
<1>12. Sound(r.state)'
  <2> SUFFICES ASSUME NEW i \in Items
               PROVE  /\ LinkOf(r.state, i).pos <= clock /\ LinkOf(r.state, i).base <= clock
                      /\ LinkOf(r.state, i).new => r.state.map[i] = None /\ LinkOf(r.state, i).pos = 0
                      /\ doc[i] = Gone /\ ~LinkOf(r.state, i).new /\ at[i] <= LinkOf(r.state, i).base
                            => PathsOf(i)' \subseteq lost'
    BY <1>1 DEF Sound, LinkOf
  <2> QED BY <1>1, <1>6, <1>8, <1>9 DEF RunInv, Sound
<1>13. LinkCoversVault'
  <2> SUFFICES ASSUME NEW i \in Items, Covered(i)' PROVE Mirrored(i, stored.map)'
    BY DEF LinkCoversVault, Mirrored, PathsOf
  <2>1. Covered(i) /\ at[i] <= LinkOf(stored, i).pos
    BY <1>1 DEF Covered, LinkOf
  <2>2. i # c.item
    BY <1>8, <1>10, <2>1
  <2>3. Mirrored(i, stored.map)
    BY <2>1 DEF DeltaInv, LinkCoversVault, Mirrored, PathsOf
  <2> QED BY <1>1, <1>7, <2>2, <2>3
<1>14. Leads(r.state.map)'
  <2> SUFFICES ASSUME NEW p \in vault', p.item # c.item
               PROVE  p.place = r.state.map[p.item] \/ <<p.item, p.place>> \in lost'
    BY DEF Leads
  <2>1. p \in vault /\ p.item \in Items
    BY <1>1 DEF DeltaTyped
  <2>2. p.place = run.state.map[p.item] \/ <<p.item, p.place>> \in lost
    BY <1>1, <2>1 DEF RunInv, Leads
  <2> QED BY <2>1, <2>2
<1>15. Reached(r)'
  <2> SUFFICES ASSUME NEW i \in Items, doc[i] # Unborn, at[i] <= LinkOf(run.state, i).pos
               PROVE  Mirrored(i, r.state.map)' \/ \E d \in r.batch : d.item = i
    BY <1>1 DEF Reached, LinkOf
  <2>1. CASE i = c.item
    BY <1>8, <1>10, <2>1
  <2>2. CASE i # c.item
    <3>1. Mirrored(i, run.state.map) \/ \E d \in run.batch : d.item = i
      BY <1>1 DEF RunInv, Reached
    <3>2. Mirrored(i, run.state.map) => Mirrored(i, r.state.map)'
      BY <1>7, <2>2
    <3> QED BY <2>2, <3>1, <3>2
  <2> QED BY <2>1, <2>2
<1>16. Reported(r)' /\ Advances(r)'
  BY <1>1 DEF RunInv, Reported, Advances, LinkOf
<1> QED BY <1>3, <1>4, <1>11, <1>12, <1>13, <1>14, <1>15, <1>16 DEF DeltaInv, RunInv

LEMMA OldestFacts == DeltaInv /\ AtItem => Oldest \in run.batch /\ Oldest.item \in Items /\ Oldest.doc \in DocsOf(kind) \cup {Gone}
<1> SUFFICES ASSUME DeltaInv, AtItem PROVE Oldest \in run.batch /\ Oldest.item \in Items /\ Oldest.doc \in DocsOf(kind) \cup {Gone}
  OBVIOUS
<1>1. run.batch \subseteq ChangeType /\ run.batch # {}
  BY DEF DeltaInv, DeltaTyped, RoundType, AtItem
<1> DEFINE times == {c.at : c \in run.batch}
<1>2. times \in SUBSET Nat /\ times # {}
  BY <1>1 DEF ChangeType
<1>3. PICK x \in times : \A y \in times : x <= y
  <2> HIDE DEF times
  <2> QED BY <1>2, LeastOfNats
<1>4. \E c \in run.batch : \A d \in run.batch : c.at <= d.at
  BY <1>3
<1>5. Oldest \in run.batch
  BY <1>4 DEF Oldest
<1> QED BY <1>1, <1>5 DEF ChangeType

\* An item whose report asks for nothing.
LEMMA SkipKeeps ==
    ASSUME DeltaInv, AtItem, Skip, Oldest.doc \in DocsOf(kind), ~Departs(Oldest.doc),
           Oldest.doc.sort \in {"folder", "unnamed"}
    PROVE  DeltaInv'
<1>a. PICK c : c = Oldest
  OBVIOUS
<1>b. PICK r : r = [run EXCEPT !.batch = Rest]
  OBVIOUS
<1>1. c \in run.batch /\ c.item \in Items /\ run # Idle /\ RoundType(run) /\ RunInv(run)
  BY <1>a, OldestFacts DEF AtItem, DeltaInv, DeltaTyped
<1>2. run' = r /\ UNCHANGED <<kind, upstream, stored, vault, lost, doc>>
  BY <1>b DEF Skip, Go, upstream
<1>3. /\ IsRecord(r, {"state", "groups", "todo", "batch"}) /\ r.groups = run.groups /\ r.todo = run.todo
      /\ r.batch = run.batch \ {c} /\ r.state = run.state
  BY <1>a, <1>b, <1>1 DEF RoundType, IsRecord, Rest
<1>4. IsRecord(run.state, {"link", "map"}) /\ run.state.map \in [Items -> Places]
  BY <1>1 DEF RoundType, StateType
<1>5. \A p \in vault : p.place # None /\ (p.place = run.state.map[p.item] \/ <<p.item, p.place>> \in lost)
  BY <1>1 DEF DeltaInv, DeltaTyped, RunInv, Leads
<1>6. c.doc = doc[c.item] => Mirrored(c.item, r.state.map)'
  BY <1>a, <1>2 DEF Mirrored, Departs, Disabled
<1>7. \A p \in vault' : p.place # None /\ (p.place = r.state.map[p.item] \/ <<p.item, p.place>> \in lost')
  BY <1>2, <1>3, <1>5
<1>8. vault' = vault /\ lost' = lost /\ UNCHANGED <<kind, upstream, stored>>
  BY <1>2
<1> QED BY <1>1, <1>2, <1>3, <1>4, <1>6, <1>7, <1>8, HandledKeeps

\* An item that is gone, or hidden.
LEMMA DepartKeeps ==
    ASSUME DeltaInv, AtItem, Depart(Oldest.item), Departs(Oldest.doc)
    PROVE  DeltaInv'
<1>a. PICK c : c = Oldest
  OBVIOUS
<1>b. PICK i : i = c.item
  OBVIOUS
<1>c. PICK place : place = run.state.map[i]
  OBVIOUS
<1>d. PICK r : r = [run EXCEPT !.batch = Rest, !.state.map[i] = None]
  OBVIOUS
<1>1. c \in run.batch /\ c.item \in Items /\ i \in Items /\ i = c.item /\ run # Idle /\ RoundType(run) /\ RunInv(run)
  BY <1>a, <1>b, OldestFacts DEF AtItem, DeltaInv, DeltaTyped
<1>2. /\ run' = r /\ UNCHANGED <<kind, upstream, stored>> /\ doc' = doc
      /\ vault' = {p \in vault : <<p.item, p.place>> # <<i, place>>}
      /\ lost' = lost \ {<<i, place>>}
  BY <1>a, <1>b, <1>c, <1>d DEF Depart, Go, upstream
<1>3. /\ IsRecord(r, {"state", "groups", "todo", "batch"}) /\ r.groups = run.groups /\ r.todo = run.todo
      /\ r.batch = run.batch \ {c} /\ IsRecord(r.state, {"link", "map"})
      /\ r.state.link = run.state.link /\ r.state.map = [run.state.map EXCEPT ![i] = None]
  BY <1>a, <1>d, <1>1 DEF RoundType, StateType, IsRecord, Rest
<1>4. run.state.map \in [Items -> Places] /\ None \in Places
  BY <1>1 DEF RoundType, StateType, Places
<1>5. r.state.map \in [Items -> Places] /\ \A j \in Items : j # i => r.state.map[j] = run.state.map[j]
  BY <1>1, <1>3, <1>4
<1>6. \A p \in vault : p.place # None /\ (p.place = run.state.map[p.item] \/ <<p.item, p.place>> \in lost)
  BY <1>1 DEF DeltaInv, DeltaTyped, RunInv, Leads
<1>7. \A p \in vault' : p \in vault /\ (p.item = i => p.place # place)
  BY <1>2
<1>8. \A p \in vault' : p.item = i => p.place # None /\ <<p.item, p.place>> \in lost'
  <2> SUFFICES ASSUME NEW p \in vault', p.item = i PROVE p.place # None /\ <<p.item, p.place>> \in lost'
    OBVIOUS
  <2>1. p.place # None /\ <<p.item, p.place>> \in lost
    BY <1>c, <1>6, <1>7
  <2>2. <<p.item, p.place>> # <<i, place>>
    BY <1>7
  <2> QED BY <1>2, <2>1, <2>2
<1>9. \A p : p.item # i => (p \in vault' <=> p \in vault)
  BY <1>2
<1>10. \A j, x : j # i => (<<j, x>> \in lost' <=> <<j, x>> \in lost)
  BY <1>2
<1>11. PathsOf(i)' \subseteq lost'
  BY <1>8 DEF PathsOf, PagesOf
<1>12. c.doc = doc[c.item] => Mirrored(c.item, r.state.map)'
  <2> SUFFICES ASSUME c.doc = doc[c.item] PROVE Mirrored(c.item, r.state.map)'
    OBVIOUS
  <2>1. Departs(doc'[c.item])
    BY <1>a, <1>2
  <2> QED BY <1>1, <1>11, <2>1 DEF Mirrored, Departs, Disabled
<1> QED BY <1>1, <1>2, <1>3, <1>5, <1>8, <1>9, <1>10, <1>12, HandledKeeps

\* A page is written where the item was reported, and the map says so.
LEMMA WriteKeeps ==
    ASSUME DeltaInv, AtItem, NEW page0, Write(page0), Oldest.doc \in DocsOf(kind),
           page0.item = Oldest.item, page0.place = Oldest.doc.place, ~Departs(Oldest.doc),
           Oldest.doc = doc[Oldest.item] =>
               page0.meta = Oldest.doc /\ (page0.status = "converted" => page0.body = Oldest.doc.ver)
    PROVE  DeltaInv'
<1>a. PICK c : c = Oldest
  OBVIOUS
<1>b. PICK i : i = c.item
  OBVIOUS
<1>c. PICK place : place = c.doc.place
  OBVIOUS
<1>d. PICK old : old = run.state.map[i]
  OBVIOUS
<1>e. PICK r : r = [run EXCEPT !.batch = Rest, !.state = Mapped(i, place)]
  OBVIOUS
<1>1. c \in run.batch /\ c.item \in Items /\ i \in Items /\ i = c.item /\ run # Idle /\ RoundType(run) /\ RunInv(run)
  BY <1>a, <1>b, OldestFacts DEF AtItem, DeltaInv, DeltaTyped
<1>2. /\ run' = r /\ UNCHANGED <<kind, upstream, stored>> /\ doc' = doc
      /\ vault' = {q \in vault : <<q.item, q.place>> # <<i, place>>} \cup {page0}
      /\ lost' = (lost \cup {<<q.item, q.place>> : q \in {x \in vault : x.item = i /\ x.place = old}}) \ {<<i, place>>}
  BY <1>a, <1>b, <1>c, <1>d, <1>e DEF Write, Go, upstream
<1>3. /\ IsRecord(r, {"state", "groups", "todo", "batch"}) /\ r.groups = run.groups /\ r.todo = run.todo
      /\ r.batch = run.batch \ {c} /\ IsRecord(r.state, {"link", "map"})
      /\ r.state.link = run.state.link /\ r.state.map = [run.state.map EXCEPT ![i] = place]
  BY <1>a, <1>e, <1>1 DEF RoundType, StateType, IsRecord, Rest, Mapped
<1>4. run.state.map \in [Items -> Places] /\ place \in Places /\ place # None
  BY <1>a, <1>c, <1>1, KindFacts DEF RoundType, StateType, DeltaInv
<1>5. page0.item = i /\ page0.place = place
  BY <1>a, <1>b, <1>c
<1>6. c.doc.place = place /\ ~Departs(c.doc)
      /\ (c.doc = doc[i] => page0.meta = c.doc /\ (page0.status = "converted" => page0.body = c.doc.ver))
  BY <1>a, <1>b, <1>c
<1>7. /\ r.state.map \in [Items -> Places] /\ r.state.map[i] = place
      /\ \A j \in Items : j # i => r.state.map[j] = run.state.map[j]
  BY <1>1, <1>3, <1>4
<1>8. \A p \in vault : p.place # None /\ (p.place = run.state.map[p.item] \/ <<p.item, p.place>> \in lost)
  BY <1>1 DEF DeltaInv, DeltaTyped, RunInv, Leads
<1>9. \A p \in vault' : p.item = i => p.place # None /\ (p.place = r.state.map[p.item] \/ <<p.item, p.place>> \in lost')
  <2> SUFFICES ASSUME NEW p \in vault', p.item = i, p # page0
               PROVE  p.place # None /\ (p.place = r.state.map[p.item] \/ <<p.item, p.place>> \in lost')
    BY <1>4, <1>5, <1>7
  <2>1. p \in vault /\ p.place # place
    BY <1>2
  <2>2. p.place = old \/ <<p.item, p.place>> \in lost
    BY <1>d, <1>8, <2>1
  <2>3. <<p.item, p.place>> # <<i, place>>
    BY <2>1
  <2>4. p.place = old => <<p.item, p.place>> \in {<<q.item, q.place>> : q \in {x \in vault : x.item = i /\ x.place = old}}
    BY <2>1
  <2> QED BY <1>2, <1>8, <2>1, <2>2, <2>3, <2>4
<1>10. \A p : p.item # i => (p \in vault' <=> p \in vault)
  BY <1>2, <1>5
<1>11. \A j, x : j # i => (<<j, x>> \in lost' <=> <<j, x>> \in lost)
  BY <1>2
<1>12. c.doc = doc[c.item] => Mirrored(c.item, r.state.map)'
  <2> SUFFICES ASSUME c.doc = doc[c.item] PROVE Mirrored(c.item, r.state.map)'
    OBVIOUS
  <2>1. ~Departs(doc'[i]) /\ doc'[i].place = place /\ r.state.map[i] = place
    BY <1>1, <1>2, <1>6, <1>7
  <2>2. page0 \in PagesOf(i)'
    BY <1>2, <1>5 DEF PagesOf
  <2>3. page0.place = doc'[i].place /\ page0.meta = doc'[i] /\ (page0.status = "converted" => page0.body = doc'[i].ver)
    BY <1>1, <1>2, <1>5, <1>6, <2>1
  <2> QED BY <1>1, <2>1, <2>2, <2>3 DEF Mirrored
<1> QED BY <1>1, <1>2, <1>3, <1>7, <1>9, <1>10, <1>11, <1>12, HandledKeeps

\* A run that ends without a state leaves pages behind that no entry leads to.
LEMMA EndsKeeps == DeltaInv /\ run # Idle /\ Ends => DeltaInv'
<1> SUFFICES ASSUME DeltaInv, run # Idle, Ends PROVE DeltaInv'
  OBVIOUS
<1>1. /\ run' = Idle /\ lost' = lost \cup Unmapped(vault, stored.map)
      /\ UNCHANGED <<kind, doc, at, clock, stored, vault>>
  BY DEF Ends, Go, upstream
<1>2. DeltaTyped'
  BY <1>1 DEF DeltaInv, DeltaTyped, StateType, Places
<1>3. lost \subseteq lost' /\ \A i \in Items : PathsOf(i)' = PathsOf(i)
  BY <1>1 DEF PathsOf, PagesOf
<1>4. Sound(stored)'
  <2> SUFFICES ASSUME NEW i \in Items
               PROVE  /\ LinkOf(stored, i).pos <= clock /\ LinkOf(stored, i).base <= clock
                      /\ LinkOf(stored, i).new => stored.map[i] = None /\ LinkOf(stored, i).pos = 0
                      /\ doc[i] = Gone /\ ~LinkOf(stored, i).new /\ at[i] <= LinkOf(stored, i).base
                            => PathsOf(i)' \subseteq lost'
    BY <1>1 DEF Sound, LinkOf
  <2> QED BY <1>3 DEF DeltaInv, Sound
<1>5. LinkCoversVault'
  <2> SUFFICES ASSUME NEW i \in Items, Covered(i)' PROVE Mirrored(i, stored.map)'
    BY DEF LinkCoversVault, Mirrored, PathsOf
  <2>1. Covered(i)
    BY <1>1 DEF Covered
  <2>2. Mirrored(i, stored.map)
    BY <2>1 DEF DeltaInv, LinkCoversVault, Mirrored, PathsOf
  <2>3. PagesOf(i)' = PagesOf(i)
    BY <1>1 DEF PagesOf
  <2> QED BY <1>1, <1>3, <2>2, <2>3 DEF Mirrored, Departs, Disabled
<1>6. Leads(stored.map)'
  BY <1>1 DEF Leads, Unmapped
<1> QED BY <1>1, <1>2, <1>4, <1>5, <1>6 DEF DeltaInv

LEMMA CommitKeeps == DeltaInv /\ Commit => DeltaInv'
<1> SUFFICES ASSUME DeltaInv, Commit PROVE DeltaInv'
  OBVIOUS
<1>1. PICK s : s = run.state
  OBVIOUS
<1>2. /\ run # Idle /\ run.batch = {} /\ RoundType(run) /\ RunInv(run) /\ DeltaTyped
      /\ stored' = s /\ run' = Idle /\ UNCHANGED <<kind, doc, at, clock, vault, lost>>
  BY <1>1 DEF Commit, DeltaInv, DeltaTyped, upstream
<1>3. StateType(s) /\ Sound(s) /\ Leads(s.map)
  BY <1>1, <1>2 DEF RoundType, RunInv
<1>4. DeltaTyped'
  BY <1>2, <1>3 DEF DeltaTyped, StateType, Places
<1>5. Sound(s)' /\ Leads(s.map)'
  BY <1>2, <1>3 DEF Sound, Leads, LinkOf, PathsOf, PagesOf
<1>6. LinkCoversVault'
  <2> SUFFICES ASSUME NEW i \in Items, at[i] <= LinkOf(s, i).pos, doc[i] # Unborn PROVE Mirrored(i, s.map)'
    BY <1>2 DEF LinkCoversVault, Mirrored, PathsOf, Covered, LinkOf
  <2>1. Mirrored(i, s.map)
    BY <1>1, <1>2 DEF RunInv, Reached
  <2>2. PagesOf(i)' = PagesOf(i)
    BY <1>2 DEF PagesOf
  <2> QED BY <1>2, <2>1, <2>2 DEF Mirrored, PathsOf, Departs, Disabled
<1>7. Sound(stored)' /\ Leads(stored.map)'
  BY <1>2, <1>5 DEF Sound, Leads, LinkOf
<1> QED BY <1>2, <1>4, <1>6, <1>7 DEF DeltaInv

LEMMA PurgeKeeps == DeltaInv /\ Purge => DeltaInv'
<1> SUFFICES ASSUME DeltaInv, Purge PROVE DeltaInv'
  OBVIOUS
<1>1. /\ run = Idle /\ vault' = {} /\ lost' = {} /\ stored' = NoState(kind) /\ run' = Idle
      /\ UNCHANGED <<kind, doc, at, clock>> /\ DeltaTyped
  BY DEF Purge, DeltaInv, upstream
<1>2. PICK s : s = NoState(kind)
  OBVIOUS
<1>3. StateType(s) /\ \A i \in Items : LinkOf(s, i) = NoLink /\ s.map[i] = None
  BY <1>1, <1>2, KindFacts DEF StateType, IsRecord, NoState, NoLink, LinkType, LinkOf, Places
<1>4. DeltaTyped'
  BY <1>1, <1>2, <1>3 DEF DeltaTyped, StateType, Places
<1>5. \A i \in Items : LinkOf(s, i)' = NoLink
  BY <1>1, <1>3 DEF LinkOf
<1>6. Sound(stored)'
  <2>1. \A i \in Items : LinkOf(stored, i)' = NoLink /\ stored'.map[i] = None
    BY <1>1, <1>2, <1>3 DEF LinkOf
  <2> QED BY <1>1, <2>1 DEF Sound, NoLink, DeltaTyped
<1>7. LinkCoversVault'
  <2> SUFFICES ASSUME NEW i \in Items, Covered(i)' PROVE FALSE
    BY DEF LinkCoversVault
  <2>1. at[i] <= LinkOf(s, i).pos
    BY <1>1, <1>2 DEF Covered, LinkOf
  <2> QED BY <1>1, <1>3, <2>1 DEF NoLink, DeltaTyped
<1> QED BY <1>1, <1>4, <1>6, <1>7 DEF DeltaInv, Leads

LEMMA HandleKeeps == DeltaInv /\ Handle => DeltaInv'
<1> SUFFICES ASSUME DeltaInv, Handle PROVE DeltaInv'
  OBVIOUS
<1> DEFINE i == Oldest.item
           d == Oldest.doc
<1>1. AtItem /\ run # Idle /\ i \in Items /\ d \in DocsOf(kind) \cup {Gone}
  BY OldestFacts DEF Handle, AtItem
<1>2. /\ \A e \in DocsOf(kind) : e.sort \in SortsOf(kind) /\ e # Gone
      /\ kind \in {"onedrive", "sharepoint", "contacts", "directory"}
  BY KindFacts DEF DeltaInv
<1>3. d # Gone => d \in DocsOf(kind) /\ d.sort \in SortsOf(kind)
  BY <1>1, <1>2
<1>4. HandleFile(i, d) \/ HandleContact(i, d) \/ HandleUser(i, d)
  BY DEF Handle
<1>5. ASSUME d # Gone, ~Departs(d), NEW p, Write(p), p.item = i, p.place = d.place,
             d = doc[i] => p.meta = d /\ (p.status = "converted" => p.body = d.ver)
      PROVE  DeltaInv'
  BY <1>1, <1>3, <1>5, WriteKeeps
<1>6. ASSUME d # Gone, ~Departs(d), d.sort \in {"folder", "unnamed"}, Skip PROVE DeltaInv'
  BY <1>1, <1>3, <1>6, SkipKeeps
<1>7. ASSUME Departs(d), Depart(i) PROVE DeltaInv'
  BY <1>1, <1>7, DepartKeeps
<1> HIDE DEF i, d
<1>8. CASE HandleFile(i, d)
  <2>1. kind \in {"onedrive", "sharepoint"}
    BY <1>8 DEF HandleFile
  <2>2. d # Gone => ~Departs(d)
    BY <1>3, <2>1 DEF Departs, Disabled, SortsOf
  <2>3. ASSUME d # Gone, NEW status, Write(FilePage(i, d, status)) PROVE DeltaInv'
    <3> DEFINE p == FilePage(i, d, status)
    <3>1. p.item = i /\ p.place = d.place /\ p.meta = d /\ p.status = status
          /\ (status = "converted" => p.body = doc[i].ver)
      BY DEF FilePage
    <3>2. Write(p)
      BY <2>3
    <3>3. d = doc[i] => p.meta = d /\ (p.status = "converted" => p.body = d.ver)
      BY <3>1
    <3> HIDE DEF p
    <3> QED BY <1>5, <2>2, <2>3, <3>1, <3>2, <3>3
  <2>4. CASE d = Gone /\ Depart(i)
    BY <1>7, <2>4 DEF Departs
  <2>5. CASE d # Gone /\ d.sort = "folder" /\ Skip
    BY <1>6, <2>2, <2>5
  <2>6. CASE d # Gone /\ d.sort = "plain" /\ Stub(i, d)
    BY <2>3, <2>6 DEF Stub
  <2>7. CASE d # Gone /\ (Eager(i, d) \/ NoUrl(i, d))
    <3>1. (\E status : Write(FilePage(i, d, status))) \/ Ends
      BY <2>7 DEF Eager, NoUrl
    <3> QED BY <1>1, <2>3, <2>7, <3>1, EndsKeeps
  <2> QED BY <1>8, <2>4, <2>5, <2>6, <2>7 DEF HandleFile
<1>9. CASE HandleContact(i, d)
  <2>1. kind = "contacts" /\ (d # Gone => ~Departs(d))
    BY <1>3, <1>9 DEF HandleContact, Departs, Disabled, SortsOf
  <2>2. CASE d = Gone /\ Depart(i)
    BY <1>7, <2>2 DEF Departs
  <2>3. CASE d # Gone /\ d.sort = "unnamed" /\ Skip
    BY <1>6, <2>1, <2>3
  <2>4. CASE d # Gone /\ Write(ContactPage(i, d))
    <3> DEFINE p == ContactPage(i, d)
    <3>1. p.item = i /\ p.place = d.place /\ p.meta = d /\ p.status # "converted" /\ Write(p)
      BY <2>4 DEF ContactPage
    <3> HIDE DEF p
    <3> QED BY <1>5, <2>1, <2>4, <3>1
  <2> QED BY <1>9, <2>2, <2>3, <2>4 DEF HandleContact
<1>10. CASE HandleUser(i, d)
  <2>1. CASE Departs(d) /\ Depart(i)
    BY <1>7, <2>1
  <2>2. CASE ~Departs(d) /\ d.sort = "unnamed" /\ Skip
    BY <1>6, <2>2 DEF Departs
  <2>3. ASSUME ~Departs(d), NEW link, Write(UserPage(i, d, link)) PROVE DeltaInv'
    <3> DEFINE p == UserPage(i, d, link)
    <3>1. p.item = i /\ p.place = d.place /\ p.meta = d /\ p.status # "converted" /\ Write(p)
      BY <2>3 DEF UserPage
    <3>2. d # Gone
      BY <2>3 DEF Departs
    <3> HIDE DEF p
    <3> QED BY <1>5, <2>3, <3>1, <3>2
  <2> QED BY <1>10, <2>1, <2>2, <2>3 DEF HandleUser
<1> QED BY <1>4, <1>8, <1>9, <1>10

LEMMA DeltaStep == DeltaInv /\ [Next]_vars => DeltaInv'
<1> SUFFICES ASSUME DeltaInv, [Next]_vars PROVE DeltaInv'
  OBVIOUS
<1>1. CASE UNCHANGED vars
  <2>1. UNCHANGED <<kind, doc, at, clock, stored, vault, run, lost>>
    BY <1>1 DEF vars
  <2>2. CASE run = Idle
    BY <2>1, <2>2 DEF DeltaInv, DeltaTyped, StateType, Places, Sound, LinkOf, PathsOf, PagesOf, LinkCoversVault, Covered, Leads, Departs, Disabled
  <2>3. CASE run # Idle
    <3>1. PICK r : r = run
      OBVIOUS
    <3>2. run' = r /\ RoundType(r) /\ RunInv(r) /\ UNCHANGED <<kind, upstream, stored, vault, lost>>
      BY <2>1, <2>3, <3>1 DEF DeltaInv, DeltaTyped, upstream
    <3> QED BY <3>2, RunAlone
  <2> QED BY <2>2, <2>3
<1>2. CASE Extractor
  BY <1>2, StartKeeps, ListsKeep, RoundKeeps, HandleKeeps, CommitKeeps DEF Extractor
<1>3. CASE Abort
  BY <1>3, EndsKeeps DEF Abort
<1>4. CASE Purge
  BY <1>4, PurgeKeeps
<1>5. CASE Upstream
  BY <1>5, ChangeKeeps DEF Upstream
<1> QED BY <1>1, <1>2, <1>3, <1>4, <1>5 DEF Next

-----------------------------------------------------------------------------
(* Every mirror, whatever part of the system a behaviour is one of *)

LEMMA MirrorsInvariant == MirrorsSpec => [](DeltaInv /\ CalendarInv /\ MediaInv)
<1>1. MirrorsInit => DeltaInv /\ CalendarInv /\ MediaInv
  BY DeltaStarts, CalendarStarts, MediaStarts DEF MirrorsInit
<1>2. DeltaInv /\ CalendarInv /\ MediaInv /\ [MirrorsNext]_allVars => (DeltaInv /\ CalendarInv /\ MediaInv)'
  <2>1. [MirrorsNext]_allVars => [Next]_vars /\ [CalendarNext]_calendarVars /\ [MediaNext]_mediaVars
    BY DEF MirrorsNext, allVars
  <2> QED BY <2>1, DeltaStep, CalendarStep, MediaStep
<1> QED BY <1>1, <1>2, PTL DEF MirrorsSpec

\* onedrive.py, sharepoint.py, contacts.py, directory.py, calendar.py, removal.py: what
\* a stored link covers, and what the calendar remembers, is in the vault as it is, and
\* every page is on the map but those that are counted as lost; _teams_ingest.py,
\* _teams_attachment_helpers.py: the text stored under an etag is that etag's, and every
\* link of a stored message leads to its file.  However many items, pages of a round,
\* edits, failures and purges there are, and whatever the messages attach.
THEOREM RecordsAlwaysLead == MirrorsSpec => []RecordsLeadToPages
<1>1. DeltaInv => LinkCoversVault /\ EveryPageHasAWayBack
  BY DEF DeltaInv, RunInv, Leads, EveryPageHasAWayBack
<1>2. CalendarInv => RememberedIsWritten
  BY DEF CalendarInv, Vouches, Written, RememberedIsWritten
<1>3. MediaInv => MediaFollows
  <2> SUFFICES ASSUME MediaInv PROVE TextIsCurrent
    BY DEF MediaInv, MediaFollows
  <2> QED BY DEF MediaInv, BodiesMatch, TextIsCurrent, IsFresh
<1> QED BY <1>1, <1>2, <1>3, MirrorsInvariant, PTL DEF RecordsLeadToPages, RecordsVouchForPages

\* _teams_ingest.py:41-46: media are taken over or downloaded anew as a message
\* changes, and a file that was refused is not asked for again.
THEOREM MediaAlwaysStay == MirrorsSpec => MediaStays
<1>1. MediaInv /\ [MirrorsNext]_allVars => [IngestsExactly]_mediaVars
  <2>1. [MirrorsNext]_allVars => [MediaNext]_mediaVars
    BY DEF MirrorsNext, allVars
  <2> QED BY <2>1, MediaStaysStep
<1> QED BY <1>1, MirrorsInvariant, PTL DEF MirrorsSpec, MediaStays

=============================================================================
