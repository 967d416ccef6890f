---------------------------- MODULE CalendarMirror ----------------------------
(***************************************************************************)
(* The calendar extractor (m365/extractors/calendar.py): each run lists a   *)
(* window of days, without a delta link, writes the events that are not as  *)
(* it remembers them, and remembers those it saw.  Days pass, events move,  *)
(* are renamed, cancelled and deleted, before, after and while a run is at  *)
(* work.                                                                    *)
(***************************************************************************)
EXTENDS Naturals, FiniteSets

CONSTANTS
    Events,
    EventDocs,       \* what an event may be: [day, subject, ver, cancelled]
    Unmade, Deleted,    \* what an event is before it is made and after it is deleted
    Nowhere,         \* no page, no entry
    Back, Forward,   \* lookback_days, forward_days
    Cap,             \* how many events the pages of one listing hold
    LastDay, MaxChanges, MaxDeaths   \* bounds

ASSUME CalendarAssumption == {Unmade, Deleted} \cap EventDocs = {}

VARIABLES
    day,      \* today
    event,    \* upstream: event -> what it is, Unmade or Deleted
    version,  \* upstream: event -> lastModifiedDateTime
    state,    \* EXTRACTOR_STATE: event_modified_times and path_map
    page,     \* the vault: (day, subject, event) -> the event it was written from
    job,      \* what the run holds
    spent     \* what is used of the bounds

calendarVars == <<day, event, version, state, page, job, spent>>

Resting == [pc |-> "idle"]
Exists(e) == event[e] \notin {Unmade, Deleted}
PlaceOf(d) == <<d.day, d.subject>>
Spots == {PlaceOf(d) : d \in EventDocs}

CalendarInit ==
    /\ day = Back /\ event \in [Events -> EventDocs \cup {Unmade}]
    /\ version = [e \in Events |-> 1]
    /\ state = [known |-> [e \in Events |-> 0], map |-> [e \in Events |-> Nowhere]]
    /\ page = [s \in Spots \X Events |-> Nowhere]
    /\ job = Resting /\ spent = [changes |-> 0, deaths |-> 0]

\* Whoever keeps the calendar.
Edit(e, d) ==
    /\ spent.changes < MaxChanges /\ spent' = [spent EXCEPT !.changes = @ + 1]
    /\ event[e] \notin {Deleted, d} /\ (event[e] = Unmade => d # Deleted)
    /\ event' = [event EXCEPT ![e] = d] /\ version' = [version EXCEPT ![e] = @ + 1]
    /\ UNCHANGED <<day, state, page, job>>
DayPasses == day < LastDay /\ day' = day + 1 /\ UNCHANGED <<event, version, state, page, job, spent>>

\* calendarView: the events of the window by their start, as many as the pages
\* up to the cap hold; of those that start together, any.  "$select" does not
\* name isCancelled, so none comes with it.
Window == {e \in Events : Exists(e) /\ event[e].day + Back >= day /\ event[e].day <= day + Forward}
Views == {v \in SUBSET Window :
            /\ Cardinality(v) = Cap \/ (v = Window /\ Cardinality(v) < Cap)
            /\ \A e \in v, f \in Window \ v : event[e].day <= event[f].day}
SelectsCancelled == FALSE
Tells(d) == SelectsCancelled /\ d.cancelled

List ==
    /\ job = Resting
    /\ \E view \in Views :
          job' = [pc |-> "events", map |-> state.map, seen |-> [e \in Events |-> 0],
                  todo |-> {[event |-> e, doc |-> event[e], ver |-> version[e]] : e \in view}]
    /\ UNCHANGED <<day, event, version, state, page, spent>>

Seen(c, map) == [job EXCEPT !.todo = @ \ {c}, !.seen[c.event] = c.ver, !.map = map]
\* Mutant: an event that was seen before is as it was.
KnownAtAll(c) == state.known[c.event] # 0
\* Skip-unchanged: the lastModifiedDateTime is the one the last listing had.
Unchanged(c) == state.known[c.event] = c.ver

\* The page of an event: its front matter, and a line for each attendee.
EventPage(c) == c.doc

\* One event: a removal, nothing, or the page and its entry.
Removal(c) ==
    /\ page' = [x \in DOMAIN page |-> IF x = <<job.map[c.event], c.event>> THEN Nowhere ELSE page[x]]
    /\ job' = [job EXCEPT !.todo = @ \ {c}, !.map[c.event] = Nowhere]
WriteEvent(c) ==
    /\ page' = [page EXCEPT ![<<PlaceOf(c.doc), c.event>>] = EventPage(c)]
    /\ job' = Seen(c, [job.map EXCEPT ![c.event] = PlaceOf(c.doc)])
\* "$orderby": the earliest first.
HandleEvent ==
    /\ job.pc = "events"
    /\ \E c \in job.todo :
          /\ \A d \in job.todo : c.doc.day <= d.doc.day
          /\ \/ Tells(c.doc) /\ Removal(c)
             \/ ~Tells(c.doc) /\ Unchanged(c) /\ job' = Seen(c, job.map) /\ UNCHANGED page
             \/ ~Tells(c.doc) /\ ~Unchanged(c) /\ WriteEvent(c)
    /\ UNCHANGED <<day, event, version, state, spent>>

\* What this listing did not show is forgotten; its entry in the map is not.
Return ==
    /\ job.pc = "events" /\ job.todo = {}
    /\ state' = [known |-> job.seen, map |-> job.map]
    /\ job' = Resting
    /\ UNCHANGED <<day, event, version, page, spent>>

\* A request or a write raises, or the process dies: the pages stay.
Die ==
    /\ job # Resting /\ spent.deaths < MaxDeaths /\ spent' = [spent EXCEPT !.deaths = @ + 1]
    /\ job' = Resting
    /\ UNCHANGED <<day, event, version, state, page>>

CalendarRun == List \/ HandleEvent \/ Return
CalendarNext == \/ CalendarRun \/ Die \/ DayPasses
                \/ \E e \in Events, d \in EventDocs \cup {Deleted} : Edit(e, d)

-----------------------------------------------------------------------------
(* Properties *)

\* What skip-unchanged trusts: an event remembered with its present time has its
\* page, as it is, where its entry says, through failures, deaths, events that
\* leave the window and come back, and edits between a listing and its writes.
RememberedIsWritten ==
    \A e \in Events : Exists(e) /\ state.known[e] = version[e] =>
        /\ state.map[e] = PlaceOf(event[e])
        /\ page[<<PlaceOf(event[e]), e>>] = event[e]

\* Once the calendar rests, an event of the window, within what the pages hold,
\* has its page as it is.
EventuallyWritten == []<>(\E view \in Views : \A e \in view : page[<<PlaceOf(event[e]), e>>] = event[e])

\* "A cancelled event used to be written as an ordinary one, so a meeting that was
\* called off still read as scheduled. It is a removal." (calendar.py:68)
CancelledIsRemoved ==
    \A e \in Events :
        /\ Exists(e) /\ event[e].cancelled /\ state.known[e] = version[e]
        => state.map[e] = Nowhere
=============================================================================
