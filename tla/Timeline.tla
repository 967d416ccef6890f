-------------------------------- MODULE Timeline --------------------------------
(***************************************************************************)
(* A message store rendered into messages.md (_message_renderer.py): a     *)
(* chat flat, a channel in threads, grouped by day.  A store is a set of   *)
(* messages [id, parent, at, deleted, edited, text, refs], at a moment     *)
(* DayOf maps to its day; the page is a sequence of blocks.                *)
(***************************************************************************)
EXTENDS Integers, Sequences, FiniteSets, SequencesExt, FiniteSetsExt

CONSTANTS Stores, DayOf(_), None
VARIABLES store, page
timelineVars == <<store, page>>

Earlier(m, n) == m.at < n.at \/ (m.at = n.at /\ m.id < n.id)
InOrder(messages) == SetToSortSeq(messages, Earlier)

Markers(m, orphaned) == (IF m.deleted THEN {"deleted"} ELSE IF m.edited THEN {"edited"} ELSE {})
                        \cup (IF orphaned THEN {"orphaned"} ELSE {})
Block(form, m, orphaned) == [form |-> form, id |-> m.id, day |-> DayOf(m.at), markers |-> Markers(m, orphaned),
                             text |-> IF m.deleted THEN "tombstone" ELSE m.text, refs |-> m.refs]
\* _reply_header: a reply of another day says so.
Dated(root, m) == IF DayOf(m.at) = DayOf(root.at) THEN "reply" ELSE "datedReply"

\* _render_top_level: a heading wherever the day of a top-level message changes.
Grouped(entries) ==
    FlattenSeq([i \in DOMAIN entries |->
        LET top == entries[i].top
        IN  (IF i = 1 \/ DayOf(entries[i - 1].top.at) # DayOf(top.at) THEN <<[form |-> "day", day |-> DayOf(top.at)]>> ELSE <<>>)
            \o entries[i].blocks])

RenderChat(s) == Grouped([i \in 1..Cardinality(s) |-> [top |-> InOrder(s)[i], blocks |-> <<Block("message", InOrder(s)[i], FALSE)>>]])

Roots(s) == {m \in s : m.parent = None}
Replies(s, root) == {m \in s : m.parent = root.id}
\* Mutant: replies to what is not there are left out.
NoOrphans(s) == {}
Orphans(s) == {m \in s : m.parent # None /\ m.parent \notin {x.id : x \in s}}
Thread(s, root) ==
    LET replies == InOrder(Replies(s, root))
    IN  <<Block("thread", root, FALSE)>> \o [i \in DOMAIN replies |-> Block(Dated(root, replies[i]), replies[i], FALSE)]
RenderChannel(s) ==
    LET tops == InOrder(Roots(s) \cup Orphans(s))
    IN  Grouped([i \in DOMAIN tops |->
            [top |-> tops[i],
             blocks |-> IF tops[i] \in Roots(s) THEN Thread(s, tops[i]) ELSE <<Block("message", tops[i], TRUE)>>]])

TimelineInit == store \in Stores /\ page = None
Render == page = None /\ UNCHANGED store
          /\ page' = IF store.of = "chat" THEN RenderChat(store.messages) ELSE RenderChannel(store.messages)

\* _message_renderer.py: every message of the store is on the page once, a reply
\* beneath its root or marked as an orphan, a deleted one without its text; the
\* days are in order, each with one heading, and so are the messages of a day and
\* the replies of a thread.
TimelineIsWhole ==
    page # None =>
        LET blocks == SelectSeq(page, LAMBDA b : b.form # "day")
            days == SelectSeq(page, LAMBDA b : b.form = "day")
            msg(b) == CHOOSE m \in store.messages : m.id = b.id
            top(i) == blocks[i].form \in {"message", "thread"}
            over(i) == Max({j \in 1..i : blocks[j].form = "thread"})
        IN  /\ Len(blocks) = Cardinality(store.messages)
            /\ {b.id : b \in Range(blocks)} = {m.id : m \in store.messages}
            /\ \A i \in DOMAIN blocks :
                  /\ msg(blocks[i]).deleted => blocks[i].text = "tombstone"
                  /\ ~top(i) => blocks[over(i)].id = msg(blocks[i]).parent /\ \A j \in over(i) + 1..i : ~top(j)
                  /\ (top(i) /\ store.of = "channel" /\ msg(blocks[i]).parent # None) => "orphaned" \in blocks[i].markers
            /\ \A i, j \in DOMAIN blocks : i < j /\ top(i) = top(j) /\ (~top(i) => over(i) = over(j))
                  => Earlier(msg(blocks[i]), msg(blocks[j]))
            /\ \A i \in 1..Len(days) - 1 : days[i].day < days[i + 1].day
            /\ {d.day : d \in Range(days)} = {DayOf(msg(blocks[i]).at) : i \in {k \in DOMAIN blocks : top(k)}}
=============================================================================
