---------------------------- MODULE MCIndexSync ----------------------------
(* One file in each of two roots; they may bear one title. *)
EXTENDS IndexSync

MCRootSeq == <<"m365", "notes">>
MCRootOf(f) == IF f = "m365/a" THEN "m365" ELSE "notes"
MCPlace(f) == IF f = "m365/a" THEN 1 ELSE 2
\* Three documents: One and Two name each other; Two has two chunks; Twin is
\* One's twin in title, and names nothing.
One == [title |-> "One", links |-> {"Two"}, chunks |-> <<"1">>]
Two == [title |-> "Two", links |-> {"One"}, chunks |-> <<"2a", "2b">>]
Twin == [title |-> "One", links |-> {}, chunks |-> <<"1">>]
MCContents == {One, Two, Twin}
MCDisks == {[f \in {"m365/a", "notes/b"} |-> IF f = "m365/a" THEN Two ELSE One]}
MCNatural(c) == c.title
MCFallback(f) == f
\* Two processes and one edit, or the cycle alone and three.
MCBudgets == {[edits |-> 1, faults |-> 1, cli |-> 1], [edits |-> 3, faults |-> 1, cli |-> 0]}
MCOneProcess == {[edits |-> 2, faults |-> 0, cli |-> 0]}

\* IndexSync: a sync nothing interfered with leaves the index the files' mirror, and
\* whatever died or failed, its tables refer to each other's rows.
IndexMirrors == UndisturbedSyncMirrors /\ TablesCohere
=============================================================================
