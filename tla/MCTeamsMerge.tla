------------------------------ MODULE MCTeamsMerge ------------------------------
(***************************************************************************)
(* Small instances of TeamsMerge: one conversation with a message, its      *)
(* reply and another message, which may be a system event.                  *)
(***************************************************************************)
EXTENDS TeamsMerge

MCConversations == <<"talk">>
MCConversationOf == [m \in {"a", "b", "x"} |-> "talk"]
MCRootOf == [m \in {"a", "b", "x"} |-> IF m = "b" THEN "a" ELSE m]

\* TeamsMerge: the store and the page that shows it are what the watermark says.
StoreVouches == FileMatchesWatermark /\ RenderedIsTheStore
===============================================================================
