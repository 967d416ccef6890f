------------------------------ MODULE MCSyncCycle ------------------------------
(***************************************************************************)
(* Small instances of SyncCycle: two extractors, the second at twice the    *)
(* interval of the first.                                                   *)
(***************************************************************************)
EXTENDS SyncCycle

MCExtractors == <<"email", "sharepoint">>
MCInterval == [u \in {"email", "sharepoint", "index"} |->
                  IF u = "sharepoint" THEN 2 ELSE 1]
\* `run` and `run --once`; `run --resync`.
MCModes == [once : BOOLEAN, resync : {FALSE}]
ResyncMode == {[once |-> FALSE, resync |-> TRUE]}
MCMaxFeed == [e \in {"email", "sharepoint"} |-> IF e = "email" THEN 2 ELSE 1]
===============================================================================
