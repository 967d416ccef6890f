------------------------------ MODULE MCMailMirror ------------------------------
(***************************************************************************)
(* Small instances of MailMirror: two folders, and a message that may be    *)
(* moved from one to the other, or have a copy.                             *)
(***************************************************************************)
EXTENDS MailMirror

MCFolders == <<"inbox", "project">>
\* "a2" is the id "a1" gets when it is moved, or a copy that arrives by itself.
MovedKeyOf == [i \in {"a1", "a2"} |-> "a"]

\* MailMirror: what a stored link has passed is in the vault or gone upstream, and
\* every file in the vault is one a later run still finds.
NothingBehindTheLink == CoveredByLink /\ EveryFileHasAWayBack
===============================================================================
