------------------------------- MODULE MCStores -------------------------------
(***************************************************************************)
(* What is kept: the two index backends under the same calls, the file       *)
(* catalog under its two processes, and the manifests of the cycles.  They   *)
(* share no state, so a behaviour is one of one part; MCQuestions, which     *)
(* extends this module, has more of them.                                    *)
(***************************************************************************)
EXTENDS IndexBackends, Catalog, Manifests

VARIABLE part

MCSize(v) == IF v = "long" THEN 2 ELSE 1
MCConvertible(v) == v # "bad"

\* A document whose alias is another's title, one that names two others and has
\* two chunks, and one whose alias is the first one's title.
Ada == [title |-> "Ada", aliases |-> <<"countess">>, links |-> <<"byron">>, kind |-> "person",
        stamp |-> 1, words |-> {"engine"}, parts |-> <<"a1">>]
Note == [title |-> "Countess", aliases |-> <<>>, links |-> <<"Ada", "countess">>, kind |-> "note",
         stamp |-> 2, words |-> {"engine", "poet"}, parts |-> <<"n1", "n2">>]
Byron == [title |-> "byron", aliases |-> <<"Ada">>, links |-> <<>>, kind |-> "person",
          stamp |-> 2, words |-> {"poet"}, parts |-> <<"b1">>]
MCDocs == {Ada, Note, Byron}
MCNames == {"Ada", "ada", "countess", "Countess", "byron", "count"}
MCFold(n) == CASE n = "Ada" -> "ada" [] n = "Countess" -> "countess" [] OTHER -> n
MCWithin(n, m) == n = m \/ (n = "count" /\ m = "countess")

StoresInit ==
    /\ BackendsInit /\ CatalogInit
    /\ ManifestsInit /\ (part = "manifests" \/ \A r \in Runners : vault[r] = {})
StoresNext ==
    \/ part = "backends" /\ BackendsNext /\ UNCHANGED <<part, catalogVars, manifestVars>>
    \/ part = "catalog" /\ CatalogNext /\ UNCHANGED <<part, backendVars, manifestVars>>
    \/ part = "manifests" /\ ManifestsNext /\ UNCHANGED <<part, backendVars, catalogVars>>
storesVars == <<part, backendVars, catalogVars, manifestVars>>
StoresSpec == StoresInit /\ [][StoresNext]_storesVars

\* What is kept of the binaries and of the changes is true of the vault.  A binary has
\* a row and a row a binary, but for a write in progress or one that died, and a
\* converted row has the markdown of the bytes on disk, but for the changes
\* CatalogingStorage cannot see; a report is the net of a cycle, pruning spares the
\* newest, and the pointer ends with the outcomes of the hooks.
RecordsKeepUp == EveryBinaryHasARow /\ ConvertedIsCurrent /\ ManifestsAreTrue

\* What is worked through in batches: a sync of the vectors that is not refused
\* leaves in both stores what the last rebuild wrote, and a pass over the catalog
\* takes what has failed only when nothing pending is left out.
BatchesAreExact == VectorsAgree /\ PassOrder
=============================================================================
