--------------------------------- MODULE Folders ---------------------------------
(***************************************************************************)
(* Which mail folders a sync reads and where each resumes: discovery walks *)
(* the tree of folders (_folder_helpers.py), and the delta links of an     *)
(* earlier version, keyed by name, move to keys by folder id               *)
(* (extractors/email.py:119-230).  A behaviour is one question and answer. *)
(*                                                                         *)
(* A state key is a sequence of the words "_" joins, less its first two.   *)
(***************************************************************************)
EXTENDS Integers, Sequences, FiniteSets, SequencesExt, FiniteSetsExt

CONSTANTS
    Trees,       \* mailboxes: [children, shown, cap]
    Upgrades,    \* states of the earlier version: [links, mailboxes]
    Root,        \* the folder above all others
    None

VARIABLES asked, found
folderVars == <<asked, found>>

-----------------------------------------------------------------------------
(* Discovery.  A folder is shown unless it is hidden or one of those that    *)
(* are skipped by name; a listing is cut off at the page cap.                *)

Children(t, f) == t.children[f]
Listing(t, f) == SubSeq(Children(t, f), 1, Min({t.cap, Len(Children(t, f))}))
CutOff(t, f) == Len(Children(t, f)) > t.cap
\* The folders that are shown, and whether a listing was cut off: the last that
\* was found is listed next.
ListAllFolders(t) ==
    LET walked[pending \in Seq(DOMAIN t.children)] ==
            IF pending = <<>> THEN [folders |-> <<>>, cut |-> FALSE]
            ELSE LET at == Last(pending)
                     seen == SelectSeq(Listing(t, at), LAMBDA f : f \in t.shown)
                     deeper == SelectSeq(seen, LAMBDA f : Children(t, f) # <<>>)
                     rest == walked[Front(pending) \o deeper]
                 IN  [folders |-> seen \o rest.folders, cut |-> CutOff(t, at) \/ rest.cut]
    IN  walked[<<Root>>]

-----------------------------------------------------------------------------
(* The move to ids. *)

IdKey(address, id) == address \o <<"id", id>>
NameKey(address, folder) == address \o folder
IsIdKey(address, key) == IsPrefix(address \o <<"id">>, key)
\* name_keyed_folders: of two mailboxes a key could be of, the longer.
Owned(keys, address, addresses) ==
    {k \in keys : /\ IsStrictPrefix(address, k) /\ ~IsIdKey(address, k)
                  /\ \A a \in addresses : Len(a) > Len(address) => ~IsPrefix(a, k)}
NameOf(address, key) == SubSeq(key, Len(address) + 1, Len(key))

\* One folder's turn: acc is [links, why], why each name will not be kept, or
\* "adopted".
\* Mutant: a name is adopted as often as it is claimed.
ClaimsAnything(acc, f, aliases) == {n \in DOMAIN acc.why : n = f.name \/ (n \in DOMAIN aliases /\ aliases[n] = f.id)}
Claims(acc, f, aliases) ==
    {n \in DOMAIN acc.why : (n = f.name \/ (n \in DOMAIN aliases /\ aliases[n] = f.id)) /\ acc.why[n] # "adopted"}
Kept(f, claimed) == IF f.name \in claimed THEN f.name ELSE CHOOSE n \in claimed : TRUE
Adopt(acc, f, address, aliases) ==
    LET claimed == Claims(acc, f, aliases)
        key == IdKey(address, f.id)
        because(reason) == [n \in DOMAIN acc.why |-> IF n \in claimed THEN reason ELSE acc.why[n]]
    IN  IF claimed = {} THEN acc
        ELSE IF key \in DOMAIN acc.links THEN [acc EXCEPT !.why = because("set")]
        ELSE [links |-> acc.links @@ (key :> acc.links[NameKey(address, Kept(f, claimed))]),
              why |-> [because("another") EXCEPT ![Kept(f, claimed)] = "adopted"]]
\* adopt_name_keyed_delta_links: what no folder claimed waits for a full listing.
AdoptAll(links, m, addresses) ==
    LET names == {NameOf(m.address, k) : k \in Owned(DOMAIN links, m.address, addresses)}
        acc == FoldLeft(LAMBDA a, f : Adopt(a, f, m.address, m.aliases),
                        [links |-> links, why |-> [n \in names |-> "unclaimed"]], m.folders)
        spared == {n \in names : acc.why[n] = "unclaimed" /\ ~m.complete}
        dropped == {NameKey(m.address, n) : n \in names \ spared}
    IN  [k \in DOMAIN acc.links \ dropped |-> acc.links[k]]
Upgraded(u) ==
    LET addresses == {m.address : m \in Range(u.mailboxes)}
    IN  FoldLeft(LAMBDA links, m : AdoptAll(links, m, addresses), u.links, u.mailboxes)

-----------------------------------------------------------------------------
FoldersInit == asked \in Trees \cup Upgrades /\ found = None
Resolve == /\ found = None /\ UNCHANGED asked
           /\ found' = IF "children" \in DOMAIN asked THEN ListAllFolders(asked) ELSE Upgraded(asked)
IsTree == found # None /\ "children" \in DOMAIN asked
IsUpgrade == found # None /\ "links" \in DOMAIN asked

-----------------------------------------------------------------------------
\* list_all_folders: "every visible mail folder, at any depth", each once and
\* none beneath a skipped one, unless it says that it was cut off.
Visible(t) ==
    LET beneath(s) == s \cup UNION {Range(Children(t, f)) \cap t.shown : f \in s}
    IN  beneath(beneath(beneath({Root}))) \ {Root}
DiscoveryIsWhole ==
    IsTree => /\ Range(found.folders) \subseteq Visible(asked)
              /\ Len(found.folders) = Cardinality(Range(found.folders))
              /\ ~found.cut => Range(found.folders) = Visible(asked)

\* adopt_name_keyed_delta_links: what was keyed by id stays; a link keyed by name
\* moves to one folder at most, of the mailbox that owns the key and that claims
\* the name; a folder that alone claims names, and had no link, takes one, its
\* own name's first; and no name key is left but of a listing that was cut off.
LinksMoveOnce ==
    IsUpgrade =>
        LET before == asked.links
            addresses == {m.address : m \in Range(asked.mailboxes)}
            owned(m) == Owned(DOMAIN before, m.address, addresses)
            claims(m, f) == {k \in owned(m) : LET n == NameOf(m.address, k)
                                              IN  n = f.name \/ (n \in DOMAIN m.aliases /\ m.aliases[n] = f.id)}
            alone(m, f) == claims(m, f) \ UNION {claims(m, g) : g \in Range(m.folders) \ {f}}
        IN  /\ \A m \in Range(asked.mailboxes), k \in DOMAIN before : IsIdKey(m.address, k) => k \in DOMAIN found /\ found[k] = before[k]
            /\ \A k, l \in DOMAIN found \ DOMAIN before : found[k] = found[l] => k = l
            /\ \A m \in Range(asked.mailboxes) :
                  /\ m.complete => owned(m) \cap DOMAIN found = {}
                  /\ \A f \in Range(m.folders) :
                        LET key == IdKey(m.address, f.id)
                            adopted == IF key \in DOMAIN before THEN {} ELSE {k \in claims(m, f) : key \in DOMAIN found /\ before[k] = found[key]}
                        IN  /\ key \in DOMAIN found \ DOMAIN before => adopted # {}
                            /\ alone(m, f) # {} /\ key \notin DOMAIN before => key \in DOMAIN found
                            /\ (NameKey(m.address, f.name) \in alone(m, f) /\ key \notin DOMAIN before)
                                  => adopted = {NameKey(m.address, f.name)}
FoldersCarryOver == DiscoveryIsWhole /\ LinksMoveOnce
=============================================================================
