-------------------------------- MODULE Addresses --------------------------------
(***************************************************************************)
(* Where things are kept: the keys VaultPaths builds from the layout       *)
(* (vault/paths.py), what a key found under the outbox is taken for        *)
(* (vault/classify.py), what the two storage backends list under a prefix, *)
(* and the addresses keys get outside the process (storage/__init__.py).   *)
(* A behaviour is one layout, the intents put under it and what is found.  *)
(*                                                                         *)
(* A segment is the sequence of its parts between separators, "" among      *)
(* them; a key is the sequence of its parts; a file's last part is          *)
(* <<stem, suffix>> as one string, from FileName.                           *)
(***************************************************************************)
EXTENDS Integers, Sequences, FiniteSets, SequencesExt, FiniteSetsExt

CONSTANTS
    Vaults,            \* [layout, outboxes, backend, base]
    Uuids,
    StartsWith(_, _),  \* of two parts, the first begins with the second
    None,
    Refused            \* a VaultPathError

VARIABLES place, listed
addressVars == <<place, listed>>

-----------------------------------------------------------------------------
(* Building keys. *)

\* _validate_segment, _join
IsSound(segment) == segment # <<>> /\ Range(segment) \cap {"", "..", "."} = {}
Join(segments) ==
    LET given == SelectSeq(segments, LAMBDA s : s # <<"">>)
    IN  IF given = <<>> \/ \E s \in Range(given) : ~IsSound(s) THEN Refused ELSE FlattenSeq(given)

MarkdownSuffix == ".md"
FileName(uuid, suffix) == <<uuid \o suffix>>
Outbox(v, name) == Join(<<v.layout.outbox, name>>)
OutboxIntent(v, name, uuid) == Join(<<v.layout.outbox, name, FileName(uuid, MarkdownSuffix)>>)
Meta(v, kind, uuid, suffix) == Join(<<v.layout.meta, v.layout[kind], FileName(uuid, suffix)>>)
InboxItem(v, e, item) == Join(<<v.layout.inbox, v.layout[e], item>>)
EntryFile(v, dir) == Join(<<dir, v.layout.entry>>)
\* Of an item's directory, or with none the link a page of it holds.
Attachment(v, dir, name) == Join(<<dir, v.layout.attachments, name>>)

\* Every key one intent and one item of the inbox can give rise to, by what it is.
Kept(v, uuid) ==
    {<<"intent", n, OutboxIntent(v, n, uuid)>> : n \in v.outboxes}
    \cup {<<kind, None, Meta(v, kind, uuid, MarkdownSuffix)>> : kind \in {"inflight", "processed", "failed"}}
    \cup {<<"receipt", kind, Meta(v, kind, uuid, ".receipt.json")>> : kind \in {"processed", "failed"}}
    \cup {<<"verdict", None, Meta(v, "processed", uuid, ".reconciled.json")>>}
    \cup LET dir == InboxItem(v, "email", <<uuid>>)
         IN  {<<"mail", None, EntryFile(v, dir)>>, <<"attachment", None, Attachment(v, dir, <<uuid>>)>>}
    \cup {<<"contact", None, InboxItem(v, "contacts", FileName(uuid, MarkdownSuffix))>>}

-----------------------------------------------------------------------------
(* Judging keys. *)

Verdict(class, name, uuid) == [class |-> class, name |-> name, uuid |-> uuid]
\* classify_outbox_path: [class, name, uuid] of a key somebody else built.
\* Mutant: any file beneath an outbox.
ClassifyAnyDepth(key, layout) ==
    LET stems == {u \in Uuids : Last(key) = u \o MarkdownSuffix}
    IN  IF Head(key) # layout.outbox[1] \/ stems = {} THEN Verdict("reject", None, None)
        ELSE Verdict("valid", key[2], CHOOSE u \in stems : TRUE)
Classify(key, layout) ==
    LET tail == Tail(key)
        stems == {u \in Uuids : Len(tail) = 2 /\ tail[2] = u \o MarkdownSuffix}
    IN  CASE key = <<>> \/ ".." \in Range(key) -> Verdict("reject", None, None)
          [] OTHER ->
             IF <<Head(key)>> # layout.outbox THEN Verdict("reject", None, None)
             ELSE IF \E kind \in {"processed", "failed", "inflight"}, p \in Range(tail) : layout[kind] = <<p>> THEN Verdict("skip", None, None)
             ELSE IF stems = {} THEN Verdict("reject", None, None)
             ELSE Verdict("valid", tail[1], CHOOSE u \in stems : TRUE)

-----------------------------------------------------------------------------
(* Storage. *)

\* LocalBackend.list_files: the files of a directory, or the file itself.
ListLocal(keys, prefix) == {k \in keys : IsPrefix(prefix, k)}
\* AzureBlobBackend.list_files: the names that begin with the prefix.
ListBlob(keys, prefix) ==
    {k \in keys : /\ Len(k) >= Len(prefix)
                  /\ IsPrefix(Front(prefix), k)
                  /\ StartsWith(k[Len(prefix)], Last(prefix))}
ListFiles(v, keys, prefix) == IF v.backend = "local" THEN ListLocal(keys, prefix) ELSE ListBlob(keys, prefix)

\* FilesystemIntentStore.pending: (name, uuid) of what is listed and valid, a
\* sequence's members and how often each comes.
Pending(v, keys) ==
    LET verdicts(n) == {Classify(k, v.layout) : k \in ListFiles(v, keys, Outbox(v, n))}
        found(n) == {<<w.name, w.uuid>> : w \in {x \in verdicts(n) : x.class = "valid"}}
    IN  [pair \in UNION {found(n) : n \in v.outboxes} |-> Cardinality({n \in v.outboxes : pair \in found(n)})]

-----------------------------------------------------------------------------
(* Addresses outside the process: an absolute one has its base in front. *)

AddressBase(v) == SelectSeq(v.base, LAMBDA p : p # "")
CarriesItsOwnBase(a) == a # <<>> /\ Head(a) = "/"
ResolveKey(v, key) == IF CarriesItsOwnBase(key) THEN key ELSE <<"/">> \o AddressBase(v) \o key
StorageKey(v, address) ==
    LET base == <<"/">> \o AddressBase(v)
    IN  IF CarriesItsOwnBase(address) /\ IsPrefix(base, address) THEN SubSeq(address, Len(base) + 1, Len(address)) ELSE address

-----------------------------------------------------------------------------
\* Every outbox is given every intent, if the layout lets it.
Put(v) == {OutboxIntent(v, n, u) : n \in v.outboxes, u \in Uuids}
AddressInit == place \in Vaults /\ listed = None
Look ==
    /\ listed = None /\ UNCHANGED place
    /\ listed' = IF \E n \in place.outboxes : Outbox(place, n) = Refused THEN Refused
                 ELSE [keys |-> Put(place), pending |-> Pending(place, Put(place)),
                       kept |-> UNION {Kept(place, u) : u \in Uuids}]

\* A layout whose outbox is one directory, whose outboxes are too, none an
\* archive's name, and of whose names none is another's or begins with it.
Plain(v) ==
    /\ Len(v.layout.outbox) = 1 /\ v.layout.outbox # <<"">>
    /\ \A n \in v.outboxes : /\ Len(n) = 1 /\ n \notin {v.layout[k] : k \in {"processed", "failed", "inflight"}}
                             /\ \A m \in v.outboxes \ {n} : ~StartsWith(m[1], n[1])
    /\ \A k, l \in {"inbox", "outbox", "meta"} : k # l => v.layout[k] # v.layout[l]
    /\ \A k, l \in {"processed", "failed", "inflight"} : k # l => v.layout[k] # v.layout[l]
    /\ v.layout.email # v.layout.contacts /\ v.layout.entry # v.layout.attachments

\* paths.py, classify.py, filesystem_store.py: under a plain layout every intent
\* that is put is found once, under its outbox and its uuid, whichever backend
\* holds it; and no two things ever share a key, nor one hold the other's.
EveryIntentIsFound ==
    (listed \notin {None, Refused} /\ Plain(place)) =>
        /\ DOMAIN listed.pending = {<<n[1], u>> : n \in place.outboxes, u \in Uuids}
        /\ \A pair \in DOMAIN listed.pending : listed.pending[pair] = 1
        /\ \A x, y \in listed.kept : x # y => ~IsPrefix(x[3], y[3])
\* Under any layout: what is found was put there, and is dispatched from the
\* outbox it was found in.
NothingElseIsFound ==
    listed \notin {None, Refused} =>
        \A pair \in DOMAIN listed.pending : OutboxIntent(place, <<pair[1]>>, pair[2]) \in listed.keys
\* storage/__init__.py: an address names the key it was made of, and one that
\* is made of an address is that address; and a link in a page leads, from the
\* item's directory, to the file's key.
AddressesRoundTrip ==
    listed \notin {None, Refused} =>
        /\ \A k \in listed.keys : /\ StorageKey(place, ResolveKey(place, k)) = k
                                  /\ ResolveKey(place, ResolveKey(place, k)) = ResolveKey(place, k)
        /\ \A u \in Uuids : LET dir == InboxItem(place, "email", <<u>>)
                           IN  Attachment(place, dir, <<u>>) = dir \o Attachment(place, <<"">>, <<u>>)
AddressesAgree == EveryIntentIsFound /\ NothingElseIsFound /\ AddressesRoundTrip

\* filesystem_store.py: the same of every layout the config accepts.
EveryLayoutIsRead ==
    listed \notin {None, Refused} => DOMAIN listed.pending = {<<n[1], u>> : n \in place.outboxes, u \in Uuids}
=============================================================================
