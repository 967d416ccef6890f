-------------------------------- MODULE Settings --------------------------------
(***************************************************************************)
(* How the configuration comes about (config/loader.py, config/schema.py): *)
(* YAML files merged from left to right, then variables expanded, then     *)
(* paths resolved, then the whole validated.  A behaviour is one list of   *)
(* files, one environment and what load_config makes of them.              *)
(*                                                                         *)
(* A node has kids by key if it is a "dict", by position ("0", "1") if it  *)
(* is a "list"; a "text" has a text, or a reference in place of one, and a *)
(* directory once it was resolved against one.                             *)
(***************************************************************************)
EXTENDS Integers, Sequences, FiniteSets, SequencesExt, FiniteSetsExt

CONSTANTS
    Loads,         \* [files, env]: files are [kind, dir, root], env the variables' texts
    PathKeys,      \* _PATH_KEYS
    IsAbsolute(_), \* of a text
    Extractors,    \* EXTRACTOR_NAMES
    None,
    Refused        \* a ConfigError

VARIABLES load, config
settingsVars == <<load, config>>

Node == [form |-> "dict", text |-> None, ref |-> None, dir |-> None, kids |-> <<>>]
Dict(kids) == [Node EXCEPT !.kids = kids]
List(kids) == [Node EXCEPT !.form = "list", !.kids = kids]
Text(text) == [Node EXCEPT !.form = "text", !.text = text]
Var(name) == [Node EXCEPT !.form = "text", !.ref = name]
SetAgainst(node, dir) == [node EXCEPT !.dir = dir]
MapKids(node, F(_, _)) == [node EXCEPT !.kids = [k \in DOMAIN @ |-> F(k, @[k])]]

-----------------------------------------------------------------------------
\* Mutant: a later file's section stands for itself.
MergeShallow(base, override) == Dict(override.kids @@ base.kids)
RECURSIVE DeepMerge(_, _)
DeepMerge(base, override) ==
    Dict([k \in DOMAIN base.kids \cup DOMAIN override.kids |->
        IF \A n \in {base, override} : k \in DOMAIN n.kids /\ n.kids[k].form = "dict"
        THEN DeepMerge(base.kids[k], override.kids[k])
        ELSE (override.kids @@ base.kids)[k]])

\* A reference becomes the variable's text, which is not looked at again.
RECURSIVE Variables(_)
Variables(node) == ({node.ref} \ {None}) \cup UNION {Variables(node.kids[k]) : k \in DOMAIN node.kids}
RECURSIVE Expand(_, _)
Expand(node, env) == IF node.ref # None THEN Text(env[node.ref])
                     ELSE MapKids(node, LAMBDA k, kid : Expand(kid, env))

\* A relative text that is a mapping's value under a path key.
RECURSIVE ResolvePaths(_, _)
ResolvePaths(node, dir) ==
    MapKids(node, LAMBDA k, kid :
        IF node.form = "dict" /\ k \in PathKeys /\ kid.form = "text" /\ ~IsAbsolute(kid.text)
        THEN [kid EXCEPT !.dir = dir] ELSE ResolvePaths(kid, dir))

RECURSIVE At(_, _)
At(node, place) == IF place = <<>> THEN node
                   ELSE IF Head(place) \in DOMAIN node.kids THEN At(node.kids[Head(place)], Tail(place)) ELSE None
KeysAt(node, place) == LET found == At(node, place) IN IF found = None THEN {} ELSE DOMAIN found.kids

\* The profiles the extractors, if they name one, and the outboxes name.
Definitions == <<"outboxes", "definitions">>
Referenced(c) == {At(c, p) : p \in {<<"extractors", "auth_profile">>}
                       \cup {Definitions \o <<o, "auth_profile">> : o \in KeysAt(c, Definitions)}} \ {None}
NamedAuthProfilesResolve(c) == \A p \in Referenced(c) : p.text \in KeysAt(c, <<"auth", "profiles">>)
ExtractorDirsCoverEveryExtractor(c) ==
    At(c, <<"vault">>) # None => KeysAt(c, <<"vault", "extractor_dirs">>) = Extractors
IsValid(c) == NamedAuthProfilesResolve(c) /\ ExtractorDirsCoverEveryExtractor(c)

LoadConfig(files, env) ==
    LET stated == SelectSeq(files, LAMBDA f : f.kind = "mapping")
        merged == FoldLeft(LAMBDA acc, f : DeepMerge(acc, f.root), Dict(<<>>), stated)
        loaded == ResolvePaths(Expand(merged, env), stated[1].dir)
    IN  IF \/ \E i \in DOMAIN files : files[i].kind \in {"missing", "scalar"}
           \/ DOMAIN merged.kids = {}
           \/ \E v \in Variables(merged) : env[v] = None
           \/ ~IsValid(loaded)
        THEN Refused ELSE loaded

Load == config = None /\ UNCHANGED load /\ config' = LoadConfig(load.files, load.env)
SettingsInit == load \in Loads /\ config = None

-----------------------------------------------------------------------------
\* The texts of a node, each at the keys and positions that lead to it.
RECURSIVE Texts(_)
Texts(node) == IF node.form = "text" THEN {<<>>}
               ELSE UNION {{<<k>> \o p : p \in Texts(node.kids[k])} : k \in DOMAIN node.kids}
\* A file speaks of a place if it has something there, or on the way there
\* something that is not a mapping.
Speaks(root, place) == \E n \in 0..Len(place) : LET found == At(root, SubSeq(place, 1, n))
                                                IN  found # None /\ (n = Len(place) \/ found.form # "dict")
LastWord(files, place) == LET last == Max({0} \cup {i \in DOMAIN files : Speaks(files[i].root, place)})
                          IN  IF last = 0 THEN None ELSE At(files[last].root, place)
Stands(files) == {p \in UNION {Texts(files[i].root) : i \in DOMAIN files} :
                    LastWord(files, p) # None /\ LastWord(files, p).form = "text"}

(* Whatever order sections, scalars and lists are split over the files in:   *)
(* a text of the configuration is what the last file that speaks of its      *)
(* place says, once expanded; none is lost and none survives a file that put *)
(* a list or a scalar above it; and exactly the relative ones under a path   *)
(* key are in the first stated file's directory, whichever file stated them. *)
LoadsTheLastWord == config \notin {None, Refused} =>
    LET files == SelectSeq(load.files, LAMBDA f : f.kind = "mapping")
        text(p) == LET said == LastWord(files, p) IN IF said.ref = None THEN said.text ELSE load.env[said.ref]
    IN  /\ Texts(config) = Stands(files)
        /\ \A p \in Texts(config) :
             At(config, p) = SetAgainst(Text(text(p)), IF Last(p) \in PathKeys /\ ~IsAbsolute(text(p)) THEN files[1].dir ELSE None)

(* A configuration is refused for a file that is not there or no mapping, or *)
(* for what stands in it: a variable that is not set or a profile that is    *)
(* not defined there.  What a later file replaced refuses nothing.           *)
RefusesForWhatStands == config # None =>
    LET files == SelectSeq(load.files, LAMBDA f : f.kind = "mapping")
        unset == {p \in Stands(files) : LET v == LastWord(files, p).ref IN v # None /\ load.env[v] = None}
    IN  /\ (\E i \in DOMAIN load.files : load.files[i].kind \in {"missing", "scalar"}) \/ files = <<>> \/ unset # {} => config = Refused
        /\ config = Refused =>
             \/ \E i \in DOMAIN load.files : load.files[i].kind \in {"missing", "scalar"}
             \/ Stands(files) = {} \/ unset # {}
             \/ ~\A p \in Stands(files) : Last(p) = "auth_profile" =>
                   LET said == LastWord(files, p)
                   IN  \E f \in ToSet(files) : (IF said.ref = None THEN said.text ELSE load.env[said.ref]) \in KeysAt(f.root, <<"auth", "profiles">>)
             \/ \E f \in ToSet(files) : "vault" \in DOMAIN f.root.kids /\ ~ExtractorDirsCoverEveryExtractor(f.root)
SettingsAgree == LoadsTheLastWord /\ RefusesForWhatStands

\* The directory of the first file, as the docstring of load_config has it: not
\* when that file is empty or only comments.
ResolvesAgainstTheFirst == config \notin {None, Refused} =>
    \A p \in Texts(config) : At(config, p).dir \in {None, load.files[1].dir}
=============================================================================
