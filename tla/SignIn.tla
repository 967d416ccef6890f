------------------------------- MODULE SignIn -------------------------------
(***************************************************************************)
(* Signing in to the admin app and what the jobs do with the tokens:       *)
(* m365_admin/auth_state.py (one file per OAuth state token, the callback),*)
(* token_service.py (one encrypted row per user) and                       *)
(* m365/auth/token_provider.py (each job makes a provider of its own, with *)
(* a lock of its own, over that row).                                      *)
(*                                                                         *)
(* One user.  A handler is one on_load of the callback page: a page loads  *)
(* it more than once, and a tab may be duplicated, so several handlers may *)
(* come back with the same state token.  Each exchange gives the next      *)
(* grant; a refresh keeps the grant it refreshes.                          *)
(*                                                                         *)
(* Beside it the other way to sign in, the device-code flow                *)
(* (m365/auth/device_code.py, profiles.py): every process that uses a      *)
(* profile holds MSAL's cache in memory, loaded from the file when its app *)
(* was built, and publishes it with a staged file and a rename.            *)
(*                                                                         *)
(* Bounds: States (logins begun), Handlers (callbacks), MaxVersion         *)
(* (changes of the cache, by a refresh or a login).                        *)
(***************************************************************************)
EXTENDS Naturals, FiniteSets

CONSTANTS States, Handlers, Providers, Clients, MaxVersion

VARIABLES begun,     \* state tokens a login has sent to the identity provider
          present,   \* state tokens with a file under oauth_states/
          old,       \* state tokens older than the two minutes they live
          handler,   \* handler -> [at, state, grant]
          spent,     \* authorization codes (one per state token) already exchanged
          grants,    \* grants given so far
          user,      \* the User row is there
          stored,    \* the TokenRecord row: [grant, fresh], grant 0 when there is none
          provider,  \* provider -> [at, grant]: a call that holds the provider's lock
          disk,      \* the version of the cache file, 0 when there is none
          version,   \* the newest version any process has made
          client     \* process -> [at, mem, dirty, last]; last: the version it loaded or published

signInVars == <<begun, present, old, handler, spent, grants, user, stored, provider>>
cacheVars == <<disk, version, client>>
-----------------------------------------------------------------------------
SignInInit ==
    /\ begun = {} /\ present = {} /\ old = {} /\ spent = {}
    /\ handler = [h \in Handlers |-> [at |-> "new", state |-> "none", grant |-> 0]]
    /\ grants = 0 /\ user = FALSE
    /\ stored = [grant |-> 0, fresh |-> FALSE]
    /\ provider = [p \in Providers |-> [at |-> "idle", grant |-> 0]]

(* login: _store_oauth_state prunes what has expired, then adds its file. *)
Pruned == present \ old

Login(s) ==
    /\ s \notin begun /\ begun' = begun \cup {s}
    /\ present' = Pruned \cup {s}
    /\ UNCHANGED <<old, handler, spent, grants, user, stored, provider>>

Expires(s) ==
    /\ s \in begun \ old /\ old' = old \cup {s}
    /\ UNCHANGED <<begun, present, handler, spent, grants, user, stored, provider>>

Moves(h, to) == handler' = [handler EXCEPT ![h].at = to]

(* handle_callback comes back with a state token and reads its file. *)
ReadState(h, s) ==
    /\ handler[h].at = "new" /\ s \in begun
    /\ handler' = [handler EXCEPT ![h].state = s, ![h].at = IF s \in present THEN "read" ELSE "refused"]
    /\ UNCHANGED <<begun, present, old, spent, grants, user, stored, provider>>

(* _verify_oauth_state: whoever unlinks the file owns the token, and then  *)
(* its age decides.                                                        *)
Owns(s) == s \in present
(* MUTANT: the unlink is allowed to find nothing. *)
OwnsAnyway(s) == TRUE
Unlinks(s) == Owns(s)

Consume(h) ==
    /\ handler[h].at = "read"
    /\ present' = present \ {handler[h].state}
    /\ Moves(h, IF Unlinks(handler[h].state) /\ handler[h].state \notin old THEN "verified" ELSE "refused")
    /\ UNCHANGED <<begun, old, spent, grants, user, stored, provider>>

(* acquire_token_by_code and extract_user_info: a code is good once. *)
Exchange(h) ==
    /\ handler[h].at = "verified"
    /\ \/ /\ handler[h].state \notin spent
          /\ spent' = spent \cup {handler[h].state} /\ grants' = grants + 1
          /\ handler' = [handler EXCEPT ![h].at = "granted", ![h].grant = grants + 1]
       \/ /\ Moves(h, "refused") /\ spent' = spent \cup {handler[h].state}
          /\ UNCHANGED grants
    /\ UNCHANGED <<begun, present, old, user, stored, provider>>

(* _persist_user_and_tokens: two commits, the row the token refers to first. *)
PersistUser(h) ==
    /\ handler[h].at = "granted"
    /\ user' = TRUE /\ Moves(h, "known")
    /\ UNCHANGED <<begun, present, old, spent, grants, stored, provider>>

(* The response of the exchange has no expires_at: it counts as expired. *)
PersistTokens(h) ==
    /\ handler[h].at = "known"
    /\ stored' = [grant |-> handler[h].grant, fresh |-> FALSE]
    /\ Moves(h, "in")
    /\ UNCHANGED <<begun, present, old, spent, grants, user, provider>>
-----------------------------------------------------------------------------
(* _get_token under the provider's lock: the row as it is now, and if it   *)
(* has not long to live, a refresh of what was read.                       *)
GetToken(p) ==
    /\ provider[p].at = "idle" /\ stored.grant > 0 /\ ~stored.fresh
    /\ provider' = [provider EXCEPT ![p] = [at |-> "refreshing", grant |-> stored.grant]]
    /\ UNCHANGED <<begun, present, old, handler, spent, grants, user, stored>>

Refresh(p) ==
    /\ provider[p].at = "refreshing"
    /\ \E to \in {"storing", "idle"} : provider' = [provider EXCEPT ![p].at = to]
    /\ UNCHANGED <<begun, present, old, handler, spent, grants, user, stored>>

StoreTokens(p) ==
    /\ provider[p].at = "storing"
    /\ stored' = [grant |-> provider[p].grant, fresh |-> TRUE]
    /\ provider' = [provider EXCEPT ![p].at = "idle"]
    /\ UNCHANGED <<begun, present, old, handler, spent, grants, user>>

TokenAges ==
    /\ stored.fresh /\ stored' = [stored EXCEPT !.fresh = FALSE]
    /\ UNCHANGED <<begun, present, old, handler, spent, grants, user, provider>>

SignInNext ==
    \/ \E s \in States : Login(s) \/ Expires(s)
    \/ \E h \in Handlers : \/ Consume(h) \/ Exchange(h) \/ PersistUser(h) \/ PersistTokens(h)
                           \/ \E s \in States : ReadState(h, s)
    \/ \E p \in Providers : GetToken(p) \/ Refresh(p) \/ StoreTokens(p)
    \/ TokenAges
-----------------------------------------------------------------------------
(* The token cache of one profile.                                         *)
Closed == [at |-> "closed", mem |-> 0, dirty |-> FALSE, last |-> 0]

CacheInit == disk = 0 /\ version = 0 /\ client = [c \in Clients |-> Closed]

(* AuthProfiles._app: one app per profile and process, kept once built.    *)
Build(c) ==
    /\ client[c].at = "closed"
    /\ client' = [client EXCEPT ![c] = [at |-> "ready", mem |-> disk, dirty |-> FALSE, last |-> disk]]
    /\ UNCHANGED <<disk, version>>

(* acquire_token_silent: the token in memory, or a refresh that changes    *)
(* the cache; with neither, AuthRequiredError and nothing to save.         *)
Changed(c) ==
    /\ version < MaxVersion /\ version' = version + 1
    /\ client' = [client EXCEPT ![c].at = "saving", ![c].mem = version + 1, ![c].dirty = TRUE]
    /\ UNCHANGED disk

GetCachedToken(c) ==
    /\ client[c].at = "ready" /\ client[c].mem > 0
    /\ \/ Changed(c)
       \/ client' = [client EXCEPT ![c].at = "saving"] /\ UNCHANGED <<disk, version>>

(* login: the only thing that prompts. *)
LogIn(c) == client[c].at = "ready" /\ Changed(c)

(* _save_cache: nothing to do when nothing changed; else serialize, which  *)
(* clears the flag, into a staged file.                                    *)
Stage(c) ==
    /\ client[c].at = "saving"
    /\ client' = [client EXCEPT ![c].at = IF client[c].dirty THEN "staged" ELSE "ready",
                                ![c].dirty = FALSE]
    /\ UNCHANGED <<disk, version>>

Replace(c) ==
    /\ client[c].at = "staged"
    /\ disk' = client[c].mem
    /\ client' = [client EXCEPT ![c].at = "ready", ![c].last = client[c].mem]
    /\ UNCHANGED version

Retained == TRUE
(* MUTANT: the finally clause unlinks the staged file and leaves the flag. *)
NotRetained == FALSE
DirtyAgain == Retained

(* A write, the fsync or the rename fails: TokenCacheError, and the flag   *)
(* that serialize cleared is set again.                                    *)
SaveFails(c) ==
    /\ client[c].at = "staged"
    /\ client' = [client EXCEPT ![c].at = "ready", ![c].dirty = DirtyAgain]
    /\ UNCHANGED <<disk, version>>

Exit(c) ==
    /\ client[c].at # "closed" /\ client' = [client EXCEPT ![c] = Closed]
    /\ UNCHANGED <<disk, version>>

CacheNext == \E c \in Clients :
    Build(c) \/ GetCachedToken(c) \/ LogIn(c) \/ Stage(c) \/ Replace(c) \/ SaveFails(c) \/ Exit(c)
-----------------------------------------------------------------------------
(* AuthProfiles.status, without prompting. *)
ProfileState(c) ==
    CASE disk = 0 -> "never_authenticated"
      [] disk > 0 /\ client[c].mem > 0 -> "authenticated"
      [] OTHER -> "expired"
-----------------------------------------------------------------------------
(* Of the handlers that come back with one state token, at most one gets   *)
(* past the check (_verify_oauth_state: only the one that unlinks the file *)
(* sees the token as valid), however their reads and unlinks interleave    *)
(* with each other and with the prune of another login; and there is no    *)
(* token row without its user row (the foreign key of TokenRecord).        *)
OneWinnerPerState ==
    /\ \A h, k \in Handlers :
         /\ handler[h].at \in {"verified", "granted", "known", "in"}
         /\ handler[k].at \in {"verified", "granted", "known", "in"}
         /\ handler[h].state = handler[k].state
         => h = k
    /\ stored.grant > 0 => user

(* The row never goes back to an earlier sign-in's grant: a user who has   *)
(* just consented again keeps that consent.  A job that was refreshing     *)
(* when the callback stored its tokens puts the earlier ones back.         *)
SignInSticks == [][stored'.grant >= stored.grant]_stored

(* What a process has in memory and has not published stays marked, so     *)
(* that its next successful call publishes it (_save_cache: retaining      *)
(* dirty state on failure), whatever failed in between.                    *)
UnpublishedStaysDirty ==
    \A c \in Clients : client[c].mem # client[c].last => client[c].dirty \/ client[c].at = "staged"

(* The file never goes back to an earlier cache: two processes of one      *)
(* profile, each with the cache it loaded, publish over one another.       *)
NewestStays == [][disk' >= disk]_disk
=============================================================================
