----------------------------- MODULE Credentials -----------------------------
(***************************************************************************)
(* The sign-in that several processes share (mjj/auth.py:                  *)
(* MaxPlanCredentials).  A refresh token works once: the issuer retires it *)
(* when it hands out the next one.  Refresh and access tokens are numbered *)
(* in the order they were issued; a process keeps the pair it last read or *)
(* obtained, the file holds a pair, and the issuer accepts the newest      *)
(* refresh token only.  Writing the file back is an option; an advisory    *)
(* lock orders the processes that refresh, where it can be had.            *)
(***************************************************************************)
EXTENDS Integers, FiniteSets

CONSTANTS
  Procs,        \* the processes that use the sign-in
  NoProc,       \* no process
  MaxGen,       \* bound: refresh tokens issued
  MaxFaults     \* bound: refreshes, locks and writes that fail, answers that lack
                \* a token, process deaths

ASSUME SignInAssumption ==
  NoProc \notin Procs /\ MaxGen \in Nat /\ MaxFaults \in Nat

VARIABLES
  document,     \* what auth.json holds
  write_back,   \* MJJ_WRITE_BACK_AUTH is set
  disk,         \* auth.json: the tokens it holds, and its mtime
  live,         \* the refresh token the issuer accepts
  minted,       \* the newest access token
  expired,      \* the access tokens up to here are stale: 0 or 1
  flock,        \* the process that holds auth.lock
  tokens,       \* _tokens of a process: [refresh, access], 0 for none
  loaded,       \* _loaded_mtime of a process, 0 at first
  at,           \* where a call of bearer stands
  forced,       \* its argument force
  faults,       \* bound: failures and deaths so far
  torn,         \* a rotation never reached the process or the file
  unlocked,     \* a process went on without the lock it could not have
  kept,         \* the last answer a process got held no access token
  reused        \* a retired refresh token was presented

shared == <<document, write_back, disk, live, minted, expired, flock>>
memory == <<tokens, loaded, at, forced>>
ghosts == <<faults, torn, unlocked, kept, reused>>
credVars == <<shared, memory, ghosts>>

(* auth.json: no file, tokens, a raw key that replaces them, a raw key next *)
(* to access tokens that cannot be refreshed, such tokens without a key.    *)
Documents == {"absent", "tokens", "key", "keyed", "bare"}

(* A call of bearer: not running, waiting for auth.lock, holding it, about  *)
(* to refresh, refreshed; then its outcome: the access token, the raw key,  *)
(* AuthError, or another exception.                                         *)
Outcomes == {"token", "raw", "refused", "raised"}
Stages == {"idle", "waiting", "locked", "refreshing", "rotated"} \cup Outcomes

NoTokens == [refresh |-> 0, access |-> 0]

CredInit(docs) ==
  /\ document \in docs /\ write_back \in BOOLEAN
  /\ disk = [tokens |-> [refresh |-> IF document = "tokens" THEN 1 ELSE 0,
                         access |-> IF document \in {"absent", "key"} THEN 0 ELSE 1],
             mtime |-> 1]
  /\ live = 1 /\ minted = 1 /\ expired \in {0, 1} /\ flock = NoProc
  /\ tokens = [p \in Procs |-> NoTokens] /\ loaded = [p \in Procs |-> 0]
  /\ at = [p \in Procs |-> "idle"] /\ forced = [p \in Procs |-> FALSE]
  /\ faults = 0 /\ torn = FALSE /\ unlocked = FALSE /\ reused = FALSE
  /\ kept = [p \in Procs |-> FALSE]

_stale(held) == held.access = 0 \/ held.access <= expired

(* What _load leaves in memory: the tokens of a file that changed. *)
Seen(p) == IF disk.mtime # loaded[p] THEN disk.tokens ELSE tokens[p]

_load(p) ==
  /\ tokens' = [tokens EXCEPT ![p] = Seen(p)]
  /\ loaded' = [loaded EXCEPT ![p] = disk.mtime]

Go(p, stage) == at' = [at EXCEPT ![p] = stage]
Unlock(p) == flock' = IF flock = p THEN NoProc ELSE flock

(* bearer up to the lock: a file that cannot be read, a fresh token. *)
bearer(p, force) ==
  /\ at[p] = "idle" /\ forced' = [forced EXCEPT ![p] = force]
  /\ \/ document = "absent" /\ Go(p, "refused") /\ UNCHANGED <<tokens, loaded>>
     \/ /\ document # "absent" /\ _load(p)
        /\ Go(p, IF force \/ _stale(Seen(p)) THEN "waiting" ELSE "token")
  /\ UNCHANGED <<shared, ghosts>>

(* Mutant: the lock is not waited for. *)
FlockNothing(p) ==
  /\ at[p] = "waiting" /\ flock' = p /\ Go(p, "locked")
  /\ UNCHANGED <<document, write_back, disk, live, minted, expired, tokens, loaded,
                 forced, ghosts>>

(* The lock is waited for; where it fails (no fcntl, a home that cannot be  *)
(* written) the call goes on without it.                                    *)
_flock(p) ==
  /\ at[p] = "waiting" /\ Go(p, "locked")
  /\ \/ flock = NoProc /\ flock' = p /\ UNCHANGED <<faults, unlocked>>
     \/ faults < MaxFaults /\ faults' = faults + 1 /\ unlocked' = TRUE /\ UNCHANGED flock
  /\ UNCHANGED <<document, write_back, disk, live, minted, expired, tokens, loaded,
                 forced, torn, kept, reused>>

(* _refresh_locked before the network: the file is read again. *)
_refresh_locked(p) ==
  /\ at[p] = "locked" /\ _load(p)
  /\ LET verdict ==
           IF document = "key" THEN "raw"
           ELSE IF ~forced[p] /\ ~_stale(Seen(p)) THEN "token"
           ELSE IF document = "keyed" THEN "raw"
           ELSE IF document = "bare" THEN "refused"
           ELSE "refreshing"
     IN Go(p, verdict) /\ IF verdict = "refreshing" THEN UNCHANGED flock ELSE Unlock(p)
  /\ UNCHANGED <<document, write_back, disk, live, minted, expired, forced, ghosts>>

(* The issuer's answer: a new refresh token or none, a new access token or, *)
(* beside an id_token, none: what is missing is kept as it was.             *)
Answer(p, rotates, renews) ==
  /\ tokens[p].refresh = live /\ live < MaxGen
  /\ \/ rotates /\ renews /\ UNCHANGED faults
     \/ ~(rotates /\ renews) /\ faults < MaxFaults /\ faults' = faults + 1
  /\ live' = IF rotates THEN live + 1 ELSE live
  /\ minted' = IF renews THEN minted + 1 ELSE minted
  /\ tokens' = [tokens EXCEPT ![p] =
       [refresh |-> live', access |-> IF renews THEN minted' ELSE tokens[p].access]]
  /\ kept' = [kept EXCEPT ![p] = ~renews]
  /\ Go(p, "rotated") /\ UNCHANGED <<flock, torn, reused>>

(* A retired token is refused.  An unreachable issuer is an AuthError; an   *)
(* answer that times out after a rotation is an exception of another class. *)
refresh_tokens(p) ==
  /\ at[p] = "refreshing"
  /\ \/ \E rotates, renews \in BOOLEAN : Answer(p, rotates, renews)
     \/ /\ tokens[p].refresh # live /\ reused' = TRUE /\ Go(p, "refused") /\ Unlock(p)
        /\ UNCHANGED <<live, minted, tokens, kept, faults, torn>>
     \/ /\ \/ faults < MaxFaults /\ faults' = faults + 1
           \/ live = MaxGen /\ UNCHANGED faults
        /\ Go(p, "refused") /\ Unlock(p)
        /\ UNCHANGED <<live, minted, tokens, kept, torn, reused>>
     \/ /\ tokens[p].refresh = live /\ live < MaxGen /\ live' = live + 1
        /\ faults < MaxFaults /\ faults' = faults + 1 /\ torn' = TRUE
        /\ Go(p, "raised") /\ Unlock(p) /\ UNCHANGED <<minted, tokens, kept, reused>>
  /\ UNCHANGED <<document, write_back, disk, expired, loaded, forced, unlocked>>

(* A refresh token that only this process holds. *)
Unsaved(p) == at[p] = "rotated" /\ tokens[p].refresh # disk.tokens.refresh

(* The file is replaced and its mtime noted; or the write raises, and the   *)
(* process alone knows what the issuer gave it.                             *)
_write_back(p) ==
  /\ at[p] = "rotated" /\ Unlock(p)
  /\ \/ /\ write_back /\ disk' = [tokens |-> tokens[p], mtime |-> disk.mtime + 1]
        /\ loaded' = [loaded EXCEPT ![p] = disk.mtime + 1]
        /\ Go(p, "token") /\ UNCHANGED <<faults, torn>>
     \/ ~write_back /\ Go(p, "token") /\ UNCHANGED <<disk, loaded, faults, torn>>
     \/ /\ write_back /\ faults < MaxFaults /\ faults' = faults + 1
        /\ torn' = (torn \/ Unsaved(p)) /\ Go(p, "raised") /\ UNCHANGED <<disk, loaded>>
  /\ UNCHANGED <<document, write_back, live, minted, expired, tokens, forced,
                 unlocked, kept, reused>>

(* A process dies; the system drops its lock and its memory is gone. *)
Die(p) ==
  /\ faults < MaxFaults /\ faults' = faults + 1
  /\ torn' = (torn \/ Unsaved(p))
  /\ tokens' = [tokens EXCEPT ![p] = NoTokens] /\ loaded' = [loaded EXCEPT ![p] = 0]
  /\ Go(p, "idle") /\ Unlock(p)
  /\ UNCHANGED <<document, write_back, disk, live, minted, expired, forced,
                 unlocked, kept, reused>>

(* The steps a call takes by itself. *)
BearerStep(p) ==
  _flock(p) \/ _refresh_locked(p) \/ refresh_tokens(p) \/ _write_back(p)

Answered(p) == at[p] \in Outcomes

(* Where processes write the file back, the only way to present a retired   *)
(* refresh token is to have lost a rotation between the issuer and the      *)
(* file, or to have refreshed without the lock because it failed: the lock  *)
(* and the second _load of _refresh_locked see to the rest.                 *)
SpentOnce == write_back /\ reused => torn \/ unlocked
=============================================================================
