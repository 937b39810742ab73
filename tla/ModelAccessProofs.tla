-------------------------- MODULE ModelAccessProofs --------------------------
(***************************************************************************)
(* Proofs about the model client and the sign-in it shares, for any        *)
(* processes, configurations, servers and bounds: a refresh token is spent *)
(* once, a 401 is followed by another token, a stream gives one answer,    *)
(* and a retry is not taken for a reuse of the cache.                      *)
(***************************************************************************)
EXTENDS ModelClient, TLAPS

(* The types of the sign-in. *)
Pairs == [refresh : Nat, access : Nat]
SignInTypes ==
  /\ document \in Documents /\ write_back \in BOOLEAN
  /\ disk \in [tokens : Pairs, mtime : Nat \ {0}]
  /\ live \in Nat /\ minted \in Nat
  /\ tokens \in [Procs -> Pairs] /\ loaded \in [Procs -> Nat]
  /\ at \in [Procs -> Stages] /\ forced \in [Procs -> BOOLEAN]
  /\ torn \in BOOLEAN /\ unlocked \in BOOLEAN /\ reused \in BOOLEAN
  /\ kept \in [Procs -> BOOLEAN]

(* Where the lock works, a process between its lock and its unlock holds   *)
(* it, ...                                                                 *)
Exclusive ==
  ~unlocked =>
    \A p \in Procs : at[p] \in {"locked", "refreshing", "rotated"} => flock = p

(* ... what a process has of the present file is what the file holds, but  *)
(* for a rotation it has not written yet or could not write, ...           *)
Remembered ==
  \A p \in Procs :
    /\ loaded[p] <= disk.mtime
    /\ write_back /\ ~torn /\ ~unlocked /\ loaded[p] = disk.mtime /\ at[p] # "rotated"
         => tokens[p].refresh = disk.tokens.refresh

(* ... the process that refreshes has just read the file, ...              *)
Reread ==
  \A p \in Procs :
    /\ at[p] \in {"waiting", "locked"} => document # "absent"
    /\ at[p] = "refreshing" =>
         /\ document = "tokens"
         /\ write_back /\ ~torn /\ ~unlocked => tokens[p].refresh = disk.tokens.refresh

(* ... and the file holds the newest token, unless one was lost on the way *)
(* or its process is about to write it.                                    *)
Rotated == \A p \in Procs : ~unlocked /\ at[p] = "rotated" => tokens[p].refresh = live
Current ==
  write_back /\ ~torn /\ ~unlocked /\ document = "tokens"
    => disk.tokens.refresh = live \/ \E p \in Procs : at[p] = "rotated"

SignInv ==
  SignInTypes /\ Exclusive /\ Remembered /\ Reread /\ Rotated /\ Current /\ SpentOnce

(* All that a step of the client or of another process does to the sign-in. *)
SignStep(p) ==
  \/ \E force \in BOOLEAN : bearer(p, force)
  \/ Return(p)
  \/ _flock(p) \/ _refresh_locked(p) \/ refresh_tokens(p) \/ _write_back(p)
  \/ Die(p)

-----------------------------------------------------------------------------
LEMMA ResolveCases ==
  Resolve =>
    /\ pc = "resolve"
    /\ \/ Ends("failed") /\ UNCHANGED credVars
       \/ Ends("signing") /\ bearer(Client, auth_failures = 1)
       \/ \E r \in {resolve(auth_failures > 1)} : Build(r, 0) /\ UNCHANGED credVars
  BY DEF Resolve

LEMMA SignedInCases ==
  SignedIn =>
    /\ pc = "signing" /\ Return(Client)
    /\ \/ at[Client] = "token" /\ Build("plan", tokens[Client].access)
       \/ Build("openai", 0)
       \/ Ends("failed")
  BY DEF SignedIn

LEMMA SignSteps ==
  ASSUME Next PROVE UNCHANGED credVars \/ \E p \in Procs : SignStep(p)
  <1>1. CASE stream  BY <1>1 DEF stream, credVars
  <1>2. CASE Resolve
    BY <1>2, ResolveCases, ModelAssumption DEF SignStep
  <1>3. CASE SignedIn
    BY <1>3, SignedInCases, ModelAssumption DEF SignStep
  <1>4. CASE Open  BY <1>4 DEF Open, Failed
  <1>5. CASE _stream_once  BY <1>5 DEF _stream_once, Failed
  <1>6. CASE _request_once  BY <1>6 DEF _request_once
  <1>7. CASE Output  BY <1>7 DEF Output
  <1>8. ASSUME NEW p \in Procs, Signing(p) PROVE SignStep(p)
    BY <1>8 DEF Signing, BearerStep, SignStep
  <1>9. ASSUME NEW p \in Procs, Other(p) PROVE SignStep(p)
    BY <1>9 DEF Other, SignStep
  <1>10. QED
    BY <1>1, <1>2, <1>3, <1>4, <1>5, <1>6, <1>7, <1>8, <1>9 DEF Next, StreamStep

LEMMA SignInit == Init => SignInv
  <1> SUFFICES ASSUME Init PROVE SignInv  OBVIOUS
  <1> USE ModelAssumption
  <1>1. document \in Documents
    BY DEF Init, CredInit
  <1>2. /\ disk = [tokens |-> [refresh |-> IF document = "tokens" THEN 1 ELSE 0,
                               access |-> IF document \in {"absent", "key"} THEN 0 ELSE 1],
                   mtime |-> 1]
        /\ write_back \in BOOLEAN /\ live = 1 /\ minted = 1
        /\ torn = FALSE /\ unlocked = FALSE /\ reused = FALSE
        /\ tokens = [p \in Procs |-> NoTokens] /\ loaded = [p \in Procs |-> 0]
        /\ at = [p \in Procs |-> "idle"] /\ forced = [p \in Procs |-> FALSE]
        /\ kept = [p \in Procs |-> FALSE]
    BY <1>1 DEF Init, CredInit
  <1>3. disk \in [tokens : Pairs, mtime : Nat \ {0}] /\ NoTokens \in Pairs
    BY <1>2 DEF Pairs, NoTokens
  <1>4. (\A p \in Procs : at[p] = "idle") /\ at \in [Procs -> Stages]
    BY <1>2 DEF Stages
  <1>5. SignInTypes
    BY <1>1, <1>2, <1>3, <1>4 DEF SignInTypes
  <1>6. Exclusive /\ Remembered /\ Reread /\ Rotated /\ Current /\ SpentOnce
    BY <1>2, <1>4 DEF Exclusive, Remembered, Reread, Rotated, Current, SpentOnce
  <1>7. QED  BY <1>5, <1>6 DEF SignInv

LEMMA SignStepInv ==
  ASSUME SignInv, NEW p \in Procs, SignStep(p)
  PROVE  SignInv'
  <1> USE SignInAssumption DEF SignInv
  <1> USE DEF SignInTypes, Go, Unlock, shared, memory, ghosts
  <1>0. NoTokens \in Pairs  BY DEF NoTokens, Pairs
  <1>1. ASSUME NEW force \in BOOLEAN, bearer(p, force) PROVE SignInv'
    <2>1. SignInTypes' /\ Exclusive'
      BY <1>1 DEF bearer, _load, Seen, Stages, Outcomes, Exclusive
    <2>2. Remembered'
      BY <1>1 DEF bearer, _load, Seen, Remembered
    <2>3. Reread' /\ Rotated' /\ Current' /\ SpentOnce'
      BY <1>1 DEF bearer, _load, Seen, Reread, Rotated, Current, SpentOnce
    <2>4. QED  BY <2>1, <2>2, <2>3
  <1>2. ASSUME Return(p) PROVE SignInv'
    BY <1>2 DEF Return, Answered, Stages, Outcomes, Exclusive, Remembered, Reread,
       Rotated, Current, SpentOnce
  <1>3. ASSUME _flock(p) PROVE SignInv'
    <2>1. /\ at[p] = "waiting" /\ at' = [at EXCEPT ![p] = "locked"]
          /\ (unlocked' = TRUE /\ flock' = flock) \/ (unlocked' = unlocked /\ flock = NoProc /\ flock' = p)
          /\ UNCHANGED <<document, write_back, disk, live, minted, tokens, loaded, forced,
                         torn, kept, reused>>
      BY <1>3 DEF _flock
    <2>2. SignInTypes' /\ Exclusive'
      BY <2>1 DEF Stages, Exclusive
    <2>3. Remembered' /\ Reread' /\ Rotated'
      BY <2>1 DEF Remembered, Reread, Rotated
    <2>4. Current' /\ SpentOnce'
      BY <2>1 DEF Current, SpentOnce
    <2>5. QED  BY <2>2, <2>3, <2>4
  <1>4. ASSUME _refresh_locked(p) PROVE SignInv'
    <2> DEFINE verdict == IF document = "key" THEN "raw"
                          ELSE IF ~forced[p] /\ ~_stale(Seen(p)) THEN "token"
                          ELSE IF document = "keyed" THEN "raw"
                          ELSE IF document = "bare" THEN "refused"
                          ELSE "refreshing"
    <2>0. document # "absent"
      BY <1>4 DEF _refresh_locked, Reread
    <2>1. /\ at' = [at EXCEPT ![p] = verdict]
          /\ verdict \in {"raw", "token", "refused", "refreshing"}
          /\ verdict = "refreshing" => document = "tokens" /\ flock' = flock
          /\ verdict # "refreshing" => Unlock(p)
      BY <1>4, <2>0 DEF _refresh_locked, Documents
    <2> HIDE DEF verdict
    <2>2. at[p] = "locked" /\ (~unlocked => flock = p) /\ _load(p)
      BY <1>4 DEF _refresh_locked, Exclusive
    <2>3. UNCHANGED <<document, write_back, disk, live, minted, forced, torn, unlocked,
                      kept, reused>>
      BY <1>4 DEF _refresh_locked
    <2>4. SignInTypes'
      BY <2>1, <2>2, <2>3 DEF _load, Seen, Stages, Outcomes
    <2>5. Exclusive'
      BY <2>1, <2>2, <2>3, <2>4 DEF Exclusive
    <2>6. Remembered'
      BY <2>1, <2>2, <2>3 DEF _load, Seen, Remembered
    <2>7. Reread'
      BY <2>1, <2>2, <2>3 DEF _load, Seen, Remembered, Reread
    <2>8. Rotated' /\ Current' /\ SpentOnce'
      BY <2>1, <2>2, <2>3 DEF _load, Seen, Rotated, Current, SpentOnce
    <2>9. QED  BY <2>4, <2>5, <2>6, <2>7, <2>8
  <1>5. ASSUME refresh_tokens(p) PROVE SignInv'
    <2>1. /\ at[p] = "refreshing" /\ (~unlocked => flock = p)
          /\ UNCHANGED <<document, write_back, disk, loaded, forced, unlocked>>
      BY <1>5 DEF refresh_tokens, Exclusive
    <2>2. ~unlocked => \A q \in Procs : q # p => at[q] # "rotated"
      BY <2>1 DEF Exclusive
    <2>3. write_back /\ ~torn /\ ~unlocked => tokens[p].refresh = live
      BY <2>1, <2>2 DEF Reread, Current
    <2>4. ASSUME NEW rotates \in BOOLEAN, NEW renews \in BOOLEAN, Answer(p, rotates, renews)
          PROVE  SignInv'
      <3>1. /\ live' \in Nat /\ minted' \in Nat
            /\ tokens' = [tokens EXCEPT ![p] =
                 [refresh |-> live', access |-> IF renews THEN minted' ELSE tokens[p].access]]
            /\ at' = [at EXCEPT ![p] = "rotated"] /\ kept' = [kept EXCEPT ![p] = ~renews]
            /\ UNCHANGED <<flock, torn, reused>>
        BY <2>4 DEF Answer
      <3>2. SignInTypes'
        BY <2>1, <3>1 DEF Stages, Pairs
      <3>3. /\ tokens'[p].refresh = live' /\ at'[p] = "rotated"
            /\ \A q \in Procs : q # p => tokens'[q] = tokens[q] /\ at'[q] = at[q]
        BY <3>1
      <3>4. Exclusive' /\ Remembered' /\ Rotated' /\ Current'
        BY <2>1, <2>2, <3>1, <3>3 DEF Exclusive, Remembered, Rotated, Current
      <3>5. Reread' /\ SpentOnce'
        BY <2>1, <3>1, <3>3 DEF Reread, SpentOnce
      <3>6. QED  BY <3>2, <3>4, <3>5
    <2>5. CASE /\ tokens[p].refresh # live /\ reused' = TRUE
               /\ at' = [at EXCEPT ![p] = "refused"] /\ Unlock(p)
               /\ UNCHANGED <<live, minted, tokens, kept, torn>>
      BY <2>1, <2>2, <2>3, <2>5 DEF Stages, Outcomes, Exclusive, Remembered, Reread,
         Rotated, Current, SpentOnce
    <2>6. CASE /\ at' = [at EXCEPT ![p] = "refused"] /\ Unlock(p)
               /\ UNCHANGED <<live, minted, tokens, kept, torn, reused>>
      BY <2>1, <2>2, <2>6 DEF Stages, Outcomes, Exclusive, Remembered, Reread, Rotated,
         Current, SpentOnce
    <2>7. CASE /\ live' = live + 1 /\ torn' = TRUE
               /\ at' = [at EXCEPT ![p] = "raised"] /\ Unlock(p)
               /\ UNCHANGED <<minted, tokens, kept, reused>>
      <3>1. SignInTypes' /\ Exclusive' /\ Remembered'
        BY <2>1, <2>2, <2>7 DEF Stages, Outcomes, Exclusive, Remembered
      <3>2. Reread' /\ Current' /\ SpentOnce'
        BY <2>1, <2>7 DEF Reread, Current, SpentOnce
      <3>3. Rotated'
        BY <2>1, <2>2, <2>7 DEF Rotated
      <3>4. QED  BY <3>1, <3>2, <3>3
    <2>8. QED  BY <1>5, <2>4, <2>5, <2>6, <2>7 DEF refresh_tokens
  <1>6. ASSUME _write_back(p) PROVE SignInv'
    <2>1. /\ at[p] = "rotated" /\ (~unlocked => flock = p /\ tokens[p].refresh = live)
          /\ Unlock(p)
          /\ UNCHANGED <<document, write_back, live, minted, tokens, forced, unlocked,
                         kept, reused>>
      BY <1>6 DEF _write_back, Exclusive, Rotated
    <2>2. ~unlocked =>
            \A q \in Procs : q # p => at[q] \notin {"locked", "refreshing", "rotated"}
      BY <2>1 DEF Exclusive
    <2>3. CASE /\ write_back /\ disk' = [tokens |-> tokens[p], mtime |-> disk.mtime + 1]
               /\ loaded' = [loaded EXCEPT ![p] = disk.mtime + 1]
               /\ at' = [at EXCEPT ![p] = "token"] /\ torn' = torn
      <3>1. disk' \in [tokens : Pairs, mtime : Nat \ {0}]
        BY <2>3
      <3>2. SignInTypes' /\ Exclusive' /\ Rotated' /\ SpentOnce'
        BY <2>1, <2>2, <2>3, <3>1 DEF Stages, Outcomes, Exclusive, Rotated, SpentOnce
      <3>3. Reread' /\ Current'
        BY <2>1, <2>2, <2>3 DEF Reread, Current
      <3>4. Remembered'
        BY <2>1, <2>3 DEF Remembered
      <3>5. QED  BY <3>2, <3>3, <3>4
    <2>4. CASE /\ ~write_back /\ at' = [at EXCEPT ![p] = "token"]
               /\ UNCHANGED <<disk, loaded, torn>>
      BY <2>1, <2>2, <2>4 DEF Stages, Outcomes, Exclusive, Remembered, Reread, Rotated,
         Current, SpentOnce
    <2>5. CASE /\ write_back /\ torn' = (torn \/ Unsaved(p))
               /\ at' = [at EXCEPT ![p] = "raised"] /\ UNCHANGED <<disk, loaded>>
      <3>1. torn' = (torn \/ tokens[p].refresh # disk.tokens.refresh)
        BY <2>1, <2>5 DEF Unsaved
      <3>2. SignInTypes' /\ Exclusive' /\ Rotated' /\ SpentOnce'
        BY <2>1, <2>2, <2>5, <3>1 DEF Stages, Outcomes, Exclusive, Rotated, SpentOnce
      <3>3. Remembered' /\ Reread' /\ Current'
        BY <2>1, <2>2, <2>5, <3>1 DEF Remembered, Reread, Current
      <3>4. QED  BY <3>2, <3>3
    <2>6. QED  BY <1>6, <2>3, <2>4, <2>5 DEF _write_back
  <1>7. ASSUME Die(p) PROVE SignInv'
    <2>1. /\ torn' = (torn \/ (at[p] = "rotated" /\ tokens[p].refresh # disk.tokens.refresh))
          /\ tokens' = [tokens EXCEPT ![p] = NoTokens] /\ loaded' = [loaded EXCEPT ![p] = 0]
          /\ at' = [at EXCEPT ![p] = "idle"] /\ Unlock(p)
          /\ UNCHANGED <<document, write_back, disk, live, minted, forced, unlocked, kept, reused>>
      BY <1>7 DEF Die, Unsaved
    <2>2. SignInTypes' /\ Exclusive' /\ Reread' /\ Rotated' /\ SpentOnce'
      BY <1>0, <2>1 DEF Stages, Exclusive, Reread, Rotated, SpentOnce
    <2>3. Remembered'
      BY <2>1 DEF Remembered
    <2>4. Current'
      BY <2>1 DEF Current, Rotated
    <2>5. QED  BY <2>2, <2>3, <2>4
  <1>8. QED  BY <1>1, <1>2, <1>3, <1>4, <1>5, <1>6, <1>7 DEF SignStep

LEMMA SignNext == SignInv /\ [Next]_vars => SignInv'
  <1> SUFFICES ASSUME SignInv, [Next]_vars PROVE SignInv'  OBVIOUS
  <1>1. CASE UNCHANGED credVars
    BY <1>1 DEF credVars, shared, memory, ghosts, SignInv, SignInTypes, Exclusive,
       Remembered, Reread, Rotated, Current, SpentOnce
  <1>2. CASE Next
    BY <1>1, <1>2, SignSteps, SignStepInv
  <1>3. CASE UNCHANGED vars
    BY <1>1, <1>3 DEF vars
  <1>4. QED  BY <1>2, <1>3

LEMMA SignInvariant == Spec => []SignInv
  <1>1. QED  BY SignInit, SignNext, PTL DEF Spec

(* However many processes share the sign-in and whenever they die, a       *)
(* retired refresh token is presented only after a rotation was lost or a  *)
(* process went on without the lock it could not have (auth.py: _flock,    *)
(* _refresh_locked, _write_back).                                          *)
THEOREM TokensSpentOnce == Spec => []SpentOnce
  <1>1. SignInv => SpentOnce  BY DEF SignInv
  <1>2. QED  BY SignInvariant, <1>1, PTL

-----------------------------------------------------------------------------
(* A request that has produced output is known to have, and no request     *)
(* follows it.                                                             *)
VoiceInv ==
  /\ voices \in 0..1
  /\ pc \in {"resolve", "signing", "open", "fallback"} => ~emitted_content /\ voices = 0
  /\ pc = "reading" /\ emitted_content => voices = 1 /\ speaking
  /\ pc = "reading" /\ ~emitted_content => voices = 0 /\ ~speaking
  /\ emitted_content \in BOOLEAN
  /\ pc = "open" => ~speaking

(* The first attempt of a request has not been observed more often than    *)
(* efforts were learned and providers left, and no later attempt is        *)
(* observed.                                                               *)
SeenInv ==
  /\ seen \in Nat /\ lessons \in Nat /\ changes \in Nat /\ attempt \in Nat
  /\ seen <= 1 + lessons + changes
  /\ pc \in {"resolve", "signing"} /\ attempt = 0 => seen <= lessons + changes

LEMMA StreamInit == Init => VoiceInv /\ SeenInv
  <1> SUFFICES ASSUME Init PROVE VoiceInv /\ SeenInv  OBVIOUS
  <1>1. emitted_content \in BOOLEAN /\ ~emitted_content
    BY DEF Init
  <1>2. pc = "idle" /\ voices = 0 /\ seen = 0 /\ lessons = 0 /\ changes = 0 /\ attempt = 0
    BY DEF Init
  <1>3. QED  BY <1>1, <1>2 DEF VoiceInv, SeenInv

\* What follows a request that fails.
LEMMA FailedInv ==
  ASSUME VoiceInv, SeenInv, NEW e \in Errors, Failed(e),
         pc = "open" \/ (pc = "reading" /\ e \in {"busy", "fatal"})
  PROVE  VoiceInv' /\ SeenInv'
  <1> USE DEF VoiceInv, SeenInv, locals, learned
  <1>1. UNCHANGED <<voices, speaking>>  BY DEF Failed
  <1>2. CASE Learn(e)
    BY <1>1, <1>2 DEF Learn
  <1>3. CASE mark_exhausted(e)
    BY <1>1, <1>3 DEF mark_exhausted
  <1>4. CASE Degrade(e)
    BY <1>1, <1>4 DEF Degrade
  <1>5. CASE Retry(e)
    <2>1. /\ attempt' = attempt + 1 /\ UNCHANGED <<emitted_content, seen, lessons, changes>>
          /\ pc' \in {"failed", "fallback", "resolve"}
          /\ emitted_content => pc' = "failed"
      BY <1>5 DEF Retry
    <2>2. QED  BY <1>1, <2>1
  <1>6. QED  BY <1>2, <1>3, <1>4, <1>5 DEF Failed

\* Building a request.
LEMMA BuildInv ==
  ASSUME VoiceInv, SeenInv, NEW r, NEW gen, Build(r, gen), pc \in {"resolve", "signing"}
  PROVE  VoiceInv' /\ SeenInv'
  <1>1. /\ pc' = "open" /\ speaking' = FALSE
        /\ UNCHANGED <<attempt, emitted_content, voices, lessons, changes>>
    BY DEF Build, locals
  <1>2. attempt # 0 => Observed(r) = prefixes
    BY DEF Observed
  <1>3. seen' = seen \/ (attempt = 0 /\ seen' = seen + 1)
    BY <1>2 DEF Build
  <1>4. QED  BY <1>1, <1>3 DEF VoiceInv, SeenInv

LEMMA EndsInv ==
  ASSUME VoiceInv, SeenInv, NEW how \in {"signing", "reading", "done", "failed"}, Ends(how),
         how = "signing" => pc = "resolve",
         how = "reading" => pc = "open"
  PROVE  VoiceInv' /\ SeenInv'
  BY DEF Ends, VoiceInv, SeenInv, locals, history

LEMMA StreamNext == VoiceInv /\ SeenInv /\ [Next]_vars => VoiceInv' /\ SeenInv'
  <1> SUFFICES ASSUME VoiceInv, SeenInv, [Next]_vars PROVE VoiceInv' /\ SeenInv'
    OBVIOUS
  <1>1. CASE stream
    <2>1. emitted_content' \in BOOLEAN /\ ~emitted_content'
      BY <1>1 DEF stream
    <2>2. pc' = "resolve" /\ voices' = 0 /\ seen' = 0 /\ lessons' = 0 /\ changes' = 0
          /\ attempt' = 0
      BY <1>1 DEF stream
    <2>3. QED  BY <2>1, <2>2 DEF VoiceInv, SeenInv
  <1>2. CASE Resolve
    BY <1>2, ResolveCases, EndsInv, BuildInv
  <1>3. CASE SignedIn
    BY <1>3, SignedInCases, EndsInv, BuildInv
  <1>4. CASE Open
    BY <1>4, EndsInv, FailedInv DEF Open
  <1>5. CASE _stream_once
    BY <1>5, EndsInv, FailedInv DEF _stream_once, Errors
  <1>6. CASE _request_once
    BY <1>6 DEF _request_once, Speak, VoiceInv, SeenInv, locals
  <1>7. CASE Output
    BY <1>7 DEF Output, Speak, VoiceInv, SeenInv
  <1>8. CASE UNCHANGED clientVars
    BY <1>8 DEF clientVars, locals, history, VoiceInv, SeenInv
  <1>9. ASSUME NEW p \in Procs, Signing(p) \/ Other(p) PROVE UNCHANGED clientVars
    BY <1>9 DEF Signing, Other
  <1>10. CASE UNCHANGED vars
    BY <1>8, <1>10 DEF vars
  <1>11. QED
    BY <1>1, <1>2, <1>3, <1>4, <1>5, <1>6, <1>7, <1>8, <1>9, <1>10 DEF Next, StreamStep

(* Whatever the servers answer and however often a stream is tried again,  *)
(* at most one of its requests has produced output (model.py: stream).     *)
THEOREM AnswerGivenOnce == Spec => []OneAnswer
  <1>1. VoiceInv => OneAnswer  BY DEF VoiceInv, OneAnswer
  <1>2. QED  BY StreamInit, StreamNext, <1>1, PTL DEF Spec

(* A stream is one use of its prefix however often it is retried, but for  *)
(* the efforts it learned and the providers it left (model.py: stream, its *)
(* argument observe_cache).                                                *)
THEOREM RetriesAreNoReuse == Spec => []ReuseIsReal
  <1>1. SeenInv => ReuseIsReal  BY DEF SeenInv, ReuseIsReal
  <1>2. QED  BY StreamInit, StreamNext, <1>1, PTL DEF Spec

-----------------------------------------------------------------------------
(* Nobody has a token newer than the issuer's, ...                         *)
Generations ==
  /\ \A p \in Procs : tokens[p].access <= minted
  /\ disk.tokens.access <= minted /\ bearer_gen \in Nat /\ refusedGen \in Nat
  /\ bearer_gen <= minted /\ refusedGen <= minted

(* ... the client asks for a token only within Resolve and SignedIn, ...   *)
Asking == pc # "signing" => at[Client] = "idle"

(* ... after the first 401 it asks for another, and what it gets is, but   *)
(* for an answer without one.                                              *)
Insists == pc = "signing" => forced[Client] = (auth_failures = 1)
Another ==
  pc = "signing" /\ auth_failures = 1 /\ refusedGen # 0 /\ at[Client] \in {"rotated", "token"}
    => tokens[Client].access # refusedGen \/ kept[Client]

FreshInv == Generations /\ Asking /\ Insists /\ Another /\ FreshAfter401

LEMMA FreshInit == Init => FreshInv
  <1> SUFFICES ASSUME Init PROVE FreshInv  OBVIOUS
  <1>1. SignInv  BY SignInit
  <1>2. /\ pc = "idle" /\ bearer_gen = 0 /\ refusedGen = 0 /\ minted = 1
        /\ \A p \in Procs : tokens[p].access = 0 /\ at[p] = "idle"
        /\ disk.tokens.access \in {0, 1}
    BY DEF Init, CredInit, NoTokens
  <1>3. QED
    BY <1>2, ModelAssumption DEF FreshInv, Generations, Asking, Insists, Another,
       FreshAfter401

\* Tokens only get newer, and a process touches its own memory only.
LEMMA Newer ==
  ASSUME SignInv, Generations, NEW p \in Procs, SignStep(p)
  PROVE  /\ minted <= minted'
         /\ \A q \in Procs : tokens'[q].access <= minted'
         /\ disk'.tokens.access <= minted'
         /\ \A q \in Procs : q # p => UNCHANGED <<tokens[q], at[q], forced[q], kept[q]>>
  <1> USE DEF SignInv, SignInTypes, Go, shared, memory, ghosts, Generations
  <1>1. ASSUME NEW force \in BOOLEAN, bearer(p, force)
        PROVE  /\ tokens'[p] \in {tokens[p], disk.tokens}
               /\ \A q \in Procs : q # p => UNCHANGED <<tokens[q], at[q], forced[q], kept[q]>>
               /\ UNCHANGED <<minted, disk>>
    BY <1>1 DEF bearer, _load, Seen
  <1>2. ASSUME Return(p) \/ _flock(p) \/ Die(p)
        PROVE  /\ tokens'[p] \in {tokens[p], NoTokens}
               /\ \A q \in Procs : q # p => UNCHANGED <<tokens[q], at[q], forced[q], kept[q]>>
               /\ UNCHANGED <<minted, disk>>
    BY <1>2 DEF Return, _flock, Die
  <1>3. ASSUME _refresh_locked(p)
        PROVE  /\ tokens'[p] \in {tokens[p], disk.tokens}
               /\ \A q \in Procs : q # p => UNCHANGED <<tokens[q], at[q], forced[q], kept[q]>>
               /\ UNCHANGED <<minted, disk>>
    BY <1>3 DEF _refresh_locked, _load, Seen
  <1>4. ASSUME refresh_tokens(p)
        PROVE  /\ tokens'[p].access <= minted' /\ minted' \in {minted, minted + 1}
               /\ \A q \in Procs : q # p => UNCHANGED <<tokens[q], at[q], forced[q], kept[q]>>
               /\ UNCHANGED disk
    BY <1>4 DEF refresh_tokens, Answer
  <1>5. ASSUME _write_back(p)
        PROVE  /\ tokens' = tokens /\ disk'.tokens \in {tokens[p], disk.tokens}
               /\ \A q \in Procs : q # p => UNCHANGED <<tokens[q], at[q], forced[q], kept[q]>>
               /\ UNCHANGED minted
    BY <1>5 DEF _write_back
  <1>6. /\ minted \in Nat /\ NoTokens.access <= minted
        /\ disk.tokens.access \in Nat /\ disk.tokens.access <= minted
        /\ \A q \in Procs : tokens[q].access \in Nat /\ tokens[q].access <= minted
    BY DEF Pairs, NoTokens
  <1>7. CASE \E force \in BOOLEAN : bearer(p, force)
    BY <1>1, <1>6, <1>7
  <1>8. CASE Return(p) \/ _flock(p) \/ Die(p)
    BY <1>2, <1>6, <1>8
  <1>9. CASE _refresh_locked(p)
    BY <1>3, <1>6, <1>9
  <1>10. CASE refresh_tokens(p)
    <2>1. /\ minted <= minted' /\ tokens'[p].access <= minted' /\ disk' = disk
          /\ \A q \in Procs : q # p => tokens'[q] = tokens[q]
      BY <1>4, <1>6, <1>10
    <2>2. minted' \in Nat
      BY <1>4, <1>6, <1>10
    <2>3. \A q \in Procs : tokens'[q].access <= minted'
      BY <1>6, <2>1, <2>2
    <2>4. disk'.tokens.access <= minted'
      BY <1>6, <2>1, <2>2
    <2>5. QED  BY <1>4, <1>10, <2>1, <2>3, <2>4
  <1>11. CASE _write_back(p)
    BY <1>5, <1>6, <1>11
  <1>12. QED  BY <1>7, <1>8, <1>9, <1>10, <1>11 DEF SignStep

\* A call that insists ends with a token only after a rotation of its own.
LEMMA Insisting ==
  ASSUME SignInv, Generations, NEW p \in Procs, BearerStep(p)
  PROVE  /\ forced'[p] = forced[p] /\ at[p] # "idle"
         /\ at'[p] = "rotated" => tokens'[p].access = minted + 1 \/ kept'[p]
         /\ at'[p] = "token" /\ forced[p] =>
              at[p] = "rotated" /\ tokens'[p] = tokens[p] /\ kept'[p] = kept[p]
  <1> USE DEF SignInv, SignInTypes, Go, shared, memory, ghosts
  <1>1. CASE _flock(p)  BY <1>1 DEF _flock
  <1>2. CASE _refresh_locked(p)
    <2>1. at'[p] \in {"raw", "token", "refused", "refreshing"}
          /\ (forced[p] => at'[p] # "token")
      BY <1>2 DEF _refresh_locked
    <2>2. QED  BY <1>2, <2>1 DEF _refresh_locked
  <1>3. CASE refresh_tokens(p)
    <2>1. ASSUME NEW rotates \in BOOLEAN, NEW renews \in BOOLEAN, Answer(p, rotates, renews)
          PROVE  at'[p] = "rotated" /\ (tokens'[p].access = minted + 1 \/ kept'[p])
      BY <2>1 DEF Answer
    <2>2. CASE at' = [at EXCEPT ![p] = "refused"] \/ at' = [at EXCEPT ![p] = "raised"]
      BY <1>3, <2>2 DEF refresh_tokens
    <2>3. (\E rotates, renews \in BOOLEAN : Answer(p, rotates, renews))
            \/ at' = [at EXCEPT ![p] = "refused"] \/ at' = [at EXCEPT ![p] = "raised"]
      BY <1>3 DEF refresh_tokens
    <2>4. at[p] = "refreshing" /\ forced' = forced
      BY <1>3 DEF refresh_tokens
    <2>5. QED  BY <2>1, <2>2, <2>3, <2>4
  <1>4. CASE _write_back(p)  BY <1>4 DEF _write_back
  <1>5. QED  BY <1>1, <1>2, <1>3, <1>4 DEF BearerStep

LEMMA FreshNext == SignInv /\ FreshInv /\ [Next]_vars => FreshInv'
  <1> SUFFICES ASSUME SignInv, FreshInv, [Next]_vars PROVE FreshInv'
    OBVIOUS
  <1> USE ModelAssumption DEF FreshInv
  <1>0. /\ minted \in Nat /\ disk.tokens.access \in Nat
        /\ \A p \in Procs : tokens[p].access \in Nat
        /\ at \in [Procs -> Stages] /\ forced \in [Procs -> BOOLEAN]
    BY DEF SignInv, SignInTypes, Pairs
  <1>1. CASE stream
    BY <1>0, <1>1 DEF stream, credVars, shared, memory, Generations, Asking, Insists,
       Another, FreshAfter401
  <1>2. ASSUME Ends("failed") \/ Ends("reading"), UNCHANGED credVars, pc # "signing"
        PROVE  FreshInv'
    BY <1>0, <1>2 DEF Ends, locals, sending, history, credVars, shared, memory,
       Generations, Asking, Insists, Another, FreshAfter401
  <1>3. CASE Resolve
    <2>1. CASE Ends("signing") /\ bearer(Client, auth_failures = 1)
      <3>1. /\ at[Client] = "idle"
            /\ at'[Client] \in {"refused", "waiting", "token"}
            /\ auth_failures = 1 => at'[Client] # "token"
            /\ forced'[Client] = (auth_failures = 1)
        BY <1>0, <2>1 DEF bearer, Go
      <3>2. SignStep(Client)
        BY <2>1 DEF SignStep
      <3>3. pc' = "signing" /\ UNCHANGED <<auth_failures, bearer_gen, refusedGen>>
        BY <2>1 DEF Ends, locals, sending, history
      <3>4. minted' \in Nat
        BY <3>2, SignStepInv DEF SignInv, SignInTypes
      <3>5. Generations'
        BY <1>0, <3>2, <3>3, <3>4, Newer DEF Generations
      <3>6. QED
        BY <3>1, <3>3, <3>5 DEF Asking, Insists, Another, FreshAfter401
    <2>2. ASSUME NEW r, Build(r, 0), UNCHANGED credVars PROVE FreshInv'
      BY <1>0, <1>3, <2>2, ResolveCases DEF Build, locals, credVars, shared, memory,
         Generations, Asking, Insists, Another, FreshAfter401
    <2>3. QED  BY <1>2, <1>3, <2>1, <2>2, ResolveCases
  <1>4. CASE SignedIn
    <2>1. pc = "signing" /\ Return(Client)
      BY <1>4, SignedInCases
    <2>2. at'[Client] = "idle" /\ UNCHANGED <<tokens, minted, disk, kept>>
      BY <1>0, <2>1 DEF Return, Go, shared, ghosts
    <2>3. CASE at[Client] = "token" /\ Build("plan", tokens[Client].access)
      BY <1>0, <2>1, <2>2, <2>3 DEF Build, locals, Generations, Asking, Insists, Another,
         FreshAfter401
    <2>4. CASE Build("openai", 0)
      BY <1>0, <2>1, <2>2, <2>4 DEF Build, locals, Generations, Asking, Insists, Another,
         FreshAfter401
    <2>5. CASE Ends("failed")
      BY <1>0, <2>1, <2>2, <2>5 DEF Ends, locals, sending, history, Generations, Asking,
         Insists, Another, FreshAfter401
    <2>6. QED  BY <1>4, <2>3, <2>4, <2>5, SignedInCases
  <1>5. ASSUME NEW e, Failed(e), pc \in {"open", "reading"} PROVE FreshInv'
    <2>1. pc' \in {"resolve", "failed", "fallback"}
      BY <1>5 DEF Failed, Learn, mark_exhausted, Degrade, Retry
    <2>2. bearer_gen' = bearer_gen /\ refusedGen' \in {refusedGen, bearer_gen}
      BY <1>5 DEF Failed, Learn, mark_exhausted, Degrade, Retry, sending
    <2>3. UNCHANGED <<minted, disk, tokens, at, forced, kept>>
      BY <1>5 DEF Failed, credVars, shared, memory, ghosts
    <2>4. QED
      BY <1>0, <1>5, <2>1, <2>2, <2>3 DEF Generations, Asking, Insists, Another,
         FreshAfter401
  <1>6. CASE Open
    BY <1>2, <1>5, <1>6 DEF Open
  <1>7. CASE _stream_once
    <2>1. CASE Ends("done") /\ UNCHANGED credVars
      BY <1>0, <1>7, <2>1 DEF _stream_once, Ends, locals, sending, history, credVars,
         shared, memory, Generations, Asking, Insists, Another, FreshAfter401
    <2>2. QED  BY <1>2, <1>5, <1>7, <2>1 DEF _stream_once
  <1>8. CASE _request_once \/ Output
    BY <1>0, <1>8 DEF _request_once, Output, locals, sending, credVars, shared, memory,
       Generations, Asking, Insists, Another, FreshAfter401
  <1>9. ASSUME NEW p \in Procs, UNCHANGED clientVars, SignStep(p),
               p = Client => BearerStep(Client)
        PROVE  FreshInv'
    <2>1. UNCHANGED <<pc, auth_failures, route, bearer_gen, refusedGen>>
      BY <1>9 DEF clientVars, locals, sending, history
    <2>2. minted' \in Nat
      BY <1>9, SignStepInv DEF SignInv, SignInTypes
    <2>3. Generations'
      BY <1>0, <1>9, <2>1, <2>2, Newer DEF Generations
    <2>5. CASE p # Client
      BY <1>9, <2>1, <2>3, <2>5, Newer DEF Asking, Insists, Another, FreshAfter401
    <2>6. CASE p = Client
      <3>1. /\ forced'[Client] = forced[Client] /\ at[Client] # "idle"
            /\ at'[Client] = "rotated" => tokens'[Client].access = minted + 1 \/ kept'[Client]
            /\ at'[Client] = "token" /\ forced[Client]
                 => /\ at[Client] = "rotated" /\ tokens'[Client] = tokens[Client]
                    /\ kept'[Client] = kept[Client]
        BY <1>9, <2>6, Insisting
      <3>2. pc = "signing"
        BY <3>1 DEF Asking
      <3>3. QED
        BY <1>0, <2>1, <2>3, <3>1, <3>2 DEF Asking, Insists, Another, Generations,
           FreshAfter401
    <2>7. QED  BY <2>5, <2>6
  <1>10. ASSUME NEW p \in Procs, Signing(p) \/ Other(p) PROVE FreshInv'
    BY <1>9, <1>10 DEF Signing, Other, BearerStep, SignStep
  <1>11. CASE UNCHANGED vars
    BY <1>11 DEF vars, credVars, clientVars, locals, sending, history, shared, memory, ghosts,
       Generations, Asking, Insists, Another, FreshAfter401
  <1>12. QED
    BY <1>1, <1>3, <1>4, <1>6, <1>7, <1>8, <1>10, <1>11 DEF Next, StreamStep

(* After the first 401 of a stream its request to the plan carries another *)
(* access token than the one refused, whatever other processes did to the  *)
(* file in the meantime, unless the issuer answered the forced refresh     *)
(* without one (auth.py: bearer with force, refresh_tokens).               *)
THEOREM TokenAfter401 == Spec => []FreshAfter401
  <1>1. FreshInv => FreshAfter401  BY DEF FreshInv
  <1>2. QED  BY SignInvariant, FreshInit, FreshNext, <1>1, PTL DEF Spec
=============================================================================
