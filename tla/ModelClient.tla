----------------------------- MODULE ModelClient -----------------------------
(***************************************************************************)
(* One request to the model and everything the client does to get an       *)
(* answer (mjj/model.py: ModelClient.stream and the requests it makes,     *)
(* with mjj/auth.py: CredentialResolver choosing the route, and            *)
(* mjj/prompt_cache.py planning the cache).  A stream of a client repeats  *)
(* a request after transport errors, refreshes its sign-in after a 401,    *)
(* learns what a provider refuses, leaves a provider whose quota is spent  *)
(* and falls back to one request without streaming.                        *)
(* Efforts are their places in EFFORT_ORDER.  The server answers a request *)
(* in any of the ways the code tells apart; it rejects a field only when   *)
(* the body holds it, and names any list of efforts it likes.  The streams *)
(* of a client have the same instructions and tools.                       *)
(***************************************************************************)
EXTENDS Credentials, PromptCache

CONSTANTS
  Client,        \* the process that talks to the model
  Setups,        \* how the client is configured: provider, keys, model, mode
  AcceptSets,    \* the efforts a server may name as the ones it accepts
  Gaps           \* minutes between two streams

(* A setup has the fields provider (asked for), model (a family asked for,  *)
(* or auto), keyed (the providers with a key), scoped and metered           *)
(* (MJJ_OPENAI_API_KEY and OPENAI_API_KEY are set), effort, mode (of the    *)
(* cache), document (auth.json), max_retries and, as bounds, streams and    *)
(* lessons: the lists of efforts that answer one stream.                    *)
ASSUME ModelAssumption ==
  Client \in Procs /\ \A s \in Setups : s.document \in Documents

Efforts == 0..6
Unsent == -1
Routes == {"plan", "openai", "deepseek", "openpaths", "openrouter"}
Chat == {"deepseek", "openpaths", "openrouter"}
Models == {"gpt", "claude", "deepseek", "auto-code", "glm"}

VARIABLES
  setup,                 \* configuration
  pc, attempt, auth_failures, emitted_content,  \* locals of stream
  route,                 \* the credential of the request: a route
  bearer_gen,            \* and the generation of its token, on the plan
  body,                  \* what the request says of effort, caches, compaction
  _compaction_disabled, _cache_controls_disabled, _effort_overrides,
  exhausted,             \* the resolver's providers with a spent quota
  prefixes, clock,       \* the cache optimizer, minutes
  streams,               \* bound: streams so far
  voices,                \* requests of this stream that produced output
  speaking,              \* this request has produced output
  seen, lessons,         \* observations of a prefix, lists of efforts learned
  changes,               \* and providers left, in this stream
  refusedGen             \* the access token a first 401 refused, 0 for none

locals == <<attempt, auth_failures, emitted_content>>
sending == <<route, bearer_gen, body>>
learned == <<_compaction_disabled, _cache_controls_disabled, _effort_overrides, exhausted>>
cache == <<prefixes, clock>>
history == <<streams, voices, speaking, seen, lessons, changes, refusedGen>>
clientVars == <<setup, pc, locals, sending, learned, cache, history>>
vars == <<credVars, clientVars>>

NoBody == [effort |-> Unsent, compaction |-> FALSE, caching |-> FALSE]

Init ==
  /\ setup \in Setups
  /\ CredInit({setup.document})
  /\ pc = "idle" /\ attempt = 0 /\ auth_failures = 0 /\ emitted_content = FALSE
  /\ route = "plan" /\ bearer_gen = 0 /\ body = NoBody
  /\ _compaction_disabled = FALSE /\ _cache_controls_disabled = FALSE
  /\ _effort_overrides = [m \in Models |-> {}] /\ exhausted = {}
  /\ prefixes = << >> /\ clock = 0
  /\ streams = 0 /\ voices = 0 /\ speaking = FALSE /\ seen = 0 /\ lessons = 0
  /\ changes = 0 /\ refusedGen = 0

(* The route of a request. *)

alternatives(spent) ==
  IF setup.provider # "auto" THEN << >>
  ELSE SelectSeq(<<"deepseek", "openpaths", "openrouter">>,
                 LAMBDA r : r \in setup.keyed /\ r \notin spent)

(* provider_credential: a provider without a key is an AuthError. *)
Keyed(r) == IF r \in setup.keyed THEN r ELSE "none"

OwnKey == "openai" \in setup.keyed \/ setup.scoped \/ setup.metered

(* CredentialResolver.resolve up to the sign-in; auto never adopts a stray  *)
(* OpenRouter key, and takes OPENAI_API_KEY only where the plan has failed. *)
resolve(fallback) ==
  CASE setup.provider \notin {"auto", "openai"} -> Keyed(setup.provider)
    [] exhausted # {} /\ alternatives(exhausted) # << >> -> alternatives(exhausted)[1]
    [] setup.provider = "openai" -> IF OwnKey THEN "openai" ELSE "plan"
    [] setup.model = "deepseek" /\ "deepseek" \in setup.keyed -> "deepseek"
    [] setup.scoped -> "openai"
    [] "openpaths" \in setup.keyed -> "openpaths"
    [] fallback /\ setup.metered -> "openai"
    [] OTHER -> "plan"

(* The body of a request. *)

(* resolve_model: the provider's own model where none is asked for. *)
effective_model(r) ==
  IF setup.model # "auto" THEN setup.model
  ELSE CASE r = "deepseek" -> "deepseek" [] r = "openpaths" -> "auto-code"
         [] r = "openrouter" -> "glm" [] OTHER -> "gpt"

closest_effort(effort, allowed) ==
  IF allowed = {} \/ effort \in allowed THEN effort
  ELSE LET Far(e) == IF e < effort THEN effort - e ELSE e - effort
       IN CHOOSE e \in allowed : \A f \in allowed :
            Far(e) < Far(f) \/ (Far(e) = Far(f) /\ e >= f)

supported_efforts(m) == IF m = "gpt" THEN Efforts \ {1} ELSE {}

effective_effort(m) ==
  closest_effort(setup.effort, IF _effort_overrides[m] # {} THEN _effort_overrides[m]
                               ELSE supported_efforts(m))

(* none and minimal turn thinking off; the rest is low, high or max. *)
_deepseek_thinking(effort) ==
  CASE effort \in {0, 1} -> Unsent [] effort = 2 -> 2 [] effort = 6 -> 6 [] OTHER -> 4

Effort(r) ==
  IF r = "deepseek" \/ (r = "openpaths" /\ effective_model(r) = "deepseek")
  THEN _deepseek_thinking(setup.effort) ELSE effective_effort(effective_model(r))

(* The prefixes a cache plan is made for: an API key at OpenAI with a 5.6   *)
(* model, a Claude model through a gateway.                                 *)
Planned(r) ==
  /\ ~_cache_controls_disabled
  /\ \/ r = "openai" /\ effective_model(r) = "gpt"
     \/ r \in {"openpaths", "openrouter"} /\ effective_model(r) = "claude"

(* Mutant: a retry counts as a use of the prefix. *)
ObservedAlways(r) ==
  IF setup.mode = "auto" /\ Planned(r)
  THEN _observe_times(prefixes, effective_model(r), clock) ELSE prefixes

(* The prefix is the model, the instructions and the tools: a gateway that  *)
(* serves the same model as another serves the same prefix.                 *)
Observed(r) ==
  IF setup.mode = "auto" /\ Planned(r) /\ attempt = 0
  THEN _observe_times(prefixes, effective_model(r), clock) ELSE prefixes

Caching(r) ==
  Planned(r) /\ (r = "openai" \/ anthropic_plan(setup.mode, _times(Observed(r), effective_model(r))))

request_body(r) ==
  [effort |-> Effort(r), caching |-> Caching(r),
   compaction |-> r \notin Chat /\ ~_compaction_disabled]

Build(r, gen) ==
  /\ route' = r /\ bearer_gen' = gen /\ body' = request_body(r)
  /\ prefixes' = Observed(r)
  /\ seen' = IF Observed(r) # prefixes THEN seen + 1 ELSE seen
  /\ speaking' = FALSE /\ pc' = "open"
  /\ UNCHANGED <<setup, locals, learned, clock, streams, voices, lessons, changes,
                 refusedGen>>

(* stream. *)

stream ==
  /\ pc \in {"idle", "done", "failed"} /\ streams < setup.streams
  /\ streams' = streams + 1 /\ pc' = "resolve"
  /\ \E gap \in Gaps : clock' = clock + gap
  /\ attempt' = 0 /\ auth_failures' = 0 /\ emitted_content' = FALSE
  /\ voices' = 0 /\ speaking' = FALSE /\ seen' = 0 /\ lessons' = 0 /\ changes' = 0
  /\ refusedGen' = 0
  /\ route' = "plan" /\ bearer_gen' = 0 /\ body' = NoBody
  /\ UNCHANGED <<setup, learned, prefixes, credVars>>

Ends(how) ==
  /\ pc' = how
  /\ UNCHANGED <<setup, locals, sending, learned, cache, history>>

(* Mutant: a 401 does not force a refresh. *)
ResolveLazily ==
  /\ pc = "resolve"
  /\ LET r == resolve(auth_failures > 1)
     IN CASE r = "none" -> Ends("failed") /\ UNCHANGED credVars
          [] r = "plan" -> Ends("signing") /\ bearer(Client, FALSE)
          [] OTHER -> Build(r, 0) /\ UNCHANGED credVars

Resolve ==
  /\ pc = "resolve"
  /\ LET r == resolve(auth_failures > 1)
     IN CASE r = "none" -> Ends("failed") /\ UNCHANGED credVars
          [] r = "plan" -> Ends("signing") /\ bearer(Client, auth_failures = 1)
          [] OTHER -> Build(r, 0) /\ UNCHANGED credVars

Return(p) ==
  /\ Answered(p) /\ Go(p, "idle") /\ forced' = [forced EXCEPT ![p] = FALSE]
  /\ UNCHANGED <<shared, tokens, loaded, ghosts>>

(* resolve after the sign-in: an AuthError gives way to OPENAI_API_KEY.     *)
SignedIn ==
  /\ pc = "signing" /\ Return(Client)
  /\ CASE at[Client] = "token" -> Build("plan", tokens[Client].access)
       [] at[Client] = "raw" \/ (at[Client] = "refused" /\ setup.metered) -> Build("openai", 0)
       [] OTHER -> Ends("failed")

(* What a request fails with: HTTP 400 naming a field of the body, 429 for  *)
(* a spent quota, 401, another retryable failure, one that is not.          *)
Errors == {"effort", "compaction", "cache", "quota", "denied", "busy", "fatal"}

provider == IF route = "plan" THEN "openai" ELSE route

(* The except clause of stream, in its order.  A list of efforts that does  *)
(* not hold the one sent is kept for the model, and the request sent again  *)
(* without being counted: only the bound ends that.                         *)
Learn(e) ==
  /\ e = "effort" /\ lessons < setup.lessons
  /\ \E named \in AcceptSets :
       /\ closest_effort(body.effort, named) # body.effort
       /\ _effort_overrides' = [_effort_overrides EXCEPT ![effective_model(route)] = named]
  /\ lessons' = lessons + 1 /\ pc' = "resolve"
  /\ UNCHANGED <<locals, _compaction_disabled, _cache_controls_disabled,
                 exhausted, seen, changes, refusedGen>>

mark_exhausted(e) ==
  /\ e = "quota" /\ ~emitted_content /\ exhausted' = exhausted \cup {provider}
  /\ changes' = changes + 1
  /\ IF alternatives(exhausted') # << >> THEN pc' = "resolve" /\ attempt' = 0
     ELSE pc' = "failed" /\ UNCHANGED attempt
  /\ UNCHANGED <<auth_failures, emitted_content, _compaction_disabled,
                 _cache_controls_disabled, _effort_overrides, seen, lessons, refusedGen>>

Degrade(e) ==
  /\ attempt' = attempt + 1 /\ pc' = "resolve"
  /\ \/ e = "compaction" /\ _compaction_disabled' = TRUE /\ UNCHANGED _cache_controls_disabled
     \/ e = "cache" /\ _cache_controls_disabled' = TRUE /\ UNCHANGED _compaction_disabled
  /\ UNCHANGED <<auth_failures, emitted_content, _effort_overrides, exhausted,
                 seen, lessons, changes, refusedGen>>

retryable(e) == e \in {"quota", "denied", "busy"}

(* Mutant: a retry is not counted. *)
RetryForever(e) ==
  /\ e \in {"denied", "busy", "fatal"}
  /\ pc' = IF emitted_content \/ ~retryable(e) THEN "failed" ELSE "resolve"
  /\ UNCHANGED <<locals, learned, seen, lessons, changes, refusedGen>>

Retry(e) ==
  /\ e \in {"denied", "busy", "fatal"} /\ attempt' = attempt + 1
  /\ auth_failures' = IF e = "denied" THEN auth_failures + 1 ELSE auth_failures
  /\ refusedGen' = IF e = "denied" /\ auth_failures = 0 THEN bearer_gen ELSE refusedGen
  /\ pc' = IF emitted_content \/ ~retryable(e) THEN "failed"
           ELSE IF attempt + 1 > setup.max_retries THEN "fallback" ELSE "resolve"
  /\ UNCHANGED <<emitted_content, learned, seen, lessons, changes>>

Failed(e) ==
  /\ Learn(e) \/ mark_exhausted(e) \/ Degrade(e) \/ Retry(e)
  /\ UNCHANGED <<setup, sending, cache, streams, voices, speaking, credVars>>

(* The request is answered: a stream opens, or an error; a server rejects   *)
(* only what the body asks for.                                             *)
Rejects(e) ==
  CASE e = "effort" -> body.effort # Unsent
    [] e = "compaction" -> body.compaction
    [] e = "cache" -> body.caching
    [] OTHER -> TRUE

Open ==
  /\ pc = "open"
  /\ \/ Ends("reading") /\ UNCHANGED credVars
     \/ \E e \in Errors : Rejects(e) /\ Failed(e)

Speak ==
  /\ voices' = IF speaking THEN voices ELSE voices + 1
  /\ speaking' = TRUE

(* Mutant: output is not noted. *)
OutputUnnoted ==
  /\ pc = "reading" /\ Speak
  /\ UNCHANGED <<setup, pc, locals, sending, learned, cache, streams, seen,
                 lessons, changes, refusedGen, credVars>>

(* A delta or an item reaches the caller. *)
Output ==
  /\ pc = "reading" /\ Speak /\ emitted_content' = TRUE
  /\ UNCHANGED <<setup, pc, attempt, auth_failures, sending, learned,
                 cache, streams, seen, lessons, changes, refusedGen, credVars>>

(* The stream completes or just ends; it reports an error; the connection   *)
(* breaks, which no clause of the client turns into a ModelError.           *)
_stream_once ==
  /\ pc = "reading"
  /\ \/ (Ends("done") \/ Ends("failed")) /\ UNCHANGED credVars
     \/ \E e \in {"busy", "fatal"} : Failed(e)

(* One whole answer, or the error that ended the stream. *)
_request_once ==
  /\ pc = "fallback"
  /\ \/ Speak /\ pc' = "done"
     \/ pc' = "failed" /\ UNCHANGED <<voices, speaking>>
  /\ UNCHANGED <<setup, locals, sending, learned, cache, streams, seen,
                 lessons, changes, refusedGen, credVars>>

(* The other processes, where there are tokens to share: each asks for its  *)
(* bearer once in its life (a bound), and may die.                          *)
Other(p) ==
  /\ p # Client /\ document = "tokens"
  /\ \/ \E force \in BOOLEAN : bearer(p, force)
     \/ Die(p)
  /\ UNCHANGED clientVars

Signing(p) == BearerStep(p) /\ UNCHANGED clientVars

StreamStep == Resolve \/ SignedIn \/ Open \/ _stream_once \/ _request_once

Next ==
  \/ stream \/ StreamStep \/ Output
  \/ \E p \in Procs : Signing(p) \/ Other(p)

(* The client's thread runs; every request it waits for answers or times    *)
(* out; a process that holds the lock runs too.                             *)
Fairness ==
  /\ WF_vars(StreamStep)
  /\ \A p \in Procs : WF_vars(Signing(p))

Spec == Init /\ [][Next]_vars /\ Fairness

(* Of all the requests a stream makes, over every retry, lesson, fallback   *)
(* and change of provider, at most one has produced output: no text twice   *)
(* and no tool call twice.                                                  *)
OneAnswer == voices <= 1

(* Every stream ends, however the servers answer, if no more than a bounded *)
(* number of requests is answered by a list of efforts without the one      *)
(* sent: a spent provider is left once, a refused field dropped once,       *)
(* retries are counted.  The code does not count such lists: a gateway that *)
(* names another at each request, or one that refuses what                  *)
(* _deepseek_thinking makes of an effort, is asked for ever.                *)
StreamSettles == streams > 0 ~> pc \in {"idle", "done", "failed"}

(* After the first 401 of a stream the plan's request carries another       *)
(* access token, whatever the other processes did to the file meanwhile,    *)
(* unless the issuer answered the refresh this forced without one.          *)
FreshAfter401 ==
  pc = "open" /\ route = "plan" /\ auth_failures = 1 /\ refusedGen # 0
    => bearer_gen # refusedGen \/ kept[Client]

(* A retry is no reuse of a prefix: a stream counts one observation, and    *)
(* one more for a list of efforts it learned or a provider it left, which   *)
(* do not count as attempts.  Where a model is asked for by name these are  *)
(* observations of the same prefix, which the cost model takes for a reuse. *)
ReuseIsReal == seen <= 1 + lessons + changes
=============================================================================
