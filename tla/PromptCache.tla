----------------------------- MODULE PromptCache -----------------------------
(***************************************************************************)
(* The prompt-cache policy (mjj/prompt_cache.py: PromptCacheOptimizer) as  *)
(* operators on the table of observed prefixes: a function from a prefix   *)
(* to the times it was requested, in minutes, at most MAX_PREFIXES of      *)
(* them.  Costs are in hundredths of an uncached request.                  *)
(***************************************************************************)
EXTENDS Integers, Sequences, FiniteSetsExt, SequencesExt

CONSTANT MAX_PREFIXES

CACHE_MODES == {"auto", "off", "implicit", "explicit"}
WINDOW == 120

last(times) == times[Len(times)]

(* The prefix _observe_times drops for a new one: the least recently seen. *)
Oldest(prefixes) ==
  CHOOSE k \in DOMAIN prefixes :
    \A j \in DOMAIN prefixes : last(prefixes[k]) <= last(prefixes[j])

_times(prefixes, key) ==
  IF key \in DOMAIN prefixes THEN prefixes[key] ELSE << >>

_observe_times(prefixes, key, now) ==
  LET dropped == IF key \notin DOMAIN prefixes /\ Cardinality(DOMAIN prefixes) >= MAX_PREFIXES
                 THEN {Oldest(prefixes)} ELSE {}
      recent == SelectSeq(_times(prefixes, key), LAMBDA t : t >= now - WINDOW)
  IN [k \in (DOMAIN prefixes \ dropped) \cup {key} |->
        IF k = key THEN Append(recent, now) ELSE prefixes[k]]

(* Requests that find the cache gone: the first, and each after a gap. *)
Writes(times, ttl) ==
  1 + Cardinality({i \in 2..Len(times) : times[i] - times[i - 1] > ttl})

Cost(times, ttl, write) ==
  Writes(times, ttl) * write + (Len(times) - Writes(times, ttl)) * 10

_openai_cache_pays(times) ==
  Len(times) >= 2 /\ Cost(times, 30, 125) < 100 * Len(times)

_decide_ttl(times, cold) ==
  IF Len(times) < 2 THEN cold
  ELSE LET none == 100 * Len(times)
           short == Cost(times, 5, 125)
           long == Cost(times, 60, 200)
       IN IF none <= short /\ none <= long THEN "none"
          ELSE IF short <= long THEN "5m" ELSE "1h"

(* Whether a plan marks the prefix for a paid write; the prefix is large. *)
openai_plan(mode, times) ==
  mode = "explicit" \/ (mode = "auto" /\ _openai_cache_pays(times))

anthropic_plan(mode, times) ==
  \/ mode = "explicit"
  \/ mode = "auto" /\ _decide_ttl(times, "5m") # "none"
=============================================================================
