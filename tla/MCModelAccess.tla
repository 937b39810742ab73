---------------------------- MODULE MCModelAccess ----------------------------
(* A client and another process that share a sign-in. *)
EXTENDS ModelClient

CONSTANT other

Setup(asked, keyed, metered, model, effort, mode, auth) ==
  [provider |-> asked, keyed |-> keyed, scoped |-> FALSE, metered |-> metered,
   model |-> model, effort |-> effort, mode |-> mode, document |-> auth,
   max_retries |-> IF metered THEN 2 ELSE 1,
   streams |-> IF auth = "tokens" THEN 1 ELSE 2,
   lessons |-> IF auth # "absent" THEN 0 ELSE IF metered THEN 1 ELSE 2]

(* The plan with a metered key behind it and with a gateway behind it; a    *)
(* gateway first; one gateway asked for by name; keys in auth.json.         *)
MCSetups ==
  { Setup("auto", {}, TRUE, "auto", 1, "auto", "tokens"),
    Setup("auto", {"deepseek"}, FALSE, "auto", 1, "auto", "tokens"),
    Setup("deepseek", {"deepseek"}, FALSE, "auto", 6, "auto", "absent"),
    Setup("auto", {"openpaths", "openrouter"}, FALSE, "claude", 1, "auto", "absent"),
    Setup("openrouter", {"openrouter"}, FALSE, "claude", 1, "explicit", "absent"),
    Setup("openai", {}, TRUE, "auto", 1, "auto", "absent"),
    Setup("auto", {}, FALSE, "auto", 1, "auto", "key"),
    Setup("auto", {}, FALSE, "auto", 1, "auto", "keyed"),
    Setup("auto", {}, TRUE, "auto", 1, "auto", "bare") }

MCProcs == {Client, other}
MCAcceptSets == {{2, 4}, {0, 5}}
MCGaps == {1, 45}
=============================================================================
