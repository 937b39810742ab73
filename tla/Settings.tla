------------------------------ MODULE Settings ------------------------------
(***************************************************************************)
(* The settings of a session and the defaults they leave for the next one. *)
(* A launch layers the defaults, the user's config.toml, the project's and *)
(* the environment (mjj/config.py: load); the commands of the terminal     *)
(* change provider, model and effort and save all of them in the [agent]   *)
(* table of the user's file (mjj/tui.py, config.persist_user_agent_        *)
(* settings), which is read, rewritten line by line and written in place.  *)
(* Terminals share the file and do not lock it.                            *)
(***************************************************************************)
EXTENDS Integers, Sequences, FiniteSets, SequencesExt

CONSTANTS
  Terminals,
  MODEL_PRESETS, \* provider |-> the models it is known to serve
  CustomModel,   \* a model no preset names
  EFFORTS,
  Config,        \* key |-> default
  Files,         \* user files to start from
  Layers,        \* overrides to start with: a sequence of key |-> value
  MaxCommands    \* bound: commands that save

VARIABLES
  config,        \* the lines of the user's config.toml
  origin,        \* what it was to begin with
  layers,        \* the project's file and the environment
  up,            \* terminals that run
  live,          \* client.provider, client.model, client.effort
  resolver,      \* the provider and model of its CredentialResolver
  saving,        \* a save: idle, read, truncated
  existing,      \* what the save read
  saved,         \* the terminal whose save completed last, and its values
  raced,         \* a save or launch met another save half done, or it failed
  failed,        \* launches that ended with ConfigError
  orders         \* bound

setVars == <<config, origin, layers, up, live, resolver, saving, existing, saved,
             raced, failed, orders>>

PROVIDERS == DOMAIN MODEL_PRESETS
Keys == <<"model", "provider", "effort">>
Line(kind, key, val) == [kind |-> kind, key |-> key, val |-> val]
Header(kind) == Line(kind, "", "")

SettingsInit(files, overrides) ==
  /\ config \in files /\ origin = config /\ layers \in overrides
  /\ up = {} /\ live = [t \in Terminals |-> Config]
  /\ resolver = [t \in Terminals |-> Config]
  /\ saving = [t \in Terminals |-> "idle"] /\ existing = [t \in Terminals |-> << >>]
  /\ saved = [by |-> "nobody", values |-> Config]
  /\ raced = FALSE /\ failed = FALSE /\ orders = 0

(* tomllib on the lines the [agent] table is made of.  Its header may have  *)
(* a comment ("noted") or end the file without a newline ("cut"); headers   *)
(* of other tables may be indented ("shifted"), and so may keys.            *)
AgentHeaders == {"agent", "noted", "cut"}
Headers == AgentHeaders \cup {"table", "shifted"}

Indices(lines, kinds) == {i \in DOMAIN lines : lines[i].kind \in kinds}
End(lines, h, kinds) ==
  CHOOSE e \in h..Len(lines) :
    /\ \A i \in (h + 1)..e : lines[i].kind \notin kinds
    /\ e = Len(lines) \/ lines[e + 1].kind \in kinds
Assigned(lines) ==
  {i \in Indices(lines, {"set", "indented"}) :
    \E h \in Indices(lines, AgentHeaders) : i \in (h + 1)..End(lines, h, Headers)}
Loads(lines) ==
  /\ Indices(lines, {"junk"}) = {} /\ Cardinality(Indices(lines, AgentHeaders)) <= 1
  /\ \A i, j \in Assigned(lines) : lines[i].key = lines[j].key => i = j
InFile(lines, key) == {lines[i].val : i \in {j \in Assigned(lines) : lines[j].key = key}}

(* load: each layer replaces the one before it. *)
Resolved(lines) ==
  LET Base(key) == IF InFile(lines, key) = {} THEN Config[key]
                   ELSE CHOOSE v \in InFile(lines, key) : TRUE
      Layer(key, value, layer) == IF key \in DOMAIN layer THEN layer[key] ELSE value
  IN [key \in DOMAIN Config |->
        FoldLeft(LAMBDA value, layer : Layer(key, value, layer), Base(key), layers)]

load(t) ==
  /\ t \notin up /\ ~failed
  /\ IF Loads(config)
     THEN /\ up' = up \cup {t} /\ live' = [live EXCEPT ![t] = Resolved(config)]
          /\ resolver' = [resolver EXCEPT ![t] = Resolved(config)] /\ UNCHANGED failed
     ELSE failed' = TRUE /\ UNCHANGED <<up, live, resolver>>
  /\ UNCHANGED <<config, origin, layers, saving, existing, saved, raced, orders>>

(* _upsert_agent_toml.  Its patterns see the header of the table only if it *)
(* is alone on its line, and another header, where the table ends, only at  *)
(* the margin; a table whose header they miss gets a second one.  A key     *)
(* that a line at the margin sets is replaced; another is inserted after    *)
(* the last line that is not blank - which, in a table without a line and   *)
(* with one below it, is the header itself, as it is where the header ends  *)
(* the file without a newline.                                              *)
FirstOf(S) == CHOOSE i \in S : \A j \in S : i <= j
LastOf(S) == CHOOSE i \in S : \A j \in S : i >= j

Upsert(section, line) ==
  LET same == {i \in DOMAIN section : section[i].kind = "set" /\ section[i].key = line.key}
      text == {i \in DOMAIN section : section[i].kind # "blank"}
  IN IF same # {} THEN [section EXCEPT ![FirstOf(same)] = line]
     ELSE InsertAt(section, IF text = {} THEN 1 ELSE LastOf(text) + 1, line)

_upsert_agent_toml(lines, updates) ==
  LET new == [i \in DOMAIN Keys |-> Line("set", Keys[i], updates[Keys[i]])]
      h == FirstOf(Indices(lines, {"agent", "cut"}))
      e == End(lines, h, Headers \ {"shifted"})
      section == SubSeq(lines, h + 1, e)
  IN IF Indices(lines, {"agent", "cut"}) = {} THEN lines \o <<Header("agent")>> \o new
     ELSE IF section = << >> /\ (e < Len(lines) \/ lines[h].kind = "cut")
     THEN SubSeq(lines, 1, h - 1) \o <<Header("junk")>> \o Tail(new)
            \o SubSeq(lines, h + 1, Len(lines))
     ELSE SubSeq(lines, 1, h) \o FoldLeft(Upsert, section, new)
            \o SubSeq(lines, e + 1, Len(lines))

(* persist_user_agent_settings: the file is read, opened for writing, which *)
(* empties it, and written.  A failure at any point is a warning.           *)
Step(t, from, to) == saving[t] = from /\ saving' = [saving EXCEPT ![t] = to]
HalfDone == \E t \in Terminals : saving[t] # "idle"

_remember_defaults(t) ==
  /\ t \in up /\ orders < MaxCommands /\ orders' = orders + 1
  /\ raced' = (raced \/ HalfDone)
  /\ \/ Step(t, "idle", "read") /\ existing' = [existing EXCEPT ![t] = config]
     \/ saving[t] = "idle" /\ UNCHANGED <<saving, existing>>

truncate(t) ==
  /\ Step(t, "read", "truncated") /\ config' = << >>
  /\ UNCHANGED <<origin, layers, up, live, resolver, existing, saved, raced, failed, orders>>

write_text(t) ==
  /\ Step(t, "truncated", "idle")
  /\ \/ /\ config' = _upsert_agent_toml(existing[t], live[t])
        /\ saved' = [by |-> t, values |-> live[t]] /\ UNCHANGED raced
     \/ raced' = TRUE /\ UNCHANGED <<config, saved>>
  /\ UNCHANGED <<origin, layers, up, live, resolver, existing, failed, orders>>

(* The commands.  A model that one preset alone names takes its provider    *)
(* along when the provider is "auto"; a new provider drops a model known    *)
(* from the presets of others.                                              *)
Live(t, key, val) == [live[t] EXCEPT ![key] = val]
Owners(model) ==
  {p \in PROVIDERS \ {"auto", "custom"} : model \in MODEL_PRESETS[p]}
_model_choices(provider) ==
  IF provider = "auto" THEN UNION {MODEL_PRESETS[p] : p \in PROVIDERS}
  ELSE MODEL_PRESETS[provider]
Kept == <<config, origin, layers, up, saved, failed>>

_set_choice(t) ==
  /\ \E effort \in EFFORTS : live' = [live EXCEPT ![t] = Live(t, "effort", effort)]
  /\ _remember_defaults(t) /\ UNCHANGED <<resolver, Kept>>

_align_provider_for_model(provider, model) ==
  IF provider = "auto" /\ Cardinality(Owners(model)) = 1
  THEN CHOOSE p \in Owners(model) : TRUE ELSE provider

_set_model(t) ==
  /\ \E model \in _model_choices(live[t].provider) \cup {CustomModel} :
       LET provider == _align_provider_for_model(live[t].provider, model)
           now == [live[t] EXCEPT !.model = model, !.provider = provider]
       IN /\ live' = [live EXCEPT ![t] = now]
          /\ resolver' = [resolver EXCEPT ![t].provider =
                            IF provider = live[t].provider THEN @ ELSE provider,
                                          ![t].model = model]
  /\ _remember_defaults(t) /\ UNCHANGED Kept

Known == UNION {MODEL_PRESETS[p] : p \in PROVIDERS}

_set_provider(t) ==
  /\ \E provider \in PROVIDERS :
       LET model == live[t].model
           drop == model \in Known /\ model \notin MODEL_PRESETS[provider]
           now == [live[t] EXCEPT !.provider = provider,
                                  !.model = IF drop THEN "auto" ELSE model]
       IN /\ live' = [live EXCEPT ![t] = now]
          /\ resolver' = [resolver EXCEPT ![t] = now]
  /\ _remember_defaults(t) /\ UNCHANGED Kept

_login(t) ==
  /\ \E provider \in PROVIDERS \ {"auto"} :
       /\ live' = [live EXCEPT ![t].provider = provider]
       /\ resolver' = [resolver EXCEPT ![t] = live'[t]]
  /\ _remember_defaults(t) /\ UNCHANGED Kept

(* The terminal ends, possibly in the middle of a save. *)
Leave(t) ==
  /\ t \in up /\ up' = up \ {t}
  /\ saving' = [saving EXCEPT ![t] = "idle"]
  /\ raced' = (raced \/ saving[t] = "truncated")
  /\ UNCHANGED <<config, origin, layers, live, resolver, existing, saved, failed, orders>>

SettingsNext ==
  \E t \in Terminals :
    \/ load(t) \/ _set_choice(t) \/ _set_model(t) \/ _set_provider(t) \/ _login(t)
    \/ truncate(t) \/ write_text(t) \/ Leave(t)

SettingsSpec == SettingsInit(Files, Layers) /\ [][SettingsNext]_setVars

(* A file whose [agent] table can take another line where mjj puts it: its  *)
(* header is alone on a line that ends, headers and keys are at the margin, *)
(* and a table without a line ends the file.                                *)
Plain(lines) ==
  /\ Indices(lines, {"indented", "noted", "cut", "shifted"}) = {}
  /\ \A h \in Indices(lines, {"agent"}) : End(lines, h, Headers) = h => h = Len(lines)

(* What the last save wrote is what a launch reads back, and the file still *)
(* loads; lines of other tables are kept in their order; and credentials    *)
(* are resolved for the provider and model the client asks.  Excepted are a *)
(* save that failed or was cut short and saves that overlap; and from the   *)
(* first of the three, files that are not plain, which the next launch may  *)
(* refuse for what a save made of them (config.py:535-570).                 *)
OtherLines(lines) == SelectSeq(lines, LAMBDA l : l.kind \in {"table", "shifted", "other"})

SettingsKept ==
  /\ ~HalfDone /\ ~raced => OtherLines(config) = OtherLines(origin)
  /\ ~HalfDone /\ ~raced /\ Plain(origin) =>
       /\ Loads(config)
       /\ saved.by # "nobody" =>
            \A i \in DOMAIN Keys : InFile(config, Keys[i]) = {saved.values[Keys[i]]}
  /\ \A t \in up : /\ resolver[t].provider = live[t].provider
                   /\ resolver[t].model = live[t].model
=============================================================================
