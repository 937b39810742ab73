----------------------------- MODULE MCWorkbench -----------------------------
(***************************************************************************)
(* The workbench of a session for the model checker: two processes, small  *)
(* values of the constants, and one part at a time, the subject, that      *)
(* takes steps.  With the parts of Workbench there are those that keep no  *)
(* protocol but work on a text or a list: the tool ledger and what files   *)
(* put into the context, the messages and events of a chat provider, the   *)
(* chunks and pages of a search, listings, the edits of one text, the      *)
(* layers of settings and the tools of extensions.                         *)
(***************************************************************************)
EXTENDS Workbench, FiniteSets, TLC

CONSTANTS p1, p2

Processes == {p1, p2}
Symmetry == Permutations(Processes)

(* A server numbers a request of its own like the client's first call. *)
ServerNumbers == {3}

(* A directory and one below it. *)
Directories == <<"pkg", "pkg/api">>
AboveOf(d) == IF d = "pkg/api" THEN {"pkg", "pkg/api"} ELSE {d}

Entry(step, status) == [step |-> step, status |-> status]
PlansGiven ==
  { <<Entry("s1", "pending"), Entry("s2", "pending")>>,
    <<Entry("s1", "in_progress"), Entry("s2", "pending")>>,
    <<Entry("s1", "in_progress"), Entry("s2", "in_progress")>> }

Presets == [auto |-> {"auto"}, deepseek |-> {"dsv"}, openai |-> {"gpt"}]
Defaults == [provider |-> "openai", model |-> "gpt", effort |-> "high"]
At(kind) == [kind |-> kind, key |-> "", val |-> ""]
Sets(kind, key, val) == [kind |-> kind, key |-> key, val |-> val]
UserFiles ==
  { << >>,
    <<At("agent"), Sets("set", "model", "gpt"), Sets("set", "provider", "openai"),
      At("blank"), At("table"), At("other")>>,
    <<At("table"), At("agent")>>, <<At("table"), At("cut")>>,
    <<At("noted"), Sets("set", "model", "gpt")>>,
    <<At("agent"), Sets("set", "model", "gpt"), At("shifted"), At("other")>> }
Overrides == {<<[effort |-> "low"], [provider |-> "auto"]>>}

Server(name, loads) == [name |-> name, loads |-> loads]
Package(name, valid, list) == [name |-> name, valid |-> valid, servers |-> list]
PackageDirs ==
  { << >>,
    <<Package("b", FALSE, << >>), Package("a", TRUE, <<Server("s", TRUE), Server("u", FALSE)>>),
      Package("a", TRUE, <<Server("t", TRUE)>>)>>,
    <<Package("a", TRUE, <<Server("s", TRUE), Server("t", TRUE)>>),
      Package("b", TRUE, <<Server("s", TRUE)>>), Package("c", TRUE, << >>)>> }
ServerLists == {<< >>, <<<<"a">>>>, <<<<"a", "s">>, <<"c">>>>}

ServerTool(raw, safe, cost) == [raw |-> raw, safe |-> safe, cost |-> cost]
ToolLists ==
  { <<ServerTool("x.", <<"x">>, 1), ServerTool("x", <<"x">>, 1)>>,
    <<ServerTool("s__x", <<"s", "x">>, 1), ServerTool("x", <<"x">>, 2)>>,
    <<ServerTool("x", <<"x">>, 1), ServerTool("x", <<"x">>, 1), ServerTool("x", <<"x">>, 1)>> }
EntryTool(raw, name, valid, cost) == [raw |-> raw, name |-> name, valid |-> valid, cost |-> cost]
EntryTools ==
  { <<EntryTool("a", <<"a", "x">>, TRUE, 1), EntryTool("y", <<"y">>, TRUE, 3)>>,
    <<EntryTool("y", <<"y">>, TRUE, 1), EntryTool("y", <<"y">>, TRUE, 1)>>,
    <<EntryTool("n", <<"n">>, FALSE, 0)>>,
    <<EntryTool("a", <<"a", "x">>, TRUE, 1), EntryTool("y", <<"y">>, TRUE, 1),
      EntryTool("z", <<"z">>, TRUE, 1)>> }

A == <<"a">>
B == <<"b">>
File(path) == path :> "file"
Directory(path) == path :> "directory"
TreesGiven ==
  { Directory(A) @@ File(A \o A) @@ File(A \o B) @@ File(B),
    Directory(A) @@ Directory(A \o B) @@ File(A \o B \o A) @@ Directory(B)
      @@ Directory(B \o A) @@ File(B \o A \o B) @@ File(<<"c">>) }
PatternsGiven == {A, B, <<"*">>, A \o B, <<"a", "*">>}

TextsGiven == UNION {[1..n -> {0, 1, 3}] : n \in 0..4}

VARIABLES
  subject,
  policy, docs, scanned, remaining, tool_calls, tool_tokens, drops, result, shown,
  docs_attached, lost,
  text,
  mode, matches, lexical, semantic, overlapping, limit, cursor, listed, depth,
  config, origin, layers, up, live, resolver, saving, before, written_by, meddled_save,
  failed, orders,
  source, text_edits, updated,
  items, batch, streaming,
  parts, sent, replayed, sse, decoded,
  ext, unseen, bundle, configured, servers, found, bytes, tools, resources,
  backends, told, offered, disabled, spilled,
  files, ignores,
  contents, mentioned, blocks, files_attached, budget, refused

hostVars == <<policy, docs, scanned, remaining, tool_calls, tool_tokens,
  drops, result, shown, docs_attached, lost>>
searchVars == <<mode, matches, lexical, semantic, overlapping, limit, cursor,
  listed, depth>>
setVars == <<config, origin, layers, up, live, resolver, saving, before,
  written_by, meddled_save, failed, orders>>
textVars == <<source, text_edits, updated>>
chatVars == <<items, batch, streaming>>
eventVars == <<parts, sent, replayed, sse, decoded>>
extVars == <<ext, unseen, bundle, configured, servers, found, bytes, tools,
  resources, backends, told, offered, disabled, spilled>>
listVars == <<files, ignores>>
mentionVars == <<contents, mentioned, blocks, files_attached, budget, refused>>

Host == INSTANCE ToolHost WITH
  DirOrder <- Directories, Above <- AboveOf, DocSizes <- {0, 3, 7},
  CHARS_PER_TOKEN <- 2, Limit <- 7, MarkerLen <- 2, Banner <- 1,
  per_discovery_bytes <- 5, MaxDocBytes <- 8, Lengths <- {1, 6, 9}, MaxDispatch <- 2,
  attached <- docs_attached

Chunks == INSTANCE IndexChunks WITH MAX_CHUNK_LINES <- 2, MaxLines <- 6

Search == INSTANCE CodeSearch WITH
  Rows <- {1, 2, 3}, Others <- {4}, Overlaps <- {{}, {{1, 2}}}, LeastCandidates <- 2,
  MostCandidates <- 4, LITERAL <- 1, Limits <- {1, 2}, MaxDepth <- 4, MaxCursor <- 3,
  SCORE_CLIFF_WINDOW <- 3, shown <- listed, wanted <- depth

Set == INSTANCE Settings WITH
  Terminals <- Processes, MODEL_PRESETS <- Presets, CustomModel <- "mine",
  EFFORTS <- {"low"}, Config <- Defaults, Files <- UserFiles,
  Layers <- Overrides, MaxCommands <- 2,
  existing <- before, saved <- written_by, raced <- meddled_save

Edits == INSTANCE TextEdits WITH
  Letters <- {"a", "w", "n", "f"}, WIDE <- {"w"}, MaxText <- 3, MaxTextEdits <- 2

Chat == INSTANCE ChatMessages WITH MaxItems <- 6

Events == INSTANCE ChatStream WITH
  Document <- <<1, 2, 3>>, MaxFragments <- 3, Records <- {1, 2}, MaxRecords <- 2

Ext == INSTANCE Extensions WITH
  Packages <- PackageDirs, Configured <- ServerLists, Inventories <- ToolLists,
  Requested <- {<<"mcp", "p", "mcp">>, <<"p", "q", "mcp">>}, Exports <- EntryTools,
  Disabled <- {{}, {<<"mcp", "a", "x">>}},
  MAX_PACKAGES <- 2, MAX_MCP_SERVERS <- 2, MAX_PLUGINS <- 2, MAX_TOOLS_PER_PLUGIN <- 2,
  MAX_SCHEMA <- 2, MAX_TOTAL_SCHEMA <- 3,
  left <- unseen, running <- backends

Listing == INSTANCE ListTree WITH
  Trees <- TreesGiven, Patterns <- PatternsGiven, Holders <- {<< >>, A},
  _COLLAPSE_AT <- 2, MaxDepth <- 3, MaxRules <- 2

Mentions == INSTANCE FileContext WITH
  Texts <- TextsGiven, Others <- {<<1, 0, 1>>}, Ranges <- {<<1, 1>>, <<2, 3>>},
  max_files <- 2, max_file_bytes <- 4, max_total_bytes <- 6, MAX_RANGE_SCAN <- 5,
  MaxMentions <- 3, ReadLimit <- 2, attached <- files_attached
-----------------------------------------------------------------------------
Is(part) == subject = part

(* Where a part can start in several ways, it rests in one of them. *)
IdleExec ==
  /\ options.loop = Exec!_apply_loop_mode("off", 0, FALSE)
  /\ ~options.json /\ ~options.output /\ ~options.ephemeral

IdleSearch ==
  /\ mode = "auto" /\ limit = 1 /\ matches = << >> /\ lexical = << >>
  /\ semantic = << >> /\ overlapping = {} /\ cursor = 0 /\ listed = << >> /\ depth = 0

IdleExt ==
  /\ ext = "closed" /\ unseen = << >> /\ bundle = << >> /\ configured = << >>
  /\ servers = << >> /\ found = << >> /\ bytes = 0 /\ tools = << >> /\ resources = {}
  /\ backends = {} /\ told = {} /\ offered = {} /\ disabled = {} /\ spilled = FALSE

IdleMentions ==
  /\ contents = << >> /\ mentioned = {} /\ blocks = << >> /\ files_attached = 0
  /\ budget = 0 /\ refused = FALSE

MCInit ==
  /\ subject \in {"mcp", "lsp", "jobs", "host", "subagents", "goals", "index",
                  "chunks", "search", "terminal", "settings", "edits", "python",
                  "git", "navigate", "chat", "events", "exec", "keys",
                  "extensions", "listing", "mentions", "sessions"}
  /\ Init /\ (Is("terminal") \/ rich) /\ (Is("exec") \/ IdleExec)
  /\ Chunks!ChunkInit /\ Edits!TextInit /\ Chat!ChatInit /\ Events!StreamInit
  /\ IF Is("host") THEN Host!HostInit({0, 3, 7}, Host!AllModes)
     ELSE Host!HostInit({0}, {"none"})
  /\ IF Is("search") THEN Search!SearchInit ELSE IdleSearch
  /\ IF Is("settings") THEN Set!SettingsInit(UserFiles, Overrides)
     ELSE Set!SettingsInit({<< >>}, {<< >>})
  /\ IF Is("extensions") THEN Ext!ExtInit ELSE IdleExt
  /\ IF Is("listing") THEN Listing!ListInit ELSE files = << >> /\ ignores = << >>
  /\ IF Is("mentions") THEN Mentions!MentionInit ELSE IdleMentions

mcVars ==
  <<hostVars, text, searchVars, setVars, textVars, chatVars, eventVars, extVars,
    listVars, mentionVars>>

(* All parts but the subject rest. *)
Rest ==
  /\ UNCHANGED <<subject, vars>>
  /\ ~Is("host") => UNCHANGED hostVars
  /\ ~Is("chunks") => UNCHANGED text
  /\ ~Is("search") => UNCHANGED searchVars
  /\ ~Is("settings") => UNCHANGED setVars
  /\ ~Is("edits") => UNCHANGED textVars
  /\ ~Is("chat") => UNCHANGED chatVars
  /\ ~Is("events") => UNCHANGED eventVars
  /\ ~Is("extensions") => UNCHANGED extVars
  /\ ~Is("listing") => UNCHANGED listVars
  /\ ~Is("mentions") => UNCHANGED mentionVars

Protocol ==
  /\ \/ Is("mcp") /\ Mcps
     \/ Is("lsp") /\ Languages
     \/ Is("jobs") /\ Shell
     \/ Is("subagents") /\ Delegates
     \/ Is("goals") /\ KeepsGoal
     \/ Is("index") /\ Indexes
     \/ Is("terminal") /\ Types
     \/ Is("python") /\ RunsPython
     \/ Is("git") /\ UsesGit
     \/ Is("navigate") /\ Renames
     \/ Is("exec") /\ Executes
     \/ Is("keys") /\ LogsIn
     \/ Is("sessions") /\ RecordsLines
  /\ UNCHANGED <<subject, mcVars>>

GivesContext == Is("host") /\ Host!HostNext /\ Rest
CutsFile == Is("chunks") /\ Chunks!AppendLine /\ Rest
Searches == Is("search") /\ Search!SearchNext /\ Rest
Configures == Is("settings") /\ Set!SettingsNext /\ Rest
AppliesEdits == Is("edits") /\ Edits!TextNext /\ Rest
Chats == Is("chat") /\ Chat!ChatNext /\ Rest
Streams == Is("events") /\ Events!StreamNext /\ Rest
Extends == Is("extensions") /\ Ext!ExtNext /\ Rest
ListsTree == Is("listing") /\ Listing!ListNext /\ Rest
Attaches == Is("mentions") /\ Mentions!MentionNext /\ Rest

(* Every step of the model checked is one of Workbench, or leaves it alone.  *)
MCNext ==
  \/ Protocol \/ GivesContext \/ CutsFile \/ Searches \/ Configures \/ AppliesEdits
  \/ Chats \/ Streams \/ Extends \/ ListsTree \/ Attaches

MCSpec == MCInit /\ [][MCNext]_<<subject, vars, mcVars>>
-----------------------------------------------------------------------------
(* What the model is given is what there is: the ledger counts it and a     *)
(* directory's rules are given once (Registry.dispatch); files a prompt     *)
(* mentions are attached exactly, or flagged as cut (prepare_mentions);     *)
(* calls and results are paired in a chat provider's messages, and the      *)
(* arguments and documents of its stream are each put together once         *)
(* (mjj/model.py); chunks hold every line that is not blank once, the pages *)
(* of a search follow one another (mjj/search), a listing shows what Git    *)
(* would not leave out (mjj/tools/fs.py); and edits change the text they    *)
(* name (mjj/tools/navigate.py).                                            *)
ContextExact ==
  /\ Is("host") => Host!LedgerExact /\ Host!RulesOnce
  /\ Is("mentions") => Mentions!MentionsExact /\ Mentions!MentionIsRead
  /\ Is("chat") => Chat!ChatPaired
  /\ Is("events") => Events!ArgumentsOnce /\ Events!RecordsWhole
  /\ Is("chunks") => Chunks!EveryLineOnce
  /\ Is("search") => Search!PagesFollow
  /\ Is("listing") => Listing!ListedAsGit
  /\ Is("edits") => Edits!EditsAsMeant

(* What a launch finds is what was left and what is there: settings that    *)
(* were saved (mjj/config.py), a session's window and name                  *)
(* (mjj/session.py), and the tools of servers and packages or a warning     *)
(* that speaks of them, closed at the end (mjj/tools/__init__.py).          *)
LaunchFinds ==
  /\ Is("settings") => Set!SettingsKept
  /\ Is("sessions") => Sessions!SessionReloads
  /\ Is("extensions") => Ext!ToolsTold /\ Ext!ServersMerged /\ Ext!EveryClosed
=============================================================================
