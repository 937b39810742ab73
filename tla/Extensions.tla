------------------------------- MODULE Extensions -------------------------------
(***************************************************************************)
(* The tools of a session and where they come from: Agent Plugins packages *)
(* and the tool servers they bring (mjj/agent_plugins.py), the servers of  *)
(* the configuration (mjj/mcp.py, discover_mcp_tools), the entry points of *)
(* installed Python packages (mjj/plugins.py), and the registry that holds *)
(* the tools and closes what it holds open (mjj/tools/__init__.py).  A     *)
(* name is a sequence of parts that are joined by "__".                    *)
(***************************************************************************)
EXTENDS Integers, Sequences, FiniteSets, SequencesExt

CONSTANTS
  Packages,         \* the package directories, as sequences of packages
  Configured,       \* the servers of the configuration, as sequences of names
  Inventories,      \* the tools a server may list, as sequences of specs
  Requested,        \* the entry points enabled, as sequences of names
  Exports,          \* what an entry point may bring, as sequences of tools
  Disabled,         \* the names a user may disable, as sets
  MAX_PACKAGES, MAX_MCP_SERVERS, MAX_PLUGINS,
  MAX_TOOLS_PER_PLUGIN, MAX_SCHEMA, MAX_TOTAL_SCHEMA

VARIABLES
  ext,        \* the stage of the launch
  left,       \* what the stage still has to look at
  bundle,     \* names of the packages and the servers of the packages
  configured, \* names of the servers of the configuration
  servers,    \* names of the servers of the session
  found,      \* the tools of the stage so far: [name, source, tool]
  bytes,      \* the size of their schemas
  tools,      \* the registry's tools, in the order they were added
  resources,  \* what the registry closes
  running,    \* the processes and backends that were started and not closed
  told,       \* the sources a warning speaks of
  offered,    \* the tools that sources offered: [source, tool, names]
  disabled,   \* the names the user disabled
  spilled     \* a tool could not be encoded

extVars == <<ext, left, bundle, configured, servers, found, bytes, tools, resources, running,
             told, offered, disabled, spilled>>

Named(name, source, tool) == [name |-> name, source |-> source, tool |-> tool]
Names(list) == {list[i].name : i \in DOMAIN list}

(* Registry.add, and the tools a stage adds to the registry. *)
Enabled(list) == SelectSeq(list, LAMBDA t : t.name \notin disabled)

(* build_registry: a tool module that cannot be imported brings nothing.    *)
ExtInit ==
  /\ disabled \in Disabled
  /\ tools \in {<<Named(<<"read">>, <<"fs">>, "read")>>, << >>}
  /\ left \in Packages
  /\ ext = "packages"
  /\ bundle = [plugins |-> << >>, servers |-> << >>] /\ configured = << >> /\ servers = << >>
  /\ found = << >> /\ bytes = 0 /\ resources = {} /\ running = {}
  /\ told = {} /\ offered = {} /\ spilled = FALSE

(* agent_plugins.discover: one package; a manifest that is refused is left   *)
(* out, and its warnings with it.                                           *)
_load_mcp(package, loads) ==
  LET Good(s) == s.loads = loads
      chosen == SelectSeq(package.servers, Good)
  IN [i \in DOMAIN chosen |-> <<package.name, chosen[i].name>>]

discover ==
  /\ ext = "packages" /\ left # << >>
  /\ LET package == Head(left)
         taken == package.valid /\ package.name \notin ToSet(bundle.plugins)
         full == taken /\ Len(bundle.plugins) + 1 >= MAX_PACKAGES
     IN /\ bundle' = IF taken
                     THEN [plugins |-> Append(bundle.plugins, package.name),
                           servers |-> bundle.servers \o _load_mcp(package, TRUE)]
                     ELSE bundle
        /\ left' = IF full THEN << >> ELSE Tail(left)
        /\ told' = told \union
             (IF ~package.valid THEN {}
              ELSE IF ~taken THEN {<<package.name>>}
              ELSE ToSet(_load_mcp(package, FALSE)))
             \union (IF full THEN {<<"packages">>} ELSE {})
  /\ UNCHANGED <<ext, configured, servers>>
  /\ UNCHANGED <<found, bytes, tools, resources, running, offered, disabled, spilled>>

(* merge_mcp_servers: the configuration first, each name once, up to a limit.*)
Unique(list) ==
  FoldLeft(LAMBDA seen, name : IF name \in ToSet(seen) THEN seen ELSE Append(seen, name),
           << >>, list)
Merge(merged, name) ==
  IF name \in ToSet(merged) \/ Len(merged) >= MAX_MCP_SERVERS THEN merged
  ELSE Append(merged, name)

(* Mutant: the servers of packages come first. *)
MergePackagesFirst(own, brought) == FoldLeft(Merge, Unique(brought), own)

merge_mcp_servers(own, brought) == FoldLeft(Merge, Unique(own), brought)

resolve_workspace ==
  /\ ext = "packages" /\ left = << >>
  /\ configured' \in Configured
  /\ servers' = merge_mcp_servers(configured', bundle.servers)
  /\ ext' = "start"
  /\ UNCHANGED <<left, bundle, found, bytes, tools, resources, running, told, offered,
                 disabled, spilled>>

(* discover_mcp_tools: all servers are started at once; one that fails is    *)
(* closed.                                                                  *)
start ==
  /\ ext = "start"
  /\ \E up \in SUBSET ToSet(servers) :
       /\ running' = up
       /\ told' = told \union (ToSet(servers) \ up)
       /\ left' = SelectSeq(servers, LAMBDA s : s \in up)
  /\ ext' = "inventory"
  /\ UNCHANGED <<bundle, configured, servers, found, bytes, tools, resources, offered, disabled, spilled>>

(* One spec of a server: its name, with a digest if the name is taken, and   *)
(* its cost, which ends the inventory when it is past a budget.             *)
_tool_name(server, spec) == <<"mcp">> \o server \o spec.safe
Digest(server, spec) == Append(_tool_name(server, spec), spec.raw)

Take(server, so, spec) ==
  LET taken == Names(found \o so.list)
      plain == _tool_name(server, spec)
      name == IF plain \in taken THEN Digest(server, spec) ELSE plain
      past == \/ so.size > 0 /\ so.size + spec.cost > MAX_SCHEMA
              \/ bytes + so.size > 0 /\ bytes + so.size + spec.cost > MAX_TOTAL_SCHEMA
  IN IF so.clipped THEN so
     ELSE IF name \in taken THEN [so EXCEPT !.twice = TRUE]
     ELSE IF past THEN [so EXCEPT !.clipped = TRUE]
     ELSE [so EXCEPT !.list = Append(@, Named(name, server, spec.raw)), !.size = @ + spec.cost]

Offers(server, specs) ==
  {[source |-> server, tool |-> spec.raw,
    names |-> {_tool_name(server, spec), Digest(server, spec)}] : spec \in ToSet(specs)}

inventory ==
  /\ ext = "inventory" /\ left # << >>
  /\ \E specs \in Inventories :
       LET server == Head(left)
           so == FoldLeft(LAMBDA a, b : Take(server, a, b),
                          [list |-> << >>, size |-> 0, clipped |-> FALSE, twice |-> FALSE],
                          specs)
       IN /\ offered' = offered \union Offers(server, specs)
          /\ found' = found \o so.list
          /\ bytes' = bytes + so.size
          /\ told' = told \union (IF so.clipped \/ so.twice THEN {server} ELSE {})
          /\ resources' = resources \union {server}
          /\ left' = Tail(left)
  /\ UNCHANGED <<ext, bundle, configured, servers, tools, running, disabled, spilled>>

(* A spec whose text cannot be encoded ends the discovery: no server's tools *)
(* are taken, a warning says so, and the servers are not the registry's.    *)
Spill ==
  /\ ext = "inventory" /\ left # << >>
  /\ spilled' = TRUE
  /\ told' = told \union ToSet(servers)
  /\ resources' = {} /\ found' = << >> /\ left' = << >> /\ bytes' = 0
  /\ UNCHANGED <<ext, bundle, configured, servers, tools, running, offered, disabled>>

(* The servers' tools are added; then the entry points, each name once; too  *)
(* many of them are all left out.                                           *)
add_mcp_tools ==
  /\ ext = "inventory" /\ left = << >>
  /\ tools' = tools \o Enabled(found)
  /\ found' = << >> /\ bytes' = 0
  /\ \E requested \in Requested :
       LET names == Unique(requested)
       IN IF Len(names) > MAX_PLUGINS
          THEN left' = << >> /\ told' = told \union {<<n>> : n \in ToSet(names)}
          ELSE left' = names /\ UNCHANGED told
  /\ ext' = "entries"
  /\ UNCHANGED <<bundle, configured, servers, resources, running, offered, disabled, spilled>>

(* load_plugin_tools: one entry point.  It is not installed, or fails before *)
(* or after it has something to close, or brings its tools.                 *)
_wrap_tool(plugin, tool) == Named(<<plugin>> \o tool.name, <<plugin>>, tool.raw)

Wrap(plugin, so, tool) ==
  LET wrapped == _wrap_tool(plugin, tool)
      refused == \/ ~tool.valid \/ wrapped.name \in Names(so.list)
                 \/ bytes + so.size + tool.cost > MAX_TOTAL_SCHEMA
  IN IF refused THEN [so EXCEPT !.refused = TRUE]
     ELSE [so EXCEPT !.list = Append(@, wrapped), !.size = @ + tool.cost]

Exported(plugin, list) ==
  {[source |-> <<plugin>>, tool |-> tool.raw, names |-> {<<plugin>> \o tool.name}] :
     tool \in ToSet(list)}

load_plugin_tools ==
  /\ ext = "entries" /\ left # << >>
  /\ LET plugin == Head(left)
     IN \/ /\ told' = told \union {<<plugin>>}
           /\ \E closes \in BOOLEAN :
                /\ resources' = IF closes THEN resources \union {<<plugin>>} ELSE resources
                /\ running' = IF closes THEN running \union {<<plugin>>} ELSE running
           /\ UNCHANGED <<found, bytes, offered>>
        \/ \E exported \in Exports :
             LET many == Len(exported) > MAX_TOOLS_PER_PLUGIN
                 so == FoldLeft(LAMBDA a, b : Wrap(plugin, a, b),
                                [list |-> << >>, size |-> 0, refused |-> many],
                                IF many THEN << >> ELSE exported)
             IN /\ offered' = offered \union Exported(plugin, exported)
                /\ found' = found \o so.list
                /\ bytes' = bytes + so.size
                /\ told' = told \union (IF so.refused THEN {<<plugin>>} ELSE {})
                /\ resources' = resources \union {<<plugin>>}
                /\ running' = running \union {<<plugin>>}
  /\ left' = Tail(left)
  /\ UNCHANGED <<ext, bundle, configured, servers, tools, disabled, spilled>>

(* Mutant: a plugin's tool takes the place of another of its name. *)
Displacing(list) == [add |-> list, told |-> {}]

(* A plugin's tool never takes the name of another tool. *)
Fitting(list) ==
  LET free == SelectSeq(list, LAMBDA t : t.name \notin Names(tools))
  IN [add |-> free, told |-> {t.source : t \in ToSet(list) \ ToSet(free)}]

add_plugin_tools ==
  /\ ext = "entries" /\ left = << >>
  /\ LET fit == Fitting(Enabled(found))
     IN /\ tools' = tools \o fit.add
        /\ told' = told \union fit.told
  /\ found' = << >> /\ bytes' = 0
  /\ ext' = "open"
  /\ UNCHANGED <<left, bundle, configured, servers, resources, running, offered, disabled, spilled>>

(* Registry.close: each resource once, whatever closing it raises.          *)
close ==
  /\ ext = "open"
  /\ running' = running \ resources
  /\ resources' = {}
  /\ ext' = "closed"
  /\ UNCHANGED <<left, bundle, configured, servers, found, bytes, tools, told, offered, disabled, spilled>>

ExtNext ==
  \/ discover \/ resolve_workspace \/ start \/ inventory \/ Spill \/ add_mcp_tools
  \/ load_plugin_tools \/ add_plugin_tools \/ close
ExtSpec == ExtInit /\ [][ExtNext]_extVars

-----------------------------------------------------------------------------
(* No tool of the registry displaces another, and every tool that a server   *)
(* or an entry point offered is there, or the user disabled its name, or a  *)
(* warning speaks of its source (build_registry).  A server of a package    *)
(* that the merge left out at the limit is not started and offers nothing,  *)
(* and no warning speaks of it either (agent_plugins.py:137-138).           *)
ToolsTold ==
  ext = "open" =>
    /\ \A i, j \in DOMAIN tools : tools[i].name = tools[j].name => i = j
    /\ \A o \in offered :
         \/ o.source \in told \/ o.names \cap disabled # {}
         \/ \E i \in DOMAIN tools : tools[i].source = o.source /\ tools[i].tool = o.tool

(* A server of the configuration is never left out for one of a package, and *)
(* one of a package, untold, only for its name or the limit; none is there  *)
(* twice (merge_mcp_servers).                                               *)
ServersMerged ==
  ext \notin {"packages"} =>
    /\ IsInjective(servers)
    /\ ToSet(configured) \subseteq ToSet(servers)
    /\ Len(servers) <= MAX_MCP_SERVERS
    /\ ToSet(bundle.servers) \subseteq ToSet(servers) \/ Len(servers) = MAX_MCP_SERVERS

(* When the registry is closed nothing it started runs, unless the text of a *)
(* tool could not be encoded (discover_mcp_tools, Registry.close).          *)
EveryClosed == ext = "closed" /\ ~spilled => running = {}
=============================================================================
