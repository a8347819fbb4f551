---------------------------- MODULE ToolRegistry ----------------------------
(***************************************************************************)
(* The tools an agent may call: the handlers of the process (builtin,      *)
(* support and handoff tools) and the tools of MCP servers, which the      *)
(* runtime registry discovers once at startup.  A server that cannot be    *)
(* reached is recorded offline and does not stop the discovery of the      *)
(* others.  register_server and unregister_server are the hot-plug hooks.  *)
(*                                                                         *)
(* A server's configuration is a record: its id, its transport, whether it *)
(* has a command, the names of its static tool metadata and the scopes its *)
(* tools require.                                                          *)
(***************************************************************************)
EXTENDS Integers, Sequences, FiniteSets, FiniteSetsExt, SequencesExt

CONSTANTS
  ToolNames,    \* every name a model may ask for, known or not
  Handlers,     \* handler name -> scopes it requires
  Internal,     \* handlers also listed by register_internal_support_tools
  Configured,   \* sequence of server configurations (MCP_SERVERS_CONFIG)
  HotConfigs,   \* configurations a hot registration may bring
  LiveTools,    \* server id -> names its list_tools answers with
  DiscoveryOn,  \* mcp_discovery_enabled
  MaxHot        \* bound: hot-plug operations of a behaviour

ServerConfig ==
  [id : STRING, transport : STRING, command : BOOLEAN, static : SUBSET ToolNames,
   permissions : SUBSET STRING]

ServerIds == {Configured[i].id : i \in DOMAIN Configured} \cup {c.id : c \in HotConfigs}

ASSUME ToolAssumption ==
  /\ DOMAIN Handlers \subseteq ToolNames
  /\ Internal \subseteq DOMAIN Handlers
  /\ Configured \in Seq(ServerConfig) /\ HotConfigs \subseteq ServerConfig
  /\ LiveTools \in [ServerIds -> SUBSET ToolNames]
  /\ DiscoveryOn \in BOOLEAN
  /\ MaxHot \in Nat

VARIABLES
  servers,      \* _servers: position -> configuration, in the order of the positions
  records,      \* _server_records: server id -> status
  index,        \* _tool_index: name -> [server, scopes]
  owner,        \* _tool_server_map: name -> server id
  support,      \* _internal_discovery_tools: names, {} until registered
  discovered,   \* servers of the startup discovery done so far
  hot           \* hot-plug operations so far

registry == <<servers, records, index, owner, support, discovered, hot>>

Statuses == {"healthy", "degraded", "offline"}

(* The dictionaries of the registry are keyed and filled as the code annotates them,
   whatever the servers answer and whatever is plugged in or out. *)
RegistryTypeOK ==
  /\ servers \in [DOMAIN servers -> ServerConfig]
  /\ DOMAIN servers \subseteq 1 .. Len(Configured) + hot
  /\ records \in [DOMAIN records -> Statuses] /\ DOMAIN records \subseteq ServerIds
  /\ index \in [DOMAIN index -> [server : ServerIds, scopes : SUBSET STRING]]
  /\ owner \in [DOMAIN owner -> ServerIds]
  /\ DOMAIN index \cup DOMAIN owner \subseteq ToolNames
  /\ support \in {{}, Internal}
  /\ discovered \in 0 .. Len(Configured) + 1
  /\ hot \in 0 .. MaxHot

RegistryInit ==
  /\ servers = Configured
  /\ records = <<>> /\ index = <<>> /\ owner = <<>>
  /\ support = {}
  /\ discovered = 0
  /\ hot = 0

Extend(f, keys, v) == [k \in DOMAIN f \cup keys |-> IF k \in keys THEN v ELSE f[k]]

Without(f, keys) == [k \in DOMAIN f \ keys |-> f[k]]

(***************************************************************************)
(* StdioMCPDiscoveryClient.discover: what it may return for a              *)
(* configuration, as <<status, tools>>.                                    *)
(***************************************************************************)
Static(c) == IF c.static # {} THEN <<"degraded", c.static>> ELSE <<"offline", {}>>

DiscoverResults(c) ==
  IF c.transport # "stdio" THEN {<<"offline", {}>>}
  ELSE IF ~c.command THEN {Static(c)}
  ELSE {<<"healthy", LiveTools[c.id]>>, Static(c)}

(* _register_server_tools: the record, and the last server that offers a
   name owns it. *)
RegisterServerTools(c, status, tools) ==
  /\ records' = Extend(records, {c.id}, status)
  /\ index' = Extend(index, tools, [server |-> c.id, scopes |-> c.permissions])
  /\ owner' = Extend(owner, tools, c.id)

(* _register_failed_server: the record only; tools it already has stay. *)
RegisterFailedServer(c) ==
  /\ records' = Extend(records, {c.id}, "offline")
  /\ UNCHANGED <<index, owner>>

(***************************************************************************)
(* discover_all, one server at a time: it answers, times out or raises.    *)
(***************************************************************************)
DiscoverServer ==
  /\ DiscoveryOn /\ discovered < Len(Configured)
  /\ LET c == Configured[discovered + 1]
     IN \/ \E r \in DiscoverResults(c) : RegisterServerTools(c, r[1], r[2])
        \/ RegisterFailedServer(c)
  /\ discovered' = discovered + 1
  /\ UNCHANGED <<servers, support, hot>>

(* register_support_tool_discovery, the last step of the startup. *)
RegisterInternalSupportTools ==
  /\ discovered = IF DiscoveryOn THEN Len(Configured) ELSE 0
  /\ support' = Internal
  /\ discovered' = Len(Configured) + 1
  /\ UNCHANGED <<servers, records, index, owner, hot>>

Started == discovered = Len(Configured) + 1

(* register_server: appends the configuration if it is not there. *)
RegisterServer(c) ==
  /\ hot < MaxHot /\ Started
  /\ servers' = IF c \in Range(servers) THEN servers
                ELSE Extend(servers, {Len(Configured) + hot + 1}, c)
  /\ \E r \in DiscoverResults(c) : RegisterServerTools(c, r[1], r[2])
  /\ hot' = hot + 1
  /\ UNCHANGED <<support, discovered>>

BugUnregisterServer(id) ==
  /\ hot < MaxHot /\ Started
  /\ servers' = Without(servers, {i \in DOMAIN servers : servers[i].id = id})
  /\ records' = Without(records, {id})
  /\ hot' = hot + 1
  /\ UNCHANGED <<index, owner, support, discovered>>

(* unregister_server: the server, its record and the tools it owns. *)
UnregisterServer(id) ==
  /\ hot < MaxHot /\ Started
  /\ servers' = Without(servers, {i \in DOMAIN servers : servers[i].id = id})
  /\ records' = Without(records, {id})
  /\ LET own == {n \in DOMAIN owner : owner[n] = id}
     IN /\ index' = Without(index, own)
        /\ owner' = Without(owner, own)
  /\ hot' = hot + 1
  /\ UNCHANGED <<support, discovered>>

(* unregister_server("voxforge-support"): the internal metadata. *)
UnregisterInternal ==
  /\ hot < MaxHot /\ Started
  /\ support # {}
  /\ support' = {}
  /\ hot' = hot + 1
  /\ UNCHANGED <<servers, records, index, owner, discovered>>

RegistryNext ==
  \/ DiscoverServer
  \/ RegisterInternalSupportTools
  \/ \E c \in HotConfigs : RegisterServer(c)
  \/ \E id \in ServerIds : UnregisterServer(id)
  \/ UnregisterInternal

-----------------------------------------------------------------------------
(* get_health: the status of the registry, the internal server included. *)
InternalServers == IF support = {} THEN 0 ELSE 1

CountStatus(s) == Quantify(DOMAIN records, LAMBDA id : records[id] = s)

HealthStatus ==
  LET total == Cardinality(DOMAIN records) + InternalServers
  IN CASE total = 0 -> "idle"
       [] total > 0 /\ CountStatus("offline") = total -> "offline"
       [] total > 0 /\ CountStatus("healthy") + InternalServers = total -> "healthy"
       [] OTHER -> "degraded"

(***************************************************************************)
(* ToolRouter.                                                             *)
(***************************************************************************)
(* _check_required_scopes: the scopes of the last definition with the name,
   in the order handlers, MCP tools, internal discovery metadata, which
   carries none. *)
RequiredScopes(name) ==
  CASE name \in support -> {}
    [] name \notin support /\ name \in DOMAIN index -> index[name].scopes
    [] name \notin support /\ name \notin DOMAIN index /\ name \in DOMAIN Handlers -> Handlers[name]
    [] OTHER -> {}

(* MCPRuntimeRegistry.invoke followed by StdioMCPInvocationClient.invoke: the
   statuses of an MCP tool's result; the first configuration with the id is
   the one that is used. *)
InvokeMcp(name) ==
  LET id == owner[name]
      mine == {i \in DOMAIN servers : servers[i].id = id}
      first == servers[Min(mine)]
  IN IF \/ mine = {}
        \/ id \in DOMAIN records /\ records[id] = "offline"
        \/ first.transport # "stdio"
        \/ ~first.command
     THEN {"error"} ELSE {"success", "error"}

(* ToolRouter.execute: the statuses a call may end with.  A registered MCP
   tool goes before a handler of the same name; wait_for adds the timeout. *)
ExecuteStatuses(name) ==
  CASE name \in DOMAIN index -> InvokeMcp(name) \cup {"timeout"}
    [] name \notin DOMAIN index /\ name \in DOMAIN Handlers -> {"success", "error", "timeout"}
    [] OTHER -> {"error"}

(* A call refused for its scopes is answered before anything is executed or
   recorded. *)
Refused(name, scopes) == ~(RequiredScopes(name) \subseteq scopes)

-----------------------------------------------------------------------------
(* Every tool the registry routes has a server that is configured and that
   offered it: after any discovery, with servers that fail, and any hot plug
   no call goes to a server that is gone, and index and map agree. *)
RegistryRoutes ==
  /\ DOMAIN index = DOMAIN owner
  /\ \A n \in DOMAIN owner :
       /\ index[n].server = owner[n]
       /\ owner[n] \in DOMAIN records
       /\ \E c \in Range(servers) :
            /\ c.id = owner[n]
            /\ n \in LiveTools[c.id] \cup c.static
            /\ c.transport = "stdio"
=============================================================================
