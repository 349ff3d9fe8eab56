----------------------------- MODULE McpServers ------------------------------
(***************************************************************************)
(* The process-wide MCP manager (src/nexau/archs/tool/builtin/             *)
(* mcp_client.py, MCPClient and MCPManager) under agents that are built    *)
(* side by side.  initialize_mcp_tools adds the servers of an agent,       *)
(* connects and discovers every server the manager knows, all at once, and *)
(* returns every tool it knows.                                            *)
(*                                                                         *)
(* A server's configuration is the agent it comes from: that is what its   *)
(* permissions, its command and its name in the tool come from.            *)
(***************************************************************************)
EXTENDS Naturals

CONSTANTS
    Agents, Names,
    Configured, \* Configured[a]: the names of the servers of agent a
    ToolNames,
    MaxRounds,  \* bound on an agent's calls of initialize_mcp_tools
    MaxFaults   \* bound on connections and discoveries that fail

McpServersAssumption ==
    /\ Configured \in [Agents -> SUBSET Names]
    /\ MaxRounds \in Nat /\ MaxFaults \in Nat

VARIABLES
    servers,  \* MCPClient.servers: the names added, with the agent each one comes from
    sessions, \* MCPClient.sessions: the same of the names connected
    tools,    \* MCPClient.tools: [server, tool, from], one for each key "server.tool"
    tasks,    \* what each agent's initialize_servers does with each name
    found,    \* history: the tools this initialization has discovered
    given,    \* what initialize_mcp_tools has returned to each agent last
    rounds,   \* calls of initialize_mcp_tools an agent still makes
    failures  \* faults still to come

vars == <<servers, sessions, tools, tasks, found, given, rounds, failures>>

Nobody == "nobody"
Owners == Agents \cup {Nobody}
Tools == [server : Names, tool : ToolNames, from : Agents]
Phases == {"none", "connect", "discover", "done"}

Init ==
    /\ servers = [n \in Names |-> Nobody] /\ sessions = servers
    /\ tools = {}
    /\ tasks = [a \in Agents |-> [n \in Names |-> "none"]]
    /\ found = [a \in Agents |-> {}] /\ given = found
    /\ rounds = [a \in Agents |-> MaxRounds]
    /\ failures = MaxFaults

Initializing(a) == \E n \in Names : tasks[a][n] # "none"

\* add_server for the agent's servers, then one task for each server there is.
Begin(a) ==
    /\ rounds[a] > 0 /\ ~Initializing(a) /\ Configured[a] # {}
    /\ servers' = [n \in Names |-> IF n \in Configured[a] THEN a ELSE servers[n]]
    /\ tasks' = [tasks EXCEPT ![a] = [n \in Names |-> IF servers'[n] = Nobody THEN "none" ELSE "connect"]]
    /\ found' = [found EXCEPT ![a] = {}]
    /\ rounds' = [rounds EXCEPT ![a] = @ - 1]
    /\ UNCHANGED <<sessions, tools, given, failures>>

\* Seeded defect: a new session takes the tools of its server out until they are
\* discovered again.
ConnectAnew(a, n) ==
    /\ tasks[a][n] = "connect"
    /\ sessions' = [sessions EXCEPT ![n] = servers[n]]
    /\ tools' = {t \in tools : t.server # n}
    /\ tasks' = [tasks EXCEPT ![a][n] = "discover"]
    /\ UNCHANGED <<servers, found, given, rounds, failures>>
\* connect_to_server.
Connect(a, n) ==
    /\ tasks[a][n] = "connect"
    /\ sessions' = [sessions EXCEPT ![n] = servers[n]]
    /\ tasks' = [tasks EXCEPT ![a][n] = "discover"]
    /\ UNCHANGED <<servers, tools, found, given, rounds, failures>>

\* No connection: False; the session and the tools of an earlier one stay.
ConnectFails(a, n) ==
    /\ tasks[a][n] = "connect" /\ failures > 0
    /\ tasks' = [tasks EXCEPT ![a][n] = "done"]
    /\ failures' = failures - 1
    /\ UNCHANGED <<servers, sessions, tools, found, given, rounds>>

\* discover_tools: tools/list over the session there is, and then the configuration
\* there is, of that name.
Registered(new) == {t \in tools : \A u \in new : <<t.server, t.tool>> # <<u.server, u.tool>>} \cup new
Discover(a, n, listed) ==
    LET new == {[server |-> n, tool |-> t, from |-> servers[n]] : t \in listed} IN
    /\ tasks[a][n] = "discover"
    /\ tools' = Registered(new)
    /\ found' = [found EXCEPT ![a] = @ \cup new]
    /\ tasks' = [tasks EXCEPT ![a][n] = "done"]
    /\ UNCHANGED <<servers, sessions, given, rounds, failures>>

\* An exception on the way: [].
DiscoverFails(a, n) ==
    /\ tasks[a][n] = "discover" /\ failures > 0
    /\ tasks' = [tasks EXCEPT ![a][n] = "done"]
    /\ failures' = failures - 1
    /\ UNCHANGED <<servers, sessions, tools, found, given, rounds>>

\* gather is over: get_all_tools.
Return(a) ==
    /\ Initializing(a) /\ \A n \in Names : tasks[a][n] \in {"none", "done"}
    /\ given' = [given EXCEPT ![a] = tools]
    /\ tasks' = [tasks EXCEPT ![a] = [n \in Names |-> "none"]]
    /\ UNCHANGED <<servers, sessions, tools, found, rounds, failures>>

\* shutdown: disconnect_server for every session, when no agent is being built.
Shutdown ==
    /\ \A a \in Agents : ~Initializing(a) /\ \E n \in Names : sessions[n] # Nobody
    /\ sessions' = [n \in Names |-> Nobody] /\ tools' = {}
    /\ UNCHANGED <<servers, tasks, found, given, rounds, failures>>

Next ==
    \/ \E a \in Agents :
         \/ Begin(a) \/ Return(a)
         \/ \E n \in Names :
              \/ Connect(a, n) \/ ConnectFails(a, n) \/ DiscoverFails(a, n)
              \/ \E listed \in (SUBSET ToolNames) \ {{}} : Discover(a, n, listed)
    \/ Shutdown
Spec == Init /\ [][Next]_vars

----------------------------------------------------------------------------
(* Properties. *)

TypeOK ==
    /\ servers \in [Names -> Owners] /\ sessions \in [Names -> Owners]
    /\ tools \subseteq Tools
    /\ tasks \in [Agents -> [Names -> Phases]]
    /\ found \in [Agents -> SUBSET Tools] /\ given \in [Agents -> SUBSET Tools]
    /\ rounds \in [Agents -> 0..MaxRounds] /\ failures \in 0..MaxFaults

\* An agent is given every tool its initialization has discovered on its own servers,
\* with its own configuration, whoever else connects, discovers or returns meanwhile.
\* (Agents that configure servers of different names.)
OwnTools ==
    \A a \in Agents : ~Initializing(a) =>
        {t \in found[a] : t.server \in Configured[a]} \subseteq {t \in given[a] : t.from = a}

\* Only for runs by hand: an agent is given the tools of its own servers.
OnlyOwnTools == \A a \in Agents : \A t \in given[a] : t.server \in Configured[a]
==============================================================================
