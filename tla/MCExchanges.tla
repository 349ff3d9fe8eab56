----------------------------- MODULE MCExchanges -----------------------------
(* What somebody outside is asked for or waits for: the requests of a session,*)
(* the team endpoints, the calls of a model, the commands of a sandbox, the   *)
(* sessions with an MCP server and the tools of all of them.  A behaviour is  *)
(* one of a single component, for any values of its constants: MCExchanges.cfg*)
(* has the small instance, ExchangesProofs the theorems.                      *)
EXTENDS Sequences, Integers

CONSTANTS
    Ids, Transports, Events, MaxEvents, MaxStops, Overlap, MayLeave,    \* of Requests
    Posts, Readers, MaxStored, MaxTeams, StartsMeet, QueriesMeet,       \* of TeamRoutes
    Fallbacks, Retries, Threshold, Chains, ApiTypes, MaxCalls,          \* of ModelCalls
    Calls, MaxFaults, Overtaking,                                       \* of Commands
    Sessions, MaxLines, MaxNoise, Chatty, EarlyExit, CutBodies,         \* of McpSession
    Agents, Names, Configured, ToolNames, MaxRounds, MaxFailures        \* of McpServers

MCChains == {<<>>, <<"failover">>, <<"failover", "compaction">>}
MCApiTypes == {<<"openai", "openai">>, <<"anthropic", "openai">>, <<"gemini", "gemini">>}
\* Each of two agents has a server of its own.
MCConfigured == [a \in {"a1", "a2"} |-> IF a = "a1" THEN {"s1"} ELSE {"s2"}]

VARIABLE part \* the component under way
VARIABLES over, handler, run, holder, registered, queued, emitted, given, stopping, stops
VARIABLES team, teams, running, mux, of, client, job, sink, pipe, store, from, seen
VARIABLES path, chain, apis, call, modelRequest, breaker, stop, calls, modelSent, late, raised,
    misses, forgiven
VARIABLES engine, commandCall, requests, procs, tasks, answer, commandStopping, faults,
    outages
VARIABLES kind, carrier, methods, request, waiting, sent, wire, closed, noise, made, outcome
VARIABLES servers, sessions, tools, serverTasks, found, serverGiven, rounds, failures

Q == INSTANCE Requests
T == INSTANCE TeamRoutes WITH MaxEvents <- MaxStored, made <- teams, given <- seen
C == INSTANCE ModelCalls WITH request <- modelRequest, sent <- modelSent
K == INSTANCE Commands WITH call <- commandCall, stopping <- commandStopping
M == INSTANCE McpSession
V == INSTANCE McpServers WITH MaxFaults <- MaxFailures, tasks <- serverTasks,
    given <- serverGiven

ASSUME Assumed ==
    /\ Q!RequestsAssumption /\ T!TeamRoutesAssumption /\ C!ModelCallsAssumption
    /\ K!CommandsAssumption /\ M!McpSessionAssumption /\ V!McpServersAssumption

requestsVars == <<over, handler, run, holder, registered, queued, emitted, given, stopping,
    stops>>
routesVars == <<team, teams, running, mux, of, client, job, sink, pipe, store, from, seen>>
modelVars == <<path, chain, apis, call, modelRequest, breaker, stop, calls, modelSent, late,
    raised, misses, forgiven>>
commandVars == <<engine, commandCall, requests, procs, tasks, answer, commandStopping, faults,
    outages>>
sessionVars == <<kind, carrier, methods, request, waiting, sent, wire, closed, noise, made,
    outcome>>
serverVars == <<servers, sessions, tools, serverTasks, found, serverGiven, rounds, failures>>
vars == <<part, requestsVars, routesVars, modelVars, commandVars, sessionVars, serverVars>>

\* The other components are left out of a behaviour.
NoRequests == over = 0 /\ handler = 0 /\ run = 0 /\ holder = 0 /\ registered = 0 /\ queued = 0
    /\ emitted = 0 /\ given = 0 /\ stopping = 0 /\ stops = 0
NoRoutes == team = 0 /\ teams = 0 /\ running = 0 /\ mux = 0 /\ of = 0 /\ client = 0 /\ job = 0
    /\ sink = 0 /\ pipe = 0 /\ store = 0 /\ from = 0 /\ seen = 0
NoModel == path = 0 /\ chain = 0 /\ apis = 0 /\ call = 0 /\ modelRequest = 0 /\ breaker = 0
    /\ stop = 0 /\ calls = 0 /\ modelSent = 0 /\ late = 0 /\ raised = 0 /\ misses = 0
    /\ forgiven = 0
NoCommand == engine = 0 /\ commandCall = 0 /\ requests = 0 /\ procs = 0 /\ tasks = 0
    /\ answer = 0 /\ commandStopping = 0 /\ faults = 0 /\ outages = 0
NoSession == kind = 0 /\ carrier = 0 /\ methods = 0 /\ request = 0 /\ waiting = 0 /\ sent = 0
    /\ wire = 0 /\ closed = 0 /\ noise = 0 /\ made = 0 /\ outcome = 0
NoServers == servers = 0 /\ sessions = 0 /\ tools = 0 /\ serverTasks = 0 /\ found = 0
    /\ serverGiven = 0 /\ rounds = 0 /\ failures = 0

Init ==
    \/ part = "requests" /\ Q!Init /\ NoRoutes /\ NoModel /\ NoCommand /\ NoSession /\ NoServers
    \/ part = "routes" /\ T!Init /\ NoRequests /\ NoModel /\ NoCommand /\ NoSession /\ NoServers
    \/ part = "model" /\ C!Init /\ NoRequests /\ NoRoutes /\ NoCommand /\ NoSession /\ NoServers
    \/ part = "command" /\ K!Init /\ NoRequests /\ NoRoutes /\ NoModel /\ NoSession /\ NoServers
    \/ part = "session" /\ M!Init /\ NoRequests /\ NoRoutes /\ NoModel /\ NoCommand /\ NoServers
    \/ part = "servers" /\ V!Init /\ NoRequests /\ NoRoutes /\ NoModel /\ NoCommand /\ NoSession

InRequests(A) == part = "requests" /\ A
    /\ UNCHANGED <<part, routesVars, modelVars, commandVars, sessionVars, serverVars>>
InRoutes(A) == part = "routes" /\ A
    /\ UNCHANGED <<part, requestsVars, modelVars, commandVars, sessionVars, serverVars>>
InModel(A) == part = "model" /\ A
    /\ UNCHANGED <<part, requestsVars, routesVars, commandVars, sessionVars, serverVars>>
InCommand(A) == part = "command" /\ A
    /\ UNCHANGED <<part, requestsVars, routesVars, modelVars, sessionVars, serverVars>>
InSession(A) == part = "session" /\ A
    /\ UNCHANGED <<part, requestsVars, routesVars, modelVars, commandVars, serverVars>>
InServers(A) == part = "servers" /\ A
    /\ UNCHANGED <<part, requestsVars, routesVars, modelVars, commandVars, sessionVars>>

Next ==
    \/ InRequests(Q!Next)
    \/ InRoutes(T!Next)
    \/ InModel(C!Next)
    \/ InCommand(K!Next)
    \/ InSession(M!Next)
    \/ InServers(V!Next)

Fairness ==
    /\ \A r \in Ids :
        /\ WF_vars(InRequests(Q!Serve(r))) /\ WF_vars(InRequests(Q!Begin(r)))
        /\ WF_vars(InRequests(Q!End(r, "done")))
    /\ WF_vars(InRequests(Q!Stop))
    /\ \A p \in Posts :
        /\ WF_vars(InRoutes(T!Start(p))) /\ WF_vars(InRoutes(T!Read(p) \/ T!ReadEnd(p)))
        /\ WF_vars(InRoutes(T!AnswerQuery(p)))
        /\ WF_vars(InRoutes(T!RunBegins(p))) /\ WF_vars(InRoutes(T!RunEnds(p)))
    /\ \A c \in Posts \cup Readers : WF_vars(InRoutes(T!SeenOff(c)))
    /\ WF_vars(InModel(C!Step))
    /\ \A k \in Calls :
        /\ WF_vars(InCommand(K!Client(k))) /\ WF_vars(InCommand(K!Host(k)))
        /\ WF_vars(InCommand(K!LocalTimeout(k))) /\ WF_vars(InCommand(K!Overdue(k)))
        /\ WF_vars(InCommand(K!ShellAsks(k)))
    /\ WF_vars(InSession(M!Send)) /\ WF_vars(InSession(M!Listen)) /\ WF_vars(InSession(M!Timeout))
    /\ WF_vars(InSession(M!SubprocessSpeaks))

Spec == Init /\ [][Next]_vars /\ Fairness

------------------------------------------------------------------------------
\* Requests: the client of a stream is given its run's events in order, and all of them
\* before the end; the table of running agents holds no agent of a request that is over.
StreamsWhole == part = "requests" => Q!StreamsWhole /\ Q!TableTidy

\* Team endpoints: a team that runs is the one the registry has, so that a stop, a
\* subscription or the next request finds it, and who follows a run by the stored events
\* misses none and has none twice.
TeamIsFollowed == [](part = "routes" => T!RunningIsKnown) /\ [][part = "routes" => T!MissesNothing]_vars

\* Model calls: a call fails only behind everything that could have helped, a stop is
\* not answered with another round of requests, and a primary whose breaker is open is
\* not asked before it may recover.  Of a failover from a Gemini primary it says only that a
\* stop is heeded and the call comes back with something.
AsksWhoMayHelp ==
    /\ [](part = "model" => C!GivesUpLast /\ C!StopEndsRequests)
    /\ [][part = "model" => C!SparesPrimary]_vars

\* Commands: a result speaks of the process it is about and comes with all of its output, a
\* start that is repeated after a lost reply runs no command twice, and a task once
\* reported as finished stays so.
RunsAsTold ==
    /\ [](part = "command" => K!ResultIsTrue /\ K!OutputWhole /\ K!RunsOnce)
    /\ [][part = "command" => K!FinishedStays]_vars

\* MCP: what a session returns is the server's answer to its own last request.
OwnAnswer == part = "session" => M!OwnAnswer

\* MCP: an agent is given every tool found on its own servers, whoever else connects,
\* discovers or returns meanwhile.
OwnTools == part = "servers" => V!OwnTools

\* Nobody waits for ever: requests and the responses of the team endpoints end, calls of
\* the model, of the shell and of execute_shell return, the sandbox does not let a
\* foreground command run on, and an MCP session has a result or an error.  Each waits
\* once, or a bounded number of times, so it is enough that the waits are all over again
\* and again.
SomebodyWaits ==
    CASE part = "requests" -> \E r \in Ids : handler[r] \in Q!Serving
      [] part = "routes"   -> \E c \in Posts \cup Readers : client[c] \in T!On
      [] part = "model"    -> call.mode # "idle"
      [] part = "command"  -> \E k \in Calls : K!Unreturned(k) \/ K!RunsOn(k)
      [] part = "session"  -> M!Undecided
      [] part = "servers"  -> FALSE
NobodyWaitsForEver == []<>~SomebodyWaits
==============================================================================
