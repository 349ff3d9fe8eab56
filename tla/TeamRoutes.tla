------------------------------ MODULE TeamRoutes -----------------------------
(***************************************************************************)
(* The team endpoints of one session (src/nexau/archs/transports/http/     *)
(* team_routes.py) with the registry of teams (team_registry.py), the      *)
(* multiplexer of a team's events (team/sse/multiplexer.py) and            *)
(* AgentTeam.run_streaming: a client streams a run, another one follows it *)
(* by the stored events, a request that finds the team running is turned   *)
(* into a message and a subscription.                                      *)
(***************************************************************************)
EXTENDS Sequences, Naturals

CONSTANTS
    Posts,      \* the POST /stream and POST /query requests
    Readers,    \* the GET /subscribe requests
    MaxEvents,  \* bound on the events there are
    MaxTeams,   \* bound on the AgentTeam objects
    StartsMeet, \* BOOLEAN: a stream may be asked for while another is about to start its run
    QueriesMeet \* BOOLEAN: a query may come while a run is under way

TeamRoutesAssumption ==
    /\ MaxEvents \in Nat /\ MaxTeams \in Nat
    /\ StartsMeet \in BOOLEAN /\ QueriesMeet \in BOOLEAN

Clients == Posts \cup Readers
Teams == 1..MaxTeams
Nobody == "nobody"

VARIABLES
    team,     \* TeamRegistry._teams of the session: a team, or 0
    made,     \* the teams made
    running,  \* the teams with _is_running
    mux,      \* _multiplexer of each team: the post whose stream it feeds, or Nobody
    of,       \* the team of each post
    client,   \* what the response to each client is doing
    job,      \* what the run of each post is doing
    sink,     \* the multiplexer the agents of that run report to
    pipe,     \* the queue of each post's multiplexer
    store,    \* the stored events (on_stream_event)
    from,     \* where each follower began
    given     \* the events sent to each client

vars == <<team, made, running, mux, of, client, job, sink, pipe, store, from, given>>

End == 0 \* close(): the sentinel
On == {"starting", "reading", "following", "asking"}
Off == {"complete", "error", "left"}

Init ==
    /\ team = 0 /\ made = 0 /\ running = {}
    /\ mux = [t \in Teams |-> Nobody]
    /\ of = [p \in Posts |-> 0]
    /\ client = [c \in Clients |-> "none"]
    /\ job = [p \in Posts |-> "none"] /\ sink = [p \in Posts |-> Nobody]
    /\ pipe = [p \in Posts |-> <<>>]
    /\ store = <<>>
    /\ from = [c \in Clients |-> 0] /\ given = [c \in Clients |-> <<>>]

----------------------------------------------------------------------------
(* What a team reports. *)

\* emit and the handlers of create_event_handler: on_envelope stores the event, then it
\* is put into the queue.
Report(m) ==
    IF m = Nobody THEN UNCHANGED <<store, pipe>>
    ELSE /\ Len(store) < MaxEvents
         /\ store' = Append(store, Len(store) + 1)
         /\ pipe' = [pipe EXCEPT ![m] = Append(@, Len(store) + 1)]

----------------------------------------------------------------------------
(* POST /stream. *)

GetOrCreate(t) == IF team # 0 THEN t = team /\ made' = made ELSE made < MaxTeams /\ t = made + 1 /\ made' = t

NoneStarts == \A q \in Posts : client[q] # "starting" /\ job[q] # "starting"
NoneAsks == \A q \in Posts : client[q] # "asking"

\* The team is not running: a generator is returned that will run it.
PostStream(p, t) ==
    /\ client[p] = "none" /\ GetOrCreate(t) /\ t \notin running
    /\ StartsMeet \/ NoneStarts
    /\ QueriesMeet \/ NoneAsks
    /\ team' = t /\ of' = [of EXCEPT ![p] = t]
    /\ client' = [client EXCEPT ![p] = "starting"]
    /\ UNCHANGED <<running, mux, job, sink, pipe, store, from, given>>

\* It is: the message goes to the leader, and the client follows from here.
Redirect(p) ==
    /\ client[p] = "none" /\ team \in running
    /\ Report(mux[team])
    /\ of' = [of EXCEPT ![p] = team]
    /\ client' = [client EXCEPT ![p] = "following"]
    /\ from' = [from EXCEPT ![p] = Len(store')]
    /\ UNCHANGED <<team, made, running, mux, job, sink, given>>

\* run_streaming after its initialize: the team gets this stream's multiplexer, and run()
\* becomes a task.
Start(p) ==
    /\ client[p] = "starting"
    /\ mux' = [mux EXCEPT ![of[p]] = p]
    /\ job' = [job EXCEPT ![p] = "starting"]
    /\ client' = [client EXCEPT ![p] = "reading"]
    /\ UNCHANGED <<team, made, running, of, sink, pipe, store, from, given>>

\* The generator: an event is sent on.
Read(p) ==
    /\ client[p] = "reading" /\ pipe[p] # <<>> /\ Head(pipe[p]) # End
    /\ given' = [given EXCEPT ![p] = Append(@, Head(pipe[p]))]
    /\ pipe' = [pipe EXCEPT ![p] = Tail(@)]
    /\ UNCHANGED <<team, made, running, mux, of, client, job, sink, store, from>>
\* The sentinel: await run_task, then "complete", or the exception as "error".
ReadEnd(p) ==
    /\ client[p] = "reading" /\ pipe[p] # <<>> /\ Head(pipe[p]) = End
    /\ job[p] \in {"ended", "raised"}
    /\ client' = [client EXCEPT ![p] = IF job[p] = "ended" THEN "complete" ELSE "error"]
    /\ UNCHANGED <<team, made, running, mux, of, job, sink, pipe, store, from, given>>

----------------------------------------------------------------------------
(* POST /query. *)

PostQuery(p, t) ==
    /\ client[p] = "none" /\ GetOrCreate(t)
    /\ QueriesMeet \/ (running = {} /\ NoneStarts /\ NoneAsks)
    /\ team' = t /\ of' = [of EXCEPT ![p] = t]
    /\ client' = [client EXCEPT ![p] = "asking"]
    /\ job' = [job EXCEPT ![p] = "starting"]
    /\ UNCHANGED <<running, mux, sink, pipe, store, from, given>>

\* The result or the exception; the finally removes the session's team.
AnswerQuery(p) ==
    /\ client[p] = "asking" /\ job[p] \in {"ended", "raised"}
    /\ client' = [client EXCEPT ![p] = IF job[p] = "ended" THEN "complete" ELSE "error"]
    /\ team' = 0
    /\ UNCHANGED <<made, running, mux, of, job, sink, pipe, store, from, given>>

----------------------------------------------------------------------------
(* The other endpoints. *)

\* /tasks, /tasks/claim, /tasks/{id} and /message make a team where there is none.
Touch(t) ==
    /\ team = 0 /\ GetOrCreate(t)
    /\ team' = t
    /\ UNCHANGED <<running, mux, of, client, job, sink, pipe, store, from, given>>

\* /user-message: a message for an agent is an event of the stream too.
UserMessage ==
    /\ team # 0 /\ mux[team] # Nobody
    /\ Report(mux[team])
    /\ UNCHANGED <<team, made, running, mux, of, client, job, sink, from, given>>

----------------------------------------------------------------------------
(* AgentTeam.run. *)

\* A team that runs already refuses; the agents of one that does not report to the
\* multiplexer the team has now.
RunBegins(p) ==
    /\ job[p] = "starting"
    /\ IF of[p] \in running THEN job' = [job EXCEPT ![p] = "raised"] /\ UNCHANGED <<running, sink>>
       ELSE /\ job' = [job EXCEPT ![p] = "running"]
            /\ running' = running \cup {of[p]}
            /\ sink' = [sink EXCEPT ![p] = mux[of[p]]]
    /\ UNCHANGED <<team, made, mux, of, client, pipe, store, from, given>>

RunReports(p) ==
    /\ job[p] = "running" /\ sink[p] # Nobody
    /\ Report(sink[p])
    /\ UNCHANGED <<team, made, running, mux, of, client, job, sink, from, given>>

\* Seeded defect: the multiplexer is let go without being closed.
RunEndsOpen(p) ==
    /\ job[p] = "running"
    /\ job' = [job EXCEPT ![p] = "ended"]
    /\ running' = running \ {of[p]}
    /\ mux' = [mux EXCEPT ![of[p]] = Nobody]
    /\ team' = IF client[p] = "asking" THEN team ELSE 0
    /\ UNCHANGED <<made, of, client, sink, pipe, store, from, given>>
\* The finally of run(): the multiplexer the team has is closed, and the callback of the
\* stream's request removes the team; a query's team has none.
RunEnds(p) ==
    /\ job[p] = "running"
    /\ job' = [job EXCEPT ![p] = "ended"]
    /\ running' = running \ {of[p]}
    /\ pipe' = IF mux[of[p]] = Nobody THEN pipe ELSE [pipe EXCEPT ![mux[of[p]]] = Append(@, End)]
    /\ mux' = [mux EXCEPT ![of[p]] = Nobody]
    /\ team' = IF client[p] = "asking" THEN team ELSE 0
    /\ UNCHANGED <<made, of, client, sink, store, from, given>>

----------------------------------------------------------------------------
(* GET /subscribe, and the redirected streams. *)

Subscribe(c) ==
    /\ c \in Readers /\ client[c] = "none"
    /\ client' = [client EXCEPT ![c] = "following"]
    /\ from' \in {[from EXCEPT ![c] = n] : n \in 0..Len(store)}
    /\ UNCHANGED <<team, made, running, mux, of, job, sink, pipe, store, given>>

Rest(c) == SubSeq(store, from[c] + Len(given[c]) + 1, Len(store))
Poll(c) ==
    /\ client[c] = "following" /\ Rest(c) # <<>>
    /\ given' = [given EXCEPT ![c] = @ \o Rest(c)]
    /\ UNCHANGED <<team, made, running, mux, of, client, job, sink, pipe, store, from>>
\* Seeded defect: the subscription ends without a last look at the store.
SeenOffUndrained(c) ==
    /\ client[c] = "following" /\ team \notin running
    /\ client' = [client EXCEPT ![c] = "complete"]
    /\ UNCHANGED <<team, made, running, mux, of, job, sink, pipe, store, from, given>>
\* The team of the registry does not run: the rest, and "complete".
SeenOff(c) ==
    /\ client[c] = "following" /\ team \notin running
    /\ given' = [given EXCEPT ![c] = @ \o Rest(c)]
    /\ client' = [client EXCEPT ![c] = "complete"]
    /\ UNCHANGED <<team, made, running, mux, of, job, sink, pipe, store, from>>

\* Seeded defect: the team is removed when the client of its stream goes.
LeaveTeam(c) ==
    /\ client[c] \in {"reading", "following"}
    /\ client' = [client EXCEPT ![c] = "left"]
    /\ team' = IF client[c] = "reading" THEN 0 ELSE team
    /\ UNCHANGED <<made, running, mux, of, job, sink, pipe, store, from, given>>
\* A client goes: the run and the storing of its events go on.
Leave(c) ==
    /\ client[c] \in {"reading", "following"}
    /\ client' = [client EXCEPT ![c] = "left"]
    /\ UNCHANGED <<team, made, running, mux, of, job, sink, pipe, store, from, given>>

Next ==
    \/ \E p \in Posts :
         \/ \E t \in Teams : PostStream(p, t) \/ PostQuery(p, t)
         \/ Redirect(p) \/ Start(p) \/ Read(p) \/ ReadEnd(p) \/ AnswerQuery(p)
         \/ RunBegins(p) \/ RunReports(p) \/ RunEnds(p)
    \/ \E t \in Teams : Touch(t)
    \/ UserMessage
    \/ \E c \in Clients : Subscribe(c) \/ Poll(c) \/ SeenOff(c) \/ Leave(c)

\* The event loop serves every generator and task, and a run comes to an end.
Fairness ==
    /\ \A p \in Posts : /\ WF_vars(Start(p)) /\ WF_vars(Read(p) \/ ReadEnd(p)) /\ WF_vars(AnswerQuery(p))
                        /\ WF_vars(RunBegins(p)) /\ WF_vars(RunEnds(p))
    /\ \A c \in Clients : WF_vars(SeenOff(c))
Spec == Init /\ [][Next]_vars /\ Fairness

----------------------------------------------------------------------------
(* Properties. *)

TypeOK ==
    /\ team \in 0..made /\ made \in 0..MaxTeams /\ running \subseteq 1..made
    /\ mux \in [Teams -> Posts \cup {Nobody}] /\ of \in [Posts -> 0..made]
    /\ client \in [Clients -> {"none"} \cup On \cup Off]
    /\ job \in [Posts -> {"none", "starting", "running", "ended", "raised"}]
    /\ sink \in [Posts -> Posts \cup {Nobody}]
    /\ \A p \in Posts : pipe[p] \in Seq(0..MaxEvents)
    /\ \A c \in Clients : from[c] \in 0..MaxEvents /\ given[c] \in Seq(1..MaxEvents)

\* A client that follows a run by the stored events is given them without a gap and
\* without a repetition, and is told "complete" when it has them all; the client of the
\* stream itself has all the events of its run when it is told so.
MissesNothing ==
    /\ \A c \in Clients : client[c] = "following" =>
        /\ given'[c] = SubSeq(store', from[c] + 1, from[c] + Len(given'[c]))
        /\ client'[c] = "complete" => from[c] + Len(given'[c]) = Len(store)
    /\ \A p \in Posts : client[p] = "reading" /\ client'[p] = "complete" => Tail(pipe[p]) = <<>>

\* A team that runs is the one the registry has: /stop, /subscribe and the next /stream
\* find it, whether or not the client of its stream is still there.
RunningIsKnown == running \subseteq {team}

\* Who follows a team finds it and misses nothing of it.
TeamIsFollowed == []RunningIsKnown /\ [][MissesNothing]_vars

\* Every response comes to an end.
ResponsesEnd == \A c \in Clients : client[c] \in On ~> client[c] \in Off
==============================================================================
