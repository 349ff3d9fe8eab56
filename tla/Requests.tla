------------------------------ MODULE Requests -------------------------------
(***************************************************************************)
(* The requests a transport serves for one session                         *)
(* (src/nexau/archs/transports/base.py, http/sse_server.py,                *)
(* stdio/stdio_transport.py, http/sse_client.py): queries, streams of the  *)
(* events of a run, and stops.  The HTTP server serves requests side by    *)
(* side; the stdio transport reads the next line when the last one has     *)
(* been handled.  The root agent of a session has one id, so all runs of   *)
(* the session share one key of the table of running agents.               *)
(***************************************************************************)
EXTENDS Sequences, Integers

CONSTANTS
    Ids,        \* the requests for a run
    Transports, \* the transports there may be: "http", "stdio"
    Events,     \* the types of event a run emits
    MaxEvents,  \* bound on the events of a run
    MaxStops,   \* bound on stop requests
    Overlap,    \* BOOLEAN: a request may come while another is served
    MayLeave    \* BOOLEAN: the client of an HTTP stream may go away

RequestsAssumption ==
    /\ Transports \subseteq {"http", "stdio"}
    /\ MaxEvents \in Nat /\ MaxStops \in Nat /\ Overlap \in BOOLEAN /\ MayLeave \in BOOLEAN

VARIABLES
    over,       \* the transport
    handler,    \* what the handler of each request is doing
    run,        \* what the run of each request is doing
    holder,     \* the request whose run holds the agent lock, or Nobody
    registered, \* _running_agents under the session's key, or Nobody
    queued,     \* event_queue of each stream
    emitted,    \* history: the events of each run
    given,      \* the event frames sent to each client
    stopping,   \* the stop request: "none", or asked "in time" (a run is under way) or "late"
    stops       \* stop requests still to come

vars == <<over, handler, run, holder, registered, queued, emitted, given, stopping, stops>>

Nobody == "nobody"
Serving == {"query", "stream", "waiting", "piping", "draining", "closing"}
Started == {"waiting", "piping", "draining", "closing"}
Over == {"success", "error", "left"}

Init ==
    /\ over \in Transports
    /\ handler = [r \in Ids |-> "none"] /\ run = [r \in Ids |-> "none"]
    /\ holder = Nobody /\ registered = Nobody
    /\ queued = [r \in Ids |-> <<>>] /\ emitted = queued /\ given = queued
    /\ stopping = "none" /\ stops = MaxStops

Busy == \E r \in Ids : handler[r] \in Serving

----------------------------------------------------------------------------
(* The handlers. *)

\* POST /query and /stream, or a line with agent.query or agent.stream.
Ask(r, kind) ==
    /\ handler[r] = "none"
    /\ over = "stdio" \/ ~Overlap => ~Busy
    /\ handler' = [handler EXCEPT ![r] = kind]
    /\ UNCHANGED <<over, run, holder, registered, queued, emitted, given, stopping, stops>>

\* handle_request and handle_streaming_request up to the run: the agent is created and
\* put into the table.
Register(r) ==
    /\ handler[r] \in {"query", "stream"}
    /\ handler' = [handler EXCEPT ![r] = IF @ = "query" THEN "waiting" ELSE "piping"]
    /\ run' = [run EXCEPT ![r] = "starting"]
    /\ registered' = r
    /\ UNCHANGED <<over, holder, queued, emitted, given, stopping, stops>>
CreateFails(r) ==
    /\ handler[r] \in {"query", "stream"}
    /\ handler' = [handler EXCEPT ![r] = "error"]
    /\ UNCHANGED <<over, run, holder, registered, queued, emitted, given, stopping, stops>>

\* The loop over the queue: wait_for(event_queue.get(), 0.1) while the run goes on.
Pipe(r) ==
    /\ handler[r] = "piping" /\ queued[r] # <<>>
    /\ given' = [given EXCEPT ![r] = Append(@, Head(queued[r]))]
    /\ queued' = [queued EXCEPT ![r] = Tail(@)]
    /\ UNCHANGED <<over, handler, run, holder, registered, emitted, stopping, stops>>
RunOver(r) == run[r] \in {"done", "failed"}
\* Seeded defect: the rest of the queue is not drained.
PipeEndsUndrained(r) ==
    /\ handler[r] = "piping" /\ RunOver(r)
    /\ handler' = [handler EXCEPT ![r] = "closing"]
    /\ UNCHANGED <<over, run, holder, registered, queued, emitted, given, stopping, stops>>
\* Seeded defect: the loop ends with the run's result only.
PipeEndsDone(r) ==
    /\ handler[r] = "piping" /\ run[r] = "done"
    /\ handler' = [handler EXCEPT ![r] = "draining"]
    /\ UNCHANGED <<over, run, holder, registered, queued, emitted, given, stopping, stops>>
PipeEnds(r) ==
    /\ handler[r] = "piping" /\ RunOver(r)
    /\ handler' = [handler EXCEPT ![r] = "draining"]
    /\ UNCHANGED <<over, run, holder, registered, queued, emitted, given, stopping, stops>>
Drain(r) ==
    /\ handler[r] = "draining"
    /\ IF queued[r] = <<>> THEN handler' = [handler EXCEPT ![r] = "closing"] /\ UNCHANGED <<queued, given>>
       ELSE /\ given' = [given EXCEPT ![r] = Append(@, Head(queued[r]))]
            /\ queued' = [queued EXCEPT ![r] = Tail(@)]
            /\ UNCHANGED handler
    /\ UNCHANGED <<over, run, holder, registered, emitted, stopping, stops>>

\* The run's result or exception, after the finally: the session's key is popped.
\* Seeded defect: only a run that succeeds is taken out of the table.
AnswerOrStay(r) ==
    /\ handler[r] = "closing" \/ (handler[r] = "waiting" /\ RunOver(r))
    /\ handler' = [handler EXCEPT ![r] = IF run[r] = "done" THEN "success" ELSE "error"]
    /\ registered' = IF run[r] = "done" THEN Nobody ELSE registered
    /\ UNCHANGED <<over, run, holder, queued, emitted, given, stopping, stops>>
Answer(r) ==
    /\ handler[r] = "closing" \/ (handler[r] = "waiting" /\ RunOver(r))
    /\ handler' = [handler EXCEPT ![r] = IF run[r] = "done" THEN "success" ELSE "error"]
    /\ registered' = Nobody
    /\ UNCHANGED <<over, run, holder, queued, emitted, given, stopping, stops>>

\* The client of a stream goes: the generator is closed and its finally runs; the task
\* of the run is left alone.
Leave(r) ==
    /\ MayLeave /\ over = "http" /\ handler[r] \in {"piping", "draining"}
    /\ handler' = [handler EXCEPT ![r] = "left"]
    /\ registered' = Nobody
    /\ queued' = [queued EXCEPT ![r] = <<>>]
    /\ UNCHANGED <<over, run, holder, emitted, given, stopping, stops>>

----------------------------------------------------------------------------
(* The runs: run_async, as far as the transport sees it. *)

Begin(r) ==
    /\ run[r] = "starting"
    /\ IF holder = Nobody
       THEN holder' = r /\ run' = [run EXCEPT ![r] = "running"]
       ELSE run' = [run EXCEPT ![r] = "failed"] /\ UNCHANGED holder
    /\ UNCHANGED <<over, handler, registered, queued, emitted, given, stopping, stops>>

\* on_event: put_nowait into the queue of the stream; a query drops its events.
Emit(r, e) ==
    /\ run[r] = "running" /\ Len(emitted[r]) < MaxEvents
    /\ emitted' = [emitted EXCEPT ![r] = Append(@, e)]
    /\ queued' = IF handler[r] = "piping" THEN [queued EXCEPT ![r] = Append(@, e)] ELSE queued
    /\ UNCHANGED <<over, handler, run, holder, registered, given, stopping, stops>>

End(r, how) ==
    /\ run[r] = "running"
    /\ run' = [run EXCEPT ![r] = how]
    /\ holder' = Nobody
    /\ UNCHANGED <<over, handler, registered, queued, emitted, given, stopping, stops>>

----------------------------------------------------------------------------
(* Stops. *)

\* POST /stop, or a line with agent.stop, which is read when its turn comes.
AskStop ==
    /\ stopping = "none" /\ stops > 0
    /\ stopping' = IF holder # Nobody THEN "in time" ELSE "late"
    /\ stops' = stops - 1
    /\ UNCHANGED <<over, handler, run, holder, registered, queued, emitted, given>>

\* handle_stop_request: agent.stop() of the agent in the table, whose run then ends, or
\* "No running agent found".
Stop ==
    /\ stopping \in {"in time", "late"} /\ (over = "stdio" => ~Busy)
    /\ IF registered # Nobody /\ run[registered] = "running"
       THEN run' = [run EXCEPT ![registered] = "done"] /\ holder' = Nobody /\ stopping' = "none"
       ELSE UNCHANGED <<run, holder>> /\ stopping' = IF stopping = "in time" /\ holder # Nobody THEN "missed" ELSE "none"
    /\ UNCHANGED <<over, handler, registered, queued, emitted, given, stops>>

Serve(r) == Register(r) \/ Pipe(r) \/ PipeEnds(r) \/ Drain(r) \/ Answer(r)
Next ==
    \/ \E r \in Ids :
         \/ \E kind \in {"query", "stream"} : Ask(r, kind)
         \/ Register(r) \/ CreateFails(r) \/ Pipe(r) \/ PipeEnds(r) \/ Drain(r) \/ Answer(r) \/ Leave(r)
         \/ Begin(r) \/ \E e \in Events : Emit(r, e) \/ \E how \in {"done", "failed"} : End(r, how)
    \/ AskStop \/ Stop

\* The event loop serves every handler, and a run comes to an end.
Fairness ==
    /\ \A r \in Ids : WF_vars(Serve(r)) /\ WF_vars(Begin(r)) /\ WF_vars(End(r, "done"))
    /\ WF_vars(Stop)
Spec == Init /\ [][Next]_vars /\ Fairness

----------------------------------------------------------------------------
(* Properties. *)

TypeOK ==
    /\ over \in Transports
    /\ handler \in [Ids -> {"none"} \cup Serving \cup Over]
    /\ run \in [Ids -> {"none", "starting", "running", "done", "failed"}]
    /\ holder \in Ids \cup {Nobody} /\ registered \in Ids \cup {Nobody}
    /\ \A r \in Ids : {queued[r], emitted[r], given[r]} \subseteq Seq(Events)
    /\ stopping \in {"none", "in time", "late", "missed"} /\ stops \in 0..MaxStops

\* The client of a stream is given the events of its run in order, and all of them
\* before the end of the stream, whether the run succeeds or fails.
StreamsWhole ==
    \A r \in Ids : handler[r] \in {"piping", "draining", "closing", "success", "error", "left"} =>
        /\ Len(given[r]) <= Len(emitted[r]) /\ \A i \in DOMAIN given[r] : given[r][i] = emitted[r][i]
        /\ handler[r] = "closing" => given[r] = emitted[r]

\* The table of running agents holds nobody whose handler is over: a stop finds no
\* agent of an earlier request.
TableTidy == registered # Nobody => handler[registered] \in Started

\* Every request is answered, or its client has gone.
RequestsAnswered == \A r \in Ids : handler[r] \in Serving ~> handler[r] \in Over

\* Only for runs by hand: a stop that is asked for while a run is under way stops it.
StopFinds == stopping # "missed"
StopInTime == [][stopping = "in time" /\ stopping' = "none" => holder # Nobody]_vars

\* Only for runs by hand: what SSEClient.stream_events yields of a stream is what the
\* server has sent; it knows the types in Parsed, and no error event.
Parsed == {"text", "tool", "run"}
Yielded(s) == IF \E i \in DOMAIN s : s[i] \notin Parsed
              THEN SubSeq(s, 1, (CHOOSE i \in DOMAIN s : s[i] \notin Parsed /\ \A j \in 1..i - 1 : s[j] \in Parsed) - 1)
              ELSE s
ClientReadsAll == \A r \in Ids : over = "http" /\ handler[r] = "success" => Yielded(given[r]) = given[r]
==============================================================================
