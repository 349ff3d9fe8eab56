----------------------------- MODULE McpSession ------------------------------
(***************************************************************************)
(* One session with an MCP server and the requests it makes                *)
(* (src/nexau/archs/tool/builtin/mcp_client.py).  A tool call opens a      *)
(* session of its own: a subprocess it speaks to by lines ("stdio"), or an *)
(* HTTP session ("http"), which begins as streamable HTTP and falls back   *)
(* to HTTP+SSE when the server refuses that with a 4xx.  "discovery" is    *)
(* the other DirectMCPSession, of connect_to_server, which lists the tools *)
(* of a stdio server.                                                      *)
(*                                                                         *)
(* The server answers a request once.  It may put notifications, and lines *)
(* that are no JSON, before an answer, be silent, and leave.               *)
(***************************************************************************)
EXTENDS Sequences, Integers

CONSTANTS
    Sessions,   \* the kinds of session there may be
    MaxLines,   \* lines the stdio session of a call reads for an answer; the code's is 10
    MaxNoise,   \* bound on what the server says unasked
    Chatty,     \* the sessions whose server says something unasked
    EarlyExit,  \* BOOLEAN: a subprocess may end before it has answered initialize
    CutBodies   \* BOOLEAN: an HTTP response may end before the answer is in it

McpSessionAssumption ==
    /\ Sessions \subseteq {"discovery", "stdio", "http"} /\ Chatty \subseteq Sessions
    /\ MaxLines \in Nat \ {0} /\ MaxNoise \in Nat
    /\ EarlyExit \in BOOLEAN /\ CutBodies \in BOOLEAN

VARIABLES
    kind,    \* the session
    carrier, \* "lines", "streamable" or "sse"
    methods, \* the requests it still makes
    request, \* the one it waits for: [id, method, lines]
    waiting, \* _pending_requests: the ids with a future
    sent,    \* requests the server has not answered
    wire,    \* what the server has said and the session has not read
    closed,  \* streamable: the response is over; lines: the process has ended
    noise,   \* what the server still says unasked
    made,    \* requests made: _request_id
    outcome  \* the message taken for the last answer; [id |-> 0, says |-> s] with s "open", "error", "hung" before

vars == <<kind, carrier, methods, request, waiting, sent, wire, closed, noise, made, outcome>>

Message(id, says) == [id |-> id, says |-> says]
Garbage == Message(0, "garbage")
Notification == Message(0, "notification")
Open == Message(0, "open")
None == [id |-> 0, method |-> "none", lines |-> 0]

\* initialize() and then what the session is for.  The stdio sessions try tools/list
\* at the end of initialize.
Plan(k) ==
    CASE k = "stdio"     -> <<"initialize", "tools/list", "tools/call">>
      [] k = "discovery" -> <<"initialize", "tools/list", "tools/list">>
      [] k = "http"      -> <<"initialize", "tools/call">>

Init ==
    /\ kind \in Sessions
    /\ carrier = IF kind = "http" THEN "streamable" ELSE "lines"
    /\ methods = Plan(kind)
    /\ request = None
    /\ waiting = {} /\ sent = <<>> /\ wire = <<>>
    /\ closed = FALSE
    /\ noise = IF kind \in Chatty THEN MaxNoise ELSE 0
    /\ made = 0
    /\ outcome = Open

----------------------------------------------------------------------------
(* The session. *)

\* A request goes out: a line to the process, a POST, or over SSE a POST whose answer
\* comes by the stream, with a future registered before.
Send ==
    /\ outcome = Open /\ request = None /\ methods # <<>>
    /\ request' = [id |-> made + 1, method |-> Head(methods), lines |-> 0]
    /\ methods' = Tail(methods)
    /\ sent' = Append(sent, Message(made + 1, Head(methods)))
    /\ waiting' = IF carrier = "sse" THEN waiting \cup {made + 1} ELSE waiting
    /\ closed' = (carrier = "lines" /\ closed)
    /\ made' = made + 1
    /\ UNCHANGED <<kind, carrier, wire, noise, outcome>>

Raise == outcome' = Message(0, "error") /\ request' = None

\* m answers the request, whatever it is: an error raises, the last one ends the session.
Take(m) ==
    IF m.says = "error" THEN Raise
    ELSE request' = None /\ outcome' = IF methods = <<>> THEN m ELSE Open

Mine(m) == m.id = request.id

\* initialize of both stdio sessions: the first line that is JSON is the response.
ReadInitialize ==
    /\ carrier = "lines" /\ request.method = "initialize" /\ wire # <<>>
    /\ wire' = Tail(wire)
    /\ IF Head(wire) = Garbage THEN UNCHANGED <<request, outcome>> ELSE Take(Head(wire))
    /\ UNCHANGED <<kind, carrier, methods, waiting, sent, closed, noise, made>>

\* At the end of the output readline() returns at once and empty, which is no JSON: the
\* loop goes round without ever suspending, and no timeout, its own or the caller's, can
\* end it.
Spin ==
    /\ carrier = "lines" /\ request.method = "initialize" /\ wire = <<>> /\ closed
    /\ outcome' = Message(0, "hung") /\ request' = None
    /\ UNCHANGED <<kind, carrier, methods, waiting, sent, wire, closed, noise, made>>

Reading == carrier = "lines" /\ request # None /\ request.method # "initialize" /\ wire # <<>>

\* Seeded defect: whatever is JSON is the answer.
ReadAnyAnswer ==
    /\ Reading /\ kind = "stdio"
    /\ wire' = Tail(wire)
    /\ IF Head(wire) # Garbage THEN Take(Head(wire))
       ELSE IF request.lines + 1 = MaxLines THEN Raise
       ELSE request' = [request EXCEPT !.lines = @ + 1] /\ UNCHANGED outcome
    /\ UNCHANGED <<kind, carrier, methods, waiting, sent, closed, noise, made>>
\* _make_request of the session of a call: lines until the answer, ten at most.
ReadLine ==
    /\ Reading /\ kind = "stdio"
    /\ wire' = Tail(wire)
    /\ IF Mine(Head(wire)) THEN Take(Head(wire))
       ELSE IF request.lines + 1 = MaxLines THEN Raise
       ELSE request' = [request EXCEPT !.lines = @ + 1] /\ UNCHANGED outcome
    /\ UNCHANGED <<kind, carrier, methods, waiting, sent, closed, noise, made>>

\* _make_request of connect_to_server's session: the next line is the response.
ReadBlind ==
    /\ Reading /\ kind = "discovery"
    /\ wire' = Tail(wire)
    /\ IF Head(wire) = Garbage THEN Raise ELSE Take(Head(wire))
    /\ UNCHANGED <<kind, carrier, methods, waiting, sent, closed, noise, made>>

\* The process has ended: "MCP server closed connection", or a line that is no JSON.
ReadEnd ==
    /\ carrier = "lines" /\ request # None /\ request.method # "initialize" /\ wire = <<>> /\ closed
    /\ Raise
    /\ UNCHANGED <<kind, carrier, methods, waiting, sent, wire, closed, noise, made>>

\* wait_for(readline, 60), connect_to_server's wait_for around the whole of initialize,
\* and the timeouts of an HTTP request and of an answer by SSE.  A tools/list or
\* tools/call of a stdio session has none.
\* Seeded defect: the wait for an answer by SSE has no limit.
HasTimeoutNoSse == carrier = "streamable" \/ (carrier = "lines" /\ request.method = "initialize")
                   \/ (kind = "discovery" /\ methods # <<>>)
HasTimeout == kind = "http" \/ request.method = "initialize" \/ (kind = "discovery" /\ methods # <<>>)
Timeout ==
    /\ request # None /\ HasTimeout
    /\ Raise
    /\ waiting' = waiting \ {request.id}
    /\ UNCHANGED <<kind, carrier, methods, sent, wire, closed, noise, made>>

\* A 4xx to the first POST: _initialize_http_sse opens the stream, learns the endpoint,
\* and sends initialize again by the next id.
FallBack ==
    /\ carrier = "streamable" /\ request.method = "initialize" /\ wire = <<>> /\ ~closed
    /\ carrier' = "sse"
    /\ request' = None /\ methods' = Plan(kind) /\ sent' = <<>>
    /\ UNCHANGED <<kind, waiting, wire, closed, noise, outcome, made>>
\* Any other bad status, or no endpoint on the stream.
Refused ==
    /\ request # None /\ kind = "http" /\ wire = <<>> /\ ~closed
    /\ Raise
    /\ waiting' = waiting \ {request.id}
    /\ UNCHANGED <<kind, carrier, methods, sent, wire, closed, noise, made>>

\* _parse_streamable_http_payload of a response that is a stream of events: the message
\* with the id, else the last result or error, else the last message.
Told == {i \in DOMAIN wire : wire[i] # Garbage}
Decisive == {i \in Told : wire[i] # Notification}
Replies == {i \in Told : Mine(wire[i])}
First(S) == CHOOSE i \in S : \A j \in S : i <= j
Latest(S) == CHOOSE i \in S : \A j \in S : j <= i
Answering == wire[IF Replies # {} THEN First(Replies) ELSE IF Decisive # {} THEN Latest(Decisive) ELSE Latest(Told)]
ParseBody ==
    /\ carrier = "streamable" /\ request # None /\ closed
    /\ IF Told = {} THEN Raise ELSE Take(Answering)
    /\ wire' = <<>>
    /\ UNCHANGED <<kind, carrier, methods, waiting, sent, closed, noise, made>>

\* _handle_sse_event: the answer goes to the future of its id, if there still is one.
Event ==
    /\ carrier = "sse" /\ wire # <<>> /\ outcome = Open
    /\ wire' = Tail(wire)
    /\ IF Head(wire).id \in waiting
       THEN waiting' = waiting \ {Head(wire).id} /\ Take(Head(wire))
       ELSE UNCHANGED <<waiting, request, outcome>>
    /\ UNCHANGED <<kind, carrier, methods, sent, closed, noise, made>>

\* The stream breaks: _fail_pending_requests.  (One that ends well fails nobody: they
\* time out.)
StreamBreaks ==
    /\ carrier = "sse" /\ outcome = Open /\ waiting # {}
    /\ waiting' = {} /\ Raise
    /\ UNCHANGED <<kind, carrier, methods, sent, wire, closed, noise, made>>

----------------------------------------------------------------------------
(* The server. *)

Answer(what) ==
    /\ sent # <<>> /\ ~closed /\ outcome = Open
    /\ wire' = Append(wire, Message(Head(sent).id, IF what = "error" THEN "error" ELSE Head(sent).says))
    /\ sent' = Tail(sent)
    /\ closed' = (carrier = "streamable")
    /\ UNCHANGED <<kind, carrier, methods, request, waiting, noise, outcome, made>>

Speak(m) ==
    /\ noise > 0 /\ ~closed /\ outcome = Open /\ (carrier = "streamable" => sent # <<>>)
    /\ wire' = Append(wire, m) /\ noise' = noise - 1
    /\ UNCHANGED <<kind, carrier, methods, request, waiting, sent, closed, outcome, made>>

\* The response ends without the answer.
Cut ==
    /\ CutBodies /\ carrier = "streamable" /\ sent # <<>> /\ wire # <<>> /\ ~closed
    /\ closed' = TRUE /\ sent' = <<>>
    /\ UNCHANGED <<kind, carrier, methods, request, waiting, wire, noise, outcome, made>>

Leave ==
    /\ carrier = "lines" /\ ~closed /\ outcome = Open
    /\ EarlyExit \/ made > 1 \/ (made = 1 /\ sent = <<>>)
    /\ closed' = TRUE
    /\ UNCHANGED <<kind, carrier, methods, request, waiting, sent, wire, noise, outcome, made>>

Listen == ReadInitialize \/ ReadLine \/ ReadBlind \/ ReadEnd \/ ParseBody \/ Event
Next ==
    \/ Send \/ ReadInitialize \/ Spin \/ ReadLine \/ ReadBlind \/ ReadEnd \/ Timeout
    \/ FallBack \/ Refused \/ ParseBody \/ Event \/ StreamBreaks
    \/ \E what \in {"result", "error"} : Answer(what)
    \/ \E m \in {Garbage, Notification} : Speak(m)
    \/ Cut \/ Leave

\* The session's own steps and the clock.  That the process answers or ends is the
\* assumption a stdio call rests on; nothing of the kind is asked of an HTTP server.
SubprocessSpeaks == carrier = "lines" /\ (Answer("result") \/ Leave)
Fairness == WF_vars(Send) /\ WF_vars(Listen) /\ WF_vars(Timeout) /\ WF_vars(SubprocessSpeaks)
Spec == Init /\ [][Next]_vars /\ Fairness

----------------------------------------------------------------------------
(* Properties. *)

TypeOK ==
    /\ kind \in Sessions /\ carrier \in {"lines", "streamable", "sse"}
    /\ methods \in Seq({"initialize", "tools/list", "tools/call"})
    /\ waiting \subseteq 1..made
    /\ closed \in BOOLEAN /\ noise \in 0..MaxNoise
    /\ outcome.id \in 0..made /\ request.id \in 0..made

\* What a session returns is the server's answer to its last request, not a
\* notification, nor the answer to another request that came in between; and no future
\* outlives the request it was made for.
OwnAnswer ==
    /\ outcome.says \notin {"open", "error", "hung"} => outcome = Message(made, Plan(kind)[Len(Plan(kind))])
    /\ waiting \subseteq {request.id}

\* Every session comes to an end: the tool call it is for has a result or an error.
Undecided == outcome.says \in {"open", "hung"}
SessionsEnd == <>~Undecided
==============================================================================
