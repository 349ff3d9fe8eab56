----------------------------- MODULE TokenTrace -----------------------------
(***************************************************************************)
(* The token trace of an agent whose model is asked with tokens: a buffer  *)
(* that grows with the conversation over turns and runs, a mask that marks *)
(* what the model itself wrote, and a record of every round.  The executor *)
(* keeps the messages; the session only counts how many of them it has     *)
(* turned into tokens, and the two must not drift apart.                   *)
(*                                                                         *)
(* Code: main_sub/token_trace_session.py, call_llm_with_generate_with_     *)
(* token in llm_caller.py, and where Executor.execute_async uses them.     *)
(* A message is one token, its id; token 0 is the generation prompt that   *)
(* the chat template puts after a fragment.                                *)
(***************************************************************************)
EXTENDS Naturals, Sequences, SequencesExt, FiniteSetsExt

CONSTANTS
    MadeBy,         \* "agent" or "executor": who makes the session
    Limit,          \* max_context_tokens of the executor, in tokens
    Extras,         \* where a middleware adds a message: "before_agent", "before_model", "after_model"
    Stops,          \* how a run is stopped: "signal", "before_model", "call"
    Retries,        \* attempts of a model call
    MaxRuns, MaxIterations, MaxMessages,  \* bounds
    MaxFaults       \* bound: failures of the tokenizer

TraceAssumption ==
    /\ MadeBy \in {"agent", "executor"}
    /\ Extras \subseteq {"before_agent", "before_model", "after_model"}
    /\ Stops \subseteq {"signal", "before_model", "call"}
    /\ {Limit, Retries, MaxRuns, MaxIterations, MaxMessages, MaxFaults} \subseteq Nat

VARIABLES
    history,    \* the agent's HistoryList
    messages,   \* the executor's working copy, during a run
    queue,      \* queued_messages
    session,    \* the TokenTraceSession, or NoSession
    phase,      \* where the run is: "idle", "loop", "ask", "tools", "over"
    attempt, iteration,
    ended,      \* how the last run ended: "done", "stopped", "limit", "error", "escaped"
    unseen,     \* ids of the messages a run's end has passed over (history variable)
    uncounted,  \* a middleware has added a message beside tool calls (history variable)
    created, runs, faults

traceVars == <<history, messages, queue, session, phase, attempt, iteration, ended, unseen, uncounted,
    created, runs, faults>>

NoLimit == 1000
Lucky == 9

NoSession == [tokens |-> <<>>, mask |-> <<>>, synced |-> 0, pending |-> <<>>, rounds |-> <<>>,
              limit |-> 0, luck |-> 0, failed |-> "none"]

\* A session as Agent makes it, without a limit, or Executor._prepare_async_execution.
\* `luck` counts the tokenizations that succeed before one fails; `failed` is the exception.
NewSession ==
    [NoSession EXCEPT !.limit = IF MadeBy = "agent" THEN NoLimit ELSE Limit, !.luck = Lucky]

Message(id, role) == [id |-> id, role |-> role]
IdsOf(ms) == [i \in DOMAIN ms |-> ms[i].id]

Init ==
    /\ history = <<>> /\ messages = <<>> /\ queue = <<>> /\ session = NoSession
    /\ phase = "idle" /\ attempt = 0 /\ iteration = 0 /\ ended = "done"
    /\ unseen = {} /\ uncounted = FALSE
    /\ created = 0 /\ runs = 0 /\ faults = 0

-----------------------------------------------------------------------------
(* The session.  A failed operation leaves what it had done before. *)

\* _assert_within_context_limit.
Room(s, n) == Len(s.tokens) + n <= s.limit

\* _append_tokens.
Extended(s, tokens, mark) ==
    IF ~Room(s, Len(tokens)) THEN [s EXCEPT !.failed = "limit"]
    ELSE [s EXCEPT !.tokens = @ \o tokens, !.mask = @ \o [i \in DOMAIN tokens |-> mark]]

\* tokenize_messages with a generation prompt at the end, and _append_tokens.
Tokenized(s, ms) ==
    IF ms = <<>> \/ s.failed # "none" THEN s
    ELSE IF s.luck = 0 THEN [s EXCEPT !.failed = "error", !.luck = Lucky]
    ELSE Extended([s EXCEPT !.luck = @ - 1], Append(IdsOf(ms), 0), 0)

\* initialize_from_messages.
Initialized(s, ms) ==
    LET t == Tokenized(s, ms)
    IN  IF s.synced > 0 THEN s
        ELSE IF t.failed # "none" THEN t ELSE [t EXCEPT !.synced = Len(ms)]

\* _flush_pending_tool_messages.
Flushed(s) ==
    LET t == Tokenized(s, s.pending)
    IN  IF t.failed # "none" THEN t ELSE [t EXCEPT !.pending = <<>>]

\* _split_trailing_tool_messages: the length of the part before the trailing tool results.
Settled(ms) ==
    Min({n \in 0..Len(ms) : \A i \in (n + 1)..Len(ms) : ms[i].role = "tool"})

\* Seeded defect: messages handed over by the executor itself are not counted.
AddedUncounted(s, ms) ==
    LET all == s.pending \o ms
        t == Tokenized(s, SubSeq(all, 1, Settled(all)))
    IN  IF t.failed # "none" THEN t ELSE [t EXCEPT !.pending = SubSeq(all, Settled(all) + 1, Len(all))]

\* append_messages of messages the model has not written.
Added(s, ms) ==
    LET all == s.pending \o ms
        cut == Settled(all)
        t == Tokenized(s, SubSeq(all, 1, cut))
    IN  IF s.failed # "none" \/ t.failed # "none" THEN t
        ELSE IF cut = 0 /\ ~Room(s, Len(all) + 1) THEN [s EXCEPT !.failed = "limit"]
        ELSE [t EXCEPT !.pending = SubSeq(all, cut + 1, Len(all)), !.synced = @ + Len(ms)]

\* sync_external_messages.
Synced(s, ms) ==
    LET new == SubSeq(ms, s.synced + 1, Len(ms))
    IN  IF Len(ms) <= s.synced THEN Flushed(s)
        ELSE IF \E i \in DOMAIN new : new[i].role = "assistant" THEN [s EXCEPT !.failed = "error"]
        ELSE Flushed(Added(s, new))

\* append_model_response: the tokens the backend reports, or else those of the text, which the
\* tokenizer has to make.
Answered(s, m, reported) ==
    LET t == Flushed(s)
        u == IF t.failed = "none" /\ ~reported /\ t.luck = 0 THEN [t EXCEPT !.failed = "error"]
             ELSE IF t.failed # "none" THEN t ELSE Extended(t, <<m.id>>, 1)
    IN  IF u.failed # "none" THEN u ELSE [u EXCEPT !.synced = @ + 1]

\* build_generate_with_token_kwargs: the request is the whole buffer.
Request(s) == Flushed(s).tokens

\* _extract_generate_with_token_nexrl_train: the tokens of the reply, if the backend tells them.
Response(m, reported) == IF reported THEN <<m.id>> ELSE <<>>

\* record_round; `asked` are the messages of the call (history variable).
Recorded(s, ms, response) ==
    [s EXCEPT !.rounds = Append(@, [request |-> Request(s), response |-> response, asked |-> IdsOf(ms)])]

-----------------------------------------------------------------------------
(* A run *)

\* The tokenizations of a step: all succeed, or after some of them one fails.
Chance == {Lucky} \cup (IF faults < MaxFaults THEN 0..1 ELSE {})
Took(luck) == faults' = faults + (IF luck = Lucky THEN 0 ELSE 1)
With(s, luck) == [s EXCEPT !.luck = luck]
Calm(s) == [s EXCEPT !.luck = Lucky, !.failed = "none"]

\* How a run ends, whatever ended it: the history takes the working copy, the trace is exported
\* (which flushes it) and the session is taken to have seen every message.  When the export
\* fails in the handler of the exception and once more in `finally`, that exception escapes.
Finish(s, ms, how) ==
    LET once == Flushed([s EXCEPT !.failed = "none"])
        again == IF once.failed = "none" THEN once ELSE Flushed([once EXCEPT !.failed = "none"])
    IN  /\ history' = ms /\ messages' = <<>> /\ phase' = "idle"
        /\ session' = Calm(IF again.failed = "none" THEN [again EXCEPT !.synced = Len(ms)] ELSE again)
        /\ unseen' = unseen \cup
               (IF again.failed = "none" THEN {ms[i].id : i \in (again.synced + 1)..Len(ms)} ELSE {})
        /\ ended' = (IF again.failed # "none" THEN "escaped" ELSE IF once.failed = "error" THEN "error" ELSE how)

\* The exception of a failed operation reaches execute_async.
Raised(s, ms) == Finish(s, ms, IF s.failed = "limit" THEN "limit" ELSE "error")

Proceed(s, ms, to) == session' = Calm(s) /\ messages' = ms /\ phase' = to /\ UNCHANGED <<history, ended, unseen>>

New(n) == created + n <= MaxMessages /\ created' = created + n

\* The messages as the middlewares of `place` return them.
Returned(place, ms, id) ==
    {ms} \cup (IF place \in Extras THEN {Append(ms, Message(id, "user"))} ELSE {})

\* Agent.run and _prepare_async_execution: the user's message joins the history, the session is
\* initialized or told what is new, then the before_agent middlewares run.
Start ==
    /\ phase = "idle" /\ runs < MaxRuns /\ runs' = runs + 1 /\ iteration' = 0 /\ attempt' = 0
    /\ \E luck \in Chance :
        LET ms == Append(history, Message(created + 1, "user"))
            s == With(IF session = NoSession THEN NewSession ELSE session, luck)
            told == Initialized(s, ms)
            t == IF told.failed # "none" THEN told ELSE Synced(told, ms)
        IN  /\ Took(luck)
            /\ IF t.failed # "none" THEN New(1) /\ Raised(t, ms)
               ELSE \E with \in Returned("before_agent", ms, created + 2) :
                       New(1 + Len(with) - Len(ms)) /\ Proceed(t, with, "loop")
    /\ UNCHANGED <<queue, uncounted>>

\* The head of the loop: a stop, the limit of iterations, or the queued messages and the
\* before_model middlewares, which may end the run.
Turn ==
    /\ phase = "loop" /\ UNCHANGED <<uncounted, runs, iteration, faults>> /\ attempt' = 0
    /\ \/ /\ "signal" \in Stops \/ iteration = MaxIterations
          /\ Finish(session, messages, IF iteration = MaxIterations THEN "done" ELSE "stopped")
          /\ UNCHANGED <<queue, created>>
       \/ /\ iteration < MaxIterations /\ queue' = <<>>
          /\ \E ms \in Returned("before_model", messages \o queue, created + 1) :
                /\ New(Len(ms) - Len(messages \o queue))
                /\ \/ Proceed(session, ms, "ask")
                   \/ "before_model" \in Stops /\ Finish(session, ms, "stopped")

\* One attempt of the model call (call_llm_with_generate_with_token): the session catches up,
\* its tokens are the request, the reply is recorded; an empty reply or an exception is retried.
\* A stop may find the call before or after that.
Ask ==
    /\ phase = "ask" /\ UNCHANGED <<queue, uncounted, runs, iteration>>
    /\ \/ \E luck \in Chance, reply \in {"text", "call", "empty"}, reported \in BOOLEAN :
          LET s == Synced(With(session, luck), messages)
              m == Message(created + 1, "assistant")
              asked == Recorded(s, messages, Response(m, reported /\ reply # "empty"))
              t == Answered(asked, m, reported)
              ms == Append(messages, m)
          IN  /\ Took(luck)
              /\ IF s.failed # "none" \/ reply = "empty"
                 THEN /\ attempt' = attempt + 1 /\ UNCHANGED created
                      /\ LET left == IF s.failed # "none" THEN s ELSE asked
                         IN  IF attempt + 1 < Retries THEN Proceed(left, messages, "ask")
                             ELSE Raised(left, messages)
                 ELSE /\ attempt' = 0 /\ New(1)
                      /\ IF t.failed # "none" THEN Raised(t, ms)
                         ELSE Proceed(t, ms, IF reply = "call" THEN "tools" ELSE "over")
       \/ /\ "call" \in Stops /\ UNCHANGED <<attempt, created, faults>>
          /\ \E s \in {session, Synced(session, messages)} : Finish(s, messages, "stopped")

\* The tool calls of a reply: their results, one message each or one of the user's with all
\* of them, go to the messages and to the session.
Tools ==
    /\ phase = "tools" /\ iteration' = iteration + 1 /\ UNCHANGED <<queue, runs, attempt>>
    /\ \E luck \in Chance, role \in {"tool", "user"}, n \in 1..2 :
        \E with \in Returned("after_model", messages, created + 1) :
            LET extra == Len(with) - Len(messages)
                results == [i \in 1..(IF role = "user" THEN 1 ELSE n) |->
                               Message(created + i + extra, role)]
                s == Added(With(session, luck), results)
            IN  /\ Took(luck) /\ New(Len(results) + extra) /\ uncounted' = (uncounted \/ extra > 0)
                /\ IF s.failed # "none" THEN Raised(s, with \o results)
                   ELSE Proceed(s, with \o results, "loop")

\* A reply without calls ends the run, unless a message has been queued meanwhile.
Over ==
    /\ phase = "over" /\ UNCHANGED <<queue, uncounted, created, runs, attempt, faults>>
    /\ IF queue = <<>> THEN Finish(session, messages, "done") /\ UNCHANGED iteration
       ELSE Proceed(session, messages, "loop") /\ iteration' = iteration + 1

\* Executor.enqueue_message, while a run is under way.
Enqueue ==
    /\ phase # "idle" /\ New(1) /\ queue' = Append(queue, Message(created + 1, "user"))
    /\ UNCHANGED <<history, messages, session, phase, attempt, iteration, ended, unseen, uncounted, runs, faults>>

Next == Start \/ Turn \/ Ask \/ Tools \/ Over \/ Enqueue

Spec == Init /\ [][Next]_traceVars

-----------------------------------------------------------------------------
(* Properties *)

TypeOK ==
    /\ phase \in {"idle", "loop", "ask", "tools", "over"}
    /\ Len(session.mask) = Len(session.tokens)
    /\ session.failed = "none" /\ created <= MaxMessages

\* What a request reads, generation prompts apart.
Read(r) == SelectSeq(r.request, LAMBDA t : t # 0)

\* Every request of the model reads the messages of that moment, each of them once and in their
\* order, but for those that the end of an earlier run has passed over.
AsksWhole ==
    \A i \in DOMAIN session.rounds :
        Read(session.rounds[i]) = SelectSeq(session.rounds[i].asked, LAMBDA id : id \notin unseen)

\* What the mask calls the model's own is the answer to a recorded request: all the tokens
\* before it, and nothing else.
AnswersHaveRounds ==
    \A i \in DOMAIN session.tokens : session.mask[i] = 1 =>
        \E k \in DOMAIN session.rounds : session.rounds[k].request = SubSeq(session.tokens, 1, i - 1)

\* The trace that is kept for training tells what the model was asked and what it said
\* (sync_external_messages, append_messages, append_model_response, record_round), until a
\* middleware adds a message beside the results of tool calls: these alone are counted.
TraceIsTrue == (uncounted \/ AsksWhole) /\ AnswersHaveRounds

\* What the trace should tell without exception.  A message that a run's end passes over is never
\* read (ReadsAll), and behind a message added beside tool calls a result is read twice
\* (ReadsOnce).
ReadsAll == uncounted \/ \A i \in DOMAIN session.rounds : Read(session.rounds[i]) = session.rounds[i].asked
ReadsOnce == \A i \in DOMAIN session.rounds : IsInjective(Read(session.rounds[i]))

\* The trace stays within the limit of the context (RFC-0009: appending past it ends the run).
WithinLimit == Len(session.tokens) <= Limit
=============================================================================
