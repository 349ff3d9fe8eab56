----------------------------- MODULE ChatStream -----------------------------
(* openai_chat_completion_aggregator.py: the first choice of a stream of    *)
(* chat completion chunks.  A chunk with several fields does what the       *)
(* fields do one after the other, so a chunk here has one field.            *)
EXTENDS ItemEvents, FiniteSets, TLC

ChatText     == <<"text", 1>>
ChatThinking == <<"thinking", 1>>

\* content of a message that has reasoning and nothing else: "[empty]"
Placeholder == 0

\* whole: the arguments received so far parse as JSON
FreshCall == [id |-> FALSE, name |-> FALSE, started |-> FALSE, ended |-> FALSE,
              whole |-> FALSE, args |-> << >>, pending |-> << >>]

\* tools is a dict: index -> the call's aggregator
ChatFresh == [started |-> FALSE, thinking |-> "unseen", text |-> << >>,
              reasoning |-> << >>, tools |-> << >>]

CallAt(a, i) == IF i \in DOMAIN a.tools THEN a.tools[i] ELSE FreshCall

-----------------------------------------------------------------------------
(* What a provider sends: indices in order, the id and the name of a call   *)
(* once and in any chunk, arguments that are one JSON object, ended by the  *)
(* "rest" delta.                                                            *)

ChatToolChunks(a) ==
    {c \in [kind : {"tool"}, index : 1 .. Cardinality(DOMAIN a.tools) + 1,
            id : BOOLEAN, name : BOOLEAN, args : {"none", "part", "rest"}] :
        LET t == CallAt(a, c.index) IN
        /\ c.index \in Slots
        /\ c.id \/ c.name \/ c.args # "none"
        /\ c.id => ~t.id
        /\ c.name => ~t.name
        /\ c.args # "none" => ~t.whole}

ChatChunks(a) ==
    {[kind |-> k] : k \in {"reasoning", "content", "finish"}} \cup ChatToolChunks(a)

-----------------------------------------------------------------------------
\* _end_thinking_if_needed
ThinkingClosed(a) == [a EXCEPT !.thinking = IF @ = "open" THEN "ended" ELSE @]
ThinkingEnd(a, i) == When(a.thinking = "open", <<End(i)>>)

\* _aggregate_reasoning: kept for build() even when it comes too late to show
ChatReasoning(a, p) ==
    [agg |-> [a EXCEPT !.reasoning = Append(@, p),
                       !.thinking = IF @ = "ended" THEN @ ELSE "open"],
     events |-> When(a.thinking = "unseen", <<Start(ChatThinking)>>)
                \o When(a.thinking # "ended", <<Piece(ChatThinking, p)>>)]

ChatContent(a, p) ==
    [agg |-> [ThinkingClosed(a) EXCEPT !.text = Append(@, p)],
     events |-> ThinkingEnd(a, ChatThinking) \o <<Piece(ChatText, p)>>]

\* _ToolCallAggregator.aggregate: deltas are kept back until the id and the
\* name are known, and START is only looked for in a chunk with a function.
ChatCall(a, c, p) ==
    LET item    == <<"tool", c.index>>
        t       == CallAt(a, c.index)
        hasArgs == c.args # "none"
        starts  == /\ ~t.started
                   /\ c.name \/ hasArgs
                   /\ t.id \/ c.id
                   /\ t.name \/ c.name
        started == t.started \/ starts
        whole   == IF hasArgs THEN c.args = "rest" ELSE t.whole
        ends    == whole /\ started /\ ~t.ended
        new     == [id      |-> t.id \/ c.id,
                    name    |-> t.name \/ c.name,
                    started |-> started,
                    ended   |-> t.ended \/ ends,
                    whole   |-> whole,
                    args    |-> t.args \o When(hasArgs, <<p>>),
                    pending |-> IF started THEN << >>
                                ELSE t.pending \o When(hasArgs, <<p>>)]
    IN  [agg |-> [ThinkingClosed(a) EXCEPT !.tools = (c.index :> new) @@ @],
         events |-> ThinkingEnd(a, ChatThinking)
                    \o When(starts, <<Start(item)>> \o Pieces(item, t.pending))
                    \o When(hasArgs /\ started, <<Piece(item, p)>>)
                    \o When(ends, <<End(item)>>)]

\* ensure_ended, for the call at index i
EnsureEnded(t) == [t EXCEPT !.started = @ \/ t.id, !.ended = @ \/ t.started \/ t.id,
                            !.pending = IF t.id THEN << >> ELSE @]
\* a bug: a call that gets its START here does not get its END
EnsuringEventsLate(t, i) ==
    IF t.started THEN When(~t.ended, <<End(<<"tool", i>>)>>)
    ELSE When(t.id, <<Start(<<"tool", i>>)>> \o Pieces(<<"tool", i>>, t.pending))
EnsuringEvents(t, i) ==
    When(~t.started /\ t.id, <<Start(<<"tool", i>>)>> \o Pieces(<<"tool", i>>, t.pending))
    \o When((t.started \/ t.id) /\ ~t.ended, <<End(<<"tool", i>>)>>)

ChatFinish(a) ==
    [agg |-> [ThinkingClosed(a) EXCEPT !.tools = [i \in DOMAIN @ |-> EnsureEnded(@[i])]],
     events |-> ThinkingEnd(a, ChatThinking)
                \o FlattenSeq([i \in DOMAIN a.tools |-> EnsuringEvents(a.tools[i], i)])
                \o <<End(ChatText)>>]

ChatStep(a, c, p) ==
    LET step == CASE c.kind = "reasoning" -> ChatReasoning(a, p)
                  [] c.kind = "content"   -> ChatContent(a, p)
                  [] c.kind = "tool"      -> ChatCall(a, c, p)
                  [] c.kind = "finish"    -> ChatFinish(a)
    IN  [agg |-> [step.agg EXCEPT !.started = TRUE],
         events |-> When(~a.started, <<Start(ChatText)>>) \o step.events]

\* build() raises for a stream with nothing in it and for a call that has no
\* id, no name or no START
ChatFails(a) ==
    \/ a.text = << >> /\ a.reasoning = << >> /\ a.tools = << >>
    \/ \E i \in DOMAIN a.tools :
           ~(a.tools[i].started /\ a.tools[i].id /\ a.tools[i].name)

ChatBuilt(a) ==
    (ChatText :> IF a.text = << >> /\ a.tools = << >> THEN <<Placeholder>> ELSE a.text)
    @@ (ChatThinking :> a.reasoning)
    @@ [i \in {<<"tool", k>> : k \in DOMAIN a.tools} |-> a.tools[i[2]].args]
=============================================================================
