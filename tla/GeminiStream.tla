---------------------------- MODULE GeminiStream ----------------------------
(* gemini_rest_event_aggregator.py: parts of text, thoughts and complete    *)
(* function calls.  A chunk with several parts does what they do one after  *)
(* the other, so a chunk here has one part or only the finish reason.       *)
EXTENDS ItemEvents, TLC

GeminiText     == <<"text", 1>>
GeminiThinking == <<"thinking", 1>>

GeminiFresh == [started |-> FALSE, thinking |-> "unseen", text |-> << >>,
                reasoning |-> << >>, calls |-> << >>]

\* Thoughts come before the text and the calls that close them.
GeminiChunks(a) ==
    {[kind |-> k] : k \in {"text", "finish"}}
    \cup {c \in {[kind |-> "thought"]} : a.thinking # "ended"}
    \cup {c \in {[kind |-> "call"]} : Len(a.calls) + 1 \in Slots}

\* _close_thinking_if_open
CloseThinking(a)  == [a EXCEPT !.thinking = IF @ = "open" THEN "ended" ELSE @]
CloseEvents(a)    == When(a.thinking = "open", <<End(GeminiThinking)>>)
EnsureStarted(a)  == When(~a.started, <<Start(GeminiText)>>)

TextPart(a, p) ==
    [agg |-> [CloseThinking(a) EXCEPT !.started = TRUE, !.text = Append(@, p)],
     events |-> EnsureStarted(a) \o CloseEvents(a) \o <<Piece(GeminiText, p)>>]

ThinkingPart(a, p) ==
    [agg |-> [a EXCEPT !.started = TRUE, !.reasoning = Append(@, p),
                       !.thinking = IF @ = "unseen" THEN "open" ELSE @],
     events |-> EnsureStarted(a)
                \o When(a.thinking = "unseen", <<Start(GeminiThinking)>>)
                \o <<Piece(GeminiThinking, p)>>]

FunctionCallPart(a, p) ==
    LET item == <<"tool", Len(a.calls) + 1>>
    IN  [agg |-> [CloseThinking(a) EXCEPT !.started = TRUE, !.calls = Append(@, p)],
         events |-> EnsureStarted(a) \o CloseEvents(a)
                    \o <<Start(item), Piece(item, p), End(item)>>]

GeminiFinish(a) ==
    [agg |-> CloseThinking(a),
     events |-> CloseEvents(a) \o When(a.started, <<End(GeminiText)>>)]

GeminiStep(a, c, p) ==
    CASE c.kind = "text"    -> TextPart(a, p)
      [] c.kind = "thought" -> ThinkingPart(a, p)
      [] c.kind = "call"    -> FunctionCallPart(a, p)
      [] c.kind = "finish"  -> GeminiFinish(a)

GeminiBuilt(a) ==
    (GeminiText :> a.text) @@ (GeminiThinking :> a.reasoning)
    @@ [i \in {<<"tool", k>> : k \in DOMAIN a.calls} |-> <<a.calls[i[2]]>>]
=============================================================================
