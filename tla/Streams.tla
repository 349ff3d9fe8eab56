------------------------------- MODULE Streams -------------------------------
(* A streamed model call: the provider sends chunks, llm_caller feeds them  *)
(* to the vendor's aggregator, whose events reach the client while the      *)
(* stream runs and whose build() is the message the agent goes on with.     *)
EXTENDS ChatStream, AnthropicStream, GeminiStream, ResponsesStream

CONSTANTS
    Vendors,    \* the vendors among "chat", "anthropic", "gemini", "responses"
    MaxPieces   \* bound on the deltas of a stream

StreamsAssumption ==
    /\ Vendors \subseteq {"chat", "anthropic", "gemini", "responses"}
    /\ MaxPieces \in Nat

VARIABLES
    vendor,     \* whose stream this is
    agg,        \* the aggregator
    wire,       \* how far the provider is with the block or item it sends
    view,       \* what the client has made of the events
    sent,       \* deltas sent
    stage       \* "streaming"; "finished" by the provider; "cut" short

vars == <<vendor, agg, wire, view, sent, stage>>

Init ==
    /\ vendor \in Vendors
    /\ agg = CASE vendor = "chat"      -> ChatFresh
               [] vendor = "anthropic" -> AnthropicFresh
               [] vendor = "gemini"    -> GeminiFresh
               [] vendor = "responses" -> ResponsesFresh
    /\ wire = IF vendor = "anthropic" THEN NoBlock(1) ELSE IdleWire
    /\ view = [i \in Items |-> Unseen]
    /\ sent = 0
    /\ stage = "streaming"

CarriesPiece(c) ==
    \/ c.kind \in {"reasoning", "content", "text", "thought", "call", "delta"}
    \/ c.kind = "tool" /\ c.args # "none"

\* One turn of the caller's loop: aggregate(chunk) changes the aggregator and
\* emits its events.
Feed(chunk, step) ==
    /\ stage = "streaming"
    /\ sent' = sent + (IF CarriesPiece(chunk) THEN 1 ELSE 0)
    /\ sent' <= MaxPieces
    /\ agg' = step.agg
    /\ view' = DisplayAll(view, step.events)
    /\ stage' = IF chunk.kind \in {"finish", "message_stop", "completed"}
                THEN "finished" ELSE "streaming"
    /\ UNCHANGED vendor

ChatChunk ==
    /\ vendor = "chat"
    /\ \E c \in ChatChunks(agg) : Feed(c, ChatStep(agg, c, sent + 1))
    /\ UNCHANGED wire

AnthropicChunk ==
    /\ vendor = "anthropic"
    /\ \E c \in AnthropicChunks(agg, wire) :
        /\ Feed(c, AnthropicStep(agg, c, wire.index, sent + 1))
        /\ wire' = AnthropicWire(wire, c)

GeminiChunk ==
    /\ vendor = "gemini"
    /\ \E c \in GeminiChunks(agg) : Feed(c, GeminiStep(agg, c, sent + 1))
    /\ UNCHANGED wire

ResponsesChunk ==
    /\ vendor = "responses"
    /\ \E c \in ResponsesChunks(agg, wire) :
        /\ Feed(c, ResponsesStep(agg, c, sent + 1))
        /\ wire' = ResponsesWire(wire, c)

\* The loop breaks on the shutdown event, or the connection ends without an
\* error: build() is called on what there is.
Cut ==
    /\ stage = "streaming"
    /\ stage' = "cut"
    /\ UNCHANGED <<vendor, agg, wire, view, sent>>

Next == ChatChunk \/ AnthropicChunk \/ GeminiChunk \/ ResponsesChunk \/ Cut

Spec == Init /\ [][Next]_vars

-----------------------------------------------------------------------------
\* build(): item -> its pieces; fails where the code raises
Fails == vendor = "chat" /\ ChatFails(agg)

Built == CASE vendor = "chat"      -> ChatBuilt(agg)
           [] vendor = "anthropic" -> AnthropicBuilt(agg)
           [] vendor = "gemini"    -> GeminiBuilt(agg)
           [] vendor = "responses" -> ResponsesBuilt(agg)

BuiltPieces(i) ==
    IF i \in DOMAIN Built THEN SelectSeq(Built[i], LAMBDA p : p # Placeholder) ELSE << >>

Tools(items) == {i \in items : i[1] = "tool"}
Seen         == {i \in Items : view[i].status # "unseen"}

(* The type of what the client holds: every item is unseen, open or ended,  *)
(* and shows deltas that were sent, each once, in the order they were sent. *)
(* So the events of an item are START, deltas, END, whatever order the ids, *)
(* names, arguments and blocks arrive in (the event sequences of            *)
(* docs/advanced-guides/streaming-events.md).                               *)
StartDeltasEnd ==
    \A i \in Items :
        LET shown == view[i].shown IN
        /\ view[i].status \in {"unseen", "open", "ended"}
        /\ \A k \in DOMAIN shown : /\ shown[k] \in 1 .. sent
                                    /\ \A j \in 1 .. k - 1 : shown[j] < shown[k]

(* When the provider has finished, nothing the client was shown is left     *)
(* open: thinking that no text follows, calls without arguments or without  *)
(* a name, blocks that were never stopped are all ended.                    *)
NothingLeftOpen == stage = "finished" => \A i \in Items : view[i].status # "open"

(* The message the agent goes on with is the one the client was shown:      *)
(* the same calls with the same arguments, the same text, in the same       *)
(* order, also where deltas were kept back.  Two exceptions the code makes: *)
(* reasoning that comes after it was ended is kept but not shown, and a     *)
(* call whose block never started is shown but not built.  A stream cut     *)
(* short builds nothing that was not shown.                                 *)
BuiltAsShown ==
    ~Fails /\ stage # "streaming" =>
        /\ Tools(DOMAIN Built) \subseteq Seen
        /\ \A i \in Items :
            IF i[1] = "thinking" /\ vendor = "chat"
            THEN IsPrefix(view[i].shown, BuiltPieces(i))
            ELSE IsPrefix(BuiltPieces(i), view[i].shown)
        /\ stage = "finished" =>
            \A i \in Seen \ (IF vendor = "anthropic" THEN Synthetic(agg) ELSE {}) :
                /\ i[1] = "tool" => i \in DOMAIN Built
                /\ i[1] # "thinking" => view[i].shown = BuiltPieces(i)
=============================================================================
