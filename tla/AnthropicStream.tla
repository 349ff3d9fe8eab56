-------------------------- MODULE AnthropicStream --------------------------
(* anthropic_event_aggregator.py: content blocks told apart by their index. *)
(* redacted_thinking is a thinking block without deltas, server_tool_use a  *)
(* tool block.                                                              *)
EXTENDS ItemEvents, TLC

AnthropicText == <<"text", 1>>

\* started: _started; type, tool, toolEnded, args, pending, active are dicts
\* from the index; completed is _completed_payloads.
AnthropicFresh ==
    [started |-> FALSE, type |-> << >>, tool |-> << >>, toolEnded |-> {},
     thinking |-> {}, args |-> << >>, pending |-> << >>, active |-> << >>,
     completed |-> << >>]

Without(dict, i) == [j \in DOMAIN dict \ {i} |-> dict[j]]
ItemAt(type, i)  == IF type = "text" THEN AnthropicText ELSE <<type, i>>

-----------------------------------------------------------------------------
(* What a provider sends: one block after the other.  Its deltas may come   *)
(* before its start (eager_input_streaming); the start or the stop of a     *)
(* text or tool block may be missing.  A thinking block always has its      *)
(* stop, and no start once a delta of it came early.  wire is the block     *)
(* being sent: its index, its type and how far it is.                       *)

NoBlock(i) == [index |-> i, type |-> "none", phase |-> "idle"]

AnthropicChunks(a, wire) ==
    IF ~a.started THEN {[kind |-> "message_start"]} ELSE
        {c \in [kind : {"start", "delta"}, type : {"text", "thinking", "tool"}] :
            /\ wire.index \in Slots
            /\ wire.type \in {"none", c.type}
            /\ c.kind = "start" => \/ wire.phase = "idle"
                                   \/ wire.phase = "early" /\ c.type # "thinking"}
        \cup {c \in {[kind |-> "stop"]} : wire.phase # "idle"}
        \cup {c \in {[kind |-> "message_stop"]} : wire.type # "thinking"}

AnthropicWire(wire, c) ==
    CASE c.kind = "start" -> [wire EXCEPT !.type = c.type, !.phase = "started"]
      [] c.kind = "delta" -> [wire EXCEPT !.type = c.type,
                                          !.phase = IF @ = "idle" THEN "early" ELSE @]
      [] c.kind = "stop"  -> NoBlock(wire.index + 1)
      [] OTHER            -> wire

-----------------------------------------------------------------------------
\* _seal_active_payload: the arguments of a tool are taken from its buffer
Sealed(a, i) ==
    LET block == a.active[i]
        full  == IF block.item[1] = "tool" THEN [block EXCEPT !.pieces = a.args[i]] ELSE block
    IN  IF i \notin DOMAIN a.active THEN a
        ELSE [a EXCEPT !.active = Without(@, i), !.completed = Append(@, full)]

\* a bug: the fragments that came early are shown but not added to the arguments
RegisteredShort(a, i, id) ==
    [a EXCEPT !.tool = (i :> id) @@ @, !.args = (i :> << >>) @@ @, !.pending = Without(@, i)]

\* _register_tool_and_flush
Registered(a, i, id) ==
    LET early == IF i \in DOMAIN a.pending THEN a.pending[i] ELSE << >>
        held  == IF i \in DOMAIN a.args THEN a.args[i] ELSE << >>
    IN  [a EXCEPT !.tool = (i :> id) @@ @, !.args = (i :> held \o early) @@ @,
                  !.pending = Without(@, i)]
RegisterEvents(a, i) ==
    <<Start(<<"tool", i>>)>>
    \o (IF i \in DOMAIN a.pending THEN Pieces(<<"tool", i>>, a.pending[i]) ELSE << >>)

\* _handle_content_block_start: a payload left at this index is completed first
BlockStart(a, i, type) ==
    LET typed == [a EXCEPT !.type = (i :> type) @@ @,
                           !.completed = @ \o (IF i \in DOMAIN a.active
                                               THEN <<a.active[i]>> ELSE << >>),
                           !.active = Without(@, i)]
        opened == [typed EXCEPT !.active = (i :> [item |-> ItemAt(type, i), pieces |-> << >>]) @@ @]
    IN  CASE type = "tool"     -> [agg |-> Registered(opened, i, "real"),
                                   events |-> RegisterEvents(a, i)]
          [] type = "thinking" -> [agg |-> [opened EXCEPT !.thinking = @ \cup {i}],
                                   events |-> <<Start(ItemAt(type, i))>>]
          [] type = "text"     -> [agg |-> typed, events |-> << >>]

\* the payload of the block at i, with one more piece: made here when the
\* block has none yet
Grown(a, i, type, p) ==
    LET item == ItemAt(type, i)
        old  == IF i \in DOMAIN a.active /\ a.active[i].item = item
                THEN a.active[i].pieces ELSE << >>
    IN  [a EXCEPT !.active = (i :> [item |-> item, pieces |-> Append(old, p)]) @@ @]

BlockDelta(a, i, type, p) ==
    LET item  == ItemAt(type, i)
        early == IF i \in DOMAIN a.pending THEN a.pending[i] ELSE << >>
        typed == [a EXCEPT !.type = IF i \in DOMAIN @ /\ type = "text" THEN @
                                    ELSE (i :> type) @@ @]
    IN  CASE type = "text" ->
               [agg |-> Grown(typed, i, type, p), events |-> <<Piece(item, p)>>]
          [] type = "tool" /\ i \in DOMAIN a.tool ->
               [agg |-> [a EXCEPT !.args[i] = Append(@, p)], events |-> <<Piece(item, p)>>]
          [] type = "tool" /\ i \notin DOMAIN a.tool ->
               [agg |-> [a EXCEPT !.pending = (i :> Append(early, p)) @@ @], events |-> << >>]
          [] type = "thinking" /\ i \in a.thinking ->
               [agg |-> Grown(a, i, type, p), events |-> <<Piece(item, p)>>]
          [] type = "thinking" /\ i \notin a.thinking ->
               [agg |-> Grown([typed EXCEPT !.thinking = @ \cup {i}], i, type, p),
                events |-> <<Start(item), Piece(item, p)>>]

\* a tool whose start never came is flushed under a synthetic id
Flushed(a, i)      == IF i \in DOMAIN a.pending THEN Registered(a, i, "synthetic") ELSE a
FlushEvents(a, i)  == When(i \in DOMAIN a.pending, RegisterEvents(a, i))
\* a bug: message_stop ends the tools that their own stop has ended
ToolEndAgain(a, i) == When(i \in DOMAIN a.tool, <<End(<<"tool", i>>)>>)
ToolEnd(a, i)      == When(i \in DOMAIN a.tool /\ i \notin a.toolEnded, <<End(<<"tool", i>>)>>)

\* _handle_content_block_stop
BlockStop(a, i) ==
    LET flushed == Flushed(a, i)
        type    == IF i \in DOMAIN a.type THEN a.type[i] ELSE "none"
        isTool  == type = "tool" \/ (type = "none" /\ i \in DOMAIN flushed.tool)
        ended   == [flushed EXCEPT !.toolEnded = IF isTool THEN @ \cup {i} ELSE @]
    IN  [agg |-> Sealed(ended, i),
         events |-> FlushEvents(a, i)
                    \o When(isTool, ToolEnd(flushed, i))
                    \o When(type = "thinking", <<End(<<"thinking", i>>)>>)]

\* _handle_message_stop
MessageStop(a) ==
    LET order   == SetToSortSeq(Slots, <)
        flushed == FoldLeft(Flushed, a, order)
        ended   == [flushed EXCEPT !.toolEnded = @ \cup DOMAIN flushed.tool]
    IN  [agg |-> FoldLeft(Sealed, ended, order),
         events |-> FlattenSeq([i \in DOMAIN order |-> FlushEvents(a, order[i])])
                    \o FlattenSeq([i \in DOMAIN order |-> ToolEnd(flushed, order[i])])
                    \o <<End(AnthropicText)>>]

AnthropicStep(a, c, i, p) ==
    CASE c.kind = "message_start" -> [agg |-> [a EXCEPT !.started = TRUE],
                                      events |-> <<Start(AnthropicText)>>]
      [] c.kind = "start"         -> BlockStart(a, i, c.type)
      [] c.kind = "delta"         -> BlockDelta(a, i, c.type, p)
      [] c.kind = "stop"          -> BlockStop(a, i)
      [] c.kind = "message_stop"  -> MessageStop(a)

\* tools whose START carries a synthetic id: build() does not know them
Synthetic(a) == {<<"tool", i>> : i \in {j \in DOMAIN a.tool : a.tool[j] = "synthetic"}}

\* _construct_message: the completed payloads, and no others
AnthropicBuilt(a) ==
    LET blocks(i) == SelectSeq(a.completed, LAMBDA b : b.item = i)
    IN  [i \in {b.item : b \in Range(a.completed)} |->
            FlattenSeq([k \in DOMAIN blocks(i) |-> blocks(i)[k].pieces])]
=============================================================================
