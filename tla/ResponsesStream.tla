-------------------------- MODULE ResponsesStream --------------------------
(* openai_responses_aggregator.py: output items (reasoning, message,        *)
(* function call) added at the end of the output, each with its own         *)
(* aggregator.                                                              *)
EXTENDS ItemEvents, TLC

CONSTANT
    PartsPerItem    \* parts of one reasoning summary or of one message

PartsAssumption == PartsPerItem \in Nat \ {0}

KindOf(type) == CASE type = "reasoning"     -> "thinking"
                  [] type = "message"       -> "text"
                  [] type = "function_call" -> "tool"

\* the aggregators in the order of output_index
ResponsesFresh == [outputs |-> << >>]

\* wire: how far the provider is with the last item
IdleWire == [phase |-> "idle", parts |-> 0]

ResponsesChunks(a, wire) ==
    LET last == IF a.outputs = << >> THEN "none" ELSE a.outputs[Len(a.outputs)].type
        isCall == last = "function_call"
        Sent(kind) ==
            CASE kind = "part_added" -> /\ ~isCall
                                        /\ wire.phase \in {"added", "text_done"}
                                        /\ wire.parts < PartsPerItem
              [] kind = "delta"      -> wire.phase = (IF isCall THEN "added" ELSE "part")
              [] kind = "text_done"  -> wire.phase = (IF isCall THEN "added" ELSE "part")
              [] kind = "item_done"  -> \/ wire.phase = "text_done"
                                        \/ wire.phase = "added" /\ last = "reasoning"
              [] kind = "completed"  -> wire.phase = "idle"
    IN  {[kind |-> k] : k \in {x \in {"part_added", "delta", "text_done",
                                      "item_done", "completed"} : Sent(x)}}
        \cup {c \in [kind : {"item_added"}, type : {"reasoning", "message", "function_call"}] :
                wire.phase = "idle" /\ Len(a.outputs) + 1 \in Slots}

ResponsesWire(wire, c) ==
    CASE c.kind = "item_added" -> [phase |-> "added", parts |-> 0]
      [] c.kind = "part_added" -> [phase |-> "part", parts |-> wire.parts + 1]
      [] c.kind = "text_done"  -> [wire EXCEPT !.phase = "text_done"]
      [] c.kind = "item_done"  -> IdleWire
      [] OTHER                 -> wire

-----------------------------------------------------------------------------
\* Events about an item go to the aggregator registered under its id: here,
\* the last one.
LastItem(a) == <<KindOf(a.outputs[Len(a.outputs)].type), Len(a.outputs)>>
OnLast(a, o) == [a EXCEPT !.outputs[Len(a.outputs)] = o]

\* output_item.added: reasoning and calls START at once, a message with its
\* first content part
ItemAdded(a, type) ==
    LET item == <<KindOf(type), Len(a.outputs) + 1>>
        o    == [type |-> type, started |-> type # "message", ended |-> FALSE, pieces |-> << >>]
    IN  [agg |-> [a EXCEPT !.outputs = Append(@, o)],
         events |-> When(o.started, <<Start(item)>>)]

\* reasoning_summary_part.added, content_part.added
PartAdded(a) ==
    LET o == a.outputs[Len(a.outputs)]
    IN  [agg |-> OnLast(a, [o EXCEPT !.started = TRUE]),
         events |-> When(~o.started, <<Start(LastItem(a))>>)]

\* reasoning_summary_text.delta, output_text.delta, refusal.delta,
\* function_call_arguments.delta
Delta(a, p) ==
    LET o == a.outputs[Len(a.outputs)]
    IN  [agg |-> OnLast(a, [o EXCEPT !.pieces = Append(@, p)]),
         events |-> <<Piece(LastItem(a), p)>>]

\* reasoning_summary_text.done ENDs once (_emit_end_if_needed); output_text.done,
\* refusal.done and function_call_arguments.done END each time.  The final text
\* they carry is the one received.
TextDone(a) ==
    LET o    == a.outputs[Len(a.outputs)]
        ends == o.type = "reasoning" => o.started /\ ~o.ended
    IN  [agg |-> OnLast(a, [o EXCEPT !.ended = TRUE]),
         events |-> When(ends, <<End(LastItem(a))>>)]

\* output_item.done: the server's item, the same as the one received; finish()
\* ENDs a reasoning item that had no text
ItemDone(a) ==
    LET o    == a.outputs[Len(a.outputs)]
        ends == o.type = "reasoning" /\ o.started /\ ~o.ended
    IN  [agg |-> OnLast(a, [o EXCEPT !.ended = @ \/ ends]),
         events |-> When(ends, <<End(LastItem(a))>>)]

ResponsesStep(a, c, p) ==
    CASE c.kind = "item_added" -> ItemAdded(a, c.type)
      [] c.kind = "part_added" -> PartAdded(a)
      [] c.kind = "delta"      -> Delta(a, p)
      [] c.kind = "text_done"  -> TextDone(a)
      [] c.kind = "item_done"  -> ItemDone(a)
      [] c.kind = "completed"  -> [agg |-> a, events |-> << >>]

ResponsesBuilt(a) ==
    [i \in {<<KindOf(a.outputs[k].type), k>> : k \in DOMAIN a.outputs} |->
        a.outputs[i[2]].pieces]
=============================================================================
