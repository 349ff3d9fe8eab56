----------------------------- MODULE ItemEvents -----------------------------
(* The events an aggregator of a model's stream emits, and what a client    *)
(* makes of them.  An item is the text of a message, a thinking block or a  *)
(* tool call; its events carry its id.  A delta is a piece: the wire's n-th *)
(* non-empty delta is the number n, so that pieces are told apart and their *)
(* order is seen.                                                           *)
EXTENDS Naturals, Sequences, SequencesExt

CONSTANT
    MaxItems    \* bound on the items of one kind in a stream

ItemsAssumption == MaxItems \in Nat \ {0}

Slots == 1 .. MaxItems
Items == {"text", "thinking", "tool"} \X Slots

Start(i)    == [item |-> i, kind |-> "start", piece |-> 0]
Piece(i, p) == [item |-> i, kind |-> "piece", piece |-> p]
End(i)      == [item |-> i, kind |-> "end", piece |-> 0]

Pieces(i, ps) == [k \in DOMAIN ps |-> Piece(i, ps[k])]

When(condition, events) == IF condition THEN events ELSE << >>

-----------------------------------------------------------------------------
(* The client: START opens an item, deltas are appended while it is open,   *)
(* END closes it.  An event that does not fit breaks the item.              *)

Unseen == [status |-> "unseen", shown |-> << >>]

NextStatus(status, kind) ==
    CASE status = "unseen" /\ kind = "start" -> "open"
      [] status = "open" /\ kind = "piece"   -> "open"
      [] status = "open" /\ kind = "end"     -> "ended"
      [] OTHER                               -> "broken"

Displayed(view, event) ==
    [view EXCEPT ![event.item] =
        [status |-> NextStatus(@.status, event.kind),
         shown  |-> IF event.kind = "piece" THEN Append(@.shown, event.piece)
                                            ELSE @.shown]]

DisplayAll(view, events) == FoldLeft(Displayed, view, events)
=============================================================================
