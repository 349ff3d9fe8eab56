----------------------------- MODULE Conversation -----------------------------
(***************************************************************************)
(* What the run-action log promises (docs/rfcs/0022, section 6.1): the     *)
(* recorded actions extend, replace and roll back a conversation, one by   *)
(* one and in order.  An UNDO restores the conversation as it was when its *)
(* target run did its first action.                                        *)
(***************************************************************************)
EXTENDS Messages, TLC

VARIABLES
    last,       \* the action recorded last
    conv,       \* the conversation
    snapshot    \* conv before the first action of each run that has acted

Init == conv = <<>> /\ snapshot = <<>>

Reduce(a) ==
    CASE a.type = "APPEND" -> ApplyMessages(conv, a.messages)
      [] a.type = "REPLACE" -> ApplyMessages(<<>>, a.messages)
      [] a.type = "UNDO" /\ a.target \in DOMAIN snapshot -> snapshot[a.target]
      [] OTHER -> conv

Record ==
    /\ conv' = Reduce(last')
    /\ snapshot' = snapshot @@ (last'.run :> conv)

Spec == Init /\ [][Record]_<<last, conv, snapshot>>
=============================================================================
