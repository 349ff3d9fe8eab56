------------------------------- MODULE Messages -------------------------------
(***************************************************************************)
(* Message lists as the run-action service reads and writes them           *)
(* (src/nexau/archs/session/agent_run_action_service.py).                  *)
(*                                                                         *)
(* A message is [id, body, calls, answers, thinking]: the tool_use ids of  *)
(* an assistant message, the tool_use ids a tool message answers, and      *)
(* whether it is an assistant message made of reasoning blocks only.       *)
(* `body` tells two contents under one id apart.  System messages are left *)
(* out: they are filtered before every write and after every read.         *)
(***************************************************************************)
EXTENDS SequencesExt

\* The same sequence, which TLC evaluates once instead of at every access.
Listed(s) == s \o <<>>

\* The elements of s at the positions that pass, in order.
Filter(s, Test(_)) ==
    LET kept == SelectSeq(Listed([i \in DOMAIN s |-> i]), Test)
    IN  Listed([n \in DOMAIN kept |-> s[kept[n]]])

\* The message a fold invents for a call without a result.  Its id is made
\* of the call's, so that folding twice invents the same one.
Synthetic(c) == [id |-> c, body |-> "not completed", calls |-> {}, answers |-> {c}, thinking |-> FALSE]

\* Both the write and the read side drop reasoning-only assistant messages.
WithoutThinking(ms) == SelectSeq(ms, LAMBDA m : ~m.thinking)

\* Messages are applied in order; one whose id is known replaces the older one
\* in its place.
ApplyMessages(ms, new) ==
    LET all == ms \o new
        firsts == Filter(all, LAMBDA i : \A j \in 1..i - 1 : all[j].id # all[i].id)
        Latest(id) == CHOOSE i \in DOMAIN all : all[i].id = id /\ \A j \in i + 1..Len(all) : all[j].id # id
    IN  Listed([n \in DOMAIN firsts |-> all[Latest(firsts[n].id)]])

CallsOf(ms) == UNION {ms[i].calls : i \in DOMAIN ms}
AnswersOf(ms) == UNION {ms[i].answers : i \in DOMAIN ms}

\* The last message that makes call c.
CallerOf(ms, c) == CHOOSE i \in DOMAIN ms :
    /\ c \in ms[i].calls
    /\ \A j \in DOMAIN ms : c \in ms[j].calls => j <= i

\* Seeded defect: only the last message is healed.
PairLastOnly(ms) ==
    LET orphans == IF ms = <<>> THEN {} ELSE Last(ms).calls \ AnswersOf(ms)
    IN  ms \o SetToSeq({Synthetic(c) : c \in orphans})

\* _ensure_tool_use_paired: a synthetic result behind the caller of every call
\* that nothing answers.
EnsurePaired(ms) ==
    LET orphans == CallsOf(ms) \ AnswersOf(ms)
        Behind(i) == {Synthetic(c) : c \in {o \in orphans : CallerOf(ms, o) = i}}
    IN  IF orphans = {} THEN ms ELSE FlattenSeq([i \in DOMAIN ms |-> <<ms[i]>> \o SetToSeq(Behind(i))])
=============================================================================
