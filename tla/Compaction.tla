------------------------------ MODULE Compaction ------------------------------
(***************************************************************************)
(* Context compaction: what ContextCompactionMiddleware does to the        *)
(* messages of a conversation before a model call, behind it, and when the *)
(* provider refuses the prompt as too long                                 *)
(* (src/nexau/archs/main_sub/execution/middleware/context_compaction).     *)
(*                                                                         *)
(* Tokens are left out: whether a trigger fires, where the emergency       *)
(* strategy cuts and how much of a segment it truncates are choices.  A    *)
(* message is numbered as it comes into being; a summary covers the        *)
(* numbers of the messages it was made from, and what they covered.        *)
(***************************************************************************)
EXTENDS SequencesExt, Integers

CONSTANTS
    Configs,      \* [strategy, unit, keep] of the middlewares in question
    MaxCalls,     \* bound on the tool calls of one answer
    Compactable,  \* the calls, by their place in an answer, of compactable_tools
    MaxMessages   \* bound on the messages created

CompactionAssumption ==
    /\ Configs \subseteq [strategy : {"llm_summary", "tool_result"},
                          unit : {"iterations", "user_rounds"}, keep : Nat \ {0}]
    /\ MaxCalls \in Nat /\ Compactable \subseteq 1..MaxCalls /\ MaxMessages \in Nat

VARIABLES
    config,     \* the middleware's configuration
    msgs,       \* the conversation: the history and the executor's working messages
    phase,      \* idle, before, call, retry, after, tools
    created,    \* number of messages created
    archive,    \* the messages whose text is in the transcript of the archive
    dropped,    \* calls whose results an interruption threw away
    given,      \* history: what the last compaction gave to the summarising model
    lossy       \* history: some summary left out part of what it stands for

vars == <<config, msgs, phase, created, archive, dropped, given, lossy>>

Message(id, role) ==
    [id |-> id, role |-> role, calls |-> {}, answers |-> {}, covers |-> {}, verbatim |-> TRUE]

Ids(ms) == {ms[i].id : i \in DOMAIN ms}
Known(ms) == Ids(ms) \cup UNION {ms[i].covers : i \in DOMAIN ms}
Final(m) == m.role = "assistant" /\ m.calls = {}
At(ms, kept) == [n \in 1..Cardinality(kept) |-> ms[SetToSortSeq(kept, <)[n]]] \o <<>>

Init ==
    /\ config \in Configs
    /\ msgs = <<Message(1, "system")>> /\ created = 1
    /\ phase = "idle" /\ archive = {} /\ dropped = {} /\ given = {} /\ lossy = FALSE

------------------------------------------------------------------------------
(* Grouping: the positions at which a group starts *)

\* Seeded defect: a result starts an iteration of its own.
IterationStartsAtResults(ms) == {i \in DOMAIN ms : i = 1 \/ ms[i].role \in {"assistant", "tool"}}

\* An assistant message starts an iteration, which takes along the user and
\* framework messages right before it.
IterationStarts(ms) ==
    {i \in DOMAIN ms :
        \/ i = 1
        \/ /\ ms[i - 1].role \notin {"user", "framework"}
           /\ \E j \in i..Len(ms) : /\ ms[j].role = "assistant"
                                    /\ \A k \in i..j - 1 : ms[k].role \in {"user", "framework"}}

\* A user round ends with an answer that calls nothing.
RoundStarts(ms) == {i \in DOMAIN ms : i = 1 \/ Final(ms[i - 1])}

\* The place from which on a strategy keeps the groups: 1 when there are no more
\* than it keeps.  The system message belongs to no group.
KeptFrom(ms, unit, keep) ==
    LET rest == Tail(ms)
        starts == IF unit = "user_rounds" THEN RoundStarts(rest) ELSE IterationStarts(rest)
    IN  IF Cardinality(starts) <= keep THEN 2
        ELSE 1 + CHOOSE i \in starts : Cardinality({j \in starts : j >= i}) = keep

------------------------------------------------------------------------------
(* ToolResultCompaction and SlidingWindowCompaction *)

\* compact (tool_result): the older results keep their message, not their text.
WithoutOldResults(ms) ==
    LET from == KeptFrom(ms, config.unit, config.keep)
        Old(i) == i < from /\ \E c \in ms[i].answers : c[2] \in Compactable
    IN  IF from = 2 THEN ms
        ELSE [i \in DOMAIN ms |-> IF Old(i) THEN [ms[i] EXCEPT !.verbatim = FALSE] ELSE ms[i]]

\* Seeded defect: the summary replaces the user message it is merged into.
InjectedOver(ms, from, covers, id) ==
    <<Head(ms), [Message(id, "user") EXCEPT !.covers = covers]>>
        \o SubSeq(ms, IF ms[from].role = "user" THEN from + 1 ELSE from, Len(ms))

\* _inject_summary: merged into a user message that leads the kept groups, or a
\* user message of its own before them.
Injected(ms, from, covers, id) ==
    LET kept == SubSeq(ms, from, Len(ms))
    IN  <<Head(ms)>> \o IF Head(kept).role = "user"
                        THEN <<[Head(kept) EXCEPT !.covers = @ \cup covers]>> \o Tail(kept)
                        ELSE <<[Message(id, "user") EXCEPT !.covers = covers]>> \o kept

\* _generate_summary_safe: one summary of everything, summaries of chunks of
\* whole iterations, those of the failed chunks missing, or, when no call of the
\* summarising model succeeds, the text of the newest messages.
Summaries(ms) ==
    LET starts == IterationStarts(ms)
        Chunk(cuts, i) == SubSeq(ms, i, Min({j \in cuts \cup {Len(ms) + 1} : j > i}) - 1)
        Chunked(cuts) == {[given |-> {Chunk(cuts, i) : i \in cuts},
                           covers |-> UNION {Known(Chunk(cuts, i)) : i \in done}] :
                                done \in SUBSET cuts \ {{}}}
    IN  {[given |-> {ms}, covers |-> Known(SubSeq(ms, i, Len(ms)))] : i \in 1..Len(ms) + 1}
        \cup UNION {Chunked({1} \cup cuts) : cuts \in SUBSET (starts \ {1})}

------------------------------------------------------------------------------
(* UserModelFullTraceAdaptiveCompaction *)

AnswersTo(ms, kept) == {i \in DOMAIN ms : \E k \in kept : ms[i].answers \cap ms[k].calls # {}}

\* Seeded defect: the results of a kept call are not kept with it.
KeepIndicesUnpaired(ms) ==
    LET answered == UNION {ms[i].answers : i \in DOMAIN ms}
        users == {i \in DOMAIN ms : ms[i].role = "user"}
    IN  {1} \cup {i \in DOMAIN ms : ms[i].calls \ answered # {}}
            \cup IF users = {} THEN {} ELSE {Max(users)}

\* _collect_keep_indices: the system message, the last iteration, calls without a
\* result, the last user message, and the results of all calls that are kept.
KeepIndices(ms) ==
    LET answered == UNION {ms[i].answers : i \in DOMAIN ms}
        users == {i \in DOMAIN ms : ms[i].role = "user"}
        kept == {1} \cup {i \in DOMAIN ms : ms[i].calls \ answered # {}}
                    \cup {i \in DOMAIN ms : i > Max(IterationStarts(Tail(ms)))}
                    \cup IF users = {} THEN {} ELSE {Max(users)}
    IN  kept \cup AnswersTo(ms, kept)

\* Seeded defect: every message is a unit.
UnitStartsSingle(ms) == DOMAIN ms

\* _build_pair_safe_units: the results right behind the message that made their
\* calls go with it, every other message is a unit.
UnitStarts(ms) ==
    {i \in DOMAIN ms : ~\E j \in 1..i - 1 :
        /\ ms[j].calls # {}
        /\ \A k \in j + 1..i : ms[k].role = "tool" /\ ms[k].answers \cap ms[j].calls # {}}

\* _truncate_segment_to_budget: all of a segment or a prefix of its units.  When
\* not even the first fits, a piece of its text is given as a plain message.
Truncations(segment) ==
    IF segment = <<>> THEN {[given |-> <<>>, covers |-> {}]}
    ELSE {[given |-> SubSeq(segment, 1, i - 1), covers |-> Known(SubSeq(segment, 1, i - 1))] :
              i \in UnitStarts(segment) \cup {Len(segment) + 1}}

\* _split_two_segments at a boundary of units, both truncated and summarised.
\* Two units or more give two segments.
EmergencySummaries(ms) ==
    LET boundaries == IF Cardinality(UnitStarts(ms)) <= 1 THEN {Len(ms) + 1} ELSE UnitStarts(ms) \ {1}
        Pairs(i) == Truncations(SubSeq(ms, 1, i - 1)) \X Truncations(SubSeq(ms, i, Len(ms)))
    IN  {[given |-> {p[1].given, p[2].given}, covers |-> p[1].covers \cup p[2].covers] :
            p \in UNION {Pairs(i) : i \in boundaries}}

Emergency(ms, covers, id) ==
    <<Head(ms), [Message(id, "framework") EXCEPT !.covers = covers]>> \o At(ms, KeepIndices(ms) \ {1})

------------------------------------------------------------------------------
(* The middleware in the executor's loop *)

Create == created < MaxMessages /\ created' = created + 1

\* _maybe_archive_compaction: the messages whose id is gone, as they were.
Archived(before, after) ==
    archive' = archive \cup
        {before[i].id : i \in {j \in DOMAIN before : before[j].id \notin Ids(after) /\ before[j].verbatim}}

\* _compact_messages with the strategy in use.
Compact ==
    LET from == KeptFrom(msgs, config.unit, config.keep)
        compressed == SubSeq(msgs, 1, from - 1)
    IN  IF config.strategy = "tool_result" \/ from = 2
        THEN /\ msgs' = (IF config.strategy = "tool_result" THEN WithoutOldResults(msgs) ELSE msgs)
             /\ given' = {} /\ UNCHANGED <<created, archive, lossy>>
        ELSE \E s \in Summaries(compressed) :
                /\ IF msgs[from].role = "user" THEN UNCHANGED created ELSE Create
                /\ msgs' = Injected(msgs, from, s.covers, created')
                /\ Archived(msgs, msgs')
                /\ given' = s.given
                /\ lossy' = (lossy \/ s.covers # Known(compressed))

Rest == <<created, archive, dropped, given, lossy>>

\* A run begins: the question is appended.
Ask ==
    /\ phase = "idle"
    /\ Create
    /\ msgs' = Append(msgs, Message(created', "user"))
    /\ phase' = "before"
    /\ UNCHANGED <<config, archive, dropped, given, lossy>>

\* before_model: the trigger fires or does not.
BeforeModel ==
    /\ phase = "before"
    /\ phase' = "call"
    /\ \/ Compact
       \/ UNCHANGED <<msgs, created, archive, given, lossy>>
    /\ UNCHANGED <<config, dropped>>

\* The model answers, with n tool calls.
Answer(n) ==
    /\ phase \in {"call", "retry"}
    /\ Create
    /\ msgs' = Append(msgs, [Message(created', "assistant") EXCEPT !.calls = {created'} \X (1..n)])
    /\ phase' = "after"
    /\ UNCHANGED <<config, archive, dropped, given, lossy>>

\* The call fails: for good, or with an overflow and a retry that fails as well.
Fail ==
    /\ phase \in {"call", "retry"}
    /\ phase' = "idle"
    /\ UNCHANGED <<config, msgs, Rest>>

\* wrap_model_call: the provider refuses the prompt; the compacted messages
\* replace the conversation before the one retry.
Overflow ==
    /\ phase = "call"
    /\ LET compactable == At(msgs, DOMAIN msgs \ KeepIndices(msgs))
       IN  IF compactable = <<>>
           THEN UNCHANGED <<msgs, created, archive, given, lossy>>
           ELSE \E s \in EmergencySummaries(compactable) :
                    /\ Create
                    /\ msgs' = Emergency(msgs, s.covers, created')
                    /\ Archived(msgs, msgs')
                    /\ given' = s.given
                    /\ lossy' = (lossy \/ s.covers # Known(compactable))
    /\ phase' = "retry"
    /\ UNCHANGED <<config, dropped>>

\* wrap_model_call: the result is still too large, and the error is raised; the
\* conversation stays as it was, what it would have lost is archived.
OverflowAgain ==
    /\ phase = "call"
    /\ archive' = archive \cup {msgs[i].id : i \in {j \in DOMAIN msgs \ KeepIndices(msgs) : msgs[j].verbatim}}
    /\ phase' = "idle"
    /\ UNCHANGED <<config, msgs, created, dropped, given, lossy>>

\* after_model: nothing happens behind an answer that calls nothing, which ends
\* the run.
AfterModel ==
    /\ phase = "after"
    /\ IF Final(Last(msgs))
       THEN phase' = "idle" /\ UNCHANGED <<msgs, created, archive, given, lossy>>
       ELSE /\ phase' = "tools"
            /\ \/ Compact
               \/ UNCHANGED <<msgs, created, archive, given, lossy>>
    /\ UNCHANGED <<config, dropped>>

\* The results of the calls are appended, one message each.
Results ==
    /\ phase = "tools"
    /\ LET calls == SetToSortSeq(Last(msgs).calls, LAMBDA c, d : c[2] < d[2])
       IN  /\ created + Len(calls) <= MaxMessages
           /\ created' = created + Len(calls)
           /\ msgs' = msgs \o [n \in DOMAIN calls |->
                                [Message(created + n, "tool") EXCEPT !.answers = {calls[n]}]]
    /\ phase' = "before"
    /\ UNCHANGED <<config, archive, dropped, given, lossy>>

\* The user stops the run while its tools are at work.
Interrupt ==
    /\ phase = "tools"
    /\ dropped' = dropped \cup Last(msgs).calls
    /\ phase' = "idle"
    /\ UNCHANGED <<config, msgs, created, archive, given, lossy>>

Next ==
    \/ Ask \/ BeforeModel \/ Fail \/ Overflow \/ OverflowAgain \/ AfterModel \/ Results \/ Interrupt
    \/ \E n \in 0..MaxCalls : Answer(n)

Spec == Init /\ [][Next]_vars

------------------------------------------------------------------------------
(* Properties *)

TypeOK ==
    /\ config \in Configs
    /\ phase \in {"idle", "before", "call", "retry", "after", "tools"}
    /\ created \in 1..MaxMessages /\ archive \subseteq 1..created /\ lossy \in BOOLEAN
    /\ \A i \in DOMAIN msgs : msgs[i].id \in 1..created /\ msgs[i].covers \subseteq 1..created
    /\ Head(msgs).role = "system"

Paired(ms, exempt) ==
    \A i \in DOMAIN ms :
        /\ \A c \in ms[i].answers : \E j \in 1..i - 1 : c \in ms[j].calls
        /\ \A c \in ms[i].calls \ exempt : \E j \in i + 1..Len(ms) :
              c \in ms[j].answers /\ \A k \in i + 1..j : ms[k].role = "tool"

\* Whatever compactions lie behind it, the model is only asked with results that
\* stand right behind the message that made their calls, with every call that was
\* not interrupted answered, and with no message twice.
CallsAndResults ==
    phase \in {"call", "retry"} =>
        /\ Paired(msgs, dropped)
        /\ \A i, j \in DOMAIN msgs : msgs[i].id = msgs[j].id => i = j

\* The summarising model is never given a result without the call it belongs to,
\* nor a call without its result unless the run that made it was interrupted.
SummariserGetsPairs == \A ms \in given : Paired(ms, dropped)

\* As long as no summary left anything out, every message of the conversation is
\* in the prompt or behind a chain of summaries that is: later compactions
\* summarise the summaries of the earlier ones.
Remembered == ~lossy => 1..created \subseteq Known(msgs)

\* What the model has to react to: the open calls and their results, or the
\* question, and what came behind them.
Recent(ms) ==
    LET answers == {i \in DOMAIN ms : ms[i].role = "assistant"}
    IN  IF answers = {} THEN 2 ELSE IF Final(ms[Max(answers)]) THEN Max(answers) + 1 ELSE Max(answers)

\* No compaction removes, changes or moves what the model has to react to, or
\* moves any message that stays before another one.
KeepsRecent ==
    phase' \in {"call", "retry", "tools"} =>
        LET Place(i) == CHOOSE j \in DOMAIN msgs' : msgs'[j].id = msgs[i].id
            staying == {i \in DOMAIN msgs : msgs[i].id \in Ids(msgs')}
        IN  /\ \A i \in Recent(msgs)..Len(msgs) :
                  i \in staying /\ [msgs'[Place(i)] EXCEPT !.covers = msgs[i].covers] = msgs[i]
            /\ \A i, j \in staying : i < j => Place(i) < Place(j)
RecentKept == [][KeepsRecent]_vars

\* RFC 0021: what a compaction takes out of the prompt can be found in the archive.
Recallable ==
    \A id \in 1..created : id \in archive \/ (\E i \in DOMAIN msgs : msgs[i].id = id /\ msgs[i].verbatim)
=============================================================================
