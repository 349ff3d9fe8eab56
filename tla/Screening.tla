----------------------------- MODULE Screening -------------------------------
(***************************************************************************)
(* The hooks around a model call and the middleware that screens what a    *)
(* model reads and says for the words of a lexicon:                        *)
(* src/nexau/archs/main_sub/execution/middleware/sensitive_word.py, run by *)
(* the MiddlewareManager (execution/hooks.py) where the executor calls it. *)
(*                                                                         *)
(* A text is a sequence of characters; Fold gives a character's lower      *)
(* case, and Masking stands for the placeholder that replaces a hit.  The  *)
(* categories of the lexicon and the wording of a notice are left out.     *)
(* The other middleware of the chain stands for any: it may do nothing,    *)
(* raise, add a message, or drop the calls and ask to continue.            *)
(***************************************************************************)
EXTENDS SequencesExt, Integers

CONSTANTS
    Sources,       \* the sources of the lexicon, as sets of words
    Fold,          \* function: the lower case of a character
    Texts,         \* what users, tools and models say
    Chain,         \* the middlewares' order, of "screen" and "plain"
    Policies,      \* the screen's configurations: [input, output, raises]
    Replays,       \* does the provider's reply carry items that are replayed
    AddsAfter,     \* may the other middleware add a message after a model call
    LongestText,   \* bound on the texts masking is compared with its definition on
    MaxBlocks,     \* bound on the blocks of a user's message
    MaxRuns,       \* bound on the runs
    MaxIterations, \* bound on the model calls of a run
    MaxQueue       \* bound on the messages queued in a run

Actions == {"mask", "terminate", "soft_reject"}
Notice == <<"notice">>
Masking == "*"

ScreeningAssumption ==
    /\ Masking \notin DOMAIN Fold /\ "notice" \notin DOMAIN Fold
    /\ Range(Chain) \subseteq {"screen", "plain"} /\ {Replays, AddsAfter} \subseteq BOOLEAN
    /\ Policies \subseteq [input : Actions, output : Actions, raises : BOOLEAN]

VARIABLES
    policy,    \* the screen's configuration
    messages,  \* the conversation
    queue,     \* the messages that wait for the next iteration
    phase,     \* "idle", "top", "asked", "answered" or "tools"
    iteration, \* the model calls of the run
    response,  \* the run's answer to its caller
    reported,  \* the sides ("input", "output") a ContentBlockedEvent told of
    stopped,   \* did a hook force the run to stop
    fresh,     \* did a word come in since the screen last looked
    runs       \* the runs so far

vars == <<policy, messages, queue, phase, iteration, response, reported, stopped, fresh, runs>>
-----------------------------------------------------------------------------
(* The automaton: its nodes are the prefixes of the words.                 *)

\* A character the folding does not know (of a notice, a placeholder) stays.
Lower(text) == [i \in DOMAIN text |-> IF text[i] \in DOMAIN Fold THEN Fold[text[i]] ELSE text[i]]

\* Later sources replace the category of a word, never the word.
Lexicon == UNION {{Lower(w) : w \in Sources[i]} : i \in DOMAIN Sources} \ {<<>>}
Root == <<>>

\* The node a character leads to, and the node a failed match goes on from: the
\* longest suffix that is a node.
Node(words, v) == v = Root \/ \E w \in words : IsPrefix(v, w)
RECURSIVE Link(_, _), Goto(_, _, _)
Goto(words, u, c) ==
    IF Node(words, Append(u, c)) THEN Append(u, c) ELSE IF u = Root THEN Root ELSE Goto(words, Link(words, u), c)
Link(words, v) == IF Len(v) <= 1 THEN Root ELSE Goto(words, Link(words, Front(v)), Last(v))

\* Seeded defect: the words that end a suffix are forgotten.
OutputOwn(words, v) == {v} \cap words

\* The words that end where the node does.
RECURSIVE Output(_, _)
Output(words, v) == ({v} \cap words) \cup (IF v = Root THEN {} ELSE Output(words, Link(words, v)))

\* [from, to] of every word found: characters from + 1 to `to`.
Hits(text) ==
    LET words == Lexicon
        at == FoldLeft(LAMBDA nodes, c : Append(nodes, Goto(words, Last(nodes), c)), <<Root>>, Lower(text))
    IN  UNION {{[from |-> i - Len(w), to |-> i] : w \in Output(words, at[i + 1])} : i \in DOMAIN text}

Matched(text) == Hits(text) # {}

\* Hits that overlap become one.
Merged(hits) ==
    LET Merge(done, h) ==
            IF done # <<>> /\ h.from < Last(done).to
            THEN [done EXCEPT ![Len(done)].to = IF h.to > @ THEN h.to ELSE @]
            ELSE Append(done, h)
    IN  FoldLeft(Merge, <<>>, SetToSortSeq(hits, LAMBDA g, h : g.from < h.from \/ (g.from = h.from /\ g.to > h.to)))

\* Each merged hit is replaced, the last first.
MaskText(text) ==
    FoldRight(LAMBDA h, out : SubSeq(out, 1, h.from) \o <<Masking>> \o SubSeq(out, h.to + 1, Len(out)),
              Merged(Hits(text)), text)
-----------------------------------------------------------------------------
Message(role, blocks) == [role |-> role, blocks |-> blocks, items |-> <<>>, calls |-> FALSE]
ScanRoles == {"user", "framework", "system", "tool"}

\* The texts of a message's blocks are scanned as one, and masked one by one.
ScanText(m) == FlattenSeq(m.blocks)
MaskMessage(m) == [m EXCEPT !.blocks = [i \in DOMAIN m.blocks |-> MaskText(m.blocks[i])]]
MaskAll(ms) == [i \in DOMAIN ms |-> MaskMessage(ms[i])]
ScanMatched(ms) == \E m \in Range(ms) : m.role \in ScanRoles /\ Matched(ScanText(m))

\* What a chain of hooks hands on: the messages and the signals to the executor.
Handed(ms, calls) == [messages |-> ms, stop |-> FALSE, again |-> FALSE, calls |-> calls, told |-> {}]

\* Seeded defect: only the newest message is masked.
ScreenInputLast(s) ==
    IF ~ScanMatched(s.messages) \/ policy.raises THEN s
    ELSE [s EXCEPT !.messages[Len(s.messages)] = MaskMessage(@), !.told = @ \cup {"input"}]

\* Seeded defect: a soft rejection leaves the history as it is.
ScreenInputRejects(s) ==
    IF ~ScanMatched(s.messages) \/ policy.raises THEN s
    ELSE [s EXCEPT !.told = @ \cup {"input"},
                   !.stop = @ \/ policy.input # "mask",
                   !.messages = IF policy.input = "mask" THEN MaskAll(@) ELSE Append(@, Message("assistant", <<Notice>>))]

\* before_model.  The manager logs what a hook raises and goes on.
ScreenInput(s) ==
    IF ~ScanMatched(s.messages) \/ policy.raises THEN s
    ELSE LET kept == IF policy.input = "terminate" THEN s.messages ELSE MaskAll(s.messages)
         IN  [s EXCEPT !.told = @ \cup {"input"},
                       !.stop = @ \/ policy.input # "mask",
                       !.messages = IF policy.input = "mask" THEN kept ELSE Append(kept, Message("assistant", <<Notice>>))]

\* after_model, for the text the model said.
ScreenOutput(s, said) ==
    LET last == Len(s.messages)
        ends == s.messages[last].role = "assistant"
        refusal == Message("assistant", <<Notice>>)
    IN  IF ~Matched(said) \/ policy.raises THEN s
        ELSE [s EXCEPT !.told = @ \cup {"output"},
                       !.stop = @ \/ policy.output # "mask",
                       !.messages = CASE ends /\ policy.output = "mask" -> [@ EXCEPT ![last] = MaskMessage(@)]
                                      [] ends /\ policy.output # "mask" -> [@ EXCEPT ![last] = refusal]
                                      [] ~ends /\ policy.output = "mask" -> @
                                      [] ~ends /\ policy.output # "mask" -> Append(@, refusal)]

\* `does` is what the other middleware does this time.
Doings == {[kind |-> k, text |-> <<>>] : k \in {"nothing", "raise", "drop"}} \cup {[kind |-> "add", text |-> t] : t \in Texts}
PlainHook(s, does) ==
    CASE does.kind \in {"nothing", "raise"} -> s
      [] does.kind = "add" -> [s EXCEPT !.messages = Append(@, Message("framework", <<does.text>>))]
      [] does.kind = "drop" -> [s EXCEPT !.calls = FALSE, !.again = TRUE]

\* before_model hooks run in the order of the chain, after_model hooks against it.
RunBeforeModel(ms, does) ==
    FoldLeft(LAMBDA s, w : IF w = "screen" THEN ScreenInput(s) ELSE PlainHook(s, does), Handed(ms, FALSE), Chain)
RunAfterModel(ms, calls, said, does) ==
    FoldRight(LAMBDA w, s : IF w = "screen" THEN ScreenOutput(s, said) ELSE PlainHook(s, does), Chain, Handed(ms, calls))
-----------------------------------------------------------------------------
Init ==
    /\ policy \in Policies
    /\ messages = <<>> /\ queue = <<>> /\ phase = "idle" /\ iteration = 0 /\ response = <<>>
    /\ reported = {} /\ stopped = FALSE /\ fresh = FALSE /\ runs = 0

Start(blocks) ==
    /\ phase = "idle" /\ runs < MaxRuns
    /\ messages' = Append(messages, Message("user", blocks))
    /\ fresh' = ((fresh /\ ~(stopped /\ "input" \in reported)) \/ Matched(FlattenSeq(blocks)))
    /\ phase' = "top" /\ iteration' = 0 /\ response' = <<>> /\ reported' = {} /\ stopped' = FALSE /\ runs' = runs + 1
    /\ UNCHANGED <<policy, queue>>

Enqueue(text) ==
    /\ phase # "idle" /\ Len(queue) < MaxQueue
    /\ queue' = Append(queue, Message("user", <<text>>))
    /\ fresh' = (fresh \/ Matched(text))
    /\ UNCHANGED <<policy, messages, phase, iteration, response, reported, stopped, runs>>

\* A forced stop answers with the text of the last message.
Stop(ms) == phase' = "idle" /\ stopped' = TRUE /\ response' = ScanText(Last(ms))

BeforeModel(does) ==
    /\ phase = "top" /\ does.kind # "drop"
    /\ LET s == RunBeforeModel(messages \o queue, does)
       IN  /\ messages' = s.messages /\ reported' = reported \cup s.told
           /\ IF s.stop THEN Stop(s.messages) /\ UNCHANGED iteration
              ELSE phase' = "asked" /\ iteration' = iteration + 1 /\ UNCHANGED <<stopped, response>>
           /\ fresh' = (s.stop /\ (fresh \/ (does.kind = "add" /\ Matched(does.text))))
    /\ queue' = <<>>
    /\ UNCHANGED <<policy, runs>>

Reply(text, calls) ==
    /\ phase = "asked"
    /\ messages' = Append(messages, [role |-> "assistant", blocks |-> <<text>>, items |-> IF Replays THEN <<text>> ELSE <<>>, calls |-> calls])
    /\ phase' = "answered" /\ response' = text
    /\ UNCHANGED <<policy, queue, iteration, reported, stopped, fresh, runs>>

Again == IF iteration < MaxIterations THEN "top" ELSE "idle"

\* Seeded defect: the calls of a reply run although a hook forced a stop.
AfterModelRuns(does) ==
    /\ phase = "answered" /\ (does.kind = "add" => AddsAfter)
    /\ LET reply == Last(messages)
           s == RunAfterModel(messages, reply.calls, reply.blocks[1], does)
       IN  /\ messages' = s.messages /\ reported' = reported \cup s.told
           /\ phase' = IF s.calls THEN "tools" ELSE "idle"
    /\ UNCHANGED <<policy, queue, iteration, response, stopped, fresh, runs>>

\* The hooks see the reply, and what they leave of it decides: stop, run the calls,
\* go on, or end with the text the model said.
AfterModel(does) ==
    /\ phase = "answered" /\ (does.kind = "add" => AddsAfter)
    /\ LET reply == Last(messages)
           s == RunAfterModel(messages, reply.calls, reply.blocks[1], does)
       IN  /\ messages' = s.messages /\ reported' = reported \cup s.told
           /\ IF s.stop THEN Stop(s.messages)
              ELSE /\ phase' = CASE s.calls -> "tools"
                                 [] ~s.calls /\ (s.again \/ queue # <<>>) -> Again
                                 [] ~s.calls /\ ~s.again /\ queue = <<>> -> "idle"
                   /\ UNCHANGED <<stopped, response>>
    /\ fresh' = (fresh \/ (does.kind = "add" /\ Matched(does.text)))
    /\ UNCHANGED <<policy, queue, iteration, runs>>

Tools(text) ==
    /\ phase = "tools"
    /\ messages' = Append(messages, Message("tool", <<text>>))
    /\ fresh' = (fresh \/ Matched(text))
    /\ phase' = Again
    /\ UNCHANGED <<policy, queue, iteration, response, reported, stopped, runs>>

Next ==
    \/ \E blocks \in BoundedSeq(Texts, MaxBlocks) : blocks # <<>> /\ Start(blocks)
    \/ \E text \in Texts : Enqueue(text)
    \/ \E does \in Doings : BeforeModel(does)
    \/ \E text \in Texts, calls \in BOOLEAN : Reply(text, calls)
    \/ \E does \in Doings : AfterModel(does)
    \/ \E text \in Texts : Tools(text)

Spec == Init /\ [][Next]_vars
-----------------------------------------------------------------------------
TypeOK ==
    /\ policy \in Policies /\ phase \in {"idle", "top", "asked", "answered", "tools"}
    /\ Range(messages) \cup Range(queue) \subseteq [role : ScanRoles \cup {"assistant"}, blocks : Seq(Seq(DOMAIN Fold \cup {Masking, "notice"})),
                                                  items : Seq(Texts), calls : BOOLEAN]
    /\ iteration \in 0..MaxIterations /\ runs \in 0..MaxRuns /\ Len(queue) <= MaxQueue
    /\ reported \subseteq {"input", "output"} /\ {stopped, fresh} \subseteq BOOLEAN

\* Masking takes out exactly the words: what is left holds none, and every character
\* that no occurrence of a word covers is still there, in order.
Occurrences(text) == {<<i, j>> \in (DOMAIN text) \X (DOMAIN text) : SubSeq(Lower(text), i, j) \in Lexicon}
MasksExactly ==
    \A text \in BoundedSeq(DOMAIN Fold, LongestText) :
        LET covered == {i \in DOMAIN text : \E o \in Occurrences(text) : o[1] <= i /\ i <= o[2]}
            kept == SelectSeq([i \in DOMAIN text |-> <<i, text[i]>>], LAMBDA c : c[1] \notin covered)
        IN  /\ Occurrences(MaskText(text)) = {}
            /\ SelectSeq(MaskText(text), LAMBDA c : c # Masking) = [i \in DOMAIN kept |-> kept[i][2]]

\* A model is never sent a word of the lexicon: not in what came in, whatever came
\* before it, and not in what a model said and the screen has seen.
ModelReadsNoWord ==
    phase = "asked" => \A m \in Range(messages) : ~Matched(ScanText(m)) /\ \A t \in Range(m.items) : ~Matched(t)

\* A reply that was refused runs no call, and the conversation keeps no trace of it:
\* the run ends with the notice, and every tool result still follows its call.
RefusedIsGone ==
    /\ stopped => phase = "idle" /\ Last(messages).blocks = <<Notice>> /\ response = Notice
    /\ \A i \in DOMAIN messages : messages[i].role = "tool" => messages[i - 1].calls

\* A conversation that a soft rejection has ended can go on: a run is not rejected
\* for what an earlier run was already rejected for.
RejectedOnce == "input" \in reported /\ policy.input = "soft_reject" => fresh
==============================================================================
