------------------------------ MODULE Payloads -------------------------------
(***************************************************************************)
(* What a conversation becomes on its way to a model: the repair of calls  *)
(* nothing has answered (src/nexau/archs/main_sub/execution/llm_caller.py, *)
(* _ensure_tool_results), the serializers of the four provider dialects    *)
(* (src/nexau/core/serializers/) and the way back from the chat dialect    *)
(* (src/nexau/core/adapters/legacy.py).                                    *)
(*                                                                         *)
(* The state is the conversation, as runs leave it: a model of any         *)
(* provider has replied, and any provider may be asked next.  A payload is *)
(* a sequence of [role, parts]; a part keeps what the properties tell      *)
(* apart: its kind, the text, the call id and the tool name.  Thought      *)
(* signatures, arguments and the form of an image are left out; so are     *)
(* recorded response_items, replayed as the parts they were read from.     *)
(***************************************************************************)
EXTENDS SequencesExt, Integers

CONSTANTS
    Apis,           \* the dialects of the models that reply; "idless" is a chat without call ids
    Interruptible,  \* those whose calls a stopped run may leave unanswered
    Images,         \* may a tool return an image
    SystemBlocks,   \* system prompts, as sequences of the blocks' cache flags
    MaxMessages,    \* bound on the conversation
    MaxCalls        \* bound on the calls of one reply

PayloadsAssumption ==
    /\ Apis \subseteq {"chat", "anthropic", "responses", "gemini", "idless"} /\ Interruptible \subseteq Apis
    /\ Images \in BOOLEAN /\ SystemBlocks \subseteq Seq(BOOLEAN)
    /\ MaxMessages \in Nat /\ MaxCalls \in Nat

VARIABLES
    system, \* the cache flags of the system prompt's blocks
    history \* the messages that follow it

vars == <<system, history>>
-----------------------------------------------------------------------------
\* An id is a tuple, so that one may be a prefix of another.  Texts are numbers;
\* 0 is none.
Message(role) == [role |-> role, api |-> "", text |-> 0, reasoning |-> "none", calls |-> <<>>, answers |-> <<>>, image |-> FALSE]
Now == Len(history) + 1
Tool(n) == IF n = 1 THEN "first" ELSE "second"

\* The parser gives a call without an id one of its own, which its result carries.
ResultId(call, at, n) == IF call.id = <<"tool_call">> THEN <<"tool_call", at, n>> ELSE call.id

\* What is kept of a reply: its reasoning, and the ids of its calls.  `got` is what
\* it holds of "text", "thinking" and Anthropic's "signed" and "redacted".
Kept(reasoning, Id(_)) == [reasoning |-> reasoning, ids |-> [n \in 1..MaxCalls |-> Id(n)]]
Thought(got) == IF "thinking" \in got THEN "plain" ELSE "none"
FromOpenAIMessage(api, got) == Kept(Thought(got), LAMBDA n : IF api = "chat" THEN <<"own", Now, n>> ELSE <<"tool_call">>)
FromOpenAIResponse(got) == Kept(Thought(got), LAMBDA n : <<"own", Now, n>>)
FromGeminiRest(got) == Kept(Thought(got), LAMBDA n : <<"gemini_tc", n>>)

\* Redacted thinking is kept with the thinking beside it, and lost without.
FromAnthropicMessage(got) ==
    Kept(CASE "thinking" \notin got -> "none"
           [] "thinking" \in got /\ "redacted" \in got -> "redacted"
           [] "thinking" \in got /\ "redacted" \notin got -> IF "signed" \in got THEN "signed" ELSE "plain",
         LAMBDA n : <<"own", Now, n>>)

Heard(api, got) ==
    CASE api \in {"chat", "idless"} -> FromOpenAIMessage(api, got)
      [] api = "responses" -> FromOpenAIResponse(got)
      [] api = "gemini" -> FromGeminiRest(got)
      [] api = "anthropic" -> FromAnthropicMessage(got)

Contents(api) == {got \in SUBSET {"text", "thinking", "signed", "redacted"} :
                     /\ api = "anthropic" \/ got \cap {"signed", "redacted"} = {}
                     /\ "signed" \in got => "thinking" \in got}

Caller == CHOOSE i \in DOMAIN history : history[i].role = "assistant" /\ \A j \in i + 1..Len(history) : history[j].role = "tool"
InTurn == history # <<>> /\ Last(history).role \in {"assistant", "tool"}
Open == IF ~InTurn THEN {}
        ELSE {n \in DOMAIN history[Caller].calls :
                 \A j \in Caller + 1..Len(history) : history[j].answers # ResultId(history[Caller].calls[n], Caller, n)}

Init == system \in SystemBlocks /\ history = <<>>

Add(m) == Len(history) < MaxMessages /\ history' = Append(history, m) /\ UNCHANGED system

\* The next message of a user, or of the framework; the run before it may have
\* been stopped between a call and its result.
Ask(role) ==
    /\ Open # {} => history[Caller].api \in Interruptible
    /\ (history # <<>> => Last(history).role \notin {"user", "FRAMEWORK"})
    /\ Add([Message(role) EXCEPT !.text = Now])

\* A model is called with a conversation that ends with a message to it.
Callable == history # <<>> /\ Last(history).role # "assistant" /\ Open = {}

\* A reply is never empty: a response without text, reasoning and calls is an error.
Reply(api, got, n) ==
    /\ Callable
    /\ "text" \in got \/ n > 0 \/ Heard(api, got).reasoning # "none"
    /\ Add([Message("assistant") EXCEPT
                !.api = api, !.text = IF "text" \in got THEN Now ELSE 0, !.reasoning = Heard(api, got).reasoning,
                !.calls = [c \in 1..n |-> [id |-> Heard(api, got).ids[c], name |-> Tool(c)]]])

\* The results of a turn come in order, save those a permission delays.
Result(n, image) ==
    /\ n \in Open
    /\ Add([Message("tool") EXCEPT !.answers = ResultId(history[Caller].calls[n], Caller, n), !.image = image])

Next ==
    \/ \E role \in {"user", "FRAMEWORK"} : Ask(role)
    \/ \E api \in Apis : \E got \in Contents(api), n \in 0..MaxCalls : Reply(api, got, n)
    \/ \E n \in 1..MaxCalls, image \in {Images, FALSE} : Result(n, image)

Spec == Init /\ [][Next]_vars
-----------------------------------------------------------------------------
(* Before every call: a result for each call that has none.                *)

Missing(h) ==
    LET ids == FlattenSeq([i \in DOMAIN h |-> [n \in DOMAIN h[i].calls |-> h[i].calls[n].id]])
        results == {h[i].answers : i \in DOMAIN h} \ {<<>>}
        Prefixed(r) == {k \in DOMAIN ids : IsPrefix(ids[k], r)}
        First(K) == ids[CHOOSE k \in K : \A j \in K : k <= j]
        matched == (results \cap ToSet(ids))
                     \union {First(Prefixed(r)) : r \in {x \in results \ ToSet(ids) : Prefixed(x) # {}}}
    IN  ToSet(ids) \ matched

\* Seeded defect: the results are put at the end.
RepairedAtEnd(h) == h \o SetToSeq({[Message("tool") EXCEPT !.answers = id] : id \in Missing(h)})

\* A missing result goes right behind the last message that calls by its id.
Repaired(h) ==
    LET Calls(i) == {h[i].calls[n].id : n \in DOMAIN h[i].calls}
        Here(i) == {id \in Missing(h) : id \in Calls(i) /\ \A j \in i + 1..Len(h) : id \notin Calls(j)}
    IN  FlattenSeq([i \in DOMAIN h |-> <<h[i]>> \o SetToSeq({[Message("tool") EXCEPT !.answers = id] : id \in Here(i)})])
-----------------------------------------------------------------------------
(* The dialects.                                                           *)

Part(kind) == [kind |-> kind, text |-> 0, id |-> <<>>, name |-> ""]
Wire(role, parts) == [role |-> role, parts |-> parts]
When(condition, part) == IF condition THEN <<part>> ELSE <<>>
TextOf(m) == When(m.text # 0, [Part("text") EXCEPT !.text = m.text])
CallsOf(m) == [n \in DOMAIN m.calls |-> [Part("call") EXCEPT !.id = m.calls[n].id, !.name = m.calls[n].name]]
AnswerOf(m) == [Part("answer") EXCEPT !.id = m.answers]
ImageOf(m) == When(m.image, [Part("image") EXCEPT !.id = m.answers])

\* Chat Completions take no image in a tool message: "inject" sends it in a user
\* message behind the result, "embed" keeps it for the Responses dialect.
Chat(h, policy) ==
    LET Emit(m) ==
            CASE m.role = "tool" /\ policy = "inject" /\ m.image -> <<Wire("tool", <<AnswerOf(m)>>), Wire("user", ImageOf(m))>>
              [] m.role = "tool" /\ ~(policy = "inject" /\ m.image) -> <<Wire("tool", <<AnswerOf(m)>> \o ImageOf(m))>>
              [] m.role = "assistant" -> <<Wire("assistant", When(m.reasoning # "none", Part(m.reasoning)) \o TextOf(m) \o CallsOf(m))>>
              [] m.role \in {"user", "FRAMEWORK"} -> <<Wire("user", TextOf(m))>>
    IN  FlattenSeq([i \in DOMAIN h |-> Emit(h[i])])

\* prepare_openai_responses_api_input: one item per part, reasoning first.  The
\* items of one message are kept together here.
Responses(h) == LET Sent(w) == w.parts # <<>> \/ w.role # "assistant" IN SelectSeq(Chat(h, "embed"), Sent)

\* The blocks of one message.  Unsigned reasoning is not sent; a stub stands in
\* for it where nothing else is left.
Blocks(m) ==
    LET thinking == CASE m.reasoning = "signed" -> <<Part("thinking")>>
                      [] m.reasoning = "redacted" -> <<Part("redacted_thinking")>>
                      [] m.reasoning \in {"none", "plain"} -> <<>>
        others == thinking \o TextOf(m) \o CallsOf(m) \o When(m.role = "tool", AnswerOf(m)) \o ImageOf(m)
    IN  IF others = <<>> /\ m.reasoning = "plain" THEN <<Part("stub")>> ELSE others

\* Results in a row become one user message.
Anthropic(h) ==
    LET Flushed(a) == IF a.pending = <<>> THEN a.convo ELSE Append(a.convo, Wire("user", a.pending))
        Take(a, m) == IF m.role = "tool" THEN [a EXCEPT !.pending = @ \o Blocks(m)]
                      ELSE [pending |-> <<>>,
                            convo |-> Append(Flushed(a), Wire(IF m.role = "assistant" THEN "assistant" ELSE "user", Blocks(m)))]
    IN  Flushed(FoldLeft(Take, [pending |-> <<>>, convo |-> <<>>], h))

\* Seeded defect: the prompt's blocks are marked without regard to the limit.
BreakpointsUnclamped(flags, convo) ==
    Len(SelectSeq(flags, LAMBDA flag : flag)) + (IF convo # <<>> THEN 1 ELSE 0)

\* At most four cache breakpoints: the prompt's blocks first, then the first block
\* of the last message that is not thinking.
Breakpoints(flags, convo) ==
    LET wanted == Len(SelectSeq(flags, LAMBDA flag : flag))
        prompt == IF wanted > 4 THEN 4 ELSE wanted
        markable == convo # <<>> /\ \E n \in DOMAIN Last(convo).parts :
                        Last(convo).parts[n].kind \notin {"thinking", "redacted_thinking"}
    IN  prompt + (IF prompt < 4 /\ markable THEN 1 ELSE 0)

\* A result is sent under the name of the call with its id, else under the name of
\* the call in its place, else under the name a repaired result carries.
FunctionName(a, m) ==
    LET known == {n \in DOMAIN a.named : a.named[n].id = m.answers}
    IN  CASE known # {} -> a.named[CHOOSE n \in known : \A k \in known : k <= n].name
          [] known = {} /\ a.results < Len(a.asked) -> a.asked[a.results + 1]
          [] known = {} /\ a.results >= Len(a.asked) -> "error"

Gemini(h) ==
    LET Respond(contents, part) ==
            IF contents # <<>> /\ Last(contents).role = "user" /\ \E n \in DOMAIN Last(contents).parts : Last(contents).parts[n].kind = "answer"
            THEN Front(contents) \o <<Wire("user", Append(Last(contents).parts, part))>>
            ELSE Append(contents, Wire("user", <<part>>))
        Take(a, m) ==
            CASE m.role \in {"user", "FRAMEWORK"} -> [a EXCEPT !.contents = Append(@, Wire("user", TextOf(m)))]
              [] m.role = "assistant" ->
                    [contents |-> Append(a.contents, Wire("model", When(m.reasoning # "none", Part("thought")) \o TextOf(m) \o CallsOf(m))),
                     named |-> a.named \o m.calls, asked |-> [n \in DOMAIN m.calls |-> m.calls[n].name], results |-> 0]
              [] m.role = "tool" ->
                    [a EXCEPT !.results = @ + 1,
                              !.contents = Respond(@, [AnswerOf(m) EXCEPT !.name = FunctionName(a, m)])]
    IN  FoldLeft(Take, [contents |-> <<>>, named |-> <<>>, asked |-> <<>>, results |-> 0], h).contents

\* Seeded defect: the user message with a result's images stays one.
NoTarget(ms, w) == {}

\* The results the images of a user message belong to.
Targets(ms, w) ==
    {i \in DOMAIN ms : w.role = "user" /\ w.parts # <<>> /\ w.parts[1].kind = "image"
                        /\ ms[i].role = "tool" /\ ms[i].answers = w.parts[1].id}

\* messages_from_legacy_openai_chat: the images sent behind a result go back into
\* it, and the reasoning comes before the other blocks.
FromChat(ws) ==
    LET Read(w) ==
            LET Text == SelectSeq(w.parts, LAMBDA p : p.kind = "text")
                Calls == SelectSeq(w.parts, LAMBDA p : p.kind = "call")
                Thoughts == SelectSeq(w.parts, LAMBDA p : p.kind \in {"plain", "signed", "redacted"})
            IN  [Message(w.role) EXCEPT
                    !.text = IF Text = <<>> THEN 0 ELSE Text[1].text,
                    !.reasoning = IF Thoughts = <<>> THEN "none" ELSE Thoughts[1].kind,
                    !.calls = [n \in DOMAIN Calls |-> [id |-> Calls[n].id, name |-> Calls[n].name]],
                    !.answers = IF w.role = "tool" THEN w.parts[1].id ELSE <<>>]
        Take(ms, w) == IF Targets(ms, w) = {} THEN Append(ms, Read(w))
                       ELSE [ms EXCEPT ![CHOOSE i \in Targets(ms, w) : \A j \in Targets(ms, w) : j <= i].image = TRUE]
    IN  FoldLeft(Take, <<>>, ws)
-----------------------------------------------------------------------------
(* Type invariant: texts, ids and calls are where their roles have them.   *)
TypeOK ==
    /\ system \in SystemBlocks
    /\ \A i \in DOMAIN history :
           /\ history[i].role \in {"user", "FRAMEWORK", "assistant", "tool"}
           /\ history[i].text \in {0, i}
           /\ (history[i].answers # <<>>) <=> (history[i].role = "tool")
           /\ Len(history[i].calls) <= MaxCalls

Kinds(w, kind) == SelectSeq(w.parts, LAMBDA p : p.kind = kind)
\* The answers in the messages behind ws[i], up to the first that carries none.
Behind(ws, i) ==
    LET end == CHOOSE j \in i + 1..Len(ws) + 1 :
                   /\ j = Len(ws) + 1 \/ Kinds(ws[j], "answer") = <<>>
                   /\ \A k \in i + 1..j - 1 : Kinds(ws[k], "answer") # <<>>
    IN  FlattenSeq([n \in 1..end - i - 1 |-> Kinds(ws[i + n], "answer")])
Answered(ws, Key(_)) ==
    LET Keys(parts) == ToBag([n \in DOMAIN parts |-> Key(parts[n])])
        All(kind) == FlattenSeq([i \in DOMAIN ws |-> Kinds(ws[i], kind)])
    IN  /\ \A i \in DOMAIN ws : Kinds(ws[i], "call") # <<>> => Keys(Kinds(ws[i], "call")) = Keys(Behind(ws, i))
        /\ Len(All("call")) = Len(All("answer"))

(* Whatever stopped the runs of the conversation, and whichever provider   *)
(* is asked next, every call it is shown is answered once, by id (Gemini:  *)
(* by name), before anything else is said; nothing answers a call that is  *)
(* not there (_ensure_tool_results and the four serializers).  The chat    *)
(* dialect answers so only while no tool returns an image: ChatAnswered.   *)
CallsAnswered == Callable =>
    LET h == Repaired(history) IN
    /\ (\A i \in DOMAIN h : ~h[i].image) => Answered(Chat(h, "inject"), LAMBDA p : p.id)
    /\ Answered(Responses(h), LAMBDA p : p.id)
    /\ Answered(Anthropic(h), LAMBDA p : p.id)
    /\ Answered(Gemini(h), LAMBDA p : p.name)

(* The chat dialect answers every call so.  Does not hold where parallel   *)
(* calls return images: the user message with the images of one result     *)
(* comes between it and the next.                                          *)
ChatAnswered == Callable => Answered(Chat(Repaired(history), "inject"), LAMBDA p : p.id)

(* Anthropic refuses an assistant turn without content and a request with  *)
(* more than four cache breakpoints (anthropic_messages.py:165-168,        *)
(* llm_caller.py:1535-1538): the payload has neither, and its roles take   *)
(* turns but for what a user adds to a result or to a message before.      *)
AnthropicAccepts == Callable =>
    LET convo == Anthropic(Repaired(history)) IN
    /\ \A i \in DOMAIN convo : convo[i].parts # <<>>
    /\ \A i \in 2..Len(convo) : convo[i].role = "assistant" => convo[i - 1].role = "user"
    /\ Breakpoints(system, convo) <= 4

(* What Anthropic redacted goes back to it.  Does not hold of a reply with *)
(* redacted thinking only: a message keeps it beside other reasoning.      *)
RedactedKept == \A got \in Contents("anthropic") :
    "redacted" \in got => FromAnthropicMessage(got).reasoning = "redacted"

Texts(ws) ==
    LET all == FlattenSeq([i \in DOMAIN ws |-> Kinds(ws[i], "text")]) IN [n \in DOMAIN all |-> all[n].text]

(* Every provider is shown every text once and in order, and a             *)
(* conversation sent in the chat dialect and read back (as the callers of  *)
(* Agent.run that keep it do) is the conversation, calls, results, images  *)
(* and kinds of reasoning included; the framework speaks as the user.      *)
NothingLost ==
    LET said == SelectSeq([i \in DOMAIN history |-> history[i].text], LAMBDA t : t # 0)
        AsUser(m) == [m EXCEPT !.api = "", !.role = IF @ = "FRAMEWORK" THEN "user" ELSE @]
    IN  /\ \A ws \in {Chat(history, "inject"), Responses(history), Anthropic(history), Gemini(history)} : Texts(ws) = said
        /\ FromChat(Chat(history, "inject")) = [i \in DOMAIN history |-> AsUser(history[i])]
=============================================================================
