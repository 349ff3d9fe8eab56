----------------------------- MODULE ToolCalls -------------------------------
(***************************************************************************)
(* From a model's reply to the results it reads: the registry of an        *)
(* agent's tools, the parsing of a reply, the life of each call and the    *)
(* shortening of long outputs.  src/nexau/archs/tool/{tool_registry,tool}  *)
(* .py, archs/main_sub/execution/{response_parser,tool_executor}.py,       *)
(* middleware/long_tool_output.py and the asynchronous path of executor.py.*)
(*                                                                         *)
(* Which tools a search matches, what an implementation answers and what   *)
(* the hooks after it make of the answer is left open.  The sources of the *)
(* registry are one sequence, in the order they are searched.  Stops while *)
(* tools run, and the answering of questions, are modules of their own     *)
(* (Execution, Permissions).                                               *)
(***************************************************************************)
EXTENDS SequencesExt, FiniteSetsExt, Integers

CONSTANTS
    Catalogue,     \* the tools an agent is built with
    Additions,     \* the tools that may be added later
    Ids,           \* the ids a provider gives its calls
    Outcomes,      \* what a call may come to
    Raising,       \* the ways ("sync", "async") of the tools that raise on bad arguments
    AddsInRun,     \* may tools be added while the agent runs
    Rebuilds,      \* may a new agent take over the session
    SearchLimit,   \* the tools one search adds at most
    Chars, MaxChars, HeadLines, TailLines, HeadChars, TailChars, Separator,  \* how outputs are shortened
    LongestOutput, \* bound on the outputs shortening is checked on
    MaxCalls,      \* bound on the calls of a reply
    MaxRuns, MaxIterations

Names == {t.name : t \in Range(Catalogue) \cup Additions}
Tool == [name : Names, deferred : BOOLEAN, ruled : BOOLEAN, serial : BOOLEAN, async : BOOLEAN, lazy : BOOLEAN, stop : BOOLEAN]
Edits == {"keep", "fail", "mend"}

ToolCallsAssumption ==
    /\ Range(Catalogue) \cup Additions \subseteq Tool /\ \A t \in Additions : ~t.deferred
    /\ Outcomes \subseteq {"result", "error", "invalid", "nosandbox", "ask", "deny"}
    /\ Raising \subseteq {"sync", "async"} /\ {AddsInRun, Rebuilds} \subseteq BOOLEAN
    /\ HeadChars + TailChars <= MaxChars

VARIABLES
    tools,     \* the registry
    injected,  \* names of deferred tools a search has added
    defined,   \* names of the definitions the model is given
    ruled,     \* names of the tools whose permission rules the run has loaded
    loaded,    \* names of the lazy tools whose implementation has been imported
    calls,     \* the calls of the reply
    results,   \* what the calls that ended came to, by their place in calls
    phase,     \* "idle", "top", "asked" or "running"
    verdict,   \* what the last reply ended as: "none", "stop", "ask" or "again"
    found,     \* names a search has told the model of
    iteration, runs

vars == <<tools, injected, defined, ruled, loaded, calls, results, phase, verdict, found, iteration, runs>>
-----------------------------------------------------------------------------
(* The registry.                                                           *)

NoTool == [name |-> "none"]
Eager == SelectSeq(tools, LAMBDA t : ~t.deferred \/ t.name \in injected)
Deferred == {t \in Range(tools) : t.deferred /\ t.name \notin injected}
SerialNames == {t.name : t \in {u \in Range(tools) : u.serial}}

\* The first tool of a name, offered or not.
GetTool(name) ==
    LET at == {i \in DOMAIN tools : tools[i].name = name}
    IN  IF at = {} THEN NoTool ELSE tools[Min(at)]

\* What a search may come to: at most so many of the tools not yet offered, by their score.
Searches == {hits \in SUBSET Deferred : Cardinality(hits) <= SearchLimit}

\* The rules a run loads are those of the tools offered when it starts.
Ruled == {t.name : t \in {u \in Range(Eager) : u.ruled}}

\* Seeded defect: tools a search has added are not offered.
SnapshotBuilt == defined \o SelectSeq([i \in DOMAIN tools |-> tools[i].name],
                                      LAMBDA n : n \notin Range(defined) /\ ~GetTool(n).deferred)

\* The definitions so far, and those of the tools that have become eager.
Snapshot ==
    LET Define(names, t) == IF t.name \in Range(names) THEN names ELSE Append(names, t.name)
    IN  FoldLeft(Define, defined, Eager)
-----------------------------------------------------------------------------
(* A reply: structured calls, and XML blocks in the text.                  *)

Structured == [id : Ids, name : Names \cup {"unknown", ""}]
Block == [parallel : BOOLEAN, readable : BOOLEAN, name : Names \cup {"unknown"}]
Call(id, name) == [id |-> id, name |-> name]

\* Structured calls with a name, then the blocks: those of a parallel section alone
\* where there is one.  A block without a readable name is left out, and an XML call
\* gets an id of its own.
Parse(structured, blocks) ==
    LET named == SelectSeq(structured, LAMBDA s : s.name # "")
        section == \E b \in Range(blocks) : b.parallel
        read == SelectSeq(blocks, LAMBDA b : b.parallel = section /\ b.readable)
    IN  [i \in DOMAIN named |-> Call(named[i].id, named[i].name)]
        \o [i \in DOMAIN read |-> Call(<<"xml", i>>, read[i].name)]

\* Seeded defect: ids are taken as they come.
DistinctAsGiven(cs) == cs

\* An id that came before gets the number of its earlier occurrences.
Distinct(cs) ==
    [i \in DOMAIN cs |->
        LET earlier == Cardinality({j \in 1..(i - 1) : cs[j].id = cs[i].id})
        IN  IF earlier = 0 THEN cs[i] ELSE [cs[i] EXCEPT !.id = Append(@, earlier)]]
-----------------------------------------------------------------------------
(* A call.                                                                 *)

\* A tool is awaited when it is known to be asynchronous, which a lazy one is after
\* its first call.
Way(t) == IF t.async /\ (~t.lazy \/ t.name \in loaded) THEN "async" ELSE "sync"

\* Is the answer an error, before and after the hooks?
IsError(outcome) == outcome \in {"error", "invalid", "nosandbox", "unknown", "deny"}
Edited(error, edit) == IF edit = "keep" THEN error ELSE edit = "fail"

\* A failure in Tool.execute is an error result; what is raised before (arguments
\* that do not fit, no sandbox) ends the call, and only the synchronous way gives bad
\* arguments to the hooks after the tool.
Finalized(t, outcome) == outcome \in {"result", "error"} \/ (outcome = "invalid" /\ Way(t) = "sync")

\* Seeded defect: every result of a stop tool is marked.
StopMarkAlways(t, outcome, edit) == t.stop /\ ~Edited(IsError(outcome), edit)

\* The mark is set before the hooks on a result that is no error, and taken off
\* when they make it one.
StopMark(t, outcome, edit) == t.stop /\ ~IsError(outcome) /\ ~Edited(IsError(outcome), edit)

\* Seeded defect: a call of a tool nobody knows ends without telling the listeners.
TellsExecuted(t, outcome) == t # NoTool /\ Finalized(t, outcome)

\* Do the hooks after the tool, and so the listeners, hear of it?  They do of calls that
\* are turned down before they run.
Tells(t, outcome) == t = NoTool \/ Finalized(t, outcome)

Result(c, t, outcome, edit) ==
    LET final == t # NoTool /\ Finalized(t, outcome)
    IN  [id |-> c.id, outcome |-> IF t = NoTool THEN "unknown" ELSE outcome,
         error |-> IF final THEN Edited(IsError(outcome), edit) ELSE t = NoTool \/ IsError(outcome),
         stops |-> final /\ StopMark(t, outcome, edit),
         told |-> Tells(t, outcome),
         wrapped |-> t # NoTool /\ outcome # "nosandbox" /\ Way(t) = "sync",
         byRules |-> t # NoTool /\ t.ruled => c.name \in ruled]

\* What a call of a tool can come to.  Without rules everything is allowed.
Possible(t) ==
    IF t = NoTool THEN {"error"}
    ELSE {o \in Outcomes : /\ o \in {"ask", "deny"} => t.ruled /\ t.name \in ruled
                           /\ o = "invalid" => Way(t) \in Raising}

\* Serial calls one by one, in order, and before all others.
MayRun(i) ==
    /\ i \notin DOMAIN results
    /\ \A j \in DOMAIN calls \ DOMAIN results :
            calls[j].name \in SerialNames => j = i \/ (calls[i].name \in SerialNames /\ i < j)
-----------------------------------------------------------------------------
(* Outputs: sequences of characters, "nl" ends a line.                     *)

Lines(text) ==
    FoldLeft(LAMBDA ls, c : IF ls = <<>> \/ Last(Last(ls)) = "nl" THEN Append(ls, <<c>>)
                            ELSE [ls EXCEPT ![Len(ls)] = Append(@, c)], <<>>, text)

ByLines(text) ==
    LET ls == Lines(text)
    IN  IF Len(ls) <= HeadLines + TailLines THEN text
        ELSE FlattenSeq(SubSeq(ls, 1, HeadLines)) \o Separator
             \o FlattenSeq(SubSeq(ls, Len(ls) - TailLines + 1, Len(ls)))
ByChars(text) ==
    IF Len(text) <= HeadChars + TailChars THEN text
    ELSE SubSeq(text, 1, HeadChars) \o Separator \o SubSeq(text, Len(text) - TailChars + 1, Len(text))

Candidates(text) ==
    (IF HeadLines + TailLines = 0 THEN {} ELSE {ByLines(text)}) \cup (IF HeadChars + TailChars = 0 THEN {} ELSE {ByChars(text)})

\* Seeded defect: the longest of the shortened texts, whether it fits or not.
TruncateLongest(text) ==
    IF Candidates(text) = {} THEN text
    ELSE CHOOSE c \in Candidates(text) : \A d \in Candidates(text) : Len(d) <= Len(c)

\* The longest shortened text that fits, else the shortest.
Truncate(text) ==
    LET shorter == {c \in Candidates(text) : Len(c) < Len(text)}
        usable == IF shorter = {} THEN Candidates(text) ELSE shorter
        fits == {c \in usable : Len(c) < MaxChars}
    IN  IF usable = {} THEN text
        ELSE IF fits # {} THEN CHOOSE c \in fits : \A d \in fits : Len(d) <= Len(c)
        ELSE CHOOSE c \in usable : \A d \in usable : Len(c) <= Len(d)

\* An output with a text of its own and `rest` other characters is measured whole; its
\* text is shortened, and the hint says so and where the whole is kept.
Shown(text, rest) == IF Len(text) + rest <= MaxChars THEN text ELSE Truncate(text)
-----------------------------------------------------------------------------
Init ==
    /\ tools = Catalogue /\ injected = {} /\ defined = <<>> /\ ruled = {} /\ loaded = {}
    /\ calls = <<>> /\ results = <<>> /\ phase = "idle" /\ verdict = "none" /\ found = {} /\ iteration = 0 /\ runs = 0

\* Seeded defect: the rules are loaded once, for the first run.
StartLoaded ==
    /\ phase = "idle" /\ runs < MaxRuns
    /\ ruled' = IF runs = 0 THEN Ruled ELSE ruled
    /\ phase' = "top" /\ iteration' = 0 /\ runs' = runs + 1 /\ verdict' = "none" /\ calls' = <<>> /\ results' = <<>>
    /\ UNCHANGED <<tools, injected, defined, loaded, found>>

Start ==
    /\ phase = "idle" /\ runs < MaxRuns
    /\ ruled' = Ruled
    /\ phase' = "top" /\ iteration' = 0 /\ runs' = runs + 1 /\ verdict' = "none" /\ calls' = <<>> /\ results' = <<>>
    /\ UNCHANGED <<tools, injected, defined, loaded, found>>

Ask ==
    /\ phase = "top"
    /\ defined' = Snapshot
    /\ phase' = "asked" /\ iteration' = iteration + 1 /\ calls' = <<>> /\ results' = <<>>
    /\ UNCHANGED <<tools, injected, ruled, loaded, verdict, found, runs>>

Reply(structured, blocks) ==
    /\ phase = "asked"
    /\ calls' = Distinct(Parse(structured, blocks))
    /\ IF calls' = <<>> THEN phase' = "idle" /\ verdict' = "stop" ELSE phase' = "running" /\ UNCHANGED verdict
    /\ UNCHANGED <<tools, injected, defined, ruled, loaded, results, found, iteration, runs>>

\* Calls of tools that are not serial run side by side: they end in any order.
Execute(i, outcome, edit) ==
    /\ phase = "running" /\ MayRun(i)
    /\ LET t == GetTool(calls[i].name)
       IN  /\ outcome \in Possible(t)
           /\ results' = [j \in DOMAIN results \cup {i} |->
                            IF j = i THEN Result(calls[i], t, outcome, edit) ELSE results[j]]
           /\ loaded' = loaded \cup (IF t # NoTool /\ outcome # "nosandbox" THEN {t.name} ELSE {})
           /\ IF t # NoTool /\ t.name = "search" /\ outcome = "result"
              THEN \E hits \in Searches :
                     /\ injected' = injected \cup {d.name : d \in hits}
                     /\ found' = found \cup {d.name : d \in hits}
              ELSE UNCHANGED <<injected, found>>
    /\ UNCHANGED <<tools, defined, ruled, calls, phase, verdict, iteration, runs>>

\* The results of a reply go into the conversation together; a question ends the run
\* first, then a stop tool that succeeded.
Collect ==
    /\ phase = "running" /\ DOMAIN results = DOMAIN calls
    /\ verdict' = CASE \E r \in Range(results) : r.outcome = "ask" -> "ask"
                    [] \A r \in Range(results) : r.outcome # "ask" ->
                         IF \E r \in Range(results) : r.stops /\ ~r.error THEN "stop" ELSE "again"
    /\ phase' = IF verdict' = "again" /\ iteration < MaxIterations THEN "top" ELSE "idle"
    /\ UNCHANGED <<tools, injected, defined, ruled, loaded, calls, results, found, iteration, runs>>

\* From any thread, under the executor's lock.
AddTool(t) ==
    /\ t \notin Range(tools) /\ (phase = "idle" \/ AddsInRun)
    /\ tools' = Append(tools, t) /\ defined' = Append(defined, t.name)
    /\ UNCHANGED <<injected, ruled, loaded, calls, results, phase, verdict, found, iteration, runs>>

\* The session is taken over by an agent built anew.
Rebuild ==
    /\ phase = "idle" /\ Rebuilds
    /\ tools' = Catalogue /\ injected' = {} /\ defined' = <<>> /\ ruled' = {} /\ loaded' = {}
    /\ UNCHANGED <<calls, results, phase, verdict, found, iteration, runs>>

Next ==
    \/ Start
    \/ Ask
    \/ \E structured \in BoundedSeq(Structured, MaxCalls), blocks \in BoundedSeq(Block, 1) :
            Len(structured) + Len(blocks) <= MaxCalls /\ Reply(structured, blocks)
    \/ \E i \in DOMAIN calls, outcome \in Outcomes, edit \in Edits : Execute(i, outcome, edit)
    \/ Collect
    \/ \E t \in Additions : AddTool(t)
    \/ Rebuild

Spec == Init /\ [][Next]_vars
-----------------------------------------------------------------------------
TypeOK ==
    /\ Range(tools) \subseteq Tool /\ injected \cup ruled \cup loaded \cup found \cup Range(defined) \subseteq Names
    /\ DOMAIN results \subseteq DOMAIN calls /\ Len(calls) <= MaxCalls
    /\ phase \in {"idle", "top", "asked", "running"} /\ verdict \in {"none", "stop", "ask", "again"}
    /\ iteration \in 0..MaxIterations /\ runs \in 0..MaxRuns

\* Every call has a result of its own that the model can tell from the others, and
\* whoever listens to the run has heard of it, unless it waits for an answer.
OwnResults ==
    /\ \A i, j \in DOMAIN calls : i # j => calls[i].id # calls[j].id
    /\ \A r \in Range(results) : r.outcome # "ask" => r.told

\* A stop tool ends a run exactly when it did its work and the model is told so.
StopIsSuccess ==
    phase = "idle" /\ calls # <<>> =>
        (verdict = "stop" <=>
            /\ \E i \in DOMAIN calls : GetTool(calls[i].name) # NoTool /\ GetTool(calls[i].name).stop
                                       /\ results[i].outcome = "result" /\ ~results[i].error
            /\ \A r \in Range(results) : r.outcome # "ask")

\* A tool with permission rules runs by its rules.
RulesHeeded == \A r \in Range(results) : r.outcome = "result" => r.byRules

\* A tool that a search has found is offered in every later model call.
FoundIsOffered == phase = "asked" => found \subseteq Range(defined)

\* Middleware around tool calls sees each of them.
EachIsWrapped == \A r \in Range(results) : r.outcome \in {"result", "error"} => r.wrapped

\* An output over the limit is not shown whole: its text becomes shorter, and keeps
\* its beginning and its end.
LongIsShortened ==
    \A text \in BoundedSeq(Chars, LongestOutput) :
        Len(text) > MaxChars =>
            LET out == Shown(text, 0)
            IN  /\ Len(out) < Len(text) /\ Len(out) <= MaxChars
                /\ \E i, j \in 0..Len(out) : /\ i + j + Len(Separator) = Len(out)
                                             /\ SubSeq(out, 1, i) = SubSeq(text, 1, i)
                                             /\ SubSeq(out, Len(out) - j + 1, Len(out)) = SubSeq(text, Len(text) - j + 1, Len(text))
==============================================================================
