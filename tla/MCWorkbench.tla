----------------------------- MODULE MCWorkbench -----------------------------
(* What an agent works with, side by side: the files of a sandbox, the calls *)
(* of tools, the editing tools and the sessions of the command line.  A      *)
(* behaviour is one of a single component, whose bounds stand at its INSTANCE.*)
EXTENDS SequencesExt, FiniteSetsExt, Integers

CONSTANTS
    Trees, Operations, Elsewhere,               \* of Workspace: see the MC definitions below
    Before, Calls, FileTexts, Chunks, Texts, Olds, News, Hunks, \* of Edits
    Absent, None, Torn                          \* no file, no session, a file that cannot be parsed

\* A plain tool, one that a search finds, a serial one that stops the agent, and one
\* with permission rules that is added later.
ATool(n, f) == [name |-> n, deferred |-> "deferred" \in f, ruled |-> "ruled" \in f, serial |-> "serial" \in f,
                async |-> "async" \in f, lazy |-> "lazy" \in f, stop |-> "stop" \in f]
MCCatalogue == <<ATool("search", {}), ATool("remote", {"deferred", "async", "lazy"}), ATool("done", {"stop", "serial"})>>
MCAdditions == {ATool("late", {"ruled"})}

MCPlain == [c \in {"a", "b", "n", " ", "nl", "quote"} |-> IF c = "quote" THEN "b" ELSE c]

VARIABLE part \* the component under way
VARIABLES tree, o, todo, got, answer, faults, start, seen, hit
VARIABLES tools, injected, defined, ruled, loaded, calls, results, phase, verdict, found,
    iteration, runs
VARIABLES files, call, step, done, pending, first, editsAnswer, editsFaults, count
VARIABLES manifest, checkpoint, transcript, up, agents, self, cliTodo, local, restored,
    cursor, alive, interrupt, stopped, told, messages, commands, crashes, cliFaults, saved,
    missed, risks

W == INSTANCE Workspace WITH MaxFaults <- 2
T == INSTANCE ToolCalls WITH Catalogue <- MCCatalogue, Additions <- MCAdditions, Ids <- {<<"x">>},
    Outcomes <- {"result", "error", "invalid", "ask"}, Raising <- {"sync"}, AddsInRun <- FALSE,
    Rebuilds <- FALSE, SearchLimit <- 1, Chars <- {"x", "nl"}, MaxChars <- 5, HeadLines <- 1,
    TailLines <- 1, HeadChars <- 2, TailChars <- 2, Separator <- <<"...">>, LongestOutput <- 8,
    MaxCalls <- 2, MaxRuns <- 2, MaxIterations <- 1
E == INSTANCE Edits WITH Paths <- {"f", "g"}, Plain <- MCPlain, MaxCalls <- 3, MaxFaults <- 1,
    MaxChunks <- 2, MaxHunks <- 2, Strategies <- {"exact"}, answer <- editsAnswer,
    faults <- editsFaults
S == INSTANCE CliSessions WITH Sessions <- {"s1", "s2", "other"}, MaxMessages <- 2, MaxCommands <- 4, MaxEvents <- 4,
    MaxAgents <- 4, MaxCrashes <- 1, MaxFaults <- 1, TearsFiles <- TRUE,
    Beside <- {"other"}, GoesOn <- FALSE, Compacts <- FALSE, todo <- cliTodo, faults <- cliFaults

\* The files of a sandbox: "d" holds files and a directory, "e" is a file beside it; every
\* kind of call on them, and what another tool may do meanwhile.
\* (The entries are spelt out: what an INSTANCE is given may not be defined by it.)
Dir == [dir |-> TRUE, text |-> <<>>]
File(text) == [dir |-> FALSE, text |-> text]
Empty == <<>> :> Dir
Full(x) ==
    Empty @@ (<<"d">> :> Dir) @@ (<<"d", "f">> :> File(x)) @@ (<<"d", "s">> :> Dir)
    @@ (<<"d", "s", "f">> :> File(<<"B">>)) @@ (<<"e">> :> File(<<"A">>))
MCTrees ==
    {Empty} \cup {Full(x) : x \in {<<"A">>, <<"A", "A">>, <<"A", "B">>, <<"A", "CRLF">>, <<"A", "escape">>, <<"bytes">>}}

Places == {<<"d">>, <<"d", "f">>, <<"d", "s">>, <<"d", "s", "f">>, <<"e">>, <<"e", "f">>, <<"n", "f">>}
Named == {<<"d">>, <<"d", "f">>, <<"e">>, <<"n">>}
Patterns == {{"f"}, {"d", "e", "f", "s"}}
Source == (<<>> :> Dir) @@ (<<"f">> :> File(<<"B">>)) @@ (<<"s">> :> Dir) @@ (<<"s", "g">> :> File(<<"A">>))
Hollow == (<<>> :> Dir) @@ (<<"s">> :> Dir)
Of(op, p) == [op |-> op, path |-> p]
MCOperations ==
    {Of(op, p) : op \in {"read", "delete", "exists", "info", "download"}, p \in Places}
    \cup {[op |-> "write", path |-> p, text |-> <<"B">>] : p \in Places}
    \cup {[op |-> "list", path |-> p, recursive |-> r, pattern |-> n] : p \in Named, r \in BOOLEAN, n \in Patterns}
    \cup {[op |-> "mkdir", path |-> p, parents |-> b] : p \in Places, b \in BOOLEAN}
    \cup {[op |-> "edit", path |-> p, old |-> x, new |-> y] :
            p \in Named \cup {<<"n", "f">>}, x \in {<<>>, <<"A">>, <<"B">>, <<"double escape">>}, y \in {<<>>, <<"B">>}}
    \cup {[op |-> "glob", path |-> <<>>, recursive |-> r, glob |-> [dir |-> d, deep |-> b, names |-> n]] :
            r \in BOOLEAN, d \in {<<>>, <<"d">>}, b \in BOOLEAN, n \in Patterns}
    \cup {[op |-> "upload", path |-> p, source |-> s] : p \in Named, s \in {Source, Hollow}}
MCElsewhere ==
    {Of("delete", <<"d", "f">>), Of("delete", <<"d">>), [op |-> "write", path |-> <<"n", "f">>, text |-> <<"A">>],
     [op |-> "write", path |-> <<"d", "f">>, text |-> <<"A", "B">>]}

\* The texts, chunks and hunks editing is checked on, and the calls of its tools.
LineA == <<"a">>
LineB == <<"b">>
LineN == <<"n">>
Text(ls) == FlattenSeq([i \in DOMAIN ls |-> Append(ls[i], "nl")])
Unended(ls) == IF ls = <<>> THEN <<>> ELSE Front(Text(ls))
PatchLine(kind, arg) == [kind |-> kind, arg |-> arg]
NoContext == <<"@@">>
Chunk(context, old, new, eof) == [context |-> context, old |-> old, new |-> new, eof |-> eof]
Hunk(kind, path, move, text, chunks) == [kind |-> kind, path |-> path, move |-> move, text |-> text, chunks |-> chunks]
UpTo(k, X) == UNION {[1..l -> X] : l \in 0..k}

MCFileTexts ==
    {Text(ls) : ls \in UpTo(3, {LineA, LineB})} \cup {Unended(ls) : ls \in UpTo(2, {LineA, LineB})}
    \cup {Text(<<LineA, <<>>, LineB>>), Text(<<<<" ", "a">>, LineA, <<"quote", " ">>>>)}
MCChunks ==
    {Chunk(context, old, new, FALSE) : context \in {NoContext, LineA},
        old \in {<<>>, <<LineA>>, <<LineB>>, <<LineA, LineB>>, <<LineA, <<>>>>}, new \in {<<>>, <<LineN>>, <<LineN, LineA>>}}
MCTexts == UpTo(5, {"a", " ", "nl"}) \cup {<<"a", "b", "a", "b", "a">>}
MCOlds == {LineA, <<"a", "a">>, <<"a", "b", "a">>, <<"nl", "a">>, <<" ", "a">>, <<"a", "nl", "a">>}
MCNews == {<<>>, LineN, <<"n", "nl", "n">>}
MCHunks ==
    {Hunk("add", "f", Absent, t, <<>>) : t \in {<<>>, Text(<<LineA, <<>>>>)}} \cup {Hunk("delete", "f", Absent, <<>>, <<>>)}
    \cup {Hunk("update", "f", m, <<>>, cs) : m \in {Absent, "g"},
            cs \in {<<Chunk(x, <<LineA>>, <<LineN>>, e)>> : x \in {NoContext, LineB}, e \in BOOLEAN}
                   \cup {<<Chunk(NoContext, <<LineA>>, <<LineN>>, FALSE), Chunk(x, <<>>, <<LineB>>, FALSE)>> : x \in {NoContext, LineA}}}

MCBefore ==
    {[p \in {"f", "g"} |-> IF p = "f" THEN t ELSE u] : t \in {Text(<<LineA, LineB>>), Text(<<LineA, LineA>>), Absent}, u \in {Absent, Text(<<LineB>>)}}
Update(p, m, old, new) ==
    <<PatchLine("update", p)>> \o (IF m = Absent THEN <<>> ELSE <<PatchLine("move", m)>>)
    \o <<PatchLine("bare", <<>>), PatchLine("minus", old), PatchLine("plus", new)>>
MCCalls ==
    {[tool |-> "replace", path |-> "f", old |-> x, new |-> LineN, expected |-> e] : x \in {<<>>, LineA}, e \in 1..2}
    \cup {[tool |-> "multiedit", path |-> "f", edits |-> <<[old |-> x, new |-> LineN, all |-> all], [old |-> m, new |-> LineB, all |-> FALSE]>>]
            : x \in {<<>>, LineA}, m \in {<<>>, LineN}, all \in BOOLEAN}
    \cup {[tool |-> "patch", patch |-> Update("f", m, LineA, LineN) \o rest] : m \in {Absent, "g"},
            rest \in {<<>>, Update("g", Absent, LineB, LineN), <<PatchLine("delete", "g")>>,
                      <<PatchLine("add", "g"), PatchLine("plus", LineA)>>, <<PatchLine("context", LineA)>>}}

ASSUME W!WorkspaceAssumption /\ T!ToolCallsAssumption /\ S!CliAssumption

filesVars == <<tree, o, todo, got, answer, faults, start, seen, hit>>
toolsVars == <<tools, injected, defined, ruled, loaded, calls, results, phase, verdict, found,
    iteration, runs>>
editsVars == <<files, call, step, done, pending, first, editsAnswer, editsFaults, count>>
cliVars == <<manifest, checkpoint, transcript, up, agents, self, cliTodo, local, restored,
    cursor, alive, interrupt, stopped, told, messages, commands, crashes, cliFaults, saved,
    missed, risks>>
vars == <<part, filesVars, toolsVars, editsVars, cliVars>>

\* The other components are left out of a behaviour.
NoFiles == tree = 0 /\ o = 0 /\ todo = 0 /\ got = 0 /\ answer = 0 /\ faults = 0 /\ start = 0
    /\ seen = 0 /\ hit = 0
NoTools == tools = 0 /\ injected = 0 /\ defined = 0 /\ ruled = 0 /\ loaded = 0 /\ calls = 0
    /\ results = 0 /\ phase = 0 /\ verdict = 0 /\ found = 0 /\ iteration = 0 /\ runs = 0
NoEdits == files = 0 /\ call = 0 /\ step = 0 /\ done = 0 /\ pending = 0 /\ first = 0
    /\ editsAnswer = 0 /\ editsFaults = 0 /\ count = 0
NoCli == manifest = 0 /\ checkpoint = 0 /\ transcript = 0 /\ up = 0 /\ agents = 0 /\ self = 0
    /\ cliTodo = 0 /\ local = 0 /\ restored = 0 /\ cursor = 0 /\ alive = 0 /\ interrupt = 0
    /\ stopped = 0 /\ told = 0 /\ messages = 0 /\ commands = 0 /\ crashes = 0 /\ cliFaults = 0
    /\ saved = 0 /\ missed = 0 /\ risks = 0

Init ==
    \/ part = "files" /\ W!Init /\ NoTools /\ NoEdits /\ NoCli
    \/ part = "tools" /\ T!Init /\ NoFiles /\ NoEdits /\ NoCli
    \/ part = "edits" /\ E!Init /\ NoFiles /\ NoTools /\ NoCli
    \/ part = "cli" /\ S!Init /\ NoFiles /\ NoTools /\ NoEdits

InFiles(A) == part = "files" /\ UNCHANGED <<part, toolsVars, editsVars, cliVars>> /\ A
InTools(A) == part = "tools" /\ UNCHANGED <<part, filesVars, editsVars, cliVars>> /\ A
InEdits(A) == part = "edits" /\ UNCHANGED <<part, filesVars, toolsVars, cliVars>> /\ A
InCli(A) == part = "cli" /\ UNCHANGED <<part, filesVars, toolsVars, editsVars>> /\ A

Next ==
    \/ InFiles(W!Next)
    \/ InTools(T!Next)
    \/ InEdits(E!Next)
    \/ InCli(S!Next)

Spec == Init /\ [][Next]_vars

------------------------------------------------------------------------------
\* Files: a call is answered, and leaves the files, as the local sandbox would, whatever
\* requests are repeated and whatever another tool does meanwhile.
AsLocal == part = "files" => W!AnswersAsLocal /\ W!LeavesAsLocal

\* Tool calls: each has a result of its own that is told, a stop tool ends the run exactly
\* when it succeeded, a tool with permission rules runs by its rules, and a tool that a
\* search has found is offered in every later model call.  And an output over the limit
\* becomes shorter, and keeps its beginning and its end (of all outputs up to a length;
\* it is enough to look at the first state).
ToolsAreTrue ==
    part = "tools" =>
        /\ T!OwnResults /\ T!StopIsSuccess /\ T!RulesHeeded /\ T!FoundIsOffered
        /\ runs = 0 => T!LongIsShortened

\* Editing: a call that fails has said so or has changed nothing.
AllOrSaid == part = "edits" => E!AllOrSaid

\* Editing: a patch is read as it was written and changes the lines it names and no
\* other, and a replacement leaves what it does not replace as it was.  (Of all the texts,
\* chunks and hunks above; it is enough to look at one state.)
EditsAreFaithful ==
    part = "edits" /\ count = 0 /\ files = [p \in {"f", "g"} |-> Absent] =>
        E!PatchIsFaithful /\ E!ParsesBack /\ E!ReplacesOnly

\* Command line: a message that was saved can be resumed, in its own session and in no
\* other, when nothing is under way what can be resumed is what the agent remembers, and
\* the transcript holds all that a completed save has held: so long as none of the things has
\* happened that the sessions do not always survive (CliSessions, Notes).
SessionsKept == part = "cli" => S!SessionsKept /\ S!RestIsSaved /\ S!TranscriptKeeps
==============================================================================
