------------------------------ MODULE MCHistory ------------------------------
(* The records of a conversation, side by side: the log of run actions and its*)
(* reader, the way of an agent's messages into the log, the archive of what was*)
(* compacted and the token trace.  A behaviour is one of a single component, whose*)
(* bounds stand at its INSTANCE.                                            *)
EXTENDS FiniteSets, Integers, TLC

CONSTANT Runs \* the run ids of the log

\* What runs write to the log: a question, an interrupted thought with a call, an answer
\* with an edited question, and the summary of a compaction.
Msg(id, body, calls, answers, thinking) ==
    [id |-> id, body |-> body, calls |-> calls, answers |-> answers, thinking |-> thinking]
MCPayloads ==
    {<<Msg("user", "first", {}, {}, FALSE)>>,
     <<Msg("thought", "cut off", {}, {}, TRUE), Msg("assistant", "call", {"c1"}, {}, FALSE)>>,
     <<Msg("user", "edited", {}, {}, FALSE), Msg("tool", "answer", {}, {"c1"}, FALSE)>>}
MCSummary == Msg("summary", "summary", {}, {}, FALSE)
RunSymmetry == Permutations(Runs)

VARIABLE part \* the component under way
VARIABLES log, read, ties
VARIABLES pc, run, mem, baseline, working, scheduled, rows, awaited, created, budget,
    completed, disturbed
VARIABLES history, box, transcript, images, writer, told, lost, suffered, archiveCreated, rounds,
    mishaps
VARIABLES traceHistory, messages, queue, session, phase, attempt, iteration, ended, unseen,
    uncounted, traceCreated, runs, faults

R == INSTANCE RunActionLog WITH Payloads <- MCPayloads, Summary <- MCSummary,
    Markers <- {"RUN_START"}, PageSize <- 2, MaxActions <- 5, MaxTies <- 0
H == INSTANCE HistoryPersistence WITH MaxMessages <- 6, MaxRuns <- 3, MaxFaults <- 1,
    MaxCancels <- 1, MaxRestarts <- 1
V == INSTANCE HistoryArchive WITH Shapes <- {"merge", "insert", "drop"},
    Mishaps <- {"setup", "scan", "decode", "image", "read", "write", "before", "torn", "after",
        "restart", "recreate"}, MaxMessages <- 3, MaxRounds <- 3, MaxMishaps <- 2,
    created <- archiveCreated
T == INSTANCE TokenTrace WITH MadeBy <- "agent", Limit <- 6,
    Extras <- {"before_agent", "before_model", "after_model"},
    Stops <- {"signal", "before_model", "call"}, Retries <- 2, MaxRuns <- 2, MaxIterations <- 3,
    MaxMessages <- 6, MaxFaults <- 1, history <- traceHistory, created <- traceCreated

ASSUME R!PageSizeAssumption /\ H!HistoryBounds /\ V!ArchiveAssumption /\ T!TraceAssumption

logVars == <<log, read, ties>>
historyVars == <<pc, run, mem, baseline, working, scheduled, rows, awaited, created, budget,
    completed, disturbed>>
archiveVars == <<history, box, transcript, images, writer, told, lost, suffered, archiveCreated,
    rounds, mishaps>>
traceVars == <<traceHistory, messages, queue, session, phase, attempt, iteration, ended,
    unseen, uncounted, traceCreated, runs, faults>>
vars == <<part, logVars, historyVars, archiveVars, traceVars>>

\* The other components are left out of a behaviour.
NoLog == log = 0 /\ read = 0 /\ ties = 0
NoHistory == pc = 0 /\ run = 0 /\ mem = 0 /\ baseline = 0 /\ working = 0 /\ scheduled = 0
    /\ rows = 0 /\ awaited = 0 /\ created = 0 /\ budget = 0 /\ completed = 0 /\ disturbed = 0
NoArchive == history = 0 /\ box = 0 /\ transcript = 0 /\ images = 0 /\ writer = 0 /\ told = 0
    /\ lost = 0 /\ suffered = 0 /\ archiveCreated = 0 /\ rounds = 0 /\ mishaps = 0
NoTrace == traceHistory = 0 /\ messages = 0 /\ queue = 0 /\ session = 0 /\ phase = 0
    /\ attempt = 0 /\ iteration = 0 /\ ended = 0 /\ unseen = 0 /\ uncounted = 0
    /\ traceCreated = 0 /\ runs = 0 /\ faults = 0

Init ==
    \/ part = "log" /\ R!Init /\ NoHistory /\ NoArchive /\ NoTrace
    \/ part = "history" /\ H!Init /\ NoLog /\ NoArchive /\ NoTrace
    \/ part = "archive" /\ V!Init /\ NoLog /\ NoHistory /\ NoTrace
    \/ part = "trace" /\ T!Init /\ NoLog /\ NoHistory /\ NoArchive

InLog(A) == part = "log" /\ UNCHANGED <<part, historyVars, archiveVars, traceVars>> /\ A
InHistory(A) == part = "history" /\ UNCHANGED <<part, logVars, archiveVars, traceVars>> /\ A
InArchive(A) == part = "archive" /\ UNCHANGED <<part, logVars, historyVars, traceVars>> /\ A
InTrace(A) == part = "trace" /\ UNCHANGED <<part, logVars, historyVars, archiveVars>> /\ A

Next ==
    \/ InLog(R!Next)
    \/ InHistory(H!Next)
    \/ InArchive(V!Next)
    \/ InTrace(T!Next)

Spec == Init /\ [][Next]_vars

------------------------------------------------------------------------------
\* The log: what its reader, with its pages, its cutoff and its early stop, returns is at
\* first the empty conversation, and after every row what the row's action makes of the
\* conversation it returned before: the reader implements module Conversation.
ReducesForward ==
    /\ part = "log" => R!Reduction!Init
    /\ [][part = "log" => R!Reduction!Record]_vars

\* The log: what is loaded from it is what a provider accepts.  The way into it: at rest,
\* memory and log agree unless a write was lost, and what a completed flush stored stays.
ConversationKept ==
    /\ part = "log" => R!ProviderSafe
    /\ part = "history" => H!RestIsFaithful /\ H!CompletedIsDurable

\* The archive: what an agent is told is there, is there, but for what a failed read or write, a
\* write cut short or a lost sandbox costs.  The token trace: what the model was asked and what it
\* said is what the trace tells, but for the messages a run's end has passed over, and until a
\* middleware adds a message beside tool calls.
RecordsAreTrue == (part = "archive" => V!ArchiveIsTrue) /\ (part = "trace" => T!TraceIsTrue)
==============================================================================
