------------------------------- MODULE MCModel -------------------------------
(* What lies between a conversation and the model that is asked, side by side:*)
(* its compaction, the payload it becomes, the screening of what the model reads*)
(* and says, and the stream its answer arrives in.  A behaviour is one of a single*)
(* component, whose bounds stand at its INSTANCE.                           *)
EXTENDS SequencesExt, FiniteSetsExt, Integers

\* The two strategies of compaction, one of them with both ways of grouping; of the two
\* calls of an answer the first is one whose results may be compacted.
MCConfigs ==
    {[strategy |-> "llm_summary", unit |-> "iterations", keep |-> 1],
     [strategy |-> "llm_summary", unit |-> "user_rounds", keep |-> 1],
     [strategy |-> "tool_result", unit |-> "iterations", keep |-> 1]}

\* Words that overlap, from two sources; and each action for what comes
\* in and for what is said.
MCSources == <<{<<"A", "b">>, <<"c", "a", "b", "c">>}, {<<"b", "b">>}>>
MCFold == [c \in {"a", "A", "b", "c"} |-> IF c = "A" THEN "a" ELSE c]
Policy(input, output) == [input |-> input, output |-> output, raises |-> FALSE]
MCPolicies == {Policy("mask", "terminate"), Policy("soft_reject", "mask"), Policy("terminate", "soft_reject")}

VARIABLE part \* the component under way
VARIABLES config, msgs, phase, created, archive, dropped, given, lossy
VARIABLES system, history
VARIABLES policy, messages, queue, screeningPhase, iteration, response, reported, stopped,
    fresh, runs
VARIABLES vendor, agg, wire, view, sent, stage

C == INSTANCE Compaction WITH Configs <- MCConfigs, MaxCalls <- 2, Compactable <- {1},
    MaxMessages <- 8
P == INSTANCE Payloads WITH Apis <- {"anthropic", "gemini"}, Interruptible <- {"anthropic"},
    Images <- TRUE, SystemBlocks <- {<<>>, <<TRUE, FALSE, TRUE, TRUE, TRUE, TRUE>>},
    MaxMessages <- 5, MaxCalls <- 2
S == INSTANCE Screening WITH Sources <- MCSources, Fold <- MCFold,
    Texts <- {<<"c">>, <<"A", "b", "b">>}, Chain <- <<"plain", "screen">>, Policies <- MCPolicies,
    Replays <- FALSE, AddsAfter <- FALSE, LongestText <- 4, MaxBlocks <- 1, MaxRuns <- 2,
    MaxIterations <- 1, MaxQueue <- 1, phase <- screeningPhase
T == INSTANCE Streams WITH Vendors <- {"chat", "anthropic", "gemini", "responses"}, MaxItems <- 2,
    PartsPerItem <- 1, MaxPieces <- 5

ASSUME C!CompactionAssumption /\ P!PayloadsAssumption /\ S!ScreeningAssumption /\ T!StreamsAssumption /\ T!PartsAssumption /\ T!ItemsAssumption

compactionVars == <<config, msgs, phase, created, archive, dropped, given, lossy>>
payloadVars == <<system, history>>
screeningVars == <<policy, messages, queue, screeningPhase, iteration, response, reported,
    stopped, fresh, runs>>
streamVars == <<vendor, agg, wire, view, sent, stage>>
vars == <<part, compactionVars, payloadVars, screeningVars, streamVars>>

\* The other components are left out of a behaviour.
NoCompaction == config = 0 /\ msgs = 0 /\ phase = 0 /\ created = 0 /\ archive = 0 /\ dropped = 0
    /\ given = 0 /\ lossy = 0
NoPayload == system = 0 /\ history = 0
NoScreening == policy = 0 /\ messages = 0 /\ queue = 0 /\ screeningPhase = 0 /\ iteration = 0
    /\ response = 0 /\ reported = 0 /\ stopped = 0 /\ fresh = 0 /\ runs = 0
NoStream == vendor = 0 /\ agg = 0 /\ wire = 0 /\ view = 0 /\ sent = 0 /\ stage = 0

Init ==
    \/ part = "compaction" /\ C!Init /\ NoPayload /\ NoScreening /\ NoStream
    \/ part = "payload" /\ P!Init /\ NoCompaction /\ NoScreening /\ NoStream
    \/ part = "screening" /\ S!Init /\ NoCompaction /\ NoPayload /\ NoStream
    \/ part = "stream" /\ T!Init /\ NoCompaction /\ NoPayload /\ NoScreening

InCompaction(A) == part = "compaction" /\ UNCHANGED <<part, payloadVars, screeningVars, streamVars>> /\ A
InPayload(A) == part = "payload" /\ UNCHANGED <<part, compactionVars, screeningVars, streamVars>> /\ A
InScreening(A) == part = "screening" /\ UNCHANGED <<part, compactionVars, payloadVars, streamVars>> /\ A
InStream(A) == part = "stream" /\ UNCHANGED <<part, compactionVars, payloadVars, screeningVars>> /\ A

Next ==
    \/ InCompaction(C!Next)
    \/ InPayload(P!Next)
    \/ InScreening(S!Next)
    \/ InStream(T!Next)

Spec == Init /\ [][Next]_vars

------------------------------------------------------------------------------
\* Compaction: whatever compactions lie behind it, the model and the model that summarises
\* are only given calls with their results, and results with their calls; and as long as
\* no summary left anything out, every message of the conversation is in the prompt or
\* behind a chain of summaries that is.
CompactedWhole == part = "compaction" => C!CallsAndResults /\ C!SummariserGetsPairs /\ C!Remembered

\* Compaction: none removes, changes or moves what the model has to react to.
RecentKept == [][part = "compaction" => C!KeepsRecent]_vars

\* Payloads: what a provider is sent has every call answered, once and behind it, as its
\* dialect wants it; nothing said is lost; and no more than four cache marks are set.
AcceptedWhole == part = "payload" => P!CallsAnswered /\ P!AnthropicAccepts /\ P!NothingLost

\* Screening: no model reads a word of the lexicon, of a refused reply nothing is left,
\* and nobody is refused twice for one message; and masking takes out the words and
\* nothing else.  (The last of all texts up to a length; it is enough to look at the
\* first state.)
ScreenedOut ==
    part = "screening" =>
        /\ S!ModelReadsNoWord /\ S!RefusedIsGone /\ S!RejectedOnce
        /\ runs = 0 /\ queue = <<>> => S!MasksExactly

\* Streams: a client is shown every item from START to END, the deltas once and in order,
\* and nothing stays open; and the message built is what it was shown.
ShownAsBuilt == part = "stream" => T!StartDeltasEnd /\ T!NothingLeftOpen /\ T!BuiltAsShown
==============================================================================
