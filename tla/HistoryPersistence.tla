-------------------------- MODULE HistoryPersistence --------------------------
(***************************************************************************)
(* How an agent's conversation reaches the run-action log and comes back:  *)
(* HistoryList (src/nexau/archs/main_sub/history_list.py), the flushes of  *)
(* the executor's loop and of Agent._run_async_inner / _run_inner.         *)
(*                                                                         *)
(* A message is [id, run]: its place in the order of creation and the run  *)
(* that produced it; one message stands for all that an iteration adds.    *)
(* A row is stamped when its write starts, which decides its place in the  *)
(* log, and becomes visible when the write lands.  What the reader makes   *)
(* of the rows is the forward reduction (module Conversation).             *)
(***************************************************************************)
EXTENDS Messages, Integers

CONSTANTS
    MaxMessages,   \* bound on the messages created
    MaxRuns,       \* bound on the runs started
    MaxFaults,     \* bound on the writes that fail
    MaxCancels,    \* bound on the runs cancelled
    MaxRestarts    \* bound on crashes, hand-overs and closed event loops

HistoryBounds ==
    {MaxMessages, MaxRuns, MaxFaults, MaxCancels, MaxRestarts} \subseteq Nat

VARIABLES
    pc,          \* idle, loading, saving (the question), running, syncing (an iteration)
    run,         \* HistoryList._run_id, numbered
    mem,         \* the HistoryList, without system messages
    baseline,    \* its _baseline_fingerprints
    working,     \* the executor's state.messages
    scheduled,   \* payloads of background tasks that have not started
    rows,        \* [replace, messages, run, state], in the order of their stamps
    awaited,     \* the row flush_async is waiting for, or 0
    created,     \* number of messages created
    budget,      \* faults, cancels and restarts still to come
    completed,   \* history: the messages an awaited flush has made durable
    disturbed    \* history: a write was lost or a load missed one

memory == <<pc, run, mem, baseline, working, scheduled, awaited>>
vars == <<memory, rows, created, budget, completed, disturbed>>

Idents(ms) == {ms[i].id : i \in DOMAIN ms}
Writing == {i \in DOMAIN rows : rows[i].state = "writing"}

Init ==
    /\ pc = "idle" /\ run = 0 /\ mem = <<>> /\ baseline = <<>> /\ working = <<>>
    /\ scheduled = <<>> /\ rows = <<>> /\ awaited = 0 /\ created = 0
    /\ budget = [faults |-> MaxFaults, cancels |-> MaxCancels, restarts |-> MaxRestarts]
    /\ completed = {} /\ disturbed = FALSE

Spend(kind) == budget[kind] > 0 /\ budget' = [budget EXCEPT ![kind] = @ - 1]

Creates == created < MaxMessages /\ created' = created + 1

\* The next message, a product of run r.
Created(r) == [id |-> created + 1, run |-> r]

------------------------------------------------------------------------------
(* Writing and reading *)

\* Seeded defect: only the number of messages is compared.
DiffByLength(ms, base) ==
    IF Len(base) <= Len(ms)
    THEN [replace |-> FALSE, messages |-> SubSeq(ms, Len(base) + 1, Len(ms))]
    ELSE [replace |-> TRUE, messages |-> ms]

\* _prepare_flush: the tail behind the baseline, or everything when the
\* baseline is not a prefix.  A payload without messages is not written.
Diff(ms, base) ==
    IF IsPrefix(base, ms)
    THEN [replace |-> FALSE, messages |-> SubSeq(ms, Len(base) + 1, Len(ms))]
    ELSE [replace |-> TRUE, messages |-> ms]

Scheduling(payload) == IF payload.messages = <<>> THEN scheduled ELSE Append(scheduled, payload)

Stamped(payload, r) ==
    [replace |-> payload.replace, messages |-> payload.messages, run |-> r, state |-> "writing"]

Load ==
    LET stored == SelectSeq(rows, LAMBDA r : r.state = "stored")
        anchors == {i \in DOMAIN stored : stored[i].replace}
        live == SubSeq(stored, IF anchors = {} THEN 1 ELSE Max(anchors), Len(stored))
    IN  ApplyMessages(<<>>, FlattenSeq([i \in DOMAIN live |-> live[i].messages]))

\* A background task starts: the write gets its stamp, and the run id read is
\* the current one.
StartTask ==
    /\ scheduled # <<>>
    /\ scheduled' = Tail(scheduled)
    /\ rows' = Append(rows, Stamped(Head(scheduled), run))
    /\ UNCHANGED <<pc, run, mem, baseline, working, awaited, created, budget, completed, disturbed>>

Settle(i, outcome) ==
    /\ rows' = [rows EXCEPT ![i].state = outcome]
    /\ IF outcome = "failed"
       THEN Spend("faults") /\ disturbed' = TRUE
       ELSE UNCHANGED <<budget, disturbed>>

\* Seeded defect: a write takes its place in the log when it lands.
LandAtTail(i, outcome) ==
    /\ i # awaited
    /\ rows' = Append(RemoveAt(rows, i), [rows[i] EXCEPT !.state = outcome])
    /\ awaited' = IF awaited > i THEN awaited - 1 ELSE awaited
    /\ UNCHANGED <<pc, run, mem, baseline, working, scheduled, created, completed, budget, disturbed>>

\* A background write ends; a failure is only logged.
Land(i, outcome) ==
    /\ i # awaited
    /\ Settle(i, outcome)
    /\ UNCHANGED <<memory, created, completed>>

------------------------------------------------------------------------------
(* A run *)

\* The start of a run behind the restored history: the user's message is
\* appended and written at once, in front of any task that has not started.
Submit(restored) ==
    LET question == Append(restored, Created(run'))
    IN  /\ Creates
        /\ mem' = question
        /\ baseline' = restored
        /\ rows' = Append(rows, Stamped(Diff(question, restored), run'))
        /\ awaited' = Len(rows) + 1
        /\ pc' = "saving"

\* HistoryList.update_context: a flush of what the run before left behind, then
\* the new run id and the baseline.  RUN_END was awaited since the last flush,
\* so the tasks that it scheduled have started.
UpdateContext ==
    /\ pc = "idle" /\ scheduled = <<>> /\ run < MaxRuns
    /\ scheduled' = Scheduling(Diff(mem, baseline))
    /\ run' = run + 1

\* A run of an agent that has its history in memory.
StartRun ==
    /\ UpdateContext
    /\ mem # <<>>
    /\ Submit(mem)
    /\ UNCHANGED <<working, budget, completed, disturbed>>

\* The first run of an agent object reads the log.
StartFresh ==
    /\ UpdateContext
    /\ mem = <<>>
    /\ pc' = "loading"
    /\ baseline' = mem
    /\ UNCHANGED <<mem, working, rows, awaited, created, budget, completed, disturbed>>

Loaded ==
    /\ pc = "loading"
    /\ UNCHANGED run
    /\ Submit(Load)
    /\ disturbed' = (disturbed \/ Writing # {})
    /\ UNCHANGED <<working, scheduled, budget, completed>>

\* flush_async returns: the baseline advances whatever became of the write.
FlushReturns(outcome) ==
    /\ awaited # 0
    /\ Settle(awaited, outcome)
    /\ awaited' = 0
    /\ baseline' = mem
    /\ working' = mem
    /\ pc' = "running"
    /\ completed' = IF outcome = "stored" THEN completed \cup Idents(rows[awaited].messages) ELSE completed
    /\ UNCHANGED <<run, mem, scheduled, created>>

\* An await of the loop: by then the scheduled tasks have started.
Running == pc = "running" /\ scheduled = <<>>

\* An iteration with tool calls ends: _persist_iter_progress hands the messages
\* to the history and awaits the flush.
Iterate ==
    /\ Running
    /\ Creates
    /\ working' = Append(working, Created(run))
    /\ mem' = working'
    /\ rows' = Append(rows, Stamped(Diff(working', baseline), run))
    /\ awaited' = Len(rows) + 1
    /\ pc' = "syncing"
    /\ UNCHANGED <<run, baseline, scheduled, budget, completed, disturbed>>

\* What a compaction makes of the working messages: a summary and a proper tail.
Compactions == {<<Created(run)>> \o SubSeq(working, i, Len(working)) : i \in 2..Len(working)}

\* A middleware that rewrites the messages without a typed event.
Rewrite ==
    /\ Running
    /\ Creates
    /\ working' \in Compactions
    /\ completed' = completed \ (Idents(working) \ Idents(working'))
    /\ UNCHANGED <<pc, run, mem, baseline, scheduled, rows, awaited, budget, disturbed>>

\* A typed compaction: replace_all installs the messages, moves the baseline and
\* schedules the REPLACE in the background.
Compact ==
    /\ Running
    /\ Creates
    /\ working' \in Compactions
    /\ mem' = working' /\ baseline' = working'
    /\ scheduled' = Append(scheduled, [replace |-> TRUE, messages |-> working'])
    /\ completed' = completed \ (Idents(working) \ Idents(working'))
    /\ UNCHANGED <<pc, run, rows, awaited, budget, disturbed>>

\* The executor ends, normally or with an error: the messages go to the history
\* and the end-of-run flush is scheduled, not awaited.
EndRun(messages) ==
    /\ mem' = messages
    /\ baseline' = messages
    /\ scheduled' = Scheduling(Diff(messages, baseline))
    /\ working' = <<>>
    /\ pc' = "idle"

Finish ==
    /\ Running
    /\ \/ Creates /\ EndRun(Append(working, Created(run)))
       \/ EndRun(working) /\ UNCHANGED created
    /\ UNCHANGED <<run, rows, awaited, budget, completed, disturbed>>

\* A cancelled write has reached the storage or never will.
CancelledRows ==
    \E outcome \in {"stored", "failed"} : rows' = [rows EXCEPT ![awaited].state = outcome]

\* A run cancelled while an iteration is being persisted: CancelledError passes
\* flush_async before the baseline moves, and the flush of _run_inner repeats it.
CancelSync ==
    /\ pc = "syncing"
    /\ Spend("cancels")
    /\ CancelledRows
    /\ awaited' = 0
    /\ EndRun(working)
    /\ UNCHANGED <<run, created, completed, disturbed>>

\* A run cancelled while the user's message is being persisted: this is outside
\* _run_inner, and the message stays unflushed until the next run.
CancelSave ==
    /\ pc = "saving"
    /\ Spend("cancels")
    /\ CancelledRows
    /\ awaited' = 0
    /\ pc' = "idle"
    /\ disturbed' = TRUE
    /\ UNCHANGED <<run, mem, baseline, working, scheduled, created, completed>>

------------------------------------------------------------------------------
(* The process *)

Forget ==
    /\ mem' = <<>> /\ baseline' = <<>> /\ working' = <<>> /\ scheduled' = <<>>
    /\ awaited' = 0
    /\ pc' = "idle"
    /\ UNCHANGED <<run, created, completed>>

AbandonWrites == rows' = [i \in DOMAIN rows |->
    IF i \in Writing THEN [rows[i] EXCEPT !.state = "failed"] ELSE rows[i]]

\* The process dies: memory and unfinished writes are gone.
Crash ==
    /\ Spend("restarts")
    /\ Forget
    /\ AbandonWrites
    /\ UNCHANGED disturbed

\* The next run is another agent object's, perhaps in another process, while
\* this one's background writes still go on.
HandOver ==
    /\ pc = "idle" /\ scheduled = <<>>
    /\ mem # <<>>
    /\ Spend("restarts")
    /\ Forget
    /\ UNCHANGED <<rows, disturbed>>

\* asyncio.run returns: it cancels the background writes that are not done.
LoopCloses ==
    /\ pc = "idle" /\ scheduled = <<>>
    /\ Writing # {}
    /\ Spend("restarts")
    /\ AbandonWrites
    /\ disturbed' = TRUE
    /\ UNCHANGED <<memory, created, completed>>

Next ==
    \/ StartRun \/ StartFresh \/ Loaded
    \/ Iterate \/ Rewrite \/ Compact \/ Finish
    \/ CancelSync \/ CancelSave
    \/ StartTask
    \/ \E outcome \in {"stored", "failed"} : FlushReturns(outcome) \/ \E i \in Writing : Land(i, outcome)
    \/ Crash \/ HandOver \/ LoopCloses

Spec == Init /\ [][Next]_vars

------------------------------------------------------------------------------
(* Properties *)

Written == [id : 1..MaxMessages, run : 1..MaxRuns]

\* The types; no row without messages is in the log, and a flush that is
\* awaited is always one that is still being written.
TypeOK ==
    /\ pc \in {"idle", "loading", "saving", "running", "syncing"}
    /\ run \in 0..MaxRuns /\ created \in 0..MaxMessages
    /\ \A ms \in {mem, baseline, working} : \A i \in DOMAIN ms : ms[i] \in Written
    /\ \A i \in DOMAIN rows : rows[i].messages # <<>> /\ rows[i].run \in 1..MaxRuns
    /\ pc \in {"saving", "syncing"} <=> awaited \in Writing
    /\ completed \subseteq 1..created

\* With the agent at rest and its writes done, reading the log gives back the
\* conversation in memory: across appends, typed and untyped compactions,
\* cancelled iterations and new agent objects, as long as no write was lost.
RestIsFaithful ==
    pc = "idle" /\ mem # <<>> /\ scheduled = <<>> /\ Writing = {} /\ ~disturbed => Load = mem

\* A crash loses no completed iteration: what an awaited flush has stored, and no
\* compaction has summarised since, is read back, whatever writes of a
\* compaction are still under way, fail, or land late.
CompletedIsDurable == completed \subseteq Idents(Load)

\* The messages of a run behind its question.
Replies == {mem[i].id : i \in {j \in DOMAIN mem : \E q \in 1..j - 1 : mem[q].run = mem[j].run}}

\* "Failure here means the iter's messages stay in _pending and the next flush
\* (or end-of-run flush) catches them" (executor.py): a run that has ended with
\* its last write stored has what its iterations produced stored.
FailedFlushCaughtUp ==
    pc = "idle" /\ scheduled = <<>> /\ Writing = {} /\ rows # <<>> /\ Last(rows).state = "stored"
        => Replies \subseteq Idents(Load)

\* "Automatically flushes pending messages from previous run before updating
\* context" (history_list.py): a conversation is read in the order of its runs.
EarlierRunsFirst ==
    \A i, j \in DOMAIN Load : i < j => Load[i].run <= Load[j].run
=============================================================================
