------------------------------- MODULE Execution -------------------------------
(***************************************************************************)
(* The loop that asks the model and runs its tool calls, in an agent and   *)
(* in the sub-agents its calls start, and what stop() does to it           *)
(* (src/nexau/archs/main_sub/execution/executor.py and llm_caller.py,      *)
(* subagent_manager.py, and run_async and stop of agent.py).               *)
(*                                                                         *)
(* A step is what happens between two awaits.  Messages are counted, not   *)
(* kept: of a run's history the model keeps which calls it holds and which *)
(* of them have a result.                                                  *)
(***************************************************************************)
EXTENDS Integers, FiniteSets

CONSTANTS
    Agents, Root,  \* the agents, and the one the user runs and stops
    Calls,         \* the tool calls the models may ever make
    OwnerOf,       \* whose model makes a call
    SubOf,         \* the sub-agent a call runs, for the calls that run one
    Serial,        \* calls of tools with disable_parallel
    StopCalls,     \* calls of stop tools
    Wrapped,       \* agents with middlewares: their model is called in a thread
    MaxIterations, \* max_iterations
    MaxAttempts,   \* retry_attempts
    MaxRuns,       \* bound on the runs of Root
    MaxMessages    \* bound on the messages that are enqueued

ASSUME ExecutionAssumption ==
    /\ Root \in Agents /\ Wrapped \subseteq Agents
    /\ OwnerOf \in [Calls -> Agents]
    /\ DOMAIN SubOf \subseteq Calls
    /\ \A c \in DOMAIN SubOf : SubOf[c] \in Agents \ {Root} /\ OwnerOf[c] = Root
    /\ MaxIterations \in Nat \ {0} /\ MaxAttempts \in Nat \ {0}
    /\ MaxRuns \in Nat /\ MaxMessages \in Nat

VARIABLES
    pc,        \* where each agent's run is
    stop,      \* stop_signal and _shutdown_event: set and cleared together
    iteration, \* state.iteration
    tries,     \* failed attempts of the model call
    turn,      \* the calls its run has made
    batch,     \* those of the answer it works on
    reason,    \* the stop reason its run ended with
    work,      \* where each call is
    queue,     \* the length of each queued_messages
    sent,      \* how many messages were enqueued
    closed,    \* agents that had a hard cleanup
    stopper,   \* the call of stop(): where it is, whether it timed out, the run it was made in
    runs       \* how many runs Root has had

loop == <<pc, stop, iteration, tries, turn, batch, reason>>
vars == <<loop, work, queue, sent, closed, stopper, runs>>

Init ==
    /\ pc = [e \in Agents |-> "idle"] /\ stop = [e \in Agents |-> FALSE]
    /\ iteration = [e \in Agents |-> 0] /\ tries = [e \in Agents |-> 0]
    /\ turn = [e \in Agents |-> {}] /\ batch = [e \in Agents |-> {}]
    /\ reason = [e \in Agents |-> "none"]
    /\ work = [c \in Calls |-> "unmade"]
    /\ queue = [e \in Agents |-> 0] /\ sent = 0
    /\ closed = [e \in Agents |-> FALSE]
    /\ stopper = [at |-> "none", late |-> FALSE, run |-> 0] /\ runs = 0

\* is_executing: _execution_done is not set.
Executing(e) == pc[e] \notin {"idle", "starting", "closing"}
\* running_sub_agents
Registered == {s \in Agents \ {Root} : pc[s] # "idle"}

Goto(e, to) == pc' = [pc EXCEPT ![e] = to]
EndWith(e, r) == Goto(e, "ending") /\ reason' = [reason EXCEPT ![e] = r]
Rework(cs, to) == work' = [c \in Calls |-> IF c \in cs THEN to ELSE work[c]]
In(e, state) == {c \in batch[e] : work[c] = state}

------------------------------------------------------------------------------
(* The loop *)

\* run_async up to the executor: the lock is held and _run_complete cleared.
Run ==
    /\ pc[Root] = "idle" /\ runs < MaxRuns
    /\ runs' = runs + 1
    /\ Goto(Root, "starting")
    /\ UNCHANGED <<stop, iteration, tries, turn, batch, reason, work, queue, sent, closed, stopper>>

\* execute_async clears the flags, whoever has set them.
Begin(e) ==
    /\ pc[e] = "starting"
    /\ stop' = [stop EXCEPT ![e] = FALSE]
    /\ iteration' = [iteration EXCEPT ![e] = 0] /\ turn' = [turn EXCEPT ![e] = {}]
    /\ reason' = [reason EXCEPT ![e] = "none"]
    /\ Goto(e, "top")
    /\ UNCHANGED <<tries, batch, work, queue, sent, closed, stopper, runs>>

\* The boundary between two iterations; the queue is appended to the messages...
Top(e) ==
    /\ pc[e] = "top"
    /\ IF iteration[e] >= MaxIterations THEN EndWith(e, "max_iterations")
       ELSE IF stop[e] THEN EndWith(e, "interrupted")
       ELSE Goto(e, IF queue[e] > 0 THEN "taking" ELSE "asking") /\ UNCHANGED reason
    /\ tries' = [tries EXCEPT ![e] = 0]
    /\ UNCHANGED <<stop, iteration, turn, batch, work, queue, sent, closed, stopper, runs>>

\* ... and replaced by an empty one, with what another thread appended since.
Take(e) ==
    /\ pc[e] = "taking"
    /\ queue' = [queue EXCEPT ![e] = 0]
    /\ Goto(e, "asking")
    /\ UNCHANGED <<stop, iteration, tries, turn, batch, reason, work, sent, closed, stopper, runs>>

\* A before_model or after_model hook that sets force_stop_reason; behind an
\* answer, its calls are not run.
ForceStop(e) ==
    /\ (pc[e] = "asking" /\ tries[e] = 0) \/ pc[e] = "answered"
    /\ EndWith(e, "forced")
    /\ Rework(batch[e], "dropped") /\ batch' = [batch EXCEPT ![e] = {}]
    /\ UNCHANGED <<stop, iteration, tries, turn, queue, sent, closed, stopper, runs>>

\* Seeded defect: the attempts are not counted.
FailedForever(e) ==
    IF stop[e] THEN EndWith(e, "success") /\ UNCHANGED tries
    ELSE Goto(e, "asking") /\ UNCHANGED <<tries, reason>>

\* An attempt that raises: nothing more is tried once the flags are set.
Failed(e) ==
    IF stop[e] THEN EndWith(e, "success") /\ UNCHANGED tries
    ELSE /\ tries' = [tries EXCEPT ![e] = @ + 1]
         /\ IF tries'[e] = MaxAttempts THEN EndWith(e, "error") ELSE Goto(e, "asking") /\ UNCHANGED reason

\* Seeded defect: an attempt is made without a look at the flags.
AttemptDeaf(e) ==
    /\ pc[e] = "asking"
    /\ IF iteration[e] = MaxIterations - 1 THEN EndWith(e, "max_iterations") ELSE Goto(e, "waiting") /\ UNCHANGED reason
    /\ UNCHANGED <<tries, stop, iteration, turn, batch, work, queue, sent, closed, stopper, runs>>

\* The model call: none in the last iteration, none once the flags are set, and
\* none in a thread of a pool that a hard cleanup shut down.
Attempt(e) ==
    /\ pc[e] = "asking"
    /\ IF iteration[e] = MaxIterations - 1 THEN EndWith(e, "max_iterations") /\ UNCHANGED tries
       ELSE IF stop[e] THEN EndWith(e, "success") /\ UNCHANGED tries
       ELSE IF closed[e] /\ e \in Wrapped THEN Failed(e)
       ELSE Goto(e, "waiting") /\ UNCHANGED <<reason, tries>>
    /\ UNCHANGED <<stop, iteration, turn, batch, work, queue, sent, closed, stopper, runs>>

\* Seeded defect: the model call cannot be cancelled.
CancelNever(e) == FALSE /\ UNCHANGED vars

\* A native model call is cancelled once the flags are set: call_llm returns
\* None and the loop is left, with the reason it had.
Cancel(e) ==
    /\ pc[e] = "waiting" /\ stop[e] /\ e \notin Wrapped
    /\ EndWith(e, "success")
    /\ UNCHANGED <<stop, iteration, tries, turn, batch, work, queue, sent, closed, stopper, runs>>

\* The model answers with calls that it has not made before, or fails.
Answer(e, cs) ==
    /\ pc[e] = "waiting"
    /\ \A c \in cs : OwnerOf[c] = e /\ work[c] = "unmade"
    /\ Rework(cs, "asked")
    /\ turn' = [turn EXCEPT ![e] = @ \cup cs] /\ batch' = [batch EXCEPT ![e] = cs]
    /\ Goto(e, "answered")
    /\ UNCHANGED <<stop, iteration, tries, reason, queue, sent, closed, stopper, runs>>

Fail(e) ==
    /\ pc[e] = "waiting" /\ Failed(e)
    /\ UNCHANGED <<stop, iteration, turn, batch, work, queue, sent, closed, stopper, runs>>

\* Once the flags are set the calls are passed over; otherwise they are run.
Dispatch(e) ==
    /\ pc[e] = "answered"
    /\ IF batch[e] = {} THEN Goto(e, "deciding") /\ UNCHANGED <<work, batch>>
       ELSE IF stop[e]
       THEN Goto(e, "iterating") /\ Rework(batch[e], "dropped") /\ batch' = [batch EXCEPT ![e] = {}]
       ELSE Goto(e, "calling") /\ Rework(batch[e], "queued") /\ UNCHANGED batch
    /\ UNCHANGED <<stop, iteration, tries, turn, reason, queue, sent, closed, stopper, runs>>

\* All calls have returned: their results are appended.
Collect(e) ==
    /\ pc[e] = "calling" /\ In(e, "finished") = batch[e]
    /\ Rework(batch[e], "recorded")
    /\ Goto(e, "deciding")
    /\ UNCHANGED <<stop, iteration, tries, turn, batch, reason, queue, sent, closed, stopper, runs>>

\* Seeded defect: any wait that times out counts as an interruption.
InterruptSlow(e) ==
    /\ pc[e] = "calling"
    /\ In(e, "running") \cup In(e, "delegated") # {}
    /\ Rework(In(e, "queued") \cup In(e, "finished"), "dropped")
    /\ batch' = [batch EXCEPT ![e] = {}]
    /\ Goto(e, "iterating")
    /\ UNCHANGED <<stop, iteration, tries, turn, reason, queue, sent, closed, stopper, runs>>

\* _await_with_shutdown_race: the calls that still run are left alone, and the
\* results of the others are dropped.
Interrupt(e) ==
    /\ pc[e] = "calling" /\ stop[e]
    /\ In(e, "running") \cup In(e, "delegated") # {}
    /\ Rework(In(e, "queued") \cup In(e, "finished"), "dropped")
    /\ batch' = [batch EXCEPT ![e] = {}]
    /\ Goto(e, "iterating")
    /\ UNCHANGED <<stop, iteration, tries, turn, reason, queue, sent, closed, stopper, runs>>

\* A stop tool or an answer without calls ends the run, unless a message came in.
Decide(e) ==
    /\ pc[e] = "deciding"
    /\ IF queue[e] = 0 /\ (batch[e] = {} \/ batch[e] \cap StopCalls # {})
       THEN EndWith(e, IF batch[e] = {} THEN "no_more_calls" ELSE "stop_tool")
       ELSE Goto(e, "iterating") /\ UNCHANGED reason
    /\ batch' = [batch EXCEPT ![e] = {}]
    /\ UNCHANGED <<stop, iteration, tries, turn, work, queue, sent, closed, stopper, runs>>

\* The iteration is persisted and counted.
Iterate(e) ==
    /\ pc[e] = "iterating"
    /\ iteration' = [iteration EXCEPT ![e] = @ + 1]
    /\ Goto(e, "top")
    /\ UNCHANGED <<stop, tries, turn, batch, reason, work, queue, sent, closed, stopper, runs>>

\* after_agent hooks, and the finally block: the history is synchronised and
\* _execution_done set, which wakes a stop() that waits for it.
Finalize(e) ==
    /\ pc[e] = "ending"
    /\ Goto(e, "closing")
    /\ stopper' = IF e = Root /\ stopper.at = "executing" THEN [stopper EXCEPT !.at = "woken"] ELSE stopper
    /\ UNCHANGED <<stop, iteration, tries, turn, batch, reason, work, queue, sent, closed, runs>>

\* run_async to its end: history, session state, sandbox and the end of the run
\* are written, and _run_complete is set.
Close(e) ==
    /\ pc[e] = "closing"
    /\ Goto(e, "idle")
    /\ stopper' = IF e = Root /\ stopper.at = "completing" THEN [stopper EXCEPT !.at = "saving"] ELSE stopper
    /\ UNCHANGED <<stop, iteration, tries, turn, batch, reason, work, queue, sent, closed, runs>>

------------------------------------------------------------------------------
(* Tools and sub-agents *)

\* Seeded defect: serial tools are launched along with the others.
LaunchAll(c) ==
    LET e == OwnerOf[c]
    IN  /\ pc[e] = "calling" /\ c \in batch[e] /\ work[c] = "queued"
        /\ Rework({c}, IF stop[e] THEN "finished" ELSE "running")
        /\ UNCHANGED <<loop, queue, sent, closed, stopper, runs>>

\* Serial tools run first and one by one, the others then side by side; a call
\* that finds the event set gets an error for its result.
Launch(c) ==
    LET e == OwnerOf[c]
    IN  /\ pc[e] = "calling" /\ c \in batch[e] /\ work[c] = "queued"
        /\ IF c \in Serial THEN In(e, "running") \cup In(e, "delegated") = {}
           ELSE batch[e] \cap Serial \subseteq In(e, "finished")
        /\ Rework({c}, IF stop[e] THEN "finished" ELSE "running")
        /\ UNCHANGED <<loop, queue, sent, closed, stopper, runs>>

\* call_sub_agent registers the sub-agent and runs it, in its thread.
Delegate(c) ==
    /\ work[c] = "running" /\ c \in DOMAIN SubOf
    /\ ~closed[Root] /\ pc[SubOf[c]] = "idle"
    /\ Rework({c}, "delegated")
    /\ Goto(SubOf[c], "starting")
    /\ stop' = [stop EXCEPT ![SubOf[c]] = FALSE] /\ closed' = [closed EXCEPT ![SubOf[c]] = FALSE]
    /\ UNCHANGED <<iteration, tries, turn, batch, reason, queue, sent, stopper, runs>>

\* A tool returns, or raises, which gives a result too.  Nobody waits any more
\* for one that was interrupted.
Return(c) ==
    /\ work[c] = "running" \/ (work[c] = "delegated" /\ pc[SubOf[c]] = "idle")
    /\ Rework({c}, IF c \in batch[OwnerOf[c]] THEN "finished" ELSE "dropped")
    /\ UNCHANGED <<loop, queue, sent, closed, stopper, runs>>

\* enqueue_message, from any thread.
Enqueue(e) ==
    /\ sent < MaxMessages
    /\ sent' = sent + 1 /\ queue' = [queue EXCEPT ![e] = @ + 1]
    /\ UNCHANGED <<loop, work, closed, stopper, runs>>

------------------------------------------------------------------------------
(* Agent.stop *)

\* _force_stop: the agent's own flags, then those of the registered sub-agents.
Told == {Root} \cup Registered

\* Seeded defect: stop() does not wait for the run behind the executor.
StopHasty ==
    /\ stopper.at = "none"
    /\ stop' = [e \in Agents |-> e \in Told \/ stop[e]]
    /\ stopper' = [at |-> IF Executing(Root) THEN "executing" ELSE "saving", late |-> FALSE, run |-> runs]
    /\ UNCHANGED <<pc, iteration, tries, turn, batch, reason, work, queue, sent, closed, runs>>

\* stop(force=False), at any time.
Stop ==
    /\ stopper.at = "none"
    /\ stop' = [e \in Agents |-> e \in Told \/ stop[e]]
    /\ stopper' = [at |-> IF Executing(Root) THEN "executing" ELSE "woken", late |-> FALSE, run |-> runs]
    /\ UNCHANGED <<pc, iteration, tries, turn, batch, reason, work, queue, sent, closed, runs>>

\* cleanup: the flags once more, the thread pools shut down for good, and the
\* same for the registered sub-agents.
Cleanup(to) ==
    /\ stop' = [e \in Agents |-> e \in Told \/ stop[e]]
    /\ closed' = [e \in Agents |-> e \in Told \/ closed[e]]
    /\ stopper' = [at |-> to, late |-> TRUE, run |-> runs]
    /\ UNCHANGED <<pc, iteration, tries, turn, batch, reason, work, queue, sent, runs>>

\* stop(force=True) waits for nothing; a graceful one cleans up when the
\* executor takes too long.
HardStop == stopper.at = "none" /\ Cleanup("saving")
StopTimeout == stopper.at = "executing" /\ Cleanup("woken")

\* Then it waits for the rest of run_async, five seconds at most.
AwaitComplete ==
    /\ stopper.at = "woken"
    /\ stopper' = [stopper EXCEPT !.at = IF pc[Root] = "idle" THEN "saving" ELSE "completing"]
    /\ UNCHANGED <<loop, work, queue, sent, closed, runs>>

CompleteTimeout ==
    /\ stopper.at = "completing"
    /\ stopper' = [stopper EXCEPT !.at = "saving", !.late = TRUE]
    /\ UNCHANGED <<loop, work, queue, sent, closed, runs>>

\* It flushes the history, saves the session state and returns its result.
SaveStopped ==
    /\ stopper.at = "saving"
    /\ stopper' = [stopper EXCEPT !.at = "returned"]
    /\ UNCHANGED <<loop, work, queue, sent, closed, runs>>

LoopStep(e) ==
    \/ Begin(e) \/ Top(e) \/ Take(e) \/ Attempt(e) \/ Cancel(e) \/ Dispatch(e) \/ Collect(e)
    \/ Interrupt(e) \/ Decide(e) \/ Iterate(e) \/ Finalize(e) \/ Close(e)
Reply(e) == Fail(e) \/ \E cs \in SUBSET Calls : Answer(e, cs)
ToolStep(c) == Launch(c) \/ Delegate(c)
StopStep == StopTimeout \/ AwaitComplete \/ CompleteTimeout \/ SaveStopped

Next ==
    \/ Run \/ Stop \/ HardStop \/ StopStep
    \/ \E e \in Agents : LoopStep(e) \/ ForceStop(e) \/ Reply(e) \/ Enqueue(e)
    \/ \E c \in Calls : ToolStep(c) \/ Return(c)

\* The event loop takes its steps, and calls of the model that run in a thread
\* return (the clients have timeouts).  A tool, and a call of the model that
\* can be cancelled, may take for ever.
Spec ==
    /\ Init /\ [][Next]_vars
    /\ \A e \in Agents : WF_vars(LoopStep(e))
    /\ \A e \in Wrapped : WF_vars(Reply(e))
    /\ \A c \in Calls : WF_vars(ToolStep(c))
    /\ WF_vars(StopStep)

------------------------------------------------------------------------------
(* Properties *)

\* The types, and how the calls go with the places of the runs.
TypeOK ==
    /\ pc \in [Agents -> {"idle", "starting", "top", "taking", "asking", "waiting", "answered", "calling",
                          "deciding", "iterating", "ending", "closing"}]
    /\ stop \in [Agents -> BOOLEAN] /\ closed \in [Agents -> BOOLEAN]
    /\ iteration \in [Agents -> 0..MaxIterations] /\ tries \in [Agents -> 0..MaxAttempts]
    /\ turn \in [Agents -> SUBSET Calls] /\ batch \in [Agents -> SUBSET Calls]
    /\ reason \in [Agents -> {"none", "max_iterations", "interrupted", "forced", "success", "error",
                              "no_more_calls", "stop_tool"}]
    /\ work \in [Calls -> {"unmade", "asked", "queued", "running", "delegated", "finished", "recorded", "dropped"}]
    /\ queue \in [Agents -> Nat] /\ sent \in Nat /\ runs \in Nat
    /\ stopper \in [at : {"none", "executing", "woken", "completing", "saving", "returned"},
                    late : BOOLEAN, run : Nat]

\* A call of a tool that must not run in parallel never runs beside another call
\* of the same answer.
SerialAlone ==
    \A e \in Agents : \A c \in batch[e] \cap Serial :
        work[c] \in {"running", "delegated"} =>
            \A d \in batch[e] \ {c} : work[d] \notin {"running", "delegated"}

\* A run that goes on to ask the model has the result of every call it has made:
\* a run that loses a result, because it was interrupted, asks no more.
AsksOnlyWithResults ==
    \A e \in Agents : pc[e] = "waiting" => \A c \in turn[e] : work[c] = "recorded"

\* Wherever the run is, no attempt to call the model begins once the flags are set.
NoAttemptAfterStop ==
    [][\A e \in Agents : stop[e] /\ pc[e] # "waiting" => pc'[e] # "waiting"]_vars

\* What stop() returns is final: unless it gave up waiting, the run it was made
\* in is over.
StopResultIsFinal ==
    stopper.at = "returned" /\ ~stopper.late /\ stopper.run = runs => pc[Root] = "idle"

\* A stop is obeyed: it is reported when the run is over, and ends the asking at once.
StopIsObeyed == []StopResultIsFinal /\ NoAttemptAfterStop

\* A run that is told to stop ends, be it that its tools, its sub-agents and the
\* calls of its model that can be cancelled never return.
StopEndsRun == \A e \in Agents : (stop[e] /\ Executing(e)) ~> (pc[e] = "idle")

\* A run ends when its tools and its model answer; so do its sub-agents'.
EverythingReturns ==
    (\A c \in Calls : WF_vars(Return(c))) /\ (\A e \in Agents : WF_vars(Reply(e)))
RunEnds == EverythingReturns => \A e \in Agents : (pc[e] # "idle") ~> (pc[e] = "idle")

\* Every run ends: by a stop, whoever does not answer, and without one when all answer.
EveryRunEnds == StopEndsRun /\ RunEnds

\* docs/rfcs/0001-state-persistence-on-stop.md:356: a run whose call of the model
\* returned None because of a stop ends as interrupted by the user.
InterruptReported ==
    \A e \in Agents : pc[e] = "closing" /\ stop[e] => reason[e] # "success"

-----------------------------------------------------------------------------
(* A small instance: the agent's model may call a serial stop tool and a      *)
(* sub-agent, whose own model may call one tool.                              *)
SmallOwnerOf == [serial |-> "root", agent |-> "root", inner |-> "sub"]
SmallSubOf == [agent |-> "sub"]
==============================================================================
