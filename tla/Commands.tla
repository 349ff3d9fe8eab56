------------------------------ MODULE Commands -------------------------------
(***************************************************************************)
(* Shell commands in a sandbox (src/nexau/archs/sandbox/local_sandbox.py,  *)
(* e2b_sandbox.py) and the shell tools on top of them                      *)
(* (tool/builtin/shell_tools/run_shell_command.py,                         *)
(* background_task_manage_tool.py).  A local command is a child process; a *)
(* remote one is started, polled and read by requests that may get lost,   *)
(* while the process goes on without the client.                           *)
(*                                                                         *)
(* Three kinds of calls: "exec" is execute_shell in the foreground, "task" *)
(* a command left in the background and asked about with the task tool,    *)
(* "shell" the shell tool, which starts a background command and polls it. *)
(***************************************************************************)
EXTENDS Sequences, Integers

CONSTANTS
    Calls,      \* the commands that are given
    MaxFaults,  \* bound on lost replies, failed requests, broken streams and kills from outside
    Overtaking  \* whether a repeated request may reach the sandbox before the lost one is through

CommandsAssumption == MaxFaults \in Nat /\ Overtaking \in BOOLEAN

Unknown == -1   \* exit code of a process nobody could read one from
TimedOut == 124 \* exit code of GNU timeout, which a command may use itself
Codes == {0, 1, TimedOut}

VARIABLES
    engine,   \* "local" or "remote"
    call,     \* what each call is doing
    requests, \* remote: the start requests each call has sent
    procs,    \* the processes each call has started
    tasks,    \* _background_tasks
    answer,   \* what each call returned last
    stopping, \* execution.is_shutting_down()
    faults,   \* faults still to come
    outages   \* history: the calls a fault has hit

vars == <<engine, call, requests, procs, tasks, answer, stopping, faults, outages>>

Nothing == [status |-> "none", code |-> 0, whole |-> FALSE]
Answer(status, code, whole) == [status |-> status, code |-> code, whole |-> whole]
Final == {"success", "error"}

Init ==
    /\ engine \in {"local", "remote"}
    /\ call = [k \in Calls |-> [kind |-> "none", pc |-> "idle", late |-> FALSE, done |-> FALSE, whole |-> FALSE, code |-> 0]]
    /\ requests = [k \in Calls |-> <<>>] /\ procs = [k \in Calls |-> <<>>]
    /\ tasks = <<>> /\ answer = [k \in Calls |-> Nothing]
    /\ stopping = FALSE /\ faults = MaxFaults /\ outages = {}

At(k, pc) == call[k].pc = pc
Goto(k, pc) == call' = [call EXCEPT ![k].pc = pc]
Fault(k) == faults > 0 /\ faults' = faults - 1 /\ outages' = outages \cup {k}
NoFault == UNCHANGED <<faults, outages>>
\* A request that works, or one whose budget of retries runs out.
Request(k, works) == IF works THEN NoFault ELSE Fault(k)
Running(k, n) == procs[k][n].state # "ended"
Ended(k, n, code) == [procs EXCEPT ![k][n] = [@ EXCEPT !.state = "ended", !.code = code]]
Started(k) == [procs EXCEPT ![k] = Append(@, [state |-> "running", code |-> 0, noted |-> TRUE])]
Background(k) == call[k].kind \in {"task", "shell"}

------------------------------------------------------------------------------
(* Starting *)

Begin(k, kind) ==
    /\ At(k, "idle")
    /\ call' = [call EXCEPT ![k].pc = "starting", ![k].kind = kind]
    /\ UNCHANGED <<engine, requests, procs, tasks, answer, stopping, faults, outages>>

\* A background process gets an entry in _background_tasks and a thread that
\* waits for it; its caller goes on.
Registered(k, n) == [x \in DOMAIN tasks \cup {k} |-> IF x = k
    THEN [process |-> n, finished |-> FALSE, code |-> Unknown, stream |-> "up"] ELSE tasks[x]]
Launched(k, n) ==
    /\ tasks' = IF Background(k) THEN Registered(k, n) ELSE tasks
    /\ answer' = [answer EXCEPT ![k] = IF call[k].kind = "task" THEN Answer("started", 0, FALSE) ELSE @]
    /\ Goto(k, IF Background(k) THEN "free" ELSE "polling")

LocalStart(k) ==
    /\ engine = "local" /\ At(k, "starting")
    /\ procs' = Started(k)
    /\ Launched(k, 1)
    /\ UNCHANGED <<engine, requests, stopping, faults, outages>>

\* The start request leaves.  A repeated one reaches the sandbox after a pause,
\* behind the one before it, unless Overtaking.
Send(k) ==
    /\ engine = "remote" /\ At(k, "starting")
    /\ Overtaking \/ \A i \in DOMAIN requests[k] : requests[k][i].at = "done"
    /\ requests' = [requests EXCEPT ![k] = Append(@, [at |-> "sent", process |-> 0])]
    /\ Goto(k, "waiting")
    /\ UNCHANGED <<engine, procs, tasks, answer, stopping, faults, outages>>

\* Seeded defect: the script does not look for the pid file.
CheckNothing(k, i) ==
    /\ requests[k][i].at = "sent"
    /\ requests' = [requests EXCEPT ![k][i].at = "past"]
    /\ UNCHANGED <<engine, call, procs, tasks, answer, stopping, faults, outages>>

\* The start script of a foreground command does nothing when the pid file has
\* been written; a background command is started without a script.
Check(k, i) ==
    /\ requests[k][i].at = "sent"
    /\ requests' = [requests EXCEPT ![k][i].at = IF ~Background(k) /\ procs[k] # <<>> THEN "done" ELSE "past"]
    /\ UNCHANGED <<engine, call, procs, tasks, answer, stopping, faults, outages>>

Launch(k, i) ==
    /\ requests[k][i].at = "past"
    /\ procs' = Started(k)
    /\ requests' = [requests EXCEPT ![k][i] = [at |-> "done", process |-> Len(procs[k]) + 1]]
    /\ UNCHANGED <<engine, call, tasks, answer, stopping, faults, outages>>

Reply(k) ==
    LET last == requests[k][Len(requests[k])]
    IN  /\ At(k, "waiting") /\ last.at = "done"
        /\ Launched(k, last.process)
        /\ UNCHANGED <<engine, requests, procs, stopping, faults, outages>>

\* _retry_on_transient: the connection breaks while the request is on its way.
LoseReply(k) ==
    /\ At(k, "waiting") /\ Fault(k)
    /\ Goto(k, "starting")
    /\ UNCHANGED <<engine, requests, procs, tasks, answer, stopping>>

\* A failure that is not transient, or the end of the retry window.
StartFails(k) ==
    /\ At(k, "starting") \/ At(k, "waiting")
    /\ Fault(k)
    /\ answer' = [answer EXCEPT ![k] = Answer("failed", Unknown, FALSE)]
    /\ Goto(k, "returned")
    /\ UNCHANGED <<engine, requests, procs, tasks, stopping>>

------------------------------------------------------------------------------
(* Processes *)

\* A process comes to an end; "noted": its exit code is written down for the
\* client (always, unless it is killed from outside).
Exit(k, n, code) ==
    /\ procs[k][n].state = "running"
    /\ procs' = Ended(k, n, code)
    /\ UNCHANGED <<engine, call, requests, tasks, answer, stopping, faults, outages>>

KilledOutside(k, n) ==
    /\ Running(k, n) /\ Fault(k)
    /\ procs' = [procs EXCEPT ![k][n] = [state |-> "ended", code |-> 137, noted |-> FALSE]]
    /\ UNCHANGED <<engine, call, requests, tasks, answer, stopping>>

\* Seeded defect: the command is started without GNU timeout.
NoTimeUp(k, n) == FALSE /\ UNCHANGED vars

\* Remote foreground commands run under GNU timeout: asked to end at the
\* timeout, killed ten seconds later.
TimeUp(k, n) ==
    /\ engine = "remote" /\ call[k].kind = "exec" /\ procs[k][n].state = "running"
    /\ procs' = [procs EXCEPT ![k][n].state = "over"]
    /\ UNCHANGED <<engine, call, requests, tasks, answer, stopping, faults, outages>>
Overrun(k, n, code) ==
    /\ procs[k][n].state = "over"
    /\ procs' = Ended(k, n, code)
    /\ UNCHANGED <<engine, call, requests, tasks, answer, stopping, faults, outages>>

------------------------------------------------------------------------------
(* Foreground: execute_shell *)

Return(k, a) == answer' = [answer EXCEPT ![k] = a] /\ Goto(k, "returned")
ByCode(code) == IF code = 0 THEN "success" ELSE "error"

\* The local call waits for its child and reads the files behind it.
LocalWait(k) ==
    /\ engine = "local" /\ At(k, "polling") /\ ~Running(k, 1)
    /\ Return(k, Answer(ByCode(procs[k][1].code), procs[k][1].code, TRUE))
    /\ UNCHANGED <<engine, requests, procs, tasks, stopping, faults, outages>>

\* It kills the child's group at the timeout.
LocalTimeout(k) ==
    /\ engine = "local" /\ At(k, "polling") /\ Running(k, 1)
    /\ procs' = Ended(k, 1, 137)
    /\ Return(k, Answer("timeout", 137, TRUE))
    /\ UNCHANGED <<engine, requests, tasks, stopping, faults, outages>>

\* What the exit code file says, whichever process wrote it last.
ExitCodes(k) == {procs[k][n].code : n \in {m \in DOMAIN procs[k] : ~Running(k, m) /\ procs[k][m].noted}}
\* The last process whose pid was written is gone.
Dead(k) == \A n \in DOMAIN procs[k] : n = Len(procs[k]) => ~Running(k, n)

\* The status command: DONE, DEAD, or RUNNING, which is asked again.
Poll(k) ==
    /\ engine = "remote" /\ At(k, "polling")
    /\ ExitCodes(k) # {} \/ Dead(k)
    /\ Goto(k, "ending")
    /\ UNCHANGED <<engine, requests, procs, tasks, answer, stopping, faults, outages>>

\* The deadline of the polling, five seconds behind the timeout: the process
\* will not end, or the polls have failed.
GiveUp(k) ==
    /\ engine = "remote" /\ At(k, "polling")
    /\ \A n \in DOMAIN procs[k] : procs[k][n].state # "running"
    /\ Request(k, ExitCodes(k) = {})
    /\ call' = [call EXCEPT ![k].pc = "ending", ![k].late = TRUE]
    /\ UNCHANGED <<engine, requests, procs, tasks, answer, stopping>>

\* The exit code is read whether or not the deadline has passed; 124 is taken
\* for GNU timeout's.  Without a code the launcher is asked to end.
ReadExit(k, works, code) ==
    LET expired == code = TimedOut \/ (call[k].late /\ code = Unknown)
    IN  /\ At(k, "ending") /\ Request(k, works)
        /\ code \in IF works /\ ExitCodes(k) # {} THEN ExitCodes(k) ELSE {Unknown}
        /\ IF expired THEN Return(k, Answer("timeout", Unknown, FALSE))
           ELSE /\ call' = [call EXCEPT ![k].pc = "output", ![k].code = code]
                /\ UNCHANGED answer
        /\ UNCHANGED <<engine, requests, procs, tasks, stopping>>

\* Output that cannot be read is noted and does not change the verdict.
ReadOutput(k, works) ==
    /\ At(k, "output") /\ Request(k, works)
    /\ Return(k, Answer(ByCode(call[k].code), call[k].code, works))
    /\ UNCHANGED <<engine, requests, procs, tasks, stopping>>

------------------------------------------------------------------------------
(* Background: the waiting thread, status and kill *)

\* _wait_process, _consume_events: the entry learns of the end.
Notice(k) ==
    /\ k \in DOMAIN tasks /\ tasks[k].stream = "up" /\ ~tasks[k].finished
    /\ ~Running(k, tasks[k].process)
    /\ tasks' = [tasks EXCEPT ![k].finished = TRUE, ![k].code = procs[k][tasks[k].process].code]
    /\ UNCHANGED <<engine, call, requests, procs, answer, stopping, faults, outages>>

\* The event stream breaks: the process may still run.
StreamBreaks(k) ==
    /\ engine = "remote" /\ k \in DOMAIN tasks /\ tasks[k].stream = "up" /\ ~tasks[k].finished
    /\ Fault(k)
    /\ tasks' = [tasks EXCEPT ![k].stream = "broken"]
    /\ UNCHANGED <<engine, call, requests, procs, answer, stopping>>

\* get_background_task_status, remote: whether the task has finished is read
\* before its output.
AskStatus(k) ==
    /\ At(k, "free") /\ k \in DOMAIN tasks
    /\ ~(call[k].kind = "shell" /\ stopping)
    /\ call' = [call EXCEPT ![k].pc = "looking", ![k].done = tasks[k].finished]
    /\ UNCHANGED <<engine, requests, procs, tasks, answer, stopping, faults, outages>>

Look(k, works) ==
    /\ At(k, "looking") /\ Request(k, works)
    /\ works \/ engine = "remote"
    /\ call' = [call EXCEPT ![k].pc = "judging", ![k].whole = works /\ ~Running(k, tasks[k].process)]
    /\ UNCHANGED <<engine, requests, procs, tasks, answer, stopping>>

\* What a status is answered with: the shell tool returns on an end and goes on
\* otherwise, the task tool shows it.
Say(k, a) ==
    /\ answer' = [answer EXCEPT ![k] = IF call[k].kind = "shell" /\ a.status = "running" THEN @ ELSE a]
    /\ Goto(k, IF call[k].kind = "shell" THEN IF a.status = "running" THEN "ran" ELSE "returned" ELSE "free")

\* The local verdict, from the entry as it is behind the output.
LocalVerdict(k) ==
    /\ engine = "local" /\ At(k, "judging")
    /\ Say(k, IF tasks[k].finished THEN Answer(ByCode(tasks[k].code), tasks[k].code, call[k].whole) ELSE Answer("running", Unknown, FALSE))
    /\ UNCHANGED <<engine, requests, procs, tasks, stopping, faults, outages>>

\* Seeded defect: the end is looked for behind the output.
JudgeLate(k, works) ==
    /\ engine = "remote" /\ At(k, "judging") /\ Request(k, works) /\ works
    /\ Say(k, IF tasks[k].finished THEN Answer(ByCode(tasks[k].code), tasks[k].code, call[k].whole) ELSE Answer("running", Unknown, FALSE))
    /\ UNCHANGED <<engine, requests, procs, tasks, stopping>>

\* Seeded defect: the end that a probe has found is not kept.
JudgeUnmarked(k, works) ==
    LET task == tasks[k]
        probe == ~call[k].done /\ task.stream = "broken"
    IN  /\ engine = "remote" /\ At(k, "judging") /\ Request(k, works) /\ (works \/ probe)
        /\ CASE call[k].done -> Say(k, Answer(ByCode(task.code), task.code, call[k].whole))
             [] probe /\ works /\ ~Running(k, task.process) -> Say(k, Answer("error", Unknown, call[k].whole))
             [] OTHER -> Say(k, Answer("running", Unknown, FALSE))
        /\ UNCHANGED <<engine, requests, procs, tasks, stopping>>

\* The remote verdict, from what was read first, with a probe of the process
\* when the stream has broken.
Judge(k, works) ==
    LET task == tasks[k]
        probe == ~call[k].done /\ task.stream = "broken"
    IN  /\ engine = "remote" /\ At(k, "judging") /\ Request(k, works) /\ (works \/ probe)
        /\ CASE call[k].done -> Say(k, Answer(ByCode(task.code), task.code, call[k].whole)) /\ UNCHANGED tasks
             [] probe /\ works /\ ~Running(k, task.process) ->
                    /\ tasks' = [tasks EXCEPT ![k].finished = TRUE]
                    /\ Say(k, Answer("error", Unknown, call[k].whole))
             [] OTHER -> Say(k, Answer("running", Unknown, FALSE)) /\ UNCHANGED tasks
        /\ UNCHANGED <<engine, requests, procs, stopping>>

\* kill_background_task: the process is ended and its entry goes; the remote
\* entry stays when the request fails.
Killed(k) ==
    /\ procs' = IF Running(k, tasks[k].process) THEN Ended(k, tasks[k].process, 137) ELSE procs
    /\ tasks' = [x \in DOMAIN tasks \ {k} |-> tasks[x]]
LocalKill(k) == engine = "local" /\ NoFault /\ Killed(k)
RemoteKill(k, works) ==
    /\ engine = "remote" /\ Request(k, works)
    /\ IF works THEN Killed(k) ELSE UNCHANGED <<procs, tasks>>
Kill(k, works) == (works /\ LocalKill(k)) \/ RemoteKill(k, works)

KillTask(k, works) ==
    /\ At(k, "free") /\ call[k].kind = "task" /\ k \in DOMAIN tasks
    /\ answer' = [answer EXCEPT ![k] = IF ~works \/ (engine = "remote" /\ ~Running(k, tasks[k].process))
                                       THEN Answer("unkilled", Unknown, FALSE) ELSE Answer("killed", 0, FALSE)]
    /\ Kill(k, works)
    /\ UNCHANGED <<engine, call, requests, stopping>>

\* Seeded defect: a stop returns without the kill.
InterruptOnly(k, works) ==
    /\ call[k].kind = "shell" /\ At(k, "free") /\ stopping /\ works
    /\ Return(k, Answer("stopped", Unknown, FALSE))
    /\ UNCHANGED <<engine, requests, procs, tasks, stopping, faults, outages>>

\* The shell tool sees the stop at the head of its loop.  What the kill answers
\* is not looked at.
Interrupt(k, works) ==
    /\ call[k].kind = "shell" /\ At(k, "free") /\ stopping
    /\ Kill(k, works)
    /\ Return(k, Answer("stopped", Unknown, FALSE))
    /\ UNCHANGED <<engine, requests, stopping>>

\* The shell tool's time runs out; it looks at the clock behind a status that says
\* running, and otherwise goes for another round.
Overdue(k) ==
    /\ call[k].kind = "shell" /\ ~call[k].late
    /\ call[k].pc \in {"free", "looking", "judging", "ran"}
    /\ call' = [call EXCEPT ![k].late = TRUE]
    /\ UNCHANGED <<engine, requests, procs, tasks, answer, stopping, faults, outages>>

ShellTimeout(k, works) ==
    /\ At(k, "ran") /\ call[k].late /\ Kill(k, works)
    /\ Return(k, Answer("timeout", Unknown, FALSE))
    /\ UNCHANGED <<engine, requests, stopping>>
Again(k) ==
    /\ At(k, "ran") /\ ~call[k].late /\ Goto(k, "free")
    /\ UNCHANGED <<engine, requests, procs, tasks, answer, stopping, faults, outages>>

Stop ==
    /\ ~stopping /\ stopping' = TRUE
    /\ UNCHANGED <<engine, call, requests, procs, tasks, answer, faults, outages>>

------------------------------------------------------------------------------
Client(k) ==
    \/ LocalStart(k) \/ Send(k) \/ Reply(k)
    \/ LocalWait(k) \/ LocalVerdict(k) \/ Poll(k) \/ GiveUp(k) \/ Again(k)
    \/ \E works \in BOOLEAN :
        \/ \E code \in Codes \cup {Unknown, 137} : ReadExit(k, works, code)
        \/ ReadOutput(k, works) \/ Look(k, works) \/ Judge(k, works) \/ Interrupt(k, works)
        \/ ShellTimeout(k, works)

Host(k) ==
    \/ \E i \in DOMAIN requests[k] : Check(k, i) \/ Launch(k, i)
    \/ \E n \in DOMAIN procs[k] : TimeUp(k, n) \/ \E code \in {TimedOut, 137} : Overrun(k, n, code)
    \/ Notice(k)

Next ==
    \/ \E k \in Calls :
        \/ \E kind \in {"exec", "task", "shell"} : Begin(k, kind)
        \/ Client(k) \/ Host(k)
        \/ LoseReply(k) \/ StartFails(k) \/ LocalTimeout(k) \/ StreamBreaks(k) \/ AskStatus(k) \/ Overdue(k)
        \/ \E works \in BOOLEAN : KillTask(k, works)
        \/ \E n \in DOMAIN procs[k] : KilledOutside(k, n) \/ \E code \in Codes : Exit(k, n, code)
    \/ Stop

ShellAsks(k) == call[k].kind = "shell" /\ AskStatus(k)

\* Calls go on, the sandbox handles what has reached it, timeouts strike.
\* Processes need not end, and nobody need ask about a task.
Spec ==
    /\ Init /\ [][Next]_vars
    /\ \A k \in Calls :
        /\ WF_vars(Client(k)) /\ WF_vars(Host(k)) /\ WF_vars(LocalTimeout(k))
        /\ WF_vars(ShellAsks(k)) /\ WF_vars(Overdue(k))

------------------------------------------------------------------------------
(* Properties *)

TypeOK ==
    /\ engine \in {"local", "remote"} /\ stopping \in BOOLEAN /\ faults \in 0..MaxFaults
    /\ DOMAIN tasks \subseteq Calls /\ outages \subseteq Calls
    /\ \A k \in DOMAIN tasks : tasks[k].process \in DOMAIN procs[k]

\* A result speaks of the process it is about: success means that it ended with
\* 0, a code is the one it ended with, no code means that a fault has hit the
\* call, and stopped, killed and timed out commands do not run on unless the
\* request to end them was hit (e2b_sandbox.py: "the exit code is the
\* authoritative fact").
ResultIsTrue ==
    \A k \in Calls :
        LET a == answer[k]
            codes == {procs[k][n].code : n \in {m \in DOMAIN procs[k] : ~Running(k, m)}}
        IN  /\ a.status = "success" => 0 \in codes
            /\ a.status = "error" => a.code \in codes \/ (a.code = Unknown /\ k \in outages)
            /\ a.status \in {"stopped", "killed"} \/ (a.status = "timeout" /\ call[k].kind # "exec") =>
                k \in outages \/ \A n \in DOMAIN procs[k] : ~Running(k, n)

\* What the shell tool or the task tool says at the end of a remote command
\* comes with all of its output, unless a fault has hit the call.
OutputWhole ==
    \A k \in Calls : engine = "remote" /\ answer[k].status \in Final => answer[k].whole \/ k \in outages

\* e2b_sandbox.py: the guard makes the start idempotent, a retry never runs a
\* foreground command twice.
RunsOnce == \A k \in Calls : call[k].kind = "exec" => Len(procs[k]) <= 1

\* A task once reported as finished is not reported otherwise later.
FinishedStays ==
    \A k \in Calls : answer[k].status \in Final =>
        \/ answer'[k].status = answer[k].status /\ answer'[k].code = answer[k].code
        \/ answer'[k].status \in {"killed", "unkilled"}

\* Remote foreground commands end, whatever becomes of the call, and every call
\* of the shell tool or of execute_shell returns.
Unreturned(k) == call[k].kind \in {"exec", "shell"} /\ ~At(k, "returned")
RunsOn(k) == call[k].kind = "exec" /\ \E n \in DOMAIN procs[k] : Running(k, n)
CommandsEnd == \A k \in Calls : (Unreturned(k) ~> ~Unreturned(k)) /\ (RunsOn(k) ~> ~RunsOn(k))

\* The same guard for the shell tool, which starts its commands in the background.
ShellRunsOnce == \A k \in Calls : call[k].kind = "shell" => Len(procs[k]) <= 1
\* The local status, which reads the output before it looks for the end.
LocalOutputWhole == \A k \in Calls : engine = "local" /\ answer[k].status \in Final => answer[k].whole
\* A result that says timeout is about a command that has run out of time.
TimeoutIsTimeout == \A k \in Calls : answer[k].status = "timeout" => k \in outages \/
    \E n \in DOMAIN procs[k] : procs[k][n].state = "over" \/ procs[k][n].code \in {TimedOut, 137}
==============================================================================
