------------------------------- MODULE AgentTeam -------------------------------
(***************************************************************************)
(* One run of an agent team (src/nexau/archs/main_sub/team/agent_team.py): *)
(* the executors of the leader and its teammates in team mode, the         *)
(* messages that wake them, the watchdog, and the end of the run.          *)
(*                                                                         *)
(* Coroutines share one event loop: what one does between two awaits is    *)
(* one action.  An executor that waits for messages does so in a thread of *)
(* its own (Executor._wait_for_messages), whose statements interleave with *)
(* everything.  What a model or a tool answers is a free choice.           *)
(***************************************************************************)
EXTENDS Integers, FiniteSets, TLAPS

CONSTANTS
    Leader,
    Teammates,     \* the agents that can be spawned or restored
    MaxTeammates,  \* max_teammates
    MaxTexts,      \* text-only answers in a row that end a loop (3 in the code)
    MaxMessages    \* bound on the messages of agents and users, and on the stops

ASSUME TeamAssumption ==
    /\ Leader \notin Teammates
    /\ MaxTeammates \in Nat /\ MaxTexts \in Nat \ {0} /\ MaxMessages \in Nat

Agents == Teammates \cup {Leader}

\* The callers of stop_all_teammates: finish_team, stop_all and run.
Stoppers == {"finish_team", "stop_all", "run"}

VARIABLES
    loop,        \* where the coroutine of each agent's run is
    thread,      \* where the thread that waits for messages is
    fresh,       \* the messages end with one the model has not answered
    texts,       \* _consecutive_text_only_count
    queue,       \* number of queued_messages
    available,   \* the agents whose _message_available is set
    stop,        \* the agents whose stop_signal is set
    idle,        \* the agents whose _is_idle is set
    asking,      \* the agents whose _is_waiting_for_user is set
    asked,       \* the leader's _last_stop_tool_name is ask_user
    members,     \* _teammate_agents
    registered,  \* the teammates the watchdog knows
    notified,    \* its _idle_notified
    halting,     \* the teammates a stop_all_teammates waits for, for each of its callers
    run,         \* AgentTeam.run: going on, ended, or failed on its way out
    budget       \* messages and stops still to come

executor == <<fresh, texts, asked>>
flags == <<available, stop, idle, asking>>
watchdog == <<registered, notified>>
team == <<members, halting, run>>
vars == <<loop, thread, executor, queue, flags, watchdog, team, budget>>

InLoop(a) == loop[a] \in {"top", "work", "finishing", "waiting"}

\* The types, and how the flags of an executor go with the place where its loop
\* and the thread that waits for it are.
TypeOK ==
    /\ loop \in [Agents -> {"absent", "creating", "starting", "preparing", "top", "work", "finishing",
                            "waiting", "leaving", "done", "gone"}]
    /\ thread \in [Agents -> {"off", "enter", "check", "clear", "wait", "resume", "quit"}]
    /\ fresh \in [Agents -> BOOLEAN] /\ texts \in [Agents -> 0..MaxTexts] /\ asked \in BOOLEAN
    /\ queue \in [Agents -> Nat]
    /\ available \cup stop \cup idle \cup asking \subseteq Agents
    /\ members \cup registered \subseteq Teammates
    /\ notified \in BOOLEAN /\ halting \in [Stoppers -> SUBSET Teammates]
    /\ run \in {"on", "ended", "failed"} /\ budget \in 0..MaxMessages
    /\ \A a \in Agents :
        /\ loop[a] = "waiting" => thread[a] # "off"
        /\ a \in idle <=> thread[a] \in {"check", "clear", "wait"}
        /\ thread[a] # "off" /\ loop[a] # "waiting" => loop[a] = "gone"

\* The leader is about to run with the user's message; teammates of an earlier
\* run of the team are restored with the history they had.
Init ==
    \E restored \in {R \in SUBSET Teammates : Cardinality(R) <= MaxTeammates} :
        /\ loop = [a \in Agents |-> IF a = Leader THEN "preparing"
                                    ELSE IF a \in restored THEN "starting" ELSE "absent"]
        /\ thread = [a \in Agents |-> "off"]
        /\ fresh \in [Agents -> BOOLEAN]
        /\ fresh[Leader] /\ \A t \in Teammates \ restored : ~fresh[t]
        /\ texts = [a \in Agents |-> 0] /\ asked = FALSE
        /\ queue = [a \in Agents |-> 0]
        /\ available = {} /\ stop = {} /\ idle = {} /\ asking = {}
        /\ members = restored /\ registered = {} /\ notified = FALSE
        /\ halting = [h \in Stoppers |-> {}] /\ run = "on" /\ budget = MaxMessages

Goto(a, l) == loop' = [loop EXCEPT ![a] = l]

Spend == budget > 0 /\ budget' = budget - 1

------------------------------------------------------------------------------
(* Messages *)

\* Executor.enqueue_message.
Enqueue(a) ==
    /\ queue' = [queue EXCEPT ![a] = @ + 1]
    /\ available' = available \cup {a}

\* The message reaches an agent of the team, and restarts a teammate whose run
\* is over; to others it is only logged.
Deliver(to) ==
    IF to \in members \cup {Leader}
    THEN Enqueue(to) /\ loop' = [loop EXCEPT ![to] = IF to # Leader /\ @ = "done" THEN "starting" ELSE @]
    ELSE UNCHANGED <<queue, available, loop>>

\* Tools are called by an agent at work that has not been stopped.
CallsTools(a) == loop[a] = "work" /\ a \notin stop

\* send_message_to_agent, called by the tools of an agent at work.
SendMessage(from, to) ==
    /\ CallsTools(from) /\ from # to
    /\ Spend
    /\ Deliver(to)
    /\ notified' = FALSE
    /\ UNCHANGED <<thread, executor, stop, idle, asking, registered, team>>

\* enqueue_user_message, from the HTTP routes.
UserMessage(to) ==
    /\ run # "ended"
    /\ Spend
    /\ Deliver(to)
    /\ UNCHANGED <<thread, executor, stop, idle, asking, watchdog, team>>

\* is_all_idle.
AllIdle == \A a \in members \cup {Leader} : a \in idle /\ a \notin asking

\* Seeded defect: the watchdog's own message counts as a change.
NotifyAndReset ==
    /\ loop[Leader] # "done"
    /\ registered # {} /\ AllIdle /\ ~notified
    /\ Enqueue(Leader)
    /\ notified' = FALSE
    /\ UNCHANGED <<loop, thread, executor, stop, idle, asking, registered, team, budget>>

\* TeammateWatchdog.run: one notification, which does not reset the flag.
Notify ==
    /\ loop[Leader] # "done"
    /\ registered # {} /\ AllIdle /\ ~notified
    /\ Enqueue(Leader)
    /\ notified' = TRUE
    /\ UNCHANGED <<loop, thread, executor, stop, idle, asking, registered, team, budget>>

------------------------------------------------------------------------------
(* The thread that waits for messages *)

ThreadStep(a, from, to) == thread[a] = from /\ thread' = [thread EXCEPT ![a] = to]

Enter(a) ==
    /\ ThreadStep(a, "enter", "check")
    /\ idle' = idle \cup {a}
    /\ UNCHANGED <<loop, executor, queue, available, stop, asking, watchdog, team, budget>>

\* Seeded defect: the agent stays marked as idle.
CheckStaysIdle(a) ==
    /\ IF a \notin stop /\ queue[a] = 0
       THEN ThreadStep(a, "check", "clear") /\ UNCHANGED <<idle, asking>>
       ELSE /\ ThreadStep(a, "check", IF a \in stop THEN "quit" ELSE "resume")
            /\ asking' = asking \ {a}
            /\ UNCHANGED idle
    /\ UNCHANGED <<loop, executor, queue, available, stop, watchdog, team, budget>>

\* The condition of the loop, and the way out of it.
Check(a) ==
    /\ IF a \notin stop /\ queue[a] = 0
       THEN ThreadStep(a, "check", "clear") /\ UNCHANGED <<idle, asking>>
       ELSE /\ ThreadStep(a, "check", IF a \in stop THEN "quit" ELSE "resume")
            /\ idle' = idle \ {a}
            /\ asking' = asking \ {a}
    /\ UNCHANGED <<loop, executor, queue, available, stop, watchdog, team, budget>>

\* A message that came since the check is not announced any more.
Clear(a) ==
    /\ ThreadStep(a, "clear", "wait")
    /\ available' = available \ {a}
    /\ UNCHANGED <<loop, executor, queue, stop, idle, asking, watchdog, team, budget>>

\* Seeded defect: the wait has no timeout.
WakeOnlyWhenSet(a) ==
    /\ a \in available
    /\ ThreadStep(a, "wait", "check")
    /\ UNCHANGED <<loop, executor, queue, flags, watchdog, team, budget>>

\* Event.wait returns when the event is set, or after 30 s.
Wake(a) ==
    /\ ThreadStep(a, "wait", "check")
    /\ UNCHANGED <<loop, executor, queue, flags, watchdog, team, budget>>

\* The coroutine goes on, unless it has been cancelled meanwhile.
Return(a) ==
    /\ thread[a] \in {"resume", "quit"}
    /\ thread' = [thread EXCEPT ![a] = "off"]
    /\ loop' = [loop EXCEPT ![a] = IF @ # "waiting" THEN @ ELSE IF thread[a] = "quit" THEN "leaving" ELSE "top"]
    /\ UNCHANGED <<executor, queue, flags, watchdog, team, budget>>

WaitStep(a) == Enter(a) \/ Check(a) \/ Clear(a) \/ Wake(a) \/ Return(a)

------------------------------------------------------------------------------
(* Executor.execute_async *)

\* The signals of the run before are dropped, and those sent since.
Execute(a) ==
    /\ loop[a] = "preparing"
    /\ Goto(a, "top")
    /\ stop' = stop \ {a}
    /\ UNCHANGED <<thread, executor, queue, available, idle, asking, watchdog, team, budget>>

StartWaiting(a) == Goto(a, "waiting") /\ thread' = [thread EXCEPT ![a] = "enter"]

\* Seeded defect: the stop signal is not looked at between iterations.
TopIgnoringStop(a) ==
    /\ loop[a] = "top"
    /\ queue' = [queue EXCEPT ![a] = 0]
    /\ IF fresh[a] \/ queue[a] > 0
       THEN Goto(a, "work") /\ fresh' = [fresh EXCEPT ![a] = TRUE] /\ UNCHANGED thread
       ELSE StartWaiting(a) /\ UNCHANGED fresh
    /\ UNCHANGED <<texts, asked, flags, watchdog, team, budget>>

\* The head of the loop: leave on a stop signal, take the queued messages, and
\* wait when there is nothing for the model to answer.
Top(a) ==
    /\ loop[a] = "top"
    /\ IF a \in stop
       THEN Goto(a, "leaving") /\ UNCHANGED <<thread, fresh, queue>>
       ELSE /\ queue' = [queue EXCEPT ![a] = 0]
            /\ IF fresh[a] \/ queue[a] > 0
               THEN Goto(a, "work") /\ fresh' = [fresh EXCEPT ![a] = TRUE] /\ UNCHANGED thread
               ELSE StartWaiting(a) /\ UNCHANGED fresh
    /\ UNCHANGED <<texts, asked, flags, watchdog, team, budget>>

\* The tools of the iteration have ended: the leader's spawn_teammate.
Settled(a) == a = Leader => \A t \in Teammates : loop[t] # "creating"

\* An iteration with tool calls, or one that would stop with messages queued.
Continue(a) ==
    /\ loop[a] = "work" /\ Settled(a)
    /\ Goto(a, "top")
    /\ texts' = [texts EXCEPT ![a] = 0]
    /\ \/ fresh' = [fresh EXCEPT ![a] = TRUE] /\ UNCHANGED asked
       \/ queue[a] > 0 /\ fresh' = [fresh EXCEPT ![a] = FALSE] /\ UNCHANGED asked
       \/ queue[a] > 0 /\ UNCHANGED fresh /\ (IF a = Leader THEN asked' \in BOOLEAN ELSE UNCHANGED asked)
    /\ UNCHANGED <<thread, queue, flags, watchdog, team, budget>>

\* An answer without tool calls: the leader of a team waits, everybody else is
\* reminded, and leaves when the reminders do not help.
TextOnly(a) ==
    /\ loop[a] = "work" /\ queue[a] = 0 /\ Settled(a)
    /\ IF a = Leader /\ members # {}
       THEN /\ StartWaiting(a)
            /\ asking' = IF asked THEN asking \cup {a} ELSE asking
            /\ fresh' = [fresh EXCEPT ![a] = FALSE]
            /\ UNCHANGED texts
       ELSE /\ texts' = [texts EXCEPT ![a] = IF @ < MaxTexts THEN @ + 1 ELSE @]
            /\ fresh' = [fresh EXCEPT ![a] = texts[a] + 1 < MaxTexts]
            /\ Goto(a, IF texts[a] + 1 < MaxTexts THEN "top" ELSE "leaving")
            /\ UNCHANGED <<thread, asking>>
    /\ UNCHANGED <<asked, queue, available, stop, idle, watchdog, team, budget>>

\* A stop tool other than finish_team: ask_user, or another one.
StopTool(a) ==
    /\ loop[a] = "work" /\ queue[a] = 0 /\ Settled(a)
    /\ StartWaiting(a)
    /\ \E ask \in BOOLEAN :
        /\ asked' = IF a = Leader THEN ask ELSE asked
        /\ asking' = IF ask THEN asking \cup {a} ELSE asking
    /\ UNCHANGED <<fresh, texts, queue, available, stop, idle, watchdog, team, budget>>

\* An error, max_iterations, a middleware that stops the run, an interrupted call.
Break(a) ==
    /\ loop[a] \in {"preparing", "work"} /\ Settled(a)
    /\ Goto(a, "leaving")
    /\ \E f \in BOOLEAN : fresh' = [fresh EXCEPT ![a] = f]
    /\ UNCHANGED <<thread, texts, asked, queue, flags, watchdog, team, budget>>

\* The run returns to _run_teammate_forever, or to AgentTeam.run.
Leave(a) ==
    /\ loop[a] = "leaving"
    /\ Goto(a, "done")
    /\ IF a = Leader
       THEN UNCHANGED watchdog
       ELSE registered' = registered \ {a} /\ notified' = FALSE
    /\ UNCHANGED <<thread, executor, queue, flags, team, budget>>

LoopStep(a) == Execute(a) \/ Top(a) \/ Continue(a) \/ TextOnly(a) \/ StopTool(a) \/ Break(a) \/ Leave(a)

------------------------------------------------------------------------------
(* The life of a teammate *)

\* spawn_teammate: the limit is looked at before the rows and the agent are
\* created, the teammate joins the team afterwards.
BeginSpawn(t) ==
    /\ CallsTools(Leader) /\ loop[t] = "absent"
    /\ Cardinality(members) < MaxTeammates
    /\ Goto(t, "creating")
    /\ UNCHANGED <<thread, executor, queue, flags, watchdog, team, budget>>

EndSpawn(t) ==
    /\ loop[t] = "creating"
    /\ Goto(t, "starting")
    /\ members' = members \cup {t}
    /\ UNCHANGED <<thread, executor, queue, flags, watchdog, halting, run, budget>>

\* A stop of the leader cancels the tool.
AbortSpawn(t) ==
    /\ loop[t] = "creating" /\ Leader \in stop
    /\ Goto(t, "absent")
    /\ UNCHANGED <<thread, executor, queue, flags, watchdog, team, budget>>

\* _run_teammate_forever up to run_async.
Register(t) ==
    /\ loop[t] = "starting"
    /\ Goto(t, "preparing")
    /\ registered' = registered \cup {t} /\ notified' = FALSE
    /\ UNCHANGED <<thread, executor, queue, flags, team, budget>>

\* The task is cancelled, except for a thread that waits.
Cancelled(S) == [a \in Agents |-> IF a \in S THEN "gone" ELSE loop[a]]

\* remove_teammate, of the leader.
Remove(t) ==
    /\ CallsTools(Leader) /\ t \in members
    /\ members' = members \ {t}
    /\ stop' = stop \cup {t} /\ available' = available \cup {t}
    /\ loop' = Cancelled({t})
    /\ registered' = registered \ {t} /\ notified' = FALSE
    /\ UNCHANGED <<thread, executor, queue, idle, asking, halting, run, budget>>

------------------------------------------------------------------------------
(* The end *)

ForceStop(S) == stop' = stop \cup S /\ available' = available \cup S

\* stop_all_teammates stops the executors and begins to wait for their tasks.
BeginHalt(h, others) ==
    /\ halting[h] = {}
    /\ halting' = [halting EXCEPT ![h] = members]
    /\ ForceStop(members \cup others)

\* Seeded defect: stop_all_teammates waits for the tasks as long as it takes.
HaltWithoutTimeout(h) ==
    /\ halting[h] # {}
    /\ \A t \in halting[h] : loop[t] \in {"done", "gone"}
    /\ halting' = [halting EXCEPT ![h] = {}]
    /\ members' = {} /\ loop' = Cancelled(halting[h])
    /\ registered' = registered \ halting[h]
    /\ notified' = (notified /\ registered \cap halting[h] = {})
    /\ UNCHANGED <<run, thread, executor, queue, flags, budget>>

\* It has waited 10 s at most for each task and cancelled those that had not
\* ended.  It walks over the dict of the tasks while it waits: when the team has
\* changed meanwhile it fails, unless it had come to the end of the dict.
Halt(h) ==
    /\ halting[h] # {}
    /\ halting' = [halting EXCEPT ![h] = {}]
    /\ \/ /\ members' = {} /\ loop' = Cancelled(halting[h])
          /\ registered' = registered \ halting[h]
          /\ notified' = (notified /\ registered \cap halting[h] = {})
          /\ UNCHANGED run
       \/ /\ members # halting[h]
          /\ run' = IF h = "run" THEN "failed" ELSE run
          /\ UNCHANGED <<members, loop, watchdog>>
    /\ UNCHANGED <<thread, executor, queue, flags, budget>>

\* get_teammate_info has a teammate that runs.
SomeoneRuns == \E t \in members : loop[t] # "done" /\ t \notin idle

\* finish_team, of the leader, when teammates are running.
Finish ==
    /\ CallsTools(Leader) /\ SomeoneRuns
    /\ Goto(Leader, "finishing")
    /\ BeginHalt("finish_team", {})
    /\ UNCHANGED <<thread, executor, queue, idle, asking, watchdog, members, run, budget>>

\* finish_team answers.  It refuses when tasks are left or it has failed, and a
\* message that has arrived overrules it.
Finished ==
    /\ Settled(Leader)
    /\ \/ loop[Leader] = "finishing" /\ halting["finish_team"] = {}
       \/ loop[Leader] = "work" /\ ~SomeoneRuns
    /\ \/ Goto(Leader, "top") /\ UNCHANGED asked
       \/ queue[Leader] > 0 /\ Goto(Leader, "top") /\ asked' = FALSE
       \/ queue[Leader] = 0 /\ Goto(Leader, "leaving") /\ asked' = FALSE
    /\ UNCHANGED <<thread, fresh, texts, queue, flags, watchdog, team, budget>>

\* stop_all, of the user.
StopAll ==
    /\ run # "ended"
    /\ Spend
    /\ BeginHalt("stop_all", {Leader})
    /\ UNCHANGED <<loop, thread, executor, queue, idle, asking, watchdog, members, run>>

\* The leader's run is over: AgentTeam.run stops the watchdog and the teammates.
StopTeam ==
    /\ loop[Leader] = "done" /\ run = "on" /\ members # {}
    /\ BeginHalt("run", {})
    /\ UNCHANGED <<loop, thread, executor, queue, idle, asking, watchdog, members, run, budget>>

RunReturns ==
    /\ loop[Leader] = "done" /\ run = "on" /\ members = {} /\ halting["run"] = {}
    /\ run' = "ended"
    /\ UNCHANGED <<loop, thread, executor, queue, flags, watchdog, members, halting, budget>>

TeammateStep(t) == BeginSpawn(t) \/ EndSpawn(t) \/ AbortSpawn(t) \/ Register(t) \/ Remove(t)

Next ==
    \/ \E a \in Agents : WaitStep(a) \/ LoopStep(a) \/ UserMessage(a)
    \/ \E from, to \in Agents : SendMessage(from, to)
    \/ \E t \in Teammates : TeammateStep(t)
    \/ Notify
    \/ \E h \in Stoppers : Halt(h)
    \/ Finish \/ Finished \/ StopAll \/ StopTeam \/ RunReturns

AgentStep(a) == WaitStep(a) \/ LoopStep(a) \/ (a = Leader /\ Finished)

\* Tasks and threads are scheduled, and the calls of the model and of tools end.
Fairness ==
    /\ \A a \in Agents : WF_vars(AgentStep(a))
    /\ \A t \in Teammates : WF_vars(EndSpawn(t) \/ Register(t))
    /\ \A h \in Stoppers \ {"run"} : WF_vars(Halt(h))
    /\ WF_vars(StopTeam \/ Halt("run") \/ RunReturns)

Spec == Init /\ [][Next]_vars /\ Fairness
------------------------------------------------------------------------------
(* Properties *)

\* A message that reaches an agent in its loop is handed to the model, however
\* the enqueuing falls between the check, the clear and the wait of
\* _wait_for_messages, unless the agent leaves its loop.
EveryMessageTaken ==
    \A a \in Agents : queue[a] > 0 /\ InLoop(a) ~> queue[a] = 0 \/ ~InLoop(a)

\* An agent that is stopped in its loop leaves it: while it works, between two
\* iterations and while it waits.
StopEndsLoop ==
    \A a \in Agents : a \in stop /\ InLoop(a) ~> ~InLoop(a)

\* Watchdog and leader do not keep each other busy for ever: the leader works on
\* "all idle", rests, and is left alone until somebody else sends a message,
\* joins or leaves.
WatchdogQuiets == <>[][~Notify]_vars

\* The watchdog wakes the leader only when every agent of the team is in its
\* wait, none of them for an answer of the user.
WakesOnlyARestingTeam ==
    [][Notify => \A a \in members \cup {Leader} : loop[a] = "waiting" /\ a \notin asking]_vars

\* Once the leader is done the run comes to an end, although a teammate may have
\* lost its stop signal (execute_async resets it) and waits for messages.
RunEnds == loop[Leader] = "done" ~> run # "on"

\* The team comes to rest: stops are obeyed by an agent in its loop and by the
\* team when its leader is done, and the watchdog stops waking who has nothing to do.
TeamComesToRest == StopEndsLoop /\ RunEnds /\ WatchdogQuiets

\* A run that ends is marked as ended (step 11 of the finally of AgentTeam.run): its
\* streams are closed and its team can run again.
RunMarkedEnded == run # "failed"

------------------------------------------------------------------------------
(* Proofs: the invariant of a run of a team, for any teammates and messages *)

Loops == {"absent", "creating", "starting", "preparing", "top", "work", "finishing", "waiting", "leaving", "done", "gone"}
Threads == {"off", "enter", "check", "clear", "wait", "resume", "quit"}

\* TypeOK in three parts: what the executors hold, the rest, and how they go together.
Executors ==
    /\ loop \in [Agents -> Loops] /\ thread \in [Agents -> Threads]
    /\ fresh \in [Agents -> BOOLEAN] /\ texts \in [Agents -> 0..MaxTexts] /\ asked \in BOOLEAN
    /\ queue \in [Agents -> Nat]
    /\ available \subseteq Agents /\ stop \subseteq Agents /\ idle \subseteq Agents /\ asking \subseteq Agents
Rest ==
    /\ members \subseteq Teammates /\ registered \subseteq Teammates
    /\ notified \in BOOLEAN /\ halting \in [Stoppers -> SUBSET Teammates]
    /\ run \in {"on", "ended", "failed"} /\ budget \in 0..MaxMessages
Placed(l, t, i) ==
    /\ l = "waiting" => t # "off"
    /\ i <=> t \in {"check", "clear", "wait"}
    /\ t # "off" /\ l # "waiting" => l = "gone"
Places == \A a \in Agents : Placed(loop[a], thread[a], a \in idle)

\* The task of an agent of the team has not been cancelled.
Present == \A a \in members \cup {Leader} : loop[a] # "gone"

IInv == Executors /\ Rest /\ Places /\ Present

\* The invariant has the types and the places of TypeOK.
LEMMA Typed == IInv => TypeOK
BY DEF IInv, Executors, Rest, Places, Placed, TypeOK, Loops, Threads

\* The thread of an agent and the flags it sets.
LEMMA WaitStepKeeps ==
  ASSUME IInv, NEW a \in Agents, WaitStep(a)
  PROVE  IInv'
<1>1. Executors /\ Rest /\ Places /\ Present
  BY DEF IInv
<1>2. UNCHANGED <<fresh, texts, asked, queue, stop, watchdog, team, budget>>
  BY DEF WaitStep, Enter, Check, Clear, Wake, Return, executor, flags
<1>3. Rest'
  BY <1>1, <1>2 DEF Rest, watchdog, team
<1>4. CASE Enter(a) \/ Check(a) \/ Clear(a) \/ Wake(a)
  <2>1. PICK to \in Threads : thread' = [thread EXCEPT ![a] = to] /\ to # "off" /\ thread[a] # "off"
                              /\ (a \in idle' <=> to \in {"check", "clear", "wait"})
    BY <1>1, <1>4 DEF Enter, Check, Clear, Wake, ThreadStep, Threads, Places, Placed, flags
  <2>2. loop' = loop /\ idle' \in {idle, idle \cup {a}, idle \ {a}} /\ available' \subseteq available /\ asking' \subseteq asking
    BY <1>4 DEF Enter, Check, Clear, Wake, flags
  <2>3. Executors'
    BY <1>1, <1>2, <2>1, <2>2 DEF Executors
  <2>4. Places'
    BY <1>1, <2>1, <2>2 DEF Executors, Places, Placed
  <2>5. Present'
    BY <1>1, <1>2, <2>2 DEF Present, team
  <2>6. QED BY <1>3, <2>3, <2>4, <2>5 DEF IInv
<1>5. CASE Return(a)
  <2>1. PICK l \in Loops : loop' = [loop EXCEPT ![a] = l] /\ l # "waiting" /\ (l = "gone" => loop[a] = "gone")
    BY <1>1, <1>5 DEF Return, Executors, Loops
  <2>2. /\ thread' = [thread EXCEPT ![a] = "off"] /\ thread[a] \in {"resume", "quit"}
        /\ UNCHANGED flags
    BY <1>5 DEF Return
  <2>3. Executors'
    BY <1>1, <1>2, <2>1, <2>2 DEF Executors, Threads, flags
  <2>4. Places'
    BY <1>1, <2>1, <2>2 DEF Executors, Places, Placed, flags
  <2>5. Present'
    BY <1>1, <1>2, <2>1 DEF Present, Executors, team
  <2>6. QED BY <1>3, <2>3, <2>4, <2>5 DEF IInv
<1>6. QED BY <1>4, <1>5 DEF WaitStep

\* An agent goes on to another place of its loop, with its thread off.
LEMMA GoesOn ==
  ASSUME IInv, NEW a \in Agents, NEW l \in Loops \ {"waiting", "gone"},
         loop[a] \notin {"waiting", "gone"}, loop' = [loop EXCEPT ![a] = l],
         UNCHANGED <<thread, idle>>, members' \subseteq members \cup {a}
  PROVE  Places' /\ Present' /\ loop' \in [Agents -> Loops]
<1>1. Executors /\ Rest /\ Places /\ Present
  BY DEF IInv
<1>2. \A x \in Agents : loop'[x] = IF x = a THEN l ELSE loop[x]
  BY <1>1 DEF Executors
<1>3. Places'
  BY <1>1, <1>2 DEF Places, Placed
<1>4. Present'
  BY <1>1, <1>2 DEF Present, Rest, Agents
<1>5. QED BY <1>1, <1>3, <1>4 DEF Executors

\* An agent begins to wait: its thread was off.
LEMMA WaitsNow ==
  ASSUME IInv, NEW a \in Agents, loop[a] \notin {"waiting", "gone"}, StartWaiting(a), UNCHANGED <<idle, members>>
  PROVE  Places' /\ Present' /\ loop' \in [Agents -> Loops] /\ thread' \in [Agents -> Threads]
<1>1. Executors /\ Rest /\ Places /\ Present
  BY DEF IInv
<1>2. loop' = [loop EXCEPT ![a] = "waiting"] /\ thread' = [thread EXCEPT ![a] = "enter"]
  BY DEF StartWaiting, Goto
<1>3. /\ \A x \in Agents : loop'[x] = IF x = a THEN "waiting" ELSE loop[x]
      /\ \A x \in Agents : thread'[x] = IF x = a THEN "enter" ELSE thread[x]
      /\ loop' \in [Agents -> Loops] /\ thread' \in [Agents -> Threads]
  BY <1>1, <1>2 DEF Executors, Loops, Threads
<1>4. Places'
  BY <1>1, <1>3 DEF Places, Placed
<1>5. Present'
  BY <1>1, <1>3 DEF Present, Rest, Agents
<1>6. QED BY <1>3, <1>4, <1>5

\* One iteration of an agent's loop.
LEMMA LoopStepKeeps ==
  ASSUME IInv, NEW a \in Agents, LoopStep(a)
  PROVE  IInv'
<1>1. Executors /\ Rest
  BY DEF IInv
<1>2. CASE Execute(a)
  <2>1. Places' /\ Present' /\ loop' \in [Agents -> Loops]
    BY <1>2, GoesOn DEF Execute, Goto, team, Loops
  <2>2. Executors' /\ Rest'
    BY <1>1, <1>2, <2>1 DEF Executors, Rest, Execute, executor, watchdog, team
  <2>3. QED BY <2>1, <2>2 DEF IInv
<1>3. CASE Top(a)
  <2>1. loop[a] = "top" /\ UNCHANGED <<texts, asked, flags, watchdog, team, budget>>
    BY <1>3 DEF Top
  <2>2. Places' /\ Present' /\ loop' \in [Agents -> Loops] /\ thread' \in [Agents -> Threads]
    <3>1. CASE StartWaiting(a)
      BY <2>1, <3>1, WaitsNow DEF flags, team
    <3>2. CASE UNCHANGED thread /\ (Goto(a, "leaving") \/ Goto(a, "work"))
      BY <1>1, <2>1, <3>2, GoesOn DEF flags, team, Goto, Loops, Executors
    <3>3. QED BY <1>3, <3>1, <3>2 DEF Top
  <2>3. fresh' \in [Agents -> BOOLEAN] /\ queue' \in [Agents -> Nat]
    <3>1. fresh' \in {fresh, [fresh EXCEPT ![a] = TRUE]} /\ queue' \in {queue, [queue EXCEPT ![a] = 0]}
      BY <1>3 DEF Top
    <3>2. [fresh EXCEPT ![a] = TRUE] \in [Agents -> BOOLEAN] /\ [queue EXCEPT ![a] = 0] \in [Agents -> Nat]
      BY <1>1 DEF Executors
    <3>3. QED BY <1>1, <3>1, <3>2 DEF Executors
  <2>4. Executors' /\ Rest'
    BY <1>1, <2>1, <2>2, <2>3 DEF Executors, Rest, flags, watchdog, team
  <2>5. QED BY <2>2, <2>4 DEF IInv
<1>4. CASE Continue(a)
  <2>1. Places' /\ Present' /\ loop' \in [Agents -> Loops]
    BY <1>4, GoesOn DEF Continue, Goto, team, flags, Loops
  <2>2. fresh' \in [Agents -> BOOLEAN] /\ texts' \in [Agents -> 0..MaxTexts] /\ asked' \in BOOLEAN
    <3>1. PICK f \in BOOLEAN : fresh' \in {fresh, [fresh EXCEPT ![a] = f]}
      BY <1>4 DEF Continue
    <3>2. texts' = [texts EXCEPT ![a] = 0] /\ asked' \in BOOLEAN
      BY <1>1, <1>4 DEF Continue, Executors
    <3>3. [fresh EXCEPT ![a] = f] \in [Agents -> BOOLEAN] /\ 0 \in 0..MaxTexts
      BY <1>1, TeamAssumption DEF Executors
    <3>4. QED BY <1>1, <3>1, <3>2, <3>3 DEF Executors
  <2>3. Executors' /\ Rest'
    BY <1>1, <1>4, <2>1, <2>2 DEF Continue, Executors, Rest, flags, watchdog, team
  <2>4. QED BY <2>1, <2>3 DEF IInv
<1>5. CASE TextOnly(a)
  <2>1. loop[a] = "work" /\ UNCHANGED <<asked, queue, available, stop, idle, watchdog, team, budget>>
    BY <1>5 DEF TextOnly
  <2>2. Places' /\ Present' /\ loop' \in [Agents -> Loops] /\ thread' \in [Agents -> Threads]
    <3>1. CASE StartWaiting(a)
      BY <2>1, <3>1, WaitsNow DEF team
    <3>2. CASE UNCHANGED thread /\ (Goto(a, "leaving") \/ Goto(a, "top"))
      BY <1>1, <2>1, <3>2, GoesOn DEF team, Goto, Loops, Executors
    <3>3. QED BY <1>5, <3>1, <3>2 DEF TextOnly
  <2>3. fresh' \in [Agents -> BOOLEAN] /\ texts' \in [Agents -> 0..MaxTexts] /\ asking' \subseteq Agents
    <3>1. PICK f \in BOOLEAN : fresh' = [fresh EXCEPT ![a] = f]
      <4>1. CASE a = Leader /\ members # {}
        <5>1. fresh' = [fresh EXCEPT ![a] = FALSE]
          BY <1>5, <4>1 DEF TextOnly
        <5>2. QED BY <5>1
      <4>2. CASE ~(a = Leader /\ members # {})
        <5>1. fresh' = [fresh EXCEPT ![a] = texts[a] + 1 < MaxTexts]
          BY <1>5, <4>2 DEF TextOnly
        <5>2. (texts[a] + 1 < MaxTexts) \in BOOLEAN
          OBVIOUS
        <5>3. QED BY <5>1, <5>2
      <4>3. QED BY <4>1, <4>2
    <3>2. PICK n \in 0..MaxTexts : texts' \in {texts, [texts EXCEPT ![a] = n]}
      <4> DEFINE n == IF texts[a] < MaxTexts THEN texts[a] + 1 ELSE texts[a]
      <4>1. n \in 0..MaxTexts
        BY <1>1, TeamAssumption DEF Executors
      <4>2. texts' \in {texts, [texts EXCEPT ![a] = n]}
        BY <1>1, <1>5 DEF TextOnly, Executors
      <4>3. QED BY <4>1, <4>2
    <3>3. asking' \subseteq asking \cup {a}
      BY <1>5 DEF TextOnly
    <3>4. [fresh EXCEPT ![a] = f] \in [Agents -> BOOLEAN] /\ [texts EXCEPT ![a] = n] \in [Agents -> 0..MaxTexts]
      BY <1>1 DEF Executors
    <3>5. QED BY <1>1, <3>1, <3>2, <3>3, <3>4 DEF Executors
  <2>4. Executors' /\ Rest'
    BY <1>1, <2>1, <2>2, <2>3 DEF Executors, Rest, watchdog, team
  <2>5. QED BY <2>2, <2>4 DEF IInv
<1>6. CASE StopTool(a)
  <2>1. /\ loop[a] = "work" /\ StartWaiting(a) /\ asking' \subseteq asking \cup {a} /\ asked' \in BOOLEAN
        /\ UNCHANGED <<fresh, texts, queue, available, stop, idle, watchdog, team, budget>>
    BY <1>1, <1>6 DEF StopTool, Executors
  <2>2. Places' /\ Present' /\ loop' \in [Agents -> Loops] /\ thread' \in [Agents -> Threads]
    BY <2>1, WaitsNow DEF team
  <2>3. Executors' /\ Rest'
    BY <1>1, <2>1, <2>2 DEF Executors, Rest, watchdog, team
  <2>4. QED BY <2>2, <2>3 DEF IInv
<1>7. CASE Break(a) \/ Leave(a)
  <2>1. /\ loop[a] \notin {"waiting", "gone"} /\ (Goto(a, "leaving") \/ Goto(a, "done"))
        /\ registered' \subseteq registered /\ notified' \in {notified, FALSE}
        /\ UNCHANGED <<thread, texts, asked, queue, flags, team, budget>>
    BY <1>7 DEF Break, Leave, watchdog, executor
  <2>2. Places' /\ Present' /\ loop' \in [Agents -> Loops]
    BY <2>1, GoesOn DEF Goto, flags, team, Loops
  <2>3. fresh' \in [Agents -> BOOLEAN]
    BY <1>1, <1>7 DEF Break, Leave, executor, Executors
  <2>4. Executors' /\ Rest'
    BY <1>1, <2>1, <2>2, <2>3 DEF Executors, Rest, flags, team
  <2>5. QED BY <2>2, <2>4 DEF IInv
<1>8. QED BY <1>2, <1>3, <1>4, <1>5, <1>6, <1>7 DEF LoopStep

\* A message.
LEMMA DeliverKeeps ==
  ASSUME IInv, NEW a \in Agents, Deliver(a) \/ (a = Leader /\ Enqueue(a) /\ loop' = loop),
         UNCHANGED <<thread, executor, stop, idle, asking, registered, team>>,
         notified' \in BOOLEAN, budget' \in 0..MaxMessages
  PROVE  IInv'
<1>1. Executors /\ Rest /\ Places /\ Present
  BY DEF IInv
<1>2. \/ loop' = loop
      \/ loop[a] = "done" /\ loop' = [loop EXCEPT ![a] = "starting"]
  <2>1. CASE Deliver(a) /\ a \in members \cup {Leader} /\ a # Leader /\ loop[a] = "done"
    BY <2>1 DEF Deliver
  <2>2. CASE ~(Deliver(a) /\ a \in members \cup {Leader} /\ a # Leader /\ loop[a] = "done")
    <3>1. loop' = loop \/ loop' = [loop EXCEPT ![a] = loop[a]]
      BY <2>2 DEF Deliver
    <3>2. QED BY <1>1, <3>1 DEF Executors
  <2>3. QED BY <2>1, <2>2
<1>3. Places' /\ Present' /\ loop' \in [Agents -> Loops]
  <2>1. CASE loop' = loop
    BY <1>1, <2>1 DEF Places, Present, Executors, team
  <2>2. CASE loop[a] = "done" /\ loop' = [loop EXCEPT ![a] = "starting"]
    BY <2>2, GoesOn DEF team, Loops
  <2>3. QED BY <1>2, <2>1, <2>2
<1>4. queue' \in [Agents -> Nat] /\ available' \subseteq Agents
  BY <1>1 DEF Deliver, Enqueue, Executors
<1>5. Executors' /\ Rest'
  BY <1>1, <1>3, <1>4 DEF Executors, Rest, executor, team
<1>6. QED BY <1>3, <1>5 DEF IInv

\* A teammate is created, restored or removed.
LEMMA TeammateStepKeeps ==
  ASSUME IInv, NEW t \in Teammates, TeammateStep(t)
  PROVE  IInv'
<1>1. Executors /\ Rest /\ Places /\ Present /\ t \in Agents /\ t # Leader
  BY TeamAssumption DEF IInv, Agents
<1>2. CASE BeginSpawn(t) \/ EndSpawn(t) \/ AbortSpawn(t) \/ Register(t)
  <2>1. PICK l \in Loops \ {"waiting", "gone"} : loop[t] \notin {"waiting", "gone"} /\ loop' = [loop EXCEPT ![t] = l]
    BY <1>2 DEF BeginSpawn, EndSpawn, AbortSpawn, Register, Goto, Loops
  <2>2. /\ members' \subseteq members \cup {t} /\ registered' \subseteq registered \cup {t} /\ notified' \in {notified, FALSE}
        /\ UNCHANGED <<thread, executor, queue, flags, halting, run, budget>>
    BY <1>2 DEF BeginSpawn, EndSpawn, AbortSpawn, Register, watchdog, team
  <2>3. Places' /\ Present' /\ loop' \in [Agents -> Loops]
    BY <1>1, <2>1, <2>2, GoesOn DEF flags
  <2>4. Executors' /\ Rest'
    BY <1>1, <2>2, <2>3 DEF Executors, Rest, executor, flags
  <2>5. QED BY <2>3, <2>4 DEF IInv
<1>3. CASE Remove(t)
  <2>1. /\ members' = members \ {t} /\ stop' = stop \cup {t} /\ available' = available \cup {t}
        /\ loop' = Cancelled({t}) /\ registered' = registered \ {t} /\ notified' = FALSE
        /\ UNCHANGED <<thread, executor, queue, idle, asking, halting, run, budget>>
    BY <1>3 DEF Remove
  <2>2. \A x \in Agents : loop'[x] = IF x = t THEN "gone" ELSE loop[x]
    BY <2>1 DEF Cancelled
  <2>3. loop' \in [Agents -> Loops]
    BY <1>1, <2>1 DEF Cancelled, Executors, Loops
  <2>4. Executors' /\ Rest'
    BY <1>1, <2>1, <2>3 DEF Executors, Rest, executor
  <2>5. Places' /\ Present'
    BY <1>1, <2>1, <2>2 DEF Places, Placed, Present, Rest, Agents
  <2>6. QED BY <2>4, <2>5 DEF IInv
<1>4. QED BY <1>2, <1>3 DEF TeammateStep

\* stop_all_teammates: the teammates it has waited for are of the team no more.
LEMMA HaltKeeps ==
  ASSUME IInv, NEW h \in Stoppers, Halt(h)
  PROVE  IInv'
<1>1. Executors /\ Rest /\ Places /\ Present /\ Leader \notin Teammates
  BY TeamAssumption DEF IInv
<1>2. halting' = [halting EXCEPT ![h] = {}] /\ UNCHANGED <<thread, executor, queue, flags, budget>>
  BY DEF Halt
<1>3. CASE members' = {} /\ loop' = Cancelled(halting[h]) /\ registered' = registered \ halting[h]
           /\ notified' = (notified /\ registered \cap halting[h] = {}) /\ UNCHANGED run
  <2>1. halting[h] \subseteq Teammates
    BY <1>1 DEF Rest
  <2>2. /\ \A x \in Agents : loop'[x] = IF x \in halting[h] THEN "gone" ELSE loop[x]
        /\ loop' \in [Agents -> Loops]
    BY <1>1, <1>3 DEF Cancelled, Executors, Loops
  <2>3. Executors' /\ Rest'
    BY <1>1, <1>2, <1>3, <2>2 DEF Executors, Rest, executor, flags
  <2>4. Places' /\ Present'
    BY <1>1, <1>2, <1>3, <2>1, <2>2 DEF Places, Placed, Present, Agents, flags
  <2>5. QED BY <2>3, <2>4 DEF IInv
<1>4. CASE UNCHANGED <<members, loop, watchdog>> /\ run' = (IF h = "run" THEN "failed" ELSE run)
  <2>1. Executors' /\ Rest'
    BY <1>1, <1>2, <1>4 DEF Executors, Rest, executor, flags, watchdog
  <2>2. Places' /\ Present'
    BY <1>1, <1>2, <1>4 DEF Places, Placed, Present, flags
  <2>3. QED BY <2>1, <2>2 DEF IInv
<1>5. QED BY <1>3, <1>4 DEF Halt

\* finish_team, stop_all and the end of the run.
LEMMA EndStepKeeps ==
  ASSUME IInv, Finish \/ Finished \/ StopAll \/ StopTeam \/ RunReturns
  PROVE  IInv'
<1>1. Executors /\ Rest /\ Places /\ Present /\ Leader \in Agents /\ members \subseteq Agents
  BY DEF IInv, Agents, Rest
<1>2. CASE Finish \/ Finished
  <2>1. PICK l \in Loops \ {"waiting", "gone"} : loop[Leader] \notin {"waiting", "gone"} /\ Goto(Leader, l)
    BY <1>2 DEF Finish, Finished, CallsTools, Loops
  <2>2. /\ halting' \in {halting, [halting EXCEPT !["finish_team"] = members]} /\ asked' \in {asked, FALSE}
        /\ stop' \subseteq stop \cup members /\ available' \subseteq available \cup members
        /\ UNCHANGED <<thread, fresh, texts, queue, idle, asking, watchdog, members, run, budget>>
    BY <1>2 DEF Finish, Finished, BeginHalt, ForceStop, executor, flags, team
  <2>3. Places' /\ Present' /\ loop' \in [Agents -> Loops]
    BY <1>1, <2>1, <2>2, GoesOn DEF Goto
  <2>4. Executors'
    BY <1>1, <2>2, <2>3 DEF Executors
  <2>5. Rest'
    BY <1>1, <2>2 DEF Rest, watchdog, Stoppers
  <2>6. QED BY <2>3, <2>4, <2>5 DEF IInv
<1>3. CASE StopAll \/ StopTeam \/ RunReturns
  <2>1. PICK h \in Stoppers : halting' \in {halting, [halting EXCEPT ![h] = members]}
    BY <1>3 DEF StopAll, StopTeam, RunReturns, BeginHalt, Stoppers
  <2>2. /\ stop' \subseteq stop \cup members \cup {Leader} /\ available' \subseteq available \cup members \cup {Leader}
        /\ run' \in {run, "ended"} /\ UNCHANGED <<loop, thread, executor, queue, idle, asking, watchdog, members>>
    BY <1>3 DEF StopAll, StopTeam, RunReturns, BeginHalt, ForceStop, flags
  <2>3. budget' \in 0..MaxMessages
    BY <1>1, <1>3, TeamAssumption DEF StopAll, StopTeam, RunReturns, Spend, Rest
  <2>4. Executors'
    BY <1>1, <2>2 DEF Executors, executor
  <2>5. Rest'
    BY <1>1, <2>1, <2>2, <2>3 DEF Rest, watchdog
  <2>6. Places' /\ Present'
    BY <1>1, <2>2 DEF Places, Present
  <2>7. QED BY <2>4, <2>5, <2>6 DEF IInv
<1>4. QED BY <1>2, <1>3

\* The invariant holds in every state of a run of a team.
THEOREM Invariance == Spec => []IInv
<1>1. Init => IInv
  <2> SUFFICES ASSUME Init PROVE IInv
    OBVIOUS
  <2>1. PICK R \in SUBSET Teammates :
          /\ loop = [a \in Agents |-> IF a = Leader THEN "preparing" ELSE IF a \in R THEN "starting" ELSE "absent"]
          /\ thread = [a \in Agents |-> "off"] /\ fresh \in [Agents -> BOOLEAN]
          /\ texts = [a \in Agents |-> 0] /\ asked = FALSE /\ queue = [a \in Agents |-> 0]
          /\ available = {} /\ stop = {} /\ idle = {} /\ asking = {}
          /\ members = R /\ registered = {} /\ notified = FALSE
          /\ halting = [h \in Stoppers |-> {}] /\ run = "on" /\ budget = MaxMessages
    BY DEF Init
  <2>2. Executors
    <3>1. loop \in [Agents -> Loops] /\ thread \in [Agents -> Threads]
      BY <2>1 DEF Loops, Threads
    <3>2. 0 \in 0..MaxTexts /\ 0 \in Nat
      BY TeamAssumption
    <3>3. texts \in [Agents -> 0..MaxTexts] /\ queue \in [Agents -> Nat]
      BY <2>1, <3>2
    <3>4. QED BY <2>1, <3>1, <3>3 DEF Executors
  <2>3. Rest
    <3>1. MaxMessages \in 0..MaxMessages
      BY TeamAssumption
    <3>2. halting \in [Stoppers -> SUBSET Teammates]
      BY <2>1
    <3>3. QED BY <2>1, <3>1, <3>2 DEF Rest
  <2>4. Places /\ Present
    BY <2>1 DEF Places, Placed, Present, Agents
  <2>5. QED BY <2>2, <2>3, <2>4 DEF IInv
<1>2. IInv /\ [Next]_vars => IInv'
  <2> SUFFICES ASSUME IInv, [Next]_vars PROVE IInv'
    OBVIOUS
  <2>1. ASSUME NEW a \in Agents, WaitStep(a) PROVE IInv'
    BY <2>1, WaitStepKeeps
  <2>2. ASSUME NEW a \in Agents, LoopStep(a) PROVE IInv'
    BY <2>2, LoopStepKeeps
  <2>3. budget > 0 /\ budget' = budget - 1 => budget' \in 0..MaxMessages
    BY TeamAssumption DEF IInv, Rest
  <2>4. ASSUME NEW a \in Agents, UserMessage(a) PROVE IInv'
    <3>1. notified' \in BOOLEAN /\ registered' = registered
      BY <2>4 DEF UserMessage, watchdog, IInv, Rest
    <3>2. QED BY <2>3, <2>4, <3>1, DeliverKeeps DEF UserMessage, Spend
  <2>5. ASSUME NEW from \in Agents, NEW to \in Agents, SendMessage(from, to) PROVE IInv'
    BY <2>3, <2>5, DeliverKeeps DEF SendMessage, Spend
  <2>6. ASSUME NEW t \in Teammates, TeammateStep(t) PROVE IInv'
    BY <2>6, TeammateStepKeeps
  <2>7. CASE Notify
    <3>1. Leader \in Agents /\ budget' \in 0..MaxMessages
      BY <2>7 DEF Agents, Notify, IInv, Rest
    <3>2. QED BY <2>7, <3>1, DeliverKeeps DEF Notify
  <2>8. ASSUME NEW h \in Stoppers, Halt(h) PROVE IInv'
    BY <2>8, HaltKeeps
  <2>9. CASE Finish \/ Finished \/ StopAll \/ StopTeam \/ RunReturns
    BY <2>9, EndStepKeeps
  <2>10. CASE UNCHANGED vars
    BY <2>10 DEF vars, executor, flags, watchdog, team, IInv, Executors, Rest, Places, Present
  <2>11. QED BY <2>1, <2>2, <2>4, <2>5, <2>6, <2>7, <2>8, <2>9, <2>10 DEF Next
<1>3. QED BY <1>1, <1>2, PTL DEF Spec

\* The types, and how the flags of an executor go with its loop and its thread.
THEOREM TypeCorrect == Spec => []TypeOK
BY Invariance, Typed, PTL

\* However the threads that wait interleave with messages, stops and cancelled tasks, the
\* watchdog wakes the leader only when the whole team rests: an agent that is marked as
\* idle is in its wait, and who has been cancelled is not of the team.
THEOREM WokenAtRest == Spec => WakesOnlyARestingTeam
<1>1. IInv /\ [Next]_vars => (Notify => \A a \in members \cup {Leader} : loop[a] = "waiting" /\ a \notin asking)
  <2> SUFFICES ASSUME IInv, Notify, NEW a \in members \cup {Leader}
               PROVE  loop[a] = "waiting" /\ a \notin asking
    OBVIOUS
  <2>1. a \in Agents /\ a \in idle /\ a \notin asking
    BY DEF Notify, AllIdle, IInv, Rest, Agents
  <2>2. thread[a] # "off" /\ loop[a] # "gone"
    BY <2>1 DEF IInv, Places, Placed, Present
  <2>3. QED BY <2>1, <2>2 DEF IInv, Places, Placed
<1>2. QED BY <1>1, Invariance, PTL DEF Spec, WakesOnlyARestingTeam
=============================================================================
