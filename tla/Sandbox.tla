------------------------------- MODULE Sandbox -------------------------------
(***************************************************************************)
(* The life of a cloud sandbox under its manager                           *)
(* (src/nexau/archs/sandbox/base_sandbox.py and e2b_sandbox.py, driven by  *)
(* main_sub/agent.py): the lazy start that tool threads share, the         *)
(* keepalive thread, and what follows a run, a stop or a pause in the      *)
(* background.                                                             *)
(*                                                                         *)
(* One manager serves one session.  A sandbox is a number, in the order of *)
(* creation; 0 is None.  The cloud is external: it may also end a sandbox  *)
(* on its own.                                                             *)
(***************************************************************************)
EXTENDS Integers, FiniteSets, FiniteSetsExt, TLC

CONSTANTS
    Tools,          \* the threads that tools run in
    Initial,        \* assets registered when the agent is built
    Late,           \* assets that sub-agents and teammates add later
    MaxSandboxes,   \* bound on the sandboxes created
    MaxLoops,       \* bound on keepalive threads alive at a time
    MaxRuns,        \* bound on the runs of the agent
    MaxAccesses,    \* bound on the requests for the sandbox
    MaxFaults       \* bound on failed calls, crashes, and sandboxes the cloud ends by itself

Nobody == "nobody"

ASSUME SandboxAssumption ==
    /\ Nobody \notin Tools
    /\ {MaxSandboxes, MaxLoops, MaxRuns} \subseteq Nat \ {0}
    /\ {MaxAccesses, MaxFaults} \subseteq Nat

\* The tool threads are alike.
Threads == Permutations(Tools)

Ids == 1..MaxSandboxes
Loops == 1..MaxLoops
Runs == 1..MaxRuns

VARIABLES
    afterRun,   \* sandbox_config.status_after_run
    status,     \* cloud: what has become of each sandbox
    has,        \* cloud: the assets in each sandbox
    instance,   \* manager._instance
    config,     \* sandbox_config.sandbox_id in the session context
    saved,      \* sandbox_id of the session's sandbox_state
    assets,     \* upload_assets of the session context
    lock,       \* manager._start_lock
    pc, seen,   \* where each tool thread is, and the sandbox it has in hand
    quit,       \* manager._keepalive_stop_event
    loops,      \* the keepalive threads: where each is, and of which sandbox
    keeper,     \* manager._keepalive_thread
    active,     \* a run is under way
    closer,     \* what each run's end is doing: its phase, sandbox and thread
    budget,     \* requests and faults still to come
    wanted,     \* history: the assets whose registration has returned
    forsaken,   \* history: sandboxes a failed call or a crash has cut off
    mishaps     \* history: what has happened that a promise excepts

NoLoop == [at |-> "none", id |-> 0]
cloud == <<status, has>>
manager == <<instance, config, saved, assets>>
threads == <<lock, pc, seen>>
keepalive == <<quit, loops, keeper>>
history == <<wanted, forsaken, mishaps>>
vars == <<afterRun, cloud, manager, threads, keepalive, active, closer, budget, history>>

Alive == {i \in Ids : status[i] \in {"running", "paused"}}
Live == {l \in Loops : loops[l] # NoLoop}
Run == Cardinality({n \in Runs : closer[n].at # "ahead"}) + 1

Init ==
    /\ afterRun \in {"pause", "stop", "none"}
    /\ status = [i \in Ids |-> "none"] /\ has = [i \in Ids |-> {}]
    /\ instance = 0 /\ config = 0 /\ saved = 0 /\ assets = Initial
    /\ lock = Nobody /\ pc = [t \in Tools |-> "idle"] /\ seen = [t \in Tools |-> 0]
    /\ quit = FALSE /\ loops = [l \in Loops |-> NoLoop] /\ keeper = 0
    /\ active = FALSE /\ closer = [n \in Runs |-> [at |-> "ahead", id |-> 0, loop |-> 0]]
    /\ budget = [accesses |-> MaxAccesses, faults |-> MaxFaults]
    /\ wanted = Initial /\ forsaken = {} /\ mishaps = {}

Goto(t, place) == pc' = [pc EXCEPT ![t] = place]
Return(t, i) == Goto(t, "using") /\ seen' = [seen EXCEPT ![t] = i]
Spend(what) == budget[what] > 0 /\ budget' = [budget EXCEPT ![what] = @ - 1]
Fault == Spend("faults") /\ mishaps' = mishaps \cup {"fault"}

-----------------------------------------------------------------------------
(* start_sync                                                               *)

\* Without the lock: the instance is read, and then asked whether it runs.
Access(t) ==
    /\ pc[t] = "idle" /\ active /\ Spend("accesses")
    /\ seen' = [seen EXCEPT ![t] = instance]
    /\ Goto(t, IF instance = 0 THEN "locking" ELSE "checking")
    /\ UNCHANGED <<afterRun, cloud, manager, lock, keepalive, active, closer, history>>

\* is_running asks what _instance is by now; the one read before is returned.
Check(t) ==
    /\ pc[t] = "checking"
    /\ IF instance # 0 /\ status[instance] = "running"
       THEN Goto(t, "using") /\ UNCHANGED seen
       ELSE Goto(t, "clearing") /\ seen' = [seen EXCEPT ![t] = 0]
    /\ UNCHANGED <<afterRun, cloud, manager, lock, keepalive, active, closer, budget, history>>

\* An error counts as not running.
CheckFails(t) ==
    /\ pc[t] = "checking" /\ Fault /\ Goto(t, "clearing") /\ seen' = [seen EXCEPT ![t] = 0]
    /\ UNCHANGED <<afterRun, cloud, manager, lock, keepalive, active, closer, wanted, forsaken>>

\* The instance found dead is dropped, whichever it is by now.
ClearStale(t) ==
    /\ pc[t] = "clearing" /\ instance' = 0 /\ Goto(t, "locking")
    /\ UNCHANGED <<afterRun, cloud, config, saved, assets, lock, seen, keepalive, active, closer, budget, history>>

\* Seeded defect: the lock is looked at, not taken.
LockLoosely(t) ==
    /\ pc[t] = "locking" /\ lock = Nobody
    /\ IF instance # 0
       THEN Return(t, instance) /\ UNCHANGED lock
       ELSE lock' = lock /\ Goto(t, "config") /\ UNCHANGED seen
    /\ UNCHANGED <<afterRun, cloud, manager, keepalive, active, closer, budget, history>>

\* Somebody else may have started it meanwhile.
Lock(t) ==
    /\ pc[t] = "locking" /\ lock = Nobody
    /\ IF instance # 0
       THEN Return(t, instance) /\ UNCHANGED lock
       ELSE lock' = t /\ Goto(t, "config") /\ UNCHANGED seen
    /\ UNCHANGED <<afterRun, cloud, manager, keepalive, active, closer, budget, history>>

\* start: the sandbox of the configuration first, then that of the session's
\* state.  Connecting resumes a paused sandbox and fails for one that is gone.
Connect(t, from, id, otherwise) ==
    /\ pc[t] = from
    /\ IF id \in Alive
       THEN /\ status' = [status EXCEPT ![id] = "running"]
            /\ seen' = [seen EXCEPT ![t] = id] /\ Goto(t, "publishing")
       ELSE UNCHANGED <<status, seen>> /\ Goto(t, otherwise)
    /\ UNCHANGED <<afterRun, has, manager, lock, keepalive, active, closer, budget, history>>

ConnectConfigured(t) == Connect(t, "config", config, "state")
ConnectSaved(t) == Connect(t, "state", saved, "creating")

\* A call that fails leaves the sandbox behind for the next choice.
ConnectFails(t, from, id, otherwise) ==
    /\ pc[t] = from /\ id \in Alive /\ Fault /\ Goto(t, otherwise)
    /\ forsaken' = forsaken \cup {id}
    /\ UNCHANGED <<afterRun, cloud, manager, lock, seen, keepalive, active, closer, wanted>>

Create(t) ==
    /\ pc[t] = "creating" /\ \E i \in Ids : status[i] = "none"
    /\ LET id == Min({i \in Ids : status[i] = "none"}) IN
        /\ status' = [status EXCEPT ![id] = "running"]
        /\ seen' = [seen EXCEPT ![t] = id]
        /\ mishaps' = IF id = 1 THEN mishaps ELSE mishaps \cup {"recreated"}
    /\ Goto(t, "saving")
    /\ UNCHANGED <<afterRun, has, manager, lock, keepalive, active, closer, budget, wanted, forsaken>>

SaveState(t) ==
    /\ pc[t] = "saving" /\ saved' = seen[t] /\ Goto(t, "publishing")
    /\ UNCHANGED <<afterRun, cloud, instance, config, assets, lock, seen, keepalive, active, closer, budget, history>>

\* A conflict of event loops is logged and passed over.
SaveFails(t) ==
    /\ pc[t] = "saving" /\ Fault /\ Goto(t, "publishing")
    /\ forsaken' = forsaken \cup {seen[t]}
    /\ UNCHANGED <<afterRun, cloud, manager, lock, seen, keepalive, active, closer, wanted>>

\* start publishes the sandbox and starts its keepalive before it returns.
StartKeepalive(id) ==
    LET free == {l \in Loops \ {keeper} : l \notin Live /\ \A n \in Runs : closer[n].loop # l} IN
    /\ free # {} /\ quit' = FALSE /\ keeper' = Min(free)
    /\ loops' = [loops EXCEPT ![Min(free)] = [at |-> "waiting", id |-> id]]

\* Seeded defect: a sandbox that was connected to, not created, has no keepalive.
PublishQuietly(t) ==
    /\ pc[t] = "publishing" /\ instance' = seen[t] /\ Goto(t, "uploading")
    /\ IF has[seen[t]] = {} THEN StartKeepalive(seen[t]) ELSE UNCHANGED keepalive
    /\ UNCHANGED <<afterRun, cloud, config, saved, assets, lock, seen, active, closer, budget, history>>

Publish(t) ==
    /\ pc[t] = "publishing" /\ instance' = seen[t] /\ StartKeepalive(seen[t])
    /\ Goto(t, "uploading")
    /\ UNCHANGED <<afterRun, cloud, config, saved, assets, lock, seen, active, closer, budget, history>>

\* start_sync uploads the assets and sets the instance once more.
Upload(t) ==
    /\ pc[t] = "uploading" /\ status[seen[t]] = "running"
    /\ has' = [has EXCEPT ![seen[t]] = @ \cup assets]
    /\ instance' = seen[t] /\ lock' = Nobody /\ Return(t, seen[t])
    /\ UNCHANGED <<afterRun, status, config, saved, assets, keepalive, active, closer, budget, history>>

\* A call raises: the lock is released, the tool fails, what is set stays set.
Raises(t, mishap) ==
    /\ lock' = Nobody /\ Goto(t, "idle") /\ seen' = [seen EXCEPT ![t] = 0] /\ mishaps' = mishaps \cup {mishap}
    /\ UNCHANGED <<afterRun, cloud, manager, keepalive, active, closer, wanted, forsaken>>

UploadRaises(t) ==
    /\ pc[t] = "uploading"
    /\ IF status[seen[t]] = "running" THEN Spend("faults") ELSE UNCHANGED budget
    /\ Raises(t, "upload")

CreateRaises(t) == pc[t] = "creating" /\ Spend("faults") /\ Raises(t, "fault")

Use(t) ==
    /\ pc[t] = "using" /\ Goto(t, "idle") /\ seen' = [seen EXCEPT ![t] = 0]
    /\ UNCHANGED <<afterRun, cloud, manager, lock, keepalive, active, closer, budget, history>>

-----------------------------------------------------------------------------
(* add_upload_assets, called while a sub-agent or a teammate is built       *)

\* Seeded defect: an asset that comes before the sandbox is forgotten.
AddAssetIfStarted(t, a) ==
    /\ pc[t] = "idle" /\ active /\ lock = Nobody /\ a \notin wanted
    /\ \/ instance = 0 /\ UNCHANGED has
       \/ /\ instance # 0 /\ status[instance] = "running"
          /\ has' = [has EXCEPT ![instance] = @ \cup {a}]
    /\ wanted' = wanted \cup {a}
    /\ UNCHANGED <<afterRun, status, manager, threads, keepalive, active, closer, budget, forsaken, mishaps>>

AddAsset(t, a) ==
    /\ pc[t] = "idle" /\ active /\ lock = Nobody /\ a \notin wanted
    /\ \/ /\ instance = 0 /\ assets' = assets \cup {a} /\ UNCHANGED has
       \/ /\ instance # 0 /\ status[instance] = "running"
          /\ has' = [has EXCEPT ![instance] = @ \cup {a}] /\ UNCHANGED assets
    /\ wanted' = wanted \cup {a}
    /\ UNCHANGED <<afterRun, status, instance, config, saved, threads, keepalive, active, closer, budget, forsaken, mishaps>>

-----------------------------------------------------------------------------
(* The keepalive threads                                                    *)

LoopTo(l, place) ==
    /\ loops' = [loops EXCEPT ![l] = IF place = "ended" THEN NoLoop ELSE [@ EXCEPT !.at = place]]
    /\ UNCHANGED <<afterRun, has, manager, threads, quit, keeper, active, closer, budget, history>>

LoopWakes(l) == loops[l].at = "waiting" /\ LoopTo(l, IF quit THEN "ended" ELSE "pinging") /\ UNCHANGED status

\* set_timeout; a sandbox that does not run is connected to, which resumes it.
Ping(l) ==
    /\ loops[l].at = "pinging"
    /\ LoopTo(l, IF status[loops[l].id] = "paused" THEN "resuming" ELSE "waiting") /\ UNCHANGED status

Resume(l) ==
    /\ loops[l].at = "resuming" /\ LoopTo(l, "waiting")
    /\ status' = [status EXCEPT ![loops[l].id] = IF @ = "paused" THEN "running" ELSE @]

-----------------------------------------------------------------------------
(* The runs and their ends                                                  *)

\* The run waits for on_run_complete and for stop, pause goes on in a thread.
Ending(n) == closer[n].at \in {"completing", "joining"} \/ (afterRun = "stop" /\ closer[n].at \notin {"ahead", "done"})

BeginRun ==
    /\ ~active /\ Run \in Runs /\ (\A n \in Runs : ~Ending(n)) /\ active' = TRUE
    /\ mishaps' = mishaps \cup (IF \E n \in Runs : closer[n].at \notin {"ahead", "done"} THEN {"crossed"} ELSE {})
                         \cup (IF instance # 0 THEN {"carried"} ELSE {})
    /\ UNCHANGED <<afterRun, cloud, manager, threads, keepalive, closer, budget, wanted, forsaken>>

\* The end of run n is at a place, with a sandbox and a thread in hand.
CloserTo(n, place) == closer' = [closer EXCEPT ![n].at = place, ![n].id = IF place = "done" THEN 0 ELSE @]

\* on_run_complete, once the executor is done; a stop leaves tool threads behind.
EndRun ==
    /\ active /\ Run \in Runs /\ CloserTo(Run, "completing") /\ active' = FALSE
    /\ IF \A t \in Tools : pc[t] = "idle"
       THEN UNCHANGED <<budget, mishaps>>
       ELSE Spend("faults") /\ mishaps' = mishaps \cup {"crossed"}
    /\ UNCHANGED <<afterRun, cloud, manager, threads, keepalive, wanted, forsaken>>

\* A run that raises or is cancelled does not come that far.
RunRaises ==
    /\ active /\ Run \in Runs /\ CloserTo(Run, "done") /\ active' = FALSE /\ Spend("faults")
    /\ mishaps' = mishaps \cup {"abandoned"}
    /\ UNCHANGED <<afterRun, cloud, manager, threads, keepalive, wanted, forsaken>>

After(n) ==
    IF closer[n].at \in {"closing", "rejoining"} THEN "reading"
    ELSE IF afterRun = "none" THEN "done" ELSE "closing"

\* Seeded defect: the event is set only for a keepalive that is not in a call.
StopKeepaliveIdle(n) ==
    /\ closer[n].at \in {"completing", "closing"}
    /\ CloserTo(n, After(n))
    /\ quit' = (quit \/ (keeper # 0 /\ loops[keeper].at = "waiting")) /\ keeper' = 0
    /\ UNCHANGED <<afterRun, cloud, manager, threads, loops, active, budget, history>>

\* _stop_keepalive, of on_run_complete and again of stop and pause: the event
\* is set and the thread joined for two seconds.
StopKeepalive(n) ==
    /\ closer[n].at \in {"completing", "closing"}
    /\ IF keeper = 0
       THEN CloserTo(n, After(n)) /\ UNCHANGED quit
       ELSE /\ quit' = TRUE
            /\ closer' = [closer EXCEPT ![n].at = IF @ = "completing" THEN "joining" ELSE "rejoining", ![n].loop = keeper]
    /\ UNCHANGED <<afterRun, cloud, manager, threads, loops, keeper, active, budget, history>>

\* The thread has ended, or is in a call for longer than that.
Joined(n) ==
    LET l == closer[n].loop IN
    /\ closer[n].at \in {"joining", "rejoining"} /\ ~(loops[l].at = "waiting" /\ quit)
    /\ keeper' = 0
    /\ closer' = [closer EXCEPT ![n].at = After(n), ![n].loop = 0]
    /\ mishaps' = IF Live # {} THEN mishaps \cup {"abandoned"} ELSE mishaps
    /\ UNCHANGED <<afterRun, cloud, manager, threads, quit, loops, active, budget, wanted, forsaken>>

\* pause and stop go on with the instance they find.
ReadInstance(n) ==
    /\ closer[n].at = "reading"
    /\ closer' = [closer EXCEPT ![n].at = IF instance = 0 THEN "done" ELSE "acting", ![n].id = instance]
    /\ UNCHANGED <<afterRun, cloud, manager, threads, keepalive, active, budget, history>>

\* beta_pause fails for a sandbox that is gone, and the instance is kept.
PauseCloud(n) ==
    /\ closer[n].at = "acting" /\ afterRun = "pause"
    /\ IF closer[n].id \in Alive
       THEN status' = [status EXCEPT ![closer[n].id] = "paused"] /\ CloserTo(n, "noting")
       ELSE UNCHANGED status /\ CloserTo(n, "done")
    /\ UNCHANGED <<afterRun, has, manager, threads, keepalive, active, budget, history>>

Kill(n) ==
    /\ closer[n].at = "acting" /\ afterRun = "stop"
    /\ status' = [status EXCEPT ![closer[n].id] = "gone"] /\ CloserTo(n, "clearing")
    /\ UNCHANGED <<afterRun, has, manager, threads, keepalive, active, budget, history>>

ActFails(n) ==
    /\ closer[n].at = "acting" /\ Fault /\ CloserTo(n, "done")
    /\ UNCHANGED <<afterRun, cloud, manager, threads, keepalive, active, wanted, forsaken>>

\* The id goes into the configuration, for the next start to find it first.
NoteId(n) ==
    /\ closer[n].at = "noting" /\ config' = closer[n].id /\ CloserTo(n, "clearing")
    /\ UNCHANGED <<afterRun, cloud, instance, saved, assets, threads, keepalive, active, budget, history>>

ClearInstance(n) ==
    /\ closer[n].at = "clearing" /\ instance' = 0 /\ CloserTo(n, "done")
    /\ UNCHANGED <<afterRun, cloud, config, saved, assets, threads, keepalive, active, budget, history>>

-----------------------------------------------------------------------------
(* The environment                                                          *)

\* The cloud ends a sandbox: its timeout, or a failure.
Die(i) ==
    /\ i \in Alive /\ Spend("faults") /\ status' = [status EXCEPT ![i] = "gone"]
    /\ UNCHANGED <<afterRun, has, manager, threads, keepalive, active, closer, history>>

\* The process dies; another one opens the session.
Restart ==
    /\ Fault
    /\ instance' = 0 /\ config' = 0 /\ assets' = Initial /\ wanted' = Initial
    /\ lock' = Nobody /\ pc' = [t \in Tools |-> "idle"] /\ seen' = [t \in Tools |-> 0]
    /\ quit' = FALSE /\ loops' = [l \in Loops |-> NoLoop] /\ keeper' = 0
    /\ active' = FALSE
    /\ closer' = [n \in Runs |-> [at |-> IF closer[n].at = "ahead" THEN "ahead" ELSE "done", id |-> 0, loop |-> 0]]
    /\ forsaken' = forsaken \cup {seen[t] : t \in {u \in Tools : pc[u] = "saving"}}
    /\ UNCHANGED <<afterRun, cloud, saved>>

ToolStep(t) ==
    \/ Access(t) \/ Check(t) \/ CheckFails(t) \/ ClearStale(t) \/ Lock(t)
    \/ ConnectConfigured(t) \/ ConnectSaved(t)
    \/ ConnectFails(t, "config", config, "state") \/ ConnectFails(t, "state", saved, "creating")
    \/ Create(t) \/ CreateRaises(t) \/ SaveState(t) \/ SaveFails(t)
    \/ Publish(t) \/ Upload(t) \/ UploadRaises(t) \/ Use(t)
    \/ \E a \in Late : AddAsset(t, a)
LoopStep(l) == LoopWakes(l) \/ Ping(l) \/ Resume(l)
CloserStep(n) ==
    \/ StopKeepalive(n) \/ Joined(n) \/ ReadInstance(n) \/ PauseCloud(n) \/ Kill(n) \/ ActFails(n)
    \/ NoteId(n) \/ ClearInstance(n)

Next ==
    \/ \E t \in Tools : ToolStep(t)
    \/ \E l \in Loops : LoopStep(l)
    \/ \E n \in Runs : CloserStep(n)
    \/ \E i \in Ids : Die(i)
    \/ BeginRun \/ EndRun \/ RunRaises \/ Restart

Spec == Init /\ [][Next]_vars

-----------------------------------------------------------------------------
(* Properties                                                               *)

TypeOK ==
    /\ status \in [Ids -> {"none", "running", "paused", "gone"}] /\ has \in [Ids -> SUBSET (Initial \cup Late)]
    /\ {instance, config, saved} \subseteq 0..MaxSandboxes /\ lock \in Tools \cup {Nobody}
    /\ \A t \in Tools : lock = t <=> pc[t] \in {"config", "state", "creating", "saving", "publishing", "uploading"}
    /\ {config, saved, instance} \subseteq {0} \cup {i \in Ids : status[i] # "none"}

\* A session has one sandbox: whatever threads, pauses, keepalives and
\* restarts do at the same time, no second one is created beside one that is
\* alive, unless a call failed or a process died before its id was stored.
OneSandbox == Cardinality(Alive \ forsaken) <= 1

\* Whoever is handed a sandbox finds the assets registered with the manager in
\* it, unless an upload failed or the sandbox had to be created anew.
AssetsThere ==
    (lock = Nobody /\ instance \in Alive /\ mishaps \cap {"upload", "recreated"} = {})
        => wanted \subseteq has[instance]

\* While a run is under way a keepalive looks after the sandbox it has started,
\* as long as no run has met the end or a tool thread of the one before it
\* ("crossed") or a sandbox that was left running ("carried").
StartedKeptAlive ==
    (active /\ lock = Nobody /\ instance # 0 /\ mishaps \cap {"crossed", "carried"} = {})
        => \E l \in Live : loops[l].id = instance /\ ~quit

\* Behind a run nothing is left running and no keepalive is left alive, unless
\* a call failed or outlived the join, a tool thread or a run was abandoned, or
\* the run began before the pause of the one before it was over.
QuietAfterRun ==
    (~active /\ mishaps \subseteq {"recreated", "carried"} /\ \A n \in Runs : closer[n].at \in {"ahead", "done"})
        => /\ Live = {}
           /\ afterRun # "none" => \A i \in Ids : status[i] # "running"

\* The sandbox follows the runs: it has the assets, it is kept alive while a run uses it,
\* and it is left alone behind the run.
FollowsRuns == AssetsThere /\ StartedKeptAlive /\ QuietAfterRun

\* base_sandbox.py:1254: the path without the lock returns what still runs.
RunningReturned ==
    [][\A t \in Tools : (pc[t] = "checking" /\ pc'[t] = "using") => status[seen[t]] = "running"]_vars

\* e2b_sandbox.py:2383: the keepalive prevents that the sandbox is paused during
\* a run, whichever run has started it.
KeptAlive ==
    (active /\ lock = Nobody /\ instance \in Alive /\ mishaps \subseteq {"carried"})
        => \E l \in Live : loops[l].id = instance /\ ~quit

\* docs/advanced-guides/sandbox.md:239: a new sandbox gets all assets again.
Reuploads ==
    (lock = Nobody /\ instance \in Alive /\ "upload" \notin mishaps) => wanted \subseteq has[instance]
==============================================================================
