---------------------------- MODULE SandboxProofs ----------------------------
(* Proofs of the safety properties of Sandbox.                               *)
EXTENDS Sandbox, FiniteSetTheorems, WellFoundedInduction, TLAPS

Places == {"idle", "checking", "clearing", "locking", "config", "state", "creating", "saving", "publishing",
           "uploading", "using"}
Holding == {"config", "state", "creating", "saving", "publishing", "uploading"}
Phases == {"ahead", "completing", "joining", "closing", "rejoining", "reading", "acting", "noting", "clearing", "done"}
Files == Initial \cup Late
Created == {i \in Ids : status[i] # "none"}

\* The values of the state; the lock is held by the tool that looks after the sandbox.
Typed ==
    /\ afterRun \in {"pause", "stop", "none"}
    /\ status \in [Ids -> {"none", "running", "paused", "gone"}] /\ has \in [Ids -> SUBSET Files]
    /\ {instance, config, saved} \subseteq {0} \cup Created
    /\ assets \subseteq Files /\ wanted \subseteq Files
    /\ lock \in Tools \cup {Nobody} /\ pc \in [Tools -> Places]
    /\ \A t \in Tools : lock = t <=> pc[t] \in Holding
    /\ seen = [t \in Tools |-> seen[t]]
    /\ \A t \in Tools :
        /\ seen[t] \in {0} \cup Created
        /\ pc[t] \in {"saving", "publishing", "uploading"} => seen[t] # 0
    /\ quit \in BOOLEAN /\ keeper \in 0..MaxLoops /\ active \in BOOLEAN
    /\ loops \in [Loops -> [at : {"none", "waiting", "pinging", "resuming"}, id : 0..MaxSandboxes]]
    /\ closer \in [Runs -> [at : Phases, id : 0..MaxSandboxes, loop : 0..MaxLoops]]
    /\ \A n \in Runs : closer[n].id \in {0} \cup Created

\* The one sandbox alive is saved, or the holder of the lock is about to save it,
\* and there is none while one is created.
Intact == Alive \ forsaken
Sole ==
    /\ \A i \in Intact : i = saved \/ \E t \in Tools : pc[t] = "saving" /\ seen[t] = i
    /\ \A t \in Tools : pc[t] = "saving" => Intact \subseteq {seen[t]}
    /\ \A t \in Tools : pc[t] = "creating" => Intact = {}

\* A sandbox that was never created anew gets what is registered: it has the
\* assets, or the uploads to come bring them.
Furnished ==
    /\ \A t \in Tools : pc[t] \in Holding \ {"uploading"} => instance = 0
    /\ "recreated" \notin mishaps => Created \subseteq {1}
    /\ mishaps \cap {"upload", "recreated"} = {} =>
        /\ wanted \subseteq assets \cup has[1]
        /\ lock = Nobody /\ instance # 0 => wanted \subseteq has[1]

\* A run begins when the ends of the earlier ones are over, and what its tools
\* have been handed is looked after by a keepalive.
Settled == \A n \in Runs : closer[n].at \in {"ahead", "done"}
Kept(i) == ~quit /\ \E l \in Live : loops[l].id = i
Looked ==
    mishaps \cap {"crossed", "carried"} = {} =>
        /\ active => Settled
        /\ ~Settled => \A t \in Tools : pc[t] = "idle"
        /\ Settled => \A t \in Tools : pc[t] = "uploading" => Kept(seen[t])
        /\ active /\ instance # 0 => Kept(instance)

\* Nothing has happened that a promise about the time behind a run excepts.
Calm == mishaps \subseteq {"recreated", "carried"}
Running == {i \in Ids : status[i] = "running"}
Paused == {i \in Ids : status[i] = "paused"}
Coming == Holding \cup {"locking"}
\* The session's sandbox is the only one, and what runs is in hand.
InHand ==
    /\ forsaken = {} /\ instance \in {0, saved}
    /\ \A t \in Tools : pc[t] \in {"publishing", "uploading"} => seen[t] = saved
    /\ Running # {} /\ instance = 0 => \E t \in Tools : pc[t] \in Coming
\* One run's end at a time, when no thread is at work.
OneEnd ==
    /\ active => Settled
    /\ ~active => \A t \in Tools : pc[t] = "idle"
    /\ \A n, m \in Runs : closer[n].at \notin {"ahead", "done"} /\ closer[m].at \notin {"ahead", "done"} => n = m
\* A keepalive that lives can be stopped, and has no paused sandbox to resume.
KeptInHand ==
    /\ keeper = 0 => Live = {}
    /\ Live # {} \/ (\E t \in Tools : pc[t] \in {"saving", "publishing", "uploading"}) => Paused = {}
\* Step by step, the end of a run leaves nothing behind.
Leaving ==
    /\ \A n \in Runs :
        /\ closer[n].at \in {"closing", "rejoining", "reading", "acting", "noting", "clearing"} => keeper = 0
        /\ closer[n].at = "acting" => closer[n].id = saved
        /\ closer[n].at \in {"noting", "clearing"} => Running = {}
    /\ Settled /\ ~active => keeper = 0 /\ (afterRun # "none" => Running = {})
Ordered == InHand /\ OneEnd /\ KeptInHand /\ Leaving
Orderly == Calm => Ordered

IInv == Typed /\ Sole /\ Furnished /\ Looked /\ Orderly

-----------------------------------------------------------------------------
(* Facts about the helpers *)

\* The least number of a set is one of its members.
LEMMA LeastIsMember ==
    ASSUME NEW T \in SUBSET Nat, T # {}
    PROVE  Min(T) \in T
<1>1. PICK x \in T : \A y \in T : ~(<<y, x>> \in OpToRel(<, Nat))
  BY NatLessThanWellFounded, WFMin, Zenon
<1>2. \A y \in T : ~(y < x)
  BY <1>1 DEF OpToRel
<1>3. \A y \in T : x <= y
  BY <1>2
<1> QED BY <1>3 DEF Min

\* What the bounds say of sandboxes, keepalives and tools.
LEMMA Bounds ==
    /\ 0 \in 0..MaxSandboxes /\ 0 \in 0..MaxLoops /\ Ids \subseteq 0..MaxSandboxes /\ Loops \subseteq 0..MaxLoops
    /\ 0 \notin Ids /\ 1 \in Ids /\ 0 \notin Loops /\ Nobody \notin Tools
BY SandboxAssumption DEF Ids, Loops

\* The end of a run moves on, and the others stay where they are.
LEMMA CloserMoves ==
    ASSUME Typed, NEW n \in Runs, NEW place \in Phases, CloserTo(n, place)
    PROVE  /\ closer' \in [Runs -> [at : Phases, id : 0..MaxSandboxes, loop : 0..MaxLoops]]
           /\ closer'[n].at = place /\ closer'[n].id \in {0, closer[n].id}
           /\ place # "done" => closer'[n].id = closer[n].id
           /\ \A m \in Runs \ {n} : closer'[m] = closer[m]
BY Bounds DEF Typed, CloserTo

\* The end of a run takes a step: the ends of the others stay where they are.
LEMMA CloserTakes ==
    ASSUME Typed, NEW n \in Runs, NEW place \in Phases, NEW k \in 0..MaxLoops,
           closer' = [closer EXCEPT ![n].at = place, ![n].loop = k]
    PROVE  /\ closer' \in [Runs -> [at : Phases, id : 0..MaxSandboxes, loop : 0..MaxLoops]]
           /\ closer'[n].at = place /\ closer'[n].id = closer[n].id
           /\ \A m \in Runs \ {n} : closer'[m] = closer[m]
BY DEF Typed

\* A keepalive takes a step or ends: the others stay where they are.
LEMMA LoopMoves ==
    ASSUME Typed, NEW l \in Loops, NEW place \in {"ended", "waiting", "pinging", "resuming"}, LoopTo(l, place),
           loops[l].at # "none"
    PROVE  /\ loops' \in [Loops -> [at : {"none", "waiting", "pinging", "resuming"}, id : 0..MaxSandboxes]]
           /\ Live' \subseteq Live
           /\ place # "ended" => l \in Live' /\ loops'[l].id = loops[l].id
           /\ \A k \in Loops \ {l} : loops'[k] = loops[k]
<1>1. loops[l] # NoLoop
  BY DEF NoLoop
<1> QED BY <1>1, Bounds DEF Typed, LoopTo, Live, NoLoop

\* A keepalive is started beside those that live.
LEMMA KeepaliveStarts ==
    ASSUME Typed, NEW i \in Ids, StartKeepalive(i)
    PROVE  /\ quit' = FALSE /\ keeper' \in Loops \ Live
           /\ loops' = [loops EXCEPT ![keeper'] = [at |-> "waiting", id |-> i]]
           /\ loops' \in [Loops -> [at : {"none", "waiting", "pinging", "resuming"}, id : 0..MaxSandboxes]]
           /\ keeper' \in Live' /\ loops'[keeper'].id = i
           /\ Live \subseteq Live' /\ \A l \in Live : loops'[l] = loops[l]
<1> DEFINE free == {l \in Loops \ {keeper} : l \notin Live /\ \A n \in Runs : closer[n].loop # l}
<1>1. free # {} /\ free \in SUBSET Nat /\ quit' = FALSE /\ keeper' = Min(free)
  BY DEF StartKeepalive, Loops
<1>2. keeper' \in free
  BY <1>1, LeastIsMember
<1>3. loops' = [loops EXCEPT ![keeper'] = [at |-> "waiting", id |-> i]]
  BY <1>1 DEF StartKeepalive
<1>4. keeper' \in Loops \ Live
  BY <1>2
<1> HIDE DEF free
<1>5. loops'[keeper'] = [at |-> "waiting", id |-> i] /\ \A l \in Loops \ {keeper'} : loops'[l] = loops[l]
  BY <1>3, <1>4 DEF Typed
<1>6. i \in 0..MaxSandboxes
  BY Bounds
<1>7. loops' \in [Loops -> [at : {"none", "waiting", "pinging", "resuming"}, id : 0..MaxSandboxes]]
  BY <1>3, <1>4, <1>6 DEF Typed
<1>8. keeper' \in Live' /\ Live \subseteq Live' /\ \A l \in Live : loops'[l] = loops[l]
  BY <1>4, <1>5 DEF Live, NoLoop
<1> QED BY <1>1, <1>3, <1>4, <1>5, <1>7, <1>8

\* What a tool creates is a sandbox that has not been there before.
LEMMA CreatedAnew ==
    ASSUME Typed, NEW t \in Tools, Create(t)
    PROVE  \E i \in Ids :
            /\ status[i] = "none" /\ status' = [status EXCEPT ![i] = "running"]
            /\ seen' = [seen EXCEPT ![t] = i]
            /\ mishaps' = IF i = 1 THEN mishaps ELSE mishaps \cup {"recreated"}
<1> DEFINE none == {i \in Ids : status[i] = "none"}
<1>1. none # {} /\ none \in SUBSET Nat
  BY DEF Create, Ids
<1>2. Min(none) \in none
  BY <1>1, LeastIsMember
<1> QED BY <1>2 DEF Create

-----------------------------------------------------------------------------
(* Types *)

\* At the start there is no sandbox, or the one the session remembers.
LEMMA TypedInit == Init => Typed
<1> SUFFICES ASSUME Init PROVE Typed
  OBVIOUS
<1>1. /\ loops \in [Loops -> [at : {"none", "waiting", "pinging", "resuming"}, id : 0..MaxSandboxes]]
      /\ closer \in [Runs -> [at : Phases, id : 0..MaxSandboxes, loop : 0..MaxLoops]]
  BY Bounds DEF Init, NoLoop, Phases
<1>2. has \in [Ids -> SUBSET Files] /\ assets \subseteq Files /\ wanted \subseteq Files
  BY DEF Init, Files
<1>3. \A t \in Tools : lock = t <=> pc[t] \in Holding
  BY Bounds DEF Init, Holding
<1>4. \A n \in Runs : closer[n].id \in {0} \cup Created
  BY DEF Init
<1> QED BY <1>1, <1>2, <1>3, <1>4, Bounds DEF Init, Typed, Places

\* Every step keeps to the values, and the lock to its holder.
LEMMA TypedStep == Typed /\ [Next]_vars => Typed'
<1> SUFFICES ASSUME Typed, [Next]_vars PROVE Typed'
  OBVIOUS
<1> USE DEF cloud, manager, threads, keepalive, history
<1>1. ASSUME NEW t \in Tools, Access(t) PROVE Typed'
  BY <1>1 DEF Access, Goto, Typed, Created, Places, Holding
<1>2. ASSUME NEW t \in Tools, Check(t) \/ CheckFails(t) PROVE Typed'
  BY <1>2 DEF Check, CheckFails, Goto, Typed, Created, Places, Holding
<1>3. ASSUME NEW t \in Tools, ClearStale(t) PROVE Typed'
  BY <1>3 DEF ClearStale, Goto, Typed, Created, Places, Holding
<1>4. ASSUME NEW t \in Tools, Lock(t) PROVE Typed'
  BY <1>4, Bounds DEF Lock, Goto, Return, Typed, Created, Places, Holding
<1>5. ASSUME NEW t \in Tools, NEW from \in {"config", "state"}, NEW i \in {0} \cup Created,
             NEW otherwise \in {"state", "creating"}, Connect(t, from, i, otherwise)
      PROVE  Typed'
  <2>1. CASE i \in Alive
    BY <1>5, <2>1, Bounds DEF Connect, Alive, Goto, Typed, Created, Places, Holding
  <2>2. CASE i \notin Alive
    BY <1>5, <2>2 DEF Connect, Goto, Typed, Created, Places, Holding
  <2> QED BY <2>1, <2>2
<1>6. ASSUME NEW t \in Tools, NEW from \in {"config", "state"}, NEW i \in {0} \cup Created,
             NEW otherwise \in {"state", "creating"}, ConnectFails(t, from, i, otherwise)
      PROVE  Typed'
  BY <1>6 DEF ConnectFails, Goto, Typed, Created, Places, Holding
<1>7. ASSUME NEW t \in Tools, Create(t) PROVE Typed'
  <2>1. PICK i \in Ids : status[i] = "none" /\ status' = [status EXCEPT ![i] = "running"] /\ seen' = [seen EXCEPT ![t] = i]
    BY <1>7, CreatedAnew
  <2> QED BY <1>7, <2>1, Bounds DEF Create, Goto, Typed, Created, Places, Holding
<1>8. ASSUME NEW t \in Tools, CreateRaises(t) \/ UploadRaises(t) PROVE Typed'
  BY <1>8, Bounds DEF CreateRaises, UploadRaises, Raises, Goto, Typed, Created, Places, Holding
<1>9. ASSUME NEW t \in Tools, SaveState(t) \/ SaveFails(t) PROVE Typed'
  BY <1>9 DEF SaveState, SaveFails, Goto, Typed, Created, Places, Holding
<1>10. ASSUME NEW t \in Tools, Publish(t) PROVE Typed'
  <2>1. seen[t] \in Ids
    BY <1>10 DEF Publish, Typed, Created
  <2>2. quit' \in BOOLEAN /\ keeper' \in 0..MaxLoops
        /\ loops' \in [Loops -> [at : {"none", "waiting", "pinging", "resuming"}, id : 0..MaxSandboxes]]
    BY <1>10, <2>1, KeepaliveStarts, Bounds DEF Publish
  <2> QED BY <1>10, <2>2 DEF Publish, Goto, Typed, Created, Places, Holding
<1>11. ASSUME NEW t \in Tools, Upload(t) PROVE Typed'
  BY <1>11, Bounds DEF Upload, Return, Goto, Typed, Created, Places, Holding
<1>12. ASSUME NEW t \in Tools, Use(t) PROVE Typed'
  BY <1>12 DEF Use, Goto, Typed, Created, Places, Holding
<1>13. ASSUME NEW t \in Tools, NEW a \in Late, AddAsset(t, a) PROVE Typed'
  BY <1>13 DEF AddAsset, Typed, Created, Files
<1>14. ASSUME NEW l \in Loops, LoopStep(l) PROVE Typed'
  <2>1. PICK place \in {"ended", "waiting", "pinging", "resuming"} : LoopTo(l, place) /\ loops[l].at # "none"
    BY <1>14 DEF LoopStep, LoopWakes, Ping, Resume
  <2>2. loops' \in [Loops -> [at : {"none", "waiting", "pinging", "resuming"}, id : 0..MaxSandboxes]]
    BY <2>1, LoopMoves
  <2>3. status' \in [Ids -> {"none", "running", "paused", "gone"}] /\ Created' = Created
    BY <1>14 DEF LoopStep, LoopWakes, Ping, Resume, Typed, Created
  <2> QED BY <2>1, <2>2, <2>3 DEF LoopTo, Typed
<1>15. ASSUME NEW n \in Runs, StopKeepalive(n) \/ Joined(n) \/ ReadInstance(n) PROVE Typed'
  <2>1. After(n) \in {"reading", "done", "closing"}
    BY DEF After
  <2>2. /\ closer' \in [Runs -> [at : Phases, id : 0..MaxSandboxes, loop : 0..MaxLoops]]
        /\ \A m \in Runs : closer'[m].id \in {0} \cup Created
    <3>1. CASE StopKeepalive(n) /\ keeper = 0
      <4>1. CloserTo(n, After(n)) /\ After(n) \in Phases
        BY <2>1, <3>1 DEF StopKeepalive, Phases
      <4> QED BY <4>1, CloserMoves DEF Typed
    <3>2. CASE StopKeepalive(n) /\ keeper # 0
      <4> DEFINE place == IF closer[n].at = "completing" THEN "joining" ELSE "rejoining"
      <4>1. closer' = [closer EXCEPT ![n].at = place, ![n].loop = keeper] /\ place \in Phases
        BY <3>2 DEF StopKeepalive, Phases
      <4> HIDE DEF place
      <4> QED BY <4>1, CloserTakes DEF Typed
    <3>3. CASE Joined(n)
      <4>1. closer' = [closer EXCEPT ![n].at = After(n), ![n].loop = 0] /\ After(n) \in Phases
        BY <2>1, <3>3 DEF Joined, Phases
      <4> QED BY <4>1, CloserTakes, Bounds DEF Typed
    <3>4. CASE ReadInstance(n)
      <4> DEFINE place == IF instance = 0 THEN "done" ELSE "acting"
      <4>1. closer' = [closer EXCEPT ![n].at = place, ![n].id = instance] /\ place \in Phases
        BY <3>4 DEF ReadInstance, Phases
      <4>2. instance \in 0..MaxSandboxes /\ instance \in {0} \cup Created
        BY Bounds DEF Typed, Created
      <4> HIDE DEF place
      <4>3. /\ closer' \in [Runs -> [at : Phases, id : 0..MaxSandboxes, loop : 0..MaxLoops]]
            /\ closer'[n].id = instance /\ \A m \in Runs \ {n} : closer'[m] = closer[m]
        BY <4>1, <4>2 DEF Typed
      <4> QED BY <4>2, <4>3 DEF Typed
    <3> QED BY <1>15, <3>1, <3>2, <3>3, <3>4
  <2> QED BY <1>15, <2>2, Bounds DEF StopKeepalive, Joined, ReadInstance, Typed, Created
<1>16. ASSUME NEW n \in Runs, PauseCloud(n) \/ Kill(n) \/ ActFails(n) \/ NoteId(n) \/ ClearInstance(n) PROVE Typed'
  <2>1. PICK place \in Phases : CloserTo(n, place)
    BY <1>16 DEF PauseCloud, Kill, ActFails, NoteId, ClearInstance, Phases
  <2>2. status' \in [Ids -> {"none", "running", "paused", "gone"}] /\ Created \subseteq Created'
    BY <1>16 DEF PauseCloud, Kill, ActFails, NoteId, ClearInstance, Typed, Created, Alive
  <2>3. /\ closer' \in [Runs -> [at : Phases, id : 0..MaxSandboxes, loop : 0..MaxLoops]]
        /\ \A m \in Runs : closer'[m].id \in {0} \cup Created'
    BY <2>1, <2>2, CloserMoves DEF Typed
  <2>4. {instance', config', saved'} \subseteq {0} \cup Created'
    BY <1>16, <2>2 DEF PauseCloud, Kill, ActFails, NoteId, ClearInstance, Typed
  <2>5. \A t \in Tools : seen[t] \in {0} \cup Created'
    BY <2>2 DEF Typed
  <2> QED BY <1>16, <2>2, <2>3, <2>4, <2>5 DEF PauseCloud, Kill, ActFails, NoteId, ClearInstance, Typed
<1>17. ASSUME NEW i \in Ids, Die(i) PROVE Typed'
  BY <1>17 DEF Die, Alive, Typed, Created
<1>18. CASE BeginRun
  BY <1>18 DEF BeginRun, Typed, Created
<1>19. CASE EndRun \/ RunRaises
  <2>1. PICK n \in Runs, place \in Phases : CloserTo(n, place)
    BY <1>19 DEF EndRun, RunRaises, Phases
  <2>2. /\ closer' \in [Runs -> [at : Phases, id : 0..MaxSandboxes, loop : 0..MaxLoops]]
        /\ \A m \in Runs : closer'[m].id \in {0} \cup Created
    BY <2>1, CloserMoves DEF Typed
  <2> QED BY <1>19, <2>2 DEF EndRun, RunRaises, Typed, Created
<1>20. CASE Restart
  BY <1>20, Bounds DEF Restart, Typed, Created, Places, Holding, Phases, NoLoop, Files
<1>21. CASE UNCHANGED vars
  BY <1>21 DEF vars, Typed, Created
<1>22. ASSUME NEW t \in Tools, ToolStep(t) PROVE Typed'
  <2>1. ConnectConfigured(t) \/ ConnectSaved(t) => Typed'
    BY <1>5 DEF ConnectConfigured, ConnectSaved, Typed
  <2>2. ConnectFails(t, "config", config, "state") \/ ConnectFails(t, "state", saved, "creating") => Typed'
    BY <1>6 DEF Typed
  <2> QED BY <1>22, <1>1, <1>2, <1>3, <1>4, <1>7, <1>8, <1>9, <1>10, <1>11, <1>12, <1>13, <2>1, <2>2 DEF ToolStep
<1>23. ASSUME NEW n \in Runs, CloserStep(n) PROVE Typed'
  BY <1>15, <1>16, <1>23 DEF CloserStep
<1> QED BY <1>14, <1>17, <1>18, <1>19, <1>20, <1>21, <1>22, <1>23 DEF Next
-----------------------------------------------------------------------------
(* One sandbox *)

\* At the start no other sandbox is alive than the saved one.
LEMMA SoleInit == Init => Sole
BY DEF Init, Sole, Intact, Alive

\* Nothing is lost as long as no sandbox is added to those that are intact, and
\* no thread comes to create one or leaves one it has created.
LEMMA SoleKept ==
    ASSUME Sole, Intact' \subseteq Intact, saved' = saved,
           \A t \in Tools : pc'[t] \in {"saving", "creating"} => pc'[t] = pc[t],
           \A t \in Tools : pc[t] = "saving" =>
                (pc'[t] = "saving" /\ seen'[t] = seen[t]) \/ seen[t] \notin Intact'
    PROVE  Sole'
BY DEF Sole

\* The lock lets one thread at a time look for a sandbox and store it.
LEMMA LockExcludes ==
    ASSUME Typed, NEW t \in Tools, NEW u \in Tools, pc[t] \in Holding, pc[u] \in Holding
    PROVE  t = u
BY DEF Typed

\* No step leaves a second sandbox alive.
LEMMA SoleStep == Typed /\ Sole /\ [Next]_vars => Sole'
<1> SUFFICES ASSUME Typed, Sole, [Next]_vars PROVE Sole'
  OBVIOUS
<1> USE DEF cloud, manager, threads, keepalive, history
<1>1. ASSUME NEW t \in Tools,
             \/ Access(t) \/ Check(t) \/ CheckFails(t) \/ ClearStale(t) \/ Lock(t)
             \/ Publish(t) \/ Upload(t) \/ UploadRaises(t) \/ CreateRaises(t) \/ Use(t)
      PROVE  Sole'
  <2>1. Intact' = Intact /\ saved' = saved
    BY <1>1 DEF Access, Check, CheckFails, ClearStale, Lock, Publish, Upload, UploadRaises, CreateRaises,
                Use, Return, Raises, Fault, Intact, Alive
  <2>2. PICK place \in Places \ {"saving", "creating"} : Goto(t, place) /\ pc[t] # "saving"
    BY <1>1 DEF Access, Check, CheckFails, ClearStale, Lock, Publish, Upload, UploadRaises, CreateRaises,
                Use, Return, Raises, Places
  <2>3. \A u \in Tools \ {t} : seen'[u] = seen[u]
    BY <1>1 DEF Access, Check, CheckFails, ClearStale, Lock, Publish, Upload, UploadRaises, CreateRaises,
                Use, Return, Raises, Typed
  <2> QED BY <2>1, <2>2, <2>3, SoleKept DEF Goto, Typed
<1>2. ASSUME NEW t \in Tools, NEW from \in {"config", "state"}, NEW i \in {0} \cup Created,
             NEW otherwise \in {"state", "creating"}, Connect(t, from, i, otherwise),
             otherwise = "creating" => i = saved
      PROVE  Sole'
  <2>1. Intact' = Intact /\ saved' = saved
    BY <1>2 DEF Connect, Intact, Alive, Typed
  <2>2. CASE i \in Alive \/ otherwise = "state"
    BY <1>2, <2>1, <2>2, SoleKept DEF Connect, Goto, Typed
  <2>3. CASE i \notin Alive /\ otherwise = "creating"
    <3>1. Intact = {}
      BY <1>2, <2>3, LockExcludes DEF Connect, Sole, Intact, Holding
    <3> QED BY <1>2, <2>1, <2>3, <3>1, LockExcludes DEF Connect, Sole, Goto, Holding, Typed
  <2> QED BY <2>2, <2>3
<1>3. ASSUME NEW t \in Tools, NEW from \in {"config", "state"}, NEW i \in {0} \cup Created,
             NEW otherwise \in {"state", "creating"}, ConnectFails(t, from, i, otherwise),
             otherwise = "creating" => i = saved
      PROVE  Sole'
  <2>1. Intact' = Intact \ {i} /\ saved' = saved
    BY <1>3 DEF ConnectFails, Intact, Alive
  <2>2. CASE otherwise = "state"
    BY <1>3, <2>1, <2>2, SoleKept DEF ConnectFails, Goto, Typed
  <2>3. CASE otherwise = "creating"
    <3>1. Intact' = {}
      BY <1>3, <2>1, <2>3, LockExcludes DEF ConnectFails, Sole, Holding
    <3>2. \A u \in Tools : pc'[u] # "saving"
      BY <1>3, <2>3, LockExcludes DEF ConnectFails, Goto, Typed, Holding
    <3> QED BY <3>1, <3>2 DEF Sole
  <2> QED BY <2>2, <2>3
<1>4. ASSUME NEW t \in Tools, Create(t) PROVE Sole'
  <2>1. PICK i \in Ids : /\ status[i] = "none" /\ status' = [status EXCEPT ![i] = "running"]
                         /\ seen' = [seen EXCEPT ![t] = i]
    BY <1>4, CreatedAnew
  <2>2. Intact = {} /\ forsaken' = forsaken
    BY <1>4 DEF Create, Sole
  <2>3. Intact' \subseteq {i}
    BY <2>1, <2>2 DEF Intact, Alive, Typed
  <2>4. \A u \in Tools : pc'[u] = IF u = t THEN "saving" ELSE pc[u]
    BY <1>4 DEF Create, Goto, Typed
  <2>5. \A u \in Tools : pc'[u] \in {"saving", "creating"} => u = t
    BY <1>4, <2>4, LockExcludes DEF Create, Holding
  <2>6. seen'[t] = i
    BY <2>1 DEF Typed
  <2> QED BY <2>3, <2>4, <2>5, <2>6 DEF Sole
<1>5. ASSUME NEW t \in Tools, SaveState(t) PROVE Sole'
  <2>1. Intact' \subseteq {saved'}
    BY <1>5 DEF SaveState, Sole, Intact, Alive
  <2>2. \A u \in Tools : pc'[u] \notin {"saving", "creating"}
    BY <1>5, LockExcludes DEF SaveState, Goto, Typed, Holding
  <2> QED BY <2>1, <2>2 DEF Sole
<1>6. ASSUME NEW t \in Tools, SaveFails(t) PROVE Sole'
  <2>1. Intact' = {}
    BY <1>6 DEF SaveFails, Sole, Intact, Alive
  <2> QED BY <2>1, <1>6 DEF SaveFails, Goto, Sole, Typed
<1>7. ASSUME NEW t \in Tools, NEW a \in Late, AddAsset(t, a) PROVE Sole'
  BY <1>7, SoleKept DEF AddAsset, Intact, Alive
<1>8. ASSUME NEW l \in Loops, LoopStep(l) PROVE Sole'
  <2>1. Alive' = Alive
    BY <1>8 DEF LoopStep, LoopWakes, Ping, Resume, Alive, Typed
  <2> QED BY <1>8, <2>1, SoleKept DEF LoopStep, LoopWakes, Ping, Resume, LoopTo, Intact
<1>9. ASSUME NEW n \in Runs, CloserStep(n) PROVE Sole'
  <2>1. Alive' \subseteq Alive
    BY <1>9 DEF CloserStep, StopKeepalive, Joined, ReadInstance, PauseCloud, Kill, ActFails, NoteId, ClearInstance,
                Alive, Typed
  <2>2. UNCHANGED <<saved, pc, seen, forsaken>>
    BY <1>9 DEF CloserStep, StopKeepalive, Joined, ReadInstance, PauseCloud, Kill, ActFails, NoteId, ClearInstance
  <2> QED BY <2>1, <2>2, SoleKept DEF Intact
<1>10. ASSUME NEW i \in Ids, Die(i) PROVE Sole'
  <2>1. Alive' \subseteq Alive
    BY <1>10 DEF Die, Alive, Typed
  <2> QED BY <1>10, <2>1, SoleKept DEF Die, Intact
<1>11. CASE BeginRun \/ EndRun \/ RunRaises \/ UNCHANGED vars
  BY <1>11, SoleKept DEF BeginRun, EndRun, RunRaises, vars, Intact, Alive
<1>12. CASE Restart
  <2>1. /\ Intact' \subseteq Intact /\ \A t \in Tools : pc[t] = "saving" => seen[t] \notin Intact'
        /\ saved' = saved /\ \A t \in Tools : pc'[t] = "idle"
    BY <1>12 DEF Restart, Intact, Alive
  <2> QED BY <2>1, SoleKept
<1>13. ASSUME NEW t \in Tools, ToolStep(t) PROVE Sole'
  <2>1. ConnectConfigured(t) \/ ConnectSaved(t) => Sole'
    BY <1>2 DEF ConnectConfigured, ConnectSaved, Typed
  <2>2. ConnectFails(t, "config", config, "state") \/ ConnectFails(t, "state", saved, "creating") => Sole'
    BY <1>3 DEF Typed
  <2> QED BY <1>13, <1>1, <1>4, <1>5, <1>6, <1>7, <2>1, <2>2 DEF ToolStep
<1> QED BY <1>8, <1>9, <1>10, <1>11, <1>12, <1>13 DEF Next
-----------------------------------------------------------------------------
(* Assets *)

\* At the start nothing is registered that is not there or still to be uploaded.
LEMMA FurnishedInit == Init => Furnished
BY DEF Init, Furnished, Created, Holding

\* Nothing changes for the assets while the instance is only given up, and no
\* thread comes to look for a sandbox beside it.
LEMMA FurnishedKept ==
    ASSUME Furnished, Created' \subseteq Created, mishaps \subseteq mishaps', UNCHANGED <<has, assets, wanted>>,
           instance' \in {0, instance}, lock' = lock \/ instance' = 0,
           \A t \in Tools : pc'[t] \in Holding \ {"uploading"} => pc[t] \in Holding \ {"uploading"}
    PROVE  Furnished'
BY DEF Furnished

\* No step leaves the sandbox without what was registered.
LEMMA FurnishedStep == Typed /\ Furnished /\ [Next]_vars => Furnished'
<1> SUFFICES ASSUME Typed, Furnished, [Next]_vars PROVE Furnished'
  OBVIOUS
<1> USE DEF cloud, manager, threads, keepalive, history
<1>1. ASSUME NEW t \in Tools, Access(t) \/ Check(t) \/ CheckFails(t) \/ ClearStale(t) \/ Use(t) PROVE Furnished'
  BY <1>1, FurnishedKept DEF Access, Check, CheckFails, Fault, ClearStale, Use, Goto, Typed, Created, Holding
<1>2. ASSUME NEW t \in Tools, Lock(t) PROVE Furnished'
  <2>1. CASE instance = 0
    BY <1>2, <2>1 DEF Lock, Furnished, Created
  <2>2. CASE instance # 0
    BY <1>2, <2>2, FurnishedKept DEF Lock, Return, Goto, Typed, Created, Holding
  <2> QED BY <2>1, <2>2
<1>3. ASSUME NEW t \in Tools, NEW from \in {"config", "state"}, NEW i \in {0} \cup Created,
             NEW otherwise \in {"state", "creating"},
             Connect(t, from, i, otherwise) \/ ConnectFails(t, from, i, otherwise)
      PROVE  Furnished'
  <2>1. Created' = Created
    BY <1>3 DEF Connect, ConnectFails, Created, Alive, Typed
  <2> QED BY <1>3, <2>1, FurnishedKept DEF Connect, ConnectFails, Fault, Goto, Typed, Holding
<1>4. ASSUME NEW t \in Tools, Create(t) PROVE Furnished'
  <2>1. PICK i \in Ids : /\ status' = [status EXCEPT ![i] = "running"]
                         /\ mishaps' = IF i = 1 THEN mishaps ELSE mishaps \cup {"recreated"}
    BY <1>4, CreatedAnew
  <2>2. Created' \subseteq Created \cup {i}
    BY <2>1 DEF Created, Typed
  <2> QED BY <1>4, <2>1, <2>2 DEF Create, Goto, Furnished, Typed, Holding
<1>5. ASSUME NEW t \in Tools, CreateRaises(t) PROVE Furnished'
  BY <1>5, FurnishedKept DEF CreateRaises, Raises, Goto, Furnished, Typed, Created, Holding
<1>6. ASSUME NEW t \in Tools, SaveState(t) \/ SaveFails(t) PROVE Furnished'
  BY <1>6, FurnishedKept DEF SaveState, SaveFails, Fault, Goto, Typed, Created, Holding
<1>7. ASSUME NEW t \in Tools, Publish(t) PROVE Furnished'
  <2>1. lock = t /\ lock' = t /\ \A u \in Tools : pc'[u] \notin Holding \ {"uploading"}
    BY <1>7 DEF Publish, Goto, Typed, Holding
  <2>2. t # Nobody
    BY Bounds
  <2> QED BY <1>7, <2>1, <2>2 DEF Publish, Furnished, Created
<1>8. ASSUME NEW t \in Tools, Upload(t) PROVE Furnished'
  <2>1. \A u \in Tools : pc'[u] \notin Holding
    BY <1>8 DEF Upload, Return, Goto, Typed, Holding
  <2>2. seen[t] \in Created /\ Created' = Created
    BY <1>8 DEF Upload, Typed, Created
  <2>3. mishaps \cap {"upload", "recreated"} = {} => wanted \subseteq has'[1]
    <3> SUFFICES ASSUME mishaps \cap {"upload", "recreated"} = {} PROVE wanted \subseteq has'[1]
      OBVIOUS
    <3>1. seen[t] = 1 /\ wanted \subseteq assets \cup has[1]
      BY <2>2 DEF Furnished
    <3>2. has'[1] = has[1] \cup assets
      BY <1>8, <3>1, Bounds DEF Upload, Typed
    <3> QED BY <3>1, <3>2
  <2> QED BY <1>8, <2>1, <2>2, <2>3 DEF Upload, Furnished
<1>9. ASSUME NEW t \in Tools, UploadRaises(t) PROVE Furnished'
  BY <1>9 DEF UploadRaises, Raises, Goto, Furnished, Typed, Created, Holding
<1>10. ASSUME NEW t \in Tools, NEW a \in Late, AddAsset(t, a) PROVE Furnished'
  <2>1. CASE instance = 0
    BY <1>10, <2>1 DEF AddAsset, Furnished, Created
  <2>2. CASE instance # 0
    <3>1. instance \in Created /\ has' = [has EXCEPT ![instance] = @ \cup {a}] /\ wanted' = wanted \cup {a}
      BY <1>10, <2>2 DEF AddAsset, Typed
    <3>2. "recreated" \notin mishaps => instance = 1 /\ has'[1] = has[1] \cup {a}
      BY <3>1, Bounds DEF Furnished, Typed
    <3> QED BY <1>10, <3>1, <3>2 DEF AddAsset, Furnished, Created
  <2> QED BY <2>1, <2>2
<1>11. ASSUME NEW l \in Loops, LoopStep(l) PROVE Furnished'
  <2>1. Created' = Created
    BY <1>11 DEF LoopStep, LoopWakes, Ping, Resume, Created, Typed
  <2> QED BY <1>11, <2>1, FurnishedKept DEF LoopStep, LoopWakes, Ping, Resume, LoopTo
<1>12. ASSUME NEW n \in Runs, CloserStep(n) PROVE Furnished'
  <2>1. Created' \subseteq Created
    <3>1. CASE PauseCloud(n) \/ Kill(n)
      <4>1. PICK i \in {0} \cup Created, x \in {"paused", "gone"} :
                status' = [status EXCEPT ![i] = x] \/ status' = status
        BY <3>1 DEF PauseCloud, Kill, Typed
      <4>2. \A j \in Ids \ {i} : status'[j] = status[j]
        BY <4>1 DEF Typed
      <4> QED BY <4>2, Bounds DEF Created
    <3>2. CASE UNCHANGED status
      BY <3>2 DEF Created
    <3> QED BY <1>12, <3>1, <3>2 DEF CloserStep, StopKeepalive, Joined, ReadInstance, ActFails, NoteId, ClearInstance
  <2>2. mishaps \subseteq mishaps' /\ UNCHANGED <<has, assets, wanted, lock, pc>> /\ instance' \in {0, instance}
    BY <1>12 DEF CloserStep, StopKeepalive, Joined, ReadInstance, PauseCloud, Kill, ActFails, Fault, NoteId,
                 ClearInstance
  <2> QED BY <2>1, <2>2, FurnishedKept
<1>13. ASSUME NEW i \in Ids, Die(i) PROVE Furnished'
  <2>1. Created' \subseteq Created
    BY <1>13 DEF Die, Created, Alive, Typed
  <2> QED BY <1>13, <2>1, FurnishedKept DEF Die
<1>14. CASE BeginRun \/ EndRun \/ RunRaises \/ UNCHANGED vars
  BY <1>14, FurnishedKept DEF BeginRun, EndRun, RunRaises, vars, Created
<1>15. CASE Restart
  BY <1>15 DEF Restart, Fault, Furnished, Created, Holding
<1>16. ASSUME NEW t \in Tools, ToolStep(t) PROVE Furnished'
  <2>1. (\/ ConnectConfigured(t) \/ ConnectSaved(t)
         \/ ConnectFails(t, "config", config, "state") \/ ConnectFails(t, "state", saved, "creating")) => Furnished'
    BY <1>3 DEF ConnectConfigured, ConnectSaved, Typed
  <2> QED BY <1>16, <1>1, <1>2, <1>4, <1>5, <1>6, <1>7, <1>8, <1>9, <1>10, <2>1 DEF ToolStep
<1> QED BY <1>11, <1>12, <1>13, <1>14, <1>15, <1>16 DEF Next

-----------------------------------------------------------------------------
(* Keepalive *)

\* At the start no run is under way.
LEMMA LookedInit == Init => Looked
BY DEF Init, Looked, Settled

\* Nothing changes for the keepalive while no sandbox is handed out, and no
\* thread starts outside a run.
LEMMA LookedKept ==
    ASSUME Looked, mishaps \subseteq mishaps', UNCHANGED <<active, quit, loops, closer>>, instance' \in {0, instance},
           \A t \in Tools : pc'[t] = "uploading" => pc[t] = "uploading" /\ seen'[t] = seen[t],
           \A t \in Tools : pc[t] = "idle" => pc'[t] = "idle" \/ active
    PROVE  Looked'
BY DEF Looked, Settled, Kept, Live

\* No step leaves the sandbox of a run without its keepalive.
LEMMA LookedStep == Typed /\ Looked /\ [Next]_vars => Looked'
<1> SUFFICES ASSUME Typed, Looked, [Next]_vars PROVE Looked'
  OBVIOUS
<1> USE DEF cloud, manager, threads, keepalive, history
<1>1. ASSUME NEW t \in Tools,
             \/ Access(t) \/ Check(t) \/ CheckFails(t) \/ ClearStale(t) \/ Lock(t)
             \/ Create(t) \/ CreateRaises(t) \/ SaveState(t) \/ SaveFails(t) \/ UploadRaises(t) \/ Use(t)
      PROVE  Looked'
  <2>1. PICK place \in Places \ {"uploading"} : Goto(t, place) /\ (pc[t] = "idle" => active)
    BY <1>1 DEF Access, Check, CheckFails, ClearStale, Lock, Create, CreateRaises, SaveState, SaveFails, UploadRaises,
                Use, Return, Raises, Places
  <2>2. /\ UNCHANGED <<active, quit, loops, closer>> /\ instance' \in {0, instance}
        /\ \A u \in Tools \ {t} : seen'[u] = seen[u]
    BY <1>1 DEF Access, Check, CheckFails, ClearStale, Lock, Create, CreateRaises, SaveState, SaveFails, UploadRaises,
                Use, Return, Raises, Typed
  <2>3. mishaps \subseteq mishaps'
    BY <1>1 DEF Access, Check, CheckFails, ClearStale, Lock, Create, CreateRaises, SaveState, SaveFails, UploadRaises,
                Use, Raises, Fault
  <2> QED BY <2>1, <2>2, <2>3, LookedKept DEF Goto, Typed
<1>2. ASSUME NEW t \in Tools, NEW from \in {"config", "state"}, NEW i \in {0} \cup Created,
             NEW otherwise \in {"state", "creating"},
             Connect(t, from, i, otherwise) \/ ConnectFails(t, from, i, otherwise)
      PROVE  Looked'
  BY <1>2, LookedKept DEF Connect, ConnectFails, Fault, Goto, Typed
<1>3. ASSUME NEW t \in Tools, Publish(t) PROVE Looked'
  <2>1. seen[t] \in Ids
    BY <1>3 DEF Publish, Typed, Created
  <2>2. quit' = FALSE /\ keeper' \in Live' /\ loops'[keeper'].id = seen[t]
    BY <1>3, <2>1, KeepaliveStarts DEF Publish, Typed
  <2>3. Kept(seen[t])' /\ seen' = seen
    BY <1>3, <2>2 DEF Publish, Kept
  <2>4. \A u \in Tools : pc'[u] = "uploading" => u = t
    BY <1>3, LockExcludes DEF Publish, Goto, Typed, Holding
  <2>5. pc[t] # "idle" /\ instance' = seen[t] /\ UNCHANGED <<active, closer, mishaps>>
    BY <1>3 DEF Publish
  <2> QED BY <2>3, <2>4, <2>5 DEF Looked, Settled, Kept
<1>4. ASSUME NEW t \in Tools, Upload(t) PROVE Looked'
  <2>1. \A u \in Tools : pc'[u] # "uploading" /\ (pc'[u] = "idle" <=> pc[u] = "idle")
    BY <1>4, LockExcludes DEF Upload, Return, Goto, Typed, Holding
  <2>2. pc[t] # "idle" /\ instance' = seen[t] /\ UNCHANGED <<active, closer, mishaps, quit, loops>>
    BY <1>4 DEF Upload
  <2> QED BY <1>4, <2>1, <2>2 DEF Upload, Looked, Settled, Kept, Live
<1>5. ASSUME NEW t \in Tools, NEW a \in Late, AddAsset(t, a) PROVE Looked'
  BY <1>5, LookedKept DEF AddAsset
<1>6. ASSUME NEW l \in Loops, LoopStep(l) PROVE Looked'
  <2>1. PICK place \in {"ended", "waiting", "pinging", "resuming"} :
            LoopTo(l, place) /\ loops[l].at # "none" /\ (~quit => place # "ended")
    BY <1>6 DEF LoopStep, LoopWakes, Ping, Resume
  <2>2. \A i \in {instance} \cup {seen[t] : t \in Tools} : Kept(i) => Kept(i)'
    BY <2>1, LoopMoves DEF Kept, LoopTo, Live
  <2> QED BY <2>1, <2>2 DEF LoopTo, Looked, Settled, Kept
<1>7. ASSUME NEW n \in Runs, CloserStep(n) PROVE Looked'
  <2>1. ~Settled /\ UNCHANGED <<pc, active>> /\ mishaps \subseteq mishaps'
    BY <1>7 DEF CloserStep, StopKeepalive, Joined, ReadInstance, PauseCloud, Kill, ActFails, Fault, NoteId,
                ClearInstance, Settled
  <2> QED BY <2>1 DEF Looked
<1>8. CASE \E i \in Ids : Die(i)
  BY <1>8, LookedKept DEF Die
<1>9. CASE BeginRun
  BY <1>9 DEF BeginRun, Looked, Settled, Kept, Live
<1>10. CASE EndRun
  BY <1>10 DEF EndRun, Looked, Typed
<1>11. CASE RunRaises
  <2>1. /\ Settled => Settled'
        /\ active /\ ~active'
        /\ mishaps \subseteq mishaps'
        /\ UNCHANGED <<pc, seen, quit, loops>>
    BY <1>11, CloserMoves DEF RunRaises, Settled, Phases
  <2> QED BY <2>1 DEF Looked, Kept, Live
<1>12. CASE Restart
  BY <1>12 DEF Restart, Looked, Settled
<1>13. CASE UNCHANGED vars
  BY <1>13, LookedKept DEF vars
<1>14. ASSUME NEW t \in Tools, ToolStep(t) PROVE Looked'
  <2>1. (\/ ConnectConfigured(t) \/ ConnectSaved(t)
         \/ ConnectFails(t, "config", config, "state") \/ ConnectFails(t, "state", saved, "creating")) => Looked'
    BY <1>2 DEF ConnectConfigured, ConnectSaved, Typed
  <2> QED BY <1>14, <1>1, <1>3, <1>4, <1>5, <2>1 DEF ToolStep
<1> QED BY <1>6, <1>7, <1>8, <1>9, <1>10, <1>11, <1>12, <1>13, <1>14 DEF Next
-----------------------------------------------------------------------------
(* Behind a run *)

\* At the start nothing is running.
LEMMA OrderlyInit == Init => Orderly
BY DEF Init, Orderly, Ordered, InHand, OneEnd, KeptInHand, Leaving, Running, Paused, Live

\* What has gone wrong stays known.
LEMMA MishapsStay == [Next]_vars => mishaps \subseteq mishaps'
BY DEF Next, ToolStep, LoopStep, CloserStep, Access, Check, CheckFails, Fault, ClearStale, Lock, ConnectConfigured,
       ConnectSaved, Connect, ConnectFails, Create, CreateRaises, Raises, SaveState, SaveFails, Publish, Upload,
       UploadRaises, Use, AddAsset, LoopWakes, Ping, Resume, LoopTo, StopKeepalive, Joined, ReadInstance, PauseCloud,
       Kill, ActFails, NoteId, ClearInstance, Die, BeginRun, EndRun, RunRaises, Restart, vars, history

\* While nothing has failed, what is alive is the session's sandbox.
LEMMA AliveIsSaved ==
    ASSUME Sole, forsaken = {}, \A t \in Tools : pc[t] # "saving"
    PROVE  Alive \subseteq {saved}
BY DEF Sole, Intact

\* The step of a tool thread, during a run.
LEMMA ToolsKeepOrder ==
    ASSUME Ordered, NEW t \in Tools, active, UNCHANGED <<active, closer, forsaken, loops, keeper>>,
           Paused' \subseteq Paused, instance' \in {0, saved'},
           \A u \in Tools \ {t} : pc'[u] = pc[u] /\ seen'[u] = seen[u],
           saved' = saved \/ \A u \in Tools \ {t} : pc[u] \notin Holding,
           pc'[t] \in {"publishing", "uploading"} => seen'[t] = saved',
           pc'[t] \in {"saving", "publishing", "uploading"} =>
                Paused' = {} \/ pc[t] \in {"saving", "publishing", "uploading"},
           \/ instance' # 0
           \/ pc'[t] \in Coming
           \/ pc[t] \notin Coming /\ instance' = instance /\ Running' \subseteq Running
    PROVE  Ordered'
<1>1. InHand'
  BY DEF Ordered, InHand, Holding
<1>2. OneEnd'
  BY DEF Ordered, OneEnd, Settled
<1>3. KeptInHand'
  BY DEF Ordered, KeptInHand, Live
<1>4. Leaving'
  BY DEF Ordered, OneEnd, Leaving, Settled
<1> QED BY <1>1, <1>2, <1>3, <1>4 DEF Ordered

\* The steps of the tools leave nothing running that no run is responsible for.
LEMMA ToolsInOrder ==
    ASSUME Typed, Sole, Furnished, Ordered, Calm', NEW t \in Tools, ToolStep(t)
    PROVE  Ordered'
<1> USE DEF cloud, manager, threads, keepalive, history
<1>1. active
  BY DEF ToolStep, Access, Check, CheckFails, ClearStale, Lock, ConnectConfigured, ConnectSaved, Connect, ConnectFails,
         Create, CreateRaises, SaveState, SaveFails, Publish, Upload, UploadRaises, Use, AddAsset, Ordered, OneEnd
<1>2. ~(CheckFails(t) \/ CreateRaises(t) \/ SaveFails(t) \/ UploadRaises(t))
      /\ ~ConnectFails(t, "config", config, "state") /\ ~ConnectFails(t, "state", saved, "creating")
  BY DEF CheckFails, CreateRaises, SaveFails, UploadRaises, ConnectFails, Fault, Raises, Calm
<1>3. CASE Access(t) \/ Check(t) \/ ClearStale(t) \/ Use(t)
  <2>1. UNCHANGED <<active, closer, forsaken, loops, keeper, saved>> /\ Paused' = Paused /\ Running' = Running
    BY <1>3 DEF Access, Check, ClearStale, Use, Paused, Running
  <2> QED BY <1>1, <1>3, <2>1, ToolsKeepOrder
       DEF Access, Check, ClearStale, Use, Goto, Coming, Holding, Typed, Ordered, InHand
<1>4. CASE Lock(t)
  <2>1. UNCHANGED <<active, closer, forsaken, loops, keeper, saved>> /\ Paused' = Paused /\ Running' = Running
    BY <1>4 DEF Lock, Paused, Running
  <2> QED BY <1>1, <1>4, <2>1, ToolsKeepOrder DEF Lock, Return, Goto, Coming, Holding, Typed, Ordered, InHand
<1>5. ASSUME NEW from \in {"config", "state"}, NEW i \in {0} \cup Created, NEW otherwise \in {"state", "creating"},
             Connect(t, from, i, otherwise)
      PROVE  Ordered'
  <2>1. \A u \in Tools : pc[u] # "saving"
    BY <1>5, LockExcludes DEF Connect, Holding
  <2>2. Alive \subseteq {saved}
    BY <2>1, AliveIsSaved DEF Ordered, InHand
  <2>3. UNCHANGED <<active, closer, forsaken, loops, keeper, saved, instance>> /\ instance = 0
    BY <1>5 DEF Connect, Furnished, Holding
  <2>4. CASE i \in Alive
    <3>1. i = saved /\ status' = [status EXCEPT ![i] = "running"] /\ i \in Ids
      BY <1>5, <2>2, <2>4 DEF Connect, Alive
    <3>2. Paused' = {}
      BY <2>2, <3>1 DEF Paused, Alive, Typed
    <3> QED BY <1>1, <1>5, <2>3, <2>4, <3>1, <3>2, ToolsKeepOrder DEF Connect, Goto, Coming, Holding, Typed
  <2>5. CASE i \notin Alive
    <3>1. Paused' = Paused
      BY <1>5, <2>5 DEF Connect, Paused
    <3> QED BY <1>1, <1>5, <2>3, <2>5, <3>1, ToolsKeepOrder DEF Connect, Goto, Coming, Holding, Typed
  <2> QED BY <2>4, <2>5
<1>6. CASE Create(t)
  <2>1. PICK i \in Ids : status' = [status EXCEPT ![i] = "running"] /\ seen' = [seen EXCEPT ![t] = i]
    BY <1>6, CreatedAnew
  <2>2. Alive = {}
    BY <1>6 DEF Create, Sole, Intact, Ordered, InHand
  <2>3. Paused' = {}
    BY <2>1, <2>2 DEF Paused, Alive, Typed
  <2>4. UNCHANGED <<active, closer, forsaken, loops, keeper, saved, instance>> /\ instance = 0
    BY <1>6 DEF Create, Furnished, Holding
  <2> QED BY <1>1, <1>6, <2>1, <2>3, <2>4, ToolsKeepOrder DEF Create, Goto, Coming, Holding, Typed
<1>7. CASE SaveState(t)
  <2>1. \A u \in Tools \ {t} : pc[u] \notin Holding
    BY <1>7, LockExcludes DEF SaveState, Holding
  <2>2. UNCHANGED <<active, closer, forsaken, loops, keeper, instance, seen>> /\ instance = 0 /\ saved' = seen[t]
        /\ Paused' = Paused
    BY <1>7 DEF SaveState, Furnished, Holding, Paused
  <2> QED BY <1>1, <1>7, <2>1, <2>2, ToolsKeepOrder DEF SaveState, Goto, Coming, Holding, Typed
<1>8. CASE Publish(t)
  <2>1. seen[t] \in Ids /\ seen[t] = saved /\ Paused = {}
    BY <1>8 DEF Publish, Typed, Created, Ordered, InHand, KeptInHand
  <2>2. keeper' # 0
    BY <1>8, <2>1, KeepaliveStarts, Bounds DEF Publish
  <2>3. UNCHANGED <<active, closer, forsaken, saved, seen>> /\ Paused' = Paused /\ instance' = seen[t]
    BY <1>8 DEF Publish, Paused
  <2>4. \A u \in Tools : pc'[u] \in {"publishing", "uploading"} => u = t
    BY <1>8, LockExcludes DEF Publish, Goto, Typed, Holding
  <2>5. InHand'
    BY <2>1, <2>3, <2>4, Bounds DEF Ordered, InHand
  <2>6. OneEnd' /\ KeptInHand' /\ Leaving'
    BY <1>1, <2>1, <2>2, <2>3 DEF Ordered, OneEnd, KeptInHand, Leaving, Settled
  <2> QED BY <2>5, <2>6 DEF Ordered
<1>9. CASE Upload(t)
  <2>1. seen[t] \in Ids /\ seen[t] = saved
    BY <1>9 DEF Upload, Typed, Created, Ordered, InHand
  <2>2. UNCHANGED <<active, closer, forsaken, loops, keeper, saved>> /\ instance' = seen[t] /\ Paused' = Paused
    BY <1>9 DEF Upload, Paused
  <2> QED BY <1>1, <1>9, <2>1, <2>2, Bounds, ToolsKeepOrder DEF Upload, Return, Goto, Typed
<1>10. CASE \E a \in Late : AddAsset(t, a)
  <2>1. UNCHANGED <<active, closer, forsaken, loops, keeper, saved, instance, pc, seen, status>>
    BY <1>10 DEF AddAsset
  <2> QED BY <1>1, <2>1 DEF Ordered, InHand, OneEnd, KeptInHand, Leaving, Running, Paused, Live, Settled
<1> QED BY <1>2, <1>3, <1>4, <1>5, <1>6, <1>7, <1>8, <1>9, <1>10
        DEF ToolStep, ConnectConfigured, ConnectSaved, Typed
LEMMA LoopsInOrder ==
    ASSUME Typed, Ordered, NEW l \in Loops, LoopStep(l)
    PROVE  Ordered'
<1> USE DEF cloud, manager, threads, keepalive, history
<1>1. PICK place \in {"ended", "waiting", "pinging", "resuming"} : LoopTo(l, place) /\ loops[l].at # "none"
  BY DEF LoopStep, LoopWakes, Ping, Resume
<1>2. Live' \subseteq Live /\ Live # {}
  BY <1>1, LoopMoves DEF Live, NoLoop
<1>3. status' = status
  <2>1. \A i \in Ids : status[i] # "paused"
    BY <1>2 DEF Ordered, KeptInHand, Paused
  <2> QED BY <2>1 DEF LoopStep, LoopWakes, Ping, Resume, Typed
<1>4. UNCHANGED <<afterRun, instance, saved, pc, seen, keeper, active, closer, forsaken>>
  BY <1>1 DEF LoopTo
<1> QED BY <1>2, <1>3, <1>4 DEF Ordered, InHand, OneEnd, KeptInHand, Leaving, Running, Paused, Settled

\* The step of a run's end: the threads are at rest, and so are the other ends.
LEMMA EndsKeepOrder ==
    ASSUME Ordered, NEW n \in Runs, closer[n].at \notin {"ahead", "done"},
           UNCHANGED <<afterRun, saved, active, pc, seen, loops, forsaken>>,
           \A m \in Runs \ {n} : closer'[m] = closer[m],
           Running' \subseteq Running, Paused' \subseteq Paused \/ Live = {},
           instance' \in {0, instance}, instance' = 0 => Running' = {} \/ instance = 0,
           keeper' = keeper \/ Live = {},
           closer'[n].at \in {"closing", "rejoining", "reading", "acting", "noting", "clearing", "done"} => keeper' = 0,
           closer'[n].at = "acting" => closer'[n].id = saved,
           closer'[n].at \in {"noting", "clearing"} => Running' = {},
           closer'[n].at = "done" /\ afterRun # "none" => Running' = {},
           closer'[n].at # "ahead"
    PROVE  Ordered'
<1>1. ~active /\ \A t \in Tools : pc[t] = "idle"
  BY DEF Ordered, OneEnd, Settled
<1>2. \A m \in Runs \ {n} : closer'[m].at \in {"ahead", "done"}
  BY DEF Ordered, OneEnd
<1>3. InHand'
  BY <1>1 DEF Ordered, InHand, Coming, Holding
<1>4. OneEnd'
  BY <1>1, <1>2 DEF OneEnd
<1>5. KeptInHand'
  BY <1>1 DEF Ordered, KeptInHand, Live
<1>6. Leaving'
  BY <1>1, <1>2 DEF Leaving, Settled
<1> QED BY <1>3, <1>4, <1>5, <1>6 DEF Ordered

\* The end of a run takes its steps in order, and leaves nothing running.
LEMMA EndsInOrder ==
    ASSUME Typed, Sole, Ordered, Calm', NEW n \in Runs, CloserStep(n)
    PROVE  Ordered'
<1> USE DEF cloud, manager, threads, keepalive, history
<1>1. closer[n].at \notin {"ahead", "done"}
  BY DEF CloserStep, StopKeepalive, Joined, ReadInstance, PauseCloud, Kill, ActFails, NoteId, ClearInstance
<1>2. ~active /\ \A t \in Tools : pc[t] = "idle"
  BY <1>1 DEF Ordered, OneEnd, Settled
<1>3. Alive \subseteq {saved} /\ Running \subseteq Alive
  BY <1>2, AliveIsSaved DEF Ordered, InHand, Running, Alive
<1>4. instance = 0 => Running = {}
  BY <1>2 DEF Ordered, InHand, Coming, Holding
<1>5. ~ActFails(n)
  BY DEF ActFails, Fault, Calm
<1>6. CASE StopKeepalive(n)
  <2>1. UNCHANGED <<afterRun, saved, active, pc, seen, loops, forsaken, instance, keeper>>
        /\ Running' = Running /\ Paused' = Paused
    BY <1>6 DEF StopKeepalive, Running, Paused
  <2>2. CASE keeper = 0
    <3>1. CloserTo(n, After(n)) /\ After(n) \in {"closing", "reading", "done"} /\ (After(n) = "done" => afterRun = "none")
      BY <1>6, <2>2 DEF StopKeepalive, After
    <3>2. closer'[n].at = After(n) /\ \A m \in Runs \ {n} : closer'[m] = closer[m]
      BY <3>1, CloserMoves DEF Phases
    <3> QED BY <1>1, <2>1, <2>2, <3>1, <3>2, EndsKeepOrder
  <2>3. CASE keeper # 0
    <3>1. closer[n].at = "completing"
      BY <1>6, <2>3 DEF StopKeepalive, Ordered, Leaving
    <3>2. closer' = [closer EXCEPT ![n].at = "joining", ![n].loop = keeper] /\ keeper \in 0..MaxLoops
      BY <1>6, <2>3, <3>1 DEF StopKeepalive, Typed
    <3>3. closer'[n].at = "joining" /\ \A m \in Runs \ {n} : closer'[m] = closer[m]
      BY <3>2, CloserTakes DEF Phases
    <3> QED BY <1>1, <2>1, <3>3, EndsKeepOrder
  <2> QED BY <2>2, <2>3
<1>7. CASE Joined(n)
  <2>1. UNCHANGED <<afterRun, saved, active, pc, seen, loops, forsaken, instance>> /\ keeper' = 0
        /\ Running' = Running /\ Paused' = Paused
    BY <1>7 DEF Joined, Running, Paused
  <2>2. Live = {}
    BY <1>7 DEF Joined, Calm
  <2>3. closer' = [closer EXCEPT ![n].at = After(n), ![n].loop = 0]
        /\ After(n) \in {"closing", "reading", "done"} /\ (After(n) = "done" => afterRun = "none")
    BY <1>7 DEF Joined, After
  <2>4. closer'[n].at = After(n) /\ \A m \in Runs \ {n} : closer'[m] = closer[m]
    BY <2>3, CloserTakes, Bounds DEF Phases
  <2> QED BY <1>1, <2>1, <2>2, <2>3, <2>4, EndsKeepOrder
<1>8. CASE ReadInstance(n)
  <2>1. UNCHANGED <<afterRun, saved, active, pc, seen, loops, forsaken, instance, keeper>>
        /\ Running' = Running /\ Paused' = Paused /\ keeper = 0
    BY <1>8 DEF ReadInstance, Running, Paused, Ordered, Leaving
  <2>2. /\ closer'[n].at = IF instance = 0 THEN "done" ELSE "acting"
        /\ closer'[n].id = instance /\ \A m \in Runs \ {n} : closer'[m] = closer[m]
    BY <1>8 DEF ReadInstance, Typed
  <2>3. instance \in {0, saved}
    BY DEF Ordered, InHand
  <2> QED BY <1>1, <1>4, <2>1, <2>2, <2>3, EndsKeepOrder
<1>9. CASE PauseCloud(n) \/ Kill(n)
  <2>1. UNCHANGED <<afterRun, saved, active, pc, seen, loops, forsaken, instance, keeper>> /\ keeper = 0 /\ Live = {}
    BY <1>9 DEF PauseCloud, Kill, Ordered, Leaving, KeptInHand
  <2>2. closer[n].id = saved
    BY <1>9 DEF PauseCloud, Kill, Ordered, Leaving
  <2>3. Running' = {}
    <3>1. CASE saved \in Alive /\ PauseCloud(n)
      BY <1>3, <2>2, <3>1 DEF PauseCloud, Running, Alive, Typed
    <3>2. CASE saved \notin Alive
      <4>1. Alive = {} /\ \A i \in Ids : status'[i] = "running" => status[i] = "running"
        BY <1>3, <1>9, <2>2, <3>2 DEF PauseCloud, Kill, Typed
      <4> QED BY <1>3, <4>1 DEF Running
    <3>3. CASE saved \in Alive /\ Kill(n)
      BY <1>3, <2>2, <3>3 DEF Kill, Running, Alive, Typed
    <3> QED BY <1>9, <3>1, <3>2, <3>3
  <2>4. PICK place \in {"noting", "clearing", "done"} : CloserTo(n, place)
    BY <1>9 DEF PauseCloud, Kill
  <2>5. closer'[n].at = place /\ \A m \in Runs \ {n} : closer'[m] = closer[m]
    BY <2>4, CloserMoves DEF Phases
  <2> QED BY <1>1, <2>1, <2>3, <2>4, <2>5, EndsKeepOrder
<1>10. CASE NoteId(n) \/ ClearInstance(n)
  <2>1. UNCHANGED <<afterRun, saved, active, pc, seen, loops, forsaken, keeper>> /\ instance' \in {0, instance}
        /\ Running' = Running /\ Paused' = Paused /\ keeper = 0 /\ Running = {}
    BY <1>10 DEF NoteId, ClearInstance, Running, Paused, Ordered, Leaving
  <2>2. PICK place \in {"clearing", "done"} : CloserTo(n, place)
    BY <1>10 DEF NoteId, ClearInstance
  <2>3. closer'[n].at = place /\ \A m \in Runs \ {n} : closer'[m] = closer[m]
    BY <2>2, CloserMoves DEF Phases
  <2> QED BY <1>1, <2>1, <2>2, <2>3, EndsKeepOrder
<1> QED BY <1>5, <1>6, <1>7, <1>8, <1>9, <1>10 DEF CloserStep

\* No step leaves a sandbox running behind a run.
LEMMA OrderlyStep == IInv /\ [Next]_vars => Orderly'
<1> SUFFICES ASSUME IInv, [Next]_vars, Calm' PROVE Ordered'
  BY DEF Orderly
<1> USE DEF cloud, manager, threads, keepalive, history
<1>1. Typed /\ Sole /\ Furnished /\ Ordered
  BY MishapsStay DEF IInv, Orderly, Calm
<1>2. CASE \E t \in Tools : ToolStep(t)
  BY <1>1, <1>2, ToolsInOrder
<1>3. CASE \E l \in Loops : LoopStep(l)
  BY <1>1, <1>3, LoopsInOrder
<1>4. CASE \E n \in Runs : CloserStep(n)
  BY <1>1, <1>4, EndsInOrder
<1>5. ASSUME NEW i \in Ids, Die(i) PROVE Ordered'
  <2>1. Running' \subseteq Running /\ Paused' \subseteq Paused
    BY <1>1, <1>5 DEF Die, Running, Paused, Typed
  <2>2. UNCHANGED <<afterRun, instance, saved, pc, seen, loops, keeper, active, closer, forsaken>>
    BY <1>5 DEF Die
  <2> QED BY <1>1, <2>1, <2>2 DEF Ordered, InHand, OneEnd, KeptInHand, Leaving, Live, Settled
<1>6. CASE BeginRun
  <2>1. Settled /\ active' /\ UNCHANGED <<afterRun, status, instance, saved, pc, seen, loops, keeper, closer, forsaken>>
    BY <1>6 DEF BeginRun, Calm, Settled
  <2> QED BY <1>1, <2>1 DEF Ordered, InHand, OneEnd, KeptInHand, Leaving, Live, Settled, Running, Paused
<1>7. CASE EndRun
  <2>1. Settled /\ ~active' /\ UNCHANGED <<afterRun, status, instance, saved, pc, seen, loops, keeper, forsaken>>
        /\ \A t \in Tools : pc[t] = "idle"
    BY <1>1, <1>7 DEF EndRun, Calm, Ordered, OneEnd
  <2>2. Run \in Runs /\ closer'[Run].at = "completing" /\ \A m \in Runs \ {Run} : closer'[m] = closer[m]
    BY <1>1, <1>7, CloserMoves DEF EndRun, Phases
  <2> QED BY <1>1, <2>1, <2>2 DEF Ordered, InHand, OneEnd, KeptInHand, Leaving, Live, Settled, Running, Paused
<1>8. ~RunRaises /\ ~Restart
  BY DEF RunRaises, Restart, Fault, Calm
<1>9. CASE UNCHANGED vars
  BY <1>1, <1>9 DEF vars, Ordered, InHand, OneEnd, KeptInHand, Leaving, Live, Settled, Running, Paused
<1> QED BY <1>2, <1>3, <1>4, <1>5, <1>6, <1>7, <1>8, <1>9 DEF Next

-----------------------------------------------------------------------------
(* The theorems *)

\* The invariant holds in every state, for any number of tools, runs and assets.
LEMMA Invariance == Spec => []IInv
<1>1. Init => IInv
  BY TypedInit, SoleInit, FurnishedInit, LookedInit, OrderlyInit DEF IInv
<1>2. IInv /\ [Next]_vars => IInv'
  BY TypedStep, SoleStep, FurnishedStep, LookedStep, OrderlyStep DEF IInv
<1> QED BY <1>1, <1>2, PTL DEF Spec

\* The lock of the manager goes with the places of the threads, and every id
\* that is written down is that of a sandbox that was created.
THEOREM TypeCorrect == Spec => []TypeOK
<1>1. IInv => TypeOK
  BY Bounds DEF IInv, Typed, TypeOK, Holding, Created, Files
<1> QED BY <1>1, Invariance, PTL

\* However many threads, runs, restarts and failures: no sandbox is created
\* beside one that is alive and whose id the session could have stored.
THEOREM SandboxIsOne == Spec => []OneSandbox
<1>1. IInv => OneSandbox
  <2> SUFFICES ASSUME Sole PROVE OneSandbox
    BY DEF IInv
  <2>1. PICK i : Intact \subseteq {i}
    BY DEF Sole
  <2>2. Cardinality({i}) = 1 /\ IsFiniteSet({i}) /\ Cardinality({}) = 0
    BY FS_Singleton, FS_EmptySet
  <2>3. Intact = {} \/ Intact = {i}
    BY <2>1
  <2> QED BY <2>2, <2>3 DEF OneSandbox, Intact
<1> QED BY <1>1, Invariance, PTL

\* For any number of tool threads, keepalive threads, runs and sandboxes, the sandbox
\* follows the runs: the registered assets are in it, as long as no upload has failed and
\* none was created anew ("recreated"); a keepalive looks after it during a run, as long
\* as no run has found it running ("carried") or has met the end or a tool thread of the
\* one before ("crossed"); and nothing is left running behind a run, as long as none was
\* "crossed" and no call has failed or was left over.  KeptAlive and Reuploads show what
\* "carried" and "recreated" cost.
THEOREM SandboxFollows == Spec => []FollowsRuns
<1>1. IInv => AssetsThere
  BY DEF IInv, Typed, Furnished, AssetsThere, Alive, Ids
<1>2. IInv => StartedKeptAlive
  BY DEF IInv, Looked, StartedKeptAlive, Kept
<1>3. IInv => QuietAfterRun
  BY DEF IInv, Orderly, Calm, Ordered, KeptInHand, Leaving, Settled, Running, QuietAfterRun
<1>4. IInv => FollowsRuns
  BY <1>1, <1>2, <1>3 DEF FollowsRuns
<1> QED BY <1>4, Invariance, PTL
=============================================================================
