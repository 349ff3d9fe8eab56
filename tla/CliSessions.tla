----------------------------- MODULE CliSessions -----------------------------
(***************************************************************************)
(* The runner behind the command line (src/nexau/cli/agent_runner.py): the *)
(* thread that reads the commands, the thread of a run, and the files in   *)
(* which sessions outlive both: one manifest, and for each session a       *)
(* checkpoint and a transcript.                                            *)
(*                                                                         *)
(* A thread is what it still has to do.  An interrupted run rebuilds the   *)
(* agent while the runner takes commands again: what is left of it then is *)
(* the thread "old", one at a time.  The history of a session is the       *)
(* sequence of its messages: a user's is a number, the reply to it the     *)
(* negative of it.  The model that is used, the legacy files of one        *)
(* snapshot and what is only shown are left out.                           *)
(***************************************************************************)
EXTENDS SequencesExt, FiniteSetsExt, Integers

CONSTANTS
    Sessions,       \* ids of sessions
    None, Torn,     \* no session or file, and a file that cannot be parsed
    MaxMessages, MaxCommands, MaxAgents, MaxCrashes, MaxFaults,
    MaxEvents,      \* bound on commands, crashes and failing saves together
    TearsFiles,     \* a crash or a failing save may leave a file half written
    Beside,         \* the sessions that another runner of the same user may save
    GoesOn,         \* what happens once the sessions are at risk is followed too
    Compacts        \* a run may replace its history by a summary

CliAssumption == Beside \subseteq Sessions /\ None \notin Sessions /\ Torn \notin Sessions /\ None # Torn

VARIABLES
    manifest,    \* Torn, or the current session and the sessions listed
    checkpoint,  \* the history each session's checkpoint holds, None or Torn
    transcript,  \* the messages each session's transcript holds, with their index
    up,          \* the runner is there
    agents,      \* the agents it has built: session, history, and whether it is usable: not cleaned up
    self,        \* the one it uses, 0 when there is none
    todo,        \* what each thread has to do
    local,       \* what each thread has read or computed
    restored,    \* the snapshot agents are restored from, None when there is none
    cursor,      \* how many messages of a session the runner knows to be in its transcript, -1
    alive,       \* the run's thread is busy
    interrupt, stopped,   \* an interrupt was requested; its result
    told,        \* what the client was told of its run: "response", "interrupted"; "idle" before any
    messages, commands, crashes, faults,
    saved,       \* history: the messages of each session that a completed save has held
    missed,      \* history: the sessions whose last save has failed
    risks        \* history: what has happened that the sessions do not always survive

disk == <<manifest, checkpoint, transcript>>
memory == <<agents, self, restored, cursor, alive, interrupt, stopped, told>>
recorded == <<saved, missed>>
counts == <<messages, commands, crashes, faults, recorded>>
vars == <<disk, up, memory, todo, local, counts, risks>>

Threads == {"main", "run", "old"}
Op(name, arg) == [name |-> name, arg |-> arg]
Events == commands + crashes + faults
-----------------------------------------------------------------------------
(* The files.                                                              *)

Empty == [current |-> None, listed |-> {}]
LoadManifest == IF manifest = Torn THEN Empty ELSE manifest

\* What can be restored of a session: its checkpoint.  The transcript holds no snapshot.
LoadSession(s) ==
    IF s \in LoadManifest.listed /\ checkpoint[s] \notin {None, Torn} THEN [session |-> s, history |-> checkpoint[s]] ELSE None
LoadCurrent ==
    IF LoadManifest.current = None THEN None ELSE LoadSession(LoadManifest.current)

\* Messages the transcript is known to hold: remembered, or those of the checkpoint, or
\* counted in the transcript.
Cursor(s) ==
    IF cursor[s] >= 0 THEN cursor[s]
    ELSE IF checkpoint[s] \notin {None, Torn} THEN Len(checkpoint[s])
    ELSE Max({l.index : l \in transcript[s]} \cup {0})

NewLines(p) ==
    LET from == IF Cursor(p.session) > Len(p.history) THEN 0 ELSE Cursor(p.session)
    IN  [i \in 1..(Len(p.history) - from) |-> [index |-> from + i, message |-> p.history[from + i]]]
-----------------------------------------------------------------------------
(* What the threads do, one step after the other.                          *)

\* Seeded defect: the checkpoint is written before the transcript.
PersistCheckpointFirst == <<Op("snap", None), Op("checkpoint", None), Op("log", None), Op("manifest", None)>>

Persist == <<Op("snap", None), Op("log", None), Op("checkpoint", None), Op("manifest", None)>>

\* The agent before is saved and cleaned up, and a new one is built and restored.
Activate(snapshot, s) == Persist \o <<Op("cleanup", None), Op("restore", snapshot), Op("build", s), Op("history", None)>>

\* Seeded defect: what a run leaves is not saved.
AfterRunUnsaved == <<Op("answer", None), Op("peek", None), Op("reset", None)>>

AfterRun == <<Op("answer", None)>> \o Persist \o <<Op("peek", None), Op("reset", None)>>

Then(t, ops) == todo' = [todo EXCEPT ![t] = ops \o Tail(@)]
Done(t) == Then(t, <<>>)

Init ==
    /\ manifest = Empty /\ checkpoint = [s \in Sessions |-> None] /\ transcript = [s \in Sessions |-> {}]
    /\ up = FALSE /\ agents = <<>> /\ self = 0 /\ restored = None /\ cursor = [s \in Sessions |-> -1]
    /\ todo = [t \in Threads |-> <<>>] /\ local = [t \in Threads |-> None]
    /\ alive = FALSE /\ interrupt = FALSE /\ stopped = FALSE /\ told = {"idle"}
    /\ messages = 0 /\ commands = 0 /\ crashes = 0 /\ faults = 0
    /\ saved = [s \in Sessions |-> {}] /\ missed = {} /\ risks = {}

\* Ids that are not in use: one of them is as good as another.
Fresh == {s \in Sessions \ Beside : checkpoint[s] = None /\ transcript[s] = {} /\ \A i \in DOMAIN agents : agents[i].session # s}

\* The runner starts, for the session it was asked for or else the current one.
Boot(requested) ==
    /\ ~up /\ up' = TRUE
    /\ LET snapshot == IF requested = None THEN LoadCurrent ELSE LoadSession(requested)
           s == IF requested # None THEN requested ELSE IF snapshot = None THEN None ELSE snapshot.session
       IN  /\ s # None \/ Fresh # {}
           /\ todo' = [todo EXCEPT !["main"] = <<Op("restore", snapshot), Op("build", s), Op("history", None)>> \o Persist]
    /\ UNCHANGED <<disk, memory, local, counts>>

\* save: the payload and the manifest are read first.
Snap(t) ==
    /\ todo[t][1].name = "snap"
    /\ local' = [local EXCEPT ![t] = [session |-> agents[self].session, history |-> agents[self].history, manifest |-> LoadManifest]]
    /\ Done(t)
    /\ UNCHANGED <<disk, up, memory, counts>>

Log(t) ==
    /\ todo[t][1].name = "log"
    /\ transcript' = [transcript EXCEPT ![local[t].session] = @ \cup ToSet(NewLines(local[t]))]
    /\ cursor' = [cursor EXCEPT ![local[t].session] = Cursor(local[t].session)]
    /\ Done(t)
    /\ UNCHANGED <<manifest, checkpoint, up, agents, self, restored, alive, interrupt, stopped, told, local, counts>>

WriteCheckpoint(t) ==
    /\ todo[t][1].name = "checkpoint"
    /\ checkpoint' = [checkpoint EXCEPT ![local[t].session] = local[t].history]
    /\ cursor' = [cursor EXCEPT ![local[t].session] = Len(local[t].history)]
    /\ Done(t)
    /\ UNCHANGED <<manifest, transcript, up, agents, self, restored, alive, interrupt, stopped, told, local, counts>>

\* Seeded defect: only the session that is saved is listed.
EntriesOfOne(loaded, s) == [current |-> s, listed |-> {s}]

Entries(loaded, s) == [current |-> s, listed |-> loaded.listed \cup {s}]

WriteManifest(t) ==
    /\ todo[t][1].name = "manifest"
    /\ manifest' = Entries(local[t].manifest, local[t].session)
    /\ saved' = [saved EXCEPT ![local[t].session] = @ \cup ToSet(local[t].history)]
    /\ missed' = missed \ {local[t].session}
    /\ Done(t)
    /\ UNCHANGED <<checkpoint, transcript, up, memory, local, messages, commands, crashes, faults>>

\* A write that does not come to its end leaves a log with some of its lines and, when files
\* tear, any other file cut short.
CutShort(threads) ==
    LET At(name) == {t \in threads : todo[t] # <<>> /\ todo[t][1].name = name}
    IN  /\ \E t \in threads :
            IF At("log") = {} THEN UNCHANGED transcript
            ELSE /\ t \in At("log")
                 /\ \E k \in 0..Len(NewLines(local[t])) :
                        transcript' = [transcript EXCEPT ![local[t].session] = @ \cup ToSet(SubSeq(NewLines(local[t]), 1, k))]
        /\ \E torn \in SUBSET (IF TearsFiles THEN At("checkpoint") ELSE {}) :
            checkpoint' = [s \in Sessions |-> IF \E t \in torn : local[t].session = s THEN Torn ELSE checkpoint[s]]
        /\ manifest' \in {manifest} \cup (IF TearsFiles /\ At("manifest") # {} THEN {Torn} ELSE {})

\* A step of a save that fails is logged, and the rest of the save is skipped.  The cursor is
\* set before the lines are written, and behind the checkpoint.
Saving == {"log", "checkpoint", "manifest"}
SaveFails(t) ==
    /\ todo[t] # <<>> /\ todo[t][1].name \in Saving /\ faults < MaxFaults /\ Events < MaxEvents
    /\ faults' = faults + 1
    /\ LET rest == {i \in DOMAIN todo[t] : \A j \in 1..i : todo[t][j].name \in Saving}
       IN  todo' = [todo EXCEPT ![t] = SubSeq(@, Max(rest) + 1, Len(@))]
    /\ CutShort({t})
    /\ cursor' = IF todo[t][1].name = "log" THEN [cursor EXCEPT ![local[t].session] = Cursor(local[t].session)] ELSE cursor
    /\ missed' = missed \cup {local[t].session}
    /\ UNCHANGED <<up, agents, self, restored, alive, interrupt, stopped, told, local, messages, commands, crashes, saved>>

Cleanup(t) ==
    /\ todo[t][1].name = "cleanup"
    /\ agents' = [agents EXCEPT ![self].usable = FALSE]
    /\ Done(t)
    /\ UNCHANGED <<disk, up, self, restored, cursor, alive, interrupt, stopped, told, local, counts>>

Restore(t) ==
    /\ todo[t][1].name = "restore"
    /\ restored' = todo[t][1].arg
    /\ Done(t)
    /\ UNCHANGED <<disk, up, agents, self, cursor, alive, interrupt, stopped, told, local, counts>>

Build(t) ==
    /\ todo[t][1].name = "build"
    /\ LET s == IF todo[t][1].arg = None THEN CHOOSE f \in Fresh : TRUE ELSE todo[t][1].arg
       IN  agents' = Append(agents, [session |-> s, history |-> <<>>, usable |-> TRUE])
    /\ self' = Len(agents')
    /\ Done(t)
    /\ UNCHANGED <<disk, up, restored, cursor, alive, interrupt, stopped, told, local, counts>>

\* The new agent takes the history of the snapshot, whichever that is by now.
RestoreHistory(t) ==
    /\ todo[t][1].name = "history"
    /\ agents' = IF restored = None THEN agents ELSE [agents EXCEPT ![self].history = IF restored.history = <<>> THEN @ ELSE restored.history]
    /\ Done(t)
    /\ UNCHANGED <<disk, up, self, restored, cursor, alive, interrupt, stopped, told, local, counts>>

Save(t) == Snap(t) \/ Log(t) \/ WriteCheckpoint(t) \/ WriteManifest(t)
Activation(t) == Cleanup(t) \/ Restore(t) \/ Build(t) \/ RestoreHistory(t)
-----------------------------------------------------------------------------
(* The commands, taken one at a time by the main thread.                   *)

Free == up /\ todo["main"] = <<>> /\ commands < MaxCommands /\ Events < MaxEvents
Room == Len(agents) + 1 < MaxAgents
Take(ops) ==
    /\ commands' = commands + 1
    /\ todo' = [todo EXCEPT !["main"] = ops]
    /\ UNCHANGED <<disk, up, local, crashes, faults, recorded>>

\* A message is refused while a run is busy.
Message ==
    /\ Free /\ ~alive /\ messages < MaxMessages
    /\ messages' = messages + 1
    /\ alive' = TRUE /\ interrupt' = FALSE /\ stopped' = FALSE /\ told' = {}
    /\ commands' = commands + 1
    /\ todo' = [todo EXCEPT !["run"] = <<Op("begin", messages'), Op("run", messages')>> \o AfterRun]
    /\ UNCHANGED <<disk, up, agents, self, restored, cursor, local, crashes, faults, recorded>>

New ==
    /\ Free /\ ~alive /\ Room /\ Fresh # {}
    /\ Take(Activate(None, None) \o <<Op("restore", None)>> \o Persist)
    /\ UNCHANGED <<memory, messages>>

\* A session that cannot be loaded is refused.
Use(s) ==
    /\ Free /\ ~alive /\ Room /\ LoadSession(s) # None
    /\ Take(Activate(LoadSession(s), s) \o Persist)
    /\ UNCHANGED <<memory, messages>>

\* Another model is used by an agent restored from what has just been saved.
Switch ==
    /\ Free /\ ~alive /\ Room
    /\ Take(Persist \o <<Op("reload", None)>> \o Persist)
    /\ UNCHANGED <<memory, messages>>

List == Free /\ ~alive /\ Take(Persist) /\ UNCHANGED <<memory, messages>>

Interrupt ==
    /\ Free /\ alive
    /\ interrupt' = TRUE
    /\ Take(<<Op("stop", None), Op("result", None), Op("join", None)>>)
    /\ UNCHANGED <<agents, self, restored, cursor, alive, stopped, told, messages>>

Exit ==
    /\ Free
    /\ interrupt' = (interrupt \/ alive)
    /\ Take((IF alive THEN <<Op("stop", None), Op("result", None), Op("join", None)>> ELSE <<>>) \o Persist \o <<Op("cleanup", None), Op("exit", None)>>)
    /\ UNCHANGED <<agents, self, restored, cursor, alive, stopped, told, messages>>

\* The agent is stopped by force: its executor is cleaned up, and the run is not waited for.
Stop ==
    /\ todo["main"][1].name = "stop"
    /\ agents' = [agents EXCEPT ![self].usable = FALSE]
    /\ Done("main")
    /\ UNCHANGED <<disk, up, self, restored, cursor, alive, interrupt, stopped, told, local, counts>>

StopResult ==
    /\ todo["main"][1].name = "result"
    /\ stopped' = TRUE
    /\ Done("main")
    /\ UNCHANGED <<disk, up, agents, self, restored, cursor, alive, interrupt, told, local, counts>>

\* The wait for the run ends with it or with its time, whatever the run still does.
Join ==
    /\ todo["main"][1].name = "join"
    /\ Done("main")
    /\ UNCHANGED <<disk, up, memory, local, counts>>

\* The process goes, and a run that is left with it.
Gone ==
    /\ up' = FALSE /\ agents' = <<>> /\ self' = 0 /\ restored' = None /\ cursor' = [s \in Sessions |-> -1]
    /\ todo' = [t \in Threads |-> <<>>] /\ local' = [t \in Threads |-> None]
    /\ alive' = FALSE /\ interrupt' = FALSE /\ stopped' = FALSE /\ told' = {"idle"}
Leave ==
    /\ todo["main"][1].name = "exit"
    /\ Gone
    /\ UNCHANGED <<disk, counts>>

\* The agent is replaced by one restored from the session's snapshot, when there is one.
Reload(t) ==
    /\ todo[t][1].name = "reload"
    /\ LET s == agents[self].session
       IN  Then(t, IF LoadSession(s) = None THEN <<>> ELSE Activate(LoadSession(s), s))
    /\ UNCHANGED <<disk, up, memory, local, counts>>
-----------------------------------------------------------------------------
(* The run.                                                                *)

\* The message is handed to the agent there is when the thread comes to run.
Begin ==
    /\ todo["run"][1].name = "begin"
    /\ local' = [local EXCEPT !["run"] = self]
    /\ agents' = [agents EXCEPT ![self].history = Append(@, todo["run"][1].arg)]
    /\ Done("run")
    /\ UNCHANGED <<disk, up, self, restored, cursor, alive, interrupt, stopped, told, counts>>

\* The agent's run ends with a reply, unless it was stopped.
Reply ==
    /\ todo["run"][1].name = "run"
    /\ LET m == todo["run"][1].arg  i == local["run"]
       IN  \E reply \in IF agents[i].usable THEN {<<-m>>} ELSE {<<>>, <<-m>>} :
           \E history \in {agents[i].history \o reply} \cup (IF Compacts THEN {<<-m>>} ELSE {}) :
                agents' = [agents EXCEPT ![i].history = history]
    /\ Done("run")
    /\ UNCHANGED <<disk, up, self, restored, cursor, alive, interrupt, stopped, told, local, counts>>

Answer ==
    /\ todo["run"][1].name = "answer"
    /\ told' = IF interrupt THEN told ELSE told \cup {"response"}
    /\ Done("run")
    /\ UNCHANGED <<disk, up, agents, self, restored, cursor, alive, interrupt, stopped, local, counts>>

\* The result of an interrupt is looked at before the lock is taken.
Peek ==
    /\ todo["run"][1].name = "peek"
    /\ local' = [local EXCEPT !["run"] = stopped]
    /\ Done("run")
    /\ UNCHANGED <<disk, up, memory, counts>>

\* The runner is free for the next command before the agent is rebuilt.
Rebuild == <<Op("reload", None), Op("interrupted", None)>>
Reset ==
    /\ todo["run"][1].name = "reset"
    /\ alive' = FALSE /\ interrupt' = FALSE /\ stopped' = FALSE
    /\ local["run"] => todo["old"] = <<>>
    /\ todo' = [todo EXCEPT !["run"] = <<>>, !["old"] = IF local["run"] THEN Rebuild ELSE @]
    /\ UNCHANGED <<disk, up, agents, self, restored, cursor, told, local, counts>>

TellInterrupted ==
    /\ todo["old"][1].name = "interrupted"
    /\ told' = told \cup {"interrupted"}
    /\ Done("old")
    /\ UNCHANGED <<disk, up, agents, self, restored, cursor, alive, interrupt, stopped, local, counts>>
-----------------------------------------------------------------------------
(* The environment.                                                        *)

\* The process dies, and cuts short what is being written.
Crash ==
    /\ up /\ crashes < MaxCrashes /\ Events < MaxEvents /\ crashes' = crashes + 1
    /\ Gone
    /\ CutShort(Threads)
    /\ UNCHANGED <<messages, commands, faults, recorded>>

\* Another runner of the same user and configuration saves a session of its own.
Neighbour ==
    /\ \E s \in {b \in Beside : checkpoint[b] = None} :
        /\ messages < MaxMessages /\ messages' = messages + 1
        /\ manifest' = Entries(LoadManifest, s)
        /\ checkpoint' = [checkpoint EXCEPT ![s] = <<messages'>>]
        /\ transcript' = [transcript EXCEPT ![s] = {[index |-> 1, message |-> messages']}]
        /\ saved' = [saved EXCEPT ![s] = {messages'}]
    /\ UNCHANGED <<up, memory, todo, local, commands, crashes, faults, missed>>

MainStep == todo["main"] # <<>> /\ (Save("main") \/ Activation("main") \/ Reload("main") \/ Stop \/ StopResult \/ Join \/ Leave)
RunStep == todo["run"] # <<>> /\ (Begin \/ Save("run") \/ Reply \/ Answer \/ Peek \/ Reset)
RebuildStep == todo["old"] # <<>> /\ (Save("old") \/ Activation("old") \/ Reload("old") \/ TellInterrupted)

\* An interrupt has waited long enough for a run, or for the rebuild behind one, which goes on
\* beside what follows: it works on the agent and the files, and no lock is held for them.
Waiting == todo["main"] = <<>> \/ todo["main"][1].name \in {"stop", "result", "join"}
ShutdownMeetsRun == todo["run"] # <<>> /\ ~Waiting
RebuildMeets == todo["old"] # <<>> /\ (alive \/ ~Waiting)

\* A save of this runner has read the manifest and is to write it.
Writing == \E t \in Threads : todo[t] # <<>> /\ todo[t][1].name \in Saving

\* An agent is to be restored from a snapshot that was read behind a failed save of its
\* session, and the session is saved once more in between.
Stale ==
    \E t \in Threads : todo[t] # <<>> /\ todo[t][1].name = "snap" /\ \E i \in DOMAIN todo[t] :
        todo[t][i].name = "restore" /\ todo[t][i].arg # None /\ todo[t][i].arg.session \in missed

\* What has happened that the sessions do not always survive: a shutdown beside
\* a run, a rebuild beside a command or a run, a snapshot from before a failed save, a file cut
\* short, and another runner's save inside one of this runner's.
Notes ==
    risks' = risks \cup (IF ShutdownMeetsRun' THEN {"shutdown"} ELSE {})
        \cup (IF RebuildMeets' THEN {"rebuild"} ELSE {}) \cup (IF Stale' THEN {"stale"} ELSE {})
        \cup (IF manifest' = Torn \/ \E s \in Sessions : checkpoint'[s] = Torn THEN {"torn"} ELSE {})

Next ==
    \/ /\ \/ \E requested \in (Sessions \ Beside) \cup LoadManifest.listed \cup {None} : Boot(requested)
          \/ Message
          \/ New
          \/ \E s \in Sessions : Use(s)
          \/ Switch
          \/ List
          \/ Interrupt
          \/ Exit
          \/ MainStep
          \/ RunStep
          \/ RebuildStep
          \/ \E t \in Threads : SaveFails(t)
          \/ Crash
       /\ Notes
       /\ risks = {} \/ GoesOn
    \/ Neighbour /\ risks' = risks \cup (IF Writing THEN {"neighbour"} ELSE {}) /\ (risks = {} \/ GoesOn)

Spec == Init /\ [][Next]_vars
-----------------------------------------------------------------------------
(* What the runner promises.                                               *)

TypeOK ==
    /\ up \in BOOLEAN /\ self \in 0..Len(agents) /\ alive \in BOOLEAN
    /\ \A s \in Sessions : checkpoint[s] \in {None, Torn} \cup Seq(Int) /\ cursor[s] \in Int
    /\ told \subseteq {"idle", "response", "interrupted"}

\* Each message that was in a session when it was saved can be resumed, and no message of
\* another session is in it.
Kept ==
    \A s \in Sessions :
        /\ saved[s] # {} => LoadSession(s) # None /\ saved[s] \subseteq ToSet(LoadSession(s).history)
        /\ LoadSession(s) # None => \A r \in Sessions \ {s} : saved[r] \cap ToSet(LoadSession(s).history) = {}

\* "Session preserved" (agent_runner.py:1608): the sessions are kept whatever commands,
\* interrupts, crashes, failing saves and runners beside this one there are, as long as no
\* run, or rebuild behind one, has gone on beside a later command, no agent was restored from
\* a snapshot read behind a failed save of its session, no file was cut short and no other
\* runner has saved between this one's reading and writing the manifest.
SessionsKept == risks = {} => Kept

\* What each of these does to them.
KeptOverShutdown == risks \subseteq {"shutdown"} => Kept
KeptOverRebuild == risks \subseteq {"rebuild"} => Kept
KeptOverStale == risks \subseteq {"stale"} => Kept
KeptOverTearing == risks \subseteq {"torn"} => Kept
KeptOverNeighbour == risks \subseteq {"neighbour"} => Kept

\* The transcript holds all that a completed save has held, although it is only ever
\* appended to, from where the checkpoint or the runner says it ends.
TranscriptKeeps == risks = {} => \A s \in Sessions : saved[s] \subseteq {l.message : l \in transcript[s]}

\* When nothing is under way, and the session's last save has not failed, what can be resumed
\* is what the agent remembers.
RestIsSaved ==
    risks = {} /\ up /\ (\A t \in Threads : todo[t] = <<>>) /\ agents[self].session \notin missed =>
        LoadSession(agents[self].session) = [session |-> agents[self].session, history |-> agents[self].history]

\* The client of a run that is over was told of its end: its response, or that it was
\* interrupted (agent_runner.py:1608-1616).
EndIsTold == up /\ ~alive /\ todo["old"] = <<>> => told # {}
==============================================================================
