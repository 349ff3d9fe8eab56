----------------------------- MODULE Permissions -----------------------------
(***************************************************************************)
(* Tool calls that need the user's consent (docs: rfcs/0019): how a call   *)
(* that asks ends the run, how the decisions reach the session's           *)
(* pending_tool_calls, and how the next run resumes the decided calls      *)
(* (src/nexau/archs/main_sub/agent.py, execution/executor.py and           *)
(* session/session_manager.py).                                            *)
(*                                                                         *)
(* One row of the session holds the pending calls of all its agents and is *)
(* read and written as a whole, across awaits.  A history is a sequence of *)
(* entries; disk is what a process that restarts finds of it.  A synthetic *)
(* result is a part of the entry whose call it answers.                    *)
(***************************************************************************)
EXTENDS SequencesExt, Integers

CONSTANTS
    Agents,       \* the agents that share a session
    Resolvers,    \* users' windows that decide
    Calls,        \* the tool calls the model may ever make
    KeysOf,       \* the permission keys each call needs, in the order it asks for them
    Refused,      \* keys with a deny rule
    MaxQuestions, \* bound on the runs that bring a message
    MaxRestarts   \* bound on crashes and on sessions opened anew

Decisions == {"allow", "allow_once", "deny"}
NoCall == "none"

ASSUME PermissionsAssumption ==
    /\ DOMAIN KeysOf = Calls /\ \A c \in Calls : KeysOf[c] \in Seq(Range(KeysOf[c])) \ {<<>>}
    /\ NoCall \notin Calls
    /\ MaxQuestions \in Nat /\ MaxRestarts \in Nat

VARIABLES
    pending,    \* sessions.pending_tool_calls: call -> [decision, consumed]
    allowed,    \* the keys with an allow rule in permission_rules
    pc,         \* where each agent's run is
    snapshot,   \* the pending calls it read at its start
    cache,      \* the allow rules it loaded
    turn,       \* the calls of the answer it works on
    memory,     \* its history in memory
    disk,       \* its history in the log
    window,     \* what each resolver is doing: [call, decision, read]
    budget,     \* questions and restarts still to come
    runs,       \* history: how often each call was executed
    consent,    \* history: the decisions that were returned for each call
    interrupted,\* history: the calls whose execution a crash cut off from its mark
    made        \* history: the calls the model has made

session == <<pending, allowed>>
local == <<pc, snapshot, cache, turn, memory>>
history == <<runs, consent, interrupted, made>>
vars == <<session, local, disk, window, budget, history>>

Entry(type, calls) == [type |-> type, calls |-> calls, synthetic |-> {}]
Answers(m) == m.synthetic \cup IF m.type = "result" THEN m.calls ELSE {}
CallsIn(ms) == {c \in Calls : \E i \in DOMAIN ms : ms[i].type = "calls" /\ c \in ms[i].calls}
AnsweredIn(ms) == {c \in Calls : \E i \in DOMAIN ms : c \in Answers(ms[i])}
KeySet(c) == Range(KeysOf[c])

Init ==
    /\ pending = <<>> /\ allowed = {}
    /\ pc = [a \in Agents |-> "idle"] /\ snapshot = [a \in Agents |-> <<>>]
    /\ cache = [a \in Agents |-> {}] /\ turn = [a \in Agents |-> {}]
    /\ memory = [a \in Agents |-> <<>>] /\ disk = [a \in Agents |-> <<>>]
    /\ window = [r \in Resolvers |-> [call |-> NoCall, decision |-> "deny", read |-> <<>>]]
    /\ budget = [questions |-> MaxQuestions, restarts |-> MaxRestarts]
    /\ runs = [c \in Calls |-> 0] /\ consent = [c \in Calls |-> {}] /\ interrupted = {} /\ made = {}

Spend(kind) == budget[kind] > 0 /\ budget' = [budget EXCEPT ![kind] = @ - 1]
Goto(a, to) == pc' = [pc EXCEPT ![a] = to]
Write(a, entries) == memory' = [memory EXCEPT ![a] = @ \o entries]

Undecided(p) == {c \in DOMAIN p : p[c].decision = "none"}

------------------------------------------------------------------------------
(* A run up to its first request *)

\* Seeded defect: the log is taken as it is.
RestoredRaw(a) == IF memory[a] # <<>> THEN memory[a] ELSE disk[a]

\* The history a run finds: the one in memory, or the one the log gives back,
\* where a call without a result gets a synthetic one behind it.
Healed(m, answered) == IF m.type = "calls" THEN [m EXCEPT !.synthetic = m.calls \ answered] ELSE m
Restored(a) ==
    IF memory[a] # <<>> THEN memory[a]
    ELSE [i \in DOMAIN disk[a] |-> Healed(disk[a][i], AnsweredIn(disk[a]))]

\* What a flush makes durable: a synthetic result is part of the baseline the
\* history was loaded with, and is never written.
Flushed(a) == [disk EXCEPT ![a] = [i \in DOMAIN memory[a] |-> [memory[a][i] EXCEPT !.synthetic = {}]]]

\* _run_async_inner: refused while a call is undecided (PendingPermissionsError);
\* the question, if there is one, is appended before anything is resumed.
Start(a, question) ==
    /\ pc[a] = "idle"
    /\ Undecided(pending) = {}
    /\ IF question THEN Spend("questions") ELSE UNCHANGED budget
    /\ Goto(a, "saving")
    /\ snapshot' = [snapshot EXCEPT ![a] = pending]
    /\ memory' = [memory EXCEPT ![a] = Restored(a) \o IF question THEN <<Entry("question", {})>> ELSE <<>>]
    /\ UNCHANGED <<session, cache, turn, disk, window, history>>

\* The awaited flush of the question.
Save(a) ==
    /\ pc[a] = "saving"
    /\ disk' = Flushed(a)
    /\ Goto(a, IF snapshot[a] = <<>> THEN "preparing" ELSE "resuming")
    /\ UNCHANGED <<session, snapshot, cache, turn, memory, window, budget, history>>

\* The keys a resumed call may use: all of them for "allow", the one that was
\* asked for for "allow_once".
Granted(c, asked) == IF asked.decision = "allow" THEN KeySet(c) ELSE {asked.key}

\* Seeded defect: denied calls are executed as well.
ResumeAny(a, c) ==
    /\ pc[a] = "resuming" /\ c \in DOMAIN snapshot[a] /\ ~snapshot[a][c].consumed
    /\ runs' = [runs EXCEPT ![c] = @ + 1]
    /\ Write(a, <<Entry("result", {c})>>)
    /\ Goto(a, "marking") /\ turn' = [turn EXCEPT ![a] = {c}]
    /\ UNCHANGED <<session, snapshot, cache, disk, window, budget, consent, interrupted, made>>

\* _resume_pending_tool_calls, one entry: a denied call gets a result that says
\* so; an allowed one is called again, and one that asks again is an error.
Resume(a, c) ==
    /\ pc[a] = "resuming" /\ c \in DOMAIN snapshot[a] /\ ~snapshot[a][c].consumed
    /\ runs' = IF snapshot[a][c].decision # "deny" /\ KeySet(c) \subseteq Granted(c, snapshot[a][c])
               THEN [runs EXCEPT ![c] = @ + 1] ELSE runs
    /\ Write(a, <<Entry("result", {c})>>)
    /\ Goto(a, "marking") /\ turn' = [turn EXCEPT ![a] = {c}]
    /\ UNCHANGED <<session, snapshot, cache, disk, window, budget, consent, interrupted, made>>

\* Seeded defect: the mark stays in memory.
MarkInMemory(a) ==
    /\ pc[a] = "marking"
    /\ snapshot' = [snapshot EXCEPT ![a] = [c \in DOMAIN @ |-> IF c \in turn[a] THEN [@[c] EXCEPT !.consumed = TRUE] ELSE @[c]]]
    /\ Goto(a, "resuming")
    /\ UNCHANGED <<session, cache, turn, memory, disk, window, budget, history>>

\* The entry is marked as consumed and the whole map written back.
Mark(a) ==
    /\ pc[a] = "marking"
    /\ snapshot' = [snapshot EXCEPT ![a] = [c \in DOMAIN @ |-> IF c \in turn[a] THEN [@[c] EXCEPT !.consumed = TRUE] ELSE @[c]]]
    /\ pending' = snapshot'[a]
    /\ Goto(a, "resuming")
    /\ UNCHANGED <<allowed, cache, turn, memory, disk, window, budget, history>>

\* All entries consumed: the column is cleared.
Clear(a) ==
    /\ pc[a] = "resuming" /\ \A c \in DOMAIN snapshot[a] : snapshot[a][c].consumed
    /\ pending' = <<>>
    /\ snapshot' = [snapshot EXCEPT ![a] = <<>>]
    /\ Goto(a, "flushing")
    /\ UNCHANGED <<allowed, cache, turn, memory, disk, window, budget, history>>

\* The flush behind the resumed calls and the one at the end of a run.
Flush(a) ==
    /\ pc[a] \in {"flushing", "ending"}
    /\ disk' = Flushed(a)
    /\ Goto(a, IF pc[a] = "flushing" THEN "preparing" ELSE "idle")
    /\ turn' = [turn EXCEPT ![a] = {}]
    /\ UNCHANGED <<session, snapshot, cache, memory, window, budget, history>>

\* _build_permission_cache_async.
Prepare(a) ==
    /\ pc[a] = "preparing"
    /\ cache' = [cache EXCEPT ![a] = allowed]
    /\ Goto(a, "asking")
    /\ UNCHANGED <<session, snapshot, turn, memory, disk, window, budget, history>>

------------------------------------------------------------------------------
(* The model and its tool calls *)

\* The model is asked and answers with calls that no answer had before, or with
\* none, which ends the run.
Ask(a, cs) ==
    /\ pc[a] = "asking"
    /\ cs \cap made = {} /\ made' = made \cup cs
    /\ turn' = [turn EXCEPT ![a] = cs]
    /\ Goto(a, IF cs = {} THEN "ending" ELSE "calling")
    /\ Write(a, IF cs = {} THEN <<>> ELSE <<Entry("calls", cs)>>)
    /\ UNCHANGED <<session, snapshot, cache, disk, window, budget, runs, consent, interrupted>>

\* The first key of a call that no rule lets through, as its tool finds it.
Asks(a, c) == KeySet(c) \cap Refused = {} /\ ~KeySet(c) \subseteq cache[a]
AskedKey(a, c) == KeysOf[c][CHOOSE i \in DOMAIN KeysOf[c] :
    KeysOf[c][i] \notin cache[a] /\ \A j \in 1..i - 1 : KeysOf[c][j] \in cache[a]]

\* The calls run side by side: those with a deny rule get an error, those the
\* rules allow are executed; those that ask have no result and end the run.
Execute(a) ==
    LET asking == {c \in turn[a] : Asks(a, c)}
        answered == turn[a] \ asking
    IN  /\ pc[a] = "calling"
        /\ runs' = [c \in Calls |-> runs[c] + IF c \in answered /\ KeySet(c) \cap Refused = {} THEN 1 ELSE 0]
        /\ Write(a, IF answered = {} THEN <<>> ELSE <<Entry("result", answered)>>)
        /\ turn' = [turn EXCEPT ![a] = asking]
        /\ Goto(a, IF asking = {} THEN "saved" ELSE "posting")
        /\ UNCHANGED <<session, snapshot, cache, disk, window, budget, consent, interrupted, made>>

\* An iteration without an ask is flushed and the model is asked again.
Iterate(a) ==
    /\ pc[a] = "saved"
    /\ disk' = Flushed(a)
    /\ Goto(a, "asking")
    /\ UNCHANGED <<session, snapshot, cache, turn, memory, window, budget, history>>

\* The asks replace what the column holds, and the run ends.
Post(a) ==
    /\ pc[a] = "posting"
    /\ pending' = [c \in turn[a] |-> [decision |-> "none", key |-> AskedKey(a, c), consumed |-> FALSE]]
    /\ Goto(a, "ending")
    /\ UNCHANGED <<allowed, snapshot, cache, turn, memory, disk, window, budget, history>>

------------------------------------------------------------------------------
(* The user's decisions *)

\* resolve_permission reads the column.  Windows show the calls that are
\* undecided.
Read(r, c, d) ==
    /\ window[r].call = NoCall
    /\ c \in Undecided(pending)
    /\ window' = [window EXCEPT ![r] = [call |-> c, decision |-> d, read |-> pending]]
    /\ UNCHANGED <<session, local, disk, budget, history>>

\* "allow" is remembered as a rule, before the decision is written.
SaveRule(r) ==
    LET w == window[r]
    IN  /\ w.call # NoCall /\ w.decision = "allow" /\ w.read[w.call].key \notin allowed
        /\ allowed' = allowed \cup {w.read[w.call].key}
        /\ UNCHANGED <<pending, local, disk, window, budget, history>>

\* Seeded defect: the decision is never written.
DecideNothing(r) ==
    LET w == window[r]
    IN  /\ w.call # NoCall
        /\ w.decision = "allow" => w.read[w.call].key \in allowed
        /\ pending' = w.read
        /\ consent' = [consent EXCEPT ![w.call] = @ \cup {w.decision}]
        /\ window' = [window EXCEPT ![r].call = NoCall, ![r].read = <<>>]
        /\ UNCHANGED <<allowed, local, disk, budget, runs, interrupted, made>>

\* The whole map that was read is written back with the decision in it.
Decide(r) ==
    LET w == window[r]
    IN  /\ w.call # NoCall
        /\ w.decision = "allow" => w.read[w.call].key \in allowed
        /\ pending' = [w.read EXCEPT ![w.call].decision = w.decision]
        /\ consent' = [consent EXCEPT ![w.call] = @ \cup {w.decision}]
        /\ window' = [window EXCEPT ![r].call = NoCall, ![r].read = <<>>]
        /\ UNCHANGED <<allowed, local, disk, budget, runs, interrupted, made>>

------------------------------------------------------------------------------
(* Restarts *)

\* The process ends, at rest or in the middle of a run: memory is gone.
Restart ==
    /\ Spend("restarts")
    /\ pc' = [a \in Agents |-> "idle"] /\ snapshot' = [a \in Agents |-> <<>>]
    /\ cache' = [a \in Agents |-> {}] /\ turn' = [a \in Agents |-> {}]
    /\ memory' = [a \in Agents |-> <<>>]
    /\ window' = [r \in Resolvers |-> [call |-> NoCall, decision |-> "deny", read |-> <<>>]]
    /\ interrupted' = interrupted \cup UNION {turn[a] : a \in {b \in Agents : pc[b] = "marking"}}
    /\ UNCHANGED <<session, disk, runs, consent, made>>

RunStep(a) ==
    \/ Save(a) \/ Mark(a) \/ Clear(a) \/ Flush(a) \/ Prepare(a) \/ Execute(a) \/ Iterate(a) \/ Post(a)
    \/ \E c \in Calls : Resume(a, c)

Next ==
    \/ \E a \in Agents :
        \/ RunStep(a)
        \/ \E question \in BOOLEAN : Start(a, question)
        \/ \E cs \in SUBSET Calls : Ask(a, cs)
    \/ \E r \in Resolvers :
        \/ \E c \in Calls, d \in Decisions : Read(r, c, d)
        \/ SaveRule(r) \/ Decide(r)
    \/ Restart

\* A run that goes on takes its next step; the model answers; the user decides
\* in the end, and starts a run when nothing is undecided.
Spec ==
    /\ Init /\ [][Next]_vars
    /\ \A a \in Agents :
        /\ WF_vars(RunStep(a)) /\ WF_vars(\E cs \in SUBSET Calls : Ask(a, cs))
        /\ WF_vars(Start(a, FALSE))
    /\ \A r \in Resolvers :
        /\ WF_vars(\E c \in Calls, d \in Decisions : Read(r, c, d))
        /\ WF_vars(SaveRule(r) \/ Decide(r))

------------------------------------------------------------------------------
(* Properties *)

\* The types, and how the row goes with the places of the runs.
TypeOK ==
    /\ pc \in [Agents -> {"idle", "saving", "resuming", "marking", "flushing", "preparing", "asking",
                          "calling", "saved", "posting", "ending"}]
    /\ DOMAIN pending \subseteq Calls
    /\ \A c \in DOMAIN pending :
        /\ pending[c].decision \in Decisions \cup {"none"}
        /\ pending[c].key \in KeySet(c) /\ pending[c].consumed \in BOOLEAN
        /\ pending[c].consumed => pending[c].decision # "none"
    /\ runs \in [Calls -> Nat] /\ consent \in [Calls -> SUBSET Decisions]

\* A call that had to ask is executed only if a decision to allow it was
\* returned for it, or by the rules; a call that was only ever denied never.
NoRunWithoutConsent ==
    \A c \in Calls : runs[c] > 0 =>
        \/ KeySet(c) \subseteq allowed
        \/ consent[c] \cap {"allow", "allow_once"} # {}

\* rfcs/0019:388: what was resumed is not executed again, except a call whose
\* execution a crash cut off from its mark.
RepeatedOnlyIfInterrupted == \A c \in Calls : runs[c] > 1 => c \in interrupted

\* rfcs/0019:225: the model never sees a history with a call that has no result.
ModelSeesResults == \A a \in Agents : pc[a] = "asking" => CallsIn(memory[a]) \subseteq AnsweredIn(memory[a])

\* A call that has asked is decided, resumed and answered in the end, whatever
\* restarts: the session does not stay blocked.
EveryAskAnswered ==
    \A a \in Agents, c \in Calls :
        (c \in DOMAIN pending /\ c \in CallsIn(disk[a]))
            ~> (c \notin DOMAIN pending /\ c \in AnsweredIn(memory[a]))

\* rfcs/0019:241: "One tool_use has exactly one ToolResult, for ever".
OneResult ==
    \A a \in Agents, c \in Calls :
        Cardinality({i \in DOMAIN memory[a] : c \in Answers(memory[a][i])}) <= 1

\* rfcs/0019:335: what has been decided keeps its decision.
DecisionKept ==
    [][\A c \in DOMAIN pending \cap DOMAIN pending' :
        pending[c].decision # "none" => pending'[c].decision = pending[c].decision]_vars

-----------------------------------------------------------------------------
(* A small instance: one call needs a key, one the same key and a second one, *)
(* and one a key with a deny rule.                                            *)
SmallKeysOf == [c1 |-> <<"k1">>, c2 |-> <<"k1", "k2">>, c3 |-> <<"k3">>]
==============================================================================
