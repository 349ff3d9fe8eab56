------------------------------- MODULE AgentLock -------------------------------
(***************************************************************************)
(* The lease lock that admits one run of an agent at a time                *)
(* (src/nexau/archs/session/agent_lock_service.py).                        *)
(*                                                                         *)
(* The module follows one (session_id, agent_id) pair: its row in the      *)
(* agent-lock table and the attempts to run the agent.  Every attempt is a *)
(* call of acquire() with a holder id of its own, so an attempt is used    *)
(* once.  Each call of the database engine is one transaction and one      *)
(* action here; between two of them any other attempt may run.  A read and *)
(* the use of what was read are two actions, because the awaiting task is  *)
(* resumed some time after the read.                                       *)
(*                                                                         *)
(* Time is discrete.  Lag bounds what the lease relies on and the code     *)
(* cannot enforce: an acquire() takes at most Lag from its first clock     *)
(* reading to its insert, and a heartbeat at most Lag from the moment its  *)
(* sleep is due to the commit of its update.                               *)
(***************************************************************************)
EXTENDS Integers, TLC

CONSTANTS
    Runs,         \* attempts to run the agent (holder ids)
    NoRun,        \* holder of the absent row
    TTL,          \* lock_ttl
    HBInterval,   \* heartbeat_interval
    Lag,          \* scheduling and database delay, see above
    MaxTime,      \* bound on the clock
    MaxCrashes,   \* bound on the processes that die
    MaxFaults,    \* bound on the engine calls that raise
    MaxForced     \* bound on the calls of force_release from outside

\* The constructor refuses heartbeat_interval >= lock_ttl / 2.
ASSUME CtorAssumption ==
    /\ TTL \in Nat /\ HBInterval \in Nat
    /\ 2 * HBInterval < TTL

\* The delay the lease tolerates: with the defaults (30 s and 10 s), 6.6 s.
ASSUME LagAssumption == Lag \in Nat /\ HBInterval + 3 * Lag < TTL

ASSUME BoundsAssumption ==
    /\ MaxTime \in Nat /\ MaxCrashes \in Nat /\ MaxFaults \in Nat /\ MaxForced \in Nat
    /\ NoRun \notin Runs

VARIABLES
    now,        \* time.time_ns()
    row,        \* the row of the table; its holder is NoRun when there is none
    pc,         \* where each attempt is
    started,    \* the `now` acquire() reads first
    seen,       \* the row an attempt last read
    hb,         \* the heartbeat task of each attempt
    wake,       \* when the heartbeat's sleep ends
    newExp,     \* the expires_at_ns a heartbeat is about to write
    ended,      \* when an attempt stopped running (history)
    evicted,    \* attempts whose row somebody else removed (history)
    budget      \* the crashes, faults and forced releases still to come

vars == <<now, row, pc, started, seen, hb, wake, newExp, ended, evicted, budget>>
acqVars == <<started, seen>>
hbVars == <<hb, wake, newExp>>
history == <<ended, evicted>>

Acquiring == {"check", "judge", "purge", "create", "recheck", "rejudge", "replace", "recreate"}
Beating == {"sleep", "extend"}
Row == [holder : Runs \cup {NoRun}, exp : Nat]
NoRow == [holder |-> NoRun, exp |-> 0]

\* The lock's row, the attempts of acquire() and their heartbeats are well formed.
TypeOK ==
    /\ now \in Nat
    /\ row \in Row
    /\ pc \in [Runs -> Acquiring \cup {"idle", "run", "release", "force", "over", "crashed"}]
    /\ started \in [Runs -> Nat]
    /\ seen \in [Runs -> Row]
    /\ hb \in [Runs -> Beating \cup {"off", "stopped", "failed"}]
    /\ wake \in [Runs -> Nat]
    /\ newExp \in [Runs -> Nat]
    /\ ended \in [Runs -> Nat]
    /\ evicted \in SUBSET Runs
    /\ budget \in [crashes : Nat, faults : Nat, forced : Nat]

Init ==
    /\ now = 0
    /\ row = NoRow
    /\ pc = [r \in Runs |-> "idle"]
    /\ started = [r \in Runs |-> 0]
    /\ seen = [r \in Runs |-> NoRow]
    /\ hb = [r \in Runs |-> "off"]
    /\ wake = [r \in Runs |-> 0]
    /\ newExp = [r \in Runs |-> 0]
    /\ ended = [r \in Runs |-> 0]
    /\ evicted = {}
    /\ budget = [crashes |-> MaxCrashes, faults |-> MaxFaults, forced |-> MaxForced]

Goto(r, l) == pc' = [pc EXCEPT ![r] = l]

\* Seeded defect: one missed heartbeat makes a lock invalid.
ValidUnlessLate(l) == l.holder # NoRun /\ l.exp - TTL + HBInterval > now

\* _find_valid_lock: a row is a lock while expires_at_ns > now.
Valid(l) == l.holder # NoRun /\ l.exp > now

\* The holder of the row, when it is not one of S, is evicted.
Evict(S) == evicted' = evicted \cup ({row.holder} \ (S \cup {NoRun}))

------------------------------------------------------------------------------
(* acquire() *)

\* The first clock reading: the row to insert expires at started + TTL.
Acquire(r) ==
    /\ pc[r] = "idle"
    /\ Goto(r, "check")
    /\ started' = [started EXCEPT ![r] = now]
    /\ UNCHANGED <<now, row, seen, hbVars, history, budget>>

\* find_first in _find_valid_lock, before the insert and after a conflict.
FindRow(r) ==
    /\ pc[r] \in {"check", "recheck"}
    /\ seen' = [seen EXCEPT ![r] = row]
    /\ Goto(r, IF pc[r] = "check" THEN "judge" ELSE "rejudge")
    /\ UNCHANGED <<now, row, started, hbVars, history, budget>>

\* A valid lock of another attempt: TimeoutError.
Refuse(r) ==
    /\ pc[r] \in {"judge", "rejudge"}
    /\ Valid(seen[r])
    /\ Goto(r, "over")
    /\ seen' = [seen EXCEPT ![r] = NoRow]
    /\ started' = [started EXCEPT ![r] = 0]
    /\ UNCHANGED <<now, row, hbVars, history, budget>>

\* No row, or one that has expired: go on to take the lock.
Proceed(r) ==
    /\ pc[r] \in {"judge", "rejudge"}
    /\ ~Valid(seen[r])
    /\ Goto(r, IF pc[r] = "judge" THEN "purge" ELSE "replace")
    /\ UNCHANGED <<now, row, acqVars, hbVars, history, budget>>

\* Seeded defect: the clean-up compares with the new expiration, not the clock.
DeleteByNewExpiry(r) ==
    /\ pc[r] = "purge"
    /\ row' = IF row.exp < started[r] + TTL THEN NoRow ELSE row
    /\ Goto(r, "create")
    /\ seen' = [seen EXCEPT ![r] = NoRow]
    /\ UNCHANGED <<now, started, hbVars, history, budget>>

\* delete ... where expires_at_ns < now: strictly, and with the first reading.
DeleteExpired(r) ==
    /\ pc[r] = "purge"
    /\ row' = IF row.exp < started[r] THEN NoRow ELSE row
    /\ Goto(r, "create")
    /\ seen' = [seen EXCEPT ![r] = NoRow]
    /\ UNCHANGED <<now, started, hbVars, history, budget>>

\* The insert succeeds: the heartbeat task starts and acquire() yields.
CreateLock(r) ==
    /\ pc[r] \in {"create", "recreate"}
    /\ row.holder = NoRun
    /\ row' = [holder |-> r, exp |-> started[r] + TTL]
    /\ Goto(r, "run")
    /\ hb' = [hb EXCEPT ![r] = "sleep"]
    /\ wake' = [wake EXCEPT ![r] = now + HBInterval]
    /\ started' = [started EXCEPT ![r] = 0]
    /\ seen' = [seen EXCEPT ![r] = NoRow]
    /\ UNCHANGED <<now, newExp, history, budget>>

\* The insert violates the primary key: look again, or give up the second time.
Conflict(r) ==
    /\ pc[r] \in {"create", "recreate"}
    /\ row.holder # NoRun
    /\ Goto(r, IF pc[r] = "create" THEN "recheck" ELSE "over")
    /\ seen' = [seen EXCEPT ![r] = NoRow]
    /\ started' = [started EXCEPT ![r] = IF pc[r] = "create" THEN @ ELSE 0]
    /\ UNCHANGED <<now, row, hbVars, history, budget>>

\* delete without a condition on the holder or the expiration.  A lock of an
\* attempt other than the one looked at is evicted unseen.
Replace(r) ==
    /\ pc[r] = "replace"
    /\ row' = NoRow
    /\ Evict({seen[r].holder})
    /\ Goto(r, "recreate")
    /\ UNCHANGED <<now, acqVars, hbVars, ended, budget>>

------------------------------------------------------------------------------
(* _heartbeat_loop() *)

\* The heartbeat's read, with the expiration it computes as a parameter.
FindAndExtend(r, e) ==
    /\ pc[r] = "run" /\ hb[r] = "sleep"
    /\ now >= wake[r]
    /\ IF row.holder = r
       THEN /\ hb' = [hb EXCEPT ![r] = "extend"]
            /\ newExp' = [newExp EXCEPT ![r] = e]
            /\ UNCHANGED wake
       ELSE /\ hb' = [hb EXCEPT ![r] = "stopped"]
            /\ wake' = [wake EXCEPT ![r] = 0]
            /\ UNCHANGED newExp
    /\ UNCHANGED <<now, row, pc, acqVars, history, budget>>

\* Seeded defect: the lease grows by lock_ttl with every heartbeat.
ExtendByTTL(r) == FindAndExtend(r, row.exp + TTL)

\* find_first on the holder, and the new expiration when it is found.
HeartbeatFind(r) == FindAndExtend(r, now + TTL)

\* update() is an upsert on the primary key: it writes the row whatever became
\* of it since it was read.
HeartbeatUpdate(r) ==
    /\ pc[r] = "run" /\ hb[r] = "extend"
    /\ row' = [holder |-> r, exp |-> newExp[r]]
    /\ Evict({r})
    /\ hb' = [hb EXCEPT ![r] = "sleep"]
    /\ wake' = [wake EXCEPT ![r] = now + HBInterval]
    /\ newExp' = [newExp EXCEPT ![r] = 0]
    /\ UNCHANGED <<now, pc, acqVars, ended, budget>>

------------------------------------------------------------------------------
(* Leaving the context manager *)

\* The heartbeat is cancelled and awaited.  One that died of an engine error
\* raises here, and the deletion of the row is never reached.
Exit(r) ==
    /\ pc[r] = "run"
    /\ Goto(r, IF hb[r] = "failed" THEN "over" ELSE "release")
    /\ hb' = [hb EXCEPT ![r] = "off"]
    /\ wake' = [wake EXCEPT ![r] = 0]
    /\ newExp' = [newExp EXCEPT ![r] = 0]
    /\ ended' = [ended EXCEPT ![r] = now]
    /\ UNCHANGED <<now, row, acqVars, evicted, budget>>

\* delete ... where holder_id = r; nothing deleted leads to force_release.
Release(r) ==
    /\ pc[r] = "release"
    /\ IF row.holder = r
       THEN row' = NoRow /\ Goto(r, "over")
       ELSE row' = row /\ Goto(r, "force")
    /\ UNCHANGED <<now, acqVars, hbVars, history, budget>>

\* force_release: delete the row, whoever holds it.
ForceAfterRelease(r) ==
    /\ pc[r] = "force"
    /\ row' = NoRow
    /\ Evict({r})
    /\ Goto(r, "over")
    /\ UNCHANGED <<now, acqVars, hbVars, ended, budget>>

\* AgentTeam.stop_all and stop_all_teammates call force_release themselves.
ForceRelease ==
    /\ budget.forced > 0
    /\ budget' = [budget EXCEPT !.forced = @ - 1]
    /\ row' = NoRow
    /\ Evict({})
    /\ UNCHANGED <<now, pc, acqVars, hbVars, ended>>

------------------------------------------------------------------------------
(* Failures and time *)

\* The process dies, or the task is cancelled just after its insert.
Crash(r) ==
    /\ pc[r] \in Acquiring \cup {"run", "release", "force"}
    /\ budget.crashes > 0
    /\ budget' = [budget EXCEPT !.crashes = @ - 1]
    /\ Goto(r, "crashed")
    /\ hb' = [hb EXCEPT ![r] = "off"]
    /\ wake' = [wake EXCEPT ![r] = 0]
    /\ newExp' = [newExp EXCEPT ![r] = 0]
    /\ started' = [started EXCEPT ![r] = 0]
    /\ seen' = [seen EXCEPT ![r] = NoRow]
    /\ ended' = [ended EXCEPT ![r] = IF pc[r] = "run" THEN now ELSE @]
    /\ UNCHANGED <<now, row, evicted>>

\* An engine call raises and changes nothing: acquire() raises, the release
\* turns to force_release, and a failed force_release is only logged.
EngineError(r) ==
    /\ pc[r] \in {"check", "recheck", "purge", "create", "replace", "recreate", "release", "force"}
    /\ budget.faults > 0
    /\ budget' = [budget EXCEPT !.faults = @ - 1]
    /\ Goto(r, IF pc[r] = "release" THEN "force" ELSE "over")
    /\ started' = [started EXCEPT ![r] = 0]
    /\ seen' = [seen EXCEPT ![r] = NoRow]
    /\ UNCHANGED <<now, row, hbVars, history>>

\* An engine call of the heartbeat raises: the task ends with the exception,
\* which nobody looks at before the run is over.
HeartbeatError(r) ==
    /\ pc[r] = "run" /\ hb[r] \in Beating
    /\ hb[r] = "sleep" => now >= wake[r]
    /\ budget.faults > 0
    /\ budget' = [budget EXCEPT !.faults = @ - 1]
    /\ hb' = [hb EXCEPT ![r] = "failed"]
    /\ wake' = [wake EXCEPT ![r] = 0]
    /\ newExp' = [newExp EXCEPT ![r] = 0]
    /\ UNCHANGED <<now, row, pc, acqVars, history>>

\* What must have happened before the clock may go on.
Urgent(r) ==
    \/ pc[r] \in Acquiring /\ now >= started[r] + Lag
    \/ pc[r] = "run" /\ hb[r] \in Beating /\ now >= wake[r] + Lag

Tick ==
    /\ now < MaxTime
    /\ \A r \in Runs : ~Urgent(r)
    /\ now' = now + 1
    /\ UNCHANGED <<row, pc, acqVars, hbVars, history, budget>>

AcquireStep(r) ==
    \/ Acquire(r) \/ FindRow(r) \/ Refuse(r) \/ Proceed(r) \/ DeleteExpired(r)
    \/ CreateLock(r) \/ Conflict(r) \/ Replace(r)

RunStep(r) ==
    \/ HeartbeatFind(r) \/ HeartbeatUpdate(r)
    \/ Exit(r) \/ Release(r) \/ ForceAfterRelease(r)

FailureStep(r) == Crash(r) \/ EngineError(r) \/ HeartbeatError(r)

Next ==
    \/ \E r \in Runs : AcquireStep(r) \/ RunStep(r) \/ FailureStep(r)
    \/ ForceRelease
    \/ Tick

Spec == Init /\ [][Next]_vars

------------------------------------------------------------------------------
(* Properties *)

\* A run that executes under a lease: its heartbeat lives and nobody removed
\* its row without looking at it.
Leased(r) == pc[r] = "run" /\ hb[r] \in Beating /\ r \notin evicted

\* A leased run never loses its row to its own slowness: the heartbeat renews
\* the lease before any attempt may take it for expired
\* (agent_lock_service.py, _heartbeat_loop against _find_valid_lock).
LeaseNeverLapses == \A r \in Runs : Leased(r) => row.holder = r /\ row.exp > now

\* Two runs of the agent overlap only when one of them was evicted unseen or
\* has lost its heartbeat (the class docstring: "Only one execution per
\* (session_id, agent_id) at a time").  It follows from LeaseNeverLapses.
OneLeasedRun ==
    \A r, s \in Runs : pc[r] = "run" /\ pc[s] = "run" /\ r # s => ~Leased(r) \/ ~Leased(s)

\* No attempt takes the lock of a leased run for expired, though it judges a
\* row it read earlier and that may have been renewed since (acquire, 218-268).
NoLeasedRunJudgedExpired ==
    [][\A r \in Runs : Proceed(r) /\ seen[r].holder # NoRun => ~Leased(seen[r].holder)]_vars

\* A run that ended without removing its row blocks the agent for at most
\* lock_ttl from its end (agent.py: "Fast recovery: max 30s deadlock time even
\* if release fails").
FastRecovery ==
    \A r \in Runs :
        row.holder = r /\ pc[r] \in {"crashed", "release", "force", "over"} => row.exp <= ended[r] + TTL

\* "Only one execution per (session_id, agent_id) at a time", as the class
\* docstring promises it, without the conditions of OneLeasedRun.
OneExecution == \A r, s \in Runs : pc[r] = "run" /\ pc[s] = "run" => r = s

\* "Release lock (only if we still hold it)": a run that leaves removes no
\* other attempt's row.
ReleasesOwnLockOnly ==
    [][\A r \in Runs :
        (Release(r) \/ ForceAfterRelease(r)) /\ row' # row => row.holder = r]_vars

------------------------------------------------------------------------------
(* Inductive invariant *)

\* An attempt that has held a row never takes the lock a second time.
HasHeld(r) == pc[r] \in {"run", "release", "force", "over", "crashed"}

HoldersHaveHeld ==
    /\ row.holder # NoRun => HasHeld(row.holder)
    /\ \A r \in Runs : seen[r].holder # NoRun => HasHeld(seen[r].holder)

OnTime ==
    /\ \A r \in Runs : pc[r] \in Acquiring => started[r] <= now /\ now <= started[r] + Lag
    /\ \A r \in Runs : pc[r] = "run" /\ hb[r] \in Beating => now <= wake[r] + Lag

RenewedInTime ==
    \A r \in Runs : Leased(r) =>
        /\ row.holder = r
        /\ row.exp >= wake[r] + TTL - HBInterval - Lag
        /\ hb[r] = "extend" => newExp[r] >= wake[r] + TTL

SeenInTime ==
    \A r \in Runs : seen[r].holder # NoRun /\ Leased(seen[r].holder) =>
        /\ pc[r] \in {"judge", "rejudge"}
        /\ seen[r].exp > started[r] + Lag

\* What carries the lease of a run from one heartbeat to the next, whatever the
\* other attempts have read of its row.
IInv == TypeOK /\ HoldersHaveHeld /\ OnTime /\ RenewedInTime /\ SeenInTime

\* No lease reaches further than lock_ttl from the clock, or from the end of
\* the run that left it behind.
LeaseLength ==
    /\ \A r \in Runs : row.holder = r /\ pc[r] = "run" => row.exp <= now + TTL
    /\ \A r \in Runs : pc[r] = "run" /\ hb[r] = "extend" => newExp[r] <= now + TTL
    /\ FastRecovery

\* The runs differ in nothing but their names.
RunSymmetry == Permutations(Runs)
=============================================================================
