------------------------------- MODULE TaskBoard -------------------------------
(***************************************************************************)
(* The task board of an agent team and the short TTL lock in front of it   *)
(* (src/nexau/archs/main_sub/team/task_board.py, team/tools/claim_task.py, *)
(* src/nexau/archs/session/task_lock_service.py).                          *)
(*                                                                         *)
(* Calls of the board's tools run concurrently, in the tasks of one event  *)
(* loop or in several processes.  Each await of the database engine is one *)
(* action.  A claim, a release and a status update read a row, change the  *)
(* copy and write the whole row back, under a lock that is taken without   *)
(* waiting, never renewed, and that stays behind when its holder dies.     *)
(* Time is left out: a lock may expire at any moment, and one that expires *)
(* under a live holder is remembered in `overrun`.                         *)
(***************************************************************************)
EXTENDS Integers, FiniteSets, TLC

CONSTANTS
    Calls,        \* places for concurrent tool calls; a place is used again
    Agents,       \* agents a task can be assigned to
    Nobody,       \* the assignee of an unclaimed task, the holder of no lock
    MaxTasks,     \* bound on the task ids
    Dependencies, \* dependency lists each task may be created with
    Updates,      \* statuses the agents ask for
    MaxFailures   \* bound on the locks that expire under a live holder and the crashes

ASSUME NobodyAssumption == Nobody \notin Calls /\ Nobody \notin Agents
ASSUME TaskBoardBounds ==
    /\ MaxTasks \in Nat \ {0}
    /\ MaxFailures \in Nat
    /\ Dependencies \in [1..MaxTasks -> SUBSET SUBSET (1..MaxTasks)]
    /\ Updates \subseteq {"pending", "in_progress", "completed"}

Ids == 1..MaxTasks
Statuses == {"pending", "in_progress", "completed"}
Task == [status : Statuses, assignee : Agents \cup {Nobody}, deps : SUBSET Ids]
NewTask(deps) == [status |-> "pending", assignee |-> Nobody, deps |-> deps]

VARIABLES
    board,      \* the rows of the tasks, by id
    created,    \* the ids of the rows that exist
    lock,       \* the holder of each task's lock row
    expired,    \* the tasks whose lock row has expired
    pc,         \* where each call is
    arg,        \* its arguments
    copy,       \* the row it has read
    met,        \* the dependencies it has found completed
    claims,     \* history: who claimed a task since its last release
    reopened,   \* history: tasks taken back from completed since each call has read its row
    overrun,    \* history: tasks whose lock expired under a live holder
    failures    \* failures so far

shared == <<board, created, lock, expired>>
vars == <<shared, pc, arg, copy, met, claims, reopened, overrun, failures>>
history == <<claims, reopened, overrun, failures>>

\* What no return of a call changes.
records == <<claims, overrun, failures>>

Args == [op : {"create", "claim", "release", "update"}, task : Ids, agent : Agents \cup {Nobody},
         status : Statuses, deps : SUBSET Ids]

Locked == {"read", "judge", "write", "unlock"}
Judging == {"judge", "write"}  \* a row has been read and is not written back yet

\* The rows of the board, the locks and the calls are well formed.
TypeOK ==
    /\ board \in [Ids -> Task] /\ created \in SUBSET Ids
    /\ lock \in [Ids -> Calls \cup {Nobody}] /\ expired \in SUBSET Ids
    /\ pc \in [Calls -> Locked \cup {"idle", "insert", "find", "sweep", "lock", "dead"}]
    /\ arg \in [Calls -> Args] /\ copy \in [Calls -> Task] /\ met \in [Calls -> SUBSET Ids]
    /\ claims \in [Ids -> SUBSET Agents] /\ reopened \in [Calls -> SUBSET Ids]
    /\ overrun \in SUBSET Ids
    /\ failures \in Nat

NoArg == [op |-> "create", task |-> 1, agent |-> Nobody, status |-> "pending", deps |-> {}]

Init ==
    /\ board = [t \in Ids |-> NewTask({})] /\ created = {}
    /\ lock = [t \in Ids |-> Nobody] /\ expired = {}
    /\ pc = [c \in Calls |-> "idle"]
    /\ arg = [c \in Calls |-> NoArg]
    /\ copy = [c \in Calls |-> NewTask({})] /\ met = [c \in Calls |-> {}]
    /\ claims = [t \in Ids |-> {}] /\ reopened = [c \in Calls |-> {}] /\ overrun = {} /\ failures = 0

Goto(c, l) == pc' = [pc EXCEPT ![c] = l]

\* A call returns or raises.
Return(c) ==
    /\ pc' = [pc EXCEPT ![c] = "idle"]
    /\ arg' = [arg EXCEPT ![c] = NoArg]
    /\ copy' = [copy EXCEPT ![c] = NewTask({})]
    /\ met' = [met EXCEPT ![c] = {}]
    /\ reopened' = [reopened EXCEPT ![c] = {}]

Begin(c, l, a) ==
    /\ pc[c] = "idle"
    /\ Goto(c, l)
    /\ arg' = [arg EXCEPT ![c] = a]

------------------------------------------------------------------------------
(* create_task *)

\* _next_task_id, which counts the rows, or an id of the caller's choice.
BeginCreate(c, id, deps) ==
    /\ Begin(c, "insert", [NoArg EXCEPT !.task = id, !.deps = deps])
    /\ UNCHANGED <<shared, copy, met, history>>

BeginCreateAuto(c) ==
    /\ Cardinality(created) < MaxTasks
    /\ \E deps \in Dependencies[Cardinality(created) + 1] : BeginCreate(c, Cardinality(created) + 1, deps)

\* The insert raises on an id that is taken.  Dependencies are not checked
\* before it: when one is missing, the call raises with the row in place.
Insert(c) ==
    LET t == arg[c].task
    IN  /\ pc[c] = "insert"
        /\ IF t \in created
           THEN UNCHANGED <<board, created>>
           ELSE /\ board' = [board EXCEPT ![t] = NewTask(arg[c].deps)]
                /\ created' = created \cup {t}
        /\ Return(c)
        /\ UNCHANGED <<lock, expired, records>>

------------------------------------------------------------------------------
(* claim_task, release_task, update_status *)

\* The tool lets an agent claim when no task in progress is its own.
BeginClaim(c, t, a) ==
    /\ \A u \in created : ~(board[u].status = "in_progress" /\ board[u].assignee = a)
    /\ Begin(c, "find", [NoArg EXCEPT !.op = "claim", !.task = t, !.agent = a])
    /\ UNCHANGED <<shared, copy, met, history>>

BeginRelease(c, t) ==
    /\ Begin(c, "find", [NoArg EXCEPT !.op = "release", !.task = t])
    /\ UNCHANGED <<shared, copy, met, history>>

BeginUpdate(c, t, status) ==
    /\ Begin(c, "find", [NoArg EXCEPT !.op = "update", !.task = t, !.status = status])
    /\ UNCHANGED <<shared, copy, met, history>>

\* TaskLockService.acquire: LockConflictError on a lock that has not expired.
FindLock(c) ==
    LET t == arg[c].task
    IN  /\ pc[c] = "find"
        /\ IF lock[t] # Nobody /\ t \notin expired
           THEN Return(c)
           ELSE Goto(c, "sweep") /\ UNCHANGED <<arg, copy, met, reopened>>
        /\ UNCHANGED <<shared, records>>

\* Seeded defect: the clean-up deletes the lock row whether it has expired or not.
SweepAny(c) ==
    LET t == arg[c].task
    IN  /\ pc[c] = "sweep"
        /\ lock' = [lock EXCEPT ![t] = Nobody]
        /\ expired' = expired \ {t}
        /\ Goto(c, "lock")
        /\ UNCHANGED <<board, created, arg, copy, met, history>>

\* delete ... where expires_at_ns < now, with a clock read before the lock was
\* looked at: a lock that expired in between stays.
SweepLock(c) ==
    LET t == arg[c].task
    IN  /\ pc[c] = "sweep"
        /\ \/ UNCHANGED <<lock, expired>>
           \/ /\ t \in expired
              /\ lock' = [lock EXCEPT ![t] = Nobody]
              /\ expired' = expired \ {t}
        /\ Goto(c, "lock")
        /\ UNCHANGED <<board, created, arg, copy, met, history>>

\* The insert of the lock row raises when there is one.
CreateLock(c) ==
    LET t == arg[c].task
    IN  /\ pc[c] = "lock"
        /\ IF lock[t] = Nobody
           THEN lock' = [lock EXCEPT ![t] = c] /\ Goto(c, "read")
                /\ UNCHANGED <<arg, copy, met, reopened>>
           ELSE UNCHANGED lock /\ Return(c)
        /\ UNCHANGED <<board, created, expired, records>>

\* _get_task raises on an unknown id.
ReadTask(c) ==
    LET t == arg[c].task
    IN  /\ pc[c] = "read"
        /\ IF t \in created
           THEN /\ copy' = [copy EXCEPT ![c] = board[t]]
                /\ Goto(c, IF arg[c].op = "claim" THEN "judge" ELSE "write")
           ELSE Goto(c, "unlock") /\ UNCHANGED copy
        /\ UNCHANGED <<shared, arg, met, history>>

\* _is_blocked reads the dependencies one at a time, and raises on one that does
\* not exist; claim_task raises TaskBlockedError on one that is not completed.
CheckDependency(c) ==
    /\ pc[c] = "judge"
    /\ \E d \in copy[c].deps \ met[c] :
        IF d \in created /\ board[d].status = "completed"
        THEN met' = [met EXCEPT ![c] = @ \cup {d}] /\ UNCHANGED pc
        ELSE Goto(c, "unlock") /\ UNCHANGED met
    /\ UNCHANGED <<shared, arg, copy, history>>

\* Seeded defect: a task that somebody holds can be claimed again.
JudgeBlocked(c) ==
    /\ pc[c] = "judge" /\ met[c] = copy[c].deps
    /\ Goto(c, "write")
    /\ UNCHANGED <<shared, arg, copy, met, history>>

\* Seeded defect: the dependencies are not looked at.
JudgeAssignee(c) ==
    /\ pc[c] = "judge"
    /\ Goto(c, IF copy[c].assignee # Nobody THEN "unlock" ELSE "write")
    /\ UNCHANGED <<shared, arg, copy, met, history>>

\* LockConflictError when the task has an assignee.
Judge(c) ==
    /\ pc[c] = "judge" /\ met[c] = copy[c].deps
    /\ Goto(c, IF copy[c].assignee # Nobody THEN "unlock" ELSE "write")
    /\ UNCHANGED <<shared, arg, copy, met, history>>

\* The row a call writes back.  A status update keeps the assignee, and neither
\* it nor a release looks at the status or at who calls.
Changed(c) ==
    CASE arg[c].op = "claim" -> [copy[c] EXCEPT !.assignee = arg[c].agent, !.status = "in_progress"]
      [] arg[c].op = "release" -> [copy[c] EXCEPT !.assignee = Nobody, !.status = "pending"]
      [] OTHER -> [copy[c] EXCEPT !.status = arg[c].status]

WriteTask(c) ==
    LET t == arg[c].task
    IN  /\ pc[c] = "write"
        /\ board' = [board EXCEPT ![t] = Changed(c)]
        /\ claims' = [claims EXCEPT ![t] =
                CASE arg[c].op = "claim" -> @ \cup {arg[c].agent}
                  [] arg[c].op = "release" -> {}
                  [] OTHER -> @]
        /\ reopened' = [k \in Calls |->
                IF board[t].status = "completed" /\ Changed(c).status # "completed" /\ pc[k] \in Judging
                THEN reopened[k] \cup {t} ELSE reopened[k]]
        /\ Goto(c, "unlock")
        /\ UNCHANGED <<created, lock, expired, arg, copy, met, overrun, failures>>

\* delete ... where holder_id = this call's.
Unlock(c) ==
    LET t == arg[c].task
    IN  /\ pc[c] = "unlock"
        /\ IF lock[t] = c
           THEN lock' = [lock EXCEPT ![t] = Nobody] /\ expired' = expired \ {t}
           ELSE UNCHANGED <<lock, expired>>
        /\ Return(c)
        /\ UNCHANGED <<board, created, records>>

------------------------------------------------------------------------------
(* Time and failures *)

Fail == failures < MaxFailures /\ failures' = failures + 1

\* lock_ttl passes.  The holder of the lock may be dead or merely slow.
Expire(t) ==
    /\ lock[t] # Nobody /\ t \notin expired
    /\ expired' = expired \cup {t}
    /\ IF pc[lock[t]] = "dead"
       THEN UNCHANGED <<overrun, failures>>
       ELSE Fail /\ overrun' = overrun \cup {t}
    /\ UNCHANGED <<board, created, lock, pc, arg, copy, met, claims, reopened>>

\* The process of a call dies, and leaves its lock row behind.
Crash(c) ==
    /\ pc[c] \notin {"idle", "dead"}
    /\ Fail
    /\ pc' = [pc EXCEPT ![c] = "dead"]
    /\ copy' = [copy EXCEPT ![c] = NewTask({})]
    /\ arg' = [arg EXCEPT ![c] = NoArg]
    /\ met' = [met EXCEPT ![c] = {}]
    /\ reopened' = [reopened EXCEPT ![c] = {}]
    /\ UNCHANGED <<shared, claims, overrun>>

\* The engine raises, or the call is cancelled, behind the lock: the lock is
\* deleted on the way out.
Raise(c) ==
    /\ pc[c] \in {"read", "judge", "write"}
    /\ Fail
    /\ Goto(c, "unlock")
    /\ UNCHANGED <<shared, arg, copy, met, claims, reopened, overrun>>

CreateStep(c) ==
    \/ BeginCreateAuto(c)
    \/ \E id \in Ids : \E deps \in Dependencies[id] : BeginCreate(c, id, deps)
    \/ Insert(c)

BeginStep(c) ==
    \E t \in Ids :
        \/ \E a \in Agents : BeginClaim(c, t, a)
        \/ BeginRelease(c, t)
        \/ \E status \in Updates : BeginUpdate(c, t, status)

LockStep(c) == FindLock(c) \/ SweepLock(c) \/ CreateLock(c) \/ Unlock(c)

TaskStep(c) == ReadTask(c) \/ CheckDependency(c) \/ Judge(c) \/ WriteTask(c)

Next ==
    \/ \E c \in Calls : CreateStep(c) \/ BeginStep(c) \/ LockStep(c) \/ TaskStep(c) \/ Crash(c) \/ Raise(c)
    \/ \E t \in Ids : Expire(t)

Spec == Init /\ [][Next]_vars

------------------------------------------------------------------------------
(* Properties *)

\* A call writes back a row that nobody has changed since the call read it, so
\* that no other call's change is lost, unless the task's lock has run out
\* under a call (class docstring of TaskBoard: mutations "are protected by
\* TaskLockService to ensure concurrent safety").
NoLostUpdate ==
    [][\A c \in Calls : WriteTask(c) /\ arg[c].task \notin overrun => copy[c] = board[arg[c].task]]_vars

\* Two agents never hold the same task: of all the claims since the last release
\* one has succeeded, and its agent is the assignee.
OneClaim ==
    \A t \in Ids \ overrun :
        claims[t] = IF board[t].assignee = Nobody THEN {} ELSE {board[t].assignee}

\* Completed, or taken back while the call was judging.
DoneFor(c, d) == d \in created /\ (board[d].status = "completed" \/ d \in reopened[c])

\* A task is claimed behind its dependencies: each was completed at one moment at
\* least between the call's reading the task and its writing the claim, and one
\* taken back before is refused (claim_task.yaml: "Fails if the task has unfinished
\* dependencies"; _is_blocked reads them one at a time, behind no lock of theirs).
DependenciesFirst ==
    [][\A c \in Calls : WriteTask(c) /\ arg[c].op = "claim" =>
        \A d \in board'[arg[c].task].deps : DoneFor(c, d)]_vars

\* The same with every dependency completed at the claim: a dependency taken back
\* between _is_blocked and the write of the row is not noticed.
ClaimsUnblocked ==
    [][\A c \in Calls : WriteTask(c) /\ arg[c].op = "claim" =>
        \A d \in board'[arg[c].task].deps : board[d].status = "completed"]_vars

\* An agent has at most one task in progress (claim_task.py: "a teammate may
\* hold only one in_progress task at a time").
SingleTask ==
    \A t, u \in created :
        /\ board[t].status = "in_progress" /\ board[t].assignee # Nobody
        /\ board[u].status = "in_progress" /\ board[u].assignee = board[t].assignee
        => t = u

------------------------------------------------------------------------------
(* Inductive invariant *)

ClaimersKnown == \A c \in Calls : arg[c].op = "claim" => arg[c].agent \in Agents

\* A call behind the lock holds it, unless the lock has run out under it.
LockHeld ==
    /\ \A t \in expired : lock[t] # Nobody
    /\ \A c \in Calls : pc[c] \in Locked /\ arg[c].task \notin overrun =>
        lock[arg[c].task] = c /\ arg[c].task \notin expired

CopyFresh ==
    \A c \in Calls : pc[c] \in Judging =>
        /\ arg[c].task \in created
        /\ arg[c].task \notin overrun => copy[c] = board[arg[c].task]

\* What a claim has found completed was so while it was judging.
DependenciesMet ==
    \A c \in Calls :
        /\ pc[c] \notin Judging \cup {"unlock"} => met[c] = {}
        /\ pc[c] \in Judging => \A d \in met[c] : DoneFor(c, d)

Judged ==
    \A c \in Calls : pc[c] = "write" /\ arg[c].op = "claim" =>
        copy[c].assignee = Nobody /\ met[c] = copy[c].deps

Uncreated == \A t \in Ids \ created : board[t] = NewTask({})

\* What makes one call of the board safe against the others: its lock is its
\* own, and what it has read under the lock still holds.
IInv ==
    /\ TypeOK /\ ClaimersKnown /\ LockHeld /\ CopyFresh /\ DependenciesMet /\ Judged /\ Uncreated /\ OneClaim

\* An instance: the second task waits for the first; the calls and the agents differ in
\* nothing but their names.
Chain == 1 :> {{}} @@ 2 :> {{1}}
CallSymmetry == Permutations(Calls) \cup Permutations(Agents)
=============================================================================
