---------------------------- MODULE TaskBoardProofs ----------------------------
(***************************************************************************)
(* The task lock protects the board, for any number of calls, agents and   *)
(* tasks: proofs of the properties of TaskBoard.                           *)
(***************************************************************************)
EXTENDS TaskBoard, FiniteSetTheorems, TLAPS

\* The rows and arguments the operations start from are well formed.
LEMMA Blanks ==
    /\ NoArg \in Args /\ NoArg.op = "create"
    /\ \A deps \in SUBSET Ids : NewTask(deps) \in Task
    /\ \A deps : NewTask(deps).assignee = Nobody /\ NewTask(deps).deps = deps
BY TaskBoardBounds DEF NoArg, Args, NewTask, Task, Ids, Statuses

\* The invariant holds before any call.
LEMMA BoardInit == Init => IInv
<1> SUFFICES ASSUME Init PROVE IInv
  OBVIOUS
<1> USE TaskBoardBounds, NobodyAssumption DEF Init
<1>1. TypeOK
  BY DEF TypeOK, Ids, Task, NewTask, NoArg, Args, Statuses
<1>2. ClaimersKnown /\ LockHeld /\ CopyFresh /\ DependenciesMet /\ Judged /\ Uncreated
  BY DEF ClaimersKnown, LockHeld, CopyFresh, DependenciesMet, Judged, Uncreated, NoArg, Locked, Judging
<1>3. OneClaim
  BY DEF OneClaim, NewTask
<1> QED
  BY <1>1, <1>2, <1>3 DEF IInv

\* A call starts: nothing but its own place changes, and it is not behind a lock.
LEMMA BeginPreserves ==
    ASSUME IInv, NEW c \in Calls, NEW l \in {"insert", "find"}, NEW a \in Args,
           a.op = "claim" => a.agent \in Agents,
           Begin(c, l, a), UNCHANGED <<shared, copy, met, history>>
    PROVE  IInv'
<1> USE DEF IInv, shared, history, Begin, Goto
<1>1. TypeOK'
  BY DEF TypeOK
<1>2. ClaimersKnown'
  BY DEF ClaimersKnown, TypeOK
<1>3. LockHeld'
  BY DEF LockHeld, TypeOK, Locked
<1>4. CopyFresh' /\ DependenciesMet' /\ Judged'
  BY DEF CopyFresh, DependenciesMet, Judged, TypeOK, DoneFor, Judging
<1>5. Uncreated' /\ OneClaim'
  BY DEF Uncreated, OneClaim
<1> QED
  BY <1>1, <1>2, <1>3, <1>4, <1>5

\* Creating a task: the new row is one that nobody has read or claimed.
LEMMA CreatePreserves ==
    ASSUME IInv, NEW c \in Calls, CreateStep(c)
    PROVE  IInv'
<1> USE TaskBoardBounds, NobodyAssumption
<1>1. ASSUME NEW id \in Ids, NEW deps \in Dependencies[id], BeginCreate(c, id, deps)
      PROVE  IInv'
  <2> DEFINE a == [NoArg EXCEPT !.task = id, !.deps = deps]
  <2>1. a \in Args /\ a.op # "claim"
    <3>1. deps \in SUBSET Ids
      BY DEF Ids
    <3> QED
      BY <3>1 DEF NoArg, Args, Ids, Statuses
  <2> QED
    BY <1>1, <2>1, BeginPreserves DEF BeginCreate
<1>2. ASSUME BeginCreateAuto(c)
      PROVE  IInv'
  <2>1. created \subseteq 1..MaxTasks
    BY DEF IInv, TypeOK, Ids
  <2>2. IsFiniteSet(1..MaxTasks)
    BY FS_Interval
  <2>3. Cardinality(created) \in Nat
    BY <2>1, <2>2, FS_Subset, FS_CardinalityType
  <2>4. Cardinality(created) + 1 \in Ids
    BY <1>2, <2>3 DEF BeginCreateAuto, Ids
  <2> QED
    BY <1>2, <2>4, <1>1 DEF BeginCreateAuto
<1>3. CASE Insert(c)
  <2> DEFINE t == arg[c].task
  <2> USE <1>3 DEF IInv, Insert, Return, records
  <2>0. arg[c] \in Args /\ t \in Ids /\ NewTask(arg[c].deps) \in Task /\ NewTask({}) \in Task
    BY Blanks DEF TypeOK, Args
  <2>1. TypeOK'
    BY <2>0, Blanks DEF TypeOK
  <2>2. ClaimersKnown'
    BY DEF ClaimersKnown, TypeOK, NoArg
  <2>3. LockHeld'
    BY DEF LockHeld, TypeOK, Locked
  <2>4. \A k \in Calls \ {c} : \A d : DoneFor(k, d) => DoneFor(k, d)'
    BY DEF DoneFor, TypeOK, Args
  <2>5. CopyFresh'
    BY DEF CopyFresh, TypeOK, Args, Judging
  <2>6. DependenciesMet' /\ Judged'
    BY <2>4 DEF DependenciesMet, Judged, TypeOK, Judging
  <2>7. Uncreated'
    BY DEF Uncreated, TypeOK, Args
  <2>8. OneClaim'
    BY DEF OneClaim, Uncreated, TypeOK, Args, NewTask
  <2> QED
    BY <2>1, <2>2, <2>3, <2>5, <2>6, <2>7, <2>8
<1> QED
  BY <1>1, <1>2, <1>3 DEF CreateStep

\* claim_task, release_task and update_status take their arguments.
LEMMA BeginStepPreserves ==
    ASSUME IInv, NEW c \in Calls, BeginStep(c)
    PROVE  IInv'
<1>1. ASSUME NEW t \in Ids, NEW a \in Agents, BeginClaim(c, t, a)
      PROVE  IInv'
  <2>1. [NoArg EXCEPT !.op = "claim", !.task = t, !.agent = a] \in Args
    BY Blanks DEF NoArg, Args, Ids, Statuses
  <2>2. [NoArg EXCEPT !.op = "claim", !.task = t, !.agent = a].agent \in Agents
    BY DEF NoArg
  <2> QED
    BY <1>1, <2>1, <2>2, BeginPreserves DEF BeginClaim
<1>2. ASSUME NEW t \in Ids, BeginRelease(c, t)
      PROVE  IInv'
  <2>1. /\ [NoArg EXCEPT !.op = "release", !.task = t] \in Args
        /\ [NoArg EXCEPT !.op = "release", !.task = t].op # "claim"
    BY Blanks DEF NoArg, Args, Ids, Statuses
  <2> QED
    BY <1>2, <2>1, BeginPreserves DEF BeginRelease
<1>3. ASSUME NEW t \in Ids, NEW s \in Updates, BeginUpdate(c, t, s)
      PROVE  IInv'
  <2>1. /\ [NoArg EXCEPT !.op = "update", !.task = t, !.status = s] \in Args
        /\ [NoArg EXCEPT !.op = "update", !.task = t, !.status = s].op # "claim"
    BY Blanks, TaskBoardBounds DEF NoArg, Args, Ids, Statuses
  <2> QED
    BY <1>3, <2>1, BeginPreserves DEF BeginUpdate
<1> QED
  BY <1>1, <1>2, <1>3 DEF BeginStep

\* The lock: a row is deleted by its holder or when it has expired, and a
\* call enters only on a row of its own.
LEMMA LockPreserves ==
    ASSUME IInv, NEW c \in Calls, LockStep(c)
    PROVE  IInv'
<1> USE NobodyAssumption DEF IInv, history, records, shared, Goto, Return
<1>1. arg[c] \in Args /\ arg[c].task \in Ids /\ NewTask({}) \in Task
  BY Blanks DEF TypeOK, Args
<1>2. TypeOK'
  <2>1. CASE FindLock(c)
    BY <1>1, <2>1, Blanks DEF FindLock, TypeOK
  <2>2. CASE SweepLock(c)
    BY <1>1, <2>2 DEF SweepLock, TypeOK
  <2>3. CASE CreateLock(c)
    BY <1>1, <2>3, Blanks DEF CreateLock, TypeOK, Locked
  <2>4. CASE Unlock(c)
    BY <1>1, <2>4, Blanks DEF Unlock, TypeOK
  <2> QED
    BY <2>1, <2>2, <2>3, <2>4 DEF LockStep
<1>3. LockHeld'
  <2>1. CASE FindLock(c)
    BY <1>1, <2>1 DEF FindLock, TypeOK, LockHeld, Locked
  <2>2. CASE SweepLock(c)
    BY <1>1, <2>2 DEF SweepLock, TypeOK, LockHeld, Locked, Args
  <2>3. CASE CreateLock(c)
    <3> DEFINE t == arg[c].task
    <3>1. CASE lock[t] # Nobody
      BY <1>1, <2>3, <3>1 DEF CreateLock, TypeOK, LockHeld, Locked
    <3>2. CASE lock[t] = Nobody
      <4>1. /\ lock' = [lock EXCEPT ![t] = c] /\ pc' = [pc EXCEPT ![c] = "read"]
            /\ UNCHANGED <<arg, expired, overrun>>
        BY <2>3, <3>2 DEF CreateLock
      <4>2. t \notin expired
        BY <3>2 DEF LockHeld
      <4>3. \A k \in Calls \ {c} : pc[k] \in Locked /\ arg[k].task \notin overrun => arg[k].task # t
        BY <3>2 DEF LockHeld
      <4>4. \A k \in Calls : arg[k].task \in Ids
        BY DEF TypeOK, Args
      <4>5. \A u \in expired : lock'[u] # Nobody
        BY <4>1, <1>1 DEF LockHeld, TypeOK
      <4>6. ASSUME NEW k \in Calls, pc'[k] \in Locked, arg'[k].task \notin overrun'
            PROVE  lock'[arg'[k].task] = k /\ arg'[k].task \notin expired'
        <5>1. CASE k = c
          BY <1>1, <4>1, <4>2, <5>1 DEF TypeOK
        <5>2. CASE k # c
          BY <1>1, <4>1, <4>3, <4>4, <4>6, <5>2 DEF TypeOK, LockHeld
        <5> QED
          BY <5>1, <5>2
      <4> QED
        BY <4>1, <4>5, <4>6 DEF LockHeld
    <3> QED
      BY <3>1, <3>2
  <2>4. CASE Unlock(c)
    BY <1>1, <2>4 DEF Unlock, TypeOK, LockHeld, Locked, Args
  <2> QED
    BY <2>1, <2>2, <2>3, <2>4 DEF LockStep
<1>4. /\ UNCHANGED <<board, created, records>>
      /\ pc[c] \in {"find", "sweep", "lock", "unlock"} /\ pc'[c] \notin {"judge", "write", "unlock"}
      /\ arg'[c] = arg[c] \/ arg'[c] = NoArg
      /\ (pc[c] \notin {"judge", "write", "unlock"} /\ met'[c] = met[c]) \/ met'[c] = {}
      /\ \A k \in Calls \ {c} :
            /\ pc'[k] = pc[k] /\ arg'[k] = arg[k] /\ copy'[k] = copy[k] /\ met'[k] = met[k]
            /\ reopened'[k] = reopened[k]
  BY DEF LockStep, FindLock, SweepLock, CreateLock, Unlock, TypeOK
<1>5. ClaimersKnown'
  BY <1>4, Blanks DEF ClaimersKnown
<1>6. CopyFresh' /\ DependenciesMet' /\ Judged'
  BY <1>4 DEF records, CopyFresh, DependenciesMet, Judged, DoneFor, Judging
<1>7. Uncreated' /\ OneClaim'
  BY <1>4 DEF records, Uncreated, OneClaim
<1> QED
  BY <1>2, <1>3, <1>5, <1>6, <1>7

\* What a judging call may take for completed, it may when a row is written: the
\* write of another call that takes a completion back is remembered.
LEMMA WriteKeepsDone ==
    ASSUME TypeOK, NEW c \in Calls, WriteTask(c),
           NEW k \in Calls, pc[k] \in Judging, NEW d, DoneFor(k, d)
    PROVE  DoneFor(k, d)'
BY DEF DoneFor, WriteTask, TypeOK, Args

\* Two calls are not behind the lock of a task at once, unless it has run out.
LEMMA LockExclusion ==
    ASSUME IInv, NEW c \in Calls, NEW k \in Calls,
           pc[c] \in Locked, pc[k] \in Locked,
           arg[c].task = arg[k].task, arg[c].task \notin overrun
    PROVE  c = k
BY DEF IInv, LockHeld

\* A call reads the row of its task, and judges it.
LEMMA ReadPreserves ==
    ASSUME IInv, NEW c \in Calls, ReadTask(c) \/ CheckDependency(c) \/ Judge(c)
    PROVE  IInv'
<1> USE NobodyAssumption DEF IInv, history, shared, Goto
<1>1. /\ UNCHANGED <<shared, arg, history>>
      /\ pc[c] \in Locked /\ pc'[c] \in Locked
      /\ \A k \in Calls \ {c} : pc'[k] = pc[k] /\ copy'[k] = copy[k] /\ met'[k] = met[k]
      /\ \A k \in Calls : \A d : DoneFor(k, d)' <=> DoneFor(k, d)
  BY DEF DoneFor, ReadTask, CheckDependency, Judge, TypeOK, Locked
<1>2. TypeOK'
  <2>1. arg[c] \in Args /\ arg[c].task \in Ids /\ board[arg[c].task] \in Task
    BY DEF TypeOK, Args
  <2>2. copy[c].deps \subseteq Ids
    BY DEF TypeOK, Task
  <2>3. CASE ReadTask(c)
    BY <2>1, <2>3 DEF ReadTask, TypeOK, Locked
  <2>4. CASE CheckDependency(c)
    BY <2>2, <2>4 DEF CheckDependency, TypeOK, Locked
  <2>5. CASE Judge(c)
    BY <2>5 DEF Judge, TypeOK, Locked
  <2> QED
    BY <2>3, <2>4, <2>5
<1>3. ClaimersKnown' /\ Uncreated' /\ OneClaim'
  BY <1>1 DEF ClaimersKnown, Uncreated, OneClaim
<1>4. LockHeld'
  BY <1>1 DEF LockHeld
<1>5. CopyFresh'
  <2>1. CASE ReadTask(c)
    BY <1>1, <2>1 DEF ReadTask, CopyFresh, TypeOK, Judging
  <2>2. CASE CheckDependency(c) \/ Judge(c)
    BY <1>1, <2>2 DEF CheckDependency, Judge, CopyFresh, TypeOK, Judging
  <2> QED
    BY <2>1, <2>2
<1>6. DependenciesMet'
  <2>1. CASE ReadTask(c)
    BY <1>1, <2>1 DEF ReadTask, DependenciesMet, TypeOK, Judging
  <2>2. CASE CheckDependency(c)
    BY <1>1, <2>2 DEF CheckDependency, DependenciesMet, DoneFor, TypeOK, Judging
  <2>3. CASE Judge(c)
    BY <1>1, <2>3 DEF Judge, DependenciesMet, TypeOK, Judging
  <2> QED
    BY <2>1, <2>2, <2>3
<1>7. Judged'
  BY <1>1 DEF ReadTask, CheckDependency, Judge, Judged, TypeOK
<1> QED
  BY <1>2, <1>3, <1>4, <1>5, <1>6, <1>7

\* A call writes its row: a row that no call has changed since it was read,
\* and, for a claim, one that nobody held.
LEMMA WritePreserves ==
    ASSUME IInv, NEW c \in Calls, WriteTask(c)
    PROVE  IInv'
<1> DEFINE t == arg[c].task
<1> USE NobodyAssumption DEF IInv, Goto
<1>1. /\ t \in Ids /\ t \in created /\ copy[c] \in Task /\ arg[c] \in Args /\ pc[c] = "write"
  BY DEF WriteTask, CopyFresh, TypeOK, Args, Judging
<1>2. t \notin overrun => copy[c] = board[t]
  BY <1>1 DEF CopyFresh, Judging
<1>3. Changed(c) \in Task /\ Changed(c).deps = copy[c].deps
  BY <1>1 DEF Changed, Task, Args, Statuses, TypeOK
<1>4. /\ board' = [board EXCEPT ![t] = Changed(c)]
      /\ pc' = [pc EXCEPT ![c] = "unlock"]
      /\ UNCHANGED <<created, lock, expired, arg, copy, met, overrun, failures>>
  BY DEF WriteTask
<1>7. TypeOK'
  <2>1. claims' \in [Ids -> SUBSET Agents]
    BY <1>1 DEF WriteTask, TypeOK, ClaimersKnown
  <2>2. reopened' \in [Calls -> SUBSET Ids]
    BY <1>1 DEF WriteTask, TypeOK
  <2> QED
    BY <1>1, <1>3, <1>4, <2>1, <2>2 DEF TypeOK, Locked
<1>8. ClaimersKnown' /\ LockHeld'
  BY <1>1, <1>4 DEF ClaimersKnown, LockHeld, TypeOK, Locked
<1>9. CopyFresh'
  <2>1. SUFFICES ASSUME NEW k \in Calls, pc'[k] \in Judging
                 PROVE  /\ arg[k].task \in created
                        /\ arg[k].task \notin overrun => copy[k] = board'[arg[k].task]
    BY <1>4 DEF CopyFresh
  <2>2. k # c /\ pc[k] \in Judging
    BY <1>1, <1>4, <2>1 DEF TypeOK, Judging
  <2>3. arg[k].task \notin overrun => arg[k].task # t
    BY <1>1, <2>2, LockExclusion DEF Locked, Judging
  <2>4. arg[k].task \in Ids
    BY DEF TypeOK, Args
  <2> QED
    BY <1>1, <1>4, <2>2, <2>3, <2>4 DEF CopyFresh, TypeOK
<1>10. DependenciesMet'
  <2>1. SUFFICES ASSUME NEW k \in Calls
                 PROVE  /\ pc'[k] \notin Judging \cup {"unlock"} => met[k] = {}
                        /\ pc'[k] \in Judging => \A d \in met[k] : DoneFor(k, d)'
    BY <1>4 DEF DependenciesMet
  <2>2. pc'[k] = IF k = c THEN "unlock" ELSE pc[k]
    BY <1>4 DEF TypeOK
  <2> QED
    BY <2>2, WriteKeepsDone DEF DependenciesMet, Judging
<1>11. Judged'
  BY <1>4 DEF Judged, TypeOK
<1>12. Uncreated'
  BY <1>1, <1>4 DEF Uncreated, TypeOK
<1>13. OneClaim'
  <2>1. SUFFICES ASSUME NEW u \in Ids, u \notin overrun
                 PROVE  claims'[u] = IF board'[u].assignee = Nobody THEN {} ELSE {board'[u].assignee}
    BY <1>4 DEF OneClaim
  <2>2. claims[u] = IF board[u].assignee = Nobody THEN {} ELSE {board[u].assignee}
    BY <2>1 DEF OneClaim
  <2>3. CASE u # t
    BY <1>1, <1>4, <2>2, <2>3 DEF WriteTask, TypeOK
  <2>4. CASE u = t
    <3>1. board'[u] = Changed(c) /\ copy[c] = board[u]
      BY <1>1, <1>2, <1>4, <2>1, <2>4 DEF TypeOK
    <3>2. CASE arg[c].op = "claim"
      <4>1. copy[c].assignee = Nobody /\ arg[c].agent \in Agents
        BY <1>1, <3>2 DEF Judged, ClaimersKnown
      <4>2. Changed(c).assignee = arg[c].agent
        BY <1>1, <3>2 DEF Changed, Task
      <4>3. claims'[u] = claims[u] \cup {arg[c].agent}
        BY <1>1, <2>4, <3>2 DEF WriteTask, TypeOK
      <4> QED
        BY <2>2, <3>1, <4>1, <4>2, <4>3
    <3>3. CASE arg[c].op = "release"
      <4>1. Changed(c).assignee = Nobody
        BY <1>1, <3>3 DEF Changed, Task
      <4>2. claims'[u] = {}
        BY <1>1, <2>4, <3>3 DEF WriteTask, TypeOK
      <4> QED
        BY <3>1, <4>1, <4>2
    <3>4. CASE arg[c].op \notin {"claim", "release"}
      <4>1. Changed(c).assignee = copy[c].assignee
        BY <1>1, <3>4 DEF Changed, Task
      <4>2. claims'[u] = claims[u]
        BY <1>1, <2>4, <3>4 DEF WriteTask, TypeOK
      <4> QED
        BY <2>2, <3>1, <4>1, <4>2
    <3> QED
      BY <3>2, <3>3, <3>4
  <2> QED
    BY <2>3, <2>4
<1> QED
  BY <1>7, <1>8, <1>9, <1>10, <1>11, <1>12, <1>13

\* A lock runs out, a call dies, a call is thrown out.
LEMMA FailurePreserves ==
    ASSUME IInv,
           \/ \E c \in Calls : Crash(c) \/ Raise(c)
           \/ \E t \in Ids : Expire(t)
    PROVE  IInv'
<1> USE NobodyAssumption, TaskBoardBounds DEF IInv, shared, Goto, Fail
<1>1. ASSUME NEW t \in Ids, Expire(t)
      PROVE  IInv'
  <2>1. TypeOK' /\ ClaimersKnown'
    BY <1>1 DEF Expire, TypeOK, ClaimersKnown
  <2>2. LockHeld'
    BY <1>1 DEF Expire, LockHeld, TypeOK, Locked, Args
  <2>3. overrun \subseteq overrun' /\ UNCHANGED <<board, created, pc, arg, copy, met, claims, reopened>>
    BY <1>1 DEF Expire
  <2> QED
    BY <2>1, <2>2, <2>3
    DEF CopyFresh, DependenciesMet, Judged, Uncreated, OneClaim, DoneFor
<1>2. ASSUME NEW c \in Calls, Crash(c)
      PROVE  IInv'
  <2>0. /\ pc' = [pc EXCEPT ![c] = "dead"] /\ arg' = [arg EXCEPT ![c] = NoArg]
        /\ met' = [met EXCEPT ![c] = {}] /\ reopened' = [reopened EXCEPT ![c] = {}]
        /\ copy' = [copy EXCEPT ![c] = NewTask({})] /\ failures' = failures + 1
        /\ UNCHANGED <<board, created, lock, expired, claims, overrun>>
    BY <1>2 DEF Crash
  <2>1. TypeOK'
    BY <2>0, Blanks DEF TypeOK
  <2>2. ClaimersKnown' /\ LockHeld'
    BY <2>0, Blanks DEF TypeOK, ClaimersKnown, LockHeld, Locked
  <2>3. CopyFresh' /\ DependenciesMet' /\ Judged'
    BY <2>0 DEF TypeOK, CopyFresh, DependenciesMet, Judged, DoneFor, Judging
  <2> QED
    BY <1>2, <2>1, <2>2, <2>3 DEF Crash, Uncreated, OneClaim
<1>3. ASSUME NEW c \in Calls, Raise(c)
      PROVE  IInv'
  <2>1. TypeOK' /\ ClaimersKnown'
    BY <1>3 DEF Raise, TypeOK, ClaimersKnown, Locked
  <2>2. LockHeld'
    BY <1>3 DEF Raise, TypeOK, LockHeld, Locked
  <2>3. CopyFresh' /\ DependenciesMet' /\ Judged'
    BY <1>3 DEF Raise, TypeOK, CopyFresh, DependenciesMet, Judged, DoneFor, Judging
  <2> QED
    BY <1>3, <2>1, <2>2, <2>3 DEF Raise, Uncreated, OneClaim
<1> QED
  BY <1>1, <1>2, <1>3

\* Every step preserves the invariant.
LEMMA StepPreserves == IInv /\ [Next]_vars => IInv'
<1> SUFFICES ASSUME IInv, [Next]_vars PROVE IInv'
  OBVIOUS
<1>1. CASE Next
  BY <1>1, CreatePreserves, BeginStepPreserves, LockPreserves, ReadPreserves, WritePreserves,
     FailurePreserves DEF Next, TaskStep
<1>2. CASE UNCHANGED vars
  BY <1>2 DEF vars, shared, IInv, TypeOK, ClaimersKnown, LockHeld, CopyFresh, DependenciesMet, Judged,
     Uncreated, OneClaim, DoneFor
<1> QED
  BY <1>1, <1>2

\* The rows, the locks and the calls are well formed, every call behind a lock
\* holds it unless it has run out, and what it has read is what the board has.
THEOREM Invariance == Spec => []IInv
BY BoardInit, StepPreserves, PTL DEF Spec

\* A task is claimed by one agent at a time: claim_task refuses a task that is
\* assigned, and the lock keeps that refusal right until the row is written.
THEOREM Claims == Spec => []OneClaim
<1>1. IInv => OneClaim
  BY DEF IInv
<1> QED
  BY Invariance, <1>1, PTL

\* A claim is written behind its dependencies: _is_blocked found each completed
\* after the task was read, and one taken back before that refuses the claim.
THEOREM Dependent == Spec => DependenciesFirst
<1>1. ASSUME IInv, NEW c \in Calls, WriteTask(c), arg[c].op = "claim",
             NEW d \in board'[arg[c].task].deps
      PROVE  DoneFor(c, d)
  <2>1. copy[c] \in Task /\ arg[c].task \in Ids
    BY <1>1 DEF IInv, TypeOK, Args
  <2>2. board'[arg[c].task].deps = copy[c].deps
    BY <1>1, <2>1 DEF IInv, TypeOK, WriteTask, Changed, Task
  <2>3. pc[c] = "write" /\ met[c] = copy[c].deps
    BY <1>1 DEF IInv, Judged, WriteTask
  <2> QED
    BY <1>1, <2>2, <2>3 DEF IInv, DependenciesMet, Judging
<1>2. IInv /\ [Next]_vars =>
        [\A c \in Calls : WriteTask(c) /\ arg[c].op = "claim" =>
            \A d \in board'[arg[c].task].deps : DoneFor(c, d)]_vars
  BY <1>1
<1> QED
  BY Invariance, <1>2, PTL DEF Spec, DependenciesFirst

\* claim_task, release_task and update_status write back a row that nobody has
\* changed since they read it, as long as the lock has not run out.
THEOREM Updated == Spec => NoLostUpdate
<1>1. IInv /\ [Next]_vars =>
        [\A c \in Calls : WriteTask(c) /\ arg[c].task \notin overrun => copy[c] = board[arg[c].task]]_vars
  BY DEF IInv, CopyFresh, WriteTask, Judging
<1> QED
  BY Invariance, <1>1, PTL DEF Spec, NoLostUpdate
=============================================================================
