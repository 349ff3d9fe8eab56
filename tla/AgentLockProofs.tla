--------------------------- MODULE AgentLockProofs ---------------------------
(***************************************************************************)
(* The lease argument of AgentLock, for every set of attempts, every TTL,  *)
(* heartbeat interval and delay within the assumptions, and any number of  *)
(* crashes, engine errors and forced releases.                             *)
(***************************************************************************)
EXTENDS AgentLock, TLAPS

\* Every variable keeps its type: the rows written carry attempts and times.
THEOREM TypeCorrect == Spec => []TypeOK
<1> USE CtorAssumption, LagAssumption, BoundsAssumption
<1>1. Init => TypeOK
  BY DEF Init, TypeOK, Row, NoRow, Beating, Acquiring
<1>2. TypeOK /\ [Next]_vars => TypeOK'
  <2> SUFFICES ASSUME TypeOK, [Next]_vars PROVE TypeOK'
    OBVIOUS
  <2> USE DEF TypeOK, Row, NoRow, Beating, Acquiring, hbVars, acqVars, history, Goto
  <2>1. ASSUME NEW r \in Runs, AcquireStep(r) PROVE TypeOK'
    <3>1. CASE Acquire(r) BY <3>1 DEF Acquire
    <3>2. CASE FindRow(r) BY <3>2 DEF FindRow
    <3>3. CASE Refuse(r) BY <3>3 DEF Refuse
    <3>4. CASE Proceed(r) BY <3>4 DEF Proceed
    <3>5. CASE DeleteExpired(r) BY <3>5 DEF DeleteExpired
    <3>6. CASE CreateLock(r) BY <3>6 DEF CreateLock
    <3>7. CASE Conflict(r) BY <3>7 DEF Conflict
    <3>8. CASE Replace(r) BY <3>8 DEF Replace, Evict
    <3> QED BY <2>1, <3>1, <3>2, <3>3, <3>4, <3>5, <3>6, <3>7, <3>8 DEF AcquireStep
  <2>2. ASSUME NEW r \in Runs, RunStep(r) PROVE TypeOK'
    <3>1. CASE HeartbeatFind(r) BY <3>1 DEF HeartbeatFind, FindAndExtend
    <3>2. CASE HeartbeatUpdate(r) BY <3>2 DEF HeartbeatUpdate, Evict
    <3>3. CASE Exit(r) BY <3>3 DEF Exit
    <3>4. CASE Release(r) BY <3>4 DEF Release
    <3>5. CASE ForceAfterRelease(r) BY <3>5 DEF ForceAfterRelease, Evict
    <3> QED BY <2>2, <3>1, <3>2, <3>3, <3>4, <3>5 DEF RunStep
  <2>3. ASSUME NEW r \in Runs, FailureStep(r) PROVE TypeOK'
    <3>1. CASE Crash(r) BY <3>1 DEF Crash
    <3>2. CASE EngineError(r) BY <3>2 DEF EngineError
    <3>3. CASE HeartbeatError(r) BY <3>3 DEF HeartbeatError
    <3> QED BY <2>3, <3>1, <3>2, <3>3 DEF FailureStep
  <2>4. CASE ForceRelease BY <2>4 DEF ForceRelease, Evict
  <2>5. CASE Tick BY <2>5 DEF Tick
  <2>6. CASE UNCHANGED vars BY <2>6 DEF vars
  <2> QED BY <2>1, <2>2, <2>3, <2>4, <2>5, <2>6 DEF Next
<1>3. QED BY <1>1, <1>2, PTL DEF Spec

------------------------------------------------------------------------------

\* The inductive invariant holds initially: nobody has acquired.
LEMMA InvInit == Init => IInv
<1> SUFFICES ASSUME Init PROVE IInv
  OBVIOUS
<1>1. TypeOK
  BY BoundsAssumption DEF Init, TypeOK, Row, NoRow, Beating, Acquiring
<1>2. HoldersHaveHeld /\ OnTime /\ RenewedInTime /\ SeenInTime
  BY DEF Init, HoldersHaveHeld, OnTime, RenewedInTime, SeenInTime, NoRow, Acquiring, Leased, Beating
<1> QED BY <1>1, <1>2 DEF IInv

\* A leased run's row outlives its next heartbeat by more than the delay.
LEMMA LeaseMargin ==
    ASSUME TypeOK, OnTime, RenewedInTime, NEW r \in Runs, Leased(r)
    PROVE  row.holder = r /\ row.exp > now + Lag
  BY CtorAssumption, LagAssumption DEF TypeOK, OnTime, RenewedInTime, Leased, Row, Beating

\* Nothing but its insert makes an attempt a leased run.
LEMMA AcquirePreserves ==
    ASSUME IInv, TypeOK', NEW r \in Runs, AcquireStep(r)
    PROVE  IInv'
<1> USE CtorAssumption, LagAssumption, BoundsAssumption
<1> USE DEF hbVars, acqVars, history, Goto, HasHeld, Leased
<1>0. TypeOK /\ HoldersHaveHeld /\ OnTime /\ RenewedInTime /\ SeenInTime
  BY DEF IInv
<1>1. CASE Acquire(r)
  <2>1. HoldersHaveHeld' BY <1>0, <1>1 DEF Acquire, HoldersHaveHeld, TypeOK, Row
  <2>2. OnTime' BY <1>0, <1>1 DEF Acquire, OnTime, TypeOK, Acquiring, Beating
  <2>3. RenewedInTime' BY <1>0, <1>1 DEF Acquire, RenewedInTime, TypeOK
  <2>4. SeenInTime' BY <1>0, <1>1 DEF Acquire, SeenInTime, TypeOK, Row
  <2> QED BY <2>1, <2>2, <2>3, <2>4 DEF IInv
<1>2. CASE FindRow(r)
  <2>1. HoldersHaveHeld' BY <1>0, <1>2 DEF FindRow, HoldersHaveHeld, TypeOK, Row
  <2>2. OnTime' BY <1>0, <1>2 DEF FindRow, OnTime, TypeOK, Acquiring, Beating
  <2>3. RenewedInTime' BY <1>0, <1>2 DEF FindRow, RenewedInTime, TypeOK
  <2>4. SeenInTime'
    <3> SUFFICES ASSUME NEW s \in Runs, (seen[s].holder # NoRun /\ Leased(seen[s].holder))'
                 PROVE  (pc[s] \in {"judge", "rejudge"} /\ seen[s].exp > started[s] + Lag)'
      BY DEF SeenInTime
    <3>1. CASE s = r
      BY <1>0, <1>2, <3>1, LeaseMargin DEF FindRow, OnTime, TypeOK, Row, Acquiring
    <3>2. CASE s # r BY <1>0, <1>2, <3>2 DEF FindRow, SeenInTime, TypeOK, Row
    <3> QED BY <3>1, <3>2
  <2> QED BY <2>1, <2>2, <2>3, <2>4 DEF IInv
<1>3. CASE Refuse(r) \/ Conflict(r)
  <2>1. HoldersHaveHeld' BY <1>0, <1>3 DEF Refuse, Conflict, HoldersHaveHeld, TypeOK, Row, NoRow
  <2>2. OnTime' BY <1>0, <1>3 DEF Refuse, Conflict, OnTime, TypeOK, Acquiring, Beating
  <2>3. RenewedInTime' BY <1>0, <1>3 DEF Refuse, Conflict, RenewedInTime, TypeOK
  <2>4. SeenInTime'
    <3>1. seen' = [seen EXCEPT ![r] = NoRow] /\ (\A s \in Runs : s # r => pc'[s] = pc[s] /\ started'[s] = started[s])
      BY <1>0, <1>3 DEF Refuse, Conflict, TypeOK
    <3>2. \A s \in Runs : Leased(s)' => Leased(s)
      BY <1>0, <1>3 DEF Refuse, Conflict, TypeOK
    <3> QED BY <1>0, <3>1, <3>2 DEF SeenInTime, TypeOK, Row, NoRow
  <2> QED BY <2>1, <2>2, <2>3, <2>4 DEF IInv
<1>4. CASE Proceed(r)
  <2>1. HoldersHaveHeld' BY <1>0, <1>4 DEF Proceed, HoldersHaveHeld, TypeOK, Row
  <2>2. OnTime' BY <1>0, <1>4 DEF Proceed, OnTime, TypeOK, Acquiring, Beating
  <2>3. RenewedInTime' BY <1>0, <1>4 DEF Proceed, RenewedInTime, TypeOK
  <2>4. SeenInTime' BY <1>0, <1>4 DEF Proceed, SeenInTime, OnTime, Valid, TypeOK, Row, Acquiring
  <2> QED BY <2>1, <2>2, <2>3, <2>4 DEF IInv
<1>5. CASE DeleteExpired(r)
  <2>1. HoldersHaveHeld' BY <1>0, <1>5 DEF DeleteExpired, HoldersHaveHeld, TypeOK, Row, NoRow
  <2>2. OnTime' BY <1>0, <1>5 DEF DeleteExpired, OnTime, TypeOK, Acquiring, Beating
  <2>3. RenewedInTime'
    <3>1. ASSUME NEW s \in Runs, Leased(s) PROVE row' = row
      BY <1>0, <1>5, <3>1, LeaseMargin DEF DeleteExpired, OnTime, TypeOK, Row, Acquiring
    <3> QED BY <1>0, <1>5, <3>1 DEF DeleteExpired, RenewedInTime, TypeOK
  <2>4. SeenInTime' BY <1>0, <1>5 DEF DeleteExpired, SeenInTime, TypeOK, Row, NoRow
  <2> QED BY <2>1, <2>2, <2>3, <2>4 DEF IInv
<1>6. CASE CreateLock(r)
  <2>1. HoldersHaveHeld' BY <1>0, <1>6 DEF CreateLock, HoldersHaveHeld, TypeOK, Row, NoRow
  <2>2. OnTime' BY <1>0, <1>6 DEF CreateLock, OnTime, TypeOK, Acquiring, Beating
  <2>3. RenewedInTime'
    <3> SUFFICES ASSUME NEW s \in Runs, Leased(s)'
                 PROVE  (/\ row.holder = s
                         /\ row.exp >= wake[s] + TTL - HBInterval - Lag
                         /\ hb[s] = "extend" => newExp[s] >= wake[s] + TTL)'
      BY DEF RenewedInTime
    <3>1. s = r BY <1>0, <1>6 DEF CreateLock, RenewedInTime, TypeOK
    <3> QED BY <1>0, <1>6, <3>1 DEF CreateLock, OnTime, TypeOK, Acquiring
  <2>4. SeenInTime'
    <3>1. ASSUME NEW s \in Runs, seen[s].holder # NoRun PROVE seen[s].holder # r
      BY <1>0, <1>6, <3>1 DEF CreateLock, HoldersHaveHeld
    <3> QED BY <1>0, <1>6, <3>1 DEF CreateLock, SeenInTime, TypeOK, Row, NoRow
  <2> QED BY <2>1, <2>2, <2>3, <2>4 DEF IInv
<1>7. CASE Replace(r)
  <2>1. HoldersHaveHeld' BY <1>0, <1>7 DEF Replace, HoldersHaveHeld, TypeOK, Row, NoRow
  <2>2. OnTime' BY <1>0, <1>7 DEF Replace, OnTime, TypeOK, Acquiring, Beating
  <2>3. RenewedInTime'
    <3>1. ASSUME NEW s \in Runs, Leased(s)' PROVE FALSE
      BY <1>0, <1>7, <3>1 DEF Replace, Evict, RenewedInTime, SeenInTime, TypeOK, Row
    <3> QED BY <3>1 DEF RenewedInTime
  <2>4. SeenInTime' BY <1>0, <1>7 DEF Replace, Evict, SeenInTime, TypeOK, Row
  <2> QED BY <2>1, <2>2, <2>3, <2>4 DEF IInv
<1> QED BY <1>1, <1>2, <1>3, <1>4, <1>5, <1>6, <1>7 DEF AcquireStep

\* Heartbeats renew the lease in time; leaving the run ends it.
LEMMA RunPreserves ==
    ASSUME IInv, TypeOK', NEW r \in Runs, RunStep(r)
    PROVE  IInv'
<1> USE CtorAssumption, LagAssumption, BoundsAssumption
<1> USE DEF hbVars, acqVars, history, Goto, HasHeld, Leased
<1>0. TypeOK /\ HoldersHaveHeld /\ OnTime /\ RenewedInTime /\ SeenInTime
  BY DEF IInv
<1>1. CASE HeartbeatFind(r)
  <2> USE DEF HeartbeatFind, FindAndExtend
  <2>1. HoldersHaveHeld' BY <1>0, <1>1 DEF HoldersHaveHeld, TypeOK, Row
  <2>2. OnTime' BY <1>0, <1>1 DEF OnTime, TypeOK, Acquiring, Beating
  <2>3. RenewedInTime' BY <1>0, <1>1 DEF RenewedInTime, TypeOK, Beating
  <2>4. SeenInTime' BY <1>0, <1>1 DEF SeenInTime, TypeOK, Row, Beating
  <2> QED BY <2>1, <2>2, <2>3, <2>4 DEF IInv
<1>2. CASE HeartbeatUpdate(r)
  <2> USE DEF HeartbeatUpdate, Evict
  <2>1. HoldersHaveHeld' BY <1>0, <1>2 DEF HoldersHaveHeld, TypeOK, Row
  <2>2. OnTime' BY <1>0, <1>2 DEF OnTime, TypeOK, Acquiring, Beating
  <2>3. RenewedInTime'
    <3> SUFFICES ASSUME NEW s \in Runs, Leased(s)'
                 PROVE  (/\ row.holder = s
                         /\ row.exp >= wake[s] + TTL - HBInterval - Lag
                         /\ hb[s] = "extend" => newExp[s] >= wake[s] + TTL)'
      BY DEF RenewedInTime
    <3>1. s = r BY <1>0, <1>2 DEF RenewedInTime, TypeOK, Row, Beating
    <3> QED BY <1>0, <1>2, <3>1 DEF RenewedInTime, OnTime, TypeOK, Beating
  <2>4. SeenInTime' BY <1>0, <1>2 DEF SeenInTime, TypeOK, Row, Beating
  <2> QED BY <2>1, <2>2, <2>3, <2>4 DEF IInv
<1>3. CASE Exit(r)
  <2>1. HoldersHaveHeld' BY <1>0, <1>3 DEF Exit, HoldersHaveHeld, TypeOK, Row
  <2>2. OnTime' BY <1>0, <1>3 DEF Exit, OnTime, TypeOK, Acquiring, Beating
  <2>3. RenewedInTime' BY <1>0, <1>3 DEF Exit, RenewedInTime, TypeOK
  <2>4. SeenInTime' BY <1>0, <1>3 DEF Exit, SeenInTime, TypeOK, Row
  <2> QED BY <2>1, <2>2, <2>3, <2>4 DEF IInv
<1>4. CASE Release(r)
  <2>1. HoldersHaveHeld' BY <1>0, <1>4 DEF Release, HoldersHaveHeld, TypeOK, Row, NoRow
  <2>2. OnTime' BY <1>0, <1>4 DEF Release, OnTime, TypeOK, Acquiring, Beating
  <2>3. RenewedInTime' BY <1>0, <1>4 DEF Release, RenewedInTime, TypeOK
  <2>4. SeenInTime' BY <1>0, <1>4 DEF Release, SeenInTime, TypeOK, Row
  <2> QED BY <2>1, <2>2, <2>3, <2>4 DEF IInv
<1>5. CASE ForceAfterRelease(r)
  <2>1. HoldersHaveHeld' BY <1>0, <1>5 DEF ForceAfterRelease, HoldersHaveHeld, TypeOK, Row, NoRow
  <2>2. OnTime' BY <1>0, <1>5 DEF ForceAfterRelease, OnTime, TypeOK, Acquiring, Beating
  <2>3. RenewedInTime'
    BY <1>0, <1>5 DEF ForceAfterRelease, Evict, RenewedInTime, TypeOK
  <2>4. SeenInTime' BY <1>0, <1>5 DEF ForceAfterRelease, Evict, SeenInTime, TypeOK, Row
  <2> QED BY <2>1, <2>2, <2>3, <2>4 DEF IInv
<1> QED BY <1>1, <1>2, <1>3, <1>4, <1>5 DEF RunStep

\* A crash or an engine error ends a lease and renews none.
LEMMA FailurePreserves ==
    ASSUME IInv, TypeOK', NEW r \in Runs, FailureStep(r)
    PROVE  IInv'
<1> USE CtorAssumption, LagAssumption, BoundsAssumption
<1> USE DEF hbVars, acqVars, history, Goto, HasHeld, Leased
<1>0. TypeOK /\ HoldersHaveHeld /\ OnTime /\ RenewedInTime /\ SeenInTime
  BY DEF IInv
<1>1. CASE Crash(r)
  <2>1. HoldersHaveHeld' BY <1>0, <1>1 DEF Crash, HoldersHaveHeld, TypeOK, Row, NoRow
  <2>2. OnTime' BY <1>0, <1>1 DEF Crash, OnTime, TypeOK, Acquiring, Beating
  <2>3. RenewedInTime' BY <1>0, <1>1 DEF Crash, RenewedInTime, TypeOK
  <2>4. SeenInTime'
    <3>1. /\ seen' = [seen EXCEPT ![r] = NoRow]
          /\ \A s \in Runs : s # r => pc'[s] = pc[s] /\ started'[s] = started[s]
      BY <1>0, <1>1 DEF Crash, TypeOK
    <3>2. \A s \in Runs : Leased(s)' => Leased(s)
      BY <1>0, <1>1 DEF Crash, TypeOK
    <3> QED BY <1>0, <3>1, <3>2 DEF SeenInTime, TypeOK, Row, NoRow
  <2> QED BY <2>1, <2>2, <2>3, <2>4 DEF IInv
<1>2. CASE EngineError(r)
  <2>1. HoldersHaveHeld' BY <1>0, <1>2 DEF EngineError, HoldersHaveHeld, TypeOK, Row, NoRow
  <2>2. OnTime' BY <1>0, <1>2 DEF EngineError, OnTime, TypeOK, Acquiring, Beating
  <2>3. RenewedInTime' BY <1>0, <1>2 DEF EngineError, RenewedInTime, TypeOK
  <2>4. SeenInTime'
    <3>1. /\ seen' = [seen EXCEPT ![r] = NoRow]
          /\ \A s \in Runs : s # r => pc'[s] = pc[s] /\ started'[s] = started[s]
      BY <1>0, <1>2 DEF EngineError, TypeOK
    <3>2. \A s \in Runs : Leased(s)' => Leased(s)
      BY <1>0, <1>2 DEF EngineError, TypeOK
    <3> QED BY <1>0, <3>1, <3>2 DEF SeenInTime, TypeOK, Row, NoRow
  <2> QED BY <2>1, <2>2, <2>3, <2>4 DEF IInv
<1>3. CASE HeartbeatError(r)
  <2>1. HoldersHaveHeld' BY <1>0, <1>3 DEF HeartbeatError, HoldersHaveHeld, TypeOK, Row
  <2>2. OnTime' BY <1>0, <1>3 DEF HeartbeatError, OnTime, TypeOK, Acquiring, Beating
  <2>3. RenewedInTime' BY <1>0, <1>3 DEF HeartbeatError, RenewedInTime, TypeOK, Beating
  <2>4. SeenInTime' BY <1>0, <1>3 DEF HeartbeatError, SeenInTime, TypeOK, Row, Beating
  <2> QED BY <2>1, <2>2, <2>3, <2>4 DEF IInv
<1> QED BY <1>1, <1>2, <1>3 DEF FailureStep

\* The clock waits for what is due, and a forced release evicts.
LEMMA StepPreserves == IInv /\ TypeOK' /\ [Next]_vars => IInv'
<1> SUFFICES ASSUME IInv, TypeOK', [Next]_vars PROVE IInv'
  OBVIOUS
<1> USE CtorAssumption, LagAssumption, BoundsAssumption
<1> USE DEF hbVars, acqVars, history, HasHeld, Leased
<1>0. TypeOK /\ HoldersHaveHeld /\ OnTime /\ RenewedInTime /\ SeenInTime
  BY DEF IInv
<1>1. CASE ForceRelease
  <2>1. HoldersHaveHeld' BY <1>0, <1>1 DEF ForceRelease, HoldersHaveHeld, TypeOK, Row, NoRow
  <2>2. OnTime' BY <1>0, <1>1 DEF ForceRelease, OnTime, TypeOK
  <2>3. RenewedInTime' BY <1>0, <1>1 DEF ForceRelease, Evict, RenewedInTime, TypeOK
  <2>4. SeenInTime' BY <1>0, <1>1 DEF ForceRelease, Evict, SeenInTime, TypeOK, Row
  <2> QED BY <2>1, <2>2, <2>3, <2>4 DEF IInv
<1>2. CASE Tick
  <2>1. HoldersHaveHeld' BY <1>0, <1>2 DEF Tick, HoldersHaveHeld
  <2>2. OnTime' BY <1>0, <1>2 DEF Tick, Urgent, OnTime, TypeOK
  <2>3. RenewedInTime' BY <1>0, <1>2 DEF Tick, RenewedInTime
  <2>4. SeenInTime' BY <1>0, <1>2 DEF Tick, SeenInTime
  <2> QED BY <2>1, <2>2, <2>3, <2>4 DEF IInv
<1>3. CASE UNCHANGED vars
  BY <1>0, <1>3 DEF vars, IInv, HoldersHaveHeld, OnTime, RenewedInTime, SeenInTime
<1> QED BY <1>1, <1>2, <1>3, AcquirePreserves, RunPreserves, FailurePreserves DEF Next

------------------------------------------------------------------------------

\* The inductive invariant: a leased run's row is its own and is renewed in
\* time, and what an attempt read of it has not expired when it is judged.
THEOREM Invariance == Spec => []IInv
<1>1. IInv /\ TypeOK' /\ [Next]_vars => IInv'
  BY StepPreserves
<1> QED BY InvInit, <1>1, TypeCorrect, PTL DEF Spec

\* The lease of a run whose heartbeat lives and whom nobody evicted never
\* lapses (_heartbeat_loop is fast enough for _find_valid_lock).
THEOREM LeaseHeld == Spec => []LeaseNeverLapses
<1>1. IInv => LeaseNeverLapses
  <2> SUFFICES ASSUME IInv, NEW r \in Runs, Leased(r)
               PROVE  row.holder = r /\ row.exp > now
    BY DEF LeaseNeverLapses
  <2>1. row.holder = r /\ row.exp > now + Lag
    BY LeaseMargin DEF IInv
  <2> QED BY <2>1, LagAssumption DEF IInv, TypeOK, Row
<1> QED BY <1>1, Invariance, PTL

\* Two runs of one agent overlap only after an eviction or a dead heartbeat
\* ("Only one execution per (session_id, agent_id) at a time", with its
\* conditions).
THEOREM Exclusion == Spec => []OneLeasedRun
<1>1. IInv => OneLeasedRun
  BY DEF IInv, RenewedInTime, OneLeasedRun
<1> QED BY <1>1, Invariance, PTL

\* No acquire() judges the lock of a leased run expired, though it judges an
\* older copy of the row.
THEOREM JudgedRight == Spec => NoLeasedRunJudgedExpired
<1>1. IInv /\ [Next]_vars =>
        [\A r \in Runs : Proceed(r) /\ seen[r].holder # NoRun => ~Leased(seen[r].holder)]_vars
  <2> SUFFICES ASSUME IInv, NEW r \in Runs, Proceed(r), seen[r].holder # NoRun,
                      Leased(seen[r].holder)
               PROVE  FALSE
    OBVIOUS
  <2> QED BY LagAssumption DEF IInv, SeenInTime, OnTime, Proceed, Valid, TypeOK, Row, Acquiring
<1> QED BY <1>1, Invariance, PTL DEF Spec, NoLeasedRunJudgedExpired

\* The bound on what a dead or failed run leaves behind is inductive with the
\* bound on the leases still alive.
LEMMA LeaseLengthStep == IInv /\ LeaseLength /\ [Next]_vars => LeaseLength'
<1> SUFFICES ASSUME IInv, LeaseLength, [Next]_vars PROVE LeaseLength'
  OBVIOUS
<1> USE CtorAssumption, LagAssumption, BoundsAssumption
<1> USE DEF hbVars, acqVars, history, Goto, HasHeld, LeaseLength, FastRecovery, TypeOK, Row, NoRow
<1>0. TypeOK /\ HoldersHaveHeld /\ OnTime
  BY DEF IInv
<1>1. ASSUME NEW r \in Runs, AcquireStep(r) PROVE LeaseLength'
  <2>1. CASE Acquire(r) BY <1>0, <2>1 DEF Acquire, HoldersHaveHeld
  <2>2. CASE FindRow(r) BY <1>0, <2>2 DEF FindRow, HoldersHaveHeld
  <2>3. CASE Refuse(r) BY <1>0, <2>3 DEF Refuse, HoldersHaveHeld
  <2>4. CASE Proceed(r) BY <1>0, <2>4 DEF Proceed, HoldersHaveHeld
  <2>5. CASE DeleteExpired(r) BY <1>0, <2>5 DEF DeleteExpired, HoldersHaveHeld
  <2>6. CASE CreateLock(r) BY <1>0, <2>6 DEF CreateLock, OnTime, Acquiring
  <2>7. CASE Conflict(r) BY <1>0, <2>7 DEF Conflict, HoldersHaveHeld
  <2>8. CASE Replace(r) BY <1>0, <2>8 DEF Replace, HoldersHaveHeld
  <2> QED BY <1>1, <2>1, <2>2, <2>3, <2>4, <2>5, <2>6, <2>7, <2>8 DEF AcquireStep
<1>2. ASSUME NEW r \in Runs, RunStep(r) PROVE LeaseLength'
  <2>1. CASE HeartbeatFind(r) BY <1>0, <2>1 DEF HeartbeatFind, FindAndExtend
  <2>2. CASE HeartbeatUpdate(r) BY <1>0, <2>2 DEF HeartbeatUpdate
  <2>3. CASE Exit(r) BY <1>0, <2>3 DEF Exit
  <2>4. CASE Release(r) BY <1>0, <2>4 DEF Release
  <2>5. CASE ForceAfterRelease(r) BY <1>0, <2>5 DEF ForceAfterRelease
  <2> QED BY <1>2, <2>1, <2>2, <2>3, <2>4, <2>5 DEF RunStep
<1>3. ASSUME NEW r \in Runs, FailureStep(r) PROVE LeaseLength'
  <2>1. CASE Crash(r) BY <1>0, <2>1 DEF Crash, HoldersHaveHeld, Acquiring
  <2>2. CASE EngineError(r) BY <1>0, <2>2 DEF EngineError, HoldersHaveHeld
  <2>3. CASE HeartbeatError(r) BY <1>0, <2>3 DEF HeartbeatError
  <2> QED BY <1>3, <2>1, <2>2, <2>3 DEF FailureStep
<1>4. CASE ForceRelease BY <1>0, <1>4 DEF ForceRelease
<1>5. CASE Tick BY <1>0, <1>5 DEF Tick
<1>6. CASE UNCHANGED vars BY <1>6 DEF vars
<1> QED BY <1>1, <1>2, <1>3, <1>4, <1>5, <1>6 DEF Next

\* An agent is blocked by a run that is gone for at most lock_ttl after its
\* end (agent.py: "Fast recovery: max 30s deadlock time even if release fails").
THEOREM Recovery == Spec => []FastRecovery
<1>1. Init => LeaseLength
  BY BoundsAssumption DEF Init, LeaseLength, FastRecovery, NoRow
<1>2. LeaseLength => FastRecovery
  BY DEF LeaseLength
<1> QED BY <1>1, <1>2, LeaseLengthStep, Invariance, PTL DEF Spec
=============================================================================
