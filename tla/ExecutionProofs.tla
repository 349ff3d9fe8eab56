---------------------------- MODULE ExecutionProofs ----------------------------
(* Proofs of the safety properties of Execution.                             *)
EXTENDS Execution, TLAPS

\* A call of a batch belongs to the agent's own turn, and a batch is at hand
\* only while its answer is worked on.
Owned ==
    \A e \in Agents :
        /\ batch[e] \subseteq turn[e]
        /\ \A c \in turn[e] : OwnerOf[c] = e
        /\ pc[e] \notin {"answered", "calling", "deciding"} => batch[e] = {}

Recorded(e, cs) == \A c \in cs : work[c] = "recorded"

\* Where a run has the results of its calls: all of them when it asks, all but
\* those it works on when it calls, and all of them, unless it was told to stop,
\* between two iterations.
Results ==
    \A e \in Agents :
        /\ pc[e] \in {"taking", "asking", "waiting", "deciding"} => Recorded(e, turn[e])
        /\ pc[e] \in {"answered", "calling"} => Recorded(e, turn[e] \ batch[e])
        /\ pc[e] \in {"top", "iterating"} /\ ~stop[e] => Recorded(e, turn[e])
        /\ pc[e] = "answered" => \A c \in batch[e] : work[c] = "asked"
        /\ pc[e] = "calling" => \A c \in batch[e] : work[c] \in {"queued", "running", "delegated", "finished"}

\* A stop() that is about to return, or has, and did not give up waiting, has
\* seen the end of the run it was made in.
Final ==
    /\ stopper.run <= runs
    /\ stopper.at \in {"saving", "returned"} /\ ~stopper.late /\ stopper.run = runs => pc[Root] = "idle"

\* An attempt, and an iteration, is still to be had where one is made.
Counted ==
    \A e \in Agents :
        /\ pc[e] \in {"asking", "waiting", "taking"} => tries[e] < MaxAttempts
        /\ pc[e] \notin {"idle", "starting", "top", "ending", "closing"} => iteration[e] < MaxIterations

IInv == TypeOK /\ Counted /\ Owned /\ SerialAlone /\ Results /\ Final

USE ExecutionAssumption

\* The invariant holds when nothing has run yet.
LEMMA InitIInv == Init => IInv
  BY DEF Init, IInv, TypeOK, Counted, Owned, SerialAlone, Results, Recorded, Final

\* What an attempt that raises leads to.
LEMMA FailedStep ==
    ASSUME TypeOK, Counted, NEW e \in Agents, pc[e] \in {"asking", "waiting"}, Failed(e)
    PROVE  /\ tries' \in [Agents -> 0..MaxAttempts]
           /\ \A d \in Agents \ {e} : tries'[d] = tries[d]
           /\ \/ pc' = [pc EXCEPT ![e] = "ending"]
              \/ pc' = [pc EXCEPT ![e] = "asking"] /\ tries'[e] < MaxAttempts
           /\ reason' \in {reason, [reason EXCEPT ![e] = "success"], [reason EXCEPT ![e] = "error"]}
  <1>1. tries[e] + 1 \in 0..MaxAttempts
    BY DEF TypeOK, Counted
  <1>2. CASE stop[e]
    BY <1>2 DEF TypeOK, Failed, EndWith, Goto
  <1>3. CASE ~stop[e]
    <2>1. tries' = [tries EXCEPT ![e] = tries[e] + 1]
      BY <1>3 DEF Failed
    <2>2. tries' \in [Agents -> 0..MaxAttempts] /\ tries'[e] = tries[e] + 1
      BY <1>1, <2>1 DEF TypeOK
    <2>3. CASE tries'[e] = MaxAttempts
      BY <1>3, <2>1, <2>2, <2>3 DEF Failed, EndWith, Goto
    <2>4. CASE tries'[e] # MaxAttempts
      BY <1>1, <1>3, <2>1, <2>2, <2>4 DEF Failed, EndWith, Goto
    <2> QED
      BY <2>3, <2>4
  <1> QED
    BY <1>2, <1>3

\* Every step preserves the invariant.
LEMMA StepIInv == IInv /\ [Next]_vars => IInv'
  <1> SUFFICES ASSUME IInv, [Next]_vars PROVE IInv'
    OBVIOUS
  <1> USE DEF IInv, TypeOK, Counted, Owned, SerialAlone, Results, Recorded, Final, loop, Goto, EndWith, Rework, In
  <1>1. CASE Run
    BY <1>1 DEF Run
  <1>2. CASE Stop
    BY <1>2 DEF Stop, Told, Registered
  <1>3. CASE HardStop
    BY <1>3 DEF HardStop, Cleanup, Told, Registered
  <1>4. CASE StopStep
    <2>1. CASE StopTimeout
      BY <2>1 DEF StopTimeout, Cleanup, Told, Registered
    <2>2. CASE AwaitComplete
      BY <2>2 DEF AwaitComplete
    <2>3. CASE CompleteTimeout
      BY <2>3 DEF CompleteTimeout
    <2>4. CASE SaveStopped
      BY <2>4 DEF SaveStopped
    <2> QED
      BY <1>4, <2>1, <2>2, <2>3, <2>4 DEF StopStep
  <1>5. ASSUME NEW e \in Agents, LoopStep(e) PROVE IInv'
    <2>1. CASE Begin(e)
      BY <2>1 DEF Begin
    <2>2. CASE Top(e)
      <3>1. TypeOK'
        BY <2>2 DEF Top
      <3>2. Counted'
        BY <2>2 DEF Top
      <3>3. Owned'
        BY <2>2 DEF Top
      <3>4. SerialAlone'
        BY <2>2 DEF Top
      <3>5. Results'
        BY <2>2 DEF Top
      <3>6. Final'
        BY <2>2 DEF Top
      <3> QED
        BY <3>1, <3>2, <3>3, <3>4, <3>5, <3>6
    <2>3. CASE Take(e)
      BY <2>3 DEF Take
    <2>4. CASE Attempt(e)
      <3>1. /\ pc[e] = "asking"
            /\ UNCHANGED <<stop, iteration, turn, batch, work, queue, sent, closed, stopper, runs>>
            /\ \/ UNCHANGED tries /\ EndWith(e, "max_iterations")
               \/ UNCHANGED tries /\ EndWith(e, "success")
               \/ Failed(e)
               \/ UNCHANGED <<tries, reason>> /\ Goto(e, "waiting")
        BY <2>4 DEF Attempt
      <3>2. CASE Failed(e)
        <4>1. TypeOK'
          BY <3>1, <3>2, FailedStep, SMTT(40)
        <4>2. Counted'
          BY <3>1, <3>2, FailedStep
        <4>3. Owned'
          BY <3>1, <3>2, FailedStep
        <4>4. SerialAlone'
          BY <3>1, <3>2, FailedStep
        <4>5. Results'
          BY <3>1, <3>2, FailedStep
        <4>6. Final'
          BY <3>1, <3>2, FailedStep
        <4> QED
          BY <4>1, <4>2, <4>3, <4>4, <4>5, <4>6
      <3>3. CASE ~Failed(e)
        <4>1. TypeOK'
          BY <3>1, <3>3
        <4>2. Counted'
          BY <3>1, <3>3
        <4>3. Owned'
          BY <3>1, <3>3
        <4>4. SerialAlone'
          BY <3>1, <3>3
        <4>5. Results'
          BY <3>1, <3>3
        <4>6. Final'
          BY <3>1, <3>3
        <4> QED
          BY <4>1, <4>2, <4>3, <4>4, <4>5, <4>6
      <3> QED
        BY <3>2, <3>3
    <2>5. CASE Cancel(e)
      BY <2>5 DEF Cancel
    <2>6. CASE Dispatch(e)
      <3>1. TypeOK'
        BY <2>6 DEF Dispatch
      <3>2. Counted'
        BY <2>6 DEF Dispatch
      <3>3. Owned'
        BY <2>6 DEF Dispatch
      <3>4. SerialAlone'
        BY <2>6 DEF Dispatch
      <3>5. Results'
        BY <2>6 DEF Dispatch
      <3>6. Final'
        BY <2>6 DEF Dispatch
      <3> QED
        BY <3>1, <3>2, <3>3, <3>4, <3>5, <3>6
    <2>7. CASE Collect(e)
      BY <2>7 DEF Collect
    <2>8. CASE Interrupt(e)
      BY <2>8 DEF Interrupt
    <2>9. CASE Decide(e)
      BY <2>9 DEF Decide
    <2>10. CASE Iterate(e)
      BY <2>10 DEF Iterate
    <2>11. CASE Finalize(e)
      BY <2>11 DEF Finalize
    <2>12. CASE Close(e)
      BY <2>12 DEF Close
    <2> QED
      BY <1>5, <2>1, <2>2, <2>3, <2>4, <2>5, <2>6, <2>7, <2>8, <2>9, <2>10, <2>11, <2>12 DEF LoopStep
  <1>6. ASSUME NEW e \in Agents, ForceStop(e) PROVE IInv'
    BY <1>6 DEF ForceStop
  <1>7. ASSUME NEW e \in Agents, Reply(e) PROVE IInv'
    <2>1. CASE Fail(e)
      <3>1. pc[e] = "waiting" /\ Failed(e) /\ UNCHANGED <<stop, iteration, turn, batch, work, queue, sent, closed, stopper, runs>>
        BY <2>1 DEF Fail
      <3>2. TypeOK'
        BY <3>1, FailedStep
      <3>3. Counted'
        BY <3>1, FailedStep
      <3>4. Owned'
        BY <3>1, FailedStep
      <3>5. SerialAlone'
        BY <3>1, FailedStep
      <3>6. Results'
        BY <3>1, FailedStep
      <3>7. Final'
        BY <3>1, FailedStep
      <3> QED
        BY <3>2, <3>3, <3>4, <3>5, <3>6, <3>7
    <2>2. ASSUME NEW cs \in SUBSET Calls, Answer(e, cs) PROVE IInv'
      <3>1. TypeOK'
        BY <2>2 DEF Answer
      <3>2. Counted'
        BY <2>2 DEF Answer
      <3>3. Owned'
        BY <2>2 DEF Answer
      <3>4. SerialAlone'
        BY <2>2 DEF Answer
      <3>5. Results'
        BY <2>2 DEF Answer
      <3>6. Final'
        BY <2>2 DEF Answer
      <3> QED
        BY <3>1, <3>2, <3>3, <3>4, <3>5, <3>6
    <2> QED
      BY <1>7, <2>1, <2>2 DEF Reply
  <1>8. ASSUME NEW e \in Agents, Enqueue(e) PROVE IInv'
    BY <1>8 DEF Enqueue
  <1>9. ASSUME NEW c \in Calls, ToolStep(c) PROVE IInv'
    <2>1. CASE Launch(c)
      BY <2>1 DEF Launch
    <2>2. CASE Delegate(c)
      BY <2>2 DEF Delegate
    <2> QED
      BY <1>9, <2>1, <2>2 DEF ToolStep
  <1>10. ASSUME NEW c \in Calls, Return(c) PROVE IInv'
    BY <1>10 DEF Return
  <1>11. CASE UNCHANGED vars
    BY <1>11 DEF vars
  <1> QED
    BY <1>1, <1>2, <1>3, <1>4, <1>5, <1>6, <1>7, <1>8, <1>9, <1>10, <1>11 DEF Next

\* The counters, the owners of calls, the batches and the results of a run agree in
\* every state (executor.py: the loop of execute_async), whatever its size.
THEOREM Invariance == Spec => []IInv
  <1>1. Init => IInv
    BY InitIInv
  <1>2. IInv /\ [Next]_vars => IInv'
    BY StepIInv
  <1> QED
    BY <1>1, <1>2, PTL DEF Spec

\* The types, with the bounds of the two loops.
THEOREM TypeCorrect == Spec => []TypeOK
  <1>1. IInv => TypeOK
    BY DEF IInv, TypeOK
  <1> QED
    BY <1>1, Invariance, PTL

\* A serial tool never runs beside another call of its answer.
THEOREM SerialTools == Spec => []SerialAlone
  <1>1. IInv => SerialAlone
    BY DEF IInv, SerialAlone
  <1> QED
    BY <1>1, Invariance, PTL

\* The model is asked only when the run has the results of all its calls.
THEOREM ResultsBeforeAsking == Spec => []AsksOnlyWithResults
  <1>1. IInv => AsksOnlyWithResults
    BY DEF IInv, AsksOnlyWithResults, Results, Recorded
  <1> QED
    BY <1>1, Invariance, PTL

\* A stop() that did not give up waiting returns behind the end of its run.
THEOREM StopIsFinal == Spec => []StopResultIsFinal
  <1>1. IInv => StopResultIsFinal
    BY DEF IInv, StopResultIsFinal, Final
  <1> QED
    BY <1>1, Invariance, PTL

\* No attempt to call the model begins once the flags are set: only Attempt
\* begins one, and it looks at them.
THEOREM StopBeforeAttempt == Spec => NoAttemptAfterStop
  <1> DEFINE Deaf == \A e \in Agents : stop[e] /\ pc[e] # "waiting" => pc'[e] # "waiting"
  <1>1. ASSUME TypeOK, Counted, [Next]_vars PROVE Deaf
    <2>1. CASE UNCHANGED vars
      BY <2>1 DEF vars, loop
    <2>2. CASE Run \/ Stop \/ HardStop \/ StopStep
      BY <1>1, <2>2 DEF Run, Goto, Stop, HardStop, StopStep, StopTimeout, Cleanup, AwaitComplete, CompleteTimeout,
                        SaveStopped, loop, TypeOK
    <2>3. ASSUME NEW e \in Agents, LoopStep(e) PROVE Deaf
      <3>1. CASE Attempt(e)
        BY <1>1, <3>1, FailedStep DEF Attempt, EndWith, Goto, TypeOK
      <3> QED
        BY <1>1, <2>3, <3>1 DEF LoopStep, Begin, Top, Take, Cancel, Dispatch, Collect, Interrupt, Decide, Iterate,
                                Finalize, Close, EndWith, Goto, TypeOK
    <2>4. ASSUME NEW e \in Agents, ForceStop(e) \/ Enqueue(e) PROVE Deaf
      BY <1>1, <2>4 DEF ForceStop, Enqueue, EndWith, Goto, loop, TypeOK
    <2>5. ASSUME NEW e \in Agents, Reply(e) PROVE Deaf
      BY <1>1, <2>5, FailedStep DEF Reply, Fail, Answer, Goto, TypeOK
    <2>6. ASSUME NEW c \in Calls, ToolStep(c) \/ Return(c) PROVE Deaf
      BY <1>1, <2>6 DEF ToolStep, Launch, Delegate, Return, Goto, loop, TypeOK
    <2> QED
      BY <1>1, <2>1, <2>2, <2>3, <2>4, <2>5, <2>6 DEF Next
  <1>2. TypeOK /\ Counted /\ [Next]_vars => [Deaf]_vars
    BY <1>1
  <1>3. IInv => TypeOK /\ Counted
    BY DEF IInv
  <1>4. [][Deaf]_vars => NoAttemptAfterStop
    BY DEF NoAttemptAfterStop
  <1> QED
    BY <1>2, <1>3, <1>4, Invariance, PTL DEF Spec

\* A stop is obeyed: what stop() returns is final, and the model is asked no more.
THEOREM StopObeyed == Spec => StopIsObeyed
  BY StopIsFinal, StopBeforeAttempt, PTL DEF StopIsObeyed
==============================================================================
