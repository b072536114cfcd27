--------------------- MODULE IntegrationLifecycleProofs ---------------------
(***************************************************************************)
(* Proofs about IntegrationLifecycle: a throw-away stack is destroyed once *)
(* and not too early, and the exit code of the process tells what happened.*)
(***************************************************************************)
EXTENDS IntegrationLifecycle, TLAPS

(* What each variable may hold; the history of destroys is what the stage  *)
(* of the operation tells.                                                 *)
TypeOK ==
  /\ command \in {"run", "deploy", "destroy"}
  /\ op \in [Operations ->
               {"idle", "preparing", "running", "cleaning"} \cup Outcomes]
  /\ op["tests"] \in {"idle", "running"} \cup Outcomes
  /\ active \in Operations \cup {None}
  /\ child \in Operations \cup {None}
  /\ stopped \subseteq Operations
  /\ runner \in Operations \cup {"returned", "threw"}
  /\ handler \in {"none", "stopping", "destroying", "done"}
  /\ waitsFor \in Operations \cup {None}
  /\ listening \subseteq Signals
  /\ code \in {None, 130, 143}
  /\ process \in {Alive, Killed, 0, 1, 130, 143}
  /\ destroys = IF op["destroy"] = "idle" THEN 0 ELSE 1

(* Only a run listens, and the handler begins with the exit code.          *)
OnlyRunsListen ==
  /\ code = None <=> handler = "none"
  /\ command # "run" =>
       /\ listening = {} /\ handler = "none"
       /\ runner \in {command, "returned", "threw"}

(* Where the runner of a complete run is tells how far the operations are. *)
RunnerFollowsOperations ==
  /\ op["tests"] # "idle" => op["deploy"] = "succeeded"
  /\ command = "run" =>
       /\ op["deploy"] # "idle"
       /\ runner = "deploy" => op["tests"] = "idle" /\ destroys = 0
       /\ runner = "tests" => op["tests"] # "idle"
       /\ runner = "destroy" => destroys = 1
       /\ runner \in {"destroy", "returned"} =>
            \/ op["deploy"] = "failed" /\ op["tests"] = "idle"
            \/ op["tests"] \in {"succeeded", "failed"}
       /\ runner = "threw" => Ended("deploy")

(* What was awaited last has ended without a rejection.                    *)
ReturnedAfterItsOperation ==
  runner = "returned" =>
    op[IF command = "deploy" THEN "deploy" ELSE "destroy"]
      \in {"succeeded", "failed"}

(* activeOperation is the deployment until it ends, and then the tests     *)
(* unless the stack is being destroyed.                                    *)
ActiveOperationIsLatest ==
  command = "run" =>
    /\ ~Ended("deploy") => active = "deploy"
    /\ op["tests"] = "running" /\ destroys = 0 => active = "tests"

(* The handler awaits an operation that was under way, the deployment if   *)
(* that has not ended, and destroys the stack before it goes on.           *)
HandlerAwaitsInterrupted ==
  /\ handler = "stopping" =>
       waitsFor \in {"deploy", "tests"} /\ op[waitsFor] # "idle"
  /\ handler = "stopping" /\ ~Ended("deploy") => waitsFor = "deploy"
  /\ handler \in {"destroying", "done"} => destroys = 1
  /\ handler = "done" => process # Alive

(* None of the three properties is inductive: whether destroy may start    *)
(* depends on what the runner and the handler have awaited before.         *)
LifecycleInv ==
  /\ TypeOK
  /\ OnlyRunsListen
  /\ RunnerFollowsOperations
  /\ ReturnedAfterItsOperation
  /\ ActiveOperationIsLatest
  /\ HandlerAwaitsInterrupted
  /\ TeardownOnceAfterDeployment
  /\ TestsKeepTheirStack
  /\ ExitCodeIsHonest

-----------------------------------------------------------------------------
LEMMA InitLifecycleInv == Init => LifecycleInv
<1> SUFFICES ASSUME Init PROVE LifecycleInv
  OBVIOUS
<1>1. TypeOK
  BY LifecycleAssumption
     DEF Init, TypeOK, Operations, Signals, Outcomes, Idle
<1>2. OnlyRunsListen
  BY DEF Init, OnlyRunsListen
<1>3. RunnerFollowsOperations /\ ReturnedAfterItsOperation
  BY DEF Init, RunnerFollowsOperations, ReturnedAfterItsOperation, Operations,
         Idle
<1>4. ActiveOperationIsLatest /\ HandlerAwaitsInterrupted
  BY DEF Init, ActiveOperationIsLatest, HandlerAwaitsInterrupted, Operations,
         Idle
<1>5. TeardownOnceAfterDeployment /\ TestsKeepTheirStack /\ ExitCodeIsHonest
  BY LifecycleAssumption
     DEF Init, TeardownOnceAfterDeployment, TestsKeepTheirStack,
         ExitCodeIsHonest, Operations, Idle
<1>6. QED
  BY <1>1, <1>2, <1>3, <1>4, <1>5 DEF LifecycleInv

(* Steps of the handler and signals leave the operations to themselves.    *)
LEMMA OperationsUntouched ==
  ASSUME LifecycleInv, UNCHANGED <<command, runner, opVars>>
  PROVE  /\ RunnerFollowsOperations' /\ ReturnedAfterItsOperation'
         /\ ActiveOperationIsLatest' /\ TeardownOnceAfterDeployment'
BY DEF LifecycleInv, RunnerFollowsOperations, ReturnedAfterItsOperation,
       ActiveOperationIsLatest, TeardownOnceAfterDeployment, Ended, opVars

LEMMA AliveIsHonest == process' = Alive => ExitCodeIsHonest'
BY LifecycleAssumption DEF ExitCodeIsHonest

(* The tests start when the deployment succeeded, before any destroy.      *)
LEMMA RunnerTestsKeeps ==
  ASSUME LifecycleInv, process = Alive, RunnerReady, RunnerTests
  PROVE  LifecycleInv'
<1> USE DEF LifecycleInv, RunnerTests
<1>1. TypeOK'
  BY DEF TypeOK, Operations, Outcomes, handlerVars, Execute, Await
<1>2. OnlyRunsListen'
  BY DEF OnlyRunsListen, handlerVars, Await
<1>3. RunnerFollowsOperations'
  BY DEF TypeOK, RunnerFollowsOperations, Operations, Outcomes, Ended, Execute,
         Await
<1>4. ReturnedAfterItsOperation'
  BY DEF ReturnedAfterItsOperation, Await
<1>5. ActiveOperationIsLatest'
  BY DEF TypeOK, ActiveOperationIsLatest, Operations, Outcomes, Ended,
         RunnerReady, Execute
<1>6. HandlerAwaitsInterrupted'
  BY DEF TypeOK, HandlerAwaitsInterrupted, Operations, Outcomes, Ended,
         handlerVars, Execute, Await
<1>7. TeardownOnceAfterDeployment'
  BY DEF RunnerFollowsOperations, TeardownOnceAfterDeployment, Execute
<1>8. TestsKeepTheirStack'
  BY DEF RunnerFollowsOperations, TestsKeepTheirStack, Execute
<1>9. ExitCodeIsHonest'
  BY AliveIsHonest DEF Await
<1>10. QED
  BY <1>1, <1>2, <1>3, <1>4, <1>5, <1>6, <1>7, <1>8, <1>9

(* The runner destroys after a failed deployment or after the tests.       *)
LEMMA RunnerDestroysKeeps ==
  ASSUME LifecycleInv, process = Alive, RunnerReady, RunnerDestroys
  PROVE  LifecycleInv'
<1> USE DEF LifecycleInv, RunnerDestroys
<1>1. TypeOK'
  BY DEF TypeOK, Operations, Outcomes, opVars, handlerVars, DestroyOnce,
         Execute, Await
<1>2. OnlyRunsListen'
  BY DEF OnlyRunsListen, handlerVars, Await
<1>3. RunnerFollowsOperations'
  BY DEF TypeOK, RunnerFollowsOperations, Operations, opVars, DestroyOnce,
         Execute, Await
<1>4. ReturnedAfterItsOperation'
  BY DEF ReturnedAfterItsOperation, Await
<1>5. ActiveOperationIsLatest'
  BY DEF TypeOK, RunnerFollowsOperations, ActiveOperationIsLatest, Operations,
         Ended, opVars, DestroyOnce, Execute
<1>6. HandlerAwaitsInterrupted'
  BY DEF TypeOK, HandlerAwaitsInterrupted, Operations, Ended, opVars,
         handlerVars, DestroyOnce, Execute, Await
<1>7. TeardownOnceAfterDeployment'
  BY DEF TypeOK, RunnerFollowsOperations, TeardownOnceAfterDeployment,
         Operations, Ended, opVars, DestroyOnce, Execute
<1>8. TestsKeepTheirStack'
  BY DEF TypeOK, RunnerFollowsOperations, TestsKeepTheirStack, Operations,
         opVars, DestroyOnce, Execute
<1>9. ExitCodeIsHonest'
  BY AliveIsHonest DEF Await
<1>10. QED
  BY <1>1, <1>2, <1>3, <1>4, <1>5, <1>6, <1>7, <1>8, <1>9

(* The runner returns or throws after its last operation.                  *)
LEMMA RunnerEndsKeeps ==
  ASSUME LifecycleInv, process = Alive, RunnerReady, RunnerEnds
  PROVE  LifecycleInv'
<1> USE DEF LifecycleInv, RunnerEnds
<1>1. TypeOK'
  BY DEF TypeOK, opVars, handlerVars
<1>2. OnlyRunsListen'
  BY DEF OnlyRunsListen, handlerVars
<1>3. RunnerFollowsOperations'
  BY DEF RunnerFollowsOperations, Outcomes, Ended, opVars
<1>4. ReturnedAfterItsOperation'
  BY DEF OnlyRunsListen, ReturnedAfterItsOperation, Operations, Outcomes,
         Ended, opVars, RunnerReady
<1>5. ActiveOperationIsLatest'
  BY DEF ActiveOperationIsLatest, Ended, opVars
<1>6. HandlerAwaitsInterrupted'
  BY DEF HandlerAwaitsInterrupted, Ended, opVars, handlerVars
<1>7. TeardownOnceAfterDeployment'
  BY DEF TeardownOnceAfterDeployment, Ended, opVars
<1>8. TestsKeepTheirStack'
  BY DEF TestsKeepTheirStack, opVars, handlerVars
<1>9. ExitCodeIsHonest'
  BY AliveIsHonest
<1>10. QED
  BY <1>1, <1>2, <1>3, <1>4, <1>5, <1>6, <1>7, <1>8, <1>9

(* The handler destroys when what it awaited has ended.  Tests that run    *)
(* then are not what it awaited, so it awaited the deployment.             *)
LEMMA HandlerContinuesKeeps ==
  ASSUME LifecycleInv, HandlerContinues
  PROVE  LifecycleInv'
<1> USE DEF LifecycleInv, HandlerContinues
<1>1. TypeOK'
  BY DEF TypeOK, OnlyRunsListen, Operations, Outcomes, opVars, DestroyOnce,
         Execute
<1>2. OnlyRunsListen'
  BY DEF OnlyRunsListen
<1>3. RunnerFollowsOperations'
  BY LifecycleAssumption
     DEF TypeOK, RunnerFollowsOperations, HandlerAwaitsInterrupted,
         Operations, Ended, opVars, RunnerReady, HandlerReady, DestroyOnce,
         Execute
<1>4. ReturnedAfterItsOperation'
  BY DEF TypeOK, ReturnedAfterItsOperation, Operations, opVars, DestroyOnce,
         Execute
<1>5. ActiveOperationIsLatest'
  BY LifecycleAssumption
     DEF TypeOK, ActiveOperationIsLatest, HandlerAwaitsInterrupted,
         Operations, Ended, opVars, HandlerReady, DestroyOnce, Execute
<1>6. HandlerAwaitsInterrupted'
  BY LifecycleAssumption
     DEF TypeOK, OnlyRunsListen, HandlerAwaitsInterrupted, opVars,
         DestroyOnce, Execute
<1>7. TeardownOnceAfterDeployment'
  BY LifecycleAssumption
     DEF TypeOK, HandlerAwaitsInterrupted, TeardownOnceAfterDeployment,
         Operations, Ended, opVars, HandlerReady, DestroyOnce, Execute
<1>8. TestsKeepTheirStack'
  BY LifecycleAssumption
     DEF TypeOK, RunnerFollowsOperations, HandlerAwaitsInterrupted,
         TestsKeepTheirStack, Operations, Outcomes, Ended, opVars,
         HandlerReady, DestroyOnce, Execute
<1>9. ExitCodeIsHonest'
  BY LifecycleAssumption
     DEF TypeOK, ExitCodeIsHonest, Ended, opVars, HandlerReady
<1>10. QED
  BY <1>1, <1>2, <1>3, <1>4, <1>5, <1>6, <1>7, <1>8, <1>9

(* A process that ends by itself with 0 was not interrupted: a handler     *)
(* would be ready, for the runner has seen its operations end.             *)
LEMMA ProcessEndsKeeps ==
  ASSUME LifecycleInv, ProcessEnds
  PROVE  LifecycleInv'
<1> USE DEF LifecycleInv, ProcessEnds
<1>1. TypeOK'
  BY DEF TypeOK, opVars, handlerVars, ReturnCode
<1>2. OnlyRunsListen'
  BY DEF OnlyRunsListen, handlerVars
<1>3. /\ RunnerFollowsOperations' /\ ReturnedAfterItsOperation'
      /\ ActiveOperationIsLatest' /\ TeardownOnceAfterDeployment'
  BY OperationsUntouched
<1>4. HandlerAwaitsInterrupted'
  BY LifecycleAssumption
     DEF HandlerAwaitsInterrupted, Ended, opVars, handlerVars
<1>5. TestsKeepTheirStack'
  BY DEF TestsKeepTheirStack, opVars, handlerVars
<1>6. ExitCodeIsHonest'
  BY DEF TypeOK, OnlyRunsListen, RunnerFollowsOperations,
         ReturnedAfterItsOperation, HandlerAwaitsInterrupted,
         ExitCodeIsHonest, Operations, Ended, opVars, handlerVars, Quiet,
         HandlerReady, ReturnCode
<1>7. QED
  BY <1>1, <1>2, <1>3, <1>4, <1>5, <1>6

(* Operations end, and stay ended, while the runner still awaits one.      *)
LEMMA DeployPreparedKeeps ==
  ASSUME LifecycleInv, DeployPrepared
  PROVE  LifecycleInv'
<1> USE DEF LifecycleInv, DeployPrepared
<1>1. TypeOK'
  BY DEF TypeOK, Operations, Outcomes, handlerVars, OperationEnds, Undisturbed
<1>2. OnlyRunsListen'
  BY DEF OnlyRunsListen, handlerVars, Undisturbed
<1>3. RunnerFollowsOperations'
  BY DEF TypeOK, RunnerFollowsOperations, Operations, OperationEnds,
         Undisturbed, Waiting
<1>4. ReturnedAfterItsOperation'
  BY DEF ReturnedAfterItsOperation, Operations, Undisturbed, Waiting
<1>5. ActiveOperationIsLatest'
  BY DEF TypeOK, ActiveOperationIsLatest, Operations, Outcomes, Ended,
         OperationEnds, Undisturbed
<1>6. HandlerAwaitsInterrupted'
  BY DEF TypeOK, HandlerAwaitsInterrupted, Outcomes, Ended, handlerVars,
         OperationEnds, Undisturbed
<1>7. TeardownOnceAfterDeployment'
  BY DEF TeardownOnceAfterDeployment, Outcomes, Ended, Undisturbed
<1>8. TestsKeepTheirStack'
  BY DEF TypeOK, TestsKeepTheirStack, Operations, OperationEnds, Undisturbed
<1>9. ExitCodeIsHonest'
  BY AliveIsHonest DEF Undisturbed, Waiting, Quiet
<1>10. QED
  BY <1>1, <1>2, <1>3, <1>4, <1>5, <1>6, <1>7, <1>8, <1>9

LEMMA ChildEndsKeeps ==
  ASSUME LifecycleInv, NEW o \in Operations, ChildEnds(o)
  PROVE  LifecycleInv'
<1> USE DEF LifecycleInv, ChildEnds
<1>1. TypeOK'
  BY DEF TypeOK, Operations, Outcomes, handlerVars, OperationEnds, Undisturbed
<1>2. OnlyRunsListen'
  BY DEF OnlyRunsListen, handlerVars, Undisturbed
<1>3. RunnerFollowsOperations'
  BY DEF TypeOK, RunnerFollowsOperations, Operations, OperationEnds,
         Undisturbed, Waiting
<1>4. ReturnedAfterItsOperation'
  BY DEF ReturnedAfterItsOperation, Operations, Undisturbed, Waiting
<1>5. ActiveOperationIsLatest'
  BY DEF TypeOK, ActiveOperationIsLatest, Operations, Outcomes, Ended,
         OperationEnds, Undisturbed
<1>6. HandlerAwaitsInterrupted'
  BY DEF TypeOK, HandlerAwaitsInterrupted, Operations, Outcomes, Ended,
         handlerVars, OperationEnds, Undisturbed
<1>7. TeardownOnceAfterDeployment'
  BY DEF TypeOK, TeardownOnceAfterDeployment, Operations, Outcomes, Ended,
         OperationEnds, Undisturbed
<1>8. TestsKeepTheirStack'
  BY DEF TypeOK, TestsKeepTheirStack, Operations, handlerVars, OperationEnds,
         Undisturbed
<1>9. ExitCodeIsHonest'
  BY AliveIsHonest DEF Undisturbed, Waiting, Quiet
<1>10. QED
  BY <1>1, <1>2, <1>3, <1>4, <1>5, <1>6, <1>7, <1>8, <1>9

LEMMA OutputRemovedKeeps ==
  ASSUME LifecycleInv, OutputRemoved
  PROVE  LifecycleInv'
<1> USE DEF LifecycleInv, OutputRemoved
<1>1. TypeOK'
  BY DEF TypeOK, Operations, Outcomes, handlerVars, OperationEnds, Undisturbed
<1>2. OnlyRunsListen'
  BY DEF OnlyRunsListen, handlerVars, Undisturbed
<1>3. RunnerFollowsOperations'
  BY DEF RunnerFollowsOperations, Ended, OperationEnds, Undisturbed
<1>4. ReturnedAfterItsOperation'
  BY DEF ReturnedAfterItsOperation, OperationEnds, Undisturbed
<1>5. ActiveOperationIsLatest'
  BY DEF ActiveOperationIsLatest, Ended, OperationEnds, Undisturbed
<1>6. HandlerAwaitsInterrupted'
  BY DEF HandlerAwaitsInterrupted, Ended, handlerVars, OperationEnds,
         Undisturbed
<1>7. TeardownOnceAfterDeployment'
  BY DEF TeardownOnceAfterDeployment, Ended, OperationEnds, Undisturbed
<1>8. TestsKeepTheirStack'
  BY DEF TestsKeepTheirStack, handlerVars, OperationEnds, Undisturbed
<1>9. ExitCodeIsHonest'
  BY AliveIsHonest DEF Undisturbed, Waiting, Quiet
<1>10. QED
  BY <1>1, <1>2, <1>3, <1>4, <1>5, <1>6, <1>7, <1>8, <1>9

LEMMA InterruptTyped ==
  ASSUME TypeOK, NEW signal, Interrupt(signal)
  PROVE  /\ code' \in {130, 143}
         /\ handler' \in {"stopping", "destroying"}
         /\ waitsFor' \in Operations \cup {None}
         /\ stopped' \subseteq Operations
<1>1. code' \in {130, 143} /\ handler' \in {"stopping", "destroying"}
  BY DEF Interrupt, ExitCodeOf
<1>2. waitsFor' \in Operations \cup {None}
  BY DEF Interrupt, TypeOK
<1>3. stopped' \subseteq Operations
  BY DEF Interrupt, TypeOK
<1>4. QED
  BY <1>1, <1>2, <1>3

(* An interruption before any destroy finds the deployment active until it *)
(* ends, and then the tests.                                               *)
LEMMA SignalHandledKeeps ==
  ASSUME LifecycleInv, NEW signal \in Signals, SignalHandled(signal)
  PROVE  LifecycleInv'
<1> USE DEF LifecycleInv, SignalHandled
<1>1. TypeOK'
  <2>1. /\ UNCHANGED <<command, runner, process, opVars>>
        /\ listening' \subseteq Signals
    BY DEF TypeOK
  <2>2. /\ code' \in {None, 130, 143}
        /\ handler' \in {"none", "stopping", "destroying", "done"}
        /\ waitsFor' \in Operations \cup {None}
        /\ stopped' \subseteq Operations
    BY InterruptTyped DEF TypeOK
  <2>3. QED
    BY <2>1, <2>2 DEF TypeOK, opVars
<1>2. OnlyRunsListen'
  BY LifecycleAssumption DEF OnlyRunsListen, Interrupt, ExitCodeOf
<1>3. /\ RunnerFollowsOperations' /\ ReturnedAfterItsOperation'
      /\ ActiveOperationIsLatest' /\ TeardownOnceAfterDeployment'
  BY OperationsUntouched
<1>4. HandlerAwaitsInterrupted'
  BY DEF TypeOK, OnlyRunsListen, RunnerFollowsOperations,
         ActiveOperationIsLatest, HandlerAwaitsInterrupted, Operations, Ended,
         opVars, Interrupt, Waiting, Quiet, RunnerReady
<1>5. TestsKeepTheirStack'
  BY DEF TestsKeepTheirStack, opVars, Interrupt
<1>6. ExitCodeIsHonest'
  BY AliveIsHonest DEF Waiting, Quiet
<1>7. QED
  BY <1>1, <1>2, <1>3, <1>4, <1>5, <1>6

LEMMA SignalKillsKeeps ==
  ASSUME LifecycleInv, NEW signal \in Signals, SignalKills(signal)
  PROVE  LifecycleInv'
<1> USE DEF LifecycleInv, SignalKills
<1>1. TypeOK'
  BY DEF TypeOK, opVars, handlerVars
<1>2. OnlyRunsListen'
  BY DEF OnlyRunsListen, handlerVars
<1>3. /\ RunnerFollowsOperations' /\ ReturnedAfterItsOperation'
      /\ ActiveOperationIsLatest' /\ TeardownOnceAfterDeployment'
  BY OperationsUntouched
<1>4. HandlerAwaitsInterrupted'
  BY DEF HandlerAwaitsInterrupted, Ended, opVars, handlerVars, Waiting, Quiet
<1>5. TestsKeepTheirStack'
  BY DEF TestsKeepTheirStack, opVars, handlerVars
<1>6. ExitCodeIsHonest'
  BY LifecycleAssumption DEF ExitCodeIsHonest
<1>7. QED
  BY <1>1, <1>2, <1>3, <1>4, <1>5, <1>6

LEMMA NextLifecycleInv == LifecycleInv /\ [Next]_vars => LifecycleInv'
<1> SUFFICES ASSUME LifecycleInv, [Next]_vars PROVE LifecycleInv'
  OBVIOUS
<1>1. CASE RunnerContinues
  BY <1>1, RunnerTestsKeeps, RunnerDestroysKeeps, RunnerEndsKeeps
     DEF RunnerContinues
<1>2. CASE \E o \in Operations : ChildEnds(o)
  BY <1>2, ChildEndsKeeps
<1>3. CASE \E signal \in Signals : SignalHandled(signal) \/ SignalKills(signal)
  BY <1>3, SignalHandledKeeps, SignalKillsKeeps
<1>4. CASE UNCHANGED vars
  BY <1>4
     DEF vars, LifecycleInv, TypeOK, OnlyRunsListen, RunnerFollowsOperations,
         ReturnedAfterItsOperation, ActiveOperationIsLatest,
         HandlerAwaitsInterrupted, TeardownOnceAfterDeployment,
         TestsKeepTheirStack, ExitCodeIsHonest, Ended
<1>5. QED
  BY <1>1, <1>2, <1>3, <1>4, HandlerContinuesKeeps, ProcessEndsKeeps,
     DeployPreparedKeeps, OutputRemovedKeeps
     DEF Next

-----------------------------------------------------------------------------
LEMMA LifecycleInvariant == Spec => []LifecycleInv
BY InitLifecycleInv, NextLifecycleInv, PTL DEF Spec

(* The runner, the handler and the operations keep their types and stages. *)
THEOREM TypeCorrect == Spec => []TypeOK
<1>1. LifecycleInv => TypeOK
  BY DEF LifecycleInv
<1>2. QED
  BY <1>1, LifecycleInvariant, PTL

(* destroyOnce: whichever of run and handleInterruption comes first, the   *)
(* stack is destroyed once, and a run destroys it only when its deployment *)
(* has ended.                                                              *)
THEOREM DestroyedOnce == Spec => []TeardownOnceAfterDeployment
<1>1. LifecycleInv => TeardownOnceAfterDeployment
  BY DEF LifecycleInv
<1>2. QED
  BY <1>1, LifecycleInvariant, PTL

(* The only tests that can run while the stack is being destroyed are      *)
(* those that an interrupted deployment, successful all the same, started. *)
THEOREM StackOutlivesTests == Spec => []TestsKeepTheirStack
<1>1. LifecycleInv => TestsKeepTheirStack
  BY DEF LifecycleInv
<1>2. QED
  BY <1>1, LifecycleInvariant, PTL

(* The exit code is 0 only for a command whose operations all succeeded    *)
(* without a signal, and a signal's only after the stack was destroyed.    *)
THEOREM ExitCodeTells == Spec => []ExitCodeIsHonest
<1>1. LifecycleInv => ExitCodeIsHonest
  BY DEF LifecycleInv
<1>2. QED
  BY <1>1, LifecycleInvariant, PTL

-----------------------------------------------------------------------------
(* Progress: what liveness under fairness rests on, as safety.             *)

(* A bound on the steps a process still has before it.                     *)
StageRank(stage) ==
  IF stage = "idle" THEN 4
  ELSE IF stage = "preparing" THEN 3
  ELSE IF stage = "running" THEN 2
  ELSE IF stage = "cleaning" THEN 1
  ELSE 0
RunnerRank(place) ==
  IF place = "deploy" THEN 3
  ELSE IF place = "tests" THEN 2
  ELSE IF place = "destroy" THEN 1
  ELSE 0
HandlerRank(place) ==
  IF place = "none" THEN 3
  ELSE IF place = "stopping" THEN 2
  ELSE IF place = "destroying" THEN 1
  ELSE 0
OneIf(condition) == IF condition THEN 1 ELSE 0

StepsLeft ==
  StageRank(op["deploy"]) + StageRank(op["tests"]) + StageRank(op["destroy"])
    + RunnerRank(runner) + HandlerRank(handler)
    + OneIf("SIGINT" \in listening) + OneIf("SIGTERM" \in listening)
    + OneIf(process = Alive)

StepUsesUp == StepsLeft \in Nat /\ StepsLeft' < StepsLeft

(* No step of the process repeats: each ends a stage of an operation or of *)
(* the runner or the handler, uses up a listener, or ends the process.  So *)
(* a command is over after 20 steps at the most, however the runner, the   *)
(* handler, the children and the signals come to their turn.               *)
THEOREM StepsRunOut == Spec => [][StepUsesUp]_vars
<1>1. LifecycleInv /\ [Next]_vars => [StepUsesUp]_vars
  <2> SUFFICES ASSUME LifecycleInv, Next PROVE StepUsesUp
    OBVIOUS
  <2>0. TypeOK
    BY DEF LifecycleInv
  <2> USE <2>0 DEF TypeOK, StepsLeft, StageRank, RunnerRank, HandlerRank,
                   OneIf, Operations, Outcomes
  <2>1. StepsLeft \in Nat
    OBVIOUS
  <2>2. ASSUME RunnerContinues PROVE StepsLeft' < StepsLeft
    <3>1. CASE RunnerTests
      <4>1. op["tests"] = "idle"
        BY <3>1 DEF LifecycleInv, RunnerFollowsOperations, RunnerTests
      <4>2. QED
        BY <3>1, <4>1 DEF RunnerTests, Execute, Await, handlerVars
    <3>2. CASE RunnerDestroys
      BY <3>2
         DEF RunnerDestroys, DestroyOnce, Execute, Await,
             handlerVars, opVars
    <3>3. CASE RunnerEnds
      BY <2>2, <3>3
         DEF RunnerContinues, RunnerReady, RunnerEnds, handlerVars, opVars
    <3>4. QED
      BY <2>2, <3>1, <3>2, <3>3 DEF RunnerContinues
  <2>3. ASSUME HandlerContinues PROVE StepsLeft' < StepsLeft
    BY <2>3, LifecycleAssumption
       DEF HandlerContinues, DestroyOnce, Execute, opVars
  <2>4. ASSUME ProcessEnds PROVE StepsLeft' < StepsLeft
    BY <2>4, LifecycleAssumption
       DEF ProcessEnds, Quiet, ReturnCode, opVars, handlerVars
  <2>5. ASSUME DeployPrepared PROVE StepsLeft' < StepsLeft
    BY <2>5 DEF DeployPrepared, OperationEnds, Undisturbed, handlerVars
  <2>6. ASSUME OutputRemoved PROVE StepsLeft' < StepsLeft
    BY <2>6 DEF OutputRemoved, OperationEnds, Undisturbed, handlerVars
  <2>7. ASSUME NEW o \in Operations, ChildEnds(o) PROVE StepsLeft' < StepsLeft
    BY <2>7 DEF ChildEnds, OperationEnds, Undisturbed, handlerVars
  <2>8. ASSUME NEW signal \in Signals, SignalHandled(signal)
        PROVE  StepsLeft' < StepsLeft
    <3>1. HandlerRank(handler') <= HandlerRank(handler)
      BY <2>8 DEF LifecycleInv, SignalHandled, Interrupt, OnlyRunsListen
    <3>2. OneIf("SIGINT" \in listening') + OneIf("SIGTERM" \in listening')
            < OneIf("SIGINT" \in listening) + OneIf("SIGTERM" \in listening)
      BY <2>8 DEF SignalHandled, Signals
    <3>3. UNCHANGED <<op, runner, process>>
      BY <2>8 DEF SignalHandled, opVars
    <3>4. QED
      BY <3>1, <3>2, <3>3
  <2>9. ASSUME NEW signal \in Signals, SignalKills(signal)
        PROVE  StepsLeft' < StepsLeft
    BY <2>9, LifecycleAssumption
       DEF SignalKills, Waiting, Quiet, opVars, handlerVars
  <2>10. QED
    BY <2>1, <2>2, <2>3, <2>4, <2>5, <2>6, <2>7, <2>8, <2>9
       DEF Next, StepUsesUp
<1>2. QED
  BY <1>1, LifecycleInvariant, PTL DEF Spec

(* What the runner awaits has begun; running tests have a child to stop    *)
(* until the stack is being destroyed, and tests that an interruption      *)
(* awaits were stopped.                                                    *)
AwaitedTestsAreStopped ==
  /\ runner \in Operations => op[runner] # "idle"
  /\ op["tests"] = "running" /\ destroys = 0 => child = "tests"
  /\ handler = "stopping" /\ waitsFor = "tests" =>
       Ended("tests") \/ "tests" \in stopped

LEMMA NextStopsTests ==
  LifecycleInv /\ AwaitedTestsAreStopped /\ [Next]_vars
    => AwaitedTestsAreStopped'
<1> SUFFICES ASSUME LifecycleInv, AwaitedTestsAreStopped, [Next]_vars
             PROVE  AwaitedTestsAreStopped'
  OBVIOUS
<1>0. TypeOK
  BY DEF LifecycleInv
<1> USE <1>0 DEF AwaitedTestsAreStopped, TypeOK, Operations, Outcomes, Ended,
                 opVars, handlerVars
<1>1. CASE RunnerContinues
  <2>1. CASE RunnerTests
    BY <2>1 DEF RunnerTests, LifecycleInv, RunnerFollowsOperations, Execute,
       Await
  <2>2. CASE RunnerDestroys \/ RunnerEnds
    BY <2>2 DEF RunnerDestroys, RunnerEnds, DestroyOnce, Execute, Await
  <2>3. QED
    BY <1>1, <2>1, <2>2 DEF RunnerContinues
<1>2. CASE HandlerContinues
  BY <1>2 DEF HandlerContinues, DestroyOnce, Execute
<1>3. CASE ProcessEnds \/ DeployPrepared \/ OutputRemoved
  BY <1>3, LifecycleAssumption
     DEF ProcessEnds, DeployPrepared, OutputRemoved, OperationEnds,
         Undisturbed, LifecycleInv, RunnerFollowsOperations
<1>4. ASSUME NEW o \in Operations, ChildEnds(o) PROVE AwaitedTestsAreStopped'
  BY <1>4 DEF ChildEnds, OperationEnds, Undisturbed, LifecycleInv,
     RunnerFollowsOperations
<1>5. ASSUME NEW signal \in Signals, SignalHandled(signal)
      PROVE  AwaitedTestsAreStopped'
  <2>1. op["tests"] \in {"idle", "running"} \cup Outcomes
    OBVIOUS
  <2>2. HandlerAwaitsInterrupted'
    BY <1>5, SignalHandledKeeps DEF LifecycleInv
  <2>3. CASE code = None /\ destroys = 0
    BY <1>5, <2>1, <2>2, <2>3, LifecycleAssumption
       DEF SignalHandled, Interrupt, HandlerAwaitsInterrupted
  <2>4. CASE ~(code = None /\ destroys = 0)
    BY <1>5, <2>4 DEF SignalHandled, Interrupt
  <2>5. QED
    BY <2>3, <2>4
<1>6. ASSUME NEW signal \in Signals, SignalKills(signal)
      PROVE  AwaitedTestsAreStopped'
  BY <1>6 DEF SignalKills
<1>7. CASE UNCHANGED vars
  BY <1>7 DEF vars
<1>8. QED
  BY <1>1, <1>2, <1>3, <1>4, <1>5, <1>6, <1>7 DEF Next

(* Who moves next.  Nothing that is awaited has not begun; and what an     *)
(* interruption awaits is certain to end: cdk, or tests that were stopped. *)
UnderWay(o) == op[o] \in {"preparing", "running", "cleaning"}
CertainToEnd(o) == UnderWay(o) /\ (o = "tests" => "tests" \in stopped)

WaitsAreJustified ==
  /\ runner \in Operations => UnderWay(runner) \/ RunnerReady
  /\ code # None /\ Waiting =>
       \/ handler = "stopping" /\ CertainToEnd(waitsFor)
       \/ handler = "destroying" /\ CertainToEnd("destroy")

(* handleInterruption never waits for an operation that nobody started or  *)
(* nobody stops, wherever the signals come between the continuations of    *)
(* run: not for a deployment's tests that it did not know of, either.      *)
THEOREM InterruptionNeverHangs == Spec => []WaitsAreJustified
<1>1. Init => AwaitedTestsAreStopped
  BY DEF Init, AwaitedTestsAreStopped, Operations, Idle
<1>2. LifecycleInv /\ AwaitedTestsAreStopped => WaitsAreJustified
  <2> SUFFICES ASSUME LifecycleInv, AwaitedTestsAreStopped
               PROVE  WaitsAreJustified
    OBVIOUS
  <2>0. TypeOK
    BY DEF LifecycleInv
  <2>1. ASSUME runner \in Operations PROVE UnderWay(runner) \/ RunnerReady
    BY <2>0, <2>1
       DEF TypeOK, AwaitedTestsAreStopped, UnderWay, RunnerReady, Ended
  <2>2. ASSUME code # None, Waiting
        PROVE  \/ handler = "stopping" /\ CertainToEnd(waitsFor)
               \/ handler = "destroying" /\ CertainToEnd("destroy")
    <3>1. /\ handler \in {"stopping", "destroying"}
          /\ ~HandlerReady
      BY <2>0, <2>2
         DEF LifecycleInv, TypeOK, OnlyRunsListen, HandlerAwaitsInterrupted,
             Waiting, Quiet
    <3>2. CASE handler = "stopping"
      BY <2>0, <3>1, <3>2
         DEF LifecycleInv, TypeOK, HandlerAwaitsInterrupted, HandlerReady,
             AwaitedTestsAreStopped, CertainToEnd, UnderWay, Ended,
             Operations
    <3>3. CASE handler = "destroying"
      BY <2>0, <3>1, <3>3
         DEF LifecycleInv, TypeOK, HandlerAwaitsInterrupted, HandlerReady,
             CertainToEnd, UnderWay, Ended, Operations
    <3>4. QED
      BY <3>1, <3>2, <3>3
  <2>3. QED
    BY <2>1, <2>2 DEF WaitsAreJustified
<1>3. QED
  BY <1>1, <1>2, InitLifecycleInv, NextLifecycleInv, NextStopsTests, PTL
     DEF Spec
=============================================================================
