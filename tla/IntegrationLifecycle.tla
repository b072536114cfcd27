------------------------ MODULE IntegrationLifecycle ------------------------
(***************************************************************************)
(* integration.mjs and integration-lifecycle.mjs: deploy a throw-away      *)
(* stack, test it, destroy it, and destroy it too when a signal interrupts.*)
(*                                                                         *)
(* JavaScript runs to completion: an event (a child's exit, a signal) is   *)
(* followed by every continuation it makes ready, of the runner (run) and  *)
(* of the handler (handleInterruption), before the next event.  The runner *)
(* awaits an operation first, so it is resumed first.                      *)
(***************************************************************************)
EXTENDS Integers

CONSTANTS
  None,      \* "undefined"
  Alive,     \* the process has not ended
  Killed     \* a signal without a listener ended it

ASSUME LifecycleAssumption ==
  /\ None \notin {"deploy", "tests", "destroy"} /\ None \notin Int
  /\ Alive \notin Int /\ Killed \notin Int /\ Alive # Killed

VARIABLES
  command,     \* process.argv[2]
  op,          \* the stage of each operation
  active,      \* activeOperation
  child,       \* the operation of activeChild
  stopped,     \* operations whose child got a signal from stop
  runner,      \* the operation run awaits, or how it ended
  handler,     \* where handleInterruption is
  waitsFor,    \* interruptedOperation
  listening,   \* signals with a listener still installed (process.once)
  code,        \* interruptionExitCode
  process,     \* Alive, Killed or the exit code
  destroys     \* history: how often destroy was called

opVars == <<op, active, child, destroys>>
handlerVars == <<stopped, handler, waitsFor, listening, code>>
vars == <<command, op, active, child, stopped, runner, handler, waitsFor,
          listening, code, process, destroys>>

Operations == {"deploy", "tests", "destroy"}
Signals == {"SIGINT", "SIGTERM"}
Outcomes == {"succeeded", "failed", "rejected"}
Ended(o) == op[o] \in Outcomes

Idle == [o \in Operations |-> "idle"]

(* The script up to its first await: deploy prepares its output directory, *)
(* destroy has a child unless spawn throws; only "run" listens to signals. *)
Init ==
  /\ \/ /\ command \in {"run", "deploy"}
        /\ runner = "deploy" /\ destroys = 0
        /\ op = [Idle EXCEPT !["deploy"] = "preparing"]
        /\ active = "deploy" /\ child = None
     \/ /\ command = "destroy"
        /\ runner = "destroy" /\ destroys = 1
        /\ \/ /\ op = [Idle EXCEPT !["destroy"] = "running"]
              /\ active = "destroy" /\ child = "destroy"
           \/ /\ op = [Idle EXCEPT !["destroy"] = "rejected"]
              /\ active = None /\ child = None
  /\ listening = IF command = "run" THEN Signals ELSE {}
  /\ stopped = {} /\ handler = "none" /\ waitsFor = None
  /\ code = None /\ process = Alive

(* execute of tests or destroy: a child is spawned, or spawn throws, and   *)
(* the operation rejects before the next event.                            *)
Execute(o) ==
  /\ \/ /\ op' = [op EXCEPT ![o] = "running"]
        /\ active' = o
        /\ child' = o
     \/ /\ op' = [op EXCEPT ![o] = "rejected"]
        /\ active' = None
        /\ UNCHANGED child
  /\ destroys' = destroys + (IF o = "destroy" THEN 1 ELSE 0)

(* Mutant of DestroyOnce: the promise of the first call is not kept.       *)
DestroyEachTime == Execute("destroy")

(* destroyOnce: every call after the first awaits the same operation.      *)
DestroyOnce ==
  IF destroys = 0 THEN Execute("destroy") ELSE UNCHANGED opVars

-----------------------------------------------------------------------------
(* Continuations, the runner's before the handler's.                       *)
RunnerReady == runner \in Operations /\ Ended(runner)

HandlerReady ==
  \/ handler = "stopping" /\ (waitsFor # None => Ended(waitsFor))
  \/ handler = "destroying" /\ Ended("destroy")

Await(o) == runner' = o /\ UNCHANGED <<command, process, handlerVars>>

RunnerTests ==
  /\ runner = "deploy" /\ command = "run" /\ op["deploy"] = "succeeded"
  /\ Execute("tests")
  /\ Await("tests")

RunnerDestroys ==
  /\ command = "run"
  /\ \/ runner = "deploy" /\ op["deploy"] = "failed"
     \/ runner = "tests" /\ op["tests"] \in {"succeeded", "failed"}
  /\ DestroyOnce
  /\ Await("destroy")

(* The command is over, or a rejected operation rejects run as well.       *)
RunnerEnds ==
  /\ \/ /\ runner = "destroy" \/ command = "deploy"
        /\ runner' = IF op[runner] = "rejected" THEN "threw" ELSE "returned"
     \/ /\ runner \in {"deploy", "tests"} /\ command = "run"
        /\ op[runner] = "rejected"
        /\ runner' = "threw"
  /\ UNCHANGED <<command, process, opVars, handlerVars>>

RunnerContinues ==
  /\ process = Alive
  /\ RunnerReady
  /\ RunnerTests \/ RunnerDestroys \/ RunnerEnds

HandlerContinues ==
  /\ process = Alive
  /\ ~RunnerReady
  /\ HandlerReady
  /\ \/ /\ handler = "stopping"
        /\ DestroyOnce
        /\ handler' = "destroying"
        /\ UNCHANGED process
     \/ /\ handler = "destroying"
        /\ process' = IF op["destroy"] = "rejected" THEN 1 ELSE code
        /\ handler' = "done"
        /\ UNCHANGED opVars
  /\ UNCHANGED <<command, runner, stopped, waitsFor, listening, code>>

-----------------------------------------------------------------------------
(* Events, each once all continuations of the one before have run and the  *)
(* process has not come to its end by them.                                *)
Quiet == process = Alive /\ ~RunnerReady /\ ~HandlerReady
Waiting == Quiet /\ runner \in Operations

(* Mutant of ReturnCode: the outcome of destroy is not in it.              *)
ReturnCodeOfTests ==
  IF \E o \in Operations \ {"destroy"} : op[o] = "failed" THEN 1 ELSE 0

(* deployExitCode || destroyExitCode, testExitCode || destroyExitCode.     *)
ReturnCode == IF \E o \in Operations : op[o] = "failed" THEN 1 ELSE 0

(* Nothing is left to wait for, or the rejection of the main module is     *)
(* uncaught.                                                               *)
ProcessEnds ==
  /\ Quiet
  /\ runner \in {"returned", "threw"}
  /\ process' = IF runner = "threw" THEN 1 ELSE ReturnCode
  /\ UNCHANGED <<command, runner, opVars, handlerVars>>

(* The end of an operation: execute and run clear what is still theirs.    *)
OperationEnds(o, outcome) ==
  /\ op' = [op EXCEPT ![o] = outcome]
  /\ active' = IF active = o THEN None ELSE active
  /\ child' = IF child = o THEN None ELSE child

Undisturbed ==
  Waiting /\ UNCHANGED <<command, runner, process, destroys, handlerVars>>

(* prepareIntegrationOutput may reject, and spawn throw.                   *)
DeployPrepared ==
  /\ op["deploy"] = "preparing"
  /\ \/ /\ op' = [op EXCEPT !["deploy"] = "running"]
        /\ child' = "deploy"
        /\ UNCHANGED active
     \/ OperationEnds("deploy", "rejected")
  /\ Undisturbed

(* A child exits, with a code or after a signal, or emits an error: run    *)
(* resolves then.  destroy goes on to remove the output directory.         *)
ChildEnds(o) ==
  /\ op[o] = "running"
  /\ \/ OperationEnds(o, "failed")
     \/ o # "destroy" /\ OperationEnds(o, "succeeded")
     \/ /\ o = "destroy"
        /\ op' = [op EXCEPT ![o] = "cleaning"]
        /\ child' = IF child = o THEN None ELSE child
        /\ UNCHANGED active
  /\ Undisturbed

OutputRemoved ==
  /\ op["destroy"] = "cleaning"
  /\ \E outcome \in {"succeeded", "rejected"} : OperationEnds("destroy", outcome)
  /\ Undisturbed

ExitCodeOf(signal) == IF signal = "SIGINT" THEN 130 ELSE 143

(* Mutant of Interrupt: what is under way is not awaited.                  *)
InterruptAtOnce(signal) ==
  /\ code' = ExitCodeOf(signal)
  /\ IF destroys = 0
     THEN /\ waitsFor' = None
          /\ stopped' = IF child = None THEN stopped ELSE stopped \cup {child}
          /\ handler' = "stopping"
     ELSE handler' = "destroying" /\ UNCHANGED <<waitsFor, stopped>>

(* Mutant of Interrupt: the operation is awaited, and not stopped.         *)
InterruptWithoutStop(signal) ==
  /\ code' = ExitCodeOf(signal)
  /\ handler' = IF destroys = 0 THEN "stopping" ELSE "destroying"
  /\ waitsFor' = IF destroys = 0 THEN active ELSE waitsFor
  /\ UNCHANGED stopped

(* handleInterruption up to its await.                                     *)
Interrupt(signal) ==
  /\ code' = ExitCodeOf(signal)
  /\ IF destroys = 0
     THEN /\ waitsFor' = active
          /\ stopped' = IF child = None THEN stopped ELSE stopped \cup {child}
          /\ handler' = "stopping"
     ELSE handler' = "destroying" /\ UNCHANGED <<waitsFor, stopped>>

(* The listener of each signal is called once; the second of both has      *)
(* nothing to do.                                                          *)
SignalHandled(signal) ==
  /\ Waiting
  /\ signal \in listening
  /\ listening' = listening \ {signal}
  /\ IF code = None THEN Interrupt(signal)
     ELSE UNCHANGED <<stopped, handler, waitsFor, code>>
  /\ UNCHANGED <<command, runner, process, opVars>>

(* Without a listener a signal ends the process.                           *)
SignalKills(signal) ==
  /\ Waiting
  /\ signal \notin listening
  /\ process' = Killed
  /\ UNCHANGED <<command, runner, opVars, handlerVars>>

Next ==
  \/ RunnerContinues \/ HandlerContinues \/ ProcessEnds
  \/ DeployPrepared \/ OutputRemoved
  \/ \E o \in Operations : ChildEnds(o)
  \/ \E signal \in Signals : SignalHandled(signal) \/ SignalKills(signal)

Spec == Init /\ [][Next]_vars

(* The event loop goes on; cdk ends by the timeouts of CloudFormation, and *)
(* the tests, which might hang, when they get a signal.                    *)
LiveSpec ==
  /\ Spec
  /\ WF_vars(RunnerContinues \/ HandlerContinues \/ ProcessEnds)
  /\ WF_vars(DeployPrepared) /\ WF_vars(OutputRemoved)
  /\ WF_vars(ChildEnds("deploy")) /\ WF_vars(ChildEnds("destroy"))
  /\ WF_vars("tests" \in stopped /\ ChildEnds("tests"))

-----------------------------------------------------------------------------
(* However run and the handler meet, the stack is destroyed once, and      *)
(* never while it is being deployed.                                       *)
TeardownOnceAfterDeployment ==
  /\ destroys <= 1
  /\ command = "run" /\ destroys > 0 => Ended("deploy")

(* The stack is not destroyed under the running tests, with one exception: *)
(* a deployment that was interrupted and succeeds all the same starts them,*)
(* next to the handler's destroy.                                          *)
TestsKeepTheirStack ==
  op["tests"] = "running" /\ destroys > 0 =>
    op["deploy"] = "succeeded" /\ waitsFor = "deploy" /\ handler # "none"

(* The process reports success only when every operation of its command    *)
(* succeeded without a signal, and a signal's exit code only when destroy  *)
(* was waited for.                                                         *)
ExitCodeIsHonest ==
  /\ process = 0 =>
       /\ code = None
       /\ \A o \in IF command = "run" THEN Operations ELSE {command} :
            op[o] = "succeeded"
  /\ process \in {130, 143} => process = code /\ Ended("destroy")

(* An interrupted run ends, also when its tests hang, and when the signal  *)
(* comes before the deployment has a child to stop.                        *)
InterruptionEnds == code # None ~> process # Alive

(* README.md: the complete lifecycle always attempts teardown, including   *)
(* when deployment or tests fail.                                          *)
AlwaysAttemptsTeardown ==
  command = "run" /\ process \notin {Alive, Killed} => destroys > 0
=============================================================================
