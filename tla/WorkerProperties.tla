-------------------------- MODULE WorkerProperties --------------------------
(***************************************************************************)
(* What ScriptEngineWorker must do, and what its documentation promises.    *)
(***************************************************************************)
EXTENDS ScriptEngineWorker

Queued(kind) == {i \in DOMAIN queue : queue[i].kind = kind}

(* Every variable keeps its type, in every call of the caller's and the     *)
(* worker's thread.                                                        *)
TypeOK ==
  /\ state \in {"ready", "starting", "running", "stopping"}
  /\ stopAt \in {"out", "reset", "engine", "ready"}
  /\ workerAt \in {"out", "create", "loop", "running", "evaluate", "evaluated", "quit", "directQuit"}
  /\ scriptId \in Ids \cup {None}
  /\ queue \in Seq(Event)
  /\ frames \in Seq(Frame)
  /\ program \in Ids \cup {None}
  /\ {resetting, eventDriven, engine} \subseteq BOOLEAN
  /\ caller \in Callers
  /\ nextId \in 1..(MaxScripts + 1)
  /\ ran \subseteq Ids
  /\ completed \subseteq Ids \cup {None}
  /\ quits \in 0..MaxQuits

Loops(loop) == {i \in DOMAIN frames : frames[i].loop = loop}

(* The waits of doRun and Threading::reset nest and end together: a live    *)
(* program is waited for, a wait that goes on has a program to wait for,    *)
(* and the one reset on the stack is the one mResetStarted speaks of.       *)
LoopsConsistent ==
  /\ program # None => Loops("run") # {}
  /\ \A i \in Loops("run") \cup Loops("reset") : ~frames[i].left => program # None
  /\ resetting <=> Loops("reset") # {}
  /\ Cardinality(Loops("reset")) <= 1

(* A program that stopScript was called for does not outlive the stop: while*)
(* the worker is ready, an alive program is being reset or its reset is     *)
(* already in the queue, whatever was refused or dropped before.            *)
StoppedIsAborted ==
  program # None /\ state = "ready" => resetting \/ Queued("reset") # {}

(* The worker that has nothing to do is not starting a script, has no       *)
(* program and is not resetting: doRun never leaves a script half started.  *)
QuietWhenIdle ==
  queue = <<>> /\ frames = <<>> /\ workerAt = "out" =>
    state # "starting" /\ program = None /\ ~resetting

(* A caller that waits for resetBrick has exactly one such call in the      *)
(* queue or under way, and nobody else has one: resetCompleted finds the    *)
(* caller that waits for it.                                                *)
CallerIsAwaited ==
  Cardinality(Queued("brick")) + Cardinality(Loops("brick"))
    = (IF caller.at = "brick" THEN 1 ELSE 0)

(* Types, loops, stops and callers keep together through every nesting of   *)
(* run, runDirect, stopScript, resetBrick and quit.                         *)
Consistent == TypeOK /\ LoopsConsistent /\ StoppedIsAborted /\ CallerIsAwaited

(* stopScript called by the worker's own thread while a script is starting: *)
(* only the worker could end that state, and it waits.                      *)
WorkerAwaitsItself == workerAt \in {"quit", "directQuit"} /\ state = "starting"

(* abort() and run() return to their caller, or the worker's thread is the  *)
(* one that waits for itself - provided that no reset waits for ever for a  *)
(* thread it has aborted: the loop of resetBrick may lie below that wait.   *)
AbortedThreadsEnd == []<>~(resetting /\ program # None)
CallerReturns == AbortedThreadsEnd => (caller # Idle ~> caller = Idle \/ WorkerAwaitsItself)

(* A program that is alive when stopScript, of whichever thread, has made   *)
(* the worker ready comes to be reset or has ended, event-driven or not.    *)
StopResetsProgram ==
  \A id \in Ids : (program = id /\ state = "ready") ~> (program # id \/ resetting \/ WorkerAwaitsItself)

-----------------------------------------------------------------------------
(* Promises of the documentation that the code does not keep.               *)

(* scriptEngineWorker.h: "By the end of call the worker would be in a ready *)
(* state" - stopScript comes to an end.                                     *)
StopReturns == caller.at = "stop" ~> caller.at # "stop"

(* trikScriptRunnerInterface.h: "Executes given script asynchronously."     *)
(* The script that run() was called with begins to run, unless the worker   *)
(* waits for itself or for aborted threads that do not end.                 *)
RunRuns ==
  AbortedThreadsEnd =>
    \A id \in Ids : caller = [at |-> "run", id |-> id] ~> (id \in ran \/ WorkerAwaitsItself)

(* scriptEngineWorker.h: "completed() signal is emitted upon script         *)
(* abortion or completion", with the id of that script - once its threads   *)
(* are over, unless the worker waits for itself.                            *)
RunCompletes ==
  AbortedThreadsEnd =>
    \A id \in Ids : (program = id /\ resetting) ~> (id \in completed \/ WorkerAwaitsItself)

(* scriptEngineWorker.h of runDirect: "If called when an ordinary script is *)
(* running, that script would be aborted before evaluation of a command."   *)
DirectAfterAbort == [][ran' # ran => program = None]_vars

(* trikScriptRunnerInterface.h of runDirectCommand: "it will use existing   *)
(* script execution environment (or create one if needed)" - a command that *)
(* is served is evaluated.                                                 *)
DirectIsEvaluated == [][DoDirect => Head(queue).id \in ran']_vars
=============================================================================
