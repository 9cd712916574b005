--------------------------- MODULE CppEngineWorker ---------------------------
(***************************************************************************)
(* The worker that runs compiled C++ programs, TrikCppRunner and            *)
(* TrikScriptRunner that drive it from the GUI thread, and Controller that  *)
(* resets the brick when a program has completed. The two threads share the *)
(* atomics mCurrentRunId and mIsTerminate, so each access is a step.        *)
(***************************************************************************)
EXTENDS Integers, Sequences

CONSTANTS
  MaxRuns,    \* bound: the number of programs that are run
  MaxAborts   \* bound: the number of aborts the user asks for

ASSUME CppAssumption == MaxRuns \in Nat /\ MaxAborts \in Nat

VARIABLES
  runId,      \* mCurrentRunId
  terminate,  \* mIsTerminate
  queue,      \* the worker's event queue: the runs posted to it
  place,      \* where the worker is in doRun
  job,        \* the run it is at
  todo,       \* what the GUI thread still has to do in its call
  scripts,    \* mMaxScriptId
  aborts,     \* the aborts so far
  signals,    \* completed() signals on their way to the GUI thread
  driven      \* the brick drives something: a program has set it

worker == <<place, job>>
gui == <<todo, scripts, aborts>>
vars == <<runId, terminate, queue, worker, gui, signals, driven>>

Scripts == 0 .. MaxRuns - 1
Job == [script: Scripts, run: Nat]
NoJob == [script |-> -1, run |-> 0]
Deeds == {"renumber", "terminate", "reset", "post"}

-----------------------------------------------------------------------------
(* The GUI thread                                                          *)

(* TrikCppRunner::abort: stopScript and resetBrick.                         *)
Abort == <<"renumber", "terminate", "reset">>

(* TrikScriptRunner::run aborts, TrikCppRunner::run stops once more.        *)
Run == <<"renumber", "terminate", "reset", "renumber", "terminate", "post">>

CallRun ==
  /\ todo = <<>>
  /\ scripts < MaxRuns
  /\ todo' = Run
  /\ UNCHANGED <<runId, terminate, queue, worker, scripts, aborts, signals, driven>>

CallAbort ==
  /\ todo = <<>>
  /\ aborts < MaxAborts
  /\ aborts' = aborts + 1
  /\ todo' = Abort
  /\ UNCHANGED <<runId, terminate, queue, worker, scripts, signals, driven>>

(* One step of a call.                                                     *)
Does(deed) ==
  /\ todo # <<>>
  /\ Head(todo) = deed
  /\ todo' = Tail(todo)

Renumber ==
  /\ Does("renumber")
  /\ runId' = runId + 1
  /\ UNCHANGED <<terminate, queue, worker, scripts, aborts, signals, driven>>

Terminate ==
  /\ Does("terminate")
  /\ terminate' = TRUE
  /\ UNCHANGED <<runId, queue, worker, scripts, aborts, signals, driven>>

ResetBrick ==
  /\ Does("reset")
  /\ driven' = FALSE
  /\ UNCHANGED <<runId, terminate, queue, worker, scripts, aborts, signals>>

(* CppEngineWorker::run                                                    *)
Post ==
  /\ Does("post")
  /\ runId' = runId + 1
  /\ queue' = Append(queue, [script |-> scripts, run |-> runId'])
  /\ scripts' = scripts + 1
  /\ UNCHANGED <<terminate, worker, aborts, signals, driven>>

(* Fault: the brick is left as the program has set it. *)
Completed_NoReset ==
  /\ todo = <<>>
  /\ \E s \in signals : signals' = signals \ {s}
  /\ UNCHANGED <<runId, terminate, queue, worker, gui, driven>>

(* Controller::scriptExecutionCompleted: the brick is reset, whichever      *)
(* script has completed.                                                   *)
Completed ==
  /\ todo = <<>>
  /\ \E s \in signals : signals' = signals \ {s}
  /\ driven' = FALSE
  /\ UNCHANGED <<runId, terminate, queue, worker, gui>>

-----------------------------------------------------------------------------
(* The worker's thread: CppEngineWorker::doRun                              *)

Finishes(script) ==
  /\ place' = "idle"
  /\ job' = NoJob
  /\ signals' = signals \cup {script}

(* Fault: a superseded run is dropped without a word. *)
Skip_Silently ==
  /\ place = "idle" /\ queue # <<>>
  /\ Head(queue).run # runId
  /\ queue' = Tail(queue)
  /\ UNCHANGED <<runId, terminate, worker, gui, signals, driven>>

(* A run that is superseded when its turn comes is skipped.                 *)
Skip ==
  /\ place = "idle" /\ queue # <<>>
  /\ Head(queue).run # runId
  /\ queue' = Tail(queue)
  /\ Finishes(Head(queue).script)
  /\ UNCHANGED <<runId, terminate, gui, driven>>

Load ==
  /\ place = "idle" /\ queue # <<>>
  /\ Head(queue).run = runId
  /\ queue' = Tail(queue)
  /\ job' = Head(queue)
  /\ place' = "loading"
  /\ UNCHANGED <<runId, terminate, gui, signals, driven>>

(* The library cannot be loaded, or its factory makes no program.           *)
LoadFails ==
  /\ place = "loading"
  /\ Finishes(job.script)
  /\ UNCHANGED <<runId, terminate, queue, gui, driven>>

Begin ==
  /\ place = "loading"
  /\ terminate' = FALSE
  /\ place' = "running"
  /\ UNCHANGED <<runId, queue, job, gui, signals, driven>>

(* What a program does, as far as it matters: it drives the brick, and ends.*)
Drive ==
  /\ place = "running"
  /\ driven' = TRUE
  /\ UNCHANGED <<runId, terminate, queue, worker, gui, signals>>

ProgramEnds ==
  /\ place = "running"
  /\ Finishes(job.script)
  /\ UNCHANGED <<runId, terminate, queue, gui, driven>>

-----------------------------------------------------------------------------
Init ==
  /\ runId = 0 /\ terminate = FALSE /\ queue = <<>>
  /\ place = "idle" /\ job = NoJob
  /\ todo = <<>> /\ scripts = 0 /\ aborts = 0
  /\ signals = {} /\ driven = FALSE

GuiGoesOn == Renumber \/ Terminate \/ ResetBrick \/ Post \/ Completed
WorkerGoesOn == Skip \/ Load \/ LoadFails \/ Begin

Next ==
  \/ CallRun \/ CallAbort
  \/ GuiGoesOn
  \/ WorkerGoesOn \/ Drive \/ ProgramEnds

Spec == Init /\ [][Next]_vars

Schedules == WF_vars(GuiGoesOn) /\ WF_vars(WorkerGoesOn)

(* Both threads run, and every program ends by itself ...                   *)
FairSpec == Spec /\ Schedules /\ WF_vars(ProgramEnds)

(* ... or only once it sees that it has to stop, as its loop is documented. *)
EndlessSpec == Spec /\ Schedules /\ WF_vars(terminate /\ ProgramEnds)
=============================================================================
