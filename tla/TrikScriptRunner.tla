--------------------------- MODULE TrikScriptRunner ---------------------------
(***************************************************************************)
(* TrikScriptRunner chooses the runner of a language; Controller and the    *)
(* communicator's connections call it in the GUI thread. The Python runner  *)
(* is PythonEngineWorker, the JavaScript runner is what ScriptEngineWorker  *)
(* promises: a program runs until it ends or an abort has stopped it.       *)
(***************************************************************************)
EXTENDS PythonEngineWorker

CONSTANT
  MaxCalls     \* bound: programs that are run, in either language, and aborts

ASSUME RunnerAssumption == MaxCalls \in Nat

VARIABLES
  last,        \* mLastRunner
  js,          \* a JavaScript program runs
  issued,      \* Python scripts so far
  calls,       \* programs run and aborts so far
  asked        \* history: an autocompletion query came since the last JavaScript run

runnerVars == <<last, js, issued, calls, asked, trikPy>>
vars == <<mState, queue, frames, interp, world, gui, runnerVars>>

Languages == {"js", "py"}
Idle == gui = <<>>

(* abort of the runner of a language                                        *)
RunnerAbort(language) ==
  << <<IF language = "py" THEN "stop" ELSE "jsStop">>, <<"wakeMail">>, <<"resetBrick">> >>

(* Fault: the runner that is left is not told.                              *)
RunSteps_NoAbort(language, steps) ==
  (IF last # language THEN RunnerAbort(language) ELSE <<>>) \o steps

(* run: abort of the last runner, abort of the new one if it is another,    *)
(* run of the new one.                                                      *)
RunSteps(language, steps) ==
  RunnerAbort(last) \o (IF last # language THEN RunnerAbort(language) ELSE <<>>) \o steps

RunPython ==
  /\ Idle
  /\ calls < MaxCalls /\ issued < MaxScripts
  /\ calls' = calls + 1 /\ issued' = issued + 1
  /\ gui' = RunSteps("py", << <<"stop">>, <<"post", <<"run", issued'>> >> >>)
  /\ last' = "py"
  /\ UNCHANGED <<workerVars, js, asked, trikPy>>

RunJavaScript ==
  /\ Idle
  /\ calls < MaxCalls /\ calls' = calls + 1
  /\ gui' = RunSteps("js", << <<"jsStop">>, <<"jsStart">> >>)
  /\ last' = "js"
  /\ UNCHANGED <<workerVars, js, issued, asked, trikPy>>

Abort ==
  /\ Idle
  /\ calls < MaxCalls /\ calls' = calls + 1
  /\ gui' = RunnerAbort(last)
  /\ UNCHANGED <<workerVars, last, js, issued, asked, trikPy>>

RunDirectCommand ==
  /\ Idle /\ last = "py"
  /\ issued < MaxScripts
  /\ issued' = issued + 1
  /\ gui' = << <<"post", <<"direct", issued'>> >> >>
  /\ UNCHANGED <<workerVars, last, js, calls, asked, trikPy>>

(* knownMethodNamesFor: fetchRunner makes the runner it is asked for the    *)
(* default one. Bound: one such query for each JavaScript program.          *)
KnownMethodNamesFor ==
  \E language \in Languages \ {last} :
    /\ Idle /\ ~asked
    /\ last' = language /\ asked' = TRUE
    /\ UNCHANGED <<workerVars, gui, js, issued, calls, trikPy>>

(* Controller::scriptExecutionCompleted, or the mailbox hands on its new    *)
(* message: the GUI thread's event loop.                                    *)
ServeEvent ==
  /\ gui = <<>> /\ events # <<>>
  /\ events' = Tail(events)
  /\ gui' = IF Head(events) = "mail" THEN << <<"wakeMail">> >> ELSE << <<"resetBrick">> >>
  /\ UNCHANGED <<mState, queue, frames, interp, mail, delivered, driven, runnerVars>>

JsStop ==
  /\ Does("jsStop")
  /\ js' = FALSE
  /\ events' = IF js THEN Append(events, "completed") ELSE events
  /\ UNCHANGED <<mState, queue, frames, interp, mail, delivered, driven,
                 last, issued, calls, asked, trikPy>>

JsStart ==
  /\ Does("jsStart")
  /\ js' = TRUE /\ asked' = FALSE
  /\ UNCHANGED <<workerVars, last, issued, calls, trikPy>>

JsEnds ==
  /\ js
  /\ js' = FALSE
  /\ events' = Append(events, "completed")
  /\ UNCHANGED <<mState, queue, frames, interp, mail, delivered, driven, gui,
                 last, issued, calls, asked, trikPy>>

-----------------------------------------------------------------------------

Init ==
  /\ mState = "ready"
  /\ queue = <<>> /\ frames = <<>>
  /\ interrupt = FALSE /\ hadError = FALSE /\ aimed = {}
  /\ gui = <<>> /\ events = <<>>
  /\ mail = 0 /\ delivered = 0
  /\ driven = FALSE /\ trikPy \in BOOLEAN
  /\ last = "py"  \* the constructor fetches the Python runner
  /\ js = FALSE
  /\ issued = 0 /\ calls = 0 /\ asked = FALSE

ProgramActs == Drive \/ EvaluationEnds \/ TakeMessage \/ (\E call \in Calls \ {"none"} : Call(call))

Progress ==
  \/ BeginRun \/ BeginDirect
  \/ RecreateContext
  \/ ContextFails \/ Start
  \/ Interrupted
  \/ Ended \/ Released \/ Finish
  \/ Connect \/ Return

GuiStep ==
  \/ StopScript \/ Interrupt \/ WakeMail \/ SetReady \/ ResetBrick
  \/ \E s \in Scripts : Post(s)

Users ==
  \/ RunPython \/ RunJavaScript \/ Abort \/ RunDirectCommand \/ KnownMethodNamesFor

Next ==
  \/ (ProgramActs \/ Progress) /\ UNCHANGED <<gui, runnerVars>>
  \/ MailArrives /\ UNCHANGED <<gui, runnerVars>>
  \/ GuiStep /\ UNCHANGED runnerVars
  \/ JsStop \/ JsStart \/ JsEnds
  \/ ServeEvent
  \/ Users

Spec == Init /\ [][Next]_vars

(* A thread that has a step takes it; nobody has to call anything, and a    *)
(* program need neither end nor leave its bytecode.                         *)
FairSpec ==
  /\ Spec
  /\ WF_vars(Progress /\ UNCHANGED <<gui, runnerVars>>)
  /\ WF_vars((GuiStep /\ UNCHANGED runnerVars) \/ JsStop \/ JsStart)
  /\ WF_vars(ServeEvent)
=============================================================================
