------------------------- MODULE PythonEngineWorker -------------------------
(***************************************************************************)
(* The worker that runs Python programs in the one interpreter, and the     *)
(* calls of a program that block it. The worker's thread serves its event   *)
(* queue in the main loop, in processEvents and in the event loop of every  *)
(* blocking call, so that scripts run inside one another: a stack of        *)
(* frames. The GUI thread's calls are lists of steps, taken one by one;     *)
(* TrikScriptRunner composes them.                                          *)
(***************************************************************************)
EXTENDS Integers, Sequences, SequencesExt

CONSTANTS
  MaxScripts,  \* bound: programs passed to run and commands passed to runDirect
  MaxMail      \* bound: messages that arrive in the mailbox

ASSUME PythonAssumption == MaxScripts \in Nat /\ MaxMail \in Nat

Scripts == {"run", "direct"} \X (1 .. MaxScripts)
IsRun(s) == s[1] = "run"
Calls == {"none", "sleep", "receive"}

VARIABLES
  mState,     \* mState
  queue,      \* the events posted to the worker: scripts
  frames,     \* doRun and doRunDirect in progress, the innermost last
  interrupt,  \* a pending call of abortPythonInterpreter, or the signal it sets
  hadError,   \* PythonQt::hadError
  gui,        \* what the GUI thread still has to do in its call
  events,     \* events of the GUI thread: completed signals and new mail
  mail,       \* messages in the mailbox
  delivered,  \* messages that have arrived so far
  driven,     \* a program has set the brick since its last reset
  trikPy,     \* TRIK.py is where the system's scripts are, for as long as the worker lives
  aimed       \* history: the scripts there were when that interrupt was sent

interp == <<interrupt, hadError, aimed>>
world == <<events, mail, delivered, driven>>
workerVars == <<mState, queue, frames, interp, world>>

Places == {"context", "start", "eval", "calling", "loop", "ended", "flush", "finish"}
Frame == [id: Scripts, woken: BOOLEAN, call: Calls, pc: Places]
NewFrame(s) == [id |-> s, woken |-> FALSE, call |-> "none", pc |-> "context"]

Top == frames[Len(frames)]
At(pcs) == frames # <<>> /\ Top.pc \in pcs
Goes(pc) == frames' = [frames EXCEPT ![Len(frames)].pc = pc]

(* A signal that quits the event loops of one kind of call: every loop that *)
(* is connected gets it, the inner and the outer ones.                      *)
Woken(fs, call) ==
  [i \in DOMAIN fs |->
     IF fs[i].pc = "loop" /\ fs[i].call = call THEN [fs[i] EXCEPT !.woken = TRUE] ELSE fs[i]]

NoInterrupt == interrupt' = FALSE /\ aimed' = {}

-----------------------------------------------------------------------------
(* doRun and doRunDirect                                                    *)

Serving ==
  \/ frames = <<>>
  \/ At({"start", "flush", "finish", "loop"})
  \/ At({"calling"}) /\ Top.call = "sleep"  \* wait() sends posted events first

(* doRun up to mState = running, with no regard to mScriptStateMutex.       *)
BeginRun ==
  /\ Serving /\ queue # <<>> /\ IsRun(Head(queue))
  /\ queue' = Tail(queue)
  /\ frames' = Append(frames, NewFrame(Head(queue)))
  /\ mState' = "running"
  /\ UNCHANGED <<interrupt, hadError, aimed, world>>

BeginDirect ==
  /\ Serving /\ queue # <<>> /\ ~IsRun(Head(queue))
  /\ queue' = Tail(queue)
  /\ frames' = Append(frames, NewFrame(Head(queue)))
  /\ UNCHANGED <<mState, interp, world>>

(* Fault: the pending calls and signals of before are not cleared.          *)
RecreateContext_KeepsInterrupt ==
  /\ At({"context"})
  /\ IF IsRun(Top.id) \/ hadError
     THEN hadError' \in {FALSE, interrupt}
     ELSE UNCHANGED hadError
  /\ Goes(IF IsRun(Top.id) THEN "start" ELSE "eval")
  /\ UNCHANGED <<interrupt, mState, queue, aimed, world>>

(* recreateContext makes the pending calls, then clears every signal and    *)
(* error; an interrupt that comes while TRIK.py is imported hits that.      *)
RecreateContext ==
  /\ At({"context"})
  /\ IF IsRun(Top.id) \/ hadError
     THEN NoInterrupt /\ hadError' \in {FALSE, interrupt}
     ELSE UNCHANGED interp
  /\ Goes(IF IsRun(Top.id) THEN "start" ELSE "eval")
  /\ UNCHANGED <<mState, queue, world>>

(* TRIK.py is not there: the run is completed once the events are served,   *)
(* and mState stays as it is.                                               *)
ContextFails ==
  /\ At({"start"}) /\ queue = <<>> /\ ~trikPy
  /\ frames' = Front(frames)
  /\ events' = Append(events, "completed")
  /\ UNCHANGED <<mState, queue, interp, mail, delivered, driven>>

Start ==
  /\ At({"start"}) /\ queue = <<>> /\ trikPy
  /\ Goes("eval")
  /\ UNCHANGED <<mState, queue, interp, world>>

(* The program drives the brick.                                            *)
Drive ==
  /\ At({"eval"}) /\ ~interrupt
  /\ driven' = TRUE
  /\ UNCHANGED <<mState, queue, frames, interp, events, mail, delivered>>

(* It ends of itself, or with an error of its own.                          *)
EvaluationEnds ==
  /\ At({"eval"}) /\ ~interrupt
  /\ Goes("ended")
  /\ hadError' \in {hadError, TRUE}
  /\ UNCHANGED <<mState, queue, interrupt, aimed, world>>

(* The signal is raised in the program as a KeyboardInterrupt.              *)
Interrupted ==
  /\ At({"eval"}) /\ interrupt
  /\ NoInterrupt
  /\ hadError' = TRUE
  /\ Goes("ended")
  /\ UNCHANGED <<mState, queue, world>>

(* mState becomes ready, whatever it was.                                   *)
Ended ==
  /\ At({"ended"})
  /\ mState' = IF IsRun(Top.id) THEN "ready" ELSE mState
  /\ Goes("flush")
  /\ UNCHANGED <<queue, interp, world>>

(* The events are served; ScriptExecutionControl::reset in the worker's     *)
(* thread, then releaseContext, whose own Python code takes an interrupt    *)
(* that came late.                                                         *)
Released ==
  /\ At({"flush"}) /\ queue = <<>>
  /\ IF IsRun(Top.id)
     THEN /\ frames' = [Woken(frames, "sleep") EXCEPT ![Len(frames)].pc = "finish"]
          /\ NoInterrupt
          /\ hadError' \in {hadError, FALSE, interrupt}
     ELSE Goes("finish") /\ UNCHANGED interp
  /\ UNCHANGED <<mState, queue, world>>

(* Fault: only an error is worth a signal.                                  *)
Finish_OnErrorOnly ==
  /\ At({"finish"}) /\ queue = <<>>
  /\ frames' = Front(frames)
  /\ events' = IF hadError THEN Append(events, "completed") ELSE events
  /\ UNCHANGED <<mState, queue, interp, mail, delivered, driven>>

(* completed is emitted, last of all.                                       *)
Finish ==
  /\ At({"finish"}) /\ queue = <<>>
  /\ frames' = Front(frames)
  /\ events' = Append(events, "completed")
  /\ UNCHANGED <<mState, queue, interp, mail, delivered, driven>>

-----------------------------------------------------------------------------
(* The calls of a program that block it                                     *)

(* ScriptExecutionControl::wait and Mailbox::receive, up                    *)
(* to the point where the loop gets its signal; receive waits only when     *)
(* hasMessages has just told it that there is none.                         *)
Call(call) ==
  /\ At({"eval"}) /\ ~interrupt
  /\ call = "receive" => mail = 0
  /\ frames' = [frames EXCEPT ![Len(frames)].pc = "calling", ![Len(frames)].call = call]
  /\ UNCHANGED <<mState, queue, interp, world>>

(* receive with a message in the queue.                                     *)
TakeMessage ==
  /\ At({"eval"}) /\ ~interrupt
  /\ mail > 0
  /\ mail' = mail - 1
  /\ UNCHANGED <<mState, queue, frames, interp, events, delivered, driven>>

(* The loop is connected and runs.                                          *)
Connect ==
  /\ At({"calling"})
  /\ Goes("loop")
  /\ UNCHANGED <<mState, queue, interp, world>>

(* The loop ends: it was told to, or its timer has fired. receive looks     *)
(* into the queue once more.                                                *)
Return ==
  /\ At({"loop"})
  /\ Top.woken \/ Top.call = "sleep"
  /\ frames' = [frames EXCEPT ![Len(frames)].pc = "eval", ![Len(frames)].call = "none",
                              ![Len(frames)].woken = FALSE]
  /\ mail' = IF Top.call = "receive" /\ mail > 0 THEN mail - 1 ELSE mail
  /\ UNCHANGED <<mState, queue, interp, events, delivered, driven>>

(* MailboxServer::onNewData: the message is in the queue, and newMessage is *)
(* posted to the GUI thread, where Mailbox lives.                           *)
MailArrives ==
  /\ delivered < MaxMail
  /\ delivered' = delivered + 1
  /\ mail' = mail + 1
  /\ events' = Append(events, "mail")
  /\ UNCHANGED <<mState, queue, frames, interp, driven>>

-----------------------------------------------------------------------------
(* The steps of the GUI thread's calls into the worker                      *)

Does(step) ==
  /\ gui # <<>>
  /\ Head(gui)[1] = step
  /\ gui' = Tail(gui)

(* stopScript: it returns at once when the worker is ready or stopping.     *)
StopChain == << <<"interrupt">>, <<"wakeMail">>, <<"setReady">> >>
StopScript ==
  /\ gui # <<>> /\ Head(gui)[1] = "stop"
  /\ IF mState \in {"ready", "stopping"}
     THEN gui' = Tail(gui) /\ UNCHANGED mState
     ELSE gui' = StopChain \o Tail(gui) /\ mState' = "stopping"
  /\ UNCHANGED <<queue, frames, interp, world>>

(* abortPythonInterpreter                                                   *)
Interrupt ==
  /\ Does("interrupt")
  /\ interrupt' = TRUE
  /\ aimed' = {frames[i].id : i \in DOMAIN frames} \cup Range(queue)
  /\ UNCHANGED <<mState, queue, frames, hadError, world>>

(* Fault: only a message quits the wait for a message.                      *)
WakeMail_OnMessage ==
  /\ Does("wakeMail")
  /\ frames' = IF mail > 0 THEN Woken(frames, "receive") ELSE frames
  /\ UNCHANGED <<mState, queue, interp, world>>

(* Mailbox::stopWaiting                                                     *)
WakeMail ==
  /\ Does("wakeMail")
  /\ frames' = Woken(frames, "receive")
  /\ UNCHANGED <<mState, queue, interp, world>>

(* Fault: the state is left to doRun.                                       *)
SetReady_Forgets ==
  /\ Does("setReady")
  /\ frames' = Woken(frames, "sleep")
  /\ UNCHANGED <<mState, queue, interp, world>>

(* ScriptExecutionControl::reset, and mState is ready.                      *)
SetReady ==
  /\ Does("setReady")
  /\ frames' = Woken(frames, "sleep")
  /\ mState' = "ready"
  /\ UNCHANGED <<queue, interp, world>>

(* Brick::reset stops what was set, and Mailbox::clearQueue.                *)
ResetBrick ==
  /\ Does("resetBrick")
  /\ driven' = FALSE
  /\ mail' = 0
  /\ UNCHANGED <<mState, queue, frames, interp, events, delivered>>

(* run: the state and the event under the mutex.                            *)
Post(s) ==
  /\ gui # <<>> /\ Head(gui) = <<"post", s>>
  /\ gui' = Tail(gui)
  /\ queue' = Append(queue, s)
  /\ mState' = IF IsRun(s) THEN "starting" ELSE mState
  /\ UNCHANGED <<frames, interp, world>>
=============================================================================
