------------------------- MODULE ScriptEngineWorker -------------------------
(***************************************************************************)
(* How a JavaScript program is started and stopped: TrikScriptRunner and    *)
(* TrikJavaScriptRunner on the caller's thread, ScriptEngineWorker with its *)
(* event queue on the worker's thread, and the program's threads, of which  *)
(* only "some thread is alive" is kept (ThreadPool says what Threading      *)
(* promises about them).                                                   *)
(*                                                                         *)
(* doRun, Threading::reset and resetBrick wait in an event loop of their    *)
(* own, in which the worker serves its queue: the waits nest, `frames' is   *)
(* that stack, and a loop that was told to quit is left only when it is the *)
(* innermost one. The two waits of resetBrick are one here, and a direct    *)
(* command does not wait.                                                  *)
(*                                                                         *)
(* doRun and doRunDirect write mState without the mutex that stopScript     *)
(* holds: `stopAt' and `workerAt' say which statement of stopScript the     *)
(* caller's thread, and of doRunDirect or of the quit handler the worker's, *)
(* executes next.                                                          *)
(***************************************************************************)
EXTENDS Naturals, Sequences, FiniteSets

CONSTANTS
  MaxScripts,    \* bound: scripts and direct commands in a behaviour
  MaxQuits,      \* bound: script.quit() calls
  Direct         \* whether direct commands are given

ASSUME WorkerAssumption ==
  MaxScripts \in Nat \ {0} /\ MaxQuits \in Nat /\ Direct \in BOOLEAN

Ids == 1..MaxScripts
None == 0

VARIABLES
  state,        \* mState
  stopAt,       \* the next statement of the stopScript that the caller is in
  workerAt,     \* the next statement of the handler that the worker is in
  scriptId,     \* mScriptId
  queue,        \* the worker's event queue
  frames,       \* the event loops the worker is in, innermost last
  program,      \* the script whose threads are alive
  resetting,    \* Threading::mResetStarted
  eventDriven,  \* mInEventDrivenMode
  engine,       \* mDirectScriptsEngine exists
  caller,       \* what the caller's thread does
  nextId,       \* TrikJavaScriptRunner::mMaxScriptId
  ran,          \* the scripts that began to run
  completed,    \* the scripts that completed() was emitted for
  quits         \* script.quit() calls so far

scriptState == <<state, scriptId>>
places == <<stopAt, workerAt>>
threading == <<program, resetting>>
loops == <<queue, frames>>
callers == <<caller, nextId>>
outputs == <<ran, completed>>
vars == <<scriptState, places, threading, loops, eventDriven, engine, callers, outputs, quits>>

Event == [kind: {"run", "direct"}, id: Ids] \cup [kind: {"reset", "brick", "brickDone", "quit", "drop"}, id: {None}]
Callers == [at: {"idle", "stop", "stopped", "brick", "start", "run", "directStop", "direct"}, id: Ids \cup {None}]
Idle == [at |-> "idle", id |-> None]

Post(events) == queue' = queue \o events
Plain(kind) == [kind |-> kind, id |-> None]

Frame == [loop: {"run", "reset", "brick"}, left: BOOLEAN]
Enter(loop) == Append(frames, [loop |-> loop, left |-> FALSE])
Leave(told) == [i \in DOMAIN frames |-> [frames[i] EXCEPT !.left = @ \/ frames[i].loop \in told]]

(* The worker serves events unless it is in a handler or its innermost loop *)
(* was told to quit.                                                       *)
Serving ==
  /\ workerAt = "out"
  /\ frames # <<>> => ~frames[Len(frames)].left

(* completed(error, mScriptId): the id is read when the signal is emitted.  *)
Completes(id) == completed' = completed \cup {id}

-----------------------------------------------------------------------------
(* ScriptEngineWorker::stopScript, called by the caller's thread. It holds  *)
(* mScriptStateMutex, as stopAt # "out" says, and spins without it while a  *)
(* script is starting.                                                     *)

AfterStop == [stop |-> "stopped", start |-> "run", directStop |-> "direct"]

CallsStop == stopAt = "out" /\ caller.at \in DOMAIN AfterStop
GoesOn == caller' = [caller EXCEPT !.at = AfterStop[@]]

StopSkips ==
  /\ CallsStop
  /\ state = "ready"
  /\ GoesOn
  /\ UNCHANGED <<scriptState, places, threading, loops, eventDriven, engine, nextId, outputs, quits>>

StopBegins ==
  /\ CallsStop
  /\ state = "running"
  /\ state' = "stopping"
  /\ stopAt' = "reset"
  /\ UNCHANGED <<scriptId, workerAt, threading, loops, eventDriven, engine, callers, outputs, quits>>

(* Fault: the program's threads are never reset. *)
StopResets_Forgets ==
  /\ stopAt = "reset"
  /\ eventDriven' = FALSE
  /\ stopAt' = "engine"
  /\ UNCHANGED <<scriptState, workerAt, threading, loops, engine, callers, outputs, quits>>

(* mScriptControl->reset(), then Threading::reset is posted.                *)
StopResets ==
  /\ stopAt = "reset"
  /\ eventDriven' = FALSE
  /\ Post(<<Plain("reset")>>)
  /\ stopAt' = "engine"
  /\ UNCHANGED <<scriptState, workerAt, threading, frames, engine, callers, outputs, quits>>

(* The engine of the direct commands is deleted later, by a zero timer.     *)
Abandons == IF engine THEN <<Plain("drop")>> ELSE <<>>

StopAbandons ==
  /\ stopAt = "engine"
  /\ Post(Abandons)
  /\ IF engine THEN Completes(scriptId) ELSE UNCHANGED completed
  /\ stopAt' = "ready"
  /\ UNCHANGED <<scriptState, workerAt, threading, frames, eventDriven, engine, callers, ran, quits>>

StopEnds ==
  /\ stopAt = "ready"
  /\ state' = "ready"
  /\ stopAt' = "out"
  /\ GoesOn
  /\ UNCHANGED <<scriptId, workerAt, threading, loops, eventDriven, engine, nextId, outputs, quits>>

-----------------------------------------------------------------------------
(* The caller's thread                                                     *)

(* run: a new id, then abort(), which stops and resets the brick.           *)
CallRun ==
  /\ caller = Idle
  /\ nextId <= MaxScripts
  /\ caller' = [at |-> "stop", id |-> nextId]
  /\ nextId' = nextId + 1
  /\ UNCHANGED <<scriptState, places, threading, loops, eventDriven, engine, outputs, quits>>

CallAbort ==
  /\ caller = Idle
  /\ caller' = [at |-> "stop", id |-> None]
  /\ UNCHANGED <<scriptState, places, threading, loops, eventDriven, engine, nextId, outputs, quits>>

(* resetBrick is executed by the worker; the caller waits for it.           *)
ResetBrick ==
  /\ caller.at = "stopped"
  /\ Post(<<Plain("brick")>>)
  /\ caller' = [caller EXCEPT !.at = "brick"]
  /\ UNCHANGED <<scriptState, places, threading, frames, eventDriven, engine, nextId, outputs, quits>>

(* ScriptEngineWorker::run, after the stopScript that                       *)
(* TrikJavaScriptRunner::run calls once more.                               *)
Start ==
  /\ caller.at = "run"
  /\ state' = "starting"
  /\ scriptId' = caller.id
  /\ Post(<<[kind |-> "run", id |-> caller.id]>>)
  /\ caller' = Idle
  /\ UNCHANGED <<places, threading, frames, eventDriven, engine, nextId, outputs, quits>>

(* runDirect: in a context that is not event-driven it stops first.         *)
CallDirect ==
  /\ Direct
  /\ caller = Idle
  /\ nextId <= MaxScripts
  /\ caller' = [at |-> IF eventDriven THEN "direct" ELSE "directStop", id |-> nextId]
  /\ nextId' = nextId + 1
  /\ UNCHANGED <<scriptState, places, threading, loops, eventDriven, engine, outputs, quits>>

DirectPost ==
  /\ caller.at = "direct"
  /\ Post(<<[kind |-> "direct", id |-> caller.id]>>)
  /\ caller' = Idle
  /\ UNCHANGED <<scriptState, places, threading, frames, eventDriven, engine, nextId, outputs, quits>>

-----------------------------------------------------------------------------
(* The program's threads                                                   *)

(* script.run()                                                            *)
RunLoop ==
  /\ program # None
  /\ eventDriven' = TRUE
  /\ UNCHANGED <<scriptState, places, threading, loops, engine, callers, outputs, quits>>

(* script.quit() of a program's thread: the signal is queued for the worker.*)
Quit ==
  /\ program # None
  /\ quits < MaxQuits
  /\ quits' = quits + 1
  /\ queue' = Append(queue, Plain("quit"))
  /\ UNCHANGED <<scriptState, places, threading, frames, eventDriven, engine, callers, outputs>>

(* script.quit() of a timer of the direct commands, which fires on the      *)
(* worker's own thread: the worker handles it before anything else.         *)
TimerQuit ==
  /\ engine /\ Serving
  /\ quits < MaxQuits
  /\ quits' = quits + 1
  /\ queue' = <<Plain("quit")>> \o queue
  /\ UNCHANGED <<scriptState, places, threading, frames, eventDriven, engine, callers, outputs>>

(* Threading::reset, on the worker's thread: the wait of a reset ends at    *)
(* once when no thread is left.                                            *)
BeginsReset ==
  /\ ~resetting
  /\ eventDriven' = FALSE
  /\ resetting' = (program # None)
  /\ frames' = IF program # None THEN Enter("reset") ELSE frames

(* A thread that ended with an error makes threadFinished reset the others: *)
(* until their end the worker is in that reset's loop.                      *)
ThreadFails ==
  /\ program # None
  /\ Serving
  /\ BeginsReset
  /\ UNCHANGED <<scriptState, places, program, queue, engine, callers, outputs, quits>>

(* Fault: the loop of a reset does not hear that the threads are over. *)
ProgramEnds_Unheard ==
  /\ program # None
  /\ Serving
  /\ program' = None
  /\ frames' = Leave({"run"})
  /\ eventDriven' \in IF resetting THEN {eventDriven} ELSE {eventDriven, FALSE}
  /\ UNCHANGED <<scriptState, places, resetting, queue, engine, callers, outputs, quits>>

(* The last thread ends, event-driven or not, and the worker handles it:    *)
(* finished() tells the loops of doRun and of reset to quit. If it ended    *)
(* with an error and nothing resets yet, there is a reset without a wait.   *)
ProgramEnds ==
  /\ program # None
  /\ Serving
  /\ program' = None
  /\ frames' = Leave({"run", "reset"})
  /\ eventDriven' \in IF resetting THEN {eventDriven} ELSE {eventDriven, FALSE}
  /\ UNCHANGED <<scriptState, places, resetting, queue, engine, callers, outputs, quits>>

-----------------------------------------------------------------------------
(* The worker's thread                                                     *)

Serve(kind) ==
  /\ Serving
  /\ queue # <<>>
  /\ Head(queue).kind = kind

Done == queue' = Tail(queue)

(* Fault: the worker does not say that the script is running. *)
DoRun_StaysStarting ==
  LET id == Head(queue).id
      starts == ~resetting /\ program = None
  IN /\ Serve("run")
     /\ Done
     /\ program' = IF starts THEN id ELSE program
     /\ ran' \in IF starts THEN {ran \cup {id}} ELSE {ran} \cup (IF resetting THEN {} ELSE {ran \cup {id}})
     /\ IF program' # None
        THEN frames' = Enter("run") /\ UNCHANGED completed
        ELSE Completes(scriptId) /\ UNCHANGED frames
     /\ UNCHANGED <<scriptState, places, resetting, eventDriven, engine, callers, quits>>

(* doRun: Threading refuses a main thread while it resets. A live program   *)
(* that is not being reset would keep its main thread, which is aborted, or *)
(* get another one if that has ended. doRun goes on as if it had started.   *)
DoRun ==
  LET id == Head(queue).id
      starts == ~resetting /\ program = None
  IN /\ Serve("run")
     /\ Done
     /\ program' = IF starts THEN id ELSE program
     /\ ran' \in IF starts THEN {ran \cup {id}} ELSE {ran} \cup (IF resetting THEN {} ELSE {ran \cup {id}})
     /\ state' = "running"
     /\ IF program' # None
        THEN frames' = Enter("run") /\ UNCHANGED completed
        ELSE Completes(scriptId) /\ UNCHANGED frames
     /\ UNCHANGED <<scriptId, places, resetting, eventDriven, engine, callers, quits>>

DoReset ==
  /\ Serve("reset")
  /\ Done
  /\ BeginsReset \/ (resetting /\ UNCHANGED <<resetting, frames, eventDriven>>)
  /\ UNCHANGED <<scriptState, places, program, engine, callers, outputs, quits>>

(* resetBrick waits for the answer of the brick, which comes as an event    *)
(* (or a timeout in its place).                                             *)
DoBrick ==
  /\ Serve("brick")
  /\ Done
  /\ frames' = Enter("brick")
  /\ UNCHANGED <<scriptState, places, threading, eventDriven, engine, callers, outputs, quits>>

BrickAnswers ==
  /\ \E i \in DOMAIN frames : frames[i] = [loop |-> "brick", left |-> FALSE]
  /\ \A i \in DOMAIN queue : queue[i].kind # "brickDone"
  /\ Post(<<Plain("brickDone")>>)
  /\ UNCHANGED <<scriptState, places, threading, frames, eventDriven, engine, callers, outputs, quits>>

(* Fault: the answer is not connected to the loop that waits for it. *)
DoBrickDone_Unheard ==
  /\ Serve("brickDone")
  /\ Done
  /\ UNCHANGED <<scriptState, places, threading, frames, eventDriven, engine, callers, outputs, quits>>

DoBrickDone ==
  /\ Serve("brickDone")
  /\ Done
  /\ frames' = Leave({"brick"})
  /\ UNCHANGED <<scriptState, places, threading, eventDriven, engine, callers, outputs, quits>>

(* The zero timer that deletes the engine of the direct commands.           *)
DoDrop ==
  /\ Serve("drop")
  /\ Done
  /\ engine' = FALSE
  /\ UNCHANGED <<scriptState, places, threading, frames, eventDriven, callers, outputs, quits>>

(* onScriptRequestingToQuit: a script that is not event-driven becomes so,  *)
(* and stays so if the worker is ready by the time of the stopScript.       *)
DoQuit ==
  /\ Serve("quit")
  /\ Done
  /\ eventDriven' = TRUE
  /\ workerAt' = "quit"
  /\ UNCHANGED <<scriptState, stopAt, threading, frames, engine, callers, outputs, quits>>

(* script.quit() within a direct command.                                   *)
DirectQuits ==
  /\ workerAt = "evaluate"
  /\ eventDriven' = TRUE
  /\ workerAt' = "directQuit"
  /\ UNCHANGED <<scriptState, stopAt, threading, loops, engine, callers, outputs, quits>>

(* Their stopScript, once the caller's thread has left the mutex; it spins  *)
(* while a script is starting.                                             *)
QuitStops ==
  /\ workerAt \in {"quit", "directQuit"}
  /\ stopAt = "out"
  /\ state # "starting"
  /\ workerAt' = IF workerAt = "quit" THEN "out" ELSE "evaluated"
  /\ IF state = "ready"
     THEN UNCHANGED <<state, queue, eventDriven, completed>>
     ELSE /\ state' = "ready"
          /\ eventDriven' = FALSE
          /\ Post(<<Plain("reset")>> \o Abandons)
          /\ IF engine THEN Completes(scriptId) ELSE UNCHANGED completed
  /\ UNCHANGED <<scriptId, stopAt, threading, frames, engine, callers, ran, quits>>

(* doRunDirect: a context is made unless there is one, statement by         *)
(* statement, and with neither there is nothing to do.                      *)
Makes == ~eventDriven /\ ~engine

DoDirect ==
  LET id == Head(queue).id
  IN /\ Serve("direct")
     /\ Done
     /\ scriptId' = IF Makes THEN id ELSE scriptId
     /\ state' = IF Makes THEN "starting" ELSE state
     /\ ran' = IF Makes \/ engine THEN ran \cup {id} ELSE ran
     /\ workerAt' = IF Makes THEN "create" ELSE IF engine THEN "evaluate" ELSE "out"
     /\ UNCHANGED <<stopAt, threading, frames, eventDriven, engine, callers, completed, quits>>

DirectCreates ==
  /\ workerAt = "create"
  /\ engine' = TRUE
  /\ workerAt' = "loop"
  /\ UNCHANGED <<scriptState, stopAt, threading, loops, eventDriven, callers, outputs, quits>>

DirectLoops ==
  /\ workerAt = "loop"
  /\ eventDriven' = TRUE
  /\ workerAt' = "running"
  /\ UNCHANGED <<scriptState, stopAt, threading, loops, engine, callers, outputs, quits>>

DirectRuns ==
  /\ workerAt = "running"
  /\ state' = "running"
  /\ workerAt' = "evaluate"
  /\ UNCHANGED <<scriptId, stopAt, threading, loops, eventDriven, engine, callers, outputs, quits>>

(* The command returns, or throws, which deletes the engine at once.        *)
DirectReturns ==
  /\ workerAt \in {"evaluate", "evaluated"}
  /\ engine' \in BOOLEAN
  /\ Completes(scriptId)
  /\ workerAt' = "out"
  /\ UNCHANGED <<scriptState, stopAt, threading, loops, eventDriven, callers, ran, quits>>

(* A loop that was told to quit returns: to doRun, to reset, or to          *)
(* resetBrick, whose caller goes on.                                        *)
Unwind(loop) ==
  /\ workerAt = "out"
  /\ frames # <<>>
  /\ frames[Len(frames)] = [loop |-> loop, left |-> TRUE]
  /\ frames' = SubSeq(frames, 1, Len(frames) - 1)

EndRun ==
  /\ Unwind("run")
  /\ Completes(scriptId)
  /\ UNCHANGED <<scriptState, places, threading, queue, eventDriven, engine, callers, ran, quits>>

EndReset ==
  /\ Unwind("reset")
  /\ resetting' = FALSE
  /\ UNCHANGED <<scriptState, places, program, queue, eventDriven, engine, callers, outputs, quits>>

EndBrick ==
  /\ Unwind("brick")
  /\ caller' = IF caller.id = None THEN Idle ELSE [caller EXCEPT !.at = "start"]
  /\ UNCHANGED <<scriptState, places, threading, queue, eventDriven, engine, nextId, outputs, quits>>

-----------------------------------------------------------------------------
Init ==
  /\ state = "ready" /\ scriptId = None /\ queue = <<>> /\ frames = <<>>
  /\ stopAt = "out" /\ workerAt = "out"
  /\ program = None /\ resetting = FALSE /\ eventDriven = FALSE /\ engine = FALSE
  /\ caller = Idle /\ nextId = 1 /\ quits = 0
  /\ ran = {} /\ completed = {}

CallerStep ==
  \/ StopSkips \/ StopBegins \/ StopResets \/ StopAbandons \/ StopEnds
  \/ ResetBrick \/ Start \/ DirectPost
DirectStep == DirectQuits \/ DirectCreates \/ DirectLoops \/ DirectRuns \/ DirectReturns
WorkerStep ==
  \/ DoRun \/ DoReset \/ DoBrick \/ DoBrickDone \/ DoQuit \/ DoDrop \/ DoDirect
  \/ DirectStep \/ QuitStops \/ EndRun \/ EndReset \/ EndBrick

Next ==
  \/ CallRun \/ CallAbort \/ CallDirect \/ CallerStep
  \/ RunLoop \/ Quit \/ TimerQuit \/ ThreadFails \/ ProgramEnds \/ BrickAnswers \/ WorkerStep

Spec == Init /\ [][Next]_vars

(* The two threads run and the brick answers. Nothing is assumed of the     *)
(* program's threads: an aborted one need not end.                          *)
FairSpec == Spec /\ WF_vars(CallerStep) /\ WF_vars(WorkerStep) /\ WF_vars(BrickAnswers)
=============================================================================
