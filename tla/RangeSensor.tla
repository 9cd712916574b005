----------------------------- MODULE RangeSensor -----------------------------
(***************************************************************************)
(* RangeSensor, RangeSensorWorker and TrikEventFile: a sensor that is read  *)
(* from an event file, which its driver may be late to make. open() waits   *)
(* for the file in an event loop of its own, for two seconds at most, and   *)
(* in that loop the worker's thread serves the calls posted to it: a stop   *)
(* and a new init run in the middle of the init that waits.                 *)
(*                                                                         *)
(* `rangeError' is where the model ends: the program has done what C++      *)
(* leaves undefined (it has deleted the event file whose open() is still on *)
(* the stack, or used an event file or a loop it has not got), or an        *)
(* exception has left the thread.                                          *)
(***************************************************************************)
EXTENDS DeviceState, Naturals, Sequences

VARIABLES
  rangeStatus,  \* mState
  rangeCalls,   \* the worker thread's event queue
  opened,       \* mEventFile: "none" or whether its descriptor is open
  waiting,      \* mInitWaitingLoop while open() is in it: "wait", "quit"
  driver,       \* the event file exists
  rangeError    \* how the program came to its end

rangeVars == <<rangeStatus, rangeCalls, opened, waiting, driver, rangeError>>

RangeServe(call) ==
  /\ rangeError = "none"
  /\ rangeCalls # <<>>
  /\ Head(rangeCalls) = call
  /\ rangeCalls' = Tail(rangeCalls)

(* A change of the status at the end of a handler.                          *)
RangeChange(change) ==
  IF Throws(change, rangeStatus)
  THEN rangeError' = "uncaught" /\ UNCHANGED rangeStatus
  ELSE rangeStatus' = Changed(change, rangeStatus) /\ UNCHANGED rangeError

-----------------------------------------------------------------------------
(* init: a new event file, which is there or is waited for.                 *)
RangeInit ==
  /\ RangeServe("init")
  /\ IF waiting # "no"
     THEN rangeError' = "deleted" /\ UNCHANGED <<rangeStatus, opened, waiting>>
     ELSE /\ opened' = IF driver THEN "open" ELSE "closed"
          /\ IF driver
             THEN RangeChange("ready") /\ UNCHANGED waiting
             ELSE waiting' = "wait" /\ UNCHANGED <<rangeStatus, rangeError>>
  /\ UNCHANGED driver

(* tryOpenEventFile: the timer looks for the file, in a loop that may have  *)
(* been told to quit already.                                              *)
TryOpen ==
  /\ rangeError = "none"
  /\ waiting # "no" /\ opened = "closed" /\ driver
  /\ opened' = "open"
  /\ waiting' = "quit"
  /\ UNCHANGED <<rangeStatus, rangeCalls, driver, rangeError>>

TwoSeconds ==
  /\ rangeError = "none"
  /\ waiting = "wait"
  /\ waiting' = "quit"
  /\ UNCHANGED <<rangeStatus, rangeCalls, opened, driver, rangeError>>

(* The end of open() and of init. A status that is off means that a stop    *)
(* was served in the loop.                                                 *)
OpenReturns ==
  /\ rangeError = "none"
  /\ waiting = "quit"
  /\ waiting' = "no"
  /\ IF opened = "open"
     THEN RangeChange("ready")
     ELSE /\ rangeStatus' = IF rangeStatus = "off" THEN "off" ELSE Failed
          /\ UNCHANGED rangeError
  /\ UNCHANGED <<rangeCalls, opened, driver>>

-----------------------------------------------------------------------------
(* Fault: the event file is not closed. *)
StopReady_LeavesOpen ==
  /\ RangeServe("stop")
  /\ rangeStatus = "ready"
  /\ rangeStatus' = Changed("off", Changed("stop", rangeStatus))
  /\ UNCHANGED <<opened, waiting, driver, rangeError>>

(* stop of a sensor that is ready: close() may fail.                        *)
StopReady ==
  /\ RangeServe("stop")
  /\ rangeStatus = "ready"
  /\ \/ /\ opened = "open"
        /\ opened' = "closed"
        /\ rangeStatus' = Changed("off", Changed("stop", rangeStatus))
     \/ rangeStatus' = Failed /\ UNCHANGED opened
  /\ UNCHANGED <<waiting, driver, rangeError>>

(* stop of a sensor that is starting: the wait is cancelled, a file that    *)
(* has just been opened is closed, and whether that fails is not looked at. *)
(* Before init there is nothing to cancel.                                 *)
StopStarting ==
  /\ RangeServe("stop")
  /\ rangeStatus = "starting"
  /\ IF waiting = "no"
     THEN rangeError' = "null" /\ UNCHANGED <<opened, waiting, rangeStatus>>
     ELSE /\ waiting' = "quit"
          /\ \/ opened' = "closed"
             \/ opened = "open" /\ UNCHANGED opened
          /\ rangeStatus' = Changed("off", Changed("ready", rangeStatus))
          /\ UNCHANGED rangeError
  /\ UNCHANGED driver

(* Any other stop is ignored.                                               *)
StopIgnored ==
  /\ RangeServe("stop")
  /\ rangeStatus \notin {"ready", "starting"}
  /\ UNCHANGED <<rangeStatus, opened, waiting, driver, rangeError>>

DriverReady ==
  /\ ~driver
  /\ driver' = TRUE
  /\ UNCHANGED <<rangeStatus, rangeCalls, opened, waiting, rangeError>>

(* The constructor has called start(), and the brick posts the first init.  *)
RangeStarts ==
  /\ rangeStatus = "starting"
  /\ rangeCalls = <<"init">>
  /\ opened = "none"
  /\ waiting = "no"
  /\ driver \in BOOLEAN
  /\ rangeError = "none"

RangeWorker ==
  RangeInit \/ TryOpen \/ TwoSeconds \/ OpenReturns \/ StopReady \/ StopStarting \/ StopIgnored

RangeNext == RangeWorker \/ DriverReady
=============================================================================
