---------------------------- MODULE VirtualSensor ----------------------------
(***************************************************************************)
(* SoundSensor on AbstractVirtualSensorWorker: a sensor that is another     *)
(* process. The worker, on a thread of its own, starts it and stops it with *)
(* a script, reads what it says from one fifo and writes commands to it into*)
(* the other. Whoever uses the sensor looks at its status and posts a call  *)
(* to that thread; the look and the post are two steps.                     *)
(***************************************************************************)
EXTENDS DeviceState, Naturals, Sequences

CONSTANTS
  MaxCalls,     \* bound: calls of a script
  MaxDeaths     \* bound: times the sensor's process dies

ASSUME VirtualSensorAssumption == MaxCalls \in Nat /\ MaxDeaths \in Nat

VARIABLES
  status,       \* mState
  calls,        \* the worker thread's event queue
  at,           \* the call the worker is in, and how far
  up,           \* the nodes of the sensor's fifos exist
  alive,        \* the sensor's process is there to read its commands
  output,       \* mOutputFifo
  input,        \* mInputFile is open
  commands,     \* mCommandQueue
  written,      \* the commands the sensor was sent, in order
  given,        \* the commands given to the worker so far
  script,       \* the call the script has decided to post
  used,         \* calls of the script so far
  deaths,       \* deaths of the sensor's process so far
  uncaught      \* IncorrectStateChangeException has left the worker

worker == <<status, at, output, input, uncaught>>
commanding == <<commands, written, given>>
scripting == <<script, used>>
process == <<up, alive, deaths>>
sensorVars == <<worker, calls, commanding, process, scripting>>

Calls == {"init", "detect", "stop"}

(* The worker takes the next call from its queue.                           *)
Serve(call) ==
  /\ ~uncaught
  /\ at = "idle"
  /\ calls # <<>>
  /\ Head(calls) = call
  /\ calls' = Tail(calls)

-----------------------------------------------------------------------------
(* sendCommand: the command is queued, and sync() writes the whole queue if *)
(* the sensor is ready.                                                     *)

(* Fault: the queue is not cleared. *)
Command_Keeps(current) ==
  LET all == Append(commands, given + 1)
  IN /\ given' = given + 1
     /\ commands' = all
     /\ written' = IF current = "ready" THEN written \o all ELSE written

Command(current) ==
  LET all == Append(commands, given + 1)
  IN /\ given' = given + 1
     /\ commands' = IF current = "ready" THEN <<>> ELSE all
     /\ written' = IF current = "ready" THEN written \o all ELSE written

(* detect and volume                                                       *)
Detect ==
  /\ Serve("detect")
  /\ Command(status)
  /\ UNCHANGED <<worker, process, scripting>>

-----------------------------------------------------------------------------
(* A change of the status, which throws if it is not allowed.               *)
Becomes(change) ==
  /\ uncaught' = Throws(change, status)
  /\ status' = IF uncaught' THEN status ELSE Changed(change, status)

(* Fault: a sensor that is ready is started again. *)
InitSensor_Always ==
  /\ Serve("init")
  /\ output' = "new"
  /\ Becomes("start")
  /\ at' = IF uncaught' THEN "idle" ELSE IF up THEN "open" ELSE "launch"
  /\ UNCHANGED <<commanding, input, process, scripting>>

(* init. The output fifo is replaced before anything is looked at. A sensor *)
(* that is ready and has its fifos is left alone; one that is ready without *)
(* them may not be started.                                                *)
InitSensor ==
  /\ Serve("init")
  /\ output' = "new"
  /\ IF status = "ready" /\ up
     THEN Command(status) /\ UNCHANGED <<status, at, uncaught>>
     ELSE /\ Becomes("start")
          /\ at' = IF uncaught' THEN "idle" ELSE IF up THEN "open" ELSE "launch"
          /\ UNCHANGED commanding
  /\ UNCHANGED <<input, process, scripting>>

(* startVirtualSensor: the script starts the sensor's process or fails.     *)
Launch ==
  /\ at = "launch"
  /\ \/ up' = TRUE /\ alive' = TRUE /\ at' = "open" /\ UNCHANGED status
     \/ status' = Failed /\ at' = "ready" /\ UNCHANGED <<up, alive>>
  /\ UNCHANGED <<calls, output, input, commanding, scripting, deaths, uncaught>>

(* openFifos, up to the fifo that is read: its open does not wait.          *)
OpenOutput ==
  /\ at = "open"
  /\ input' = FALSE
  /\ \/ up /\ output' = "open" /\ at' = "input" /\ UNCHANGED status
     \/ status' = Failed /\ at' = "ready" /\ UNCHANGED output
  /\ UNCHANGED <<calls, commanding, process, scripting, uncaught>>

(* The fifo that is written is opened in the mode that waits for a reader:  *)
(* with a node and no process the worker's thread is in that call for good. *)
(* Without a node it makes a plain file. The sync() that follows finds a    *)
(* status that is not ready and writes nothing.                            *)
Blocked == at = "input" /\ up /\ ~alive

OpenInput ==
  /\ at = "input"
  /\ ~Blocked
  /\ \/ input' = TRUE /\ UNCHANGED status
     \/ status' = Failed /\ UNCHANGED input
  /\ at' = "ready"
  /\ UNCHANGED <<calls, output, commanding, process, scripting, uncaught>>

(* The end of init, and SoundSensorWorker::init's own command after it.     *)
InitEnds ==
  /\ at = "ready"
  /\ Becomes("ready")
  /\ at' = "idle"
  /\ IF uncaught' THEN UNCHANGED commanding ELSE Command(status')
  /\ UNCHANGED <<calls, output, input, process, scripting>>

-----------------------------------------------------------------------------
(* stop                                                                    *)
Stop ==
  /\ Serve("stop")
  /\ IF status = "ready"
     THEN Becomes("stop") /\ at' = "stop"
     ELSE UNCHANGED <<status, at, uncaught>>
  /\ UNCHANGED <<output, input, commanding, process, scripting>>

(* The script ends the process and removes its fifos, or fails.             *)
ScriptStops(stops) ==
  /\ up' = (up /\ ~stops)
  /\ alive' = (alive /\ ~stops)

(* Fault: the sensor that has been stopped is not off. *)
Deinitialize_StaysStopping ==
  /\ at = "stop"
  /\ \E stops \in BOOLEAN :
       /\ ScriptStops(stops)
       /\ status' = IF output = "open" /\ stops THEN status ELSE Failed
       /\ UNCHANGED uncaught
  /\ output' = "new"
  /\ input' = FALSE
  /\ at' = "idle"
  /\ UNCHANGED <<calls, commanding, scripting, deaths>>

(* deinitialize: the fifos are closed and the script is told to stop the    *)
(* sensor. A fifo that was not open and a script that fails are failures.   *)
Deinitialize ==
  /\ at = "stop"
  /\ \E stops \in BOOLEAN :
       /\ ScriptStops(stops)
       /\ IF output = "open" /\ stops
          THEN Becomes("off")
          ELSE status' = Failed /\ UNCHANGED uncaught
  /\ output' = "new"
  /\ input' = FALSE
  /\ at' = "idle"
  /\ UNCHANGED <<calls, commanding, scripting, deaths>>

(* The sensor's process dies. The nodes of its fifos stay, unless it has    *)
(* had the time to remove them.                                            *)
Dies ==
  /\ alive
  /\ deaths < MaxDeaths
  /\ deaths' = deaths + 1
  /\ alive' = FALSE
  /\ up' \in {up, FALSE}
  /\ UNCHANGED <<worker, calls, commanding, scripting>>

-----------------------------------------------------------------------------
(* SoundSensor: init is passed on unless the sensor has failed, the other   *)
(* calls if it is ready.                                                   *)
Passes(call) == IF call = "init" THEN status # Failed ELSE status = "ready"

ScriptCalls ==
  /\ script = "none"
  /\ used < MaxCalls
  /\ used' = used + 1
  /\ \E call \in Calls : Passes(call) /\ script' = call
  /\ UNCHANGED <<worker, calls, commanding, process>>

ScriptPosts ==
  /\ script # "none"
  /\ calls' = Append(calls, script)
  /\ script' = "none"
  /\ UNCHANGED <<worker, commanding, process, used>>

SensorInit ==
  /\ status = "off"
  /\ calls = <<>>
  /\ at = "idle"
  /\ up \in BOOLEAN /\ alive \in {up, FALSE}
  /\ output = "none"
  /\ input = FALSE
  /\ commands = <<>> /\ written = <<>> /\ given = 0
  /\ script = "none" /\ used = 0
  /\ deaths = 0
  /\ uncaught = FALSE

SensorWorker ==
  \/ Detect \/ InitSensor \/ Launch \/ OpenOutput \/ OpenInput \/ InitEnds
  \/ Stop \/ Deinitialize

SensorNext == SensorWorker \/ Dies \/ ScriptCalls \/ ScriptPosts
=============================================================================
