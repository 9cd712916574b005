-------------------------- MODULE DeviceProperties --------------------------
(***************************************************************************)
(* What the devices of the brick must do, and what the source says of them. *)
(***************************************************************************)
EXTENDS BrickDevices

(* Every variable keeps its type, whatever is called in whatever order.     *)
TypeOK ==
  /\ {status, rangeStatus} \subseteq Statuses
  /\ calls \in Seq(Calls)
  /\ at \in {"idle", "launch", "open", "input", "ready", "stop"}
  /\ {up, alive, input, uncaught, driver, resets} \subseteq BOOLEAN
  /\ output \in {"none", "new", "open"}
  /\ {commands, written} \subseteq Seq(Nat)
  /\ given \in Nat
  /\ script \in Calls \cup {"none"}
  /\ used \in 0..MaxCalls
  /\ deaths \in 0..MaxDeaths
  /\ rangeCalls \in Seq({"init", "stop"})
  /\ opened \in {"none", "open", "closed"}
  /\ waiting \in {"no", "wait", "quit"}
  /\ rangeError \in {"none", "deleted", "null", "uncaught"}
  /\ brick \in {"idle", "sound", "soundStop", "range", "rangeStop", "init", "rangeInit"}
  /\ stops \in 0..MaxStops

(* No command is lost, repeated or overtaken: those the sensor was sent and *)
(* those that wait for it are those that were given, in order, over every   *)
(* stop, restart and failure.                                              *)
CommandsInOrder == written \o commands = [i \in 1..given |-> i]

(* IncorrectStateChangeException leaves the sound sensor's worker only when *)
(* init meets a sensor that is ready and whose process has died and taken   *)
(* its fifos along: in no other order of init, stop and failure.            *)
ThrowsOnlyAfterDeath == uncaught => deaths > 0

(* The brick keeps the range sensor from the errors that its worker makes   *)
(* possible: it is never stopped before its first init.                     *)
NoEarlyStop == rangeError # "null"

(* The types, the order of commands and no stop before the first init.      *)
Consistent == TypeOK /\ CommandsInOrder /\ NoEarlyStop

(* A sound sensor that is said to be ready has its command fifo open, so no *)
(* command is written to a file that is closed. While no init waits, the    *)
(* range sensor's descriptor is open exactly when the sensor is ready, or   *)
(* has failed: a stop that meets the opening of the file leaves no          *)
(* descriptor behind.                                                      *)
OpenWhenReady ==
  /\ status = "ready" => input
  /\ waiting = "no" /\ rangeError = "none" /\ rangeStatus # Failed =>
       (opened = "open" <=> rangeStatus = "ready")

(* The brick's calls take effect: a sound sensor that is ready when the     *)
(* brick is about to stop it is off, or has failed, at some later time, and *)
(* once a range sensor has served the stop and the init of a reset, with    *)
(* its driver there, it is ready or has failed, unless the brick stops it   *)
(* again before that.                                                      *)
BrickTakesEffect ==
  /\ brick = "soundStop" /\ status = "ready" ~> (status \in {"off", Failed} \/ uncaught)
  /\ brick = "rangeInit" ~>
       \/ rangeCalls = <<>> /\ waiting = "no" /\ rangeStatus \in {"ready", Failed}
       \/ brick = "rangeStop" \/ ~driver \/ rangeError # "none"

(* No device starts, or stops, for ever, and a wait for an event file ends. *)
(* The exception is a sound sensor whose worker opens the command fifo of a *)
(* process that is gone: that call never returns (abstractVirtualSensor-    *)
(* Worker.cpp:142).                                                        *)
StatusSettles ==
  /\ status \in {"starting", "stopping"} ~> (status \notin {"starting", "stopping"} \/ Blocked)
  /\ rangeStatus = "starting" \/ waiting # "no" ~>
       (rangeStatus # "starting" /\ waiting = "no") \/ rangeError # "none"

-----------------------------------------------------------------------------
(* What the source says and does not keep.                                  *)

(* abstractVirtualSensorWorker.cpp of an init that finds the fifos: "Sensor *)
(* is already running but we are not connected to it." They are also there  *)
(* when its process has died, and then the worker's thread is in open() for *)
(* good and serves no call.                                                *)
RunningIfThere == ~Blocked

(* abstractVirtualSensorWorker.cpp of an init of a sensor that is ready:    *)
(* "Trying to init video sensor that is already running, ignoring" - it     *)
(* goes on to read from its fifo.                                          *)
ReadyIsHeard == status = "ready" => output = "open"

(* deviceState.h of ready(): "Possible only from off and starting states".  *)
(* A reset that meets an opening starts a sensor that its stop has not      *)
(* stopped.                                                                *)
NeverThrows == rangeError # "uncaught"

(* The event file whose open() waits on the stack of the worker's thread is *)
(* there until open() has returned.                                        *)
NeverDeletedWhileOpening == rangeError # "deleted"

(* rangeSensor.h of stop: "Stops sensor until init() will be called again." *)
StopWins ==
  [][OpenReturns /\ rangeStatus = "off" => rangeStatus' = "off"]_vars
=============================================================================
