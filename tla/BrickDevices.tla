---------------------------- MODULE BrickDevices ----------------------------
(***************************************************************************)
(* The brick with a sound sensor and a range sensor. stop() and reset() of  *)
(* Brick go over the devices on the thread that calls them, while a script  *)
(* uses the sound sensor and each device's worker serves its own queue.     *)
(***************************************************************************)
EXTENDS VirtualSensor, RangeSensor

CONSTANT MaxStops    \* bound: calls of Brick::stop and Brick::reset

ASSUME BrickAssumption == MaxStops \in Nat

VARIABLES
  brick,        \* the step of Brick::stop or Brick::reset
  resets,       \* it is reset
  stops         \* calls so far

bricking == <<brick, resets, stops>>
vars == <<sensorVars, rangeVars, bricking>>

Begin ==
  /\ brick = "idle"
  /\ stops < MaxStops
  /\ stops' = stops + 1
  /\ resets' \in BOOLEAN
  /\ brick' = "sound"
  /\ UNCHANGED <<sensorVars, rangeVars>>

(* Fault: the sensor is not told. *)
SoundStop_Forgets ==
  /\ brick = "soundStop"
  /\ brick' = "range"
  /\ UNCHANGED <<sensorVars, rangeVars, resets, stops>>

(* A sound sensor that is ready is told to stop. The status is looked at    *)
(* twice, by the brick and by the sensor, before the call is posted.        *)
LookAtSound ==
  /\ brick = "sound"
  /\ brick' = IF status = "ready" THEN "soundStop" ELSE "range"
  /\ UNCHANGED <<sensorVars, rangeVars, resets, stops>>

SoundStop ==
  /\ brick = "soundStop"
  /\ \/ calls' = Append(calls, "stop")
     \/ status # "ready" /\ UNCHANGED calls
  /\ brick' = "range"
  /\ UNCHANGED <<worker, commanding, process, scripting, rangeVars, resets, stops>>

(* A range sensor that has not failed is told to stop, and by a reset to    *)
(* start again.                                                            *)
Still == resets' = (resets /\ brick' # "idle")

LookAtRange(from, to, end) ==
  /\ brick = from
  /\ brick' = IF rangeStatus = Failed THEN end ELSE to
  /\ Still
  /\ UNCHANGED <<sensorVars, rangeVars, stops>>

PostToRange(from, call, end) ==
  /\ brick = from
  /\ rangeCalls' = Append(rangeCalls, call)
  /\ brick' = end
  /\ Still
  /\ UNCHANGED <<sensorVars, rangeStatus, opened, waiting, driver, rangeError, stops>>

AfterStop == IF resets THEN "init" ELSE "idle"

Reset ==
  \/ LookAtRange("range", "rangeStop", AfterStop)
  \/ PostToRange("rangeStop", "stop", AfterStop)
  \/ LookAtRange("init", "rangeInit", "idle")
  \/ PostToRange("rangeInit", "init", "idle")

Brick == LookAtSound \/ SoundStop \/ Reset

Init ==
  /\ SensorInit
  /\ RangeStarts
  /\ brick = "idle" /\ resets = FALSE /\ stops = 0

SensorStep == SensorNext /\ UNCHANGED <<rangeVars, bricking>>
RangeStep == RangeNext /\ UNCHANGED <<sensorVars, bricking>>

Next == SensorStep \/ RangeStep \/ Begin \/ Brick

Spec == Init /\ [][Next]_vars

(* Each thread serves its queue: event loops, the timers of the wait, and   *)
(* the brick, which is under way.                                          *)
FairSpec ==
  /\ Spec
  /\ WF_vars(SensorWorker /\ UNCHANGED <<rangeVars, bricking>>)
  /\ WF_vars(RangeWorker /\ UNCHANGED <<sensorVars, bricking>>)
  /\ WF_vars(Brick)
=============================================================================
