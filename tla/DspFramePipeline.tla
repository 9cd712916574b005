--------------------------- MODULE DspFramePipeline ---------------------------
(***************************************************************************)
(* The loop that feeds camera frames to the DSP, and the GUI thread that    *)
(* steers it: setChannel and stop write under mChannelLock and then abort   *)
(* the loop's wait for a frame. The frames come from CameraManager, of      *)
(* which only what the loop can see is kept: whether a port has a latest    *)
(* frame, and whether the loop has taken it already (mSeenSeq). The names    *)
(* that every specification has carry the pipeline's here, so that this     *)
(* module can be read together with another loop's.                        *)
(***************************************************************************)
EXTENDS Integers

CONSTANTS
  Ports,       \* the camera ports
  NoPort,      \* port id -1
  MaxRequests  \* bound: the number of autoDetect requests

ASSUME PipelineAssumption ==
  NoPort \notin Ports /\ MaxRequests \in Nat

VARIABLES
  running,    \* mRunning
  channel,    \* mChannel: port, autoDetect request (0: none), videoOut
  changed,    \* mChannelChanged
  pc,         \* where the loop is
  read,       \* its local portId
  active,     \* mActivePortId
  spec,       \* its local copy of the channel
  videoOpen,  \* mVideoOpen
  fresh,      \* the latest frame of each port, as the loop sees it
  held,       \* the ports that the GUI thread holds: their streams are on
  manager,    \* what VideoSensorManager, on the GUI thread, is doing
  requests    \* history: the autoDetect requests made

loop == <<pc, read, active, spec, videoOpen>>
pipelineVars == <<running, channel, changed, loop, fresh, held, manager, requests>>

Specs == [port: Ports \cup {NoPort}, detect: 0 .. MaxRequests, video: BOOLEAN]
NoChannel == [port |-> NoPort, detect |-> 0, video |-> FALSE]

-----------------------------------------------------------------------------
(* DspFramePipeline::run                                                   *)

(* It ends with the video output closed.                                    *)
Leave ==
  /\ pc' = "left"
  /\ videoOpen' = FALSE

ReadChannel ==
  /\ pc = "top"
  /\ IF running
     THEN /\ read' = channel.port
          /\ pc' = IF channel.port = NoPort THEN "asleep" ELSE "switch"
          /\ UNCHANGED videoOpen
     ELSE Leave /\ UNCHANGED read
  /\ UNCHANGED <<running, channel, changed, active, spec, fresh, held, manager, requests>>

(* Fault: the sleeping loop does not notice a stop. *)
Wake_ChannelOnly ==
  /\ pc = "asleep"
  /\ channel.port # NoPort
  /\ pc' = "top"
  /\ UNCHANGED <<running, channel, changed, read, active, spec, videoOpen, fresh, held, manager, requests>>

Wake ==
  /\ pc = "asleep"
  /\ ~running \/ channel.port # NoPort
  /\ pc' = "top"
  /\ UNCHANGED <<running, channel, changed, read, active, spec, videoOpen, fresh, held, manager, requests>>

(* A new port starts from sequence number 0; the abort flag is reset.       *)
SwitchPort ==
  /\ pc = "switch"
  /\ active' = read
  /\ IF active = read
     THEN UNCHANGED <<fresh, videoOpen>>
     ELSE /\ fresh' = [fresh EXCEPT ![read] = IF @ = "seen" THEN "new" ELSE @]
          /\ videoOpen' = FALSE
  /\ changed' = FALSE
  /\ pc' = "waiting"
  /\ UNCHANGED <<running, channel, read, spec, held, manager, requests>>

(* CameraManager::getFrame without a timeout: the abort flag comes first.   *)
WaitAborted ==
  /\ pc = "waiting"
  /\ changed
  /\ pc' = "top"
  /\ UNCHANGED <<running, channel, changed, read, active, spec, videoOpen, fresh, held, manager, requests>>

TakeFrame ==
  /\ pc = "waiting"
  /\ ~changed
  /\ fresh[read] = "new"
  /\ fresh' = [fresh EXCEPT ![read] = "seen"]
  /\ pc' = "taken"
  /\ UNCHANGED <<running, channel, changed, read, active, spec, videoOpen, held, manager, requests>>

(* Fault: the channel is not compared with the port of the frame. *)
TakeChannel_Unchecked ==
  /\ pc = "taken"
  /\ IF running
     THEN spec' = channel /\ videoOpen' = channel.video /\ pc' = "processing"
     ELSE Leave /\ UNCHANGED spec
  /\ UNCHANGED <<running, channel, changed, read, active, fresh, held, manager, requests>>

(* Fault: after a switch the loop waits on without reading the channel. *)
TakeChannel_WaitsOn ==
  /\ pc = "taken"
  /\ IF running
     THEN /\ spec' = channel
          /\ videoOpen' = IF channel.port = read THEN channel.video ELSE videoOpen
          /\ pc' = IF channel.port = read THEN "processing" ELSE "waiting"
     ELSE Leave /\ UNCHANGED spec
  /\ UNCHANGED <<running, channel, changed, read, active, fresh, held, manager, requests>>

(* The channel is read again once the frame is there.                       *)
TakeChannel ==
  /\ pc = "taken"
  /\ IF running
     THEN /\ spec' = channel
          /\ videoOpen' = IF channel.port = read THEN channel.video ELSE videoOpen
          /\ pc' = IF channel.port = read THEN "processing" ELSE "top"
     ELSE Leave /\ UNCHANGED spec
  /\ UNCHANGED <<running, channel, changed, read, active, fresh, held, manager, requests>>

(* DspServer::processFrame; only a detection's answer clears its request.   *)
Process ==
  /\ pc = "processing"
  /\ pc' \in (IF spec.detect = 0 THEN {"top"} ELSE {"top", "detected"})
  /\ UNCHANGED <<running, channel, changed, read, active, spec, videoOpen, fresh, held, manager, requests>>

ClearDetect ==
  /\ pc = "detected"
  /\ channel' = [channel EXCEPT !.detect = 0]
  /\ pc' = "top"
  /\ UNCHANGED <<running, changed, read, active, spec, videoOpen, fresh, held, manager, requests>>

-----------------------------------------------------------------------------
(* The GUI thread: VideoSensorManager                                       *)

(* activateForPort: the port is acquired and becomes the channel.           *)
Activate(p, video, detect) ==
  /\ manager = "idle"
  /\ detect => requests < MaxRequests
  /\ requests' = IF detect THEN requests + 1 ELSE requests
  /\ held' = held \cup {p}
  /\ channel' = [port |-> p, detect |-> IF detect THEN requests' ELSE 0, video |-> video]
  /\ manager' = "aborting"
  /\ UNCHANGED <<running, changed, loop, fresh>>

(* handleStopRequested with StopAll, or with StopNone: the port keeps       *)
(* streaming.                                                              *)
StopPort(p) ==
  /\ manager = "idle"
  /\ p \in held
  /\ IF channel.port = p
     THEN channel' = NoChannel /\ manager' = "aborting"
     ELSE UNCHANGED <<channel, manager>>
  /\ held' \in {held, held \ {p}}
  /\ UNCHANGED <<running, changed, loop, fresh, requests>>

(* CameraManager::abortFrameWaits, the end of setChannel                    *)
AbortWaits ==
  /\ manager = "aborting"
  /\ changed' = TRUE
  /\ manager' = "idle"
  /\ UNCHANGED <<running, channel, loop, fresh, held, requests>>

(* destroyDsp: stop, and the thread is waited for.                          *)
Stop ==
  /\ manager = "idle"
  /\ running' = FALSE
  /\ manager' = "stopping"
  /\ UNCHANGED <<channel, changed, loop, fresh, held, requests>>

AbortAndWait ==
  /\ manager = "stopping"
  /\ changed' = TRUE
  /\ manager' = "joining"
  /\ UNCHANGED <<running, channel, loop, fresh, held, requests>>

Joined ==
  /\ manager = "joining"
  /\ pc = "left"
  /\ manager' = "destroyed"
  /\ UNCHANGED <<running, channel, changed, loop, fresh, held, requests>>

(* CameraManager: a frame of a streaming port; the end of its stream.       *)
Frame(p) ==
  /\ p \in held
  /\ fresh[p] # "new"
  /\ fresh' = [fresh EXCEPT ![p] = "new"]
  /\ UNCHANGED <<running, channel, changed, loop, held, manager, requests>>

DropLatest(p) ==
  /\ p \notin held
  /\ fresh[p] # "none"
  /\ fresh' = [fresh EXCEPT ![p] = "none"]
  /\ UNCHANGED <<running, channel, changed, loop, held, manager, requests>>

-----------------------------------------------------------------------------
PipelineInit ==
  /\ running = TRUE /\ channel = NoChannel /\ changed = FALSE
  /\ pc = "top" /\ read = NoPort /\ active = NoPort /\ spec = NoChannel /\ videoOpen = FALSE
  /\ fresh = [p \in Ports |-> "none"]
  /\ held = {} /\ manager = "idle" /\ requests = 0

LoopStep ==
  \/ ReadChannel \/ Wake \/ SwitchPort \/ WaitAborted \/ TakeFrame \/ TakeChannel
  \/ Process \/ ClearDetect

ManagerGoesOn == AbortWaits \/ AbortAndWait \/ Joined

PipelineNext ==
  \/ LoopStep
  \/ \E p \in Ports : \E video, detect \in BOOLEAN : Activate(p, video, detect)
  \/ \E p \in Ports : StopPort(p) \/ Frame(p) \/ DropLatest(p)
  \/ Stop \/ ManagerGoesOn

PipelineSpec == PipelineInit /\ [][PipelineNext]_pipelineVars

(* Both threads run, and a streaming camera goes on giving frames; the GUI   *)
(* thread need not do anything, nor a port that was released stream again.   *)
FairPipelineSpec ==
  /\ PipelineSpec
  /\ WF_pipelineVars(LoopStep) /\ WF_pipelineVars(ManagerGoesOn)
  /\ \A p \in Ports : WF_pipelineVars(Frame(p)) /\ WF_pipelineVars(DropLatest(p))
=============================================================================
