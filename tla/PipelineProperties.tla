-------------------------- MODULE PipelineProperties --------------------------
(***************************************************************************)
(* What the DSP pipeline must keep, and what its documentation promises.    *)
(***************************************************************************)
EXTENDS DspFramePipeline

Steps == {"top", "asleep", "switch", "waiting", "taken", "processing", "detected", "left"}

(* Every variable keeps its type, and a loop that waits for a frame or has  *)
(* one is on a port, its active one.                                       *)
PipelineTypeOK ==
  /\ running \in BOOLEAN /\ changed \in BOOLEAN /\ videoOpen \in BOOLEAN
  /\ channel \in Specs /\ spec \in Specs
  /\ pc \in Steps
  /\ read \in Ports \cup {NoPort} /\ active \in Ports \cup {NoPort}
  /\ pc \in {"switch", "waiting", "taken", "processing", "detected"} => read \in Ports
  /\ pc \in {"waiting", "taken", "processing", "detected"} => active = read
  /\ fresh \in [Ports -> {"none", "seen", "new"}]
  /\ held \subseteq Ports
  /\ manager \in {"idle", "aborting", "stopping", "joining", "destroyed"}
  /\ requests \in 0 .. MaxRequests

(* A frame is processed with the parameters of its own port, although the   *)
(* channel may be replaced while the loop waits for the frame.              *)
FrameOfItsChannel == pc \in {"processing", "detected"} => spec.port = active

(* The video output belongs to the active port and is closed when the loop  *)
(* ends.                                                                   *)
VideoClosedAtEnd == pc = "left" => ~videoOpen

(* The loop waits for a frame, or is about to, of a port that was released. *)
WaitsInVain == pc \in {"switch", "waiting"} /\ read \notin held

(* destroyDsp goes on after its stop, wherever the loop is - as long as the *)
(* port of which the loop awaits a frame streams: an abort that the loop    *)
(* resets before it has seen it is made good by the next frame.             *)
StopReturnsOnStream ==
  manager = "stopping" ~> (manager = "destroyed" \/ WaitsInVain)

(* A channel that stays set becomes the loop's, on the same condition, also *)
(* when it is replaced by others and set again meanwhile.                   *)
ChannelTakesEffectOnStream ==
  \A p \in Ports :
    (channel.port = p) ~> (read = p \/ channel.port # p \/ ~running \/ WaitsInVain)

-----------------------------------------------------------------------------
(* Promises of the documentation that the code does not keep.               *)

(* dspFramePipeline.h: stop() "takes effect promptly: wakes any pending     *)
(* frame wait" - the thread that destroys the pipeline goes on.             *)
StopReturns == manager = "stopping" ~> manager = "destroyed"

(* cameraManager.h: the abort "cannot lose a wakeup, so a channel change    *)
(* takes effect immediately" - a channel that stays set becomes the loop's. *)
ChannelTakesEffect ==
  \A p \in Ports : (channel.port = p) ~> (read = p \/ channel.port # p \/ ~running)

(* dspFramePipeline.cpp: "autoDetect is one-shot: consume it after exactly  *)
(* one frame" - a request is cleared by the answer to it.                   *)
DetectAnswered ==
  [][(channel.detect # 0 /\ channel'.detect = 0 /\ ClearDetect) =>
        spec.detect = channel.detect]_pipelineVars
=============================================================================
