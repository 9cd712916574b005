---------------------------- MODULE CameraManager ----------------------------
(***************************************************************************)
(* CameraManager with one port: the manager's thread with its event queue,  *)
(* the pool of reference-counted capture buffers, the V4L2 driver (external:*)
(* which buffers are queued in it), and the clients as the code has them -  *)
(* the threads that take a photo, the DSP pipeline's thread and             *)
(* VideoSensorManager and Brick on the GUI thread.                         *)
(*                                                                         *)
(* Capture sequence numbers are kept as far as a client compares them: the  *)
(* DSP takes a frame only if it is newer than the last it took.             *)
(***************************************************************************)
EXTENDS Integers, Sequences, FiniteSets

CONSTANTS
  Buffers,   \* the capture buffers of the port
  Photos,    \* the threads that take photos
  Ops,       \* what the GUI thread does
  MayFail,   \* whether the device may fail: to open, to start, to take a buffer
  MaxQueue,  \* bound: the manager's queue when a call is begun or a frame taken
  Dsp,       \* the DSP pipeline's thread
  NoBuffer

GuiOps == {"activate", "stopAll", "stopStream", "stopNone", "close"}
Clients == Photos \cup {Dsp}

ASSUME CameraAssumption ==
  /\ IsFiniteSet(Buffers) /\ Buffers # {} /\ NoBuffer \notin Buffers
  /\ IsFiniteSet(Photos) /\ Dsp \notin Photos
  /\ Ops \subseteq GuiOps
  /\ MayFail \in BOOLEAN
  /\ MaxQueue \in Nat \ {0}

VARIABLES
  mq,         \* the manager's event queue
  dev,        \* Entry::dev is open
  streaming,  \* Entry::streaming
  refCount,   \* Entry::refCount
  latched,    \* Entry::stopLatched
  refs,       \* Token::refs of each buffer
  latest,     \* Entry::latest
  queued,     \* the buffers in the driver's queue, which it fills while streaming
  refused,    \* the buffers that the driver has not taken back in this stream
  armed,      \* mNotifier is enabled: filled buffers are seen
  capture,    \* how far onDeviceFrame is, and with which buffer
  fresh,      \* the latest frame is newer than the DSP's last one
  at,         \* what each client does
  frame,      \* the buffer of the Frame that each client holds
  held,       \* the port is in VideoSensorManager::mHeldPorts
  channel,    \* the port is the pipeline's channel
  closing,    \* the GUI thread waits in close()
  outlived    \* history: a stream was stopped while a frame of it was out

device == <<dev, streaming, refCount, latched>>
pool == <<refs, latest, queued, refused, armed, capture, fresh, outlived>>
gui == <<held, channel, closing>>
vars == <<mq, device, pool, at, frame, gui>>

Event == [kind: {"acquire", "release", "stop", "close"}, buf: {NoBuffer}]
           \cup [kind: {"return"}, buf: Buffers]
Call(kind) == [kind |-> kind, buf |-> NoBuffer]
Post(events) == mq' = mq \o events

Nothing == [step |-> "none", buf |-> NoBuffer]
Captures == [step: {"swap", "drop"}, buf: Buffers] \cup {Nothing}
Places == {"idle", "waiting", "holding", "posting", "dropped"}

-----------------------------------------------------------------------------
(* The manager's thread                                                    *)

Serve(kind) ==
  /\ capture = Nothing
  /\ mq # <<>>
  /\ Head(mq).kind = kind
  /\ mq' = Tail(mq)

(* A frame is out from the moment a client claims it until the manager has  *)
(* served its return.                                                      *)
FramesOut ==
  \/ \E c \in Clients : frame[c] # NoBuffer
  \/ \E i \in DOMAIN mq : mq[i].kind = "return"

(* STREAMOFF takes every buffer out of the driver; dropLatest.              *)
Off ==
  /\ outlived' = (outlived \/ FramesOut)
  /\ streaming' = FALSE /\ armed' = FALSE
  /\ queued' = {} /\ refused' = {}
  /\ latest' = NoBuffer
  /\ refs' = IF latest = NoBuffer THEN refs ELSE [refs EXCEPT ![latest] = @ - 1]
  /\ UNCHANGED <<capture, fresh>>

StayOn ==
  UNCHANGED <<streaming, armed, queued, refused, latest, refs, capture, fresh, outlived>>

(* acquire: opens the device and starts the stream unless that is done;     *)
(* startStreaming queues every buffer, which the driver takes only if none  *)
(* of them is in its queue already.                                        *)
Acquire ==
  /\ Serve("acquire")
  /\ streaming \/ queued = {}
  /\ dev' = TRUE /\ streaming' = TRUE
  /\ IF streaming THEN UNCHANGED <<queued, armed>> ELSE queued' = Buffers /\ armed' = TRUE
  /\ refCount' = refCount + 1
  /\ UNCHANGED <<outlived, latched, refs, refused, latest, capture, fresh, at, frame, gui>>

(* ... and gives up when it cannot, leaving in the driver what it has       *)
(* queued: the next start then fails at its first buffer.                   *)
AcquireFails ==
  /\ MayFail /\ ~streaming
  /\ Serve("acquire")
  /\ \/ UNCHANGED <<dev, queued>>
     \/ dev' = TRUE /\ queued = {} /\ queued' \in SUBSET Buffers
  /\ UNCHANGED <<streaming, refCount, latched, refs, refused, armed, latest, capture, fresh>>
  /\ UNCHANGED <<outlived, at, frame, gui>>

(* Fault: the last client's release leaves the latest frame in place. *)
Release_KeepsLatest ==
  /\ Serve("release")
  /\ refCount' = IF refCount > 0 THEN refCount - 1 ELSE 0
  /\ IF refCount = 1
     THEN /\ dev' = latched
          /\ streaming' = FALSE /\ armed' = FALSE /\ queued' = {} /\ refused' = {}
          /\ UNCHANGED <<outlived, latest, refs, capture, fresh>>
     ELSE StayOn /\ UNCHANGED dev
  /\ UNCHANGED <<latched, at, frame, gui>>

(* The device is closed with REQBUFS(0), which empties the driver's queue.  *)
CloseIdle ==
  /\ queued' = {}
  /\ UNCHANGED <<streaming, armed, refused, latest, refs, capture, fresh, outlived>>

(* release: the last one stops the stream, and closes the device unless a   *)
(* stop is latched.                                                        *)
Release ==
  /\ Serve("release")
  /\ refCount' = IF refCount > 0 THEN refCount - 1 ELSE 0
  /\ IF refCount = 1
     THEN /\ dev' = latched
          /\ IF streaming THEN Off ELSE IF latched THEN StayOn ELSE CloseIdle
     ELSE StayOn /\ UNCHANGED dev
  /\ UNCHANGED <<latched, at, frame, gui>>

StopStreaming ==
  /\ Serve("stop")
  /\ latched' = (latched \/ dev)
  /\ IF dev /\ refCount <= 1 /\ streaming THEN Off ELSE StayOn
  /\ UNCHANGED <<dev, refCount, at, frame, gui>>

(* close: tearDownPort, and the GUI thread goes on.                         *)
Close ==
  /\ Serve("close")
  /\ Off
  /\ dev' = FALSE /\ refCount' = 0 /\ latched' = FALSE
  /\ closing' = FALSE
  /\ UNCHANGED <<at, frame, held, channel>>

(* VideoDeviceFileBase::release: QBUF, if the stream is on; a buffer that   *)
(* the driver refuses is only logged.                                      *)
Requeue(b) ==
  \/ /\ queued' = IF streaming THEN queued \cup {b} ELSE queued
     /\ refused' = refused \ {b}
  \/ /\ MayFail /\ streaming /\ b \notin queued
     /\ queued' = queued
     /\ refused' = refused \cup {b}

ReturnBuffer ==
  /\ Serve("return")
  /\ Requeue(Head(mq).buf)
  /\ UNCHANGED <<outlived, device, refs, armed, latest, capture, fresh, at, frame, gui>>

(* onDeviceFrame in three steps: the token is filled; it becomes the latest *)
(* under mFrameLock; the manager's claim of the old one is given up.        *)
CaptureFrame ==
  /\ capture = Nothing
  /\ armed
  /\ Len(mq) < MaxQueue
  /\ \E b \in queued :
       /\ queued' = queued \ {b}
       /\ refs' = [refs EXCEPT ![b] = 1]
       /\ capture' = [step |-> "swap", buf |-> b]
  /\ UNCHANGED <<outlived, mq, device, refused, armed, latest, fresh, at, frame, gui>>

(* onActivated with an error other than EAGAIN: the notifier is disabled    *)
(* until the next startStreaming.                                          *)
CaptureFails ==
  /\ MayFail
  /\ capture = Nothing /\ armed
  /\ armed' = FALSE
  /\ UNCHANGED <<outlived, mq, device, refs, queued, refused, latest, capture, fresh>>
  /\ UNCHANGED <<at, frame, gui>>

SwapLatest ==
  /\ capture.step = "swap"
  /\ latest' = capture.buf
  /\ fresh' = TRUE
  /\ capture' = IF latest = NoBuffer THEN Nothing ELSE [step |-> "drop", buf |-> latest]
  /\ UNCHANGED <<outlived, mq, device, refs, queued, refused, armed, at, frame, gui>>

(* Fault: the old frame is given back although a client still reads it. *)
DropOld_Always ==
  LET old == capture.buf
  IN /\ capture.step = "drop"
     /\ refs' = [refs EXCEPT ![old] = @ - 1]
     /\ Requeue(old)
     /\ capture' = Nothing
     /\ UNCHANGED <<outlived, mq, device, armed, latest, fresh, at, frame, gui>>

(* Fault: the old frame is never given back by the manager. *)
DropOld_Leaks ==
  /\ capture.step = "drop"
  /\ refs' = [refs EXCEPT ![capture.buf] = @ - 1]
  /\ capture' = Nothing
  /\ UNCHANGED <<outlived, mq, device, queued, refused, armed, latest, fresh, at, frame, gui>>

DropOld ==
  LET old == capture.buf
  IN /\ capture.step = "drop"
     /\ refs' = [refs EXCEPT ![old] = @ - 1]
     /\ IF refs[old] = 1 THEN Requeue(old) ELSE UNCHANGED <<queued, refused>>
     /\ capture' = Nothing
     /\ UNCHANGED <<outlived, mq, device, armed, latest, fresh, at, frame, gui>>

-----------------------------------------------------------------------------
(* A client and its Frame                                                  *)

Goes(c, there) == at' = [at EXCEPT ![c] = there]

(* getFrame, under mFrameLock: it sees the latest frame and claims it.      *)
GetFrame(c) ==
  /\ at[c] = "waiting"
  /\ latest # NoBuffer
  /\ c = Dsp => fresh
  /\ refs' = [refs EXCEPT ![latest] = @ + 1]
  /\ frame' = [frame EXCEPT ![c] = latest]
  /\ fresh' = (fresh /\ c # Dsp)
  /\ Goes(c, "holding")
  /\ UNCHANGED <<outlived, mq, device, latest, queued, refused, armed, capture, gui>>

(* Frame::release: the last reference posts the buffer's return.            *)
DropFrame(c) ==
  LET b == frame[c]
  IN /\ at[c] = "holding"
     /\ refs' = [refs EXCEPT ![b] = @ - 1]
     /\ IF refs[b] = 1
        THEN Goes(c, "posting") /\ UNCHANGED frame
        ELSE Goes(c, "dropped") /\ frame' = [frame EXCEPT ![c] = NoBuffer]
     /\ UNCHANGED <<outlived, mq, device, latest, queued, refused, armed, capture, fresh, gui>>

PostReturn(c) ==
  /\ at[c] = "posting"
  /\ Post(<<[kind |-> "return", buf |-> frame[c]]>>)
  /\ frame' = [frame EXCEPT ![c] = NoBuffer]
  /\ Goes(c, "dropped")
  /\ UNCHANGED <<device, pool, gui>>

(* V4l2CameraImplementation::getPhoto: acquire, a frame or a timeout,       *)
(* release.                                                                *)
PhotoBegins(c) ==
  /\ at[c] = "idle"
  /\ Len(mq) < MaxQueue
  /\ Post(<<Call("acquire")>>)
  /\ Goes(c, "waiting")
  /\ UNCHANGED <<device, pool, frame, gui>>

PhotoEnds(c) ==
  /\ at[c] \in {"waiting", "dropped"}
  /\ Post(<<Call("release")>>)
  /\ Goes(c, "idle")
  /\ UNCHANGED <<device, pool, frame, gui>>

(* DspFramePipeline::run: it waits for a frame of its channel. A change of  *)
(* the channel ends the wait, at once or (DspFramePipeline.tla) later.      *)
DspWaits ==
  /\ at[Dsp] = "idle"
  /\ channel
  /\ Goes(Dsp, "waiting")
  /\ UNCHANGED <<mq, device, pool, frame, gui>>

DspContinues ==
  /\ at[Dsp] = "dropped" \/ (at[Dsp] = "waiting" /\ ~channel)
  /\ Goes(Dsp, "idle")
  /\ UNCHANGED <<mq, device, pool, frame, gui>>

-----------------------------------------------------------------------------
(* The GUI thread: VideoSensorManager and Brick                            *)

Begins(op) == op \in Ops /\ ~closing /\ Len(mq) < MaxQueue

(* activateForPort                                                         *)
Activate ==
  /\ Begins("activate")
  /\ Post(IF held THEN <<>> ELSE <<Call("acquire")>>)
  /\ held' = TRUE
  /\ channel' = TRUE
  /\ UNCHANGED <<device, pool, at, frame, closing>>

GivesUp(before, after) ==
  /\ Post(before \o (IF held THEN <<Call("release")>> ELSE <<>>) \o after)
  /\ held' = FALSE
  /\ channel' = FALSE
  /\ UNCHANGED <<device, pool, at, frame>>

(* handleStopRequested with StopAll; stop and releasePort do the same.      *)
StopAll == Begins("stopAll") /\ GivesUp(<<>>, <<>>) /\ UNCHANGED closing

(* handleStopRequested with StopStream                                     *)
StopStream == Begins("stopStream") /\ GivesUp(<<Call("stop")>>, <<>>) /\ UNCHANGED closing

(* handleStopRequested with StopNone: the camera keeps streaming.           *)
StopNone ==
  /\ Begins("stopNone")
  /\ channel' = FALSE
  /\ UNCHANGED <<mq, device, pool, at, frame, held, closing>>

(* Brick::stop: the sensors are stopped and the manager's close is waited   *)
(* for.                                                                    *)
CloseAll == Begins("close") /\ GivesUp(<<>>, <<Call("close")>>) /\ closing' = TRUE

-----------------------------------------------------------------------------
Init ==
  /\ mq = <<>>
  /\ dev = FALSE /\ streaming = FALSE /\ refCount = 0 /\ latched = FALSE
  /\ refs = [b \in Buffers |-> 0]
  /\ latest = NoBuffer /\ capture = Nothing /\ fresh = FALSE
  /\ queued = {} /\ refused = {} /\ armed = FALSE
  /\ at = [c \in Clients |-> "idle"]
  /\ frame = [c \in Clients |-> NoBuffer]
  /\ held = FALSE /\ channel = FALSE /\ closing = FALSE
  /\ outlived = FALSE

ManagerStep ==
  \/ Acquire \/ AcquireFails \/ Release \/ StopStreaming \/ Close \/ ReturnBuffer
  \/ CaptureFrame \/ CaptureFails \/ SwapLatest \/ DropOld

FrameStep(c) == GetFrame(c) \/ DropFrame(c) \/ PostReturn(c)

Next ==
  \/ ManagerStep
  \/ \E c \in Clients : FrameStep(c)
  \/ \E c \in Photos : PhotoBegins(c) \/ PhotoEnds(c)
  \/ DspWaits \/ DspContinues
  \/ Activate \/ StopAll \/ StopStream \/ StopNone \/ CloseAll

Spec == Init /\ [][Next]_vars
=============================================================================
