-------------------------- MODULE CameraProperties --------------------------
(***************************************************************************)
(* What CameraManager must keep, and what its documentation promises.       *)
(***************************************************************************)
EXTENDS CameraManager

(* Every variable keeps its type, whatever the clients and the device do.   *)
TypeOK ==
  /\ mq \in Seq(Event)
  /\ dev \in BOOLEAN /\ streaming \in BOOLEAN /\ latched \in BOOLEAN
  /\ refCount \in Nat
  /\ refs \in [Buffers -> Int]
  /\ latest \in Buffers \cup {NoBuffer}
  /\ queued \subseteq Buffers /\ refused \subseteq Buffers /\ armed \in BOOLEAN
  /\ capture \in Captures
  /\ fresh \in BOOLEAN
  /\ at \in [Clients -> Places]
  /\ frame \in [Clients -> Buffers \cup {NoBuffer}]
  /\ held \in BOOLEAN /\ channel \in BOOLEAN /\ closing \in BOOLEAN
  /\ outlived \in BOOLEAN

Readers(b) == {c \in Clients : at[c] = "holding" /\ frame[c] = b}

(* cameraManager.h: "the buffer is never recycled while somebody is still   *)
(* reading it" - a buffer that a client reads is not in the driver.         *)
NeverRecycledWhileRead ==
  \A b \in Buffers : Readers(b) # {} => b \notin queued

(* The same while no frame has outlived its stream: then only the last      *)
(* reader's release brings a buffer back.                                   *)
StreamFramesSafe == outlived \/ NeverRecycledWhileRead

(* A token's count is the manager's claim and one per Frame, as long as no  *)
(* frame has outlived its stream: onDeviceFrame sets the count of a buffer  *)
(* that it takes to be free.                                                *)
Claims(b) ==
  Cardinality(Readers(b))
    + (IF latest = b THEN 1 ELSE 0)
    + (IF capture.buf = b THEN 1 ELSE 0)
RefsAreClaims == outlived \/ \A b \in Buffers \ queued : refs[b] = Claims(b)

(* While the stream is on every buffer that the driver has not refused is   *)
(* in the driver, claimed, or on its way back: none is lost, or capture     *)
(* would stall until the stream is restarted.                              *)
OnItsWay(b) ==
  \/ \E c \in Clients : at[c] = "posting" /\ frame[c] = b
  \/ \E i \in DOMAIN mq : mq[i] = [kind |-> "return", buf |-> b]
NoBufferLost ==
  streaming =>
    \A b \in Buffers : b \in queued \cup refused \/ Claims(b) > 0 \/ OnItsWay(b)

(* No buffer is lost or counted wrongly by any order of capture, claims,    *)
(* releases, stops and restarts of the stream.                              *)
BuffersAccounted == TypeOK /\ RefsAreClaims /\ NoBufferLost

(* A stopped stream leaves nothing to deliver: getFrame after a stop never  *)
(* hands out a frame from before it. Only a failed start leaves buffers in  *)
(* the driver of an open device, and no refused buffer outlives its stream. *)
NothingStaleToDeliver ==
  /\ streaming \/ queued # {} => dev
  /\ ~streaming => latest = NoBuffer /\ capture = Nothing /\ refused = {} /\ ~armed
  /\ refCount > 0 => dev

(* A buffer is given back to the driver once: videoDeviceFileBase.cpp,      *)
(* "would otherwise re-QBUF a buffer that startStreaming() has already      *)
(* queued".                                                                *)
QueuedOnce ==
  [][\A b \in Buffers :
       (ReturnBuffer /\ streaming /\ Head(mq).buf = b) => b \notin queued]_vars

(* cameraManager.h: stopStreaming parks "when the last client releases (or  *)
(* right away if the caller is the only client)" - the stream is not        *)
(* stopped under a client that reads a frame, nobody else holding it.       *)
StopSparesOthers ==
  [][(StopStreaming /\ streaming /\ ~streaming') =>
       \A c \in Photos : at[c] # "holding"]_vars
=============================================================================
