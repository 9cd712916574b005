------------------------------ MODULE LoopProofs ------------------------------
(***************************************************************************)
(* Theorems about the two loops that another thread steers through flags:   *)
(* the program of the C++ worker, for any number of runs and aborts, and    *)
(* the loop of the DSP pipeline, for any ports and any number of requests.  *)
(***************************************************************************)
EXTENDS CppProperties, PipelineProperties, TLAPS

-----------------------------------------------------------------------------
(* The C++ worker: BrickQuiet is inductive given the types; the type of the *)
(* worker's queue needs that a call posts a run only as its last deed,      *)
(* while it has an id for it.                                              *)

LEMMA InitInv == Init => IndInv
<1> SUFFICES ASSUME Init PROVE IndInv
  OBVIOUS
<1>1. terminate \in BOOLEAN /\ driven \in BOOLEAN
  BY DEF Init
<1> QED
  BY <1>1, CppAssumption DEF Init, IndInv, TypeOK, PostComesLast, BrickQuiet, NoJob, Scripts

(* What is left of a call when one of its deeds is done.                    *)
LEMMA Deed ==
  ASSUME todo \in Seq(Deeds), PostComesLast, NEW deed \in Deeds, Does(deed)
  PROVE  /\ todo' \in Seq(Deeds)
         /\ \A i \in DOMAIN todo' :
              todo'[i] = "post" => i = Len(todo') /\ scripts < MaxRuns /\ deed # "post"
         /\ deed = "post" => scripts < MaxRuns /\ todo' = <<>>
<1>1. Len(todo) \in Nat \ {0} /\ todo' = Tail(todo) /\ todo[1] = deed
  BY DEF Does
<1>2. todo' \in Seq(Deeds) /\ Len(todo') = Len(todo) - 1
  BY <1>1
<1>3. \A i \in DOMAIN todo' : i + 1 \in DOMAIN todo /\ todo'[i] = todo[i + 1]
  BY <1>1, <1>2
<1>4. 1 \in DOMAIN todo
  BY <1>1
<1>5. deed = "post" => Len(todo) = 1 /\ scripts < MaxRuns
  BY <1>1, <1>4 DEF PostComesLast
<1> QED
  BY <1>1, <1>2, <1>3, <1>5 DEF PostComesLast

LEMMA HeadAndTail ==
  ASSUME NEW S, NEW s \in Seq(S), s # <<>>
  PROVE  Head(s) \in S /\ Tail(s) \in Seq(S)
  OBVIOUS

(* A run that ends goes from the worker's job to the signals.               *)
LEMMA Finished ==
  ASSUME TypeOK, BrickQuiet, NEW script \in Scripts, Finishes(script),
         UNCHANGED <<runId, terminate, gui, driven>>, queue' \in Seq(Job)
  PROVE  TypeOK' /\ BrickQuiet'
<1>1. signals' \subseteq Scripts /\ signals' # {}
  BY DEF Finishes, TypeOK
<1>2. place' = "idle" /\ job' = NoJob /\ job'.run <= runId'
  BY DEF Finishes, TypeOK, NoJob
<1>3. BrickQuiet'
  BY <1>1 DEF BrickQuiet
<1>4. TypeOK'
  BY <1>1, <1>2 DEF TypeOK, gui
<1> QED
  BY <1>3, <1>4

LEMMA NextInv == IndInv /\ [Next]_vars => IndInv'
<1> SUFFICES ASSUME IndInv, [Next]_vars PROVE IndInv'
  OBVIOUS
<1> USE CppAssumption
    DEF IndInv, TypeOK, PostComesLast, BrickQuiet, NoJob, Job, Scripts, worker, gui
<1>1. CASE CallRun
  <2>1. todo' = <<"renumber", "terminate", "reset", "renumber", "terminate", "post">>
    BY <1>1 DEF CallRun, Run
  <2>2. todo' \in Seq(Deeds)
    BY <2>1 DEF Deeds
  <2>3. TypeOK'
    BY <1>1, <2>2 DEF CallRun
  <2>4. PostComesLast'
    <3>1. DOMAIN todo' = 1 .. 6 /\ Len(todo') = 6
      BY <2>1
    <3>2. /\ todo'[1] = "renumber" /\ todo'[2] = "terminate" /\ todo'[3] = "reset"
          /\ todo'[4] = "renumber" /\ todo'[5] = "terminate"
      BY <2>1
    <3>3. \A i \in 1 .. 6 : i = 1 \/ i = 2 \/ i = 3 \/ i = 4 \/ i = 5 \/ i = 6
      OBVIOUS
    <3>4. scripts' < MaxRuns
      BY <1>1 DEF CallRun
    <3> QED
      BY <3>1, <3>2, <3>3, <3>4
  <2> QED
    BY <1>1, <2>3, <2>4 DEF CallRun
<1>2. CASE CallAbort
  <2>1. todo' = <<"renumber", "terminate", "reset">>
    BY <1>2 DEF CallAbort, Abort
  <2>2. todo' \in Seq(Deeds)
    BY <2>1 DEF Deeds
  <2>3. TypeOK'
    BY <1>2, <2>2 DEF CallAbort
  <2>4. PostComesLast'
    BY <1>2, <2>1 DEF CallAbort
  <2> QED
    BY <1>2, <2>3, <2>4 DEF CallAbort
<1>3. CASE Renumber
  BY <1>3, Deed DEF Renumber, Deeds
<1>4. CASE Terminate
  BY <1>4, Deed DEF Terminate, Deeds
<1>5. CASE ResetBrick
  BY <1>5, Deed DEF ResetBrick, Deeds
<1>6. CASE Post
  <2>1. scripts < MaxRuns /\ todo' = <<>> /\ todo' \in Seq(Deeds)
    BY <1>6, Deed DEF Post, Deeds
  <2>2. [script |-> scripts, run |-> runId'] \in Job
    BY <1>6, <2>1 DEF Post
  <2>3. queue' \in Seq(Job)
    BY <1>6, <2>2 DEF Post
  <2>4. TypeOK'
    BY <1>6, <2>1, <2>3 DEF Post
  <2> QED
    BY <1>6, <2>1, <2>4 DEF Post
<1>7. CASE Completed
  BY <1>7 DEF Completed
<1>8. CASE Skip
  <2>1. Head(queue) \in Job /\ queue' \in Seq(Job)
    BY <1>8, HeadAndTail DEF Skip
  <2>2. TypeOK' /\ BrickQuiet'
    BY <1>8, <2>1, Finished DEF Skip
  <2> QED
    BY <1>8, <2>2 DEF Skip
<1>9. ASSUME place # "idle" PROVE job \in Job /\ job.script \in Scripts
  BY <1>9
<1>10. CASE Load
  <2>1. Head(queue) \in Job /\ queue' \in Seq(Job)
    BY <1>10, HeadAndTail DEF Load
  <2> QED
    BY <1>10, <2>1 DEF Load
<1>11. CASE LoadFails
  BY <1>9, <1>11, Finished DEF LoadFails
<1>12. CASE Begin
  BY <1>12 DEF Begin
<1>13. CASE Drive
  BY <1>13 DEF Drive
<1>14. CASE ProgramEnds
  BY <1>9, <1>14, Finished DEF ProgramEnds
<1>15. CASE UNCHANGED vars
  BY <1>15 DEF vars
<1> HIDE DEF IndInv
<1> QED
  BY <1>1, <1>2, <1>3, <1>4, <1>5, <1>6, <1>7, <1>8, <1>10, <1>11, <1>12, <1>13, <1>14, <1>15
     DEF Next, GuiGoesOn, WorkerGoesOn

(* Every variable keeps its type, however the two threads interleave.       *)
THEOREM WorkerTyped == Spec => []TypeOK
<1>1. IndInv => TypeOK
  BY DEF IndInv
<1> QED
  BY <1>1, InitInv, NextInv, PTL DEF Spec

(* When no program runs and no completion is on its way, nothing is driven: *)
(* Controller resets the brick after every program, aborted or not.         *)
THEOREM BrickLeftQuiet == Spec => []BrickQuiet
<1>1. IndInv => BrickQuiet
  BY DEF IndInv
<1> QED
  BY <1>1, InitInv, NextInv, PTL DEF Spec

-----------------------------------------------------------------------------
(* The DSP pipeline. Its PipelineTypeOK says besides the types which of the *)
(* loop's places have a port, and that from the wait on it is the active    *)
(* one; with that the three invariants are inductive together.             *)

PipelineInv ==
  PipelineTypeOK /\ FrameOfItsChannel /\ VideoClosedAtEnd

LEMMA InitPipeline == PipelineInit => PipelineInv
<1> SUFFICES ASSUME PipelineInit PROVE PipelineInv
  OBVIOUS
<1> USE PipelineAssumption DEF PipelineInit
<1>1. NoChannel \in Specs
  BY DEF Specs, NoChannel
<1>2. running \in BOOLEAN /\ changed \in BOOLEAN /\ videoOpen \in BOOLEAN
  OBVIOUS
<1>3. PipelineTypeOK
  BY <1>1, <1>2 DEF PipelineTypeOK, Steps
<1> QED
  BY <1>3 DEF PipelineInv, FrameOfItsChannel, VideoClosedAtEnd

(* One step per action: the loop's, the GUI thread's and the camera's.      *)
LEMMA NextPipeline == PipelineInv /\ [PipelineNext]_pipelineVars => PipelineInv'
<1> SUFFICES ASSUME PipelineInv, [PipelineNext]_pipelineVars PROVE PipelineInv'
  OBVIOUS
<1> USE PipelineAssumption
    DEF PipelineInv, PipelineTypeOK, FrameOfItsChannel, VideoClosedAtEnd, Specs, NoChannel,
        Steps, loop
<1>1. CASE ReadChannel
  BY <1>1, ZenonT(60) DEF ReadChannel, Leave
<1>2. CASE Wake
  BY <1>2 DEF Wake
<1>3. CASE SwitchPort
  BY <1>3, ZenonT(60) DEF SwitchPort
<1>4. CASE WaitAborted
  BY <1>4 DEF WaitAborted
<1>5. CASE TakeFrame
  BY <1>5 DEF TakeFrame
<1>6. CASE TakeChannel
  BY <1>6 DEF TakeChannel, Leave
<1>7. CASE Process
  BY <1>7 DEF Process
<1>8. CASE ClearDetect
  BY <1>8 DEF ClearDetect
<1>9. ASSUME NEW p \in Ports, NEW video \in BOOLEAN, NEW detect \in BOOLEAN,
             Activate(p, video, detect)
      PROVE PipelineInv'
  <2>1. requests' \in 0 .. MaxRequests /\ (IF detect THEN requests' ELSE 0) \in 0 .. MaxRequests
    BY <1>9 DEF Activate
  <2>2. channel' \in Specs
    BY <1>9, <2>1 DEF Activate
  <2>3. held' \subseteq Ports
    BY <1>9 DEF Activate
  <2>4. PipelineTypeOK'
    BY <1>9, <2>1, <2>2, <2>3 DEF Activate
  <2> QED
    BY <1>9, <2>4 DEF Activate
<1>10. ASSUME NEW p \in Ports, StopPort(p) PROVE PipelineInv'
  <2>1. held' \subseteq Ports
    BY <1>10 DEF StopPort
  <2>2. NoChannel \in Specs
    OBVIOUS
  <2>3. channel' \in {channel, NoChannel} /\ manager' \in {"idle", "aborting"}
    BY <1>10 DEF StopPort
  <2>4. channel' \in Specs
    BY <2>2, <2>3
  <2>5. PipelineTypeOK'
    BY <1>10, <2>1, <2>3, <2>4 DEF StopPort
  <2>6. UNCHANGED loop
    BY <1>10 DEF StopPort
  <2>7. FrameOfItsChannel' /\ VideoClosedAtEnd'
    BY <2>6
  <2> QED
    BY ONLY <2>5, <2>7 DEF PipelineInv
<1>11. CASE AbortWaits
  BY <1>11 DEF AbortWaits
<1>12. CASE Stop
  BY <1>12, ZenonT(60) DEF Stop
<1>13. CASE AbortAndWait
  BY <1>13 DEF AbortAndWait
<1>14. CASE Joined
  BY <1>14 DEF Joined
<1>15. ASSUME NEW p \in Ports, Frame(p) \/ DropLatest(p) PROVE PipelineInv'
  BY <1>15 DEF Frame, DropLatest
<1>16. CASE UNCHANGED pipelineVars
  BY <1>16 DEF pipelineVars
<1> HIDE DEF PipelineInv
<1> QED
  BY <1>1, <1>2, <1>3, <1>4, <1>5, <1>6, <1>7, <1>8, <1>9, <1>10, <1>11, <1>12, <1>13,
     <1>14, <1>15, <1>16
     DEF PipelineNext, LoopStep, ManagerGoesOn

(* No step leaves the types, and a loop with a frame is on its own port.    *)
THEOREM PipelineTyped == PipelineSpec => []PipelineTypeOK
<1>1. PipelineInv => PipelineTypeOK
  BY DEF PipelineInv
<1> QED
  BY <1>1, InitPipeline, NextPipeline, PTL DEF PipelineSpec

(* run() processes each frame with the parameters of the frame's port: the  *)
(* second read of the channel, after the wait, is what makes it so.         *)
THEOREM FramesMatchChannels == PipelineSpec => []FrameOfItsChannel
<1>1. PipelineInv => FrameOfItsChannel
  BY DEF PipelineInv
<1> QED
  BY <1>1, InitPipeline, NextPipeline, PTL DEF PipelineSpec

(* Whichever of its two checks of mRunning ends the loop, the video output  *)
(* is closed afterwards.                                                   *)
THEOREM VideoIsClosed == PipelineSpec => []VideoClosedAtEnd
<1>1. PipelineInv => VideoClosedAtEnd
  BY DEF PipelineInv
<1> QED
  BY <1>1, InitPipeline, NextPipeline, PTL DEF PipelineSpec
=============================================================================
