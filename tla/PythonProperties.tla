--------------------------- MODULE PythonProperties ---------------------------
(***************************************************************************)
(* What running and stopping programs through TrikScriptRunner must keep,   *)
(* and what is documented of it.                                           *)
(***************************************************************************)
EXTENDS TrikScriptRunner

Steps ==
  {<<step>> : step \in {"stop", "interrupt", "wakeMail", "setReady", "resetBrick",
                        "jsStop", "jsStart"}}
    \cup {<<"post", s>> : s \in Scripts}

TypeOK ==
  /\ mState \in {"ready", "starting", "stopping", "running"}
  /\ queue \in Seq(Scripts) /\ frames \in Seq(Frame)
  /\ {interrupt, hadError, driven, js, asked, trikPy} \subseteq BOOLEAN
  /\ aimed \subseteq Scripts /\ issued \in 0 .. MaxScripts
  /\ gui \in Seq(Steps) /\ events \in Seq({"completed", "mail"})
  /\ delivered \in 0 .. MaxMail /\ mail \in 0 .. delivered
  /\ last \in Languages
  /\ calls \in 0 .. MaxCalls

AtRest == frames = <<>> /\ queue = <<>> /\ gui = <<>>

(* At rest the worker is ready: mState is written by both threads and only  *)
(* one of them holds the mutex, yet no interleaving of the ends of programs,*)
(* nested in one another, with stops leaves it stopping (no stop would ever *)
(* do anything again), starting or, unless TRIK.py is missing, running.     *)
RestIsReady == AtRest => mState = "ready" \/ (mState = "running" /\ ~trikPy)

(* The types, and the state that the worker comes to rest in.               *)
WorkerRests == TypeOK /\ RestIsReady

(* The brick is quiet once no program is left and the GUI thread has heard  *)
(* of the last completion, although each abort resets it while the stopped  *)
(* program, or one nested in it, may still drive it.                        *)
BrickQuiet == AtRest /\ events = <<>> => ~driven

(* A program is only ever interrupted by a stop that was called when it was *)
(* already there: the interrupt that comes too late for one program does    *)
(* not hit the next one.                                                    *)
NoStaleInterrupt ==
  [][At({"eval"}) /\ IsRun(Top.id) /\ interrupt /\ ~interrupt' => Top.id \in aimed]_vars

(* An abort goes to the runner whose program runs: only an autocompletion   *)
(* query for another language can turn it away.                             *)
AbortReaches == js /\ gui = <<>> => last = "js" \/ asked

(* A program that is interrupted while it evaluates, or while it waits in a *)
(* call, ends; the one way out is that another script is run inside it.     *)
JustInterrupted(s) ==
  /\ interrupt /\ gui # <<>> /\ Head(gui)[1] = "wakeMail"
  /\ At({"eval", "loop"}) /\ Top.id = s
Within(s) == \E i \in DOMAIN frames : frames[i].id = s /\ frames[i].pc \in {"eval", "calling", "loop"}
InterruptEnds ==
  \A s \in Scripts : IsRun(s) => JustInterrupted(s) ~> (~Within(s) \/ Top.id # s)

(* pythonEngineWorker.h: "Stops script execution and resets script engine"; *)
(* after a stop no program goes on for ever.                                *)
StopEndsScript ==
  \A s \in Scripts : IsRun(s) => (Within(s) /\ mState = "ready") ~> ~Within(s)

(* mailboxInterface.h: receive "blocks until a message is received".         *)
ReceiveReturns ==
  (At({"loop"}) /\ Top.call = "receive" /\ mail > 0)
    ~> ~(At({"loop"}) /\ Top.call = "receive" /\ mail > 0)
=============================================================================
