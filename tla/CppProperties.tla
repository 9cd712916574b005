---------------------------- MODULE CppProperties ----------------------------
(***************************************************************************)
(* What running compiled programs must keep, and what is documented of it.  *)
(***************************************************************************)
EXTENDS CppEngineWorker

(* Every variable keeps its type; a run is never newer than mCurrentRunId,  *)
(* and the worker has a job exactly while it is in doRun.                   *)
TypeOK ==
  /\ runId \in Nat
  /\ terminate \in BOOLEAN /\ driven \in BOOLEAN
  /\ queue \in Seq(Job)
  /\ place \in {"idle", "loading", "running"}
  /\ job \in (IF place = "idle" THEN {NoJob} ELSE Job)
  /\ job.run <= runId
  /\ todo \in Seq(Deeds)
  /\ scripts \in 0 .. MaxRuns
  /\ aborts \in 0 .. MaxAborts
  /\ signals \subseteq Scripts

(* The brick is quiet once no program runs and the GUI thread has heard of  *)
(* every completion, although aborts reset it while the program still runs  *)
(* and may drive it again.                                                 *)
BrickQuiet == driven => place = "running" \/ signals # {}

(* A call posts at most one run, last of all, and has an id left for it.    *)
PostComesLast ==
  \A i \in DOMAIN todo : todo[i] = "post" => i = Len(todo) /\ scripts < MaxRuns

(* TypeOK and BrickQuiet, and what makes them inductive.                    *)
IndInv == TypeOK /\ PostComesLast /\ BrickQuiet

(* Every run that is posted is completed, run or skipped: the GUI hides its *)
(* widget and leaves the running state on that signal only.                 *)
Posted(s) ==
  \/ \E i \in DOMAIN queue : queue[i].script = s
  \/ job.script = s
EveryRunCompletes ==
  \A s \in Scripts : Posted(s) ~> (s \in signals)

(* trikCppProgram.h: the runtime will "set isTerminate to true when the     *)
(* program must stop" - a program that a stop or another run has superseded *)
(* does not run for ever.                                                  *)
SupersededEnds ==
  (place = "running" /\ job.run # runId) ~> (place # "running" \/ job.run = runId)
=============================================================================
