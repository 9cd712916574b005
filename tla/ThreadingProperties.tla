------------------------- MODULE ThreadingProperties -------------------------
(* What Threading keeps, what it promises, and what its comments claim.      *)
EXTENDS Threading

(* Every lock has an owner or none, the tables and mailboxes hold ids of    *)
(* the program, and each thread is at a place of its own kind: only the     *)
(* worker handles finished() and a reset, only script threads evaluate.     *)
TypeOK ==
  /\ resetMutex \in Actors \cup {Free} /\ threadsMutex \in Actors \cup {Free}
  /\ initSem \in 0..1
  /\ threads \subseteq ThreadIds /\ finished \subseteq ThreadIds
  /\ prevented \subseteq ThreadIds
  /\ error \in BOOLEAN /\ eventDriven \in BOOLEAN
  /\ resetStarted \in BOOLEAN /\ resetPosted \in BOOLEAN
  /\ mail \in [ThreadIds -> Nat]
  /\ pc \in [Actors -> ScriptPlaces \cup WorkerPlaces \cup SharedPlaces]
  /\ \A t \in ThreadIds : pc[t] \in ScriptPlaces \cup SharedPlaces
  /\ pc[Worker] \in WorkerPlaces \cup SharedPlaces
  /\ call \in [Actors -> ScriptCalls \cup WorkerCalls]
  /\ \A t \in ThreadIds : call[t] \in ScriptCalls
  /\ call[Worker] \in WorkerCalls
  /\ aborted \in [ThreadIds -> BOOLEAN] /\ failed \in [ThreadIds -> BOOLEAN]
  /\ resetCaller \in {"none", "loop", "idle", "finEmit"}

(* Where a thread must own a lock.                                          *)
HoldsReset(t) == pc[t] \in {"startThreads", "startWait", "locked", "finThreads"}
HoldsThreads(t) == pc[t] \in {"startWait", "joinWait"}

(* Each mutex is owned by the one thread that is in a section it guards, so *)
(* no thread unlocks a mutex that another one owns: the value tryLockReset  *)
(* reads after it has given the lock back never turns out to be a yes.      *)
LockDiscipline ==
  \A t \in Actors :
    /\ HoldsReset(t) <=> resetMutex = t
    /\ HoldsThreads(t) <=> threadsMutex = t

(* A thread id is in at most one of mThreads, mFinishedThreads and          *)
(* mPreventFromStart, whatever startThread, killThread, threadFinished and  *)
(* reset did to it and in whatever order.                                   *)
TablesDisjoint ==
  /\ threads \cap finished = {}
  /\ threads \cap prevented = {}
  /\ finished \cap prevented = {}

(* mThreads names exactly the threads that exist, and when doRun's          *)
(* waitForAll is over no thread of the program is left.                     *)
CompletedMeansOver ==
  /\ \A t \in ThreadIds : t \in threads <=> pc[t] # "none"
  /\ pc[Worker] = "idle" => threads = {}

(* The worker sleeps in waitForAll's event loop only while there is a       *)
(* thread whose end will wake it.                                           *)
LoopHasThreads == pc[Worker] = "loop" => threads # {}

(* receiveMessage takes a message from its queue only when there is one,    *)
(* although it looked before it slept.                                      *)
DequeueNonEmpty ==
  \A t \in ThreadIds : InSection(t, "dequeue") => mail[t] > 0

(* What the worker is doing tells which call it is in.                      *)
WorkerCallInv ==
  /\ pc[Worker] \in {"startReset", "startThreads", "startWait"} =>
       call[Worker].op = "start" /\ call[Worker].from = "waitAll"
  /\ pc[Worker] \in {"startReset", "waitAll"} => ~resetStarted \/ threads # {}
  /\ pc[Worker] \in {"tryLock", "retest", "locked"} =>
       /\ call[Worker].op = "reset"
       /\ \/ call[Worker].from = "idle" /\ threads = {} /\ ~resetStarted
          \/ call[Worker].from = "loop" /\ threads # {}
          \/ call[Worker].from = "finEmit"
  /\ pc[Worker] \in {"finReset", "finThreads"} => pc[call[Worker].id] = "ended"
  /\ pc[Worker] = "idle" => ~resetStarted
  /\ pc[Worker] \in {"wake", "abortAll", "waitReset", "resetEnd"} => resetStarted
  /\ pc[Worker] \in {"idle", "resetEnd"} => threads = {}

(* No thread is past the check of mResetStarted while a reset goes on, and  *)
(* none that saw a reset can see its end: it would have to be gone first.   *)
ResetInv ==
  /\ resetStarted <=> resetCaller # "none"
  /\ \A t \in Actors :
       /\ pc[t] \in {"startThreads", "startWait", "locked"} => ~resetStarted
       /\ pc[t] = "retest" => resetStarted

(* A thread that has not announced itself is waited for by its starter.     *)
BootInv ==
  \A u \in ThreadIds : pc[u] = "boot" =>
    /\ initSem = 0
    /\ threadsMutex # Free
    /\ pc[threadsMutex] = "startWait"
    /\ call[threadsMutex].id = u

(* A woken receiver has a message, until a reset takes it away.             *)
WokenInv ==
  \A t \in ThreadIds :
    pc[t] \in {"tryLock", "retest", "locked"} /\ call[t].op = "dequeue"
      => mail[t] > 0 \/ resetStarted

(* The inductive invariant: the properties above and the four parts they    *)
(* rest on. Every step of every thread keeps it, from any state that has it.*)
IndInv ==
  /\ TypeOK /\ LockDiscipline /\ TablesDisjoint /\ CompletedMeansOver /\ LoopHasThreads
  /\ WorkerCallInv /\ ResetInv /\ BootInv /\ WokenInv

(* joinThread returns only when the thread it names does not run (or is the *)
(* caller).                                                                *)
JoinTellsTheTruth ==
  [][\A t \in ThreadIds :
       LET id == call[t].id
       IN /\ pc[t] \in {"join", "joinWait"}
          /\ pc'[t] \notin {"join", "joinWait"}
          /\ id # t
          => ~IsRunning(id)]_vars

Pool == INSTANCE ThreadPool WITH Ids <- ThreadIds, alive <- threads,
                                 stopping <- resetStarted

(* Threading implements ThreadPool: no thread enters mThreads while a reset *)
(* goes on, and a reset is over only when all have left it.                 *)
PoolSpec == Pool!Spec

(* A reset that has begun ends, when the script's functions end by          *)
(* themselves and the script neither joins, nor blocks in receiveMessage,   *)
(* nor goes event-driven.                                                   *)
ResetEnds == resetStarted ~> ~resetStarted

-----------------------------------------------------------------------------
(* What the comments of threading.h say, and the code does not do.          *)

(* "Joins a thread with given threadId. Does nothing if there is no thread  *)
(* with such id."  joinThread spins until such a thread appears.            *)
JoinOfNobodyReturns ==
  \A t \in ThreadIds :
    (pc[t] = "join" /\ call[t].id \notin threads) ~> (pc[t] # "join")

(* "The message can be accessed in the future by any thread with the same   *)
(* threadId."  A receiver that misses the wake-up sleeps on a full mailbox,  *)
(* and no reset is needed for that.                                        *)
MessageIsReceived ==
  \A t \in ThreadIds : (pc[t] = "waiting" /\ mail[t] > 0)
    ~> (pc[t] # "waiting" \/ resetStarted)

(* "Aborts evalutation of all threads, resets to initial state."            *)
ResetToInitialState ==
  [][resetStarted /\ ~resetStarted' => finished' = {} /\ prevented' = {}]_vars

(* The same words.  An abort is lost on a thread that does not evaluate yet  *)
(* or has just ended its script before its event loop; and joinThread waits *)
(* with the lock closed that reset needs to abort the threads.              *)
ResetAborts == resetStarted ~> ~resetStarted

==============================================================================
