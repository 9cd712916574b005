------------------------------ MODULE Threading ------------------------------
(***************************************************************************)
(* The threads of a JavaScript program: class Threading of                 *)
(* trikScriptRunner/src/threading.cpp and the ScriptThread objects it       *)
(* owns.  Threading lives on the worker's thread, which runs an event loop; *)
(* every ScriptThread is an operating system thread that evaluates a        *)
(* script, and the script calls back into Threading.                        *)
(*                                                                         *)
(* A step is what happens between two points where another thread can       *)
(* interfere: a lock that may be held, a wait, a semaphore, or a read       *)
(* outside any lock.  mMessageMutex and the per-mailbox mutexes guard no    *)
(* section that blocks and are folded into the step that takes them.        *)
(***************************************************************************)
EXTENDS Naturals, FiniteSets

CONSTANTS
  ThreadIds,   \* the thread ids a script uses
  MainId,      \* mMainThreadName
  Worker,      \* the thread on which Threading lives
  Free,        \* the owner of an unlocked mutex
  Ops,         \* the calls the script makes (a bound on its behaviour)
  MaxMail      \* bound: messages in a mailbox

AllOps == {"start", "join", "send", "poll", "receive", "kill", "runLoop", "quit"}

ASSUME ConstantsAssumption ==
  /\ MainId \in ThreadIds
  /\ Worker \notin ThreadIds
  /\ Free \notin ThreadIds \cup {Worker}
  /\ Ops \subseteq AllOps
  /\ MaxMail \in Nat

VARIABLES
  resetMutex,     \* owner of mResetMutex
  threadsMutex,   \* owner of mThreadsMutex
  initSem,        \* mThreadInitializationSemaphore
  threads,        \* keys of mThreads
  finished,       \* mFinishedThreads
  prevented,      \* mPreventFromStart
  error,          \* mErrorMessage is not empty
  resetStarted,   \* mResetStarted
  eventDriven,    \* mInEventDrivenMode of the script control
  mail,           \* number of messages in each mailbox
  pc,             \* where each thread of the process is
  call,           \* the call each thread is in
  aborted,        \* an abort has reached the thread
  failed,         \* the thread's mError is not empty
  resetPosted,    \* a queued call of reset() waits in the worker's queue
  resetCaller     \* what called the reset() in progress

locks     == <<resetMutex, threadsMutex, initSem>>
tables    == <<threads, finished, prevented>>
scriptVars == <<aborted, failed, eventDriven>>
resetVars == <<resetStarted, resetPosted, resetCaller>>
vars == <<locks, tables, error, mail, pc, call, scriptVars, resetVars>>

Actors == ThreadIds \cup {Worker}

(* Where a thread is: outside Threading, or at the step it takes next.      *)
ScriptPlaces == {"none", "boot", "pre", "eval", "post", "loop", "ended", "join",
                 "joinWait", "preWait", "waiting"}
WorkerPlaces == {"idle", "loop", "waitAll", "finReset", "finThreads", "finError",
                 "finEmit", "wake", "abortAll", "waitReset", "resetEnd"}
SharedPlaces == {"startReset", "startThreads", "startWait", "tryLock", "retest", "locked"}

(* The calls of a script's thread, and those of the worker to itself: what   *)
(* it calls, about which thread, and where the call returns to.             *)
ScriptCalls == [op: AllOps \cup {"none", "dequeue"}, id: ThreadIds, from: {"eval", "loop"}]
WorkerCalls == [op: {"none", "start", "finish", "reset"}, id: ThreadIds,
                from: {"eval", "loop", "idle", "waitAll", "finEmit"}]

NoCall == [op |-> "none", id |-> MainId, from |-> "eval"]

(* QThread::isRunning                                                      *)
IsRunning(t) == pc[t] \notin {"none", "ended"}

(* A step that moves threads and changes nothing else; or their calls too.  *)
Moves == UNCHANGED <<locks, tables, error, mail, scriptVars, resetVars>>
OnlyMoves == Moves /\ UNCHANGED call

Goes(t, from, to) == pc[t] = from /\ pc' = [pc EXCEPT ![t] = to]

(* A call returns to where it was made.                                     *)
Return(t) == pc' = [pc EXCEPT ![t] = call[t].from] /\ call' = [call EXCEPT ![t] = NoCall]

-----------------------------------------------------------------------------
(* ScriptThread                                                            *)

(* ScriptThread::abort: an abort reaches a thread that is evaluating or is  *)
(* in its event loop, and is lost on any other.                             *)
Abortable(t) == pc[t] \notin {"none", "boot", "pre", "post", "ended"}

Abort(S) ==
  aborted' = [t \in ThreadIds |-> aborted[t] \/ (t \in S /\ Abortable(t))]

(* run() announces itself to the thread that started it ...                 *)
Boot(t) ==
  /\ Goes(t, "boot", "pre")
  /\ initSem' = initSem + 1
  /\ UNCHANGED <<resetMutex, threadsMutex, tables, error, mail, call, scriptVars, resetVars>>

(* ... and begins to evaluate its script.                                   *)
Evaluate(t) == Goes(t, "pre", "eval") /\ OnlyMoves

(* The evaluation returns: the end of the script, or an abort.              *)
EndEvaluate(t) ==
  /\ Goes(t, "eval", "post")
  /\ aborted' = [aborted EXCEPT ![t] = FALSE]
  /\ UNCHANGED <<locks, tables, error, mail, call, failed, eventDriven, resetVars>>

(* The script throws.                                                      *)
Throw(t) ==
  /\ Goes(t, "eval", "ended")
  /\ failed' = [failed EXCEPT ![t] = TRUE]
  /\ UNCHANGED <<locks, tables, error, mail, call, aborted, eventDriven, resetVars>>

(* Without an exception run() enters an event loop in event-driven mode and *)
(* ends otherwise.                                                         *)
AfterEvaluate(t) == Goes(t, "post", IF eventDriven THEN "loop" ELSE "ended") /\ OnlyMoves

(* stopRunning quits the loop.                                             *)
QuitLoop(t) == Goes(t, "loop", "ended") /\ aborted[t] /\ OnlyMoves

(* script.run() switches the whole program to event-driven mode.            *)
RunLoop(t) ==
  /\ "runLoop" \in Ops
  /\ pc[t] \in {"eval", "loop"}
  /\ eventDriven' = TRUE
  /\ UNCHANGED <<locks, tables, error, mail, pc, call, aborted, failed, resetVars>>

(* script.quit(): the signal is connected directly to stopRunning of every  *)
(* thread, which only the threads that are in their event loop hear. The    *)
(* worker, for which it is queued, stops the script: PostReset.             *)
InLoop(t) == pc[t] = "loop" \/ call[t].from = "loop"

Quit(t) ==
  /\ "quit" \in Ops
  /\ pc[t] \in {"eval", "loop"}
  /\ aborted' = [u \in ThreadIds |-> aborted[u] \/ InLoop(u)]
  /\ UNCHANGED <<locks, tables, error, mail, pc, call, failed, eventDriven, resetVars>>

-----------------------------------------------------------------------------
(* The script, or a handler in a script's event loop, calls Threading.      *)

Call(t, op, first, id) ==
  /\ op \in Ops
  /\ pc[t] \in {"eval", "loop"}
  /\ pc' = [pc EXCEPT ![t] = first]
  /\ call' = [call EXCEPT ![t] = [op |-> op, id |-> id, from |-> pc[t]]]
  /\ Moves

CallStart(t, id) == Call(t, "start", "startReset", id)
CallJoin(t, id) == Call(t, "join", "join", id)
CallKill(t, id) == Call(t, "kill", "tryLock", id)

(* Bound: no more messages are on their way to a mailbox than it may hold.  *)
CallSend(t, id) ==
  /\ mail[id] + Cardinality({u \in ThreadIds : call[u].op = "send" /\ call[u].id = id})
       < MaxMail
  /\ Call(t, "send", "tryLock", id)

(* receiveMessage reads the caller's own mailbox, waiting for a message or  *)
(* not.                                                                    *)
CallReceive(t) ==
  \E op \in {"poll", "receive"} : Call(t, op, "tryLock", t)

-----------------------------------------------------------------------------
(* tryLockReset: mResetStarted is read once under the lock, and read again  *)
(* after the lock may have been given back.                                 *)

TryLock(t) ==
  /\ pc[t] = "tryLock"
  /\ resetMutex = Free
  /\ \/ /\ ~resetStarted
        /\ resetMutex' = t
        /\ pc' = [pc EXCEPT ![t] = "locked"]
     \/ /\ resetStarted
        /\ resetMutex' = Free
        /\ pc' = [pc EXCEPT ![t] = "retest"]
  /\ UNCHANGED <<threadsMutex, initSem, tables, error, mail, call, scriptVars, resetVars>>

(* Fault: tryLockReset takes any answer for a yes.                          *)
Retest_AlwaysYes(t) == Goes(t, "retest", "locked") /\ OnlyMoves

(* The second read: it still sees the reset and the call gives up, or it    *)
(* does not and the call goes on without the lock.                          *)
Retest(t) ==
  /\ pc[t] = "retest"
  /\ IF resetStarted
     THEN Return(t)
     ELSE pc' = [pc EXCEPT ![t] = "locked"] /\ UNCHANGED call
  /\ Moves

InSection(t, op) == pc[t] = "locked" /\ call[t].op = op

-----------------------------------------------------------------------------
(* sendMessage and receiveMessage                                          *)

(* enqueue, wakeOne: a receiver that sleeps tries the lock again, to take   *)
(* the message; one that is not asleep yet is not woken.                    *)
SendMessage(t) ==
  LET id == call[t].id
      wakes == pc[id] = "waiting"
  IN /\ InSection(t, "send")
     /\ mail' = [mail EXCEPT ![id] = @ + 1]
     /\ resetMutex' = Free
     /\ pc' = [pc EXCEPT ![t] = call[t].from, ![id] = IF wakes THEN "tryLock" ELSE @]
     /\ call' = [call EXCEPT ![t] = NoCall, ![id].op = IF wakes THEN "dequeue" ELSE @]
     /\ UNCHANGED <<threadsMutex, initSem, tables, error, scriptVars, resetVars>>

(* A message is there, or it was when the sleeper was woken.                *)
Dequeue(t) ==
  /\ \E op \in {"poll", "receive", "dequeue"} :
       InSection(t, op) /\ (op # "dequeue" => mail[t] > 0)
  /\ mail' = [mail EXCEPT ![t] = @ - 1]
  /\ resetMutex' = Free
  /\ Return(t)
  /\ UNCHANGED <<threadsMutex, initSem, tables, error, scriptVars, resetVars>>

(* Nothing is there.  The reset lock is given back before the receiver      *)
(* sleeps, and a sender does not take the mailbox's mutex: between the two  *)
(* a wake-up is lost.                                                      *)
ReceiveEmpty(t) ==
  /\ mail[t] = 0
  /\ \/ InSection(t, "poll") /\ Return(t)
     \/ InSection(t, "receive") /\ pc' = [pc EXCEPT ![t] = "preWait"] /\ UNCHANGED call
  /\ resetMutex' = Free
  /\ UNCHANGED <<threadsMutex, initSem, tables, error, mail, scriptVars, resetVars>>

Sleep(t) == Goes(t, "preWait", "waiting") /\ OnlyMoves

-----------------------------------------------------------------------------
(* killThread                                                              *)

KillThread(t) ==
  LET id == call[t].id
  IN /\ InSection(t, "kill")
     /\ threadsMutex = Free
     /\ prevented' = IF id \in threads \cup finished THEN prevented ELSE prevented \cup {id}
     /\ Abort({id} \cap threads)
     /\ resetMutex' = Free
     /\ Return(t)
     /\ UNCHANGED <<threadsMutex, initSem, threads, finished, error, mail, failed,
                    eventDriven, resetVars>>

-----------------------------------------------------------------------------
(* startThread: both locks are held until the new thread runs.              *)

(* Fault: a restarted id stays in mFinishedThreads.                         *)
Enlist_StaysFinished(id) == threads' = threads \cup {id} /\ UNCHANGED finished

(* The new thread enters mThreads; a thread that is over leaves it.         *)
Enlist(id) == threads' = threads \cup {id} /\ finished' = finished \ {id}
Retire(id) == threads' = threads \ {id} /\ finished' = finished \cup {id}

(* Fault: startThread does not ask whether a reset goes on.                 *)
StartReset_Unasked(t) ==
  /\ Goes(t, "startReset", "startThreads")
  /\ resetMutex = Free
  /\ resetMutex' = t
  /\ UNCHANGED <<threadsMutex, initSem, tables, error, mail, call, scriptVars, resetVars>>

StartReset(t) ==
  /\ pc[t] = "startReset"
  /\ resetMutex = Free
  /\ \/ /\ resetStarted
        /\ Return(t)
        /\ UNCHANGED resetMutex
     \/ /\ ~resetStarted
        /\ resetMutex' = t
        /\ pc' = [pc EXCEPT ![t] = "startThreads"]
        /\ UNCHANGED call
  /\ UNCHANGED <<threadsMutex, initSem, tables, error, mail, scriptVars, resetVars>>

(* The id is in use: an error, and the thread that uses it is aborted.      *)
StartOccupied(t) ==
  /\ pc[t] = "startThreads"
  /\ threadsMutex = Free
  /\ call[t].id \in threads
  /\ error' = TRUE
  /\ Abort({call[t].id})
  /\ resetMutex' = Free
  /\ Return(t)
  /\ UNCHANGED <<threadsMutex, initSem, tables, mail, failed, eventDriven, resetVars>>

(* The thread was killed before it was started: it counts as finished.      *)
StartPrevented(t) ==
  /\ pc[t] = "startThreads"
  /\ threadsMutex = Free
  /\ call[t].id \in prevented \ threads
  /\ prevented' = prevented \ {call[t].id}
  /\ finished' = finished \cup {call[t].id}
  /\ resetMutex' = Free
  /\ Return(t)
  /\ UNCHANGED <<threadsMutex, initSem, threads, error, mail, scriptVars, resetVars>>

StartCreate(t) ==
  LET id == call[t].id
  IN /\ pc[t] = "startThreads"
     /\ threadsMutex = Free
     /\ id \notin threads \cup prevented
     /\ initSem > 0
     /\ threadsMutex' = t
     /\ Enlist(id)
     /\ initSem' = initSem - 1
     /\ pc' = [pc EXCEPT ![t] = "startWait", ![id] = "boot"]
     /\ failed' = [failed EXCEPT ![id] = FALSE]
     /\ aborted' = [aborted EXCEPT ![id] = FALSE]
     /\ UNCHANGED <<resetMutex, prevented, error, mail, call, eventDriven, resetVars>>

StartDone(t) ==
  /\ pc[t] = "startWait"
  /\ initSem > 0
  /\ threadsMutex' = Free
  /\ resetMutex' = Free
  /\ Return(t)
  /\ UNCHANGED <<initSem, tables, error, mail, scriptVars, resetVars>>

-----------------------------------------------------------------------------
(* joinThread: the caller spins, with the lock open in between, until the   *)
(* thread runs or has finished, and then waits for it with the lock closed. *)

JoinReturns(t) ==
  LET id == call[t].id
  IN /\ pc[t] = "join"
     /\ threadsMutex = Free
     /\ \/ id \in finished
        \/ resetStarted /\ (id \in threads => ~IsRunning(id))
     /\ Return(t)
     /\ Moves

JoinRunning(t) ==
  /\ Goes(t, "join", "joinWait")
  /\ threadsMutex = Free
  /\ call[t].id \in threads \ finished
  /\ IsRunning(call[t].id)
  /\ threadsMutex' = t
  /\ UNCHANGED <<resetMutex, initSem, tables, error, mail, call, scriptVars, resetVars>>

(* Fault: the lock is given back without the wait.                          *)
JoinDone_NoWait(t) ==
  /\ pc[t] = "joinWait"
  /\ threadsMutex' = Free
  /\ Return(t)
  /\ UNCHANGED <<resetMutex, initSem, tables, error, mail, scriptVars, resetVars>>

(* QThread::wait returns at once for a thread that waits on itself.         *)
JoinDone(t) ==
  /\ pc[t] = "joinWait"
  /\ pc[call[t].id] = "ended" \/ call[t].id = t
  /\ threadsMutex' = Free
  /\ Return(t)
  /\ UNCHANGED <<resetMutex, initSem, tables, error, mail, scriptVars, resetVars>>

-----------------------------------------------------------------------------
(* The worker: doRun starts the main thread and waits for all.              *)

WorkerGoes(from, to) == Goes(Worker, from, to)

(* startMainThread clears its tables without a lock. While a program is     *)
(* still alive, a run comes only after the reset that stopScript posted and *)
(* in its event loop: startThread will refuse, and doRun wait for all.      *)
StartMainThread ==
  /\ \/ WorkerGoes("idle", "startReset")
     \/ resetStarted /\ WorkerGoes("loop", "startReset")
  /\ call' = [call EXCEPT ![Worker] = [op |-> "start", id |-> MainId, from |-> "waitAll"]]
  /\ error' = FALSE
  /\ finished' = {}
  /\ prevented' = {}
  /\ UNCHANGED <<locks, threads, mail, scriptVars, resetVars>>

(* Fault: waitForAll does not wait.                                         *)
WaitForAll_Skipped ==
  /\ threadsMutex = Free
  /\ WorkerGoes("waitAll", "idle") \/ WorkerGoes("waitReset", "resetEnd")
  /\ OnlyMoves

(* waitForAll, from doRun and from reset: an event loop if there are threads *)
WaitForAll ==
  /\ threadsMutex = Free
  /\ \/ WorkerGoes("waitAll", IF threads = {} THEN "idle" ELSE "loop")
     \/ WorkerGoes("waitReset", IF threads = {} THEN "resetEnd" ELSE "loop")
  /\ OnlyMoves

(* threadFinished: the event of a thread that has ended.                    *)
ThreadFinished(id) ==
  /\ pc[id] = "ended"
  /\ WorkerGoes("loop", "finReset")
  /\ call' = [call EXCEPT ![Worker] = [op |-> "finish", id |-> id, from |-> "loop"]]
  /\ Moves

FinishLockReset ==
  /\ WorkerGoes("finReset", "finThreads")
  /\ resetMutex = Free
  /\ resetMutex' = Worker
  /\ UNCHANGED <<threadsMutex, initSem, tables, error, mail, call, scriptVars, resetVars>>

FinishRemove ==
  LET id == call[Worker].id
  IN /\ pc[Worker] = "finThreads"
     /\ threadsMutex = Free
     /\ error' = (error \/ failed[id])
     /\ Retire(id)
     /\ resetMutex' = Free
     /\ pc' = [pc EXCEPT ![Worker] = "finError", ![id] = "none"]
     /\ UNCHANGED <<threadsMutex, initSem, prevented, mail, call, scriptVars, resetVars>>

FinishError ==
  /\ WorkerGoes("finError", IF error THEN "tryLock" ELSE "finEmit")
  /\ call' = [call EXCEPT ![Worker] =
                IF error THEN [op |-> "reset", id |-> MainId, from |-> "finEmit"] ELSE NoCall]
  /\ Moves

(* Fault: finished() is not emitted for the last thread.                    *)
FinishEmit_Silent == WorkerGoes("finEmit", "loop") /\ OnlyMoves

(* finished() quits the innermost event loop now and the outer one when     *)
(* control comes back to it.                                               *)
FinishEmit ==
  /\ WorkerGoes("finEmit", CASE threads # {} -> "loop"
                              [] threads = {} /\ resetCaller # "none" -> "resetEnd"
                              [] OTHER -> "idle")
  /\ OnlyMoves

-----------------------------------------------------------------------------
(* reset                                                                   *)

(* ScriptEngineWorker::stopScript queues a call. Bound: one at a time.      *)
PostReset ==
  /\ ~resetPosted
  /\ resetPosted' = TRUE
  /\ UNCHANGED <<locks, tables, error, mail, pc, call, scriptVars, resetStarted, resetCaller>>

DeliverReset ==
  /\ resetPosted
  /\ pc[Worker] \in {"idle", "loop"}
  /\ resetPosted' = FALSE
  /\ pc' = [pc EXCEPT ![Worker] = "tryLock"]
  /\ call' = [call EXCEPT ![Worker] = [op |-> "reset", id |-> MainId, from |-> pc[Worker]]]
  /\ UNCHANGED <<locks, tables, error, mail, scriptVars, resetStarted, resetCaller>>

ResetBegin ==
  /\ InSection(Worker, "reset")
  /\ resetStarted' = TRUE
  /\ resetCaller' = call[Worker].from
  /\ resetMutex' = Free
  /\ WorkerGoes("locked", "wake")
  /\ call' = [call EXCEPT ![Worker] = NoCall]
  /\ UNCHANGED <<threadsMutex, initSem, tables, error, mail, scriptVars, resetPosted>>

(* wakeAll on every condition                                              *)
ResetWake ==
  /\ pc[Worker] = "wake"
  /\ pc' = [t \in Actors |-> CASE t = Worker -> "abortAll"
                               [] pc[t] = "waiting" -> "tryLock"
                               [] OTHER -> pc[t]]
  /\ call' = [t \in Actors |-> IF pc[t] = "waiting"
                                THEN [call[t] EXCEPT !.op = "dequeue"] ELSE call[t]]
  /\ Moves

ResetAbort ==
  /\ WorkerGoes("abortAll", "waitReset")
  /\ threadsMutex = Free
  /\ eventDriven' = FALSE
  /\ Abort(threads)
  /\ finished' = {}
  /\ UNCHANGED <<locks, threads, prevented, error, mail, call, failed, resetVars>>

(* The outer event loop has been told to quit when the inner one was.       *)
ResetEnd ==
  /\ WorkerGoes("resetEnd", IF resetCaller = "finEmit" THEN "finEmit" ELSE "idle")
  /\ mail' = [t \in ThreadIds |-> 0]
  /\ resetStarted' = FALSE
  /\ resetCaller' = "none"
  /\ UNCHANGED <<locks, tables, error, call, scriptVars, resetPosted>>

-----------------------------------------------------------------------------
Init ==
  /\ resetMutex = Free /\ threadsMutex = Free /\ initSem = 1
  /\ threads = {} /\ finished = {} /\ prevented = {} /\ error = FALSE
  /\ resetStarted = FALSE /\ resetPosted = FALSE /\ resetCaller = "none"
  /\ eventDriven = FALSE
  /\ mail = [t \in ThreadIds |-> 0]
  /\ pc = [t \in Actors |-> IF t = Worker THEN "idle" ELSE "none"]
  /\ call = [t \in Actors |-> NoCall]
  /\ aborted = [t \in ThreadIds |-> FALSE] /\ failed = [t \in ThreadIds |-> FALSE]

(* What the text of the script decides.                                     *)
ScriptChoice(t) ==
  \/ \E id \in ThreadIds :
       CallStart(t, id) \/ CallJoin(t, id) \/ CallKill(t, id) \/ CallSend(t, id)
  \/ CallReceive(t) \/ RunLoop(t) \/ Quit(t) \/ Throw(t)

(* What a thread goes on to do by itself.                                   *)
ThreadStep(t) ==
  \/ Boot(t) \/ Evaluate(t) \/ AfterEvaluate(t)
  \/ SendMessage(t) \/ Dequeue(t) \/ ReceiveEmpty(t) \/ Sleep(t)
  \/ KillThread(t) \/ JoinReturns(t) \/ JoinRunning(t) \/ JoinDone(t)

(* Steps of startThread and tryLockReset, which the worker takes too.       *)
SharedStep(t) ==
  \/ TryLock(t) \/ Retest(t)
  \/ StartReset(t) \/ StartOccupied(t) \/ StartPrevented(t) \/ StartCreate(t) \/ StartDone(t)

WorkerStep ==
  \/ WaitForAll \/ (\E id \in ThreadIds : ThreadFinished(id))
  \/ FinishLockReset \/ FinishRemove \/ FinishError \/ FinishEmit
  \/ DeliverReset \/ ResetBegin \/ ResetWake \/ ResetAbort \/ ResetEnd

Next ==
  \/ \E t \in ThreadIds : ScriptChoice(t) \/ ThreadStep(t) \/ EndEvaluate(t) \/ QuitLoop(t)
  \/ \E t \in Actors : SharedStep(t)
  \/ WorkerStep \/ StartMainThread \/ PostReset

Spec == Init /\ [][Next]_vars

(* Every thread that can go on does.  Events are served in the order they   *)
(* were posted, so each is served, whatever is posted behind it: the end of *)
(* a thread, and a thread's order to quit its event loop.                   *)
Scheduling ==
  /\ \A t \in ThreadIds :
       WF_vars(ThreadStep(t)) /\ SF_vars(QuitLoop(t)) /\ SF_vars(ThreadFinished(t))
  /\ \A t \in Actors : WF_vars(SharedStep(t))
  /\ WF_vars(WorkerStep)

(* The engine looks for an abort every millisecond of evaluation            *)
(* (setProcessEventsInterval): an evaluation that has been aborted ends.    *)
AbortsEnd == \A t \in ThreadIds : SF_vars(aborted[t] /\ EndEvaluate(t))

(* The script's functions come to an end by themselves.                     *)
ScriptsEnd == \A t \in ThreadIds : SF_vars(EndEvaluate(t))

AbortSpec == Spec /\ Scheduling /\ AbortsEnd
FairSpec == Spec /\ Scheduling /\ ScriptsEnd
==============================================================================
