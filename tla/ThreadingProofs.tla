--------------------------- MODULE ThreadingProofs ---------------------------
(***************************************************************************)
(* Proofs about Threading for every set of thread ids and every script.     *)
(* IndInv is inductive; the safety properties and the implementation of     *)
(* ThreadPool follow from it.  The lemmas go through the actions of Next    *)
(* in groups; each action has one step per part of the invariant.           *)
(***************************************************************************)
EXTENDS ThreadingProperties, TLAPS

USE ConstantsAssumption
    DEF Goes, WorkerGoes, Moves, OnlyMoves, Enlist, Retire, Actors, locks, tables, scriptVars,
        resetVars, ScriptPlaces, WorkerPlaces, SharedPlaces, AllOps, ScriptCalls, WorkerCalls,
        NoCall, IndInv, TypeOK, LockDiscipline, HoldsReset, HoldsThreads, TablesDisjoint, CompletedMeansOver,
        LoopHasThreads, WorkerCallInv, ResetInv, BootInv, WokenInv

(* The initial state satisfies the invariant.                               *)
LEMMA InitInv == Init => IndInv
<1> SUFFICES ASSUME Init PROVE IndInv
    OBVIOUS
<1>1. pc[Worker] = "idle" /\ \A t \in ThreadIds : pc[t] = "none"
  BY DEF Init
<1>2. \A t \in Actors : call[t] = NoCall
  BY DEF Init
<1>3. TypeOK
  <2>1. call \in [Actors -> ScriptCalls \cup WorkerCalls]
    BY DEF Init
  <2>2. pc \in [Actors -> ScriptPlaces \cup WorkerPlaces \cup SharedPlaces]
    BY DEF Init
  <2>3. mail \in [ThreadIds -> Nat] /\ aborted \in [ThreadIds -> BOOLEAN]
        /\ failed \in [ThreadIds -> BOOLEAN]
    BY DEF Init
  <2>4. /\ \A t \in ThreadIds : call[t] \in ScriptCalls
        /\ call[Worker] \in WorkerCalls
    BY <1>2
  <2>5. /\ resetMutex \in Actors \cup {Free} /\ threadsMutex \in Actors \cup {Free}
        /\ initSem \in 0..1
    BY DEF Init
  <2>6. threads \subseteq ThreadIds /\ finished \subseteq ThreadIds
        /\ prevented \subseteq ThreadIds
    BY DEF Init
  <2>7. /\ error \in BOOLEAN /\ eventDriven \in BOOLEAN
        /\ resetStarted \in BOOLEAN /\ resetPosted \in BOOLEAN
        /\ resetCaller = "none"
    BY DEF Init
  <2> QED BY <1>1, <2>1, <2>2, <2>3, <2>4, <2>5, <2>6, <2>7
<1>4. LockDiscipline /\ ResetInv /\ BootInv
  BY <1>1 DEF Init
<1>5. TablesDisjoint /\ CompletedMeansOver /\ LoopHasThreads /\ WorkerCallInv /\ WokenInv
  BY <1>1 DEF Init
<1> QED BY <1>3, <1>4, <1>5

(* The steps of a thread's own run, outside the calls.                      *)
LEMMA RunInv ==
  ASSUME IndInv, NEW t \in ThreadIds,
         Boot(t) \/ Evaluate(t) \/ EndEvaluate(t) \/ Throw(t) \/ AfterEvaluate(t) \/ QuitLoop(t)
           \/ RunLoop(t) \/ Quit(t)
  PROVE  IndInv'
<1>1. CASE Boot(t)
  <2>1. TypeOK'
    BY <1>1 DEF Boot
  <2>2. LockDiscipline' /\ ResetInv' /\ BootInv'
    BY <1>1 DEF Boot
  <2>3. TablesDisjoint' /\ CompletedMeansOver' /\ LoopHasThreads'
    BY <1>1 DEF Boot
  <2>4. WorkerCallInv' /\ WokenInv'
    BY <1>1 DEF Boot
  <2> QED BY <2>1, <2>2, <2>3, <2>4
<1>2. CASE Evaluate(t)
  <2>1. TypeOK'
    BY <1>2 DEF Evaluate
  <2>2. LockDiscipline' /\ ResetInv' /\ BootInv'
    BY <1>2 DEF Evaluate
  <2>3. TablesDisjoint' /\ CompletedMeansOver' /\ LoopHasThreads'
    BY <1>2 DEF Evaluate
  <2>4. WorkerCallInv' /\ WokenInv'
    BY <1>2 DEF Evaluate
  <2> QED BY <2>1, <2>2, <2>3, <2>4
<1>3. CASE EndEvaluate(t)
  <2>1. TypeOK'
    BY <1>3 DEF EndEvaluate
  <2>2. LockDiscipline' /\ ResetInv' /\ BootInv'
    BY <1>3 DEF EndEvaluate
  <2>3. TablesDisjoint' /\ CompletedMeansOver' /\ LoopHasThreads'
    BY <1>3 DEF EndEvaluate
  <2>4. WorkerCallInv' /\ WokenInv'
    BY <1>3 DEF EndEvaluate
  <2> QED BY <2>1, <2>2, <2>3, <2>4
<1>4. CASE Throw(t)
  <2>1. TypeOK'
    BY <1>4 DEF Throw
  <2>2. LockDiscipline' /\ ResetInv' /\ BootInv'
    BY <1>4 DEF Throw
  <2>3. TablesDisjoint' /\ CompletedMeansOver' /\ LoopHasThreads'
    BY <1>4 DEF Throw
  <2>4. WorkerCallInv' /\ WokenInv'
    BY <1>4 DEF Throw
  <2> QED BY <2>1, <2>2, <2>3, <2>4
<1>5. CASE AfterEvaluate(t)
  <2>1. TypeOK'
    BY <1>5 DEF AfterEvaluate
  <2>2. LockDiscipline' /\ ResetInv' /\ BootInv'
    BY <1>5 DEF AfterEvaluate
  <2>3. TablesDisjoint' /\ CompletedMeansOver' /\ LoopHasThreads'
    BY <1>5 DEF AfterEvaluate
  <2>4. WorkerCallInv' /\ WokenInv'
    BY <1>5 DEF AfterEvaluate
  <2> QED BY <2>1, <2>2, <2>3, <2>4
<1>6. CASE QuitLoop(t)
  <2>1. TypeOK'
    BY <1>6 DEF QuitLoop
  <2>2. LockDiscipline' /\ ResetInv' /\ BootInv'
    BY <1>6 DEF QuitLoop
  <2>3. TablesDisjoint' /\ CompletedMeansOver' /\ LoopHasThreads'
    BY <1>6 DEF QuitLoop
  <2>4. WorkerCallInv' /\ WokenInv'
    BY <1>6 DEF QuitLoop
  <2> QED BY <2>1, <2>2, <2>3, <2>4
<1>7. CASE RunLoop(t)
  <2>1. TypeOK'
    BY <1>7 DEF RunLoop
  <2>2. LockDiscipline' /\ ResetInv' /\ BootInv'
    BY <1>7 DEF RunLoop
  <2>3. TablesDisjoint' /\ CompletedMeansOver' /\ LoopHasThreads'
    BY <1>7 DEF RunLoop
  <2>4. WorkerCallInv' /\ WokenInv'
    BY <1>7 DEF RunLoop
  <2> QED BY <2>1, <2>2, <2>3, <2>4
<1>8. CASE Quit(t)
  <2>1. TypeOK'
    BY <1>8 DEF Quit
  <2>2. LockDiscipline' /\ ResetInv' /\ BootInv'
    BY <1>8 DEF Quit
  <2>3. TablesDisjoint' /\ CompletedMeansOver' /\ LoopHasThreads'
    BY <1>8 DEF Quit
  <2>4. WorkerCallInv' /\ WokenInv'
    BY <1>8 DEF Quit
  <2> QED BY <2>1, <2>2, <2>3, <2>4
<1> QED BY <1>1, <1>2, <1>3, <1>4, <1>5, <1>6, <1>7, <1>8

(* A script's call into Threading.                                          *)
LEMMA CallInv ==
  ASSUME IndInv, NEW t \in ThreadIds, NEW id \in ThreadIds,
         NEW op \in AllOps, NEW first \in {"startReset", "join", "tryLock"}, Call(t, op, first, id)
  PROVE  IndInv'
<1>1. TypeOK'
  BY DEF Call
<1>2. LockDiscipline' /\ ResetInv' /\ BootInv'
  BY DEF Call
<1>3. TablesDisjoint' /\ CompletedMeansOver' /\ LoopHasThreads'
  BY DEF Call
<1>4. WorkerCallInv' /\ WokenInv'
  BY DEF Call
<1> QED BY <1>1, <1>2, <1>3, <1>4

(* The steps of sendMessage, receiveMessage, killThread and joinThread.     *)
LEMMA BodyInv ==
  ASSUME IndInv, NEW t \in ThreadIds,
         SendMessage(t) \/ Dequeue(t) \/ ReceiveEmpty(t) \/ Sleep(t)
           \/ KillThread(t) \/ JoinReturns(t) \/ JoinRunning(t) \/ JoinDone(t)
  PROVE  IndInv'
<1>1. CASE SendMessage(t)
  <2>1. TypeOK'
    <3>1. call[t].id \in ThreadIds /\ call[t].from \in ScriptPlaces \cup SharedPlaces
      BY <1>1 DEF SendMessage, InSection
    <3>2. mail' \in [ThreadIds -> Nat]
      BY <1>1, <3>1 DEF SendMessage
    <3>3. /\ pc' \in [Actors -> ScriptPlaces \cup WorkerPlaces \cup SharedPlaces]
          /\ \A u \in ThreadIds : pc'[u] \in ScriptPlaces \cup SharedPlaces
          /\ pc'[Worker] \in WorkerPlaces \cup SharedPlaces
      BY <1>1, <3>1 DEF SendMessage
    <3> DEFINE answered == [call EXCEPT ![t] = NoCall]
    <3>4. /\ answered \in [Actors -> ScriptCalls \cup WorkerCalls]
          /\ \A u \in ThreadIds : answered[u] \in ScriptCalls
          /\ answered[Worker] \in WorkerCalls
      OBVIOUS
    <3>5. \E op \in AllOps \cup {"none", "dequeue"} :
            call' = [answered EXCEPT ![call[t].id].op = op]
      BY <1>1, <3>1, <3>4 DEF SendMessage
    <3> HIDE DEF answered
    <3>6. /\ call' \in [Actors -> ScriptCalls \cup WorkerCalls]
          /\ \A u \in ThreadIds : call'[u] \in ScriptCalls
          /\ call'[Worker] \in WorkerCalls
      BY ONLY <3>1, <3>4, <3>5, ConstantsAssumption DEF Actors, ScriptCalls, AllOps
    <3>7. UNCHANGED <<threadsMutex, initSem, tables, error, scriptVars, resetVars>>
          /\ resetMutex' = Free
      BY <1>1 DEF SendMessage
    <3> QED BY <3>2, <3>3, <3>6, <3>7
  <2>2. LockDiscipline' /\ ResetInv' /\ BootInv'
    BY <1>1 DEF SendMessage, InSection
  <2>3. TablesDisjoint' /\ CompletedMeansOver' /\ LoopHasThreads'
    BY <1>1 DEF SendMessage, InSection
  <2>4. WorkerCallInv' /\ WokenInv'
    BY <1>1 DEF SendMessage, InSection
  <2> QED BY <2>1, <2>2, <2>3, <2>4
<1>2. CASE Dequeue(t)
  <2>1. TypeOK'
    BY <1>2 DEF Dequeue, InSection, Return
  <2>2. LockDiscipline' /\ ResetInv' /\ BootInv'
    BY <1>2 DEF Dequeue, InSection, Return
  <2>3. TablesDisjoint' /\ CompletedMeansOver' /\ LoopHasThreads'
    BY <1>2 DEF Dequeue, InSection, Return
  <2>4. WorkerCallInv' /\ WokenInv'
    BY <1>2 DEF Dequeue, InSection, Return
  <2> QED BY <2>1, <2>2, <2>3, <2>4
<1>3. CASE ReceiveEmpty(t)
  <2>1. TypeOK'
    BY <1>3 DEF ReceiveEmpty, InSection, Return
  <2>2. LockDiscipline' /\ ResetInv' /\ BootInv'
    BY <1>3 DEF ReceiveEmpty, InSection, Return
  <2>3. TablesDisjoint' /\ CompletedMeansOver' /\ LoopHasThreads'
    BY <1>3 DEF ReceiveEmpty, InSection, Return
  <2>4. WorkerCallInv' /\ WokenInv'
    BY <1>3 DEF ReceiveEmpty, InSection, Return
  <2> QED BY <2>1, <2>2, <2>3, <2>4
<1>4. CASE Sleep(t)
  <2>1. TypeOK'
    BY <1>4 DEF Sleep
  <2>2. LockDiscipline' /\ ResetInv' /\ BootInv'
    BY <1>4 DEF Sleep
  <2>3. TablesDisjoint' /\ CompletedMeansOver' /\ LoopHasThreads'
    BY <1>4 DEF Sleep
  <2>4. WorkerCallInv' /\ WokenInv'
    BY <1>4 DEF Sleep
  <2> QED BY <2>1, <2>2, <2>3, <2>4
<1>5. CASE KillThread(t)
  <2>1. TypeOK'
    BY <1>5 DEF KillThread, InSection, Return, Abort, Abortable
  <2>2. LockDiscipline' /\ ResetInv' /\ BootInv'
    BY <1>5 DEF KillThread, InSection, Return, Abort, Abortable
  <2>3. TablesDisjoint' /\ CompletedMeansOver' /\ LoopHasThreads'
    BY <1>5 DEF KillThread, InSection, Return, Abort, Abortable
  <2>4. WorkerCallInv' /\ WokenInv'
    BY <1>5 DEF KillThread, InSection, Return, Abort, Abortable
  <2> QED BY <2>1, <2>2, <2>3, <2>4
<1>6. CASE JoinReturns(t)
  <2>1. TypeOK'
    BY <1>6 DEF JoinReturns, Return
  <2>2. LockDiscipline' /\ ResetInv' /\ BootInv'
    BY <1>6 DEF JoinReturns, Return
  <2>3. TablesDisjoint' /\ CompletedMeansOver' /\ LoopHasThreads'
    BY <1>6 DEF JoinReturns, Return
  <2>4. WorkerCallInv' /\ WokenInv'
    BY <1>6 DEF JoinReturns, Return
  <2> QED BY <2>1, <2>2, <2>3, <2>4
<1>7. CASE JoinRunning(t)
  <2>1. TypeOK'
    BY <1>7 DEF JoinRunning
  <2>2. LockDiscipline' /\ ResetInv' /\ BootInv'
    BY <1>7 DEF JoinRunning
  <2>3. TablesDisjoint' /\ CompletedMeansOver' /\ LoopHasThreads'
    BY <1>7 DEF JoinRunning
  <2>4. WorkerCallInv' /\ WokenInv'
    BY <1>7 DEF JoinRunning
  <2> QED BY <2>1, <2>2, <2>3, <2>4
<1>8. CASE JoinDone(t)
  <2>1. TypeOK'
    BY <1>8 DEF JoinDone, Return
  <2>2. LockDiscipline' /\ ResetInv' /\ BootInv'
    BY <1>8 DEF JoinDone, Return
  <2>3. TablesDisjoint' /\ CompletedMeansOver' /\ LoopHasThreads'
    BY <1>8 DEF JoinDone, Return
  <2>4. WorkerCallInv' /\ WokenInv'
    BY <1>8 DEF JoinDone, Return
  <2> QED BY <2>1, <2>2, <2>3, <2>4
<1> QED BY <1>1, <1>2, <1>3, <1>4, <1>5, <1>6, <1>7, <1>8, SMTT(40)

(* tryLockReset and startThread, by a script's thread or by the worker.     *)
LEMMA SharedInv ==
  ASSUME IndInv, NEW t \in Actors, SharedStep(t)
  PROVE  IndInv'
<1>1. CASE TryLock(t)
  <2>1. TypeOK'
    BY SMTT(60), <1>1 DEF TryLock
  <2>2. LockDiscipline' /\ ResetInv' /\ BootInv'
    BY <1>1 DEF TryLock
  <2>3. TablesDisjoint' /\ CompletedMeansOver' /\ LoopHasThreads'
    BY <1>1 DEF TryLock
  <2>4. WorkerCallInv' /\ WokenInv'
    BY <1>1 DEF TryLock
  <2> QED BY <2>1, <2>2, <2>3, <2>4
<1>2. CASE Retest(t)
  <2>1. TypeOK'
    BY <1>2, SMTT(40) DEF Retest, Return
  <2>2. LockDiscipline' /\ ResetInv' /\ BootInv'
    BY <1>2 DEF Retest, Return
  <2>3. TablesDisjoint' /\ CompletedMeansOver' /\ LoopHasThreads'
    BY <1>2 DEF Retest, Return
  <2>4. WorkerCallInv' /\ WokenInv'
    BY <1>2 DEF Retest, Return
  <2> QED BY <2>1, <2>2, <2>3, <2>4
<1>3. CASE StartReset(t)
  <2>1. TypeOK'
    <3>1. CASE resetStarted /\ Return(t)
      BY <1>3, <3>1 DEF StartReset, Return
    <3>2. CASE resetMutex' = t /\ pc' = [pc EXCEPT ![t] = "startThreads"] /\ UNCHANGED call
      BY <1>3, <3>2 DEF StartReset
    <3> QED BY <1>3, <3>1, <3>2 DEF StartReset
  <2>2. LockDiscipline' /\ ResetInv' /\ BootInv'
    BY <1>3 DEF StartReset, Return
  <2>3. TablesDisjoint' /\ CompletedMeansOver' /\ LoopHasThreads'
    BY <1>3 DEF StartReset, Return
  <2>4. WorkerCallInv' /\ WokenInv'
    BY <1>3 DEF StartReset, Return
  <2> QED BY <2>1, <2>2, <2>3, <2>4
<1>4. CASE StartOccupied(t)
  <2>1. TypeOK'
    BY <1>4 DEF StartOccupied, Return, Abort, Abortable
  <2>2. LockDiscipline' /\ ResetInv' /\ BootInv'
    BY <1>4 DEF StartOccupied, Return, Abort, Abortable
  <2>3. TablesDisjoint' /\ CompletedMeansOver' /\ LoopHasThreads'
    BY <1>4 DEF StartOccupied, Return, Abort, Abortable
  <2>4. WorkerCallInv' /\ WokenInv'
    BY <1>4 DEF StartOccupied, Return, Abort, Abortable
  <2> QED BY <2>1, <2>2, <2>3, <2>4
<1>5. CASE StartPrevented(t)
  <2>1. TypeOK'
    BY <1>5 DEF StartPrevented, Return
  <2>2. LockDiscipline' /\ ResetInv' /\ BootInv'
    BY <1>5 DEF StartPrevented, Return
  <2>3. TablesDisjoint' /\ CompletedMeansOver' /\ LoopHasThreads'
    BY <1>5 DEF StartPrevented, Return
  <2>4. WorkerCallInv' /\ WokenInv'
    BY <1>5 DEF StartPrevented, Return
  <2> QED BY <2>1, <2>2, <2>3, <2>4
<1>6. CASE StartCreate(t)
  <2>1. TypeOK'
    BY <1>6 DEF StartCreate
  <2>2. LockDiscipline' /\ ResetInv' /\ BootInv'
    BY <1>6 DEF StartCreate
  <2>3. TablesDisjoint' /\ CompletedMeansOver' /\ LoopHasThreads'
    BY <1>6 DEF StartCreate
  <2>4. WorkerCallInv' /\ WokenInv'
    BY <1>6 DEF StartCreate
  <2> QED BY <2>1, <2>2, <2>3, <2>4
<1>7. CASE StartDone(t)
  <2>1. TypeOK'
    BY <1>7 DEF StartDone, Return
  <2>2. LockDiscipline' /\ ResetInv' /\ BootInv'
    BY <1>7 DEF StartDone, Return
  <2>3. TablesDisjoint' /\ CompletedMeansOver' /\ LoopHasThreads'
    BY <1>7 DEF StartDone, Return
  <2>4. WorkerCallInv' /\ WokenInv'
    BY <1>7 DEF StartDone, Return
  <2> QED BY <2>1, <2>2, <2>3, <2>4
<1> QED BY <1>1, <1>2, <1>3, <1>4, <1>5, <1>6, <1>7 DEF SharedStep

(* The worker, and the requests it is given.                                *)
LEMMA WorkerInv ==
  ASSUME IndInv, WorkerStep \/ StartMainThread \/ PostReset
  PROVE  IndInv'
<1>1. CASE WaitForAll
  <2>1. TypeOK'
    BY <1>1, SMTT(40) DEF WaitForAll
  <2>2. LockDiscipline' /\ ResetInv' /\ BootInv'
    BY <1>1 DEF WaitForAll
  <2>3. TablesDisjoint' /\ CompletedMeansOver' /\ LoopHasThreads'
    BY <1>1 DEF WaitForAll
  <2>4. WorkerCallInv' /\ WokenInv'
    BY <1>1 DEF WaitForAll
  <2> QED BY <2>1, <2>2, <2>3, <2>4
<1>2. CASE FinishLockReset
  <2>1. TypeOK'
    BY <1>2 DEF FinishLockReset
  <2>2. LockDiscipline' /\ ResetInv' /\ BootInv'
    BY <1>2 DEF FinishLockReset
  <2>3. TablesDisjoint' /\ CompletedMeansOver' /\ LoopHasThreads'
    BY <1>2 DEF FinishLockReset
  <2>4. WorkerCallInv' /\ WokenInv'
    BY <1>2 DEF FinishLockReset
  <2> QED BY <2>1, <2>2, <2>3, <2>4
<1>3. CASE FinishRemove
  <2>1. TypeOK'
    BY <1>3 DEF FinishRemove
  <2>2. LockDiscipline' /\ ResetInv' /\ BootInv'
    BY <1>3 DEF FinishRemove
  <2>3. TablesDisjoint' /\ CompletedMeansOver' /\ LoopHasThreads'
    BY <1>3 DEF FinishRemove
  <2>4. WorkerCallInv' /\ WokenInv'
    BY <1>3 DEF FinishRemove
  <2> QED BY <2>1, <2>2, <2>3, <2>4
<1>4. CASE FinishError
  <2>1. TypeOK'
    BY <1>4 DEF FinishError
  <2>2. LockDiscipline' /\ ResetInv' /\ BootInv'
    BY <1>4 DEF FinishError
  <2>3. TablesDisjoint' /\ CompletedMeansOver' /\ LoopHasThreads'
    BY <1>4 DEF FinishError
  <2>4. WorkerCallInv' /\ WokenInv'
    BY <1>4 DEF FinishError
  <2> QED BY <2>1, <2>2, <2>3, <2>4
<1>5. CASE FinishEmit
  <2>1. TypeOK'
    BY <1>5 DEF FinishEmit
  <2>2. LockDiscipline' /\ ResetInv' /\ BootInv'
    BY <1>5 DEF FinishEmit
  <2>3. TablesDisjoint' /\ CompletedMeansOver' /\ LoopHasThreads'
    BY <1>5 DEF FinishEmit
  <2>4. WorkerCallInv' /\ WokenInv'
    BY <1>5 DEF FinishEmit
  <2> QED BY <2>1, <2>2, <2>3, <2>4
<1>6. CASE DeliverReset
  <2>1. TypeOK'
    <3>1. call'[Worker] \in WorkerCalls /\ call' \in [Actors -> ScriptCalls \cup WorkerCalls]
      BY <1>6 DEF DeliverReset
    <3>2. \A t \in ThreadIds : call'[t] \in ScriptCalls
      BY <1>6 DEF DeliverReset
    <3>3. /\ pc' \in [Actors -> ScriptPlaces \cup WorkerPlaces \cup SharedPlaces]
          /\ \A t \in ThreadIds : pc'[t] \in ScriptPlaces \cup SharedPlaces
          /\ pc'[Worker] \in SharedPlaces
      BY <1>6 DEF DeliverReset
    <3> QED BY <1>6, <3>1, <3>2, <3>3 DEF DeliverReset
  <2>2. LockDiscipline' /\ ResetInv' /\ BootInv'
    BY <1>6 DEF DeliverReset
  <2>3. TablesDisjoint' /\ CompletedMeansOver' /\ LoopHasThreads'
    BY <1>6 DEF DeliverReset
  <2>4. WorkerCallInv' /\ WokenInv'
    BY <1>6 DEF DeliverReset
  <2> QED BY <2>1, <2>2, <2>3, <2>4
<1>7. CASE ResetBegin
  <2>1. TypeOK'
    BY <1>7 DEF ResetBegin, InSection
  <2>2. LockDiscipline' /\ ResetInv' /\ BootInv'
    BY <1>7 DEF ResetBegin, InSection
  <2>3. TablesDisjoint' /\ CompletedMeansOver' /\ LoopHasThreads'
    BY <1>7 DEF ResetBegin, InSection
  <2>4. WorkerCallInv' /\ WokenInv'
    BY <1>7 DEF ResetBegin, InSection
  <2> QED BY <2>1, <2>2, <2>3, <2>4
<1>8. CASE ResetWake
  <2>1. TypeOK'
    BY <1>8, SMTT(40) DEF ResetWake
  <2>2. LockDiscipline' /\ ResetInv' /\ BootInv'
    BY <1>8 DEF ResetWake
  <2>3. TablesDisjoint' /\ CompletedMeansOver' /\ LoopHasThreads'
    BY <1>8 DEF ResetWake
  <2>4. WorkerCallInv' /\ WokenInv'
    BY <1>8 DEF ResetWake
  <2> QED BY <2>1, <2>2, <2>3, <2>4
<1>9. CASE ResetAbort
  <2>1. TypeOK'
    BY <1>9, ZenonT(60) DEF ResetAbort, Abort, Abortable
  <2>2. LockDiscipline' /\ ResetInv' /\ BootInv'
    BY <1>9 DEF ResetAbort, Abort, Abortable
  <2>3. TablesDisjoint' /\ CompletedMeansOver' /\ LoopHasThreads'
    BY <1>9 DEF ResetAbort, Abort, Abortable
  <2>4. WorkerCallInv'
    <3>1. pc'[Worker] = "waitReset" /\ resetStarted'
      BY <1>9 DEF ResetAbort
    <3> QED BY <3>1
  <2>5. WokenInv'
    BY <1>9 DEF ResetAbort
  <2> QED BY <2>1, <2>2, <2>3, <2>4, <2>5
<1>10. CASE ResetEnd
  <2>1. TypeOK'
    <3>1. mail' \in [ThreadIds -> Nat]
      BY <1>10 DEF ResetEnd
    <3>2. /\ pc' \in [Actors -> ScriptPlaces \cup WorkerPlaces \cup SharedPlaces]
          /\ \A t \in ThreadIds : pc'[t] \in ScriptPlaces \cup SharedPlaces
          /\ pc'[Worker] \in WorkerPlaces
      BY <1>10 DEF ResetEnd
    <3>3. /\ resetStarted' = FALSE /\ resetCaller' = "none"
          /\ UNCHANGED <<resetMutex, threadsMutex, initSem, threads, finished, prevented,
                         error, call, aborted, failed, eventDriven, resetPosted>>
      BY <1>10 DEF ResetEnd
    <3>4. /\ resetMutex' \in Actors \cup {Free} /\ threadsMutex' \in Actors \cup {Free}
          /\ initSem' \in 0..1
          /\ threads' \subseteq ThreadIds /\ finished' \subseteq ThreadIds
          /\ prevented' \subseteq ThreadIds
      BY <3>3
    <3>5. /\ error' \in BOOLEAN /\ eventDriven' \in BOOLEAN
          /\ resetStarted' \in BOOLEAN /\ resetPosted' \in BOOLEAN
          /\ aborted' \in [ThreadIds -> BOOLEAN] /\ failed' \in [ThreadIds -> BOOLEAN]
      BY <3>3
    <3>6. /\ call' \in [Actors -> ScriptCalls \cup WorkerCalls]
          /\ \A t \in ThreadIds : call'[t] \in ScriptCalls
          /\ call'[Worker] \in WorkerCalls
      BY <3>3
    <3> QED BY <3>1, <3>2, <3>3, <3>4, <3>5, <3>6
  <2>2. LockDiscipline' /\ ResetInv' /\ BootInv'
    BY <1>10 DEF ResetEnd
  <2>3. TablesDisjoint' /\ CompletedMeansOver' /\ LoopHasThreads'
    BY <1>10 DEF ResetEnd
  <2>4. WorkerCallInv' /\ WokenInv'
    BY <1>10 DEF ResetEnd
  <2> QED BY <2>1, <2>2, <2>3, <2>4
<1>11. CASE StartMainThread
  <2>1. TypeOK'
    <3>1. call'[Worker] \in WorkerCalls /\ call' \in [Actors -> ScriptCalls \cup WorkerCalls]
      BY <1>11 DEF StartMainThread
    <3>2. \A t \in ThreadIds : call'[t] \in ScriptCalls
      BY <1>11 DEF StartMainThread
    <3>3. /\ pc' \in [Actors -> ScriptPlaces \cup WorkerPlaces \cup SharedPlaces]
          /\ \A t \in ThreadIds : pc'[t] \in ScriptPlaces \cup SharedPlaces
          /\ pc'[Worker] \in SharedPlaces
      BY <1>11 DEF StartMainThread
    <3> QED BY <1>11, <3>1, <3>2, <3>3 DEF StartMainThread
  <2>2. LockDiscipline' /\ ResetInv' /\ BootInv'
    BY <1>11 DEF StartMainThread
  <2>3. TablesDisjoint' /\ CompletedMeansOver' /\ LoopHasThreads'
    BY <1>11 DEF StartMainThread
  <2>4. WorkerCallInv' /\ WokenInv'
    BY <1>11 DEF StartMainThread
  <2> QED BY <2>1, <2>2, <2>3, <2>4
<1>12. CASE PostReset
  <2>1. TypeOK'
    BY <1>12 DEF PostReset
  <2>2. LockDiscipline' /\ ResetInv' /\ BootInv'
    BY <1>12 DEF PostReset
  <2>3. TablesDisjoint' /\ CompletedMeansOver' /\ LoopHasThreads'
    BY <1>12 DEF PostReset
  <2>4. WorkerCallInv' /\ WokenInv'
    BY <1>12 DEF PostReset
  <2> QED BY <2>1, <2>2, <2>3, <2>4
<1>13. ASSUME NEW id \in ThreadIds, ThreadFinished(id)
       PROVE  IndInv'
  <2>1. TypeOK'
    BY <1>13 DEF ThreadFinished
  <2>2. LockDiscipline' /\ ResetInv' /\ BootInv'
    BY <1>13 DEF ThreadFinished
  <2>3. TablesDisjoint' /\ CompletedMeansOver' /\ LoopHasThreads'
    BY <1>13 DEF ThreadFinished
  <2>4. WorkerCallInv' /\ WokenInv'
    BY <1>13 DEF ThreadFinished
  <2> QED BY <2>1, <2>2, <2>3, <2>4
<1> QED BY <1>1, <1>2, <1>3, <1>4, <1>5, <1>6, <1>7, <1>8, <1>9, <1>10, <1>11, <1>12, <1>13 DEF WorkerStep

HIDE DEF IndInv

(* Every step preserves the invariant.                                      *)
LEMMA NextInv == IndInv /\ [Next]_vars => IndInv'
<1> SUFFICES ASSUME IndInv, [Next]_vars
             PROVE  IndInv'
    OBVIOUS
<1>1. ASSUME NEW t \in ThreadIds,
             ScriptChoice(t) \/ ThreadStep(t) \/ EndEvaluate(t) \/ QuitLoop(t)
      PROVE  IndInv'
  <2>1. CASE ScriptChoice(t)
    <3>1. ASSUME NEW id \in ThreadIds,
                 CallStart(t, id) \/ CallJoin(t, id) \/ CallKill(t, id) \/ CallSend(t, id)
          PROVE  IndInv'
      <4>1. CASE CallStart(t, id)
        BY <4>1, CallInv DEF CallStart
      <4>2. CASE CallJoin(t, id)
        BY <4>2, CallInv DEF CallJoin
      <4>3. CASE CallKill(t, id)
        BY <4>3, CallInv DEF CallKill
      <4>4. CASE CallSend(t, id)
        BY <4>4, CallInv DEF CallSend
      <4> QED BY <3>1, <4>1, <4>2, <4>3, <4>4
    <3>2. CASE CallReceive(t)
      <4>1. PICK op \in {"poll", "receive"} : Call(t, op, "tryLock", t)
        BY <3>2 DEF CallReceive
      <4> QED BY <4>1, CallInv
    <3> QED BY <2>1, <3>1, <3>2, RunInv DEF ScriptChoice
  <2>2. CASE ThreadStep(t)
    BY <2>2, RunInv, BodyInv DEF ThreadStep
  <2> QED BY <1>1, <2>1, <2>2, RunInv
<1>2. CASE UNCHANGED vars
  BY <1>2 DEF vars, IndInv
<1> QED BY <1>1, <1>2, SharedInv, WorkerInv DEF Next

(* The invariant holds in every reachable state.                            *)
THEOREM Invariance == Spec => []IndInv
<1> QED BY InitInv, NextInv, PTL DEF Spec


(* Types.                                                                   *)
THEOREM TypeCorrect == Spec => []TypeOK
<1> QED BY Invariance, PTL DEF IndInv

(* Nobody unlocks mResetMutex or mThreadsMutex for another: tryLockReset    *)
(* never answers yes without the lock.                                      *)
THEOREM LocksKept == Spec => []LockDiscipline
<1> QED BY Invariance, PTL DEF IndInv

(* An id is in one of the three tables at most.                             *)
THEOREM TablesKept == Spec => []TablesDisjoint
<1> QED BY Invariance, PTL DEF IndInv

(* When a program is over none of its threads is left.                      *)
THEOREM OverWhenCompleted == Spec => []CompletedMeansOver
<1> QED BY Invariance, PTL DEF IndInv

(* receiveMessage never takes from an empty queue.                          *)
THEOREM NeverDequeuesNothing == Spec => []DequeueNonEmpty
<1>1. IndInv => DequeueNonEmpty
  BY DEF IndInv, DequeueNonEmpty, InSection
<1> QED BY <1>1, Invariance, PTL

(* joinThread returns only when its thread does not run.                    *)
THEOREM JoinCorrect == Spec => JoinTellsTheTruth
<1> DEFINE JoinsDone(t) ==
      LET id == call[t].id
      IN /\ pc[t] \in {"join", "joinWait"}
         /\ pc'[t] \notin {"join", "joinWait"}
         /\ id # t
         => ~IsRunning(id)
<1>1. IndInv /\ [Next]_vars => [\A t \in ThreadIds : JoinsDone(t)]_vars
  <2> SUFFICES ASSUME IndInv, Next, NEW t \in ThreadIds,
                      pc[t] \in {"join", "joinWait"},
                      pc'[t] \notin {"join", "joinWait"}, call[t].id # t
               PROVE  ~IsRunning(call[t].id)
    BY DEF vars
  <2>1. JoinReturns(t) \/ JoinDone(t)
    <3>1. ASSUME NEW u \in ThreadIds,
                 ScriptChoice(u) \/ EndEvaluate(u) \/ QuitLoop(u)
          PROVE  pc'[t] = pc[t]
      <4>1. pc[u] \in {"eval", "loop"}
        <5>1. ASSUME NEW op, NEW first, NEW id, Call(u, op, first, id)
              PROVE  pc[u] \in {"eval", "loop"}
          BY <5>1 DEF Call
        <5> QED BY <3>1, <5>1 DEF ScriptChoice, CallStart, CallJoin, CallKill, CallSend,
                                  CallReceive, RunLoop, Quit, Throw, EndEvaluate, QuitLoop
      <4>2. \A v \in ThreadIds \ {u} : pc'[v] = pc[v]
        <5>1. ASSUME NEW op, NEW first, NEW id, Call(u, op, first, id)
              PROVE  \A v \in ThreadIds \ {u} : pc'[v] = pc[v]
          BY <5>1 DEF Call, IndInv
        <5>2. CASE RunLoop(u) \/ Quit(u) \/ Throw(u) \/ EndEvaluate(u) \/ QuitLoop(u)
          BY <5>2 DEF RunLoop, Quit, Throw, EndEvaluate, QuitLoop, IndInv
        <5> QED BY <3>1, <5>1, <5>2 DEF ScriptChoice, CallStart, CallJoin, CallKill, CallSend,
                                        CallReceive
      <4> QED BY <4>1, <4>2
    <3>2. ASSUME NEW u \in ThreadIds, ThreadStep(u)
          PROVE  u = t \/ pc'[t] = pc[t]
      BY <3>2 DEF ThreadStep, Boot, Evaluate, AfterEvaluate, SendMessage, Dequeue,
                  ReceiveEmpty, Sleep, KillThread, JoinReturns, JoinRunning,
                  JoinDone, Return, InSection, IndInv
    <3>3. ThreadStep(t) =>
            JoinReturns(t) \/ JoinDone(t) \/ pc'[t] \in {"join", "joinWait"}
      BY DEF ThreadStep, Boot, Evaluate, AfterEvaluate, SendMessage, Dequeue,
             ReceiveEmpty, Sleep, KillThread, JoinRunning, InSection, IndInv
    <3>4. ASSUME NEW u \in Actors, SharedStep(u)
          PROVE  pc'[t] = pc[t]
      BY <3>4 DEF SharedStep, TryLock, Retest, StartReset, StartOccupied, StartPrevented,
                  StartCreate, StartDone, Return, IndInv
    <3>5. WorkerStep \/ StartMainThread \/ PostReset => pc'[t] = pc[t]
      BY DEF WorkerStep, StartMainThread, PostReset, WaitForAll, ThreadFinished,
             FinishLockReset, FinishRemove, FinishError, FinishEmit, DeliverReset, ResetBegin,
             ResetWake, ResetAbort, ResetEnd, IndInv
    <3> QED BY <3>1, <3>2, <3>3, <3>4, <3>5 DEF Next
  <2> QED BY <2>1 DEF JoinReturns, JoinDone, IsRunning, IndInv
<1> QED BY <1>1, Invariance, PTL DEF Spec, JoinTellsTheTruth

(* Threading implements ThreadPool.                                         *)
THEOREM ImplementsPool == Spec => PoolSpec
<1>1. Init => Pool!Init
  BY DEF Init, Pool!Init
<1>2. IndInv /\ [Next]_vars => [Pool!Next]_Pool!vars
  <2> SUFFICES ASSUME IndInv, Next
               PROVE  Pool!Next \/ UNCHANGED <<threads, resetStarted>>
    BY DEF vars, Pool!vars
  <2>1. ASSUME NEW t \in ThreadIds,
               ScriptChoice(t) \/ ThreadStep(t) \/ EndEvaluate(t) \/ QuitLoop(t)
        PROVE  UNCHANGED <<threads, resetStarted>>
    BY <2>1 DEF ScriptChoice, CallStart, CallJoin, CallKill, CallSend, CallReceive, Call,
                RunLoop, Quit, Throw, EndEvaluate, QuitLoop, ThreadStep, Boot, Evaluate,
                AfterEvaluate, SendMessage, Dequeue, ReceiveEmpty, Sleep,
                KillThread, JoinReturns, JoinRunning, JoinDone
  <2>2. ASSUME NEW t \in Actors, SharedStep(t)
        PROVE  Pool!Next \/ UNCHANGED <<threads, resetStarted>>
    <3>1. CASE StartCreate(t)
      <4>1. ~resetStarted /\ call[t].id \in ThreadIds
        BY <3>1 DEF StartCreate, IndInv
      <4>2. Pool!Begin(call[t].id)
        BY <3>1, <4>1 DEF StartCreate, Pool!Begin
      <4> QED BY <4>1, <4>2 DEF Pool!Next
    <3> QED BY <2>2, <3>1 DEF SharedStep, TryLock, Retest, StartReset, StartOccupied,
                              StartPrevented, StartDone
  <2>3. CASE FinishRemove
    <3>1. call[Worker].id \in threads
      BY <2>3 DEF FinishRemove, IndInv
    <3>2. Pool!End(call[Worker].id)
      BY <2>3, <3>1 DEF FinishRemove, Pool!End
    <3> QED BY <3>1, <3>2 DEF Pool!Next, IndInv
  <2>4. CASE ResetBegin
    <3>1. ~resetStarted
      BY <2>4 DEF ResetBegin, InSection, IndInv
    <3>2. Pool!Stop
      BY <2>4, <3>1 DEF ResetBegin, Pool!Stop
    <3> QED BY <3>2 DEF Pool!Next
  <2>5. CASE ResetEnd
    <3>1. resetStarted /\ threads = {}
      BY <2>5 DEF ResetEnd, IndInv
    <3>2. Pool!Stopped
      BY <2>5, <3>1 DEF ResetEnd, Pool!Stopped
    <3> QED BY <3>2 DEF Pool!Next
  <2>6. ASSUME WorkerStep \/ StartMainThread \/ PostReset,
               ~FinishRemove, ~ResetBegin, ~ResetEnd
        PROVE  UNCHANGED <<threads, resetStarted>>
    BY <2>6 DEF WorkerStep, StartMainThread, PostReset, WaitForAll, ThreadFinished,
                FinishLockReset, FinishError, FinishEmit, DeliverReset, ResetWake, ResetAbort
  <2> QED BY <2>1, <2>2, <2>3, <2>4, <2>5, <2>6 DEF Next, WorkerStep
<1> QED BY <1>1, <1>2, Invariance, PTL DEF Spec, PoolSpec, Pool!Spec
==============================================================================
