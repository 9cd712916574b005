---------------------------- MODULE WorkerProofs ----------------------------
(***************************************************************************)
(* Theorems about ScriptEngineWorker, for every number of scripts and of    *)
(* script.quit() calls, with and without direct commands: its queue and its *)
(* stack of event loops may grow without limit.                            *)
(***************************************************************************)
EXTENDS WorkerProperties, SequenceTheorems, FiniteSetTheorems, TLAPS

(* A queue has an event of a kind; has no two; has all of a kind before all *)
(* of another.                                                             *)
HasKind(q, kind) == \E i \in DOMAIN q : q[i].kind = kind
OnceKind(q, kind) == \A i, j \in DOMAIN q : q[i].kind = kind /\ q[j].kind = kind => i = j
Before(q, kind, other) == \A i, j \in DOMAIN q : q[i].kind = kind /\ q[j].kind = other => i < j

(* A stack has such a loop, one that still waits, one that was told to      *)
(* quit; or has no two.                                                    *)
HasLoop(fs, loop) == \E i \in DOMAIN fs : fs[i].loop = loop
Waits(fs, loop) == \E i \in DOMAIN fs : fs[i].loop = loop /\ ~fs[i].left
Told(fs, loop) == \E i \in DOMAIN fs : fs[i].loop = loop /\ fs[i].left
OnceLoop(fs, loop) == \A i, j \in DOMAIN fs : fs[i].loop = loop /\ fs[j].loop = loop => i = j

(* A caller that is about to start something has an id for it, and only a   *)
(* caller in stopScript holds the mutex.                                    *)
CallerInStep ==
  /\ caller.at \in {"start", "run", "directStop", "direct"} => caller.id \in Ids
  /\ stopAt # "out" => caller.at \in {"stop", "start", "directStop"}

Typed == TypeOK /\ CallerInStep

(* A program that is alive is waited for by a doRun that was not told to    *)
(* quit yet, and only while one is alive do doRun and reset wait; there is  *)
(* one reset on the stack while mResetStarted, else none; a reset that was  *)
(* told to quit has no program: none could start since.                    *)
LoopsInStep ==
  /\ program # None => Waits(frames, "run")
  /\ Waits(frames, "run") \/ Waits(frames, "reset") => program # None
  /\ resetting <=> HasLoop(frames, "reset")
  /\ OnceLoop(frames, "reset")
  /\ Told(frames, "reset") => program = None

(* What is starting is a run in the queue or a direct command on its way;   *)
(* while there is that run, nobody stops and no other run can come.         *)
Making == {"create", "loop", "running"}

StartInStep ==
  /\ state = "starting" => HasKind(queue, "run") \/ workerAt \in Making
  /\ HasKind(queue, "run") =>
       state = "starting" /\ stopAt = "out" /\ caller.at \notin {"stopped", "brick", "start", "run"}
  /\ OnceKind(queue, "run")

(* A program whose worker is ready, or will be when the caller leaves       *)
(* stopScript, is being reset or about to be.                               *)
StopIsUnderWay ==
  program # None /\ (state = "ready" \/ stopAt \in {"engine", "ready"})
    => resetting \/ HasKind(queue, "reset")

(* One resetBrick, in the queue or on the stack, for a caller that waits.   *)
BrickInStep ==
  /\ OnceKind(queue, "brick") /\ OnceLoop(frames, "brick")
  /\ ~(HasKind(queue, "brick") /\ HasLoop(frames, "brick"))
  /\ caller.at = "brick" <=> HasKind(queue, "brick") \/ HasLoop(frames, "brick")

(* A direct command is in the queue before the resetBrick that came after   *)
(* it, and so never before a run: the worker is through with it by the time *)
(* the caller starts a script.                                              *)
DirectInStep ==
  /\ Before(queue, "direct", "brick") /\ Before(queue, "run", "direct")
  /\ HasLoop(frames, "brick") \/ caller.at \in {"start", "run"} => ~HasKind(queue, "direct")
  /\ caller.at \in {"start", "run"} => workerAt \notin Making
  /\ workerAt \in Making => ~HasKind(queue, "run")

(* The inductive invariant.                                                *)
IndInv ==
  Typed /\ LoopsInStep /\ StartInStep /\ StopIsUnderWay /\ BrickInStep /\ DirectInStep

-----------------------------------------------------------------------------
(* Queues                                                                  *)

LEMMA TailKinds ==
  ASSUME NEW S, NEW q \in Seq(S), q # <<>>
  PROVE  /\ Head(q) \in S /\ Tail(q) \in Seq(S)
         /\ \A k : HasKind(q, k) <=> Head(q).kind = k \/ HasKind(Tail(q), k)
         /\ \A k : OnceKind(q, k) => OnceKind(Tail(q), k)
         /\ \A k : OnceKind(q, k) /\ Head(q).kind = k => ~HasKind(Tail(q), k)
         /\ \A k, m : Before(q, k, m) => Before(Tail(q), k, m)
         /\ \A k, m : Before(q, k, m) /\ Head(q).kind = m => ~HasKind(q, k)
<1>1. /\ Head(q) \in S /\ Tail(q) \in Seq(S) /\ Head(q) = q[1]
      /\ Len(Tail(q)) = Len(q) - 1
      /\ \A i \in 1..Len(Tail(q)) : Tail(q)[i] = q[i + 1]
  BY HeadTailProperties
<1>2. /\ DOMAIN q = 1..Len(q) /\ Len(q) \in Nat \ {0}
      /\ DOMAIN Tail(q) = 1..(Len(q) - 1)
  BY <1>1, EmptySeq, LenProperties
<1>3. \A i \in DOMAIN Tail(q) : i + 1 \in DOMAIN q /\ q[i + 1] = Tail(q)[i] /\ i + 1 # 1
  BY <1>1, <1>2
<1>4. \A i \in DOMAIN q : i = 1 \/ (i - 1 \in DOMAIN Tail(q) /\ Tail(q)[i - 1] = q[i])
  BY <1>1, <1>2
<1>5. 1 \in DOMAIN q
  BY <1>2
<1>6. ASSUME NEW k PROVE HasKind(q, k) <=> Head(q).kind = k \/ HasKind(Tail(q), k)
  BY <1>1, <1>3, <1>4, <1>5 DEF HasKind
<1>7. ASSUME NEW k, OnceKind(q, k) PROVE OnceKind(Tail(q), k)
  <2> SUFFICES ASSUME NEW i \in DOMAIN Tail(q), NEW j \in DOMAIN Tail(q),
                      Tail(q)[i].kind = k, Tail(q)[j].kind = k
               PROVE  i = j
    BY DEF OnceKind
  <2>1. i + 1 = j + 1
    BY <1>3, <1>7 DEF OnceKind
  <2> QED BY <1>2, <2>1
<1>8. ASSUME NEW k, OnceKind(q, k), Head(q).kind = k PROVE ~HasKind(Tail(q), k)
  BY <1>1, <1>3, <1>5, <1>8 DEF OnceKind, HasKind
<1>9. ASSUME NEW k, NEW m, Before(q, k, m) PROVE Before(Tail(q), k, m)
  <2> SUFFICES ASSUME NEW i \in DOMAIN Tail(q), NEW j \in DOMAIN Tail(q),
                      Tail(q)[i].kind = k, Tail(q)[j].kind = m
               PROVE  i < j
    BY DEF Before
  <2>1. i + 1 < j + 1
    BY <1>3, <1>9 DEF Before
  <2> QED BY <1>2, <2>1
<1>10. ASSUME NEW k, NEW m, Before(q, k, m), Head(q).kind = m PROVE ~HasKind(q, k)
  <2>1. \A i \in DOMAIN q : q[i].kind = k => i < 1
    BY <1>1, <1>5, <1>10 DEF Before
  <2> QED BY <1>2, <2>1 DEF HasKind
<1> QED BY <1>1, <1>6, <1>7, <1>8, <1>9, <1>10

LEMMA JoinKinds ==
  ASSUME NEW S, NEW q \in Seq(S), NEW t \in Seq(S)
  PROVE  /\ q \o t \in Seq(S)
         /\ \A k : HasKind(q \o t, k) <=> HasKind(q, k) \/ HasKind(t, k)
         /\ \A k : OnceKind(q, k) /\ OnceKind(t, k) /\ ~(HasKind(q, k) /\ HasKind(t, k))
                     => OnceKind(q \o t, k)
         /\ \A k, m : Before(q, k, m) /\ Before(t, k, m) /\ ~(HasKind(q, m) /\ HasKind(t, k))
                        => Before(q \o t, k, m)
<1>1. /\ q \o t \in Seq(S)
      /\ DOMAIN q = 1..Len(q) /\ Len(q) \in Nat
      /\ DOMAIN t = 1..Len(t) /\ Len(t) \in Nat
      /\ DOMAIN (q \o t) = 1..(Len(q) + Len(t))
      /\ \A i \in 1..(Len(q) + Len(t)) :
           (q \o t)[i] = IF i <= Len(q) THEN q[i] ELSE t[i - Len(q)]
  BY ConcatProperties, LenProperties
<1>2. ASSUME NEW i \in DOMAIN (q \o t)
      PROVE  \/ i \in DOMAIN q /\ (q \o t)[i] = q[i]
             \/ i - Len(q) \in DOMAIN t /\ (q \o t)[i] = t[i - Len(q)]
  BY <1>1
<1>3. \A i \in DOMAIN q : i \in DOMAIN (q \o t) /\ (q \o t)[i] = q[i]
  BY <1>1
<1>4. ASSUME NEW i \in DOMAIN t
      PROVE  Len(q) + i \in DOMAIN (q \o t) /\ (q \o t)[Len(q) + i] = t[i]
  <2>1. /\ Len(q) + i \in DOMAIN (q \o t) /\ ~(Len(q) + i <= Len(q))
        /\ (Len(q) + i) - Len(q) = i
    BY <1>1
  <2> QED BY <1>1, <2>1
<1>5. \A k : HasKind(q \o t, k) <=> HasKind(q, k) \/ HasKind(t, k)
  BY <1>2, <1>3, <1>4, ZenonT(60) DEF HasKind
<1>6. ASSUME NEW k, OnceKind(q, k), OnceKind(t, k), ~(HasKind(q, k) /\ HasKind(t, k))
      PROVE  OnceKind(q \o t, k)
  <2> SUFFICES ASSUME NEW i \in DOMAIN (q \o t), NEW j \in DOMAIN (q \o t),
                      (q \o t)[i].kind = k, (q \o t)[j].kind = k
               PROVE  i = j
    BY DEF OnceKind
  <2>1. CASE HasKind(q, k)
    BY <1>2, <1>6, <2>1 DEF OnceKind, HasKind
  <2>2. CASE ~HasKind(q, k)
    <3>1. /\ i - Len(q) \in DOMAIN t /\ t[i - Len(q)].kind = k
          /\ j - Len(q) \in DOMAIN t /\ t[j - Len(q)].kind = k
      BY <1>2, <2>2 DEF HasKind
    <3>2. i - Len(q) = j - Len(q)
      BY <1>6, <3>1 DEF OnceKind
    <3> QED BY <1>1, <3>2
  <2> QED BY <2>1, <2>2
<1>7. ASSUME NEW k, NEW m, Before(q, k, m), Before(t, k, m), ~(HasKind(q, m) /\ HasKind(t, k))
      PROVE  Before(q \o t, k, m)
  <2> SUFFICES ASSUME NEW i \in DOMAIN (q \o t), NEW j \in DOMAIN (q \o t),
                      (q \o t)[i].kind = k, (q \o t)[j].kind = m
               PROVE  i < j
    BY DEF Before
  <2>1. CASE i \in DOMAIN q /\ (q \o t)[i] = q[i] /\ j \in DOMAIN q /\ (q \o t)[j] = q[j]
    BY <1>7, <2>1 DEF Before
  <2>2. CASE i \in DOMAIN q /\ j - Len(q) \in DOMAIN t
    BY <1>1, <2>2
  <2>3. CASE i - Len(q) \in DOMAIN t /\ (q \o t)[i] = t[i - Len(q)] /\ j \in DOMAIN q /\ (q \o t)[j] = q[j]
    BY <1>7, <2>3 DEF HasKind
  <2>4. CASE /\ i - Len(q) \in DOMAIN t /\ (q \o t)[i] = t[i - Len(q)]
             /\ j - Len(q) \in DOMAIN t /\ (q \o t)[j] = t[j - Len(q)]
    <3>1. i - Len(q) < j - Len(q)
      BY <1>7, <2>4 DEF Before
    <3> QED BY <1>1, <3>1
  <2> QED BY <1>2, <2>1, <2>2, <2>3, <2>4
<1> QED BY <1>1, <1>5, <1>6, <1>7

LEMMA OneEvent ==
  ASSUME NEW e \in Event
  PROVE  /\ <<e>> \in Seq(Event)
         /\ \A k : (HasKind(<<e>>, k) <=> e.kind = k) /\ OnceKind(<<e>>, k)
BY DEF HasKind, OnceKind

LEMMA NoEvent ==
  /\ <<>> \in Seq(Event)
  /\ \A k : ~HasKind(<<>>, k) /\ OnceKind(<<>>, k)
BY EmptySeq DEF HasKind, OnceKind

LEMMA Plains ==
  ASSUME NEW kind \in {"reset", "brick", "brickDone", "quit", "drop"}
  PROVE  Plain(kind) \in Event /\ Plain(kind).kind = kind
BY DEF Plain, Event

(* What stopScript posts, by itself or after the reset.                     *)
LEMMA StopPosts ==
  /\ Abandons \in Seq(Event) /\ <<Plain("reset")>> \o Abandons \in Seq(Event)
  /\ \A k \in {"brick", "run", "direct"} :
       ~HasKind(Abandons, k) /\ ~HasKind(<<Plain("reset")>> \o Abandons, k)
  /\ HasKind(<<Plain("reset")>> \o Abandons, "reset")
<1>1. /\ <<Plain("reset")>> \in Seq(Event) /\ HasKind(<<Plain("reset")>>, "reset")
      /\ \A k \in {"brick", "run", "direct"} : ~HasKind(<<Plain("reset")>>, k)
  BY Plains, OneEvent
<1>2. /\ <<Plain("drop")>> \in Seq(Event)
      /\ \A k \in {"brick", "run", "direct"} : ~HasKind(<<Plain("drop")>>, k)
  BY Plains, OneEvent
<1>3. Abandons \in {<<>>, <<Plain("drop")>>}
  BY DEF Abandons
<1>4. Abandons \in Seq(Event) /\ \A k \in {"brick", "run", "direct"} : ~HasKind(Abandons, k)
  BY <1>2, <1>3, NoEvent
<1> QED BY <1>1, <1>4, JoinKinds

-----------------------------------------------------------------------------
(* Stacks                                                                  *)

LEMMA LoopIs ==
  ASSUME NEW fs \in Seq(Frame)
  PROVE  \A m : HasLoop(fs, m) <=> Waits(fs, m) \/ Told(fs, m)
BY DEF HasLoop, Waits, Told

LEMMA Entered ==
  ASSUME frames \in Seq(Frame), NEW loop \in {"run", "reset", "brick"}
  PROVE  /\ Enter(loop) \in Seq(Frame)
         /\ \A m : /\ HasLoop(Enter(loop), m) <=> HasLoop(frames, m) \/ m = loop
                   /\ Waits(Enter(loop), m) <=> Waits(frames, m) \/ m = loop
                   /\ Told(Enter(loop), m) <=> Told(frames, m)
                   /\ OnceLoop(frames, m) /\ (m = loop => ~HasLoop(frames, m)) => OnceLoop(Enter(loop), m)
<1> DEFINE f == [loop |-> loop, left |-> FALSE]
<1>1. f \in Frame /\ f.loop = loop /\ f.left = FALSE
  BY DEF Frame
<1> HIDE DEF f
<1>2. Enter(loop) = Append(frames, f)
  BY DEF Enter, f
<1>3. /\ Append(frames, f) \in Seq(Frame)
      /\ Len(Append(frames, f)) = Len(frames) + 1
      /\ \A i \in 1..Len(frames) : Append(frames, f)[i] = frames[i]
      /\ Append(frames, f)[Len(frames) + 1] = f
  BY <1>1, AppendProperties
<1>4. /\ DOMAIN frames = 1..Len(frames) /\ Len(frames) \in Nat
      /\ DOMAIN Append(frames, f) = 1..(Len(frames) + 1)
  BY <1>3, LenProperties
<1> DEFINE g == Append(frames, f)
           n == Len(frames) + 1
<1>5. /\ n \in DOMAIN g /\ g[n] = f
      /\ \A i \in DOMAIN frames : i \in DOMAIN g /\ g[i] = frames[i]
      /\ \A i \in DOMAIN g : i = n \/ i \in DOMAIN frames
  BY <1>3, <1>4
<1>6. g \in Seq(Frame) /\ Enter(loop) = g
  BY <1>2, <1>3
<1> HIDE DEF g, n
<1>7. \A m : /\ HasLoop(g, m) <=> HasLoop(frames, m) \/ m = loop
             /\ Waits(g, m) <=> Waits(frames, m) \/ m = loop
             /\ Told(g, m) <=> Told(frames, m)
  BY <1>1, <1>5 DEF HasLoop, Waits, Told
<1>8. \A m : OnceLoop(frames, m) /\ (m = loop => ~HasLoop(frames, m)) => OnceLoop(g, m)
  BY <1>1, <1>5 DEF HasLoop, OnceLoop
<1> QED BY <1>6, <1>7, <1>8

LEMMA Telling ==
  ASSUME frames \in Seq(Frame), NEW told
  PROVE  /\ Leave(told) \in Seq(Frame)
         /\ \A m : /\ HasLoop(Leave(told), m) <=> HasLoop(frames, m)
                   /\ OnceLoop(frames, m) => OnceLoop(Leave(told), m)
                   /\ m \in told => ~Waits(Leave(told), m)
                   /\ m \notin told => /\ Waits(Leave(told), m) <=> Waits(frames, m)
                                       /\ Told(Leave(told), m) <=> Told(frames, m)
<1>1. DOMAIN frames = 1..Len(frames) /\ Len(frames) \in Nat /\ \A i \in DOMAIN frames : frames[i] \in Frame
  BY LenProperties, ElementOfSeq
<1>2. /\ DOMAIN Leave(told) = DOMAIN frames
      /\ \A i \in DOMAIN frames :
           /\ Leave(told)[i] \in Frame
           /\ Leave(told)[i].loop = frames[i].loop
           /\ Leave(told)[i].left = (frames[i].left \/ frames[i].loop \in told)
  BY <1>1 DEF Leave, Frame
<1>3. Leave(told) \in Seq(Frame)
  <2>1. Leave(told) = [i \in 1..Len(frames) |-> Leave(told)[i]]
    BY <1>1 DEF Leave
  <2>2. \A i \in 1..Len(frames) : Leave(told)[i] \in Frame
    BY <1>1, <1>2
  <2> HIDE DEF Leave
  <2> QED BY <1>1, <2>1, <2>2, IsASeq
<1> QED BY <1>2, <1>3 DEF HasLoop, OnceLoop, Waits, Told

LEMMA Unwound ==
  ASSUME frames \in Seq(Frame), NEW loop, Unwind(loop)
  PROVE  /\ frames' \in Seq(Frame) /\ Told(frames, loop)
         /\ \A m : /\ m # loop => (HasLoop(frames', m) <=> HasLoop(frames, m))
                   /\ Waits(frames', m) <=> Waits(frames, m)
                   /\ Told(frames', m) => Told(frames, m)
                   /\ OnceLoop(frames, m) => OnceLoop(frames', m)
         /\ OnceLoop(frames, loop) => ~HasLoop(frames', loop)
<1> DEFINE n == Len(frames)
<1>1. /\ frames # <<>> /\ frames[n] = [loop |-> loop, left |-> TRUE]
      /\ frames' = SubSeq(frames, 1, n - 1)
  BY DEF Unwind
<1>2. n \in Nat \ {0} /\ DOMAIN frames = 1..n /\ \A i \in 1..(n - 1) : frames[i] \in Frame
  BY <1>1, EmptySeq, LenProperties, ElementOfSeq
<1>3. /\ SubSeq(frames, 1, n - 1) \in Seq(Frame)
      /\ Len(SubSeq(frames, 1, n - 1)) = n - 1
      /\ \A i \in 1..(n - 1) : SubSeq(frames, 1, n - 1)[i] = frames[i]
  BY <1>2, SubSeqProperties
<1>4. DOMAIN SubSeq(frames, 1, n - 1) = 1..(n - 1)
  BY <1>3, LenProperties
<1>5. /\ frames' \in Seq(Frame)
      /\ DOMAIN frames' = DOMAIN frames \ {n} /\ n \in DOMAIN frames
      /\ \A i \in DOMAIN frames' : frames'[i] = frames[i]
      /\ frames[n].loop = loop /\ frames[n].left
  BY <1>1, <1>2, <1>3, <1>4
<1> HIDE DEF n
<1>6. Told(frames, loop)
  BY <1>5 DEF Told
<1>7. \A m : /\ m # loop => (HasLoop(frames', m) <=> HasLoop(frames, m))
             /\ Waits(frames', m) <=> Waits(frames, m)
             /\ Told(frames', m) => Told(frames, m)
             /\ OnceLoop(frames, m) => OnceLoop(frames', m)
  BY <1>5 DEF HasLoop, Waits, Told, OnceLoop
<1>8. OnceLoop(frames, loop) => ~HasLoop(frames', loop)
  BY <1>5 DEF HasLoop, OnceLoop
<1> QED BY <1>5, <1>6, <1>7, <1>8
-----------------------------------------------------------------------------
(* What a step does to the queue                                           *)

Adds(t) ==
  /\ HasKind(t, "brick") => ResetBrick
  /\ HasKind(t, "run") => Start
  /\ HasKind(t, "direct") => DirectPost
  /\ OnceKind(t, "brick") /\ OnceKind(t, "run")

Appends == \E t \in Seq(Event) : queue' = queue \o t /\ Adds(t)

(* Whoever takes an event of these kinds does what it says.                 *)
Faithful ==
  /\ Serve("run") => DoRun
  /\ Serve("reset") => DoReset
  /\ Serve("brick") => DoBrick

Takes ==
  /\ queue # <<>> /\ Serve(Head(queue).kind)
  /\ queue' = Tail(queue)
  /\ ~ResetBrick /\ ~Start /\ ~DirectPost
  /\ Faithful

LEMMA QueueMoves ==
  ASSUME Typed, [Next]_vars
  PROVE  Appends \/ Takes \/ TimerQuit
<1>1. queue \in Seq(Event) /\ caller \in Callers /\ CallerInStep
  BY DEF Typed, TypeOK
<1>2. ASSUME queue' = queue PROVE Appends
  <2>1. queue' = queue \o <<>>
    BY <1>1, <1>2, ConcatEmptySeq
  <2> QED BY <1>2, <2>1, NoEvent DEF Appends, Adds
<1>3. ASSUME NEW e \in Event, queue' = queue \o <<e>>,
             e.kind = "brick" => ResetBrick, e.kind = "run" => Start, e.kind = "direct" => DirectPost
      PROVE  Appends
  <2>1. <<e>> \in Seq(Event) /\ Adds(<<e>>)
    BY <1>3, OneEvent DEF Adds
  <2> QED BY <1>3, <2>1 DEF Appends
<1>4. ASSUME NEW t \in Seq(Event), queue' = queue \o t,
             \A k \in {"brick", "run", "direct"} : ~HasKind(t, k)
      PROVE  Appends
  <2>1. OnceKind(t, "brick") /\ OnceKind(t, "run")
    BY <1>4 DEF HasKind, OnceKind
  <2> QED BY <1>4, <2>1 DEF Appends, Adds
<1>5. CASE UNCHANGED vars
  BY <1>2, <1>5 DEF vars, loops
<1>6. CASE CallRun \/ CallAbort \/ CallDirect \/ StopSkips \/ StopBegins \/ StopEnds
  BY <1>2, <1>6 DEF CallRun, CallAbort, CallDirect, StopSkips, StopBegins, StopEnds, loops
<1>7. CASE StopResets
  <2>1. queue' = queue \o <<Plain("reset")>>
    BY <1>7 DEF StopResets, Post
  <2> QED BY <1>3, <2>1, Plains
<1>8. CASE StopAbandons
  <2>1. queue' = queue \o Abandons
    BY <1>8 DEF StopAbandons, Post
  <2> QED BY <1>4, <2>1, StopPosts
<1>9. CASE ResetBrick
  <2>1. queue' = queue \o <<Plain("brick")>>
    BY <1>9 DEF ResetBrick, Post
  <2> QED BY <1>3, <1>9, <2>1, Plains
<1>10. CASE Start
  <2>1. [kind |-> "run", id |-> caller.id] \in Event
    BY <1>1, <1>10 DEF Start, CallerInStep, Event
  <2> QED BY <1>3, <1>10, <2>1 DEF Start, Post
<1>11. CASE DirectPost
  <2>1. [kind |-> "direct", id |-> caller.id] \in Event
    BY <1>1, <1>11 DEF DirectPost, CallerInStep, Event
  <2> QED BY <1>3, <1>11, <2>1 DEF DirectPost, Post
<1>12. CASE RunLoop \/ ThreadFails \/ ProgramEnds
  BY <1>2, <1>12 DEF RunLoop, ThreadFails, ProgramEnds, loops
<1>13. CASE Quit
  <2>1. queue' = queue \o <<Plain("quit")>>
    BY <1>1, <1>13, Plains, AppendIsConcat DEF Quit
  <2> QED BY <1>3, <2>1, Plains
<1>14. CASE BrickAnswers
  <2>1. queue' = queue \o <<Plain("brickDone")>>
    BY <1>14 DEF BrickAnswers, Post
  <2> QED BY <1>3, <2>1, Plains
<1>15. CASE DoRun \/ DoReset \/ DoBrick \/ DoBrickDone \/ DoQuit \/ DoDrop \/ DoDirect
  <2>1. /\ DoRun => Serve("run")
        /\ DoReset => Serve("reset")
        /\ DoBrick => Serve("brick")
        /\ DoBrickDone => Serve("brickDone")
        /\ DoQuit => Serve("quit")
        /\ DoDrop => Serve("drop")
        /\ DoDirect => Serve("direct")
    BY DEF DoRun, DoReset, DoBrick, DoBrickDone, DoQuit, DoDrop, DoDirect
  <2>2. Done /\ UNCHANGED caller
    BY <1>15 DEF DoRun, DoReset, DoBrick, DoBrickDone, DoQuit, DoDrop, DoDirect, callers
  <2>3. Faithful
    BY <1>15, <2>1 DEF Faithful, Serve
  <2>4. ~ResetBrick /\ ~Start /\ ~DirectPost
    <3>1. ResetBrick \/ Start \/ DirectPost => caller' # caller
      BY <1>1 DEF ResetBrick, Start, DirectPost, Idle, Callers
    <3> QED BY <2>2, <3>1
  <2> QED BY <1>15, <2>1, <2>2, <2>3, <2>4 DEF Takes, Serve, Done
<1>16. CASE DirectStep
  BY <1>2, <1>16 DEF DirectStep, DirectQuits, DirectCreates, DirectLoops, DirectRuns, DirectReturns, loops
<1>17. CASE QuitStops
  <2>1. CASE state = "ready"
    BY <1>2, <1>17, <2>1 DEF QuitStops
  <2>2. CASE state # "ready"
    <3>1. queue' = queue \o (<<Plain("reset")>> \o Abandons)
      BY <1>17, <2>2 DEF QuitStops, Post
    <3> QED BY <1>4, <3>1, StopPosts
  <2> QED BY <2>1, <2>2
<1>18. CASE EndRun \/ EndReset \/ EndBrick
  BY <1>2, <1>18 DEF EndRun, EndReset, EndBrick
<1> QED
  BY <1>5, <1>6, <1>7, <1>8, <1>9, <1>10, <1>11, <1>12, <1>13, <1>14, <1>15, <1>16, <1>17, <1>18
  DEF Next, CallerStep, WorkerStep

LEMMA QueueKept ==
  ASSUME Typed, [Next]_vars
  PROVE  /\ queue' \in Seq(Event)
         /\ HasKind(queue, "run") => HasKind(queue', "run") \/ DoRun
         /\ HasKind(queue, "reset") => HasKind(queue', "reset") \/ DoReset
         /\ HasKind(queue, "brick") => HasKind(queue', "brick") \/ DoBrick
         /\ HasKind(queue', "brick") => HasKind(queue, "brick") \/ ResetBrick
         /\ HasKind(queue', "run") => HasKind(queue, "run") \/ Start
         /\ HasKind(queue', "direct") => HasKind(queue, "direct") \/ DirectPost
         /\ OnceKind(queue, "brick") /\ ~(ResetBrick /\ HasKind(queue, "brick")) => OnceKind(queue', "brick")
         /\ OnceKind(queue, "run") /\ ~(Start /\ HasKind(queue, "run")) => OnceKind(queue', "run")
         /\ Before(queue, "direct", "brick") /\ ~(DirectPost /\ HasKind(queue, "brick"))
              => Before(queue', "direct", "brick")
         /\ Before(queue, "run", "direct") /\ ~(Start /\ HasKind(queue, "direct"))
              => Before(queue', "run", "direct")
<1>1. queue \in Seq(Event)
  BY DEF Typed, TypeOK
<1>2. CASE Appends
  <2>1. PICK t \in Seq(Event) : queue' = queue \o t /\ Adds(t)
    BY <1>2 DEF Appends
  <2>2. ~(ResetBrick /\ DirectPost) /\ ~(Start /\ DirectPost)
    BY DEF ResetBrick, Start, DirectPost
  <2>3. Before(t, "direct", "brick") /\ Before(t, "run", "direct")
    BY <2>1, <2>2 DEF Adds, HasKind, Before
  <2>4. /\ queue' \in Seq(Event)
        /\ \A k : HasKind(queue', k) <=> HasKind(queue, k) \/ HasKind(t, k)
    BY <1>1, <2>1, JoinKinds
  <2>5. /\ OnceKind(queue, "brick") /\ ~(ResetBrick /\ HasKind(queue, "brick")) => OnceKind(queue', "brick")
        /\ OnceKind(queue, "run") /\ ~(Start /\ HasKind(queue, "run")) => OnceKind(queue', "run")
    BY <1>1, <2>1, JoinKinds DEF Adds
  <2>6. /\ Before(queue, "direct", "brick") /\ ~(DirectPost /\ HasKind(queue, "brick"))
             => Before(queue', "direct", "brick")
        /\ Before(queue, "run", "direct") /\ ~(Start /\ HasKind(queue, "direct"))
             => Before(queue', "run", "direct")
    BY <1>1, <2>1, <2>3, JoinKinds DEF Adds
  <2> QED BY <2>1, <2>4, <2>5, <2>6 DEF Adds
<1>3. CASE Takes
  <2>1. queue # <<>> /\ Serve(Head(queue).kind) /\ queue' = Tail(queue) /\ Faithful
    BY <1>3 DEF Takes
  <2>2. /\ Tail(queue) \in Seq(Event)
        /\ \A k : HasKind(queue, k) <=> Head(queue).kind = k \/ HasKind(Tail(queue), k)
        /\ \A k : OnceKind(queue, k) => OnceKind(Tail(queue), k)
        /\ \A k, m : Before(queue, k, m) => Before(Tail(queue), k, m)
    BY <1>1, <2>1, TailKinds
  <2>3. \A k : HasKind(queue, k) => HasKind(queue', k) \/ Serve(k)
    BY <2>1, <2>2 DEF Serve
  <2>4. /\ HasKind(queue, "run") => HasKind(queue', "run") \/ DoRun
        /\ HasKind(queue, "reset") => HasKind(queue', "reset") \/ DoReset
        /\ HasKind(queue, "brick") => HasKind(queue', "brick") \/ DoBrick
    BY <2>1, <2>3 DEF Faithful
  <2> QED BY <2>1, <2>2, <2>4
<1>4. CASE TimerQuit
  <2>1. queue' = <<Plain("quit")>> \o queue
    BY <1>4 DEF TimerQuit
  <2>2. /\ <<Plain("quit")>> \in Seq(Event)
        /\ \A k \in {"brick", "run", "direct"} :
             ~HasKind(<<Plain("quit")>>, k) /\ OnceKind(<<Plain("quit")>>, k)
    BY Plains, OneEvent
  <2>3. Before(<<Plain("quit")>>, "direct", "brick") /\ Before(<<Plain("quit")>>, "run", "direct")
    BY <2>2 DEF Before, HasKind
  <2>4. /\ queue' \in Seq(Event)
        /\ \A k : HasKind(queue', k) <=> HasKind(<<Plain("quit")>>, k) \/ HasKind(queue, k)
    BY <1>1, <2>1, <2>2, JoinKinds
  <2>5. /\ OnceKind(queue, "brick") => OnceKind(queue', "brick")
        /\ OnceKind(queue, "run") => OnceKind(queue', "run")
    BY <1>1, <2>1, <2>2, JoinKinds
  <2>6. /\ Before(queue, "direct", "brick") => Before(queue', "direct", "brick")
        /\ Before(queue, "run", "direct") => Before(queue', "run", "direct")
    BY <1>1, <2>1, <2>2, <2>3, JoinKinds
  <2> QED BY <2>2, <2>4, <2>5, <2>6
<1> QED BY <1>2, <1>3, <1>4, QueueMoves

(* What is taken was the first: of its kind, and before what comes after it.*)
LEMMA Taken ==
  ASSUME queue \in Seq(Event), NEW kind, Serve(kind), Done
  PROVE  /\ HasKind(queue, kind)
         /\ OnceKind(queue, kind) => ~HasKind(queue', kind)
         /\ \A k : Before(queue, k, kind) => ~HasKind(queue, k)
BY TailKinds DEF Serve, Done

LEMMA Posted ==
  ASSUME Typed
  PROVE  /\ Start => HasKind(queue', "run")
         /\ ResetBrick => HasKind(queue', "brick")
         /\ StopResets => HasKind(queue', "reset")
         /\ QuitStops /\ state # "ready" => HasKind(queue', "reset")
<1>1. queue \in Seq(Event) /\ CallerInStep
  BY DEF Typed, TypeOK
<1>2. ASSUME NEW e \in Event, queue' = queue \o <<e>> PROVE HasKind(queue', e.kind)
  BY <1>1, <1>2, OneEvent, JoinKinds
<1>3. CASE Start
  <2>1. [kind |-> "run", id |-> caller.id] \in Event
    BY <1>1, <1>3 DEF Start, CallerInStep, Event
  <2>2. PICK e \in Event : e = [kind |-> "run", id |-> caller.id]
    BY <2>1
  <2>3. queue' = queue \o <<e>> /\ e.kind = "run"
    BY <1>3, <2>2 DEF Start, Post
  <2> QED BY <1>2, <1>3, <2>3 DEF Start, ResetBrick, StopResets, QuitStops, CallerInStep, places
<1>4. ResetBrick => HasKind(queue', "brick")
  BY <1>2, Plains DEF ResetBrick, Post
<1>5. StopResets => HasKind(queue', "reset")
  BY <1>2, Plains DEF StopResets, Post
<1>6. ASSUME QuitStops, state # "ready" PROVE HasKind(queue', "reset")
  <2>1. queue' = queue \o (<<Plain("reset")>> \o Abandons)
    BY <1>6 DEF QuitStops, Post
  <2>2. /\ <<Plain("reset")>> \o Abandons \in Seq(Event)
        /\ HasKind(<<Plain("reset")>> \o Abandons, "reset")
    BY StopPosts
  <2>3. HasKind(queue \o (<<Plain("reset")>> \o Abandons), "reset")
    BY <1>1, <2>2, JoinKinds
  <2> QED BY <2>1, <2>3 DEF HasKind
<1> QED BY <1>3, <1>4, <1>5, <1>6
-----------------------------------------------------------------------------
(* What a step does to the stack                                           *)

LEMMA StackMoves ==
  ASSUME Typed, [Next]_vars
  PROVE  \/ frames' = frames
         \/ (DoRun /\ program' # None) /\ frames' = Enter("run")
         \/ ((DoReset \/ ThreadFails) /\ ~resetting /\ program # None) /\ frames' = Enter("reset")
         \/ DoBrick /\ frames' = Enter("brick")
         \/ ProgramEnds /\ frames' = Leave({"run", "reset"})
         \/ DoBrickDone /\ frames' = Leave({"brick"})
         \/ EndRun \/ EndReset \/ EndBrick
<1>1. CASE UNCHANGED vars
  BY <1>1 DEF vars, loops
<1>2. CASE CallRun \/ CallAbort \/ CallDirect \/ CallerStep
  BY <1>2 DEF CallRun, CallAbort, CallDirect, CallerStep, StopSkips, StopBegins, StopResets, StopAbandons,
    StopEnds, ResetBrick, Start, DirectPost, loops
<1>3. CASE RunLoop \/ Quit \/ TimerQuit \/ BrickAnswers
  BY <1>3 DEF RunLoop, Quit, TimerQuit, BrickAnswers, loops
<1>4. CASE ProgramEnds
  BY <1>4 DEF ProgramEnds
<1>5. CASE DoRun
  <2>1. program' # None => frames' = Enter("run")
    BY <1>5 DEF DoRun
  <2>2. program' = None => frames' = frames
    BY <1>5 DEF DoRun
  <2> QED BY <1>5, <2>1, <2>2
<1>6. CASE DoReset \/ ThreadFails
  BY <1>6 DEF DoReset, ThreadFails, BeginsReset
<1>7. CASE DoBrick \/ DoBrickDone
  BY <1>7 DEF DoBrick, DoBrickDone
<1>8. CASE DoQuit \/ DoDrop \/ DoDirect \/ DirectStep \/ QuitStops
  BY <1>8 DEF DoQuit, DoDrop, DoDirect, DirectStep, DirectQuits, DirectCreates, DirectLoops, DirectRuns,
    DirectReturns, QuitStops, loops
<1> QED BY <1>1, <1>2, <1>3, <1>4, <1>5, <1>6, <1>7, <1>8 DEF Next, WorkerStep

LEMMA StackKept ==
  ASSUME Typed, [Next]_vars
  PROVE  frames' \in Seq(Frame)
<1>1. frames \in Seq(Frame)
  BY DEF Typed, TypeOK
<1>2. CASE EndRun \/ EndReset \/ EndBrick
  BY <1>1, <1>2, Unwound DEF EndRun, EndReset, EndBrick
<1>3. CASE frames' \in {frames, Enter("run"), Enter("reset"), Enter("brick")}
  BY <1>1, <1>3, Entered
<1>4. CASE \E told : frames' = Leave(told)
  BY <1>1, <1>4, Telling
<1> QED BY <1>2, <1>3, <1>4, StackMoves

-----------------------------------------------------------------------------
(* Types                                                                   *)

States == {"ready", "starting", "running", "stopping"}
StopPlaces == {"out", "reset", "engine", "ready"}
WorkerPlaces == {"out", "create", "loop", "running", "evaluate", "evaluated", "quit", "directQuit"}

LEMMA TypedKept ==
  ASSUME Typed, BrickInStep, [Next]_vars
  PROVE  Typed'
<1> USE WorkerAssumption DEF Ids, None
<1>1. /\ TypeOK /\ CallerInStep
      /\ state \in States /\ stopAt \in StopPlaces /\ workerAt \in WorkerPlaces
      /\ scriptId \in Ids \cup {None}
      /\ queue \in Seq(Event)
      /\ frames \in Seq(Frame)
      /\ program \in Ids \cup {None}
      /\ resetting \in BOOLEAN /\ eventDriven \in BOOLEAN /\ engine \in BOOLEAN
      /\ caller \in Callers
      /\ nextId \in 1..(MaxScripts + 1)
      /\ ran \subseteq Ids
      /\ completed \subseteq Ids \cup {None}
      /\ quits \in 0..MaxQuits
  BY DEF Typed, TypeOK, States, StopPlaces, WorkerPlaces
<1>2. queue' \in Seq(Event) /\ frames' \in Seq(Frame)
  BY QueueKept, StackKept
<1>3. ASSUME state' \in States, stopAt' \in StopPlaces, workerAt' \in WorkerPlaces,
             scriptId' \in Ids \cup {None}, program' \in Ids \cup {None},
             resetting' \in BOOLEAN, eventDriven' \in BOOLEAN, engine' \in BOOLEAN,
             caller' \in Callers, CallerInStep', nextId' \in 1..(MaxScripts + 1),
             ran' \subseteq Ids, completed' \subseteq Ids \cup {None}, quits' \in 0..MaxQuits
      PROVE  Typed'
  BY <1>2, <1>3 DEF Typed, TypeOK, States, StopPlaces, WorkerPlaces
<1> USE DEF scriptState, places, threading, loops, callers, outputs
<1>4. CASE UNCHANGED vars
  BY <1>1, <1>3, <1>4 DEF vars, CallerInStep
<1>5. CASE CallRun \/ CallAbort \/ CallDirect
  <2>1. caller' \in Callers /\ CallerInStep' /\ nextId' \in 1..(MaxScripts + 1)
    BY <1>1, <1>5 DEF CallRun, CallAbort, CallDirect, Callers, CallerInStep, Idle
  <2> QED BY <1>1, <1>3, <1>5, <2>1 DEF CallRun, CallAbort, CallDirect
<1>6. CASE StopSkips \/ StopEnds
  <2>1. caller.at \in {"stop", "start", "directStop"}
    BY <1>1, <1>6 DEF StopSkips, StopEnds, CallsStop, AfterStop, CallerInStep
  <2>2. /\ caller.at = "stop" => caller' = [caller EXCEPT !.at = "stopped"]
        /\ caller.at = "start" => caller' = [caller EXCEPT !.at = "run"]
        /\ caller.at = "directStop" => caller' = [caller EXCEPT !.at = "direct"]
    BY <1>6 DEF StopSkips, StopEnds, GoesOn, AfterStop
  <2>3. stopAt' = "out" /\ state' \in States
    BY <1>1, <1>6 DEF StopSkips, StopEnds, CallsStop, States
  <2>4. caller' \in Callers /\ CallerInStep'
    BY <1>1, <2>1, <2>2, <2>3 DEF Callers, CallerInStep
  <2>5. stopAt' \in StopPlaces
    BY <2>3 DEF StopPlaces
  <2> QED BY <1>1, <1>3, <1>6, <2>3, <2>4, <2>5 DEF StopSkips, StopEnds
<1>7. CASE StopBegins \/ StopResets \/ StopAbandons
  <2>1. state' \in States /\ stopAt' \in StopPlaces /\ eventDriven' \in BOOLEAN
    BY <1>1, <1>7 DEF StopBegins, StopResets, StopAbandons, States, StopPlaces
  <2>2. completed' \subseteq Ids \cup {None}
    BY <1>1, <1>7 DEF StopBegins, StopResets, StopAbandons, Completes
  <2>3. CallerInStep'
    BY <1>1, <1>7 DEF StopBegins, StopResets, StopAbandons, CallsStop, AfterStop, CallerInStep
  <2> QED BY <1>1, <1>3, <1>7, <2>1, <2>2, <2>3 DEF StopBegins, StopResets, StopAbandons
<1>8. CASE ResetBrick \/ Start \/ DirectPost
  <2>1. scriptId' \in Ids \cup {None} /\ state' \in States
    BY <1>1, <1>8 DEF ResetBrick, Start, DirectPost, CallerInStep, States
  <2>2. stopAt = "out" /\ caller' \in Callers /\ caller'.at \in {"brick", "idle"}
    BY <1>1, <1>8 DEF ResetBrick, Start, DirectPost, CallerInStep, Callers, Idle
  <2>3. CallerInStep'
    BY <1>8, <2>2 DEF ResetBrick, Start, DirectPost, CallerInStep
  <2> QED BY <1>1, <1>3, <1>8, <2>1, <2>2, <2>3 DEF ResetBrick, Start, DirectPost
<1>9. CASE RunLoop \/ Quit \/ TimerQuit \/ ThreadFails \/ ProgramEnds \/ BrickAnswers
  <2>1. /\ quits' = quits \/ (quits < MaxQuits /\ quits' = quits + 1)
        /\ caller' = caller /\ stopAt' = stopAt
    BY <1>9 DEF RunLoop, Quit, TimerQuit, ThreadFails, ProgramEnds, BrickAnswers, callers, places
  <2>4. quits' \in 0..MaxQuits
    BY <1>1, <2>1, WorkerAssumption
  <2>2. resetting' \in BOOLEAN /\ eventDriven' \in BOOLEAN
    BY <1>1, <1>9 DEF RunLoop, Quit, TimerQuit, ThreadFails, BeginsReset, ProgramEnds, BrickAnswers
  <2>3. CallerInStep'
    BY <1>1, <2>1 DEF CallerInStep
  <2> QED BY <1>1, <1>3, <1>9, <2>1, <2>2, <2>3, <2>4
          DEF RunLoop, Quit, TimerQuit, ThreadFails, ProgramEnds, BrickAnswers
<1>10. ASSUME NEW kind \in {"run", "direct"}, Serve(kind)
       PROVE  Head(queue).id \in Ids
  <2>1. Head(queue) \in Event
    BY <1>1, <1>10, TailKinds DEF Serve
  <2> QED BY <1>10, <2>1 DEF Serve, Event
<1>11. CASE DoRun
  <2>1. program' \in Ids \cup {None} /\ ran' \subseteq Ids
    BY <1>1, <1>10, <1>11 DEF DoRun
  <2>2. completed' \subseteq Ids \cup {None}
    BY <1>1, <1>11 DEF DoRun, Completes
  <2>3. state' \in States /\ CallerInStep'
    BY <1>1, <1>11 DEF DoRun, States, CallerInStep
  <2> QED BY <1>1, <1>3, <1>11, <2>1, <2>2, <2>3 DEF DoRun
<1>12. CASE DoReset
  <2>1. resetting' \in BOOLEAN /\ eventDriven' \in BOOLEAN
    BY <1>1, <1>12 DEF DoReset, BeginsReset
  <2> QED BY <1>1, <1>3, <1>12, <2>1 DEF DoReset, CallerInStep
<1>13. CASE DoBrick \/ DoBrickDone \/ DoDrop
  BY <1>1, <1>3, <1>13 DEF DoBrick, DoBrickDone, DoDrop, CallerInStep
<1>14. CASE DoQuit
  <2>1. workerAt' \in WorkerPlaces /\ eventDriven' \in BOOLEAN
    BY <1>14 DEF DoQuit, WorkerPlaces
  <2> QED BY <1>1, <1>3, <1>14, <2>1 DEF DoQuit, CallerInStep
<1>15. CASE QuitStops
  <2>1. workerAt' \in WorkerPlaces /\ state' \in States /\ eventDriven' \in BOOLEAN
    BY <1>1, <1>15 DEF QuitStops, WorkerPlaces, States
  <2>2. completed' \subseteq Ids \cup {None}
    BY <1>1, <1>15 DEF QuitStops, Completes
  <2> QED BY <1>1, <1>3, <1>15, <2>1, <2>2 DEF QuitStops, CallerInStep
<1>16. CASE DoDirect
  <2>1. scriptId' \in Ids \cup {None} /\ ran' \subseteq Ids
    BY <1>1, <1>10, <1>16 DEF DoDirect
  <2>2. workerAt' \in WorkerPlaces /\ state' \in States
    BY <1>1, <1>16 DEF DoDirect, WorkerPlaces, States
  <2> QED BY <1>1, <1>3, <1>16, <2>1, <2>2 DEF DoDirect, CallerInStep
<1>17. CASE DirectStep
  <2>1. /\ workerAt' \in WorkerPlaces /\ state' \in States
        /\ eventDriven' \in BOOLEAN /\ engine' \in BOOLEAN
    BY <1>1, <1>17 DEF DirectStep, DirectQuits, DirectCreates, DirectLoops, DirectRuns, DirectReturns,
      WorkerPlaces, States
  <2>2. completed' \subseteq Ids \cup {None}
    BY <1>1, <1>17 DEF DirectStep, DirectQuits, DirectCreates, DirectLoops, DirectRuns, DirectReturns, Completes
  <2>3. CallerInStep' /\ UNCHANGED <<stopAt, scriptId, program, resetting, caller, nextId, ran, quits>>
    BY <1>1, <1>17 DEF DirectStep, DirectQuits, DirectCreates, DirectLoops, DirectRuns, DirectReturns, CallerInStep
  <2> QED BY <1>1, <1>3, <2>1, <2>2, <2>3
<1>18. CASE EndRun \/ EndReset
  <2>1. completed' \subseteq Ids \cup {None}
    BY <1>1, <1>18 DEF EndRun, EndReset, Completes
  <2> QED BY <1>1, <1>3, <1>18, <2>1 DEF EndRun, EndReset, CallerInStep
<1>19. CASE EndBrick
  <2>1. caller.at = "brick"
    <3>1. HasLoop(frames, "brick")
      BY <1>1, <1>19, Unwound, LoopIs DEF EndBrick
    <3> QED BY <3>1 DEF BrickInStep
  <2>2. caller' \in Callers /\ CallerInStep'
    BY <1>1, <1>19, <2>1 DEF EndBrick, Idle, Callers, CallerInStep
  <2> QED BY <1>1, <1>3, <1>19, <2>2 DEF EndBrick
<1> QED
  BY <1>4, <1>5, <1>6, <1>7, <1>8, <1>9, <1>11, <1>12, <1>13, <1>14, <1>15, <1>16, <1>17, <1>18, <1>19
  DEF Next, CallerStep, WorkerStep
-----------------------------------------------------------------------------
(* The facts                                                               *)

LEMMA LoopsKept ==
  ASSUME Typed, LoopsInStep, [Next]_vars
  PROVE  LoopsInStep'
<1>1. /\ frames \in Seq(Frame) /\ resetting \in BOOLEAN /\ program \in Ids \cup {None}
      /\ program # None => Waits(frames, "run")
      /\ Waits(frames, "run") \/ Waits(frames, "reset") => program # None
      /\ resetting <=> HasLoop(frames, "reset")
      /\ OnceLoop(frames, "reset")
      /\ Told(frames, "reset") => program = None
      /\ Told(frames, "reset") => HasLoop(frames, "reset")
      /\ Waits(frames, "reset") => HasLoop(frames, "reset")
  BY LoopIs DEF Typed, TypeOK, LoopsInStep
<1>2. ASSUME program' # None => Waits(frames', "run"),
             Waits(frames', "run") \/ Waits(frames', "reset") => program' # None,
             resetting' <=> HasLoop(frames', "reset"),
             OnceLoop(frames', "reset"),
             Told(frames', "reset") => program' = None
      PROVE  LoopsInStep'
  BY <1>2 DEF LoopsInStep, Waits, HasLoop, OnceLoop, Told
<1>3. CASE UNCHANGED <<frames, program, resetting>>
  BY <1>1, <1>2, <1>3
<1>4. CASE DoRun
  <2>1. \/ program' = program /\ (program = None => frames' = frames)
        \/ program = None /\ ~resetting
    BY <1>4 DEF DoRun
  <2>2. resetting' = resetting /\ (frames' = frames \/ frames' = Enter("run"))
        /\ (program' # None => frames' = Enter("run"))
        /\ (program' = None => frames' = frames)
    BY <1>4 DEF DoRun
  <2>3. CASE program' = None
    <3>1. program = None
      BY <1>1, <1>4, <2>3 DEF DoRun, Typed, TypeOK
    <3> QED BY <1>1, <1>2, <2>2, <2>3, <3>1
  <2>4. CASE program' # None
    <3>1. frames' = Enter("run")
      BY <2>2, <2>4
    <3>2. /\ HasLoop(frames', "reset") <=> HasLoop(frames, "reset")
          /\ Waits(frames', "run")
          /\ Told(frames', "reset") <=> Told(frames, "reset")
          /\ OnceLoop(frames', "reset")
      BY <1>1, <3>1, Entered
    <3>3. Told(frames, "reset") => FALSE
      BY <1>1, <2>1, <2>4
    <3> QED BY <1>1, <1>2, <2>2, <2>4, <3>2, <3>3
  <2> QED BY <2>3, <2>4
<1>5. CASE DoReset \/ ThreadFails
  <2>1. program' = program /\ (resetting \/ BeginsReset)
        /\ (resetting => frames' = frames /\ resetting' = resetting)
    BY <1>5 DEF DoReset, ThreadFails, BeginsReset
  <2>2. CASE resetting \/ program = None
    <3>1. frames' = frames /\ resetting' = resetting
      BY <1>1, <2>1, <2>2 DEF BeginsReset
    <3> QED BY <1>3, <2>1, <3>1
  <2>3. CASE ~resetting /\ program # None
    <3>1. frames' = Enter("reset") /\ resetting' = TRUE
      BY <2>1, <2>3, Zenon DEF BeginsReset
    <3>2. /\ HasLoop(frames', "reset")
          /\ Waits(frames', "run") <=> Waits(frames, "run")
          /\ Told(frames', "reset") <=> Told(frames, "reset")
          /\ OnceLoop(frames', "reset")
      BY <1>1, <2>3, <3>1, Entered
    <3> QED BY <1>1, <1>2, <2>1, <2>3, <3>1, <3>2
  <2> QED BY <2>2, <2>3
<1>6. CASE ProgramEnds
  <2>1. program' = None /\ resetting' = resetting /\ frames' = Leave({"run", "reset"})
    BY <1>6 DEF ProgramEnds
  <2>2. /\ HasLoop(frames', "reset") <=> HasLoop(frames, "reset")
        /\ ~Waits(frames', "run") /\ ~Waits(frames', "reset")
        /\ OnceLoop(frames', "reset")
    BY <1>1, <2>1, Telling
  <2> QED BY <1>1, <1>2, <2>1, <2>2
<1>7. ASSUME UNCHANGED <<program, resetting>>,
             frames' = Enter("brick") \/ frames' = Leave({"brick"}) \/ Unwind("brick") \/ Unwind("run")
      PROVE  LoopsInStep'
  <2>1. /\ HasLoop(frames', "reset") <=> HasLoop(frames, "reset")
        /\ Waits(frames', "run") <=> Waits(frames, "run")
        /\ Waits(frames', "reset") <=> Waits(frames, "reset")
        /\ Told(frames', "reset") => Told(frames, "reset")
        /\ OnceLoop(frames', "reset")
    <3>1. CASE frames' = Enter("brick")
      BY <1>1, <3>1, Entered
    <3>2. CASE frames' = Leave({"brick"})
      BY <1>1, <3>2, Telling
    <3>3. CASE Unwind("brick") \/ Unwind("run")
      BY <1>1, <3>3, Unwound
    <3> QED BY <1>7, <3>1, <3>2, <3>3
  <2> QED BY <1>1, <1>2, <1>7, <2>1
<1>8. CASE EndReset
  <2>1. resetting' = FALSE /\ program' = program /\ Unwind("reset")
    BY <1>8 DEF EndReset
  <2>2. /\ ~HasLoop(frames', "reset")
        /\ Waits(frames', "run") <=> Waits(frames, "run")
        /\ Waits(frames', "reset") <=> Waits(frames, "reset")
        /\ Told(frames', "reset") => Told(frames, "reset")
        /\ OnceLoop(frames', "reset")
    BY <1>1, <2>1, Unwound
  <2> QED BY <1>1, <1>2, <2>1, <2>2
<1>9. CASE DoBrick \/ DoBrickDone \/ EndBrick \/ EndRun
  BY <1>7, <1>9 DEF DoBrick, DoBrickDone, EndBrick, EndRun, threading
<1>10. CASE CallRun \/ CallAbort \/ CallDirect \/ CallerStep
  BY <1>3, <1>10 DEF CallRun, CallAbort, CallDirect, CallerStep, StopSkips, StopBegins, StopResets,
    StopAbandons, StopEnds, ResetBrick, Start, DirectPost, loops, threading
<1>11. CASE RunLoop \/ Quit \/ TimerQuit \/ BrickAnswers \/ DoQuit \/ DoDrop \/ DoDirect
  BY <1>3, <1>11 DEF RunLoop, Quit, TimerQuit, BrickAnswers, DoQuit, DoDrop, DoDirect, loops, threading
<1>12. CASE DirectStep \/ QuitStops
  BY <1>3, <1>12 DEF DirectStep, DirectQuits, DirectCreates, DirectLoops, DirectRuns, DirectReturns,
    QuitStops, loops, threading
<1>13. CASE UNCHANGED vars
  BY <1>3, <1>13 DEF vars, loops, threading
<1> QED BY <1>4, <1>5, <1>6, <1>8, <1>9, <1>10, <1>11, <1>12, <1>13 DEF Next, WorkerStep

(* The steps that change the state, the two places, or the caller.          *)
LEMMA Movers ==
  ASSUME [Next]_vars
  PROVE  /\ state' # state => StopBegins \/ StopEnds \/ Start \/ DoRun \/ QuitStops \/ DoDirect \/ DirectRuns
         /\ stopAt' # stopAt => StopBegins \/ StopResets \/ StopAbandons \/ StopEnds
         /\ workerAt' # workerAt => DoQuit \/ QuitStops \/ DoDirect \/ DirectStep
         /\ caller' # caller => \/ CallRun \/ CallAbort \/ CallDirect \/ StopSkips \/ StopEnds
                                \/ ResetBrick \/ Start \/ DirectPost \/ EndBrick
         /\ program' # program => DoRun \/ ProgramEnds
         /\ resetting' # resetting => DoReset \/ ThreadFails \/ EndReset
<1> USE DEF scriptState, places, threading, callers
<1>1. CASE UNCHANGED vars
  BY <1>1 DEF vars
<1>2. CASE CallRun \/ CallAbort \/ CallDirect
  BY <1>2 DEF CallRun, CallAbort, CallDirect
<1>3. CASE CallerStep
  BY <1>3 DEF CallerStep, StopSkips, StopBegins, StopResets, StopAbandons, StopEnds, ResetBrick, Start, DirectPost
<1>4. CASE RunLoop \/ Quit \/ TimerQuit \/ ThreadFails \/ ProgramEnds \/ BrickAnswers
  BY <1>4 DEF RunLoop, Quit, TimerQuit, ThreadFails, ProgramEnds, BrickAnswers
<1>5. CASE DoRun \/ DoReset \/ DoBrick \/ DoBrickDone \/ DoQuit \/ DoDrop \/ DoDirect
  BY <1>5 DEF DoRun, DoReset, DoBrick, DoBrickDone, DoQuit, DoDrop, DoDirect
<1>6. CASE DirectStep
  BY <1>6 DEF DirectStep, DirectQuits, DirectCreates, DirectLoops, DirectRuns, DirectReturns
<1>7. CASE QuitStops \/ EndRun \/ EndReset \/ EndBrick
  BY <1>7 DEF QuitStops, EndRun, EndReset, EndBrick
<1> QED BY <1>1, <1>2, <1>3, <1>4, <1>5, <1>6, <1>7 DEF Next, WorkerStep

(* Where a caller's step takes it.                                          *)
LEMMA CallerMoves ==
  ASSUME Typed, BrickInStep, [Next]_vars
  PROVE  \/ caller' = caller
         \/ CallRun \/ CallAbort \/ CallDirect
         \/ (StopSkips \/ StopEnds) /\ \/ caller.at = "stop" /\ caller'.at = "stopped"
                                       \/ caller.at = "start" /\ caller'.at = "run"
                                       \/ caller.at = "directStop" /\ caller'.at = "direct"
         \/ ResetBrick /\ caller.at = "stopped" /\ caller'.at = "brick"
         \/ Start /\ caller.at = "run" /\ caller'.at = "idle"
         \/ DirectPost /\ caller.at = "direct" /\ caller'.at = "idle"
         \/ EndBrick /\ caller.at = "brick" /\ caller'.at \in {"idle", "start"}
<1>1. caller \in Callers /\ CallerInStep /\ frames \in Seq(Frame)
  BY DEF Typed, TypeOK
<1>2. CASE StopSkips \/ StopEnds
  <2>1. caller.at \in {"stop", "start", "directStop"}
    BY <1>1, <1>2 DEF StopSkips, StopEnds, CallsStop, AfterStop, CallerInStep
  <2>2. /\ caller.at = "stop" => caller' = [caller EXCEPT !.at = "stopped"]
        /\ caller.at = "start" => caller' = [caller EXCEPT !.at = "run"]
        /\ caller.at = "directStop" => caller' = [caller EXCEPT !.at = "direct"]
    BY <1>2 DEF StopSkips, StopEnds, GoesOn, AfterStop
  <2> QED BY <1>1, <1>2, <2>1, <2>2 DEF Callers
<1>3. CASE ResetBrick \/ Start \/ DirectPost
  BY <1>1, <1>3 DEF ResetBrick, Start, DirectPost, Callers, Idle
<1>4. CASE EndBrick
  <2>1. HasLoop(frames, "brick")
    BY <1>1, <1>4, Unwound, LoopIs DEF EndBrick
  <2>2. caller.at = "brick"
    BY <2>1 DEF BrickInStep
  <2> QED BY <1>1, <1>4, <2>2 DEF EndBrick, Callers, Idle
<1> QED BY <1>2, <1>3, <1>4, Movers

LEMMA StartKept ==
  ASSUME Typed, StartInStep, BrickInStep, DirectInStep, [Next]_vars
  PROVE  StartInStep'
<1>1. /\ queue \in Seq(Event) /\ CallerInStep
      /\ state = "starting" => HasKind(queue, "run") \/ workerAt \in Making
      /\ HasKind(queue, "run") =>
           state = "starting" /\ stopAt = "out" /\ caller.at \notin {"stopped", "brick", "start", "run"}
      /\ OnceKind(queue, "run")
      /\ workerAt \in Making => ~HasKind(queue, "run")
  BY DEF Typed, TypeOK, StartInStep, DirectInStep
<1>2. /\ HasKind(queue, "run") => HasKind(queue', "run") \/ DoRun
      /\ HasKind(queue', "run") => HasKind(queue, "run") \/ Start
      /\ OnceKind(queue, "run") /\ ~(Start /\ HasKind(queue, "run")) => OnceKind(queue', "run")
  BY QueueKept
<1>3. Start => HasKind(queue', "run")
  BY Posted
<1>4. OnceKind(queue', "run")
  <2>1. Start => caller.at = "run"
    BY DEF Start
  <2> QED BY <1>1, <1>2, <2>1
<1>5. ASSUME state' = "starting" PROVE HasKind(queue', "run") \/ workerAt' \in Making
  <2>1. ~DoRun /\ ~DirectRuns /\ ~QuitStops
    BY <1>5 DEF DoRun, DirectRuns, QuitStops
  <2>2. CASE Start
    BY <1>3, <2>2
  <2>3. CASE DoDirect
    <3>1. CASE Makes
      BY <2>3, <3>1 DEF DoDirect, Making
    <3>2. CASE ~Makes
      <4>1. state = "starting" /\ workerAt = "out"
        BY <1>5, <2>3, <3>2 DEF DoDirect, Serve, Serving
      <4> QED BY <1>1, <1>2, <2>1, <4>1 DEF Making
    <3> QED BY <3>1, <3>2
  <2>4. CASE ~Start /\ ~DoDirect
    <3>1. state = "starting"
      BY <1>5, <2>1, <2>4, Movers DEF StopBegins, StopEnds
    <3>2. CASE HasKind(queue, "run")
      BY <1>2, <2>1, <3>2
    <3>3. CASE workerAt \in Making
      <4>1. workerAt' # workerAt => DirectStep
        BY <2>1, <2>4, <3>3, Movers DEF DoQuit, Serve, Serving, Making
      <4> QED BY <2>1, <3>3, <4>1 DEF Making, DirectStep, DirectQuits, DirectCreates, DirectLoops, DirectReturns
    <3> QED BY <1>1, <3>1, <3>2, <3>3
  <2> QED BY <2>2, <2>3, <2>4
<1>6. ASSUME HasKind(queue', "run")
      PROVE  state' = "starting" /\ stopAt' = "out" /\ caller'.at \notin {"stopped", "brick", "start", "run"}
  <2>1. CASE Start
    BY <1>1, <2>1 DEF Start, Idle, places, CallerInStep
  <2>2. CASE ~Start
    <3>1. /\ HasKind(queue, "run") /\ state = "starting" /\ stopAt = "out"
          /\ caller.at \notin {"stopped", "brick", "start", "run"} /\ workerAt \notin Making
      BY <1>1, <1>2, <1>6, <2>2
    <3>2. ~DoRun
      <4>1. DoRun => Serve("run") /\ Done
        BY DEF DoRun
      <4> QED BY <1>1, <1>6, <4>1, Taken
    <3>3. ~StopBegins /\ ~StopSkips /\ ~StopResets /\ ~StopAbandons /\ ~StopEnds /\ ~QuitStops
      BY <3>1 DEF StopBegins, StopSkips, StopResets, StopAbandons, StopEnds, QuitStops
    <3>4. DirectRuns => FALSE
      BY <3>1 DEF DirectRuns, Making
    <3>5. state' = "starting"
      BY <2>2, <3>1, <3>2, <3>3, <3>4, Movers DEF DoDirect
    <3>6. stopAt' = "out"
      BY <3>1, <3>3, Movers
    <3>7. caller'.at \notin {"stopped", "brick", "start", "run"}
      <4>1. CallRun \/ CallAbort \/ CallDirect => caller'.at \in {"stop", "direct", "directStop"}
        BY DEF CallRun, CallAbort, CallDirect
      <4> QED BY <3>1, <3>3, <4>1, CallerMoves
    <3> QED BY <3>5, <3>6, <3>7
  <2> QED BY <2>1, <2>2
<1> QED BY <1>4, <1>5, <1>6 DEF StartInStep, HasKind, OnceKind

LEMMA DirectKept ==
  ASSUME Typed, StartInStep, BrickInStep, DirectInStep, [Next]_vars
  PROVE  DirectInStep'
<1>1. /\ queue \in Seq(Event) /\ frames \in Seq(Frame) /\ CallerInStep
      /\ Before(queue, "direct", "brick") /\ Before(queue, "run", "direct")
      /\ HasLoop(frames, "brick") \/ caller.at \in {"start", "run"} => ~HasKind(queue, "direct")
      /\ caller.at \in {"start", "run"} => workerAt \notin Making
      /\ workerAt \in Making => ~HasKind(queue, "run")
      /\ caller.at = "brick" <=> HasKind(queue, "brick") \/ HasLoop(frames, "brick")
  BY DEF Typed, TypeOK, DirectInStep, BrickInStep
<1>2. /\ HasKind(queue', "run") => HasKind(queue, "run") \/ Start
      /\ HasKind(queue', "direct") => HasKind(queue, "direct") \/ DirectPost
      /\ Before(queue, "direct", "brick") /\ ~(DirectPost /\ HasKind(queue, "brick"))
           => Before(queue', "direct", "brick")
      /\ Before(queue, "run", "direct") /\ ~(Start /\ HasKind(queue, "direct"))
           => Before(queue', "run", "direct")
  BY QueueKept
<1>3. Before(queue', "direct", "brick") /\ Before(queue', "run", "direct")
  <2>1. (DirectPost => caller.at = "direct") /\ (Start => caller.at = "run")
    BY DEF DirectPost, Start
  <2> QED BY <1>1, <1>2, <2>1
<1>4. ASSUME NEW kind, Serve(kind), Done, HasKind(queue, "direct"), kind = "brick" PROVE FALSE
  BY <1>1, <1>4, Taken
<1>5. DoDirect => HasKind(queue, "direct") /\ ~HasKind(queue, "run") /\ Serve("direct")
  <2>1. DoDirect => Serve("direct") /\ Done
    BY DEF DoDirect
  <2> QED BY <1>1, <2>1, Taken
<1>6. /\ CallRun \/ CallAbort \/ CallDirect => caller'.at \in {"stop", "direct", "directStop"}
      /\ EndBrick => workerAt = "out" /\ workerAt' = "out" /\ HasLoop(frames, "brick")
      /\ StopSkips \/ StopEnds => workerAt' = workerAt
  <2>1. CallRun \/ CallAbort \/ CallDirect => caller'.at \in {"stop", "direct", "directStop"}
    BY DEF CallRun, CallAbort, CallDirect
  <2>2. EndBrick => workerAt = "out" /\ workerAt' = "out" /\ HasLoop(frames, "brick")
    BY <1>1, Unwound, LoopIs DEF EndBrick, Unwind, places
  <2>3. StopSkips \/ StopEnds => workerAt' = workerAt
    BY DEF StopSkips, StopEnds, places
  <2> QED BY <2>1, <2>2, <2>3
<1>7. ASSUME HasLoop(frames', "brick") PROVE ~HasKind(queue', "direct")
  <2>1. CASE DoBrick
    <3>1. Serve("brick") /\ Done /\ ~DirectPost
      BY <2>1 DEF DoBrick, DirectPost, Serve, Serving, Idle, callers
    <3> QED BY <1>2, <1>4, <3>1
  <2>2. CASE ~DoBrick
    <3>1. HasLoop(frames, "brick")
      <4>1. CASE frames' = frames
        BY <1>7, <4>1
      <4>2. CASE frames' = Enter("run") \/ frames' = Enter("reset")
        BY <1>1, <1>7, <4>2, Entered
      <4>3. CASE frames' = Leave({"run", "reset"}) \/ frames' = Leave({"brick"})
        BY <1>1, <1>7, <4>3, Telling
      <4>4. CASE EndRun \/ EndReset
        BY <1>1, <1>7, <4>4, Unwound DEF EndRun, EndReset
      <4>5. CASE EndBrick
        BY <1>6, <4>5
      <4> QED BY <2>2, <4>1, <4>2, <4>3, <4>4, <4>5, StackMoves
    <3>2. caller.at = "brick" /\ ~HasKind(queue, "direct")
      BY <1>1, <3>1
    <3> QED BY <1>2, <3>2 DEF DirectPost
  <2> QED BY <2>1, <2>2
<1>8. ASSUME caller'.at \in {"start", "run"}
      PROVE  ~HasKind(queue', "direct") /\ workerAt' \notin Making
  <2>1. CASE EndBrick
    <3>1. ~HasKind(queue, "direct") /\ caller.at = "brick"
      BY <1>1, <1>6, <2>1
    <3> QED BY <1>2, <1>6, <2>1, <3>1 DEF DirectPost, Making
  <2>2. CASE ~EndBrick
    <3>1. caller.at \in {"start", "run"}
      BY <1>6, <1>8, <2>2, CallerMoves
    <3>2. ~HasKind(queue, "direct") /\ workerAt \notin Making /\ ~DirectPost
      BY <1>1, <3>1 DEF DirectPost
    <3>3. workerAt' \notin Making
      <4>1. CASE workerAt' = workerAt
        BY <3>2, <4>1
      <4>2. CASE DoQuit \/ QuitStops
        BY <4>2 DEF DoQuit, QuitStops, Making
      <4>3. CASE DirectStep
        BY <3>2, <4>3 DEF DirectStep, DirectQuits, DirectCreates, DirectLoops, DirectRuns, DirectReturns, Making
      <4> QED BY <1>5, <3>2, <4>1, <4>2, <4>3, Movers
    <3> QED BY <1>2, <3>2, <3>3
  <2> QED BY <2>1, <2>2
<1>9. ASSUME workerAt' \in Making PROVE ~HasKind(queue', "run")
  <2>1. CASE DoDirect
    <3>1. ~HasKind(queue, "run") /\ ~Start
      <4>1. DoDirect => caller' = caller
        BY DEF DoDirect, callers
      <4>2. Start => caller' # caller
        BY DEF Start, Idle
      <4> QED BY <1>5, <2>1, <4>1, <4>2
    <3> QED BY <1>2, <3>1
  <2>2. CASE ~DoDirect
    <3>1. workerAt \in Making
      <4>1. CASE workerAt' = workerAt
        BY <1>9, <4>1
      <4>2. CASE DoQuit \/ QuitStops
        BY <1>9, <4>2 DEF DoQuit, QuitStops, Making
      <4>3. CASE DirectStep
        BY <1>9, <4>3 DEF DirectStep, DirectQuits, DirectCreates, DirectLoops, DirectRuns, DirectReturns, Making
      <4> QED BY <2>2, <4>1, <4>2, <4>3, Movers
    <3>2. ~HasKind(queue, "run") /\ ~Start
      BY <1>1, <3>1 DEF Start
    <3> QED BY <1>2, <3>2
  <2> QED BY <2>1, <2>2
<1> QED BY <1>3, <1>7, <1>8, <1>9 DEF DirectInStep, HasKind, HasLoop, Before

LEMMA StopStays ==
  ASSUME Typed, LoopsInStep, StartInStep, StopIsUnderWay, [Next]_vars
  PROVE  StopIsUnderWay'
<1> SUFFICES ASSUME program' # None, state' = "ready" \/ stopAt' \in {"engine", "ready"}
             PROVE  resetting' \/ HasKind(queue', "reset")
  BY DEF StopIsUnderWay, HasKind
<1>1. /\ queue \in Seq(Event) /\ frames \in Seq(Frame) /\ resetting \in BOOLEAN
      /\ program # None /\ (state = "ready" \/ stopAt \in {"engine", "ready"})
           => resetting \/ HasKind(queue, "reset")
      /\ Told(frames, "reset") => program = None
      /\ HasKind(queue, "run") => stopAt = "out"
  BY DEF Typed, TypeOK, StopIsUnderWay, LoopsInStep, StartInStep
<1>2. HasKind(queue, "reset") => HasKind(queue', "reset") \/ DoReset
  BY QueueKept
<1>3. ~DoRun
  <2>1. DoRun => Serve("run") /\ Done /\ state' = "running" /\ stopAt' = stopAt
    BY DEF DoRun, places
  <2> QED BY <1>1, <2>1, Taken
<1>4. program' = program
  BY <1>3, Movers DEF ProgramEnds
<1>5. CASE DoReset \/ ThreadFails
  <2>1. resetting' = TRUE
    BY <1>1, <1>4, <1>5 DEF DoReset, ThreadFails, BeginsReset
  <2> QED BY <2>1
<1>6. CASE EndReset
  <2>1. program = None
    BY <1>1, <1>6, Unwound DEF EndReset
  <2> QED BY <1>4, <2>1
<1>7. CASE StopResets \/ (QuitStops /\ state # "ready")
  BY <1>7, Posted
<1>8. CASE ~DoReset /\ ~ThreadFails /\ ~EndReset /\ ~StopResets /\ ~(QuitStops /\ state # "ready")
  <2>1. resetting' = resetting
    BY <1>8, Movers
  <2>2. state = "ready" \/ stopAt \in {"engine", "ready"}
    <3>1. CASE state' = "ready"
      <4>1. CASE state # "ready"
        <5>1. StopEnds
          BY <1>3, <1>8, <3>1, <4>1, Movers DEF StopBegins, Start, DoDirect, DirectRuns
        <5> QED BY <5>1 DEF StopEnds
      <4> QED BY <4>1
    <3>2. CASE stopAt' \in {"engine", "ready"}
      <4>1. CASE stopAt' # stopAt
        BY <1>8, <3>2, <4>1, Movers DEF StopBegins, StopAbandons, StopEnds
      <4> QED BY <3>2, <4>1
    <3> QED BY <3>1, <3>2
  <2> QED BY <1>1, <1>2, <1>4, <1>8, <2>1, <2>2
<1> QED BY <1>5, <1>6, <1>7, <1>8

LEMMA BrickKept ==
  ASSUME Typed, BrickInStep, [Next]_vars
  PROVE  BrickInStep'
<1>1. /\ queue \in Seq(Event) /\ frames \in Seq(Frame) /\ caller \in Callers
      /\ OnceKind(queue, "brick") /\ OnceLoop(frames, "brick")
      /\ ~(HasKind(queue, "brick") /\ HasLoop(frames, "brick"))
      /\ caller.at = "brick" <=> HasKind(queue, "brick") \/ HasLoop(frames, "brick")
  BY DEF Typed, TypeOK, BrickInStep
<1>2. /\ HasKind(queue, "brick") => HasKind(queue', "brick") \/ DoBrick
      /\ HasKind(queue', "brick") => HasKind(queue, "brick") \/ ResetBrick
      /\ ResetBrick => HasKind(queue', "brick")
      /\ ResetBrick => caller.at = "stopped"
      /\ ~(ResetBrick /\ HasKind(queue, "brick")) => OnceKind(queue', "brick")
  BY <1>1, QueueKept, Posted DEF ResetBrick
<1>3. OnceKind(queue', "brick")
  BY <1>1, <1>2
<1>4. ASSUME OnceLoop(frames', "brick"),
             ~(HasKind(queue', "brick") /\ HasLoop(frames', "brick")),
             caller'.at = "brick" <=> HasKind(queue', "brick") \/ HasLoop(frames', "brick")
      PROVE  BrickInStep'
  BY <1>3, <1>4 DEF BrickInStep, OnceKind, OnceLoop, HasKind, HasLoop
<1>5. CASE DoBrick
  <2>1. caller' = caller /\ Serve("brick") /\ Done /\ frames' = Enter("brick")
    BY <1>5 DEF DoBrick, callers
  <2>2. HasKind(queue, "brick") /\ ~HasKind(queue', "brick")
    BY <1>1, <2>1, Taken
  <2>3. HasLoop(frames', "brick") /\ OnceLoop(frames', "brick")
    BY <1>1, <2>1, <2>2, Entered
  <2> QED BY <1>1, <1>4, <2>1, <2>2, <2>3
<1>6. CASE EndBrick
  <2>1. Unwind("brick") /\ caller'.at # "brick" /\ queue' = queue
    BY <1>1, <1>6 DEF EndBrick, Callers, Idle
  <2>2. HasLoop(frames, "brick") /\ ~HasLoop(frames', "brick") /\ OnceLoop(frames', "brick")
    BY <1>1, <2>1, Unwound, LoopIs
  <2> QED BY <1>1, <1>4, <2>1, <2>2
<1>7. CASE ~DoBrick /\ ~EndBrick
  <2>1. /\ HasLoop(frames', "brick") <=> HasLoop(frames, "brick")
        /\ OnceLoop(frames', "brick")
    <3>1. CASE frames' = frames
      BY <1>1, <3>1
    <3>2. CASE frames' = Enter("run") \/ frames' = Enter("reset")
      BY <1>1, <3>2, Entered
    <3>3. CASE frames' = Leave({"run", "reset"}) \/ frames' = Leave({"brick"})
      BY <1>1, <3>3, Telling
    <3>4. CASE EndRun \/ EndReset
      BY <1>1, <3>4, Unwound DEF EndRun, EndReset
    <3> QED BY <1>7, <3>1, <3>2, <3>3, <3>4, StackMoves
  <2>2. caller'.at = "brick" <=> caller.at = "brick" \/ ResetBrick
    <3>1. CallRun \/ CallAbort \/ CallDirect => caller.at # "brick" /\ caller'.at # "brick"
      BY DEF CallRun, CallAbort, CallDirect, Idle
    <3>2. ResetBrick => caller'.at = "brick"
      BY <1>1 DEF ResetBrick, Callers
    <3> QED BY <1>2, <1>7, <3>1, <3>2, CallerMoves
  <2> QED BY <1>1, <1>2, <1>4, <1>7, <2>1, <2>2
<1> QED BY <1>5, <1>6, <1>7

-----------------------------------------------------------------------------
(* The theorems                                                            *)

LEMMA InitInd == Init => IndInv
<1> SUFFICES ASSUME Init PROVE IndInv
  OBVIOUS
<1>1. queue \in Seq(Event) /\ frames \in Seq(Frame)
  BY EmptySeq DEF Init
<1>2. caller \in Callers /\ CallerInStep /\ caller.at = "idle"
  BY DEF Init, Idle, Callers, CallerInStep
<1>3. TypeOK
  <2>1. nextId \in 1..(MaxScripts + 1) /\ quits \in 0..MaxQuits
    BY WorkerAssumption DEF Init
  <2>2. /\ state = "ready" /\ stopAt = "out" /\ workerAt = "out" /\ scriptId \in Ids \cup {None}
        /\ program \in Ids \cup {None} /\ {resetting, eventDriven, engine} \subseteq BOOLEAN
        /\ ran \subseteq Ids /\ completed \subseteq Ids \cup {None}
    BY DEF Init
  <2> QED BY <1>1, <1>2, <2>1, <2>2 DEF TypeOK
<1>4. LoopsInStep /\ BrickInStep
  BY <1>2 DEF Init, LoopsInStep, BrickInStep, HasLoop, Waits, Told, OnceLoop, HasKind, OnceKind
<1>5. StartInStep /\ StopIsUnderWay /\ DirectInStep
  BY <1>2 DEF Init, StartInStep, StopIsUnderWay, DirectInStep, HasKind, OnceKind, Before, HasLoop, Making
<1> QED BY <1>2, <1>3, <1>4, <1>5 DEF IndInv, Typed

LEMMA NextInd == IndInv /\ [Next]_vars => IndInv'
<1> SUFFICES ASSUME IndInv, [Next]_vars PROVE IndInv'
  OBVIOUS
<1>1. Typed /\ LoopsInStep /\ StartInStep /\ StopIsUnderWay /\ BrickInStep /\ DirectInStep
  BY DEF IndInv
<1>2. Typed' /\ LoopsInStep' /\ StartInStep' /\ StopIsUnderWay' /\ BrickInStep' /\ DirectInStep'
  BY <1>1, TypedKept, LoopsKept, StartKept, StopStays, BrickKept, DirectKept
<1> QED BY <1>2 DEF IndInv

LEMMA Inductive == Spec => []IndInv
BY InitInd, NextInd, PTL DEF Spec

(* Every variable keeps its type.                                          *)
THEOREM TypeCorrect == Spec => []TypeOK
<1>1. IndInv => TypeOK
  BY DEF IndInv, Typed
<1> QED BY <1>1, Inductive, PTL

LEMMA AtMostOne ==
  ASSUME NEW S, \A x, y \in S : x = y
  PROVE  IsFiniteSet(S) /\ Cardinality(S) = IF S = {} THEN 0 ELSE 1
<1>1. CASE S = {}
  BY <1>1, FS_EmptySet
<1>2. CASE S # {}
  <2>1. PICK x \in S : S = {x}
    BY <1>2
  <2> QED BY <1>2, <2>1, FS_Singleton
<1> QED BY <1>1, <1>2

(* Types, event loops, stops and callers keep together through every        *)
(* nesting of run, runDirect, stopScript, resetBrick and quit.              *)
THEOREM KeepTogether == Spec => []Consistent
<1>1. ASSUME IndInv PROVE Consistent
  <2>1. TypeOK /\ LoopsInStep /\ StopIsUnderWay /\ BrickInStep
    BY <1>1 DEF IndInv, Typed
  <2>2. LoopsConsistent
    <3>1. Cardinality(Loops("reset")) <= 1
      <4>1. \A i, j \in Loops("reset") : i = j
        BY <2>1 DEF LoopsInStep, OnceLoop, Loops
      <4> QED BY <4>1, AtMostOne
    <3>2. /\ program # None => Loops("run") # {}
          /\ \A i \in Loops("run") \cup Loops("reset") : ~frames[i].left => program # None
          /\ resetting <=> Loops("reset") # {}
      BY <2>1 DEF LoopsInStep, Waits, HasLoop, Loops
    <3> QED BY <3>1, <3>2 DEF LoopsConsistent
  <2>3. StoppedIsAborted
    BY <2>1 DEF StopIsUnderWay, HasKind, StoppedIsAborted, Queued
  <2>4. CallerIsAwaited
    <3>1. /\ \A i, j \in Queued("brick") : i = j
          /\ \A i, j \in Loops("brick") : i = j
      BY <2>1 DEF BrickInStep, OnceKind, OnceLoop, Queued, Loops
    <3>2. /\ Cardinality(Queued("brick")) = IF Queued("brick") = {} THEN 0 ELSE 1
          /\ Cardinality(Loops("brick")) = IF Loops("brick") = {} THEN 0 ELSE 1
      BY <3>1, AtMostOne
    <3>3. /\ Queued("brick") = {} <=> ~HasKind(queue, "brick")
          /\ Loops("brick") = {} <=> ~HasLoop(frames, "brick")
      BY DEF Queued, Loops, HasKind, HasLoop
    <3> QED BY <2>1, <3>2, <3>3 DEF BrickInStep, CallerIsAwaited
  <2> QED BY <2>1, <2>2, <2>3, <2>4 DEF Consistent
<1> QED BY <1>1, Inductive, PTL

(* The worker that has nothing to do is not starting a script, has no       *)
(* program and is not resetting.                                           *)
THEOREM IdleIsQuiet == Spec => []QuietWhenIdle
<1>1. ASSUME IndInv, queue = <<>>, frames = <<>>, workerAt = "out"
      PROVE  state # "starting" /\ program = None /\ ~resetting
  <2>1. ~HasKind(queue, "run") /\ ~Waits(frames, "run") /\ ~HasLoop(frames, "reset")
    BY <1>1 DEF HasKind, Waits, HasLoop
  <2> QED BY <1>1, <2>1 DEF IndInv, LoopsInStep, StartInStep, Making
<1>2. IndInv => QuietWhenIdle
  BY <1>1 DEF QuietWhenIdle
<1> QED BY <1>2, Inductive, PTL
=============================================================================
