---------------------------- MODULE PythonProofs ----------------------------
(***************************************************************************)
(* Theorems about running and stopping programs through TrikScriptRunner,   *)
(* for every number of scripts, messages and calls. Each fact that a step   *)
(* keeps has a lemma of its own; besides the types, none needs another.     *)
(***************************************************************************)
EXTENDS PythonProperties, SequenceTheorems, TLAPS

Has(s, x) == \E i \in DOMAIN s : s[i] = x

(* mState is stopping only while the stop that made it so has still to make *)
(* it ready, and starting only while the run that made it so is queued.     *)
StopGoesOn == mState = "stopping" => Has(gui, <<"setReady">>)
RunIsQueued == mState = "starting" => \E i \in DOMAIN queue : IsRun(queue[i])

(* mState is running only while a run is in doRun whose program has not     *)
(* ended, or where TRIK.py is missing.                                      *)
Alive(fs) == \E i \in DOMAIN fs : IsRun(fs[i].id) /\ fs[i].pc \notin {"flush", "finish"}
RunningIsRun == mState = "running" => Alive(frames) \/ ~trikPy

(* A brick that is driven will be reset: the program, its completion or the *)
(* reset itself is still to come.                                           *)
ResetToCome ==
  driven => frames # <<>> \/ Has(events, "completed") \/ Has(gui, <<"resetBrick">>)

(* A JavaScript program is the last runner's, or its stop is on its way, or *)
(* an autocompletion query has put another runner before it.                *)
StopToCome ==
  /\ Has(gui, <<"jsStart">>) => last = "js"
  /\ js => last = "js" \/ asked \/ Has(gui, <<"jsStop">>)

(* While an interrupt is pending, every program that has its context was    *)
(* there when it was sent.                                                  *)
InterruptIsTheirs ==
  interrupt =>
    \A i \in DOMAIN frames :
      IsRun(frames[i].id) /\ frames[i].pc # "context" => frames[i].id \in aimed

(* The frames of before, each where it was or further: none is back at its  *)
(* beginning, and none has become another script's.                         *)
Moved(fs, gs) ==
  /\ gs \in Seq(Frame) /\ DOMAIN gs = DOMAIN fs
  /\ gs = <<>> <=> fs = <<>>
  /\ \A i \in DOMAIN fs : gs[i].id = fs[i].id /\ (gs[i].pc # "context" => fs[i].pc # "context")

-----------------------------------------------------------------------------
(* What the provers need of sequences.                                     *)

LEMMA HeadAndTail ==
  ASSUME NEW S, NEW s \in Seq(S), s # <<>>
  PROVE  /\ Head(s) \in S /\ Tail(s) \in Seq(S)
         /\ Has(s, Head(s))
         /\ \A x : Has(Tail(s), x) => Has(s, x)
         /\ \A x : Has(s, x) => x = Head(s) \/ Has(Tail(s), x)
<1>1. /\ Head(s) \in S /\ Tail(s) \in Seq(S) /\ Head(s) = s[1]
      /\ Len(Tail(s)) = Len(s) - 1
      /\ \A i \in 1..Len(Tail(s)) : Tail(s)[i] = s[i + 1]
  BY HeadTailProperties
<1>2. /\ DOMAIN s = 1..Len(s) /\ Len(s) \in Nat \ {0}
      /\ DOMAIN Tail(s) = 1..(Len(s) - 1)
  BY <1>1, EmptySeq, LenProperties
<1>3. ASSUME NEW x, Has(Tail(s), x) PROVE Has(s, x)
  BY <1>1, <1>2, <1>3 DEF Has
<1>4. ASSUME NEW x, Has(s, x), x # Head(s) PROVE Has(Tail(s), x)
  <2>1. PICK i \in DOMAIN s : s[i] = x
    BY <1>4 DEF Has
  <2>2. i - 1 \in DOMAIN Tail(s) /\ Tail(s)[i - 1] = s[i]
    BY <1>1, <1>2, <1>4, <2>1
  <2> QED BY <2>1, <2>2 DEF Has
<1> QED BY <1>1, <1>2, <1>3, <1>4 DEF Has

LEMMA Appended ==
  ASSUME NEW S, NEW s \in Seq(S), NEW x \in S
  PROVE  /\ Append(s, x) \in Seq(S)
         /\ Append(s, x) # <<>>
         /\ DOMAIN Append(s, x) = 1..(Len(s) + 1)
         /\ DOMAIN s = 1..Len(s) /\ Len(s) \in Nat
         /\ \A i \in 1..Len(s) : Append(s, x)[i] = s[i]
         /\ Append(s, x)[Len(s) + 1] = x
         /\ Has(Append(s, x), x)
         /\ \A y : Has(s, y) => Has(Append(s, x), y)
<1>1. /\ Append(s, x) \in Seq(S) /\ Append(s, x) # <<>>
      /\ DOMAIN Append(s, x) = 1..(Len(s) + 1)
      /\ DOMAIN s = 1..Len(s) /\ Len(s) \in Nat
      /\ \A i \in 1..Len(s) : Append(s, x)[i] = s[i]
      /\ Append(s, x)[Len(s) + 1] = x
  BY AppendProperties, LenProperties
<1> QED BY <1>1 DEF Has

LEMMA Joined ==
  ASSUME NEW S, NEW s \in Seq(S), NEW t \in Seq(S)
  PROVE  /\ s \o t \in Seq(S)
         /\ \A x : Has(s \o t, x) <=> Has(s, x) \/ Has(t, x)
<1>1. /\ s \o t \in Seq(S)
      /\ DOMAIN s = 1..Len(s) /\ Len(s) \in Nat
      /\ DOMAIN t = 1..Len(t) /\ Len(t) \in Nat
      /\ DOMAIN (s \o t) = 1..(Len(s) + Len(t))
      /\ \A i \in 1..(Len(s) + Len(t)) :
           (s \o t)[i] = IF i <= Len(s) THEN s[i] ELSE t[i - Len(s)]
  BY ConcatProperties, LenProperties
<1>2. ASSUME NEW x, Has(s, x) PROVE Has(s \o t, x)
  BY <1>1, <1>2 DEF Has
<1>3. ASSUME NEW x, Has(t, x) PROVE Has(s \o t, x)
  <2>1. PICK i \in DOMAIN t : t[i] = x
    BY <1>3 DEF Has
  <2>2. /\ Len(s) + i \in DOMAIN (s \o t) /\ ~(Len(s) + i <= Len(s))
        /\ (Len(s) + i) - Len(s) = i
    BY <1>1
  <2> QED BY <1>1, <2>1, <2>2 DEF Has
<1>4. ASSUME NEW x, Has(s \o t, x) PROVE Has(s, x) \/ Has(t, x)
  <2>1. PICK i \in DOMAIN (s \o t) : (s \o t)[i] = x
    BY <1>4 DEF Has
  <2>2. CASE i <= Len(s)
    BY <1>1, <2>1, <2>2 DEF Has
  <2>3. CASE ~(i <= Len(s))
    <3>1. i - Len(s) \in DOMAIN t /\ t[i - Len(s)] = x
      BY <1>1, <2>1, <2>3
    <3> QED BY <3>1 DEF Has
  <2> QED BY <2>2, <2>3
<1> QED BY <1>1, <1>2, <1>3, <1>4

LEMMA WithoutLast ==
  ASSUME NEW S, NEW s \in Seq(S), s # <<>>
  PROVE  /\ Len(s) \in DOMAIN s
         /\ Front(s) \in Seq(S)
         /\ DOMAIN s = 1..Len(s) /\ DOMAIN Front(s) = 1..(Len(s) - 1) /\ Len(s) \in Nat
         /\ \A i \in DOMAIN Front(s) : i \in DOMAIN s /\ Front(s)[i] = s[i]
<1>1. Len(s) \in Nat /\ Len(s) # 0 /\ DOMAIN s = 1..Len(s)
  BY EmptySeq, LenProperties
<1>2. \A i \in 1..(Len(s) - 1) : s[i] \in S
  BY <1>1, ElementOfSeq
<1>3. /\ SubSeq(s, 1, Len(s) - 1) \in Seq(S)
      /\ Len(SubSeq(s, 1, Len(s) - 1)) = Len(s) - 1
      /\ \A i \in 1..(Len(s) - 1) : SubSeq(s, 1, Len(s) - 1)[i] = s[i]
  BY <1>1, <1>2, SubSeqProperties
<1>4. DOMAIN SubSeq(s, 1, Len(s) - 1) = 1..(Len(s) - 1)
  BY <1>3, LenProperties
<1> QED BY <1>1, <1>3, <1>4 DEF Front

LEMMA SameLength ==
  ASSUME NEW S, NEW s \in Seq(S), NEW t, DOMAIN t = DOMAIN s,
         t = [i \in DOMAIN s |-> t[i]], \A i \in DOMAIN s : t[i] \in S
  PROVE  t \in Seq(S) /\ Len(t) = Len(s) /\ (t = <<>> <=> s = <<>>)
<1>1. DOMAIN s = 1..Len(s) /\ Len(s) \in Nat
  BY LenProperties
<1>2. t \in [1..Len(s) -> S]
  BY <1>1
<1>3. t \in Seq(S) /\ Len(t) = Len(s)
  BY <1>1, <1>2, SeqDef, LenProperties
<1> QED BY <1>3, EmptySeq

LEMMA OneStep ==
  ASSUME NEW x
  PROVE  DOMAIN <<x>> = {1} /\ <<x>>[1] = x /\ \A y : Has(<<x>>, y) <=> y = x
BY DEF Has

-----------------------------------------------------------------------------
(* What the steps do to the frames.                                        *)

LEMMA WokenMoves ==
  ASSUME NEW fs \in Seq(Frame), NEW call
  PROVE  Moved(fs, Woken(fs, call))
<1> DEFINE gs == Woken(fs, call)
<1>1. DOMAIN gs = DOMAIN fs /\ gs = [i \in DOMAIN fs |-> gs[i]]
  BY DEF Woken
<1>2. ASSUME NEW i \in DOMAIN fs
      PROVE  gs[i] \in Frame /\ gs[i].id = fs[i].id /\ gs[i].pc = fs[i].pc
  <2>1. fs[i] \in Frame
    BY ElementOfSeq, LenProperties
  <2> QED BY <2>1 DEF Woken, Frame
<1> HIDE DEF gs
<1>3. gs \in Seq(Frame) /\ (gs = <<>> <=> fs = <<>>)
  BY <1>1, <1>2, SameLength
<1> QED BY <1>1, <1>2, <1>3 DEF Moved, gs

LEMMA LastReplaced ==
  ASSUME NEW fs \in Seq(Frame), fs # <<>>, NEW f \in Frame, f.id = fs[Len(fs)].id
  PROVE  LET gs == [fs EXCEPT ![Len(fs)] = f]
         IN /\ gs \in Seq(Frame) /\ DOMAIN gs = DOMAIN fs /\ gs # <<>>
            /\ \A i \in DOMAIN fs : gs[i].id = fs[i].id
            /\ \A i \in DOMAIN fs : i # Len(fs) => gs[i] = fs[i]
            /\ gs[Len(fs)] = f
            /\ (f.pc # "context" => fs[Len(fs)].pc # "context") => Moved(fs, gs)
<1> DEFINE gs == [fs EXCEPT ![Len(fs)] = f]
<1>1. Len(fs) \in DOMAIN fs
  BY WithoutLast
<1>2. DOMAIN gs = DOMAIN fs /\ gs = [i \in DOMAIN fs |-> gs[i]]
  OBVIOUS
<1>3. \A i \in DOMAIN fs : gs[i] = IF i = Len(fs) THEN f ELSE fs[i]
  BY <1>1
<1>4. \A i \in DOMAIN fs : gs[i] \in Frame
  BY <1>3, ElementOfSeq, LenProperties
<1> HIDE DEF gs
<1>5. gs \in Seq(Frame) /\ gs # <<>>
  BY <1>2, <1>4, SameLength
<1>6. /\ gs \in Seq(Frame) /\ DOMAIN gs = DOMAIN fs /\ gs # <<>>
      /\ \A i \in DOMAIN fs : gs[i].id = fs[i].id
      /\ \A i \in DOMAIN fs : i # Len(fs) => gs[i] = fs[i]
      /\ gs[Len(fs)] = f
      /\ (f.pc # "context" => fs[Len(fs)].pc # "context") => Moved(fs, gs)
  BY <1>1, <1>2, <1>3, <1>5 DEF Moved
<1> QED BY <1>6 DEF gs

LEMMA FramesGo ==
  ASSUME frames \in Seq(Frame), frames # <<>>, NEW pc \in Places, Goes(pc)
  PROVE  /\ frames' \in Seq(Frame) /\ DOMAIN frames' = DOMAIN frames /\ frames' # <<>>
         /\ \A i \in DOMAIN frames : frames'[i].id = frames[i].id
         /\ \A i \in DOMAIN frames : i # Len(frames) => frames'[i] = frames[i]
         /\ (pc = "context" \/ Top.pc # "context") => Moved(frames, frames')
<1> DEFINE f == [Top EXCEPT !.pc = pc]
<1>1. Top \in Frame
  BY WithoutLast, ElementOfSeq, LenProperties DEF Top
<1>2. f \in Frame /\ f.id = Top.id /\ f.pc = pc
  BY <1>1 DEF Frame
<1>3. frames' = [frames EXCEPT ![Len(frames)] = f]
  BY DEF Goes, Top
<1> HIDE DEF f
<1> QED BY <1>2, <1>3, LastReplaced DEF Top

(* The steps of a frame that has its context, and the signals to the loops. *)
LEMMA FramesMove ==
  ASSUME frames \in Seq(Frame),
         \/ Start \/ EvaluationEnds \/ Interrupted \/ Ended \/ Released \/ Connect \/ Return
         \/ \E call \in Calls \ {"none"} : Call(call)
         \/ WakeMail \/ SetReady
  PROVE  Moved(frames, frames')
<1>1. frames # <<>> => Top \in Frame
  BY WithoutLast, ElementOfSeq, LenProperties DEF Top
<1>2. CASE Start \/ EvaluationEnds \/ Interrupted \/ Ended \/ Connect
  BY <1>2, FramesGo DEF Start, EvaluationEnds, Interrupted, Ended, Connect, At, Places
<1>3. CASE Released
  <2>1. frames # <<>> /\ Top.pc # "context"
    BY <1>3 DEF Released, At
  <2>2. CASE ~IsRun(Top.id)
    BY <1>3, <2>1, <2>2, FramesGo DEF Released, Places
  <2>3. CASE IsRun(Top.id)
    <3> DEFINE fs == Woken(frames, "sleep")
               f == [fs[Len(fs)] EXCEPT !.pc = "finish"]
    <3>1. Moved(frames, fs)
      BY WokenMoves
    <3>2. fs \in Seq(Frame) /\ fs # <<>> /\ Len(fs) = Len(frames)
      BY <2>1, <3>1, LenProperties DEF Moved
    <3>3. frames' = [fs EXCEPT ![Len(fs)] = f]
      BY <1>3, <2>3, <3>2 DEF Released
    <3> HIDE DEF fs
    <3>4. fs[Len(fs)] \in Frame
      BY <3>2, WithoutLast, ElementOfSeq, LenProperties
    <3>5. f \in Frame /\ f.id = fs[Len(fs)].id
      BY <3>4 DEF Frame, Places
    <3>6. fs[Len(fs)].pc = Top.pc
      <4>1. Len(frames) \in DOMAIN frames
        BY <2>1, WithoutLast
      <4> QED BY <3>2, <4>1 DEF fs, Woken, Top
    <3> HIDE DEF f
    <3>7. Moved(fs, frames')
      BY <2>1, <3>2, <3>3, <3>5, <3>6, LastReplaced
    <3> QED BY <3>1, <3>7 DEF Moved
  <2> QED BY <2>2, <2>3
<1>4. CASE Return
  <2> DEFINE f == [Top EXCEPT !.pc = "eval", !.call = "none", !.woken = FALSE]
  <2>1. frames # <<>> /\ Top.pc # "context"
    BY <1>4 DEF Return, At
  <2>2. f \in Frame /\ f.id = Top.id
    BY <1>1, <2>1 DEF Frame, Places, Calls
  <2>3. frames' = [frames EXCEPT ![Len(frames)] = f]
    BY <1>4, <2>1, WithoutLast DEF Return, Top
  <2> HIDE DEF f
  <2> QED BY <2>1, <2>2, <2>3, LastReplaced DEF Top
<1>5. ASSUME NEW call \in Calls \ {"none"}, Call(call)
      PROVE  Moved(frames, frames')
  <2> DEFINE f == [Top EXCEPT !.pc = "calling", !.call = call]
  <2>1. frames # <<>> /\ Top.pc # "context"
    BY <1>5 DEF Call, At
  <2>2. f \in Frame /\ f.id = Top.id
    BY <1>1, <2>1 DEF Frame, Places
  <2>3. frames' = [frames EXCEPT ![Len(frames)] = f]
    BY <1>5, <2>1, WithoutLast DEF Call, Top
  <2> HIDE DEF f
  <2> QED BY <2>1, <2>2, <2>3, LastReplaced DEF Top
<1>6. CASE WakeMail \/ SetReady
  BY <1>6, WokenMoves DEF WakeMail, SetReady
<1> QED BY <1>2, <1>3, <1>4, <1>5, <1>6

-----------------------------------------------------------------------------
(* The GUI thread's lists of steps.                                        *)

LEMMA StepsOf ==
  ASSUME TypeOK
  PROVE  /\ StopChain \in Seq(Steps)
         /\ \A language \in Languages :
              /\ RunnerAbort(language) \in Seq(Steps)
              /\ Has(RunnerAbort(language), <<"resetBrick">>)
              /\ ~Has(RunnerAbort(language), <<"jsStart">>)
              /\ Has(RunnerAbort(language), <<"jsStop">>) <=> language = "js"
         /\ Has(StopChain, <<"setReady">>)
         /\ ~Has(StopChain, <<"jsStart">>)
BY DEF StopChain, RunnerAbort, Languages, Steps, Has

LEMMA RunStepsOf ==
  ASSUME TypeOK, NEW language \in Languages, NEW steps \in Seq(Steps)
  PROVE  /\ RunSteps(language, steps) \in Seq(Steps)
         /\ last = "js" => Has(RunSteps(language, steps), <<"jsStop">>)
         /\ Has(RunSteps(language, steps), <<"jsStart">>) => Has(steps, <<"jsStart">>)
<1> DEFINE other == IF last # language THEN RunnerAbort(language) ELSE <<>>
           first == RunnerAbort(last)
<1>1. last \in Languages
  BY DEF TypeOK
<1>2. /\ other \in Seq(Steps) /\ first \in Seq(Steps)
      /\ ~Has(other, <<"jsStart">>) /\ ~Has(first, <<"jsStart">>)
      /\ last = "js" => Has(first, <<"jsStop">>)
  BY <1>1, StepsOf DEF Has
<1> HIDE DEF first, other
<1>3. /\ first \o other \in Seq(Steps)
      /\ \A x : Has(first \o other, x) <=> Has(first, x) \/ Has(other, x)
  BY <1>2, Joined
<1>4. /\ (first \o other) \o steps \in Seq(Steps)
      /\ \A x : Has((first \o other) \o steps, x) <=> Has(first \o other, x) \/ Has(steps, x)
  BY <1>3, Joined
<1>5. RunSteps(language, steps) = (first \o other) \o steps
  BY DEF RunSteps, first, other
<1> QED BY <1>2, <1>3, <1>4, <1>5

-----------------------------------------------------------------------------
(* The types                                                               *)

LEMMA InitTypes == Init => TypeOK
<1> SUFFICES ASSUME Init PROVE TypeOK
  OBVIOUS
<1>1. /\ queue \in Seq(Scripts) /\ frames \in Seq(Frame)
      /\ gui \in Seq(Steps) /\ events \in Seq({"completed", "mail"})
  BY EmptySeq DEF Init
<1>2. /\ delivered \in 0 .. MaxMail /\ mail \in 0 .. delivered
      /\ issued \in 0 .. MaxScripts /\ calls \in 0 .. MaxCalls
  BY PythonAssumption, RunnerAssumption DEF Init
<1>3. {interrupt, hadError, driven, js, asked, trikPy} \subseteq BOOLEAN
  BY DEF Init
<1> QED BY <1>1, <1>2, <1>3 DEF Init, TypeOK, Languages

LEMMA TrikPyStays == [Next]_vars => trikPy' = trikPy
BY DEF Next, Users, RunPython, RunJavaScript, Abort, RunDirectCommand, KnownMethodNamesFor,
  JsStop, JsStart, JsEnds, ServeEvent, runnerVars, vars

LEMMA NextTypes == TypeOK /\ [Next]_vars => TypeOK'
<1> SUFFICES ASSUME TypeOK, [Next]_vars PROVE TypeOK'
  OBVIOUS
<1> USE PythonAssumption, RunnerAssumption DEF workerVars, interp, world, runnerVars
<1>1. /\ frames \in Seq(Frame) /\ queue \in Seq(Scripts) /\ gui \in Seq(Steps)
      /\ events \in Seq({"completed", "mail"})
      /\ interrupt \in BOOLEAN /\ hadError \in BOOLEAN /\ driven \in BOOLEAN
      /\ js \in BOOLEAN /\ asked \in BOOLEAN /\ trikPy' \in BOOLEAN
      /\ delivered \in 0 .. MaxMail /\ mail \in 0 .. delivered
      /\ aimed \subseteq Scripts /\ issued \in 0 .. MaxScripts /\ calls \in 0 .. MaxCalls
      /\ last \in Languages
      /\ mState \in {"ready", "starting", "stopping", "running"}
  BY TrikPyStays DEF TypeOK
<1>2. \A e \in {"completed", "mail"} : Append(events, e) \in Seq({"completed", "mail"})
  BY <1>1, Appended
<1>3. gui # <<>> => Head(gui) \in Steps /\ Tail(gui) \in Seq(Steps)
  BY <1>1, HeadAndTail
<1>4. frames # <<>> => Front(frames) \in Seq(Frame) /\ Top \in Frame
  BY <1>1, WithoutLast, ElementOfSeq, LenProperties DEF Top
<1>5. CASE UNCHANGED vars
  BY <1>5 DEF vars, TypeOK
<1>6. ASSUME BeginRun \/ BeginDirect, UNCHANGED <<gui, runnerVars>>
      PROVE  TypeOK'
  <2>1. queue # <<>> /\ queue' = Tail(queue) /\ frames' = Append(frames, NewFrame(Head(queue)))
    BY <1>6 DEF BeginRun, BeginDirect
  <2>2. Head(queue) \in Scripts /\ queue' \in Seq(Scripts)
    BY <1>1, <2>1, HeadAndTail
  <2>3. NewFrame(Head(queue)) \in Frame
    BY <2>2 DEF NewFrame, Frame, Calls, Places
  <2>4. frames' \in Seq(Frame)
    BY <1>1, <2>1, <2>3, Appended
  <2> QED BY <1>1, <1>6, <2>2, <2>4 DEF BeginRun, BeginDirect, TypeOK
<1>7. ASSUME RecreateContext, UNCHANGED <<gui, runnerVars>>
      PROVE  TypeOK'
  <2>1. frames' \in Seq(Frame)
    BY <1>1, <1>7, FramesGo DEF RecreateContext, At, Places
  <2> QED BY <1>1, <1>7, <2>1 DEF RecreateContext, NoInterrupt, TypeOK
<1>8. ASSUME ContextFails \/ Finish, UNCHANGED <<gui, runnerVars>>
      PROVE  TypeOK'
  BY <1>1, <1>2, <1>4, <1>8 DEF ContextFails, Finish, At, TypeOK
<1>9. ASSUME \/ Start \/ EvaluationEnds \/ Interrupted \/ Ended \/ Released \/ Connect \/ Return
             \/ \E call \in Calls \ {"none"} : Call(call),
             UNCHANGED <<gui, runnerVars>>
      PROVE  TypeOK'
  <2>1. frames' \in Seq(Frame)
    BY <1>1, <1>9, FramesMove DEF Moved
  <2>2. /\ queue' = queue /\ events' = events /\ delivered' = delivered /\ driven' = driven
        /\ mState' \in {mState, "ready"}
        /\ interrupt' \in {interrupt, FALSE} /\ aimed' \in {aimed, {}}
        /\ hadError' \in BOOLEAN
    BY <1>1, <1>9 DEF Start, EvaluationEnds, Interrupted, Ended, Released, Connect, Return, Call, NoInterrupt
  <2>3. mail' = mail \/ (mail > 0 /\ mail' = mail - 1)
    BY <1>9 DEF Start, EvaluationEnds, Interrupted, Ended, Released, Connect, Return, Call
  <2>4. mail' \in 0 .. delivered'
    BY <1>1, <2>2, <2>3
  <2> QED BY <1>1, <1>9, <2>1, <2>2, <2>4 DEF TypeOK
<1>10. ASSUME Drive \/ TakeMessage \/ MailArrives, UNCHANGED <<gui, runnerVars>>
       PROVE  TypeOK'
  <2>1. delivered' \in 0 .. MaxMail /\ mail' \in 0 .. delivered'
    BY <1>1, <1>10 DEF Drive, TakeMessage, MailArrives
  <2>2. events' \in Seq({"completed", "mail"})
    BY <1>1, <1>2, <1>10 DEF Drive, TakeMessage, MailArrives
  <2>3. driven' \in BOOLEAN
    BY <1>1, <1>10 DEF Drive, TakeMessage, MailArrives
  <2> QED BY <1>1, <1>10, <2>1, <2>2, <2>3 DEF Drive, TakeMessage, MailArrives, TypeOK
<1>11. ASSUME StopScript, UNCHANGED runnerVars
       PROVE  TypeOK'
  <2>1. gui # <<>> /\ gui' \in {Tail(gui), StopChain \o Tail(gui)}
    BY <1>11 DEF StopScript
  <2>2. StopChain \o Tail(gui) \in Seq(Steps)
    BY <1>3, <2>1, StepsOf, Joined
  <2> QED BY <1>1, <1>3, <1>11, <2>1, <2>2 DEF StopScript, TypeOK
<1>12. ASSUME Interrupt, UNCHANGED runnerVars
       PROVE  TypeOK'
  <2>1. \A i \in DOMAIN frames : frames[i] \in Frame
    BY <1>1, ElementOfSeq, LenProperties
  <2>2. \A i \in DOMAIN queue : queue[i] \in Scripts
    BY <1>1, ElementOfSeq, LenProperties
  <2>3. aimed' \subseteq Scripts
    BY <1>12, <2>1, <2>2 DEF Interrupt, Range, Frame
  <2> QED BY <1>1, <1>3, <1>12, <2>3 DEF Interrupt, Does, TypeOK
<1>13. ASSUME WakeMail \/ SetReady, UNCHANGED runnerVars
       PROVE  TypeOK'
  <2>1. frames' \in Seq(Frame)
    BY <1>1, <1>13, FramesMove DEF Moved
  <2> QED BY <1>1, <1>3, <1>13, <2>1 DEF WakeMail, SetReady, Does, TypeOK
<1>14. ASSUME ResetBrick, UNCHANGED runnerVars
       PROVE  TypeOK'
  <2>1. mail' \in 0 .. delivered' /\ driven' = FALSE
    BY <1>1, <1>14 DEF ResetBrick
  <2> QED BY <1>1, <1>3, <1>14, <2>1 DEF ResetBrick, Does, TypeOK
<1>15. ASSUME NEW s \in Scripts, Post(s), UNCHANGED runnerVars
       PROVE  TypeOK'
  <2>1. queue' \in Seq(Scripts)
    BY <1>1, <1>15, Appended DEF Post
  <2> QED BY <1>1, <1>3, <1>15, <2>1 DEF Post, TypeOK
<1>16. CASE JsStop \/ JsStart
  BY <1>1, <1>2, <1>3, <1>16 DEF JsStop, JsStart, Does, TypeOK
<1>17. CASE JsEnds
  BY <1>1, <1>2, <1>17 DEF JsEnds, TypeOK
<1>18. CASE ServeEvent
  <2>1. events' \in Seq({"completed", "mail"})
    BY <1>1, <1>18, HeadAndTail DEF ServeEvent
  <2>2. << <<"wakeMail">> >> \in Seq(Steps) /\ << <<"resetBrick">> >> \in Seq(Steps)
    BY DEF Steps
  <2> QED BY <1>1, <1>18, <2>1, <2>2 DEF ServeEvent, TypeOK
<1>19. CASE RunPython
  <2>1. <<"run", issued'>> \in Scripts /\ issued' \in 0 .. MaxScripts /\ calls' \in 0 .. MaxCalls
    BY <1>1, <1>19 DEF RunPython, Scripts
  <2>2. << <<"stop">>, <<"post", <<"run", issued'>> >> >> \in Seq(Steps)
    BY <2>1 DEF Steps
  <2>3. gui' \in Seq(Steps)
    BY <1>19, <2>2, RunStepsOf DEF RunPython, Languages
  <2> QED BY <1>1, <1>19, <2>1, <2>3 DEF RunPython, TypeOK, Languages
<1>20. CASE RunJavaScript
  <2>1. << <<"jsStop">>, <<"jsStart">> >> \in Seq(Steps)
    BY DEF Steps
  <2>2. gui' \in Seq(Steps)
    BY <1>20, <2>1, RunStepsOf DEF RunJavaScript, Languages
  <2> QED BY <1>1, <1>20, <2>2 DEF RunJavaScript, TypeOK, Languages
<1>21. CASE Abort
  BY <1>1, <1>21, StepsOf DEF Abort, TypeOK
<1>22. CASE RunDirectCommand
  <2>1. <<"direct", issued'>> \in Scripts /\ issued' \in 0 .. MaxScripts
    BY <1>1, <1>22 DEF RunDirectCommand, Scripts
  <2>2. gui' \in Seq(Steps)
    BY <1>22, <2>1 DEF RunDirectCommand, Steps
  <2> QED BY <1>1, <1>22, <2>1, <2>2 DEF RunDirectCommand, TypeOK
<1>23. CASE KnownMethodNamesFor
  BY <1>1, <1>23 DEF KnownMethodNamesFor, TypeOK, Languages
<1> QED
  BY <1>5, <1>6, <1>7, <1>8, <1>9, <1>10, <1>11, <1>12, <1>13, <1>14, <1>15, <1>16, <1>17, <1>18,
     <1>19, <1>20, <1>21, <1>22, <1>23
  DEF Next, ProgramActs, Progress, GuiStep, Users

-----------------------------------------------------------------------------
(* One lemma for each fact                                                 *)

(* A step of the GUI thread takes the head of its list, and nothing else.   *)
LEMMA StepTaken ==
  ASSUME TypeOK, NEW step, Does(step)
  PROVE  \A x \in Steps : Has(gui, x) => x[1] = step \/ Has(gui', x)
<1>1. gui \in Seq(Steps) /\ gui # <<>> /\ gui' = Tail(gui) /\ Head(gui)[1] = step
  BY DEF TypeOK, Does
<1> QED BY <1>1, HeadAndTail

LEMMA StopGoesOnKept == TypeOK /\ StopGoesOn /\ [Next]_vars => StopGoesOn'
<1> SUFFICES ASSUME TypeOK, StopGoesOn, [Next]_vars PROVE StopGoesOn'
  OBVIOUS
<1>1. <<"setReady">> \in Steps /\ <<"setReady">>[1] = "setReady"
  BY DEF Steps
<1>2. \A x : ~Has(<<>>, x)
  BY DEF Has
<1>3. ASSUME mState' = mState \/ mState' # "stopping", gui' = gui \/ gui = <<>>
      PROVE  StopGoesOn'
  BY <1>2, <1>3 DEF StopGoesOn
<1>4. CASE UNCHANGED vars
  BY <1>3, <1>4 DEF vars
<1>5. ASSUME ProgramActs \/ Progress, UNCHANGED <<gui, runnerVars>>
      PROVE  StopGoesOn'
  <2>1. mState' \in {mState, "ready", "running"}
    BY <1>5 DEF ProgramActs, Drive, EvaluationEnds, TakeMessage, Call, Progress, BeginRun,
      BeginDirect, RecreateContext, ContextFails, Start, Interrupted, Ended, Released, Finish,
      Connect, Return
  <2> QED BY <1>3, <1>5, <2>1
<1>6. ASSUME MailArrives, UNCHANGED <<gui, runnerVars>>
      PROVE  StopGoesOn'
  BY <1>3, <1>6 DEF MailArrives
<1>7. CASE StopScript
  <2>1. gui \in Seq(Steps) /\ gui # <<>> /\ Head(gui)[1] = "stop"
    BY <1>7 DEF StopScript, TypeOK
  <2>2. CASE mState \in {"ready", "stopping"}
    <3>1. \A x : Has(gui, x) => x = Head(gui) \/ Has(Tail(gui), x)
      BY <2>1, HeadAndTail
    <3> QED BY <1>1, <1>7, <2>1, <2>2, <3>1 DEF StopScript, StopGoesOn
  <2>3. CASE mState \notin {"ready", "stopping"}
    <3>1. Tail(gui) \in Seq(Steps) /\ StopChain \in Seq(Steps) /\ Has(StopChain, <<"setReady">>)
      BY <2>1, HeadAndTail, StepsOf
    <3>2. Has(StopChain \o Tail(gui), <<"setReady">>)
      BY <3>1, Joined
    <3> QED BY <1>7, <2>3, <3>2 DEF StopScript, StopGoesOn
  <2> QED BY <2>2, <2>3
<1>8. CASE SetReady
  BY <1>8 DEF SetReady, StopGoesOn
<1>9. ASSUME NEW s \in Scripts, Post(s) PROVE StopGoesOn'
  <2>1. /\ gui \in Seq(Steps) /\ gui # <<>> /\ Head(gui)[1] = "post" /\ gui' = Tail(gui)
        /\ mState' \in {mState, "starting"}
    BY <1>9 DEF Post, TypeOK
  <2>2. \A x : Has(gui, x) => x = Head(gui) \/ Has(Tail(gui), x)
    BY <2>1, HeadAndTail
  <2> QED BY <1>1, <2>1, <2>2 DEF StopGoesOn
<1>10. CASE Interrupt \/ WakeMail \/ ResetBrick \/ JsStop \/ JsStart
  <2>1. mState' = mState
    BY <1>10 DEF Interrupt, WakeMail, ResetBrick, JsStop, JsStart, workerVars
  <2>2. PICK step \in {"interrupt", "wakeMail", "resetBrick", "jsStop", "jsStart"} : Does(step)
    BY <1>10 DEF Interrupt, WakeMail, ResetBrick, JsStop, JsStart
  <2> QED BY <1>1, <2>1, <2>2, StepTaken DEF StopGoesOn
<1>11. CASE JsEnds
  BY <1>3, <1>11 DEF JsEnds
<1>12. CASE ServeEvent \/ Users
  <2>1. mState' = mState /\ gui = <<>>
    BY <1>12 DEF ServeEvent, Users, RunPython, RunJavaScript, Abort, RunDirectCommand,
      KnownMethodNamesFor, Idle, workerVars
  <2> QED BY <1>3, <2>1
<1> QED BY <1>4, <1>5, <1>6, <1>7, <1>8, <1>9, <1>10, <1>11, <1>12 DEF Next, GuiStep

LEMMA RunIsQueuedKept == TypeOK /\ RunIsQueued /\ [Next]_vars => RunIsQueued'
<1> SUFFICES ASSUME TypeOK, RunIsQueued, [Next]_vars PROVE RunIsQueued'
  OBVIOUS
<1>1. queue \in Seq(Scripts)
  BY DEF TypeOK
<1>2. ASSUME mState' = mState \/ mState' # "starting", queue' = queue
      PROVE  RunIsQueued'
  BY <1>2 DEF RunIsQueued
<1>3. CASE UNCHANGED vars
  BY <1>2, <1>3 DEF vars
<1>4. CASE BeginRun
  BY <1>4 DEF BeginRun, RunIsQueued
<1>5. CASE BeginDirect
  <2>1. queue # <<>> /\ ~IsRun(Head(queue)) /\ queue' = Tail(queue) /\ mState' = mState
    BY <1>5 DEF BeginDirect
  <2>2. \A x : Has(queue, x) => x = Head(queue) \/ Has(Tail(queue), x)
    BY <1>1, <2>1, HeadAndTail
  <2> QED BY <2>1, <2>2 DEF RunIsQueued, Has
<1>6. ASSUME NEW s \in Scripts, Post(s) PROVE RunIsQueued'
  <2>1. queue' = Append(queue, s) /\ mState' \in {mState, IF IsRun(s) THEN "starting" ELSE mState}
    BY <1>6 DEF Post
  <2>2. Has(Append(queue, s), s) /\ \A y : Has(queue, y) => Has(Append(queue, s), y)
    BY <1>1, Appended
  <2> QED BY <2>1, <2>2 DEF RunIsQueued, Has
<1>7. CASE ProgramActs
  BY <1>2, <1>7 DEF ProgramActs, Drive, EvaluationEnds, TakeMessage, Call
<1>8. CASE RecreateContext \/ ContextFails \/ Start \/ Interrupted \/ Ended \/ Released \/ Finish
           \/ Connect \/ Return
  BY <1>2, <1>8 DEF RecreateContext, ContextFails, Start, Interrupted, Ended, Released, Finish,
    Connect, Return
<1>9. CASE MailArrives \/ StopScript \/ Interrupt \/ WakeMail \/ SetReady \/ ResetBrick
  BY <1>2, <1>9 DEF MailArrives, StopScript, Interrupt, WakeMail, SetReady, ResetBrick
<1>10. CASE JsStop \/ JsStart \/ JsEnds \/ ServeEvent \/ Users
  BY <1>2, <1>10 DEF JsStop, JsStart, JsEnds, ServeEvent, Users, RunPython, RunJavaScript, Abort,
    RunDirectCommand, KnownMethodNamesFor, workerVars
<1> QED BY <1>3, <1>4, <1>5, <1>6, <1>7, <1>8, <1>9, <1>10 DEF Next, Progress, GuiStep

(* A signal to the loops leaves each frame where it is.                     *)
LEMMA WokenStaysAlive ==
  ASSUME NEW fs \in Seq(Frame), NEW call
  PROVE  Alive(fs) => Alive(Woken(fs, call))
<1>1. DOMAIN Woken(fs, call) = DOMAIN fs
  BY DEF Woken
<1>2. ASSUME NEW i \in DOMAIN fs
      PROVE  Woken(fs, call)[i].id = fs[i].id /\ Woken(fs, call)[i].pc = fs[i].pc
  <2>1. fs[i] \in Frame
    BY ElementOfSeq, LenProperties
  <2> QED BY <2>1 DEF Woken, Frame
<1> QED BY <1>1, <1>2 DEF Alive

LEMMA RunningIsRunKept == TypeOK /\ RunningIsRun /\ [Next]_vars => RunningIsRun'
<1> SUFFICES ASSUME TypeOK, RunningIsRun, [Next]_vars PROVE RunningIsRun'
  OBVIOUS
<1>1. /\ frames \in Seq(Frame) /\ queue \in Seq(Scripts) /\ trikPy' = trikPy
      /\ \A i \in DOMAIN frames : frames[i] \in Frame
      /\ frames # <<>> => Len(frames) \in DOMAIN frames /\ Top = frames[Len(frames)]
  BY TrikPyStays, WithoutLast, ElementOfSeq, LenProperties DEF TypeOK, Top
<1>2. ASSUME mState' = mState \/ mState' # "running", Alive(frames) => Alive(frames')
      PROVE  RunningIsRun'
  BY <1>1, <1>2 DEF RunningIsRun
<1>3. ASSUME NEW pc \in Places \ {"flush", "finish"}, frames # <<>>,
             \/ Goes(pc)
             \/ \E call \in Calls : frames' = [frames EXCEPT ![Len(frames)].pc = pc,
                                                            ![Len(frames)].call = call]
             \/ frames' = [frames EXCEPT ![Len(frames)].pc = pc, ![Len(frames)].call = "none",
                                          ![Len(frames)].woken = FALSE]
      PROVE  Alive(frames) => Alive(frames')
  <2>1. DOMAIN frames' = DOMAIN frames
    BY <1>3 DEF Goes
  <2>2. \A i \in DOMAIN frames :
          /\ frames'[i].id = frames[i].id
          /\ frames'[i].pc \in {frames[i].pc, pc}
    BY <1>1, <1>3 DEF Goes, Frame
  <2> QED BY <2>1, <2>2 DEF Alive
<1>4. CASE UNCHANGED vars
  BY <1>2, <1>4 DEF vars
<1>5. CASE BeginRun
  <2>1. Head(queue) \in Scripts /\ IsRun(Head(queue)) /\ frames' = Append(frames, NewFrame(Head(queue)))
    BY <1>1, <1>5, HeadAndTail DEF BeginRun
  <2>2. NewFrame(Head(queue)) \in Frame
    BY <2>1 DEF NewFrame, Frame, Calls, Places
  <2>3. Len(frames) + 1 \in DOMAIN frames' /\ frames'[Len(frames) + 1] = NewFrame(Head(queue))
    BY <1>1, <2>1, <2>2, Appended
  <2>4. Alive(frames')
    BY <2>1, <2>3 DEF Alive, NewFrame
  <2> QED BY <2>4 DEF RunningIsRun
<1>6. CASE BeginDirect
  <2>1. Head(queue) \in Scripts /\ frames' = Append(frames, NewFrame(Head(queue))) /\ mState' = mState
    BY <1>1, <1>6, HeadAndTail DEF BeginDirect
  <2>2. NewFrame(Head(queue)) \in Frame
    BY <2>1 DEF NewFrame, Frame, Calls, Places
  <2>3. \A i \in DOMAIN frames : i \in DOMAIN frames' /\ frames'[i] = frames[i]
    BY <1>1, <2>1, <2>2, Appended
  <2> QED BY <1>2, <2>1, <2>3 DEF Alive
<1>7. CASE \/ RecreateContext \/ Start \/ EvaluationEnds \/ Interrupted \/ Connect \/ Return
           \/ \E call \in Calls \ {"none"} : Call(call)
  <2>1. mState' = mState /\ frames # <<>>
    BY <1>7 DEF RecreateContext, Start, EvaluationEnds, Interrupted, Connect, Return, Call, At
  <2>2. CASE RecreateContext \/ Start \/ EvaluationEnds \/ Interrupted \/ Connect
    <3>1. PICK pc \in Places \ {"flush", "finish"} : Goes(pc)
      BY <2>2 DEF RecreateContext, Start, EvaluationEnds, Interrupted, Connect, Places
    <3> QED BY <1>2, <1>3, <2>1, <3>1
  <2>3. CASE Return
    <3>1. "eval" \in Places \ {"flush", "finish"}
      BY DEF Places
    <3> QED BY <1>2, <1>3, <2>1, <2>3, <3>1 DEF Return
  <2>4. ASSUME NEW call \in Calls \ {"none"}, Call(call)
        PROVE  RunningIsRun'
    <3>1. "calling" \in Places \ {"flush", "finish"}
      BY DEF Places
    <3> QED BY <1>2, <1>3, <2>1, <2>4, <3>1 DEF Call
  <2> QED BY <1>7, <2>2, <2>3, <2>4
<1>8. CASE ContextFails
  BY <1>1, <1>8 DEF ContextFails, RunningIsRun
<1>9. CASE Ended
  <2>1. CASE IsRun(Top.id)
    BY <1>9, <2>1 DEF Ended, RunningIsRun
  <2>2. CASE ~IsRun(Top.id)
    <3>1. frames # <<>> /\ DOMAIN frames' = DOMAIN frames /\ mState' = mState
      BY <1>9, <2>2 DEF Ended, At, Goes
    <3>2. \A i \in DOMAIN frames : i # Len(frames) => frames'[i] = frames[i]
      BY <1>9, <3>1 DEF Ended, Goes
    <3> QED BY <1>1, <1>2, <2>2, <3>1, <3>2 DEF Alive
  <2> QED BY <2>1, <2>2
<1>10. CASE Released
  <2>1. frames # <<>> /\ Top.pc = "flush" /\ mState' = mState
    BY <1>10 DEF Released, At
  <2>2. PICK fs \in {frames, Woken(frames, "sleep")} :
          frames' = [fs EXCEPT ![Len(frames)].pc = "finish"]
    <3>1. CASE IsRun(Top.id)
      <4>1. Len(Woken(frames, "sleep")) = Len(frames)
        BY <1>1, WokenMoves, LenProperties DEF Moved
      <4> QED BY <1>10, <3>1, <4>1 DEF Released
    <3>2. CASE ~IsRun(Top.id)
      BY <1>10, <3>2 DEF Released, Goes
    <3> QED BY <3>1, <3>2
  <2>3. Alive(frames) => Alive(fs)
    BY <1>1, WokenStaysAlive
  <2>4. DOMAIN fs = DOMAIN frames /\ fs[Len(frames)].pc = "flush"
    BY <1>1, <2>1 DEF Woken, Frame
  <2>5. DOMAIN frames' = DOMAIN fs /\ \A i \in DOMAIN fs : i # Len(frames) => frames'[i] = fs[i]
    BY <2>2
  <2> QED BY <1>2, <2>1, <2>3, <2>4, <2>5 DEF Alive
<1>11. CASE Finish
  <2>1. frames # <<>> /\ Top.pc = "finish" /\ mState' = mState /\ frames' = Front(frames)
    BY <1>11 DEF Finish, At
  <2>2. DOMAIN frames = 1 .. Len(frames) /\ Len(frames) \in Nat
        /\ DOMAIN frames' = 1 .. (Len(frames) - 1)
        /\ \A i \in DOMAIN frames' : frames'[i] = frames[i]
    BY <1>1, <2>1, WithoutLast
  <2> QED BY <1>1, <1>2, <2>1, <2>2 DEF Alive
<1>12. CASE Drive \/ TakeMessage \/ MailArrives
  BY <1>2, <1>12 DEF Drive, TakeMessage, MailArrives
<1>13. CASE StopScript \/ Interrupt \/ ResetBrick \/ SetReady \/ \E s \in Scripts : Post(s)
  <2>1. mState' = mState \/ mState' # "running"
    BY <1>13 DEF StopScript, Interrupt, ResetBrick, SetReady, Post
  <2>2. frames' \in {frames, Woken(frames, "sleep")}
    BY <1>13 DEF StopScript, Interrupt, ResetBrick, SetReady, Post
  <2> QED BY <1>1, <1>2, <2>1, <2>2, WokenStaysAlive
<1>14. CASE WakeMail
  BY <1>1, <1>2, <1>14, WokenStaysAlive DEF WakeMail
<1>15. CASE JsStop \/ JsStart \/ JsEnds \/ ServeEvent \/ Users
  BY <1>2, <1>15 DEF JsStop, JsStart, JsEnds, ServeEvent, Users, RunPython, RunJavaScript, Abort,
    RunDirectCommand, KnownMethodNamesFor, workerVars
<1> QED
  BY <1>4, <1>5, <1>6, <1>7, <1>8, <1>9, <1>10, <1>11, <1>12, <1>13, <1>14, <1>15
  DEF Next, ProgramActs, Progress, GuiStep

LEMMA ResetToComeKept == TypeOK /\ ResetToCome /\ [Next]_vars => ResetToCome'
<1> SUFFICES ASSUME TypeOK, ResetToCome, [Next]_vars PROVE ResetToCome'
  OBVIOUS
<1>1. /\ frames \in Seq(Frame) /\ gui \in Seq(Steps) /\ queue \in Seq(Scripts)
      /\ events \in Seq({"completed", "mail"})
  BY DEF TypeOK
<1>2. <<"resetBrick">> \in Steps /\ <<"resetBrick">>[1] = "resetBrick"
  BY DEF Steps
<1>3. \A e \in {"completed", "mail"} :
        /\ Has(Append(events, e), e)
        /\ \A x : Has(events, x) => Has(Append(events, e), x)
  BY <1>1, Appended
<1>4. ASSUME UNCHANGED <<driven, gui>>, frames # <<>> => frames' # <<>>,
             Has(events, "completed") => Has(events', "completed")
      PROVE  ResetToCome'
  BY <1>4 DEF ResetToCome
<1>5. CASE UNCHANGED vars
  BY <1>4, <1>5 DEF vars, world
<1>6. ASSUME BeginRun \/ BeginDirect, UNCHANGED <<gui, runnerVars>>
      PROVE  ResetToCome'
  <2>1. queue # <<>> /\ frames' = Append(frames, NewFrame(Head(queue)))
    BY <1>6 DEF BeginRun, BeginDirect
  <2>2. NewFrame(Head(queue)) \in Frame
    BY <1>1, <2>1, HeadAndTail DEF NewFrame, Frame, Calls, Places
  <2>3. frames' # <<>>
    BY <1>1, <2>1, <2>2, Appended
  <2> QED BY <2>3 DEF ResetToCome
<1>7. ASSUME RecreateContext, UNCHANGED <<gui, runnerVars>>
      PROVE  ResetToCome'
  <2>1. frames' # <<>>
    BY <1>1, <1>7, FramesGo DEF RecreateContext, At, Places
  <2> QED BY <2>1 DEF ResetToCome
<1>8. ASSUME ContextFails \/ Finish
      PROVE  ResetToCome'
  BY <1>3, <1>8 DEF ContextFails, Finish, ResetToCome
<1>9. ASSUME \/ Start \/ EvaluationEnds \/ Interrupted \/ Ended \/ Released \/ Connect \/ Return
             \/ \E call \in Calls \ {"none"} : Call(call),
             UNCHANGED <<gui, runnerVars>>
      PROVE  ResetToCome'
  <2>1. frames' # <<>>
    BY <1>1, <1>9, FramesMove DEF Moved, Start, EvaluationEnds, Interrupted, Ended, Released,
      Connect, Return, Call, At
  <2> QED BY <2>1 DEF ResetToCome
<1>10. ASSUME Drive \/ TakeMessage, UNCHANGED <<gui, runnerVars>>
       PROVE  ResetToCome'
  BY <1>10 DEF Drive, TakeMessage, At, ResetToCome
<1>11. ASSUME MailArrives, UNCHANGED <<gui, runnerVars>>
       PROVE  ResetToCome'
  BY <1>3, <1>4, <1>11 DEF MailArrives
<1>12. CASE StopScript
  <2>1. gui # <<>> /\ Head(gui)[1] = "stop" /\ gui' \in {Tail(gui), StopChain \o Tail(gui)}
    BY <1>12 DEF StopScript
  <2>2. /\ \A x : Has(gui, x) => x = Head(gui) \/ Has(Tail(gui), x)
        /\ Tail(gui) \in Seq(Steps)
    BY <1>1, <2>1, HeadAndTail
  <2>3. \A x : Has(Tail(gui), x) => Has(StopChain \o Tail(gui), x)
    BY <2>2, StepsOf, Joined
  <2>4. Has(gui, <<"resetBrick">>) => Has(gui', <<"resetBrick">>)
    BY <1>2, <2>1, <2>2, <2>3
  <2> QED BY <1>12, <2>4 DEF StopScript, world, ResetToCome
<1>13. CASE ResetBrick
  BY <1>13 DEF ResetBrick, ResetToCome
<1>14. CASE Interrupt \/ WakeMail \/ SetReady \/ JsStop \/ JsStart
  <2>1. driven' = driven /\ (frames' = frames \/ Moved(frames, frames'))
    BY <1>1, <1>14, FramesMove DEF Interrupt, WakeMail, SetReady, JsStop, JsStart, workerVars, world
  <2>2. Has(events, "completed") => Has(events', "completed")
    BY <1>3, <1>14 DEF Interrupt, WakeMail, SetReady, JsStop, JsStart, workerVars, world
  <2>3. PICK step \in {"interrupt", "wakeMail", "setReady", "jsStop", "jsStart"} : Does(step)
    BY <1>14 DEF Interrupt, WakeMail, SetReady, JsStop, JsStart
  <2>4. Has(gui, <<"resetBrick">>) => Has(gui', <<"resetBrick">>)
    BY <1>2, <2>3, StepTaken
  <2> QED BY <2>1, <2>2, <2>4 DEF Moved, ResetToCome
<1>15. ASSUME NEW s \in Scripts, Post(s) PROVE ResetToCome'
  <2>1. gui # <<>> /\ Head(gui)[1] = "post" /\ gui' = Tail(gui)
    BY <1>15 DEF Post
  <2>2. Has(gui, <<"resetBrick">>) => Has(gui', <<"resetBrick">>)
    BY <1>1, <1>2, <2>1, HeadAndTail
  <2> QED BY <1>15, <2>2 DEF Post, world, ResetToCome
<1>16. CASE JsEnds
  BY <1>3, <1>4, <1>16 DEF JsEnds
<1>17. CASE ServeEvent
  <2>1. /\ gui = <<>> /\ events # <<>> /\ events' = Tail(events)
        /\ driven' = driven /\ frames' = frames
        /\ Head(events) = "completed" => gui' = << <<"resetBrick">> >>
    BY <1>17 DEF ServeEvent
  <2>2. Has(events, "completed") => Head(events) = "completed" \/ Has(events', "completed")
    BY <1>1, <2>1, HeadAndTail
  <2>3. ~Has(<<>>, <<"resetBrick">>) /\ Has(<< <<"resetBrick">> >>, <<"resetBrick">>)
    BY DEF Has
  <2> QED BY <2>1, <2>2, <2>3 DEF ResetToCome
<1>18. CASE Users
  <2>1. gui = <<>> /\ UNCHANGED <<driven, frames, events>>
    BY <1>18 DEF Users, RunPython, RunJavaScript, Abort, RunDirectCommand, KnownMethodNamesFor,
      Idle, workerVars, world
  <2>2. ~Has(<<>>, <<"resetBrick">>)
    BY DEF Has
  <2> QED BY <2>1, <2>2 DEF ResetToCome
<1> QED
  BY <1>5, <1>6, <1>7, <1>8, <1>9, <1>10, <1>11, <1>12, <1>13, <1>14, <1>15, <1>16, <1>17, <1>18
  DEF Next, ProgramActs, Progress, GuiStep

LEMMA StopToComeKept == TypeOK /\ StopToCome /\ [Next]_vars => StopToCome'
<1> SUFFICES ASSUME TypeOK, StopToCome, [Next]_vars PROVE StopToCome'
  OBVIOUS
<1>1. gui \in Seq(Steps) /\ last \in Languages
  BY DEF TypeOK
<1>2. /\ <<"jsStart">> \in Steps /\ <<"jsStart">>[1] = "jsStart"
      /\ <<"jsStop">> \in Steps /\ <<"jsStop">>[1] = "jsStop"
  BY DEF Steps
<1>3. \A x : ~Has(<<>>, x)
  BY DEF Has
<1>4. ASSUME UNCHANGED <<js, last, asked>>,
             Has(gui', <<"jsStart">>) => Has(gui, <<"jsStart">>),
             Has(gui, <<"jsStop">>) => Has(gui', <<"jsStop">>)
      PROVE  StopToCome'
  BY <1>4 DEF StopToCome
<1>5. CASE UNCHANGED vars
  BY <1>4, <1>5 DEF vars, runnerVars
<1>6. ASSUME UNCHANGED <<gui, runnerVars>>
      PROVE  StopToCome'
  BY <1>4, <1>6 DEF runnerVars
<1>7. ASSUME StopScript, UNCHANGED runnerVars
      PROVE  StopToCome'
  <2>1. gui # <<>> /\ Head(gui)[1] = "stop" /\ gui' \in {Tail(gui), StopChain \o Tail(gui)}
    BY <1>7 DEF StopScript
  <2>2. /\ \A x : Has(gui, x) => x = Head(gui) \/ Has(Tail(gui), x)
        /\ \A x : Has(Tail(gui), x) => Has(gui, x)
        /\ \A x : Has(StopChain \o Tail(gui), x) <=> Has(StopChain, x) \/ Has(Tail(gui), x)
    BY <1>1, <2>1, HeadAndTail, StepsOf, Joined
  <2>3. ~Has(StopChain, <<"jsStart">>)
    BY StepsOf
  <2> QED BY <1>2, <1>4, <1>7, <2>1, <2>2, <2>3 DEF runnerVars
<1>8. ASSUME gui # <<>>, gui' = Tail(gui), Head(gui)[1] # "jsStop"
      PROVE  /\ Has(gui', <<"jsStart">>) => Has(gui, <<"jsStart">>)
             /\ Has(gui, <<"jsStop">>) => Has(gui', <<"jsStop">>)
  BY <1>1, <1>2, <1>8, HeadAndTail
<1>9. ASSUME Interrupt \/ WakeMail \/ SetReady \/ ResetBrick \/ (\E s \in Scripts : Post(s)),
             UNCHANGED runnerVars
      PROVE  StopToCome'
  <2>1. gui # <<>> /\ gui' = Tail(gui) /\ Head(gui)[1] # "jsStop"
    BY <1>9 DEF Interrupt, WakeMail, SetReady, ResetBrick, Does, Post
  <2> QED BY <1>4, <1>8, <1>9, <2>1 DEF runnerVars
<1>10. CASE JsStop
  <2>1. /\ js' = FALSE /\ last' = last
        /\ gui # <<>> /\ gui' = Tail(gui)
    BY <1>10 DEF JsStop, Does
  <2>2. Has(gui', <<"jsStart">>) => Has(gui, <<"jsStart">>)
    BY <1>1, <2>1, HeadAndTail
  <2> QED BY <2>1, <2>2 DEF StopToCome
<1>11. CASE JsStart
  <2>1. last' = last /\ gui # <<>> /\ Head(gui) \in Steps /\ Head(gui)[1] = "jsStart"
    BY <1>1, <1>11, HeadAndTail DEF JsStart, Does
  <2>2. Head(gui) = <<"jsStart">>
    BY <2>1 DEF Steps
  <2>3. last = "js"
    BY <1>1, <2>1, <2>2, HeadAndTail DEF StopToCome
  <2> QED BY <2>1, <2>3 DEF StopToCome
<1>12. CASE JsEnds
  BY <1>12 DEF JsEnds, StopToCome
<1>13. CASE ServeEvent
  <2>1. gui = <<>> /\ UNCHANGED runnerVars
        /\ gui' \in {<< <<"wakeMail">> >>, << <<"resetBrick">> >>}
    BY <1>13 DEF ServeEvent
  <2>2. ~Has(gui', <<"jsStart">>)
    BY <2>1, <1>2 DEF Has
  <2> QED BY <1>3, <1>4, <2>1, <2>2 DEF runnerVars
<1>14. CASE RunPython
  <2> DEFINE steps == << <<"stop">>, <<"post", <<"run", issued'>> >> >>
  <2>1. /\ gui = <<>> /\ js' = js /\ asked' = asked /\ issued' = issued + 1 /\ issued < MaxScripts
        /\ last' = "py" /\ gui' = RunSteps("py", steps)
    BY <1>14 DEF RunPython, Idle
  <2>2. issued' \in 1 .. MaxScripts
    BY <2>1, PythonAssumption DEF TypeOK
  <2>3. steps \in Seq(Steps) /\ ~Has(steps, <<"jsStart">>)
    BY <2>2 DEF Steps, Scripts, Has
  <2> HIDE DEF steps
  <2>4. ~Has(gui', <<"jsStart">>) /\ (last = "js" => Has(gui', <<"jsStop">>))
    BY <2>1, <2>3, RunStepsOf DEF Languages
  <2> QED BY <1>3, <2>1, <2>4 DEF StopToCome
<1>15. CASE RunJavaScript
  BY <1>15 DEF RunJavaScript, StopToCome
<1>16. CASE Abort
  <2>1. /\ gui = <<>> /\ gui' = RunnerAbort(last) /\ UNCHANGED <<js, last, asked>>
    BY <1>16 DEF Abort, Idle
  <2>2. ~Has(gui', <<"jsStart">>)
    BY <1>1, <2>1, StepsOf
  <2> QED BY <1>3, <1>4, <2>1, <2>2
<1>17. CASE RunDirectCommand
  <2>1. /\ gui = <<>> /\ gui' = << <<"post", <<"direct", issued'>> >> >>
        /\ UNCHANGED <<js, last, asked>>
    BY <1>17 DEF RunDirectCommand, Idle
  <2>2. ~Has(gui', <<"jsStart">>)
    BY <2>1 DEF Has
  <2> QED BY <1>3, <1>4, <2>1, <2>2
<1>18. CASE KnownMethodNamesFor
  BY <1>3, <1>18 DEF KnownMethodNamesFor, Idle, StopToCome
<1> QED
  BY <1>5, <1>6, <1>7, <1>9, <1>10, <1>11, <1>12, <1>13, <1>14, <1>15, <1>16, <1>17, <1>18
  DEF Next, GuiStep, Users

LEMMA InterruptIsTheirsKept ==
  TypeOK /\ InterruptIsTheirs /\ [Next]_vars => InterruptIsTheirs'
<1> SUFFICES ASSUME TypeOK, InterruptIsTheirs, [Next]_vars PROVE InterruptIsTheirs'
  OBVIOUS
<1>1. frames \in Seq(Frame) /\ queue \in Seq(Scripts)
  BY DEF TypeOK
<1>2. ASSUME UNCHANGED <<interrupt, aimed>> \/ ~interrupt', frames' = frames \/ Moved(frames, frames')
      PROVE  InterruptIsTheirs'
  BY <1>2 DEF InterruptIsTheirs, Moved
<1>3. CASE UNCHANGED vars
  BY <1>2, <1>3 DEF vars, interp
<1>4. CASE BeginRun \/ BeginDirect
  <2>1. /\ queue # <<>> /\ frames' = Append(frames, NewFrame(Head(queue)))
        /\ UNCHANGED <<interrupt, aimed>>
    BY <1>4 DEF BeginRun, BeginDirect, interp
  <2>2. NewFrame(Head(queue)) \in Frame /\ NewFrame(Head(queue)).pc = "context"
    BY <1>1, <2>1, HeadAndTail DEF NewFrame, Frame, Calls, Places
  <2>3. /\ DOMAIN frames' = 1..(Len(frames) + 1) /\ DOMAIN frames = 1..Len(frames)
        /\ Len(frames) \in Nat
        /\ \A i \in 1..Len(frames) : frames'[i] = frames[i]
        /\ frames'[Len(frames) + 1].pc = "context"
    BY <1>1, <2>1, <2>2, Appended
  <2> QED BY <2>1, <2>3 DEF InterruptIsTheirs
<1>5. CASE RecreateContext
  <2>1. /\ frames # <<>> /\ Top.pc = "context"
        /\ Goes(IF IsRun(Top.id) THEN "start" ELSE "eval")
        /\ UNCHANGED <<interrupt, aimed>> \/ ~interrupt'
        /\ IsRun(Top.id) => ~interrupt'
    BY <1>5 DEF RecreateContext, At, NoInterrupt, interp
  <2>2. /\ DOMAIN frames' = DOMAIN frames
        /\ \A i \in DOMAIN frames : frames'[i].id = frames[i].id
        /\ \A i \in DOMAIN frames : i # Len(frames) => frames'[i] = frames[i]
    BY <1>1, <2>1, FramesGo DEF Places
  <2> QED BY <2>1, <2>2 DEF InterruptIsTheirs, Top
<1>6. CASE ContextFails \/ Finish
  <2>1. frames # <<>> /\ frames' = Front(frames) /\ UNCHANGED <<interrupt, aimed>>
    BY <1>6 DEF ContextFails, Finish, At, interp
  <2>2. \A i \in DOMAIN frames' : i \in DOMAIN frames /\ frames'[i] = frames[i]
    BY <1>1, <2>1, WithoutLast
  <2> QED BY <2>1, <2>2 DEF InterruptIsTheirs
<1>7. ASSUME \/ Start \/ EvaluationEnds \/ Interrupted \/ Ended \/ Released \/ Connect \/ Return
             \/ \E call \in Calls \ {"none"} : Call(call)
             \/ WakeMail \/ SetReady
      PROVE  InterruptIsTheirs'
  <2>1. Moved(frames, frames')
    BY <1>1, <1>7, FramesMove
  <2>2. UNCHANGED <<interrupt, aimed>> \/ ~interrupt'
    BY <1>7 DEF Start, EvaluationEnds, Interrupted, Ended, Released, Connect, Return, Call,
      WakeMail, SetReady, NoInterrupt, interp
  <2> QED BY <1>2, <2>1, <2>2
<1>8. CASE Interrupt
  BY <1>8 DEF Interrupt, InterruptIsTheirs
<1>9. CASE Drive \/ TakeMessage \/ MailArrives \/ StopScript \/ ResetBrick \/ (\E s \in Scripts : Post(s))
  BY <1>2, <1>9 DEF Drive, TakeMessage, MailArrives, StopScript, ResetBrick, Post, interp
<1>10. CASE JsStop \/ JsStart \/ JsEnds \/ ServeEvent \/ Users
  BY <1>2, <1>10 DEF JsStop, JsStart, JsEnds, ServeEvent, Users, RunPython, RunJavaScript, Abort,
    RunDirectCommand, KnownMethodNamesFor, workerVars, interp
<1> QED BY <1>3, <1>4, <1>5, <1>6, <1>7, <1>8, <1>9, <1>10 DEF Next, ProgramActs, Progress, GuiStep

-----------------------------------------------------------------------------
(* The theorems                                                            *)

(* Every variable keeps its type, whatever programs, stops and messages     *)
(* come.                                                                    *)
THEOREM TypeCorrect == Spec => []TypeOK
BY InitTypes, NextTypes, PTL DEF Spec

(* No interleaving of the ends of programs, nested in one another, with     *)
(* stops leaves the worker stopping, where no stop would do anything again, *)
(* starting, or running without a program but where TRIK.py is missing:     *)
(* mState is written by both threads, one without the mutex.                *)
THEOREM ComesToRest == Spec => []WorkerRests
<1>1. Init => StopGoesOn /\ RunIsQueued /\ RunningIsRun
  BY DEF Init, StopGoesOn, RunIsQueued, RunningIsRun
<1>2. TypeOK /\ StopGoesOn /\ RunIsQueued /\ RunningIsRun => WorkerRests
  BY DEF TypeOK, StopGoesOn, RunIsQueued, RunningIsRun, Alive, WorkerRests, RestIsReady, AtRest, Has
<1> QED
  BY <1>1, <1>2, StopGoesOnKept, RunIsQueuedKept, RunningIsRunKept, TypeCorrect, PTL DEF Spec

(* Whatever drives the brick is followed by a reset.                        *)
THEOREM BrickLeftQuiet == Spec => []BrickQuiet
<1>1. Init => ResetToCome
  BY DEF Init, ResetToCome
<1>2. ResetToCome => BrickQuiet
  BY DEF ResetToCome, BrickQuiet, AtRest, Has
<1> QED BY <1>1, <1>2, ResetToComeKept, TypeCorrect, PTL DEF Spec

(* An abort goes to the runner whose program runs.                          *)
THEOREM AbortsReach == Spec => []AbortReaches
<1>1. Init => StopToCome
  BY DEF Init, StopToCome, Has
<1>2. StopToCome => AbortReaches
  BY DEF StopToCome, AbortReaches, Has
<1> QED BY <1>1, <1>2, StopToComeKept, TypeCorrect, PTL DEF Spec

(* A program is only ever interrupted by a stop that was called when it was *)
(* already there.                                                          *)
THEOREM InterruptsTheirOwn == Spec => NoStaleInterrupt
<1>1. Init => InterruptIsTheirs
  BY DEF Init, InterruptIsTheirs
<1>2. TypeOK /\ InterruptIsTheirs
        => (At({"eval"}) /\ IsRun(Top.id) /\ interrupt /\ ~interrupt' => Top.id \in aimed)
  <2> SUFFICES ASSUME TypeOK, InterruptIsTheirs, At({"eval"}), IsRun(Top.id), interrupt
               PROVE  Top.id \in aimed
    OBVIOUS
  <2>1. Len(frames) \in DOMAIN frames
    BY WithoutLast DEF At, TypeOK
  <2> QED BY <2>1 DEF InterruptIsTheirs, At, Top
<1> QED
  BY <1>1, <1>2, InterruptIsTheirsKept, TypeCorrect, PTL DEF Spec, NoStaleInterrupt
=============================================================================
