---------------------------- MODULE DeviceProofs ----------------------------
(***************************************************************************)
(* Theorems about the devices of the brick, for every number of calls, of   *)
(* deaths of the sensor and of stops and resets of the brick.               *)
(***************************************************************************)
EXTENDS DeviceProperties, SequenceTheorems, TLAPS

(* What the sound sensor's status says of the call its worker is in: the    *)
(* handler of init or stop that has begun is the only one that may change   *)
(* it, and a sensor that is ready has been opened.                          *)
SensorState ==
  /\ at = "idle" => status \in {"off", "ready", Failed}
  /\ at \in {"launch", "open", "input", "ready"} => status \in {"starting", Failed}
  /\ at = "input" => up \/ deaths > 0
  /\ at = "ready" /\ status = "starting" => input /\ (up \/ deaths > 0)
  /\ at = "stop" => status = "stopping"
  /\ status = "ready" => input /\ (up \/ deaths > 0)

(* A range sensor that is starting waits for its file, or is about to serve *)
(* an init: the constructor's start() is followed by the brick's init before*)
(* any stop.                                                               *)
InitIsNext ==
  rangeStatus = "starting" /\ rangeError = "none" =>
    waiting # "no" \/ (rangeCalls # <<>> /\ Head(rangeCalls) = "init")

(* What the sound sensor's steps may disturb.                              *)
SensorInv ==
  /\ status \in Statuses
  /\ calls \in Seq(Calls)
  /\ at \in {"idle", "launch", "open", "input", "ready", "stop"}
  /\ {up, alive, input, uncaught} \subseteq BOOLEAN
  /\ output \in {"none", "new", "open"}
  /\ {commands, written} \subseteq Seq(Nat)
  /\ given \in Nat
  /\ script \in Calls \cup {"none"}
  /\ used \in 0..MaxCalls
  /\ deaths \in 0..MaxDeaths
  /\ CommandsInOrder
  /\ SensorState
  /\ ThrowsOnlyAfterDeath
  /\ status = "ready" => input

(* What the range sensor's steps may disturb.                              *)
RangeInv ==
  /\ rangeStatus \in Statuses
  /\ driver \in BOOLEAN
  /\ rangeCalls \in Seq({"init", "stop"})
  /\ opened \in {"none", "open", "closed"}
  /\ waiting \in {"no", "wait", "quit"}
  /\ rangeError \in {"none", "deleted", "null", "uncaught"}
  /\ InitIsNext
  /\ NoEarlyStop
  /\ waiting = "no" /\ rangeError = "none" /\ rangeStatus # Failed =>
       (opened = "open" <=> rangeStatus = "ready")

(* And the brick's.                                                        *)
BrickInv ==
  /\ resets \in BOOLEAN
  /\ brick \in {"idle", "sound", "soundStop", "range", "rangeStop", "init", "rangeInit"}
  /\ stops \in 0..MaxStops

(* The inductive invariant.                                                *)
IndInv == SensorInv /\ RangeInv /\ BrickInv

-----------------------------------------------------------------------------
(* What the provers need of sequences.                                     *)

LEMMA HeadAndTail ==
  ASSUME NEW S, NEW s \in Seq(S), s # <<>>
  PROVE  Head(s) \in S /\ Tail(s) \in Seq(S)
BY HeadTailProperties

LEMMA AppendKeepsHead ==
  ASSUME NEW S, NEW s \in Seq(S), NEW x \in S
  PROVE  /\ Append(s, x) \in Seq(S)
         /\ Append(s, x) # <<>>
         /\ s # <<>> => Head(Append(s, x)) = Head(s)
<1>1. Append(s, x) \in Seq(S) /\ Append(s, x) # <<>>
  BY AppendProperties
<1>2. ASSUME s # <<>> PROVE Head(Append(s, x)) = Head(s)
  <2>1. Len(s) \in Nat /\ Len(s) # 0
    BY <1>2, EmptySeq, LenProperties
  <2>2. Append(s, x)[1] = s[1]
    BY <2>1, AppendProperties
  <2> QED BY <2>2, <1>1, <1>2, HeadTailProperties
<1> QED BY <1>1, <1>2

LEMMA AppendToConcat ==
  ASSUME NEW S, NEW s \in Seq(S), NEW t \in Seq(S), NEW x \in S
  PROVE  s \o Append(t, x) = Append(s \o t, x)
<1>1. <<x>> \in Seq(S) /\ s \o t \in Seq(S)
  BY ConcatProperties
<1>2. Append(t, x) = t \o <<x>> /\ Append(s \o t, x) = (s \o t) \o <<x>>
  BY <1>1, AppendIsConcat
<1>3. (s \o t) \o <<x>> = s \o (t \o <<x>>)
  BY <1>1, ConcatAssociative
<1> QED BY <1>2, <1>3

(* Sending the whole queue after one more command keeps the order.          *)
LEMMA OneMore ==
  ASSUME NEW w \in Seq(Nat), NEW c \in Seq(Nat), NEW g \in Nat,
         w \o c = [i \in 1..g |-> i]
  PROVE  /\ w \o Append(c, g + 1) = [i \in 1..(g + 1) |-> i]
         /\ (w \o Append(c, g + 1)) \o <<>> = [i \in 1..(g + 1) |-> i]
         /\ Append(c, g + 1) \in Seq(Nat)
         /\ w \o Append(c, g + 1) \in Seq(Nat)
<1>1. Append(c, g + 1) \in Seq(Nat) /\ w \o Append(c, g + 1) \in Seq(Nat)
  BY AppendProperties, ConcatProperties
<1>2. w \o Append(c, g + 1) = Append(w \o c, g + 1)
  <2> DEFINE Numbers == Nat
             next == g + 1
  <2>1. w \in Seq(Numbers) /\ c \in Seq(Numbers) /\ next \in Numbers
    OBVIOUS
  <2> HIDE DEF next, Numbers
  <2>2. w \o Append(c, next) = Append(w \o c, next)
    BY ONLY <2>1, AppendToConcat
  <2> QED BY <2>2 DEF next
<1>3. Append([i \in 1..g |-> i], g + 1) = [i \in 1..(g + 1) |-> i]
  OBVIOUS
<1> QED BY <1>1, <1>2, <1>3, ConcatEmptySeq

(* Command, given to a sensor in any status.                               *)
LEMMA CommandKeeps ==
  ASSUME SensorInv, NEW now, Command(now)
  PROVE  /\ CommandsInOrder'
         /\ given' \in Nat
         /\ {commands', written'} \subseteq Seq(Nat)
<1>1. /\ written \in Seq(Nat) /\ commands \in Seq(Nat) /\ given \in Nat
      /\ written \o commands = [i \in 1..given |-> i]
  BY DEF SensorInv, CommandsInOrder
<1>2. /\ written \o Append(commands, given + 1) = [i \in 1..(given + 1) |-> i]
      /\ (written \o Append(commands, given + 1)) \o <<>> = [i \in 1..(given + 1) |-> i]
      /\ Append(commands, given + 1) \in Seq(Nat)
      /\ written \o Append(commands, given + 1) \in Seq(Nat)
  BY <1>1, OneMore
<1>3. given' = given + 1 /\ given' \in Nat
  BY <1>1 DEF Command
<1>4. CASE now = "ready"
  <2>1. commands' = <<>> /\ written' = written \o Append(commands, given + 1)
    BY <1>4 DEF Command
  <2>2. written' \o commands' = [i \in 1..given' |-> i]
    BY <2>1, <1>2, <1>3
  <2> QED BY <2>1, <2>2, <1>2, <1>3, EmptySeq DEF CommandsInOrder
<1>5. CASE now # "ready"
  <2>1. commands' = Append(commands, given + 1) /\ written' = written
    BY <1>5 DEF Command
  <2>2. written' \o commands' = [i \in 1..given' |-> i]
    BY <2>1, <1>2, <1>3
  <2> QED BY <2>1, <2>2, <1>1, <1>2, <1>3 DEF CommandsInOrder
<1> QED BY <1>4, <1>5

-----------------------------------------------------------------------------
(* The initial states.                                                     *)
LEMMA InitInv == Init => IndInv
<1> SUFFICES ASSUME Init PROVE IndInv
  OBVIOUS
<1> USE VirtualSensorAssumption, BrickAssumption
    DEF Init, SensorInit, RangeStarts, Statuses, Failed, Calls
<1>1. /\ calls \in Seq(Calls) /\ commands \in Seq(Nat) /\ written \in Seq(Nat)
      /\ rangeCalls \in Seq({"init", "stop"})
  BY EmptySeq
<1>2. CommandsInOrder
  <2>1. <<>> \o <<>> = <<>> /\ [i \in 1..0 |-> i] = <<>>
    BY EmptySeq, ConcatEmptySeq
  <2> QED BY <2>1 DEF CommandsInOrder
<1>3. SensorState /\ ThrowsOnlyAfterDeath
  BY DEF SensorState, ThrowsOnlyAfterDeath
<1>4. SensorInv
  <2>1. {commands, written} \subseteq Seq(Nat) /\ given \in Nat /\ calls \in Seq(Calls)
    BY <1>1
  <2>2. used \in 0..MaxCalls /\ deaths \in 0..MaxDeaths
    BY DEF Init
  <2>3. /\ status \in Statuses /\ at = "idle" /\ {up, alive, input, uncaught} \subseteq BOOLEAN
        /\ output = "none" /\ script = "none" /\ status # "ready"
    BY DEF Init
  <2> QED BY ONLY <1>2, <1>3, <2>1, <2>2, <2>3 DEF SensorInv
<1>5. RangeInv
  <2>1. Head(<<"init">>) = "init" /\ <<"init">> # <<>>
    OBVIOUS
  <2>2. InitIsNext
    BY <2>1 DEF InitIsNext
  <2>3. rangeCalls \in Seq({"init", "stop"})
    BY <1>1
  <2>4. /\ rangeStatus \in Statuses /\ rangeStatus = "starting" /\ driver \in BOOLEAN
        /\ opened = "none" /\ waiting = "no" /\ rangeError = "none"
    BY DEF Init
  <2> QED BY ONLY <2>2, <2>3, <2>4 DEF RangeInv, NoEarlyStop, Failed
<1>6. BrickInv
  <2>1. stops \in 0..MaxStops
    BY DEF Init
  <2>2. resets \in BOOLEAN /\ brick = "idle"
    BY DEF Init
  <2> QED BY ONLY <2>1, <2>2 DEF BrickInv
<1> QED BY <1>4, <1>5, <1>6 DEF IndInv

-----------------------------------------------------------------------------
LEMMA SensorKeeps == SensorInv /\ SensorNext => SensorInv'
<1> SUFFICES ASSUME SensorInv, SensorNext PROVE SensorInv'
  OBVIOUS
<1> USE VirtualSensorAssumption
    DEF worker, commanding, process, scripting, Becomes, Serve, Failed, Statuses, Allowed, Target, Throws, Changed
<1>1. ASSUME UNCHANGED commanding
      PROVE  CommandsInOrder' /\ given' \in Nat /\ {commands', written'} \subseteq Seq(Nat)
  BY <1>1 DEF SensorInv, CommandsInOrder
<1>2. ASSUME NEW call \in Calls, Serve(call)
      PROVE  calls' \in Seq(Calls)
  BY <1>2, HeadAndTail DEF SensorInv
<1>3. CASE Detect
  <2>1. CommandsInOrder' /\ given' \in Nat /\ {commands', written'} \subseteq Seq(Nat)
    BY <1>3, CommandKeeps DEF Detect
  <2>2. calls' \in Seq(Calls)
    BY <1>2, <1>3 DEF Detect, Calls
  <2>3. SensorState' /\ ThrowsOnlyAfterDeath'
    BY <1>3 DEF Detect, SensorInv, SensorState, ThrowsOnlyAfterDeath
  <2> QED BY <1>3, <2>1, <2>2, <2>3 DEF Detect, SensorInv
<1>4. CASE InitSensor
  <2>1. CommandsInOrder' /\ given' \in Nat /\ {commands', written'} \subseteq Seq(Nat)
    BY <1>1, <1>4, CommandKeeps DEF InitSensor
  <2>2. calls' \in Seq(Calls)
    BY <1>2, <1>4 DEF InitSensor, Calls
  <2>3. /\ status' \in Statuses /\ at' \in {"idle", "launch", "open"} /\ uncaught' \in BOOLEAN
        /\ output' = "new" /\ UNCHANGED <<input, up, alive, script, used, deaths>>
    BY <1>4 DEF InitSensor, SensorInv
  <2>4. SensorState' /\ ThrowsOnlyAfterDeath'
    BY <1>4 DEF InitSensor, SensorInv, SensorState, ThrowsOnlyAfterDeath
  <2> QED BY <2>1, <2>2, <2>3, <2>4 DEF SensorInv, SensorState
<1>5. CASE Launch
  <2>1. SensorState' /\ ThrowsOnlyAfterDeath'
    BY <1>5 DEF Launch, SensorInv, SensorState, ThrowsOnlyAfterDeath
  <2> QED BY <1>1, <1>5, <2>1 DEF Launch, SensorInv, SensorState
<1>6. CASE OpenOutput \/ OpenInput
  <2>1. SensorState' /\ ThrowsOnlyAfterDeath'
    BY <1>6 DEF OpenOutput, OpenInput, SensorInv, SensorState, ThrowsOnlyAfterDeath
  <2>2. status' \in Statuses /\ input' \in BOOLEAN /\ output' \in {"none", "new", "open"}
    BY <1>6 DEF OpenOutput, OpenInput, SensorInv
  <2> QED BY <1>1, <1>6, <2>1, <2>2 DEF OpenOutput, OpenInput, SensorInv, SensorState
<1>7. CASE InitEnds
  <2>1. CommandsInOrder' /\ given' \in Nat /\ {commands', written'} \subseteq Seq(Nat)
    <3>1. CASE UNCHANGED commanding
      BY <1>1, <3>1
    <3>2. CASE Command(status')
      BY <3>2, CommandKeeps
    <3> QED BY <1>7, <3>1, <3>2 DEF InitEnds
  <2>2. SensorState' /\ ThrowsOnlyAfterDeath'
    BY <1>7 DEF InitEnds, SensorInv, SensorState, ThrowsOnlyAfterDeath
  <2> QED BY <1>7, <2>1, <2>2 DEF InitEnds, SensorInv, SensorState
<1>8. CASE Stop
  <2>1. calls' \in Seq(Calls)
    BY <1>2, <1>8 DEF Stop, Calls
  <2>2. SensorState' /\ ThrowsOnlyAfterDeath'
    BY <1>8 DEF Stop, SensorInv, SensorState, ThrowsOnlyAfterDeath
  <2>3. /\ status' \in Statuses /\ at' \in {"idle", "stop"} /\ uncaught' = uncaught
        /\ status' = "ready" => input
    BY <1>8 DEF Stop, SensorInv, SensorState
  <2> QED BY <1>1, <1>8, <2>1, <2>2, <2>3 DEF Stop, SensorInv
<1>9. CASE Deinitialize
  <2>1. SensorState' /\ ThrowsOnlyAfterDeath'
    BY <1>9 DEF Deinitialize, ScriptStops, SensorInv, SensorState, ThrowsOnlyAfterDeath
  <2>2. /\ status' \in Statuses /\ {up', alive'} \subseteq BOOLEAN
        /\ status' # "ready" /\ uncaught' \in BOOLEAN
    BY <1>9 DEF Deinitialize, ScriptStops, SensorInv, SensorState
  <2> QED BY <1>1, <1>9, <2>1, <2>2 DEF Deinitialize, SensorInv
<1>10. CASE Dies
  <2>1. SensorState' /\ ThrowsOnlyAfterDeath' /\ deaths' \in 0..MaxDeaths
    BY <1>10 DEF Dies, SensorInv, SensorState, ThrowsOnlyAfterDeath
  <2> QED BY <1>1, <1>10, <2>1 DEF Dies, SensorInv
<1>11. CASE ScriptCalls
  <2>1. SensorState' /\ ThrowsOnlyAfterDeath'
    BY <1>11 DEF ScriptCalls, SensorInv, SensorState, ThrowsOnlyAfterDeath
  <2> QED BY <1>1, <1>11, <2>1 DEF ScriptCalls, SensorInv
<1>12. CASE ScriptPosts
  <2>1. SensorState' /\ ThrowsOnlyAfterDeath'
    BY <1>12 DEF ScriptPosts, SensorInv, SensorState, ThrowsOnlyAfterDeath
  <2>2. calls' \in Seq(Calls)
    BY <1>12, AppendKeepsHead DEF ScriptPosts, SensorInv
  <2> QED BY <1>1, <1>12, <2>1, <2>2 DEF ScriptPosts, SensorInv
<1> QED BY <1>3, <1>4, <1>5, <1>6, <1>7, <1>8, <1>9, <1>10, <1>11, <1>12
        DEF SensorNext, SensorWorker

LEMMA RangeKeeps == RangeInv /\ RangeNext => RangeInv'
<1> SUFFICES ASSUME RangeInv, RangeNext PROVE RangeInv'
  OBVIOUS
<1> USE DEF RangeServe, RangeChange, Failed, Statuses, Allowed, Target, Throws, Changed,
            RangeInv, InitIsNext, NoEarlyStop
<1>1. ASSUME NEW call, RangeServe(call)
      PROVE  rangeCalls' \in Seq({"init", "stop"})
  BY <1>1, HeadAndTail
<1>2. CASE RangeInit
  BY <1>1, <1>2 DEF RangeInit
<1>3. CASE TryOpen
  BY <1>3 DEF TryOpen
<1>4. CASE TwoSeconds
  BY <1>4 DEF TwoSeconds
<1>5. CASE OpenReturns
  BY <1>5 DEF OpenReturns
<1>6. CASE StopReady
  BY <1>1, <1>6 DEF StopReady
<1>7. CASE StopStarting
  BY <1>1, <1>7 DEF StopStarting
<1>8. CASE StopIgnored
  BY <1>1, <1>8 DEF StopIgnored
<1>9. CASE DriverReady
  BY <1>9 DEF DriverReady
<1> QED BY <1>2, <1>3, <1>4, <1>5, <1>6, <1>7, <1>8, <1>9 DEF RangeNext, RangeWorker

-----------------------------------------------------------------------------
(* Every step of the brick, of the sensors and of the script.               *)
LEMMA NextInv == IndInv /\ [Next]_vars => IndInv'
<1> SUFFICES ASSUME IndInv, [Next]_vars PROVE IndInv'
  OBVIOUS
<1> USE DEF IndInv
<1>1. ASSUME UNCHANGED sensorVars PROVE SensorInv'
  BY <1>1 DEF sensorVars, worker, commanding, process, scripting, SensorInv, CommandsInOrder,
              SensorState, ThrowsOnlyAfterDeath
<1>2. ASSUME UNCHANGED rangeVars PROVE RangeInv'
  BY <1>2 DEF rangeVars, RangeInv, InitIsNext, NoEarlyStop
<1>3. ASSUME UNCHANGED bricking PROVE BrickInv'
  BY <1>3 DEF bricking, BrickInv
<1>4. CASE SensorStep
  BY <1>2, <1>3, <1>4, SensorKeeps DEF SensorStep
<1>5. CASE RangeStep
  BY <1>1, <1>3, <1>5, RangeKeeps DEF RangeStep
<1>6. CASE Begin
  <2>1. BrickInv'
    BY <1>6, BrickAssumption DEF Begin, BrickInv
  <2> QED BY <1>1, <1>2, <1>6, <2>1 DEF Begin
<1>7. CASE LookAtSound
  <2>1. BrickInv'
    BY <1>7 DEF LookAtSound, BrickInv
  <2> QED BY <1>1, <1>2, <1>7, <2>1 DEF LookAtSound
<1>8. CASE SoundStop
  <2>1. BrickInv'
    BY <1>8 DEF SoundStop, BrickInv
  <2>2. calls' \in Seq(Calls)
    BY <1>8, AppendKeepsHead DEF SoundStop, SensorInv, Calls
  <2>3. SensorInv'
    BY <1>8, <2>2 DEF SoundStop, worker, commanding, process, scripting, SensorInv, CommandsInOrder,
                      SensorState, ThrowsOnlyAfterDeath
  <2> QED BY <1>2, <1>8, <2>1, <2>3 DEF SoundStop
<1>9. ASSUME NEW from, NEW to \in {"rangeStop", "rangeInit"}, NEW end \in {"init", "idle"},
             LookAtRange(from, to, end)
      PROVE  IndInv'
  <2>1. BrickInv'
    BY <1>9 DEF LookAtRange, Still, BrickInv
  <2> QED BY <1>1, <1>2, <1>9, <2>1 DEF LookAtRange
<1>10. ASSUME NEW from, NEW call \in {"init", "stop"}, NEW end \in {"init", "idle"},
              PostToRange(from, call, end)
       PROVE  IndInv'
  <2>1. BrickInv'
    BY <1>10 DEF PostToRange, Still, BrickInv
  <2>2. /\ rangeCalls' \in Seq({"init", "stop"}) /\ rangeCalls' # <<>>
        /\ rangeCalls # <<>> => Head(rangeCalls') = Head(rangeCalls)
    BY <1>10, AppendKeepsHead DEF PostToRange, RangeInv
  <2>3. RangeInv'
    BY <1>10, <2>2 DEF PostToRange, RangeInv, InitIsNext, NoEarlyStop
  <2> QED BY <1>1, <1>10, <2>1, <2>3 DEF PostToRange
<1>11. CASE Reset
  BY <1>9, <1>10, <1>11 DEF Reset, AfterStop
<1>12. CASE UNCHANGED vars
  BY <1>1, <1>2, <1>3, <1>12 DEF vars
<1> QED BY <1>4, <1>5, <1>6, <1>7, <1>8, <1>11, <1>12 DEF Next, Brick

-----------------------------------------------------------------------------
(* The inductive invariant holds in every state.                            *)
THEOREM Invariance == Spec => []IndInv
<1> HIDE DEF IndInv
<1> QED BY InitInv, NextInv, PTL DEF Spec

(* Types, the order of the commands and no stop of the range sensor before  *)
(* its first init, over every order of script, brick and failures.          *)
THEOREM ConsistentAlways == Spec => []Consistent
<1>1. IndInv => Consistent
  BY DEF IndInv, SensorInv, RangeInv, BrickInv, Consistent, TypeOK
<1> QED BY <1>1, Invariance, PTL

(* The sound sensor's worker throws only after a death of its process.      *)
THEOREM OnlyAfterDeath == Spec => []ThrowsOnlyAfterDeath
<1>1. IndInv => ThrowsOnlyAfterDeath
  BY DEF IndInv, SensorInv
<1> QED BY <1>1, Invariance, PTL

(* A sensor that is ready is open, and a range sensor that is not is closed.*)
THEOREM ReadyIsOpen == Spec => []OpenWhenReady
<1>1. IndInv => OpenWhenReady
  BY DEF IndInv, SensorInv, RangeInv, OpenWhenReady
<1> QED BY <1>1, Invariance, PTL

=============================================================================
