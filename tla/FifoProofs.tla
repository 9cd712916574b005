----------------------------- MODULE FifoProofs -----------------------------
(***************************************************************************)
(* Theorems about the readers of a Fifo, for every set of readers, size of  *)
(* a read and limit, and for every number of lines and calls.               *)
(***************************************************************************)
EXTENDS FifoProperties, SequenceTheorems, FiniteSetTheorems, TLAPS

(* The calls in the queue and the waits on the stack are well formed.       *)
Formed == queue \in Seq(Call) /\ frames \in Seq(Frame)

(* The inductive invariant.                                                *)
IndInv == Formed /\ NobodySleepsOnInput

-----------------------------------------------------------------------------
(* What the provers need of sequences.                                     *)

LEMMA HeadAndTail ==
  ASSUME NEW S, NEW s \in Seq(S), s # <<>>
  PROVE  Head(s) \in S /\ Tail(s) \in Seq(S)
BY HeadTailProperties

LEMMA Appended ==
  ASSUME NEW S, NEW s \in Seq(S), NEW x \in S
  PROVE  /\ Append(s, x) \in Seq(S)
         /\ DOMAIN Append(s, x) = 1..(Len(s) + 1)
         /\ DOMAIN s = 1..Len(s) /\ Len(s) \in Nat
         /\ \A i \in 1..Len(s) : Append(s, x)[i] = s[i]
         /\ Append(s, x)[Len(s) + 1] = x
BY AppendProperties, LenProperties

LEMMA WithoutLast ==
  ASSUME NEW S, NEW s \in Seq(S), s # <<>>
  PROVE  /\ Len(s) \in DOMAIN s
         /\ SubSeq(s, 1, Len(s) - 1) \in Seq(S)
         /\ \A i \in DOMAIN SubSeq(s, 1, Len(s) - 1) :
              i \in DOMAIN s /\ SubSeq(s, 1, Len(s) - 1)[i] = s[i]
<1>1. Len(s) \in Nat /\ Len(s) # 0 /\ DOMAIN s = 1..Len(s)
  BY EmptySeq, LenProperties
<1>2. \A i \in 1..(Len(s) - 1) : s[i] \in S
  BY <1>1, ElementOfSeq
<1>3. /\ SubSeq(s, 1, Len(s) - 1) \in Seq(S)
      /\ Len(SubSeq(s, 1, Len(s) - 1)) = Len(s) - 1
      /\ \A i \in 1..(Len(s) - 1) : SubSeq(s, 1, Len(s) - 1)[i] = s[i]
  BY <1>1, <1>2, SubSeqProperties
<1>4. DOMAIN SubSeq(s, 1, Len(s) - 1) = 1..(Len(s) - 1)
  BY <1>3, LenProperties
<1> QED BY <1>1, <1>3, <1>4

LEMMA Joined ==
  ASSUME NEW S, NEW s \in Seq(S), NEW t \in Seq(S)
  PROVE  /\ s \o t \in Seq(S)
         /\ DOMAIN s = 1..Len(s) /\ Len(s) \in Nat
         /\ DOMAIN t = 1..Len(t) /\ Len(t) \in Nat
         /\ DOMAIN (s \o t) = 1..(Len(s) + Len(t))
         /\ \A i \in 1..(Len(s) + Len(t)) :
              (s \o t)[i] = IF i <= Len(s) THEN s[i] ELSE t[i - Len(s)]
BY ConcatProperties, LenProperties

LEMMA Numbers ==
  ASSUME NEW s \in Seq(Nat)
  PROVE  DOMAIN s = 1..Len(s) /\ Len(s) \in Nat /\ \A i \in DOMAIN s : s[i] \in Nat
BY LenProperties, ElementOfSeq

LEMMA OneLarger ==
  ASSUME NEW s \in Seq(Nat), NEW x \in Nat, Increasing(s), \A i \in DOMAIN s : s[i] < x
  PROVE  /\ Append(s, x) \in Seq(Nat)
         /\ Increasing(Append(s, x))
         /\ \A i \in DOMAIN Append(s, x) : Append(s, x)[i] <= x
         /\ \E i \in DOMAIN Append(s, x) : Append(s, x)[i] = x
         /\ \A i \in DOMAIN s : i \in DOMAIN Append(s, x) /\ Append(s, x)[i] = s[i]
<1>1. /\ Append(s, x) \in Seq(Nat) /\ Len(Append(s, x)) = Len(s) + 1
      /\ \A i \in 1..Len(s) : Append(s, x)[i] = s[i]
      /\ Append(s, x)[Len(s) + 1] = x
  BY AppendProperties
<1>2. DOMAIN s = 1..Len(s) /\ Len(s) \in Nat /\ \A i \in DOMAIN s : s[i] \in Nat
  BY Numbers
<1>3. DOMAIN Append(s, x) = 1..(Len(s) + 1)
  BY <1>1, LenProperties
<1> QED BY <1>1, <1>2, <1>3 DEF Increasing

LEMMA LaterPart ==
  ASSUME NEW s \in Seq(Nat), NEW t \in Seq(Nat), Increasing(s \o t)
  PROVE  Increasing(t)
<1>1. /\ DOMAIN t = 1..Len(t) /\ Len(t) \in Nat /\ Len(s) \in Nat
      /\ DOMAIN (s \o t) = 1..(Len(s) + Len(t))
      /\ \A i \in 1..(Len(s) + Len(t)) :
           (s \o t)[i] = IF i <= Len(s) THEN s[i] ELSE t[i - Len(s)]
  BY Joined
<1>2. SUFFICES ASSUME NEW i \in 1..Len(t), NEW j \in 1..Len(t), i < j
               PROVE  t[i] < t[j]
  BY <1>1 DEF Increasing
<1>3. /\ Len(s) + i \in DOMAIN (s \o t) /\ Len(s) + j \in DOMAIN (s \o t) /\ Len(s) + i < Len(s) + j
      /\ (s \o t)[Len(s) + i] = t[i] /\ (s \o t)[Len(s) + j] = t[j]
  BY <1>1, <1>2
<1> QED BY <1>3 DEF Increasing

LEMMA MiddleGone ==
  ASSUME NEW s \in Seq(Nat), NEW m \in Seq(Nat), NEW t \in Seq(Nat), NEW x \in Nat,
         Increasing((s \o m) \o t), \A i \in DOMAIN ((s \o m) \o t) : ((s \o m) \o t)[i] < x
  PROVE  Increasing(s \o t) /\ \A i \in DOMAIN (s \o t) : (s \o t)[i] < x
<1> DEFINE all == (s \o m) \o t
           shift(i) == IF i <= Len(s) THEN i ELSE i + Len(m)
<1>1. /\ s \o m \in Seq(Nat) /\ DOMAIN (s \o m) = 1..(Len(s) + Len(m))
      /\ Len(s) \in Nat /\ Len(m) \in Nat /\ Len(s \o m) = Len(s) + Len(m)
      /\ \A i \in 1..(Len(s) + Len(m)) :
           (s \o m)[i] = IF i <= Len(s) THEN s[i] ELSE m[i - Len(s)]
  BY Joined, ConcatProperties
<1>2. /\ DOMAIN all = 1..(Len(s) + Len(m) + Len(t)) /\ Len(t) \in Nat
      /\ \A i \in 1..(Len(s) + Len(m) + Len(t)) :
           all[i] = IF i <= Len(s) + Len(m) THEN (s \o m)[i] ELSE t[i - (Len(s) + Len(m))]
  BY <1>1, Joined
<1>3. /\ DOMAIN (s \o t) = 1..(Len(s) + Len(t))
      /\ \A i \in 1..(Len(s) + Len(t)) : (s \o t)[i] = IF i <= Len(s) THEN s[i] ELSE t[i - Len(s)]
  BY Joined
<1> HIDE DEF all
<1>4. ASSUME NEW i \in DOMAIN (s \o t)
      PROVE  shift(i) \in DOMAIN all /\ (s \o t)[i] = all[shift(i)]
  <2>1. i \in Nat /\ shift(i) \in DOMAIN all
    BY <1>1, <1>2, <1>3
  <2>2. CASE i <= Len(s)
    BY <1>1, <1>2, <1>3, <2>1, <2>2
  <2>3. CASE i > Len(s)
    <3>1. shift(i) > Len(s) + Len(m) /\ shift(i) - (Len(s) + Len(m)) = i - Len(s)
      BY <1>1, <2>1, <2>3
    <3>2. all[shift(i)] = t[i - Len(s)]
      BY <1>1, <1>2, <2>1, <3>1
    <3> QED BY <1>1, <1>3, <2>1, <2>3, <3>2
  <2> QED BY <1>1, <2>1, <2>2, <2>3
<1>5. ASSUME NEW i \in DOMAIN (s \o t), NEW j \in DOMAIN (s \o t), i < j
      PROVE  shift(i) < shift(j)
  BY <1>1, <1>2, <1>3, <1>5
<1> QED
  <2> HIDE DEF shift
  <2> QED BY <1>4, <1>5 DEF all, Increasing

LEMMA AppendToJoined ==
  ASSUME NEW S, NEW s \in Seq(S), NEW t \in Seq(S), NEW x \in S
  PROVE  s \o Append(t, x) = Append(s \o t, x)
<1>1. <<x>> \in Seq(S) /\ s \o t \in Seq(S)
  BY ConcatProperties
<1>2. Append(t, x) = t \o <<x>> /\ Append(s \o t, x) = (s \o t) \o <<x>>
  BY <1>1, AppendIsConcat
<1>3. (s \o t) \o <<x>> = s \o (t \o <<x>>)
  BY <1>1, ConcatAssociative
<1> QED BY <1>2, <1>3

LEMMA NumbersJoined ==
  ASSUME NEW s \in Seq(Nat), NEW t \in Seq(Nat), NEW u \in Seq(Nat)
  PROVE  /\ s \o t \in Seq(Nat) /\ t \o u \in Seq(Nat) /\ (s \o t) \o u \in Seq(Nat)
         /\ s \o (t \o u) = (s \o t) \o u
<1>1. s \o t \in Seq(Nat) /\ t \o u \in Seq(Nat) /\ (s \o t) \o u \in Seq(Nat)
  BY ConcatProperties
<1>2. (s \o t) \o u = s \o (t \o u)
  BY ConcatAssociative, SMTT(40)
<1> QED BY <1>1, <1>2

(* A sequence is what was cut off its front and what is left.               *)
LEMMA CutInTwo ==
  ASSUME NEW S, NEW s \in Seq(S), NEW n \in DOMAIN s
  PROVE  /\ SubSeq(s, 1, n) \in Seq(S) /\ SubSeq(s, n + 1, Len(s)) \in Seq(S)
         /\ s = SubSeq(s, 1, n) \o SubSeq(s, n + 1, Len(s))
<1>1. DOMAIN s = 1..Len(s) /\ Len(s) \in Nat /\ \A i \in 1..Len(s) : s[i] \in S
  BY LenProperties, ElementOfSeq
<1>2. SubSeq(s, 1, n) \in Seq(S)
  BY <1>1, SubSeqProperties
<1>3. SubSeq(s, n + 1, Len(s)) \in Seq(S)
  BY <1>1, SubSeqProperties
<1>4. 1 \in 1..(Len(s) + 1) /\ n \in (1 - 1)..Len(s) /\ Len(s) \in n..Len(s)
  BY <1>1
<1>5. SubSeq(s, 1, n) \o SubSeq(s, n + 1, Len(s)) = SubSeq(s, 1, Len(s))
  BY <1>4, ConcatAdjacentSubSeq
<1> QED BY <1>2, <1>3, <1>5, SubSeqFull

-----------------------------------------------------------------------------
(* The steps that disturb the invariant.                                   *)

(* A read takes all that is of its kind and leaves the other kind alone.    *)
LEMMA TakeEmpties ==
  ASSUME NEW kind \in Kinds, Take(kind)
  PROVE  /\ line' = 0 \/ (kind = "data" /\ UNCHANGED line)
         /\ data' = <<>> \/ (kind = "line" /\ UNCHANGED data)
BY DEF Take, Kinds

(* Loops that are told to quit stay as they are otherwise.                  *)
LEMMA ToldFrames ==
  ASSUME frames \in Seq(Frame), NEW kinds, Tell(kinds)
  PROVE  frames' \in Seq(Frame)
<1>1. DOMAIN frames = 1..Len(frames) /\ Len(frames) \in Nat
  BY LenProperties
<1>2. ASSUME NEW i \in DOMAIN frames
      PROVE  [frames[i] EXCEPT !.told = @ \/ frames[i].kind \in kinds] \in Frame
  <2>1. frames[i] \in Frame
    BY <1>1, ElementOfSeq
  <2>2. (frames[i].told \/ frames[i].kind \in kinds) \in BOOLEAN
    OBVIOUS
  <2> QED BY <2>1, <2>2 DEF Frame
<1>3. frames' \in [1..Len(frames) -> Frame]
  BY <1>1, <1>2 DEF Tell
<1> QED BY <1>1, <1>3

LEMMA ReadFileInv == IndInv /\ ReadFile => IndInv'
<1> SUFFICES ASSUME IndInv, ReadFile PROVE IndInv'
  OBVIOUS
<1>1. PICK lines, kinds :
        /\ kinds = {kind \in Kinds :
             IF kind = "data" THEN data' # <<>> ELSE \E i \in DOMAIN lines : lines[i] # 0}
        /\ Tell(kinds)
        /\ \/ DOMAIN lines = {} /\ UNCHANGED line
           \/ \E last \in DOMAIN lines : line' = lines[last]
  BY DEF ReadFile
<1>2. Formed'
  <2>1. queue' = queue
    BY DEF ReadFile, callers
  <2>2. frames' \in Seq(Frame)
    BY <1>1, ToldFrames DEF IndInv, Formed
  <2> QED BY <2>1, <2>2 DEF IndInv, Formed
<1>3. ASSUME NEW i, Waiting(i)'
      PROVE  Empty(frames[i].kind)'
  <2>1. /\ i \in DOMAIN frames /\ frames[i] \in Frame
        /\ frames'[i] = [frames[i] EXCEPT !.told = @ \/ frames[i].kind \in kinds]
    BY <1>1, <1>3, LenProperties, ElementOfSeq DEF Waiting, Tell, IndInv, Formed
  <2>2. frames'[i].kind = frames[i].kind /\ frames[i].kind \in Kinds \ kinds /\ ~frames[i].told
    BY <1>3, <2>1 DEF Waiting, Frame
  <2>3. Empty(frames[i].kind)
    BY <2>1, <2>2 DEF IndInv, NobodySleepsOnInput, Waiting
  <2>4. CASE frames[i].kind = "data"
    BY <1>1, <2>2, <2>4 DEF Empty, Kinds
  <2>5. CASE frames[i].kind = "line"
    BY <1>1, <2>2, <2>3, <2>5 DEF Empty, Kinds
  <2> QED BY <2>2, <2>4, <2>5 DEF Kinds
<1> QED BY <1>2, <1>3 DEF IndInv, NobodySleepsOnInput, Waiting

LEMMA ReadInv == IndInv /\ Read => IndInv'
<1> SUFFICES ASSUME IndInv, Read PROVE IndInv'
  OBVIOUS
<1> DEFINE call == Head(queue)
           frame == [by |-> call.by, kind |-> call.kind, told |-> FALSE]
<1>1. call \in Call /\ queue' \in Seq(Call) /\ frames \in Seq(Frame)
  BY HeadAndTail DEF Read, Serve, IndInv, Formed
<1>2. call.kind \in Kinds /\ frame \in Frame
  BY <1>1 DEF Call, Frame
<1>3. \A i \in DOMAIN frames : frames[i].kind \in Kinds
  <2>1. \A i \in DOMAIN frames : frames[i] \in Frame
    BY <1>1, LenProperties, ElementOfSeq
  <2> QED BY <2>1 DEF Frame
<1>4. CASE Empty(call.kind)
  <2>1. frames' = Append(frames, frame) /\ UNCHANGED stored
    BY <1>4 DEF Read
  <2> HIDE DEF frame
  <2>2. /\ frames' \in Seq(Frame) /\ DOMAIN frames' = 1..(Len(frames) + 1)
        /\ DOMAIN frames = 1..Len(frames) /\ Len(frames) \in Nat
        /\ \A i \in 1..Len(frames) : frames'[i] = frames[i]
        /\ frames'[Len(frames) + 1] = frame
    BY <1>1, <1>2, <2>1, Appended
  <2>3. ASSUME NEW i, Waiting(i)'
        PROVE  Empty(frames[i].kind)'
    <3>1. CASE i = Len(frames) + 1
      BY <1>4, <2>1, <2>2, <3>1 DEF frame, Empty, stored
    <3>2. CASE i \in 1..Len(frames)
      BY <2>1, <2>2, <2>3, <3>2 DEF IndInv, NobodySleepsOnInput, Waiting, Empty, stored
    <3> QED BY <2>2, <2>3, <3>1, <3>2 DEF Waiting
  <2> QED BY <1>1, <2>2, <2>3 DEF IndInv, Formed, NobodySleepsOnInput, Waiting
<1>5. CASE ~Empty(call.kind)
  <2>1. Take(call.kind) /\ frames' = frames
    BY <1>5 DEF Read
  <2>2. \A i \in DOMAIN frames' : Waiting(i)' => Empty(frames[i].kind)'
    BY <1>2, <1>3, <2>1, TakeEmpties DEF IndInv, NobodySleepsOnInput, Waiting, Empty, Kinds
  <2> QED BY <1>1, <2>1, <2>2 DEF IndInv, Formed, NobodySleepsOnInput
<1> QED BY <1>4, <1>5

LEMMA WakesInv == IndInv /\ Wakes => IndInv'
<1> SUFFICES ASSUME IndInv, Wakes PROVE IndInv'
  OBVIOUS
<1> DEFINE kind == frames[Len(frames)].kind
<1>1. /\ frames \in Seq(Frame) /\ frames # <<>> /\ Take(kind) /\ queue' = queue
      /\ frames' = SubSeq(frames, 1, Len(frames) - 1)
  BY DEF Wakes, IndInv, Formed
<1>2. /\ Len(frames) \in DOMAIN frames /\ frames' \in Seq(Frame)
      /\ \A i \in DOMAIN frames' : i \in DOMAIN frames /\ frames'[i] = frames[i]
  BY <1>1, WithoutLast
<1>3. \A i \in DOMAIN frames : frames[i].kind \in Kinds
  <2>1. \A i \in DOMAIN frames : frames[i] \in Frame
    BY <1>1, LenProperties, ElementOfSeq
  <2> QED BY <2>1 DEF Frame
<1>4. \A i \in DOMAIN frames' : Waiting(i)' => Empty(frames[i].kind)'
  BY <1>1, <1>2, <1>3, TakeEmpties DEF IndInv, NobodySleepsOnInput, Waiting, Empty, Kinds
<1> QED BY <1>1, <1>2, <1>4 DEF IndInv, Formed, NobodySleepsOnInput

LEMMA NextInv == IndInv /\ [Next]_vars => IndInv'
<1> SUFFICES ASSUME IndInv, [Next]_vars PROVE IndInv'
  OBVIOUS
<1>1. ASSUME UNCHANGED <<stored, frames>>, queue' \in Seq(Call)
      PROVE  IndInv'
  BY <1>1 DEF IndInv, Formed, NobodySleepsOnInput, Waiting, Empty, stored
<1>2. ASSUME UNCHANGED <<stored, frames, queue>>
      PROVE  IndInv'
  BY <1>1, <1>2 DEF IndInv, Formed
<1>3. CASE Open
  BY <1>2, <1>3 DEF Open, callers
<1>4. CASE ReadError
  BY <1>2, <1>4 DEF ReadError, callers
<1>5. CASE Write
  BY <1>2, <1>5 DEF Write, callers
<1>6. CASE Has
  <2>1. queue' \in Seq(Call)
    BY <1>6, HeadAndTail DEF Has, Serve, IndInv, Formed
  <2> QED BY <1>1, <1>6, <2>1 DEF Has
<1>7. ASSUME NEW r \in Readers, Ask(r)
      PROVE  IndInv'
  <2>1. PICK kind \in Kinds : queue' = Append(queue, [by |-> r, kind |-> kind, call |-> "has"])
    BY <1>7 DEF Ask
  <2>2. queue' \in Seq(Call)
    BY <2>1, AppendProperties DEF Call, IndInv, Formed
  <2> QED BY <1>1, <1>7, <2>2 DEF Ask
<1>8. ASSUME NEW r \in Readers, GoOn(r)
      PROVE  IndInv'
  <2>1. queue' \in Seq(Call)
    BY <1>8, AppendProperties DEF GoOn, Call, IndInv, Formed
  <2> QED BY <1>1, <1>8, <2>1 DEF GoOn
<1>9. CASE UNCHANGED vars
  BY <1>2, <1>9 DEF vars, callers
<1> QED BY <1>3, <1>4, <1>5, <1>6, <1>7, <1>8, <1>9, ReadFileInv, ReadInv, WakesInv
        DEF Next, Serving

-----------------------------------------------------------------------------
(* No reader of a Fifo sleeps on a line or on bytes that are there, however *)
(* many readers there are and however their waits nest.                     *)
THEOREM NobodySleeps == Spec => []NobodySleepsOnInput
<1>1. Init => IndInv
  <2> SUFFICES ASSUME Init PROVE IndInv
    OBVIOUS
  <2>1. queue \in Seq(Call) /\ frames \in Seq(Frame) /\ DOMAIN frames = {}
    BY EmptySeq DEF Init
  <2> QED BY <2>1 DEF IndInv, Formed, NobodySleepsOnInput, Waiting
<1>2. IndInv => NobodySleepsOnInput
  BY DEF IndInv
<1> QED BY <1>1, <1>2, NextInv, PTL DEF Spec

-----------------------------------------------------------------------------
(* What the pipe carried is handed out once.                                *)

(* A line that was returned, or is kept, has left the pipe, and was written.*)
Before(unit) ==
  /\ 2 * line + 1 < unit
  /\ \A i \in DOMAIN returned : 2 * returned[i] + 1 < unit

LinesLeft ==
  /\ Before(next)
  /\ \A k \in DOMAIN pipe : Before(pipe[k])
  /\ line # 0 => \A i \in DOMAIN returned : returned[i] < line

BytesWritten == \A i \in DOMAIN Bytes : Bytes[i] < next

Numeric ==
  /\ {pipe, data, taken, returned} \subseteq Seq(Nat)
  /\ {next, dropped, line} \subseteq Nat

OnceInv == Numeric /\ BytesOnce /\ BytesWritten /\ LinesOnce /\ LinesLeft

(* The end of a read: nothing leaves the pipe.                              *)
LEMMA TakeOnce ==
  ASSUME OnceInv, NEW kind, Take(kind), UNCHANGED <<pipe, next, dropped>>
  PROVE  OnceInv'
<1>1. /\ pipe \in Seq(Nat) /\ data \in Seq(Nat) /\ taken \in Seq(Nat) /\ returned \in Seq(Nat)
      /\ next \in Nat /\ dropped \in Nat /\ line \in Nat
  BY DEF OnceInv, Numeric
<1>2. CASE kind = "line"
  <2>1. returned' = Append(returned, line) /\ line' = 0 /\ UNCHANGED <<data, taken>>
    BY <1>2 DEF Take
  <2>2. /\ returned' \in Seq(Nat) /\ DOMAIN returned' = 1..(Len(returned) + 1)
        /\ DOMAIN returned = 1..Len(returned) /\ Len(returned) \in Nat
        /\ \A i \in 1..Len(returned) : returned'[i] = returned[i]
        /\ returned'[Len(returned) + 1] = line
    BY ONLY <1>1, <2>1, Appended
  <2>3. Bytes' = Bytes
    BY <2>1 DEF Bytes
  <2>4. LinesOnce'
    <3> SUFFICES ASSUME NEW i \in DOMAIN returned', NEW j \in DOMAIN returned',
                        i < j, returned'[i] # 0, returned'[j] # 0
                 PROVE  returned'[i] < returned'[j]
      BY DEF LinesOnce
    <3>1. i \in DOMAIN returned /\ returned'[i] = returned[i]
      BY <2>2
    <3>2. CASE j = Len(returned) + 1
      BY <2>2, <3>1, <3>2 DEF OnceInv, LinesLeft
    <3>3. CASE j \in DOMAIN returned
      BY <2>2, <3>1, <3>3 DEF OnceInv, LinesOnce
    <3> QED BY <2>2, <3>2, <3>3
  <2>5. ASSUME NEW unit \in Nat, Before(unit)
        PROVE  2 * line' + 1 < unit /\ \A i \in DOMAIN returned' : 2 * returned'[i] + 1 < unit
    BY <1>1, <2>1, <2>2, <2>5 DEF Before
  <2>6. \A k \in DOMAIN pipe : pipe[k] \in Nat
    BY <1>1, Numbers
  <2>7. LinesLeft'
    BY <1>1, <2>1, <2>5, <2>6 DEF OnceInv, LinesLeft, Before
  <2> QED BY <1>1, <2>1, <2>2, <2>3, <2>4, <2>7 DEF OnceInv, Numeric, BytesOnce, BytesWritten
<1>3. CASE kind # "line"
  <2>1. taken' = taken \o data /\ data' = <<>> /\ UNCHANGED <<line, returned>>
    BY <1>3 DEF Take
  <2>2. taken' \in Seq(Nat) /\ data' \in Seq(Nat) /\ taken' \o data' = taken'
    BY ONLY <1>1, <2>1, ConcatProperties, ConcatEmptySeq, EmptySeq
  <2>3. Bytes' = Bytes
    BY <2>1, <2>2 DEF Bytes
  <2> QED BY <1>1, <2>1, <2>2, <2>3
          DEF OnceInv, Numeric, BytesOnce, BytesWritten, LinesOnce, LinesLeft, Before
<1> QED BY <1>2, <1>3

LEMMA WriteOnce == OnceInv /\ Write => OnceInv'
<1> SUFFICES ASSUME OnceInv, Write PROVE OnceInv'
  OBVIOUS
<1>1. /\ pipe \in Seq(Nat) /\ data \in Seq(Nat) /\ taken \in Seq(Nat) /\ returned \in Seq(Nat)
      /\ next \in Nat /\ dropped \in Nat /\ line \in Nat
  BY DEF OnceInv, Numeric
<1>2. PICK x \in {next, next + 1} :
        /\ pipe' = Append(pipe, x) /\ next' = x + 1
        /\ x = next + 1 => next % 2 # 1
        /\ UNCHANGED <<data, taken, line, returned, dropped>>
  BY <1>1 DEF Write, IsEnd, stored, results
<1>3. x \in Nat /\ next <= x
  BY <1>1
<1>4. taken \o data \in Seq(Nat) /\ Bytes \in Seq(Nat)
  BY ONLY <1>1, ConcatProperties DEF Bytes
<1>5. Bytes' = Append(Bytes, x)
  <2>1. (taken \o data) \o Append(pipe, x) = Append((taken \o data) \o pipe, x)
    <3>1. taken \o data \in Seq(Nat) /\ pipe \in Seq(Nat) /\ x \in Nat
      BY <1>1, <1>3, <1>4
    <3> QED BY ONLY <3>1, AppendToJoined
  <2> QED BY <1>2, <2>1 DEF Bytes
<1>6. Increasing(Bytes) /\ \A i \in DOMAIN Bytes : Bytes[i] < x
  <2>1. \A i \in DOMAIN Bytes : Bytes[i] \in Nat
    BY <1>4, Numbers
  <2> QED BY <1>1, <1>3, <2>1 DEF OnceInv, BytesOnce, BytesWritten
<1>7. /\ Bytes' \in Seq(Nat) /\ Increasing(Bytes')
      /\ \A i \in DOMAIN Bytes' : Bytes'[i] <= x
      /\ \E i \in DOMAIN Bytes' : Bytes'[i] = x
      /\ \A i \in DOMAIN Bytes : i \in DOMAIN Bytes' /\ Bytes'[i] = Bytes[i]
  BY ONLY <1>3, <1>4, <1>5, <1>6, OneLarger, ZenonT(60)
<1>8. BytesOnce'
  <2>1. ASSUME dropped = 0, NEW n \in 1..MaxLines, 2 * n + 1 < x + 1
        PROVE  \E i \in DOMAIN Bytes' : Bytes'[i] = 2 * n + 1
    <3>1. CASE 2 * n + 1 = x
      BY <1>7, <3>1
    <3>2. CASE 2 * n + 1 # x
      <4>1. 2 * n + 1 < next
        <5>1. n \in Nat /\ (2 * n + 1) % 2 = 1
          BY FifoAssumption
        <5>2. CASE x = next
          BY <1>1, <2>1, <3>2, <5>1, <5>2
        <5>3. CASE x = next + 1 /\ next % 2 # 1
          <6>1. 2 * n + 1 # next
            BY <5>1, <5>3
          <6> QED BY <1>1, <2>1, <3>2, <5>1, <5>3, <6>1
        <5> QED BY <1>2, <5>2, <5>3
      <4> QED BY <1>7, <2>1, <4>1 DEF OnceInv, BytesOnce
    <3> QED BY <3>1, <3>2
  <2> QED BY <1>2, <1>7, <2>1 DEF BytesOnce
<1>9. BytesWritten'
  <2>1. \A i \in DOMAIN Bytes' : Bytes'[i] \in Nat
    BY <1>7, Numbers
  <2> QED BY <1>2, <1>3, <1>7, <2>1 DEF BytesWritten
<1>10. LinesLeft'
  <2>1. Before(x)' /\ Before(x + 1)'
    <3>1. 2 * line + 1 < next /\ \A i \in DOMAIN returned : 2 * returned[i] + 1 < next
      BY DEF OnceInv, LinesLeft, Before
    <3>2. \A i \in DOMAIN returned : returned[i] \in Nat
      BY <1>1, Numbers
    <3>3. 2 * line + 1 < x /\ \A i \in DOMAIN returned : 2 * returned[i] + 1 < x
      BY <1>1, <1>3, <3>1, <3>2
    <3>4. 2 * line + 1 < x + 1 /\ \A i \in DOMAIN returned : 2 * returned[i] + 1 < x + 1
      BY <1>1, <1>3, <3>2, <3>3
    <3> QED BY <1>2, <3>3, <3>4 DEF Before
  <2>2. /\ DOMAIN pipe' = 1..(Len(pipe) + 1) /\ DOMAIN pipe = 1..Len(pipe) /\ Len(pipe) \in Nat
        /\ \A k \in 1..Len(pipe) : pipe'[k] = pipe[k]
        /\ pipe'[Len(pipe) + 1] = x
    BY ONLY <1>1, <1>2, <1>3, Appended
  <2>3. ASSUME NEW k \in DOMAIN pipe' PROVE Before(pipe[k])'
    <3>1. CASE k = Len(pipe) + 1
      BY <2>1, <2>2, <3>1 DEF Before
    <3>2. CASE k \in DOMAIN pipe
      BY <1>2, <2>2, <3>2 DEF OnceInv, LinesLeft, Before
    <3> QED BY <2>2, <3>1, <3>2
  <2> QED BY <1>2, <2>1, <2>3 DEF OnceInv, LinesLeft, Before
<1>11. Numeric'
  BY ONLY <1>1, <1>2, <1>3, Appended DEF Numeric
<1> QED BY <1>2, <1>8, <1>9, <1>10, <1>11 DEF OnceInv, LinesOnce

LEMMA ReadFileOnce == OnceInv /\ ReadFile => OnceInv'
<1> SUFFICES ASSUME OnceInv, ReadFile PROVE OnceInv'
  OBVIOUS
<1>1. /\ pipe \in Seq(Nat) /\ data \in Seq(Nat) /\ taken \in Seq(Nat) /\ returned \in Seq(Nat)
      /\ next \in Nat /\ dropped \in Nat /\ line \in Nat
  BY DEF OnceInv, Numeric
<1>2. PICK n, piece :
        /\ n \in DOMAIN pipe
        /\ piece = SubSeq(pipe, 1, n)
        /\ pipe' = SubSeq(pipe, n + 1, Len(pipe))
        /\ data' = Kept(data \o piece)
        /\ dropped' = dropped + Len(data \o piece) - Len(data')
        /\ \/ UNCHANGED line
           \/ \E last \in DOMAIN piece :
                IsEnd(piece[last]) /\ line' \in {piece[last] \div 2, 0}
        /\ UNCHANGED <<taken, returned, next>>
  BY DEF ReadFile, LinesOf, results
<1>3. piece \in Seq(Nat) /\ pipe' \in Seq(Nat) /\ pipe = piece \o pipe'
  BY ONLY <1>1, <1>2, CutInTwo
<1>4. /\ taken \o data \in Seq(Nat) /\ data \o piece \in Seq(Nat)
      /\ (taken \o data) \o piece \in Seq(Nat) /\ taken \o (data \o piece) = (taken \o data) \o piece
  <2>1. taken \in Seq(Nat) /\ data \in Seq(Nat) /\ piece \in Seq(Nat)
    BY <1>1, <1>3
  <2> QED BY <2>1, NumbersJoined, SMTT(40)
<1>5. Bytes = (taken \o (data \o piece)) \o pipe'
  <2>1. taken \o data \in Seq(Nat) /\ piece \in Seq(Nat) /\ pipe' \in Seq(Nat)
    BY <1>3, <1>4
  <2>2. (taken \o data) \o (piece \o pipe') = ((taken \o data) \o piece) \o pipe'
    BY <2>1, NumbersJoined, SMTT(40)
  <2>3. Bytes = (taken \o data) \o (piece \o pipe')
    BY <1>3 DEF Bytes
  <2> QED BY <1>4, <2>2, <2>3
<1>6. Increasing(Bytes) /\ \A i \in DOMAIN Bytes : Bytes[i] < next
  BY DEF OnceInv, BytesOnce, BytesWritten
<1>7. BytesOnce' /\ BytesWritten' /\ data' \in Seq(Nat) /\ dropped' \in Nat
  <2> DEFINE kept == Len(data \o piece)
  <2>3. kept \in Nat /\ dropped' = dropped + kept - Len(data')
    BY <1>2, <1>4, LenProperties
  <2>1. CASE Len(data \o piece) > Limit
    <3>1. data' = <<>> /\ Len(data') = 0 /\ data' \in Seq(Nat) /\ taken \o data' = taken
      BY ONLY <1>1, <1>2, <2>1, EmptySeq, ConcatEmptySeq DEF Kept
    <3>2. dropped' \in Nat /\ dropped' # 0
      BY <1>1, <2>1, <2>3, <3>1, FifoAssumption
    <3>3. Increasing(taken \o pipe') /\ \A i \in DOMAIN (taken \o pipe') : (taken \o pipe')[i] < next
      BY ONLY <1>1, <1>3, <1>4, <1>5, <1>6, MiddleGone
    <3>4. Bytes' = taken \o pipe'
      BY <1>2, <3>1 DEF Bytes
    <3> QED BY <1>2, <3>1, <3>2, <3>3, <3>4 DEF BytesOnce, BytesWritten
  <2>2. CASE ~(Len(data \o piece) > Limit)
    <3>1. data' = data \o piece
      BY <1>2, <2>2 DEF Kept
    <3>2. dropped' = dropped
      BY <1>1, <2>3, <3>1
    <3>3. Bytes' = Bytes
      BY <1>2, <1>5, <3>1 DEF Bytes
    <3> QED BY <1>1, <1>2, <1>4, <3>1, <3>2, <3>3 DEF OnceInv, BytesOnce, BytesWritten
  <2> QED BY <2>1, <2>2
<1>8. /\ DOMAIN pipe = 1..(Len(piece) + Len(pipe')) /\ Len(piece) \in Nat /\ Len(pipe') \in Nat
      /\ DOMAIN piece = 1..Len(piece) /\ DOMAIN pipe' = 1..Len(pipe')
      /\ \A i \in DOMAIN piece : i \in DOMAIN pipe /\ pipe[i] = piece[i] /\ piece[i] \in Nat
      /\ \A k \in DOMAIN pipe' :
           Len(piece) + k \in DOMAIN pipe /\ pipe[Len(piece) + k] = pipe'[k] /\ pipe'[k] \in Nat
  <2>1. /\ DOMAIN pipe = 1..(Len(piece) + Len(pipe')) /\ Len(piece) \in Nat /\ Len(pipe') \in Nat
        /\ DOMAIN piece = 1..Len(piece) /\ DOMAIN pipe' = 1..Len(pipe')
        /\ \A i \in 1..(Len(piece) + Len(pipe')) :
             pipe[i] = IF i <= Len(piece) THEN piece[i] ELSE pipe'[i - Len(piece)]
    BY ONLY <1>3, Joined
  <2>2. (\A i \in DOMAIN piece : piece[i] \in Nat) /\ \A k \in DOMAIN pipe' : pipe'[k] \in Nat
    BY ONLY <1>3, Numbers
  <2> QED BY <2>1, <2>2
<1>9. Increasing(pipe)
  BY ONLY <1>1, <1>4, <1>6, LaterPart DEF Bytes
<1>10. \A i \in DOMAIN pipe : pipe[i] < next
  <2>1. /\ DOMAIN pipe = 1..Len(pipe) /\ Len(pipe) \in Nat /\ Len(taken \o data) \in Nat
        /\ DOMAIN Bytes = 1..(Len(taken \o data) + Len(pipe))
        /\ \A i \in 1..(Len(taken \o data) + Len(pipe)) :
             Bytes[i] = IF i <= Len(taken \o data) THEN (taken \o data)[i]
                        ELSE pipe[i - Len(taken \o data)]
    BY ONLY <1>1, <1>4, Joined DEF Bytes
  <2>2. ASSUME NEW i \in DOMAIN pipe PROVE pipe[i] < next
    <3>1. Len(taken \o data) + i \in DOMAIN Bytes /\ Bytes[Len(taken \o data) + i] = pipe[i]
      BY <2>1
    <3> QED BY <1>6, <3>1
  <2> QED BY <2>2
<1>11. LinesLeft' /\ line' \in Nat
  <2>1. \A i \in DOMAIN returned : returned[i] \in Nat
    BY <1>1, Numbers
  <2>2. CASE UNCHANGED line
    BY <1>1, <1>2, <1>8, <2>2 DEF OnceInv, LinesLeft, Before
  <2>3. CASE line' = 0
    <3>1. ASSUME NEW unit \in Nat, Before(unit)
          PROVE  2 * line' + 1 < unit /\ \A i \in DOMAIN returned' : 2 * returned'[i] + 1 < unit
      BY <1>1, <1>2, <2>3, <3>1 DEF Before
    <3>2. ASSUME NEW k \in DOMAIN pipe' PROVE Before(pipe[k])'
      BY <1>8, <3>1 DEF OnceInv, LinesLeft, Before
    <3>3. Before(next)'
      BY <1>1, <1>2, <3>1 DEF OnceInv, LinesLeft, Before
    <3> QED BY <2>3, <3>2, <3>3 DEF LinesLeft
  <2>4. ASSUME NEW last \in DOMAIN piece, IsEnd(piece[last]), line' = piece[last] \div 2
        PROVE  LinesLeft' /\ line' \in Nat
    <3>1. line' \in Nat /\ 2 * line' + 1 = piece[last]
      <4>1. piece[last] \in Nat /\ piece[last] % 2 = 1
        BY <1>8, <2>4 DEF IsEnd
      <4> QED BY ONLY <2>4, <4>1
    <3>2. last \in DOMAIN pipe /\ pipe[last] = piece[last]
      BY <1>8
    <3>3. \A i \in DOMAIN returned : 2 * returned[i] + 1 < piece[last]
      BY <3>2 DEF OnceInv, LinesLeft, Before
    <3>4. \A i \in DOMAIN returned : returned[i] < line'
      BY <2>1, <3>1, <3>3
    <3>5. Before(next)'
      BY <1>2, <1>10, <3>1, <3>2 DEF OnceInv, LinesLeft, Before
    <3>6. ASSUME NEW k \in DOMAIN pipe' PROVE Before(pipe[k])'
      <4>1. last < Len(piece) + k /\ Len(piece) + k \in DOMAIN pipe /\ pipe[Len(piece) + k] = pipe'[k]
        BY <1>8
      <4>2. piece[last] < pipe'[k]
        BY <1>9, <3>2, <4>1 DEF Increasing
      <4> QED BY <1>2, <3>1, <4>1, <4>2 DEF OnceInv, LinesLeft, Before
    <3> QED BY <1>2, <3>1, <3>4, <3>5, <3>6 DEF LinesLeft
  <2> QED BY <1>2, <2>2, <2>3, <2>4
<1> QED BY <1>1, <1>2, <1>3, <1>7, <1>11 DEF OnceInv, Numeric, LinesOnce

(* No line is handed out twice or after a later one, and no byte is lost    *)
(* but at the limit, repeated or overtaken, for any readers and sizes.      *)
THEOREM HandedOut == Spec => []HandedOutOnce
<1>1. Init => OnceInv
  <2> SUFFICES ASSUME Init PROVE OnceInv
    OBVIOUS
  <2>1. Numeric
    BY EmptySeq DEF Init, Numeric
  <2>2. Bytes = <<>> /\ DOMAIN Bytes = {}
    BY ConcatEmptySeq, EmptySeq DEF Init, Bytes
  <2>3. BytesOnce /\ BytesWritten
    BY <2>2, FifoAssumption DEF Init, BytesOnce, BytesWritten, Increasing
  <2>4. LinesOnce /\ LinesLeft
    BY DEF Init, LinesOnce, LinesLeft, Before
  <2> QED BY <2>1, <2>3, <2>4 DEF OnceInv
<1>2. OnceInv /\ [Next]_vars => OnceInv'
  <2> SUFFICES ASSUME OnceInv, [Next]_vars PROVE OnceInv'
    OBVIOUS
  <2>1. ASSUME UNCHANGED <<pipe, stored, next, results, dropped>> PROVE OnceInv'
    BY <2>1 DEF stored, results, OnceInv, Numeric, BytesOnce, BytesWritten, Bytes, LinesOnce,
                LinesLeft, Before
  <2>2. CASE Open
    BY <2>1, <2>2 DEF Open
  <2>3. CASE ReadError
    BY <2>1, <2>3 DEF ReadError
  <2>4. CASE Has
    BY <2>1, <2>4 DEF Has
  <2>5. CASE Read
    BY <2>1, <2>5, TakeOnce DEF Read
  <2>6. CASE Wakes
    BY <2>6, TakeOnce DEF Wakes
  <2>7. ASSUME NEW r \in Readers, Ask(r) \/ GoOn(r) PROVE OnceInv'
    BY <2>1, <2>7 DEF Ask, GoOn
  <2>8. CASE UNCHANGED vars
    BY <2>1, <2>8 DEF vars
  <2> QED BY <2>2, <2>3, <2>4, <2>5, <2>6, <2>7, <2>8, ReadFileOnce, WriteOnce DEF Next, Serving
<1>3. OnceInv => HandedOutOnce
  BY DEF OnceInv, HandedOutOnce
<1> QED BY <1>1, <1>2, <1>3, PTL DEF Spec
-----------------------------------------------------------------------------
(* Every blocked reader has one call or one wait.                          *)

(* A queue or a stack has an entry of a reader's, or no two.                *)
By(s, r) == \E i \in DOMAIN s : s[i].by = r
OnceBy(s, r) == \A i, j \in DOMAIN s : s[i].by = r /\ s[j].by = r => i = j

(* The types, with the line that is written next.                          *)
Typed == TypeOK /\ next \in 2..(2 * MaxLines + 2)

(* A reader has a call in the queue or a wait on the stack, one of them,    *)
(* just when it is blocked.                                                *)
ServedOnce ==
  \A r \in Readers :
    /\ OnceBy(queue, r) /\ OnceBy(frames, r)
    /\ ~(By(queue, r) /\ By(frames, r))
    /\ reader[r] = "blocked" <=> By(queue, r) \/ By(frames, r)

LEMMA TailBy ==
  ASSUME NEW S, NEW s \in Seq(S), s # <<>>
  PROVE  /\ \A r : By(s, r) <=> Head(s).by = r \/ By(Tail(s), r)
         /\ \A r : OnceBy(s, r) => OnceBy(Tail(s), r)
         /\ \A r : OnceBy(s, r) /\ Head(s).by = r => ~By(Tail(s), r)
<1>1. /\ Tail(s) \in Seq(S) /\ Head(s) = s[1] /\ Len(Tail(s)) = Len(s) - 1
      /\ \A i \in 1..Len(Tail(s)) : Tail(s)[i] = s[i + 1]
  BY HeadTailProperties
<1>2. /\ DOMAIN s = 1..Len(s) /\ Len(s) \in Nat \ {0}
      /\ DOMAIN Tail(s) = 1..(Len(s) - 1)
  BY <1>1, EmptySeq, LenProperties
<1>3. \A i \in DOMAIN Tail(s) : i + 1 \in DOMAIN s /\ s[i + 1] = Tail(s)[i] /\ i + 1 # 1
  BY <1>1, <1>2
<1>4. /\ 1 \in DOMAIN s
      /\ \A i \in DOMAIN s : i = 1 \/ (i - 1 \in DOMAIN Tail(s) /\ Tail(s)[i - 1] = s[i])
  BY <1>1, <1>2
<1>5. ASSUME NEW r PROVE By(s, r) <=> Head(s).by = r \/ By(Tail(s), r)
  <2>1. By(s, r) => Head(s).by = r \/ By(Tail(s), r)
    BY <1>1, <1>4 DEF By
  <2>2. Head(s).by = r \/ By(Tail(s), r) => By(s, r)
    BY <1>1, <1>3, <1>4 DEF By
  <2> QED BY <2>1, <2>2
<1>6. ASSUME NEW r, OnceBy(s, r) PROVE OnceBy(Tail(s), r)
  <2> SUFFICES ASSUME NEW i \in DOMAIN Tail(s), NEW j \in DOMAIN Tail(s),
                      Tail(s)[i].by = r, Tail(s)[j].by = r
               PROVE  i = j
    BY DEF OnceBy
  <2>1. i + 1 = j + 1
    BY <1>3, <1>6 DEF OnceBy
  <2> QED BY <1>2, <2>1
<1>7. ASSUME NEW r, OnceBy(s, r), Head(s).by = r PROVE ~By(Tail(s), r)
  BY <1>1, <1>3, <1>4, <1>7 DEF OnceBy, By
<1> QED BY <1>5, <1>6, <1>7

LEMMA AppendBy ==
  ASSUME NEW S, NEW s \in Seq(S), NEW x \in S
  PROVE  /\ \A r : By(Append(s, x), r) <=> By(s, r) \/ x.by = r
         /\ \A r : OnceBy(s, r) /\ ~(By(s, r) /\ x.by = r) => OnceBy(Append(s, x), r)
<1>1. /\ DOMAIN Append(s, x) = 1..(Len(s) + 1)
      /\ DOMAIN s = 1..Len(s) /\ Len(s) \in Nat
      /\ \A i \in 1..Len(s) : Append(s, x)[i] = s[i]
      /\ Append(s, x)[Len(s) + 1] = x
  BY Appended
<1>2. /\ \A i \in DOMAIN s : i \in DOMAIN Append(s, x) /\ Append(s, x)[i] = s[i]
      /\ Len(s) + 1 \in DOMAIN Append(s, x)
      /\ \A i \in DOMAIN Append(s, x) : i \in DOMAIN s \/ i = Len(s) + 1
  BY <1>1
<1> QED BY <1>1, <1>2 DEF By, OnceBy

LEMMA FrontBy ==
  ASSUME NEW S, NEW s \in Seq(S), s # <<>>
  PROVE  /\ \A r : By(s, r) <=> By(SubSeq(s, 1, Len(s) - 1), r) \/ s[Len(s)].by = r
         /\ \A r : OnceBy(s, r) => OnceBy(SubSeq(s, 1, Len(s) - 1), r)
         /\ \A r : OnceBy(s, r) /\ s[Len(s)].by = r => ~By(SubSeq(s, 1, Len(s) - 1), r)
<1> DEFINE front == SubSeq(s, 1, Len(s) - 1)
<1>1. Len(s) \in Nat /\ Len(s) # 0 /\ DOMAIN s = 1..Len(s) /\ \A i \in 1..Len(s) : s[i] \in S
  BY EmptySeq, LenProperties, ElementOfSeq
<1>2. /\ Len(front) = Len(s) - 1 /\ front \in Seq(S)
      /\ \A i \in 1..(Len(s) - 1) : front[i] = s[i]
  BY <1>1, SubSeqProperties
<1>3. DOMAIN front = 1..(Len(s) - 1)
  BY <1>2, LenProperties
<1> HIDE DEF front
<1>4. /\ \A i \in DOMAIN front : i \in DOMAIN s /\ front[i] = s[i] /\ i # Len(s)
      /\ Len(s) \in DOMAIN s
      /\ \A i \in DOMAIN s : i \in DOMAIN front \/ i = Len(s)
  BY <1>1, <1>2, <1>3
<1>5. /\ \A r : By(s, r) <=> By(front, r) \/ s[Len(s)].by = r
      /\ \A r : OnceBy(s, r) => OnceBy(front, r)
      /\ \A r : OnceBy(s, r) /\ s[Len(s)].by = r => ~By(front, r)
  BY <1>4 DEF By, OnceBy
<1> QED BY <1>5 DEF front
(* Telling the loops changes nobody's wait.                                *)
LEMMA ToldBy ==
  ASSUME NEW kinds, Tell(kinds), frames \in Seq(Frame)
  PROVE  \A r : (By(frames', r) <=> By(frames, r)) /\ (OnceBy(frames, r) => OnceBy(frames', r))
<1>1. DOMAIN frames' = DOMAIN frames
  BY DEF Tell
<1>2. \A i \in DOMAIN frames : frames'[i].by = frames[i].by
  <2> SUFFICES ASSUME NEW i \in DOMAIN frames PROVE frames'[i].by = frames[i].by
    OBVIOUS
  <2>1. frames[i] \in Frame
    BY LenProperties, ElementOfSeq
  <2>2. frames'[i] = [frames[i] EXCEPT !.told = @ \/ frames[i].kind \in kinds]
    BY DEF Tell
  <2> QED BY <2>1, <2>2 DEF Frame
<1> QED BY <1>1, <1>2 DEF By, OnceBy

LEMMA ServedKept ==
  ASSUME Typed, ServedOnce, [Next]_vars
  PROVE  ServedOnce'
<1>1. /\ queue \in Seq(Call) /\ frames \in Seq(Frame)
      /\ reader \in [Readers -> {"idle", "blocked"} \cup Kinds]
  BY DEF Typed, TypeOK
<1>2. ASSUME UNCHANGED <<queue, frames, reader>> PROVE ServedOnce'
  BY <1>2 DEF ServedOnce, By, OnceBy
<1>3. CASE Open \/ ReadError \/ Write \/ UNCHANGED vars
  BY <1>2, <1>3 DEF Open, ReadError, Write, vars, callers
<1>4. CASE ReadFile
  <2>1. PICK kinds : Tell(kinds)
    BY <1>4 DEF ReadFile
  <2>2. \A r : (By(frames', r) <=> By(frames, r)) /\ (OnceBy(frames, r) => OnceBy(frames', r))
    BY <1>1, <2>1, ToldBy
  <2>3. queue' = queue /\ reader' = reader
    BY <1>4 DEF ReadFile, callers
  <2>4. ASSUME NEW r \in Readers
        PROVE  /\ OnceBy(queue', r) /\ OnceBy(frames', r)
               /\ ~(By(queue', r) /\ By(frames', r))
               /\ reader'[r] = "blocked" <=> By(queue', r) \/ By(frames', r)
    BY <2>2, <2>3 DEF ServedOnce
  <2> QED BY <2>4 DEF ServedOnce, By, OnceBy
<1>5. CASE Has \/ (Read /\ ~Empty(Head(queue).kind))
  <2> DEFINE q == Head(queue).by
  <2>1. /\ queue # <<>> /\ queue' = Tail(queue) /\ frames' = frames
        /\ \E does \in Kinds \cup {"idle"} : reader' = [reader EXCEPT ![q] = does]
    <3>1. queue # <<>> /\ queue' = Tail(queue) /\ frames' = frames
      BY <1>5 DEF Has, Read, Serve
    <3>2. Head(queue).kind \in Kinds
      BY <1>1, <3>1, HeadAndTail DEF Call
    <3>3. \E does \in Kinds \cup {"idle"} : reader' = [reader EXCEPT ![q] = does]
      BY <1>5, <3>2 DEF Has, Read
    <3> QED BY <3>1, <3>3
  <2> HIDE DEF q
  <2>2. PICK does \in Kinds \cup {"idle"} : reader' = [reader EXCEPT ![q] = does]
    BY <2>1
  <2>3. \A r \in Readers : reader'[r] = IF r = q THEN does ELSE reader[r]
    BY <1>1, <2>2
  <2>4. does # "blocked"
    BY DEF Kinds
  <2>5. /\ \A r : By(queue, r) <=> q = r \/ By(queue', r)
        /\ \A r : OnceBy(queue, r) => OnceBy(queue', r)
        /\ \A r : OnceBy(queue, r) /\ q = r => ~By(queue', r)
    BY <1>1, <2>1, TailBy DEF q
  <2>6. ASSUME NEW r \in Readers
        PROVE  /\ OnceBy(queue', r) /\ OnceBy(frames', r)
               /\ ~(By(queue', r) /\ By(frames', r))
               /\ reader'[r] = "blocked" <=> By(queue', r) \/ By(frames', r)
    BY <2>1, <2>3, <2>4, <2>5 DEF ServedOnce
  <2> QED BY <2>6 DEF ServedOnce, By, OnceBy
<1>6. CASE Read /\ Empty(Head(queue).kind)
  <2> DEFINE call == Head(queue)
             frame == [by |-> call.by, kind |-> call.kind, told |-> FALSE]
  <2>1. queue # <<>> /\ queue' = Tail(queue) /\ frames' = Append(frames, frame) /\ reader' = reader
    BY <1>6 DEF Read, Serve
  <2>2. frame \in Frame /\ frame.by = call.by
    <3>1. call \in Call
      BY <1>1, <2>1, HeadAndTail
    <3> QED BY <3>1 DEF Call, Frame
  <2> HIDE DEF frame, call
  <2>3. /\ \A r : By(frames', r) <=> By(frames, r) \/ call.by = r
        /\ \A r : OnceBy(frames, r) /\ ~(By(frames, r) /\ call.by = r) => OnceBy(frames', r)
    BY <1>1, <2>1, <2>2, AppendBy
  <2>4. /\ \A r : By(queue, r) <=> call.by = r \/ By(queue', r)
        /\ \A r : OnceBy(queue, r) => OnceBy(queue', r)
        /\ \A r : OnceBy(queue, r) /\ call.by = r => ~By(queue', r)
    BY <1>1, <2>1, TailBy DEF call
  <2>5. ASSUME NEW r \in Readers
        PROVE  /\ OnceBy(queue', r) /\ OnceBy(frames', r)
               /\ ~(By(queue', r) /\ By(frames', r))
               /\ reader'[r] = "blocked" <=> By(queue', r) \/ By(frames', r)
    BY <2>1, <2>3, <2>4 DEF ServedOnce
  <2> QED BY <2>5 DEF ServedOnce, By, OnceBy
<1>7. CASE Wakes
  <2> DEFINE q == frames[Len(frames)].by
  <2>1. /\ frames # <<>> /\ frames' = SubSeq(frames, 1, Len(frames) - 1) /\ queue' = queue
        /\ reader' = [reader EXCEPT ![q] = "idle"]
    BY <1>7 DEF Wakes
  <2> HIDE DEF q
  <2>2. \A r \in Readers : reader'[r] = IF r = q THEN "idle" ELSE reader[r]
    BY <1>1, <2>1
  <2>3. /\ \A r : By(frames, r) <=> By(frames', r) \/ q = r
        /\ \A r : OnceBy(frames, r) => OnceBy(frames', r)
        /\ \A r : OnceBy(frames, r) /\ q = r => ~By(frames', r)
    BY <1>1, <2>1, FrontBy DEF q
  <2>4. ASSUME NEW r \in Readers
        PROVE  /\ OnceBy(queue', r) /\ OnceBy(frames', r)
               /\ ~(By(queue', r) /\ By(frames', r))
               /\ reader'[r] = "blocked" <=> By(queue', r) \/ By(frames', r)
    BY <2>1, <2>2, <2>3 DEF ServedOnce
  <2> QED BY <2>4 DEF ServedOnce, By, OnceBy
<1>8. ASSUME NEW q \in Readers, Ask(q) \/ GoOn(q)
      PROVE  ServedOnce'
  <2>1. PICK call \in Call : call.by = q /\ queue' = Append(queue, call)
    <3>1. CASE Ask(q)
      <4>1. PICK kind \in Kinds : queue' = Append(queue, [by |-> q, kind |-> kind, call |-> "has"])
        BY <3>1 DEF Ask
      <4>2. [by |-> q, kind |-> kind, call |-> "has"] \in Call
        BY DEF Call
      <4> QED BY <4>1, <4>2
    <3>2. CASE GoOn(q)
      <4>1. reader[q] \in Kinds /\ queue' = Append(queue, [by |-> q, kind |-> reader[q], call |-> "read"])
        BY <3>2 DEF GoOn
      <4>2. [by |-> q, kind |-> reader[q], call |-> "read"] \in Call
        BY <4>1 DEF Call
      <4> QED BY <4>1, <4>2
    <3> QED BY <1>8, <3>1, <3>2
  <2>2. /\ reader[q] # "blocked" /\ frames' = frames
        /\ reader' = [reader EXCEPT ![q] = "blocked"]
    BY <1>8 DEF Ask, GoOn, Kinds
  <2>3. \A r \in Readers : reader'[r] = IF r = q THEN "blocked" ELSE reader[r]
    BY <1>1, <2>2
  <2>4. /\ \A r : By(queue', r) <=> By(queue, r) \/ q = r
        /\ \A r : OnceBy(queue, r) /\ ~(By(queue, r) /\ q = r) => OnceBy(queue', r)
    BY <1>1, <2>1, AppendBy
  <2>5. ASSUME NEW r \in Readers
        PROVE  /\ OnceBy(queue', r) /\ OnceBy(frames', r)
               /\ ~(By(queue', r) /\ By(frames', r))
               /\ reader'[r] = "blocked" <=> By(queue', r) \/ By(frames', r)
    BY <2>2, <2>3, <2>4 DEF ServedOnce
  <2> QED BY <2>5 DEF ServedOnce, By, OnceBy
<1> QED BY <1>3, <1>4, <1>5, <1>6, <1>7, <1>8 DEF Next, Serving
(* What is left of the bytes at hand is some of them.                      *)
LEMMA RestTyped ==
  ASSUME NEW S, NEW bytes \in Seq(S)
  PROVE  RestOf(bytes) \in Seq(S)
<1> DEFINE gone == {i \in DOMAIN bytes : \E j \in DOMAIN bytes : i <= j /\ IsEnd(bytes[j])}
           n == Cardinality(gone)
<1>1. DOMAIN bytes = 1..Len(bytes) /\ Len(bytes) \in Nat /\ \A i \in 1..Len(bytes) : bytes[i] \in S
  BY LenProperties, ElementOfSeq
<1>2. n \in Nat
  <2>1. IsFiniteSet(1..Len(bytes)) /\ gone \in SUBSET (1..Len(bytes))
    BY <1>1, FS_Interval
  <2>2. IsFiniteSet(gone)
    BY ONLY <2>1, FS_Subset
  <2> QED BY ONLY <2>2, FS_CardinalityType
<1>3. RestOf(bytes) = SubSeq(bytes, n + 1, Len(bytes))
  BY DEF RestOf
<1> HIDE DEF n
<1>4. \A i \in (n + 1)..Len(bytes) : bytes[i] \in S
  BY <1>1, <1>2
<1>5. SubSeq(bytes, n + 1, Len(bytes)) \in Seq(S)
  BY <1>1, <1>2, <1>4, SubSeqProperties
<1> QED BY <1>3, <1>5

(* The end of a line has the line's number.                                *)
LEMMA LineOfEnd ==
  ASSUME NEW unit \in Units, IsEnd(unit)
  PROVE  unit \div 2 \in 1..MaxLines
BY FifoAssumption DEF Units, IsEnd

LEMMA TypedTake ==
  ASSUME Typed, NEW kind, Take(kind)
  PROVE  /\ data' \in Seq(Units) /\ taken' \in Seq(Units) /\ Len(data') <= Limit
         /\ line' \in 0..MaxLines /\ returned' \in Seq(0..MaxLines)
<1>1. /\ data \in Seq(Units) /\ taken \in Seq(Units) /\ Len(data) <= Limit
      /\ line \in 0..MaxLines /\ returned \in Seq(0..MaxLines)
      /\ 0 \in 0..MaxLines /\ Len(<<>>) <= Limit
  BY FifoAssumption DEF Typed, TypeOK
<1>2. taken \o data \in Seq(Units) /\ <<>> \in Seq(Units)
  BY ONLY <1>1, ConcatProperties, EmptySeq
<1>3. Append(returned, line) \in Seq(0..MaxLines)
  BY ONLY <1>1, AppendProperties
<1> QED BY <1>1, <1>2, <1>3 DEF Take

(* readFile leaves bytes, and the number of a line, or 0.                   *)
LEMMA TypedReadFile ==
  ASSUME Typed, ReadFile
  PROVE  /\ {pipe, rest, data}' \subseteq Seq(Units) /\ Len(data') <= Limit
         /\ line' \in 0..MaxLines /\ dropped' \in Nat /\ frames' \in Seq(Frame)
<1>1. /\ pipe \in Seq(Units) /\ rest \in Seq(Units) /\ data \in Seq(Units)
      /\ line \in 0..MaxLines /\ dropped \in Nat /\ frames \in Seq(Frame)
  BY DEF Typed, TypeOK
<1>2. PICK n, piece, kinds :
        /\ n \in DOMAIN pipe
        /\ piece = SubSeq(pipe, 1, n)
        /\ pipe' = SubSeq(pipe, n + 1, Len(pipe))
        /\ rest' = RestOf(rest \o piece)
        /\ data' = Kept(data \o piece)
        /\ dropped' = dropped + Len(data \o piece) - Len(data')
        /\ \/ UNCHANGED line
           \/ \E last \in DOMAIN piece :
                IsEnd(piece[last]) /\ line' \in {piece[last] \div 2, 0}
        /\ Tell(kinds)
  BY DEF ReadFile, LinesOf
<1>3. piece \in Seq(Units) /\ pipe' \in Seq(Units)
  BY ONLY <1>1, <1>2, CutInTwo
<1>4. rest \o piece \in Seq(Units) /\ data \o piece \in Seq(Units)
  BY ONLY <1>1, <1>3, ConcatProperties
<1>5. rest' \in Seq(Units)
  BY ONLY <1>2, <1>4, RestTyped
<1>6. data' \in Seq(Units) /\ Len(data') <= Limit /\ dropped' \in Nat
  <2> DEFINE kept == Len(data \o piece)
  <2>1. kept \in Nat /\ dropped' = dropped + kept - Len(data')
    BY <1>2, <1>4, LenProperties
  <2>2. CASE kept > Limit
    <3>1. data' = <<>> /\ Len(data') = 0 /\ data' \in Seq(Units)
      BY ONLY <1>2, <2>2, EmptySeq DEF Kept
    <3> QED BY <1>1, <2>1, <3>1, FifoAssumption
  <2>3. CASE ~(kept > Limit)
    <3>1. data' = data \o piece
      BY <1>2, <2>3 DEF Kept
    <3> QED BY <1>1, <1>4, <2>1, <2>3, <3>1, FifoAssumption
  <2> QED BY <2>2, <2>3
<1>7. line' \in 0..MaxLines
  <2>1. \A i \in DOMAIN piece : piece[i] \in Units
    BY <1>3, LenProperties, ElementOfSeq
  <2>2. ASSUME NEW last \in DOMAIN piece, IsEnd(piece[last]), line' \in {piece[last] \div 2, 0}
        PROVE  line' \in 0..MaxLines
    BY <2>1, <2>2, LineOfEnd, FifoAssumption
  <2> QED BY <1>1, <1>2, <2>2
<1>8. frames' \in Seq(Frame)
  BY <1>1, <1>2, ToldFrames
<1> QED BY <1>3, <1>5, <1>6, <1>7, <1>8
LEMMA TypedKept ==
  ASSUME Typed, [Next]_vars
  PROVE  Typed'
<1>1. /\ status \in Statuses /\ notifier \in BOOLEAN
      /\ pipe \in Seq(Units) /\ rest \in Seq(Units) /\ data \in Seq(Units) /\ taken \in Seq(Units)
      /\ Len(data) <= Limit /\ line \in 0..MaxLines
      /\ queue \in Seq(Call) /\ frames \in Seq(Frame)
      /\ reader \in [Readers -> {"idle", "blocked"} \cup Kinds]
      /\ returned \in Seq(0..MaxLines) /\ dropped \in Nat
      /\ next \in 2..(2 * MaxLines + 2)
  BY DEF Typed, TypeOK
<1>2. CASE Open \/ ReadError
  <2>1. status' \in Statuses /\ notifier' \in BOOLEAN
    BY <1>1, <1>2 DEF Open, ReadError, Statuses, Changed, Target, Failed
  <2> QED BY <1>1, <1>2, <2>1 DEF Open, ReadError, stored, callers, results, Typed, TypeOK
<1>3. CASE ReadFile
  BY <1>1, <1>3, TypedReadFile DEF ReadFile, device, callers, results, Typed, TypeOK
<1>4. CASE Has \/ Read
  <2>1. queue # <<>> /\ queue' = Tail(queue) /\ UNCHANGED <<device, pipe, rest, next, dropped>>
    BY <1>4 DEF Has, Read, Serve
  <2>2. Head(queue) \in Call /\ queue' \in Seq(Call)
    BY <1>1, <2>1, HeadAndTail
  <2>3. reader' \in [Readers -> {"idle", "blocked"} \cup Kinds]
    BY <1>1, <1>4, <2>2 DEF Has, Read, Call
  <2>4. frames' \in Seq(Frame)
    <3>1. [by |-> Head(queue).by, kind |-> Head(queue).kind, told |-> FALSE] \in Frame
      BY <2>2 DEF Call, Frame
    <3>2. Append(frames, [by |-> Head(queue).by, kind |-> Head(queue).kind, told |-> FALSE]) \in Seq(Frame)
      BY <1>1, <3>1, AppendProperties
    <3> QED BY <1>1, <1>4, <3>2 DEF Has, Read
  <2>5. /\ data' \in Seq(Units) /\ taken' \in Seq(Units) /\ Len(data') <= Limit
        /\ line' \in 0..MaxLines /\ returned' \in Seq(0..MaxLines)
    <3>1. CASE UNCHANGED <<stored, results>>
      BY <1>1, <3>1 DEF stored, results
    <3>2. CASE Take(Head(queue).kind)
      BY <3>2, TypedTake
    <3> QED BY <1>4, <3>1, <3>2 DEF Has, Read
  <2> QED BY <1>1, <2>1, <2>2, <2>3, <2>4, <2>5 DEF device, Typed, TypeOK
<1>5. CASE Wakes
  <2>1. /\ frames # <<>> /\ frames' = SubSeq(frames, 1, Len(frames) - 1)
        /\ Take(frames[Len(frames)].kind)
        /\ reader' = [reader EXCEPT ![frames[Len(frames)].by] = "idle"]
        /\ UNCHANGED <<device, pipe, rest, queue, next, dropped>>
    BY <1>5 DEF Wakes
  <2>2. frames' \in Seq(Frame)
    BY <1>1, <2>1, WithoutLast
  <2>3. reader' \in [Readers -> {"idle", "blocked"} \cup Kinds]
    BY <1>1, <2>1
  <2>4. /\ data' \in Seq(Units) /\ taken' \in Seq(Units) /\ Len(data') <= Limit
        /\ line' \in 0..MaxLines /\ returned' \in Seq(0..MaxLines)
    BY <2>1, TypedTake
  <2> QED BY <1>1, <2>1, <2>2, <2>3, <2>4 DEF device, Typed, TypeOK
<1>6. CASE Write
  <2>1. PICK x \in {next, next + 1} :
          /\ pipe' = Append(pipe, x) /\ next' = x + 1 /\ next <= 2 * MaxLines + 1
          /\ x = next + 1 => next % 2 # 1
    BY <1>1, <1>6 DEF Write, IsEnd
  <2>2. x \in Units
    <3>1. MaxLines \in Nat /\ next \in Nat /\ 2 <= next
      BY <1>1, FifoAssumption
    <3>2. (2 * MaxLines + 1) % 2 = 1
      BY <3>1
    <3>3. x = next + 1 => next # 2 * MaxLines + 1
      BY <2>1, <3>2
    <3> QED BY <2>1, <3>1, <3>3 DEF Units
  <2>3. pipe' \in Seq(Units)
    BY ONLY <1>1, <2>1, <2>2, AppendProperties
  <2>4. next' \in 2..(2 * MaxLines + 2)
    BY <2>1, <2>2, FifoAssumption DEF Units
  <2> QED BY <1>1, <1>6, <2>3, <2>4 DEF Write, device, stored, callers, results, Typed, TypeOK
<1>7. ASSUME NEW r \in Readers, Ask(r) \/ GoOn(r)
      PROVE  Typed'
  <2>1. queue' \in Seq(Call)
    <3>1. CASE Ask(r)
      <4>1. PICK kind \in Kinds : queue' = Append(queue, [by |-> r, kind |-> kind, call |-> "has"])
        BY <3>1 DEF Ask
      <4>2. [by |-> r, kind |-> kind, call |-> "has"] \in Call
        BY DEF Call
      <4> QED BY <1>1, <4>1, <4>2, AppendProperties
    <3>2. CASE GoOn(r)
      <4>1. [by |-> r, kind |-> reader[r], call |-> "read"] \in Call
        BY <3>2 DEF GoOn, Call
      <4> QED BY <1>1, <3>2, <4>1, AppendProperties DEF GoOn
    <3> QED BY <1>7, <3>1, <3>2
  <2>2. reader' \in [Readers -> {"idle", "blocked"} \cup Kinds]
    BY <1>1, <1>7 DEF Ask, GoOn
  <2> QED BY <1>1, <1>7, <2>1, <2>2 DEF Ask, GoOn, device, stored, results, Typed, TypeOK
<1>8. CASE UNCHANGED vars
  BY <1>1, <1>8 DEF vars, device, stored, callers, results, Typed, TypeOK
<1> QED BY <1>2, <1>3, <1>4, <1>5, <1>6, <1>7, <1>8 DEF Next, Serving

LEMMA AtMostOne ==
  ASSUME NEW S, \A x, y \in S : x = y
  PROVE  Cardinality(S) = IF S = {} THEN 0 ELSE 1
<1>1. CASE S = {}
  BY <1>1, FS_EmptySet
<1>2. CASE S # {}
  <2>1. PICK x \in S : S = {x}
    BY <1>2
  <2> QED BY <1>2, <2>1, FS_Singleton
<1> QED BY <1>1, <1>2

(* The types are kept, no more than the limit is, and every reader that is  *)
(* blocked has one call in the queue or one wait on the worker's stack, and *)
(* nobody else has one, for any number of readers, lines and calls.         *)
THEOREM KeepTogether == Spec => []Consistent
<1>1. Init => Typed /\ ServedOnce
  <2> SUFFICES ASSUME Init PROVE Typed /\ ServedOnce
    OBVIOUS
  <2>1. TypeOK
    <3>1. /\ {pipe, rest, data, taken} \subseteq Seq(Units) /\ Len(data) = 0
          /\ queue \in Seq(Call) /\ frames \in Seq(Frame) /\ returned \in Seq(0..MaxLines)
      BY EmptySeq DEF Init
    <3>2. status \in Statuses /\ notifier \in BOOLEAN
      BY DEF Init, Statuses
    <3> QED BY <3>1, <3>2, FifoAssumption DEF Init, TypeOK
  <2>2. next \in 2..(2 * MaxLines + 2)
    BY FifoAssumption DEF Init
  <2>3. ServedOnce
    BY DEF Init, ServedOnce, By, OnceBy
  <2> QED BY <2>1, <2>2, <2>3 DEF Typed
<1>2. (Typed /\ ServedOnce) /\ [Next]_vars => (Typed /\ ServedOnce)'
  BY TypedKept, ServedKept
<1>3. ASSUME Typed, ServedOnce PROVE Consistent
  <2>1. ASSUME NEW r \in Readers
        PROVE  Cardinality({i \in DOMAIN queue : queue[i].by = r})
                 + Cardinality({i \in DOMAIN frames : frames[i].by = r})
                   = (IF reader[r] = "blocked" THEN 1 ELSE 0)
    <3> DEFINE Q == {i \in DOMAIN queue : queue[i].by = r}
               F == {i \in DOMAIN frames : frames[i].by = r}
    <3>1. (\A x, y \in Q : x = y) /\ (\A x, y \in F : x = y)
      BY <1>3 DEF ServedOnce, OnceBy
    <3>2. (Q = {} <=> ~By(queue, r)) /\ (F = {} <=> ~By(frames, r))
      BY DEF By
    <3> HIDE DEF Q, F
    <3>3. Cardinality(Q) = (IF Q = {} THEN 0 ELSE 1) /\ Cardinality(F) = (IF F = {} THEN 0 ELSE 1)
      BY ONLY <3>1, AtMostOne
    <3>4. Cardinality(Q) + Cardinality(F) = (IF reader[r] = "blocked" THEN 1 ELSE 0)
      BY <1>3, <3>2, <3>3 DEF ServedOnce
    <3> QED BY <3>4 DEF Q, F
  <2> QED BY <1>3, <2>1 DEF Consistent, BlockedIsServed, Typed
<1> QED BY <1>1, <1>2, <1>3, PTL DEF Spec
=============================================================================
