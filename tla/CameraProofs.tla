---------------------------- MODULE CameraProofs ----------------------------
(***************************************************************************)
(* Theorems about the camera's buffers, for every set of buffers and of     *)
(* threads that take photos, and for every length of the manager's queue.   *)
(***************************************************************************)
EXTENDS CameraProperties, SequenceTheorems, FiniteSetTheorems, TLAPS

Has(s, x) == \E i \in DOMAIN s : s[i] = x
OnceIn(s, x) == \A i, j \in DOMAIN s : s[i] = x /\ s[j] = x => i = j
Return(b) == [kind |-> "return", buf |-> b]

(* Who has a Frame, has its buffer.                                         *)
HoldersHaveFrames ==
  \A c \in Clients : at[c] \in {"holding", "posting"} <=> frame[c] # NoBuffer
Typed == TypeOK /\ HoldersHaveFrames

(* No buffer is lost: each is in the driver, refused by it, on its way to   *)
(* it, or counted, and never counted for more than its claims, even when a  *)
(* frame has outlived its stream.                                           *)
NotLost ==
  streaming => \A b \in Buffers : b \in queued \cup refused \/ OnItsWay(b) \/ refs[b] >= 1
NotOver == \A b \in Buffers : refs[b] <= Claims(b)

(* As long as no frame has outlived its stream: a token's count is exact, a *)
(* buffer that is claimed is neither in the driver nor on its way there,    *)
(* one that is on its way is so once, and not in the driver; and a stopped  *)
(* stream has no frame out.                                                 *)
Exact ==
  \A b \in Buffers :
    /\ refs[b] = Claims(b)
    /\ b \in queued \/ OnItsWay(b) => Claims(b) = 0
    /\ b \in queued => ~OnItsWay(b)
OnceOnItsWay ==
  \A b \in Buffers :
    /\ OnceIn(mq, Return(b))
    /\ \A c, d \in Clients :
         /\ at[c] = "posting" /\ frame[c] = b
         /\ at[d] = "posting" /\ frame[d] = b
         => c = d
    /\ \A c \in Clients : at[c] = "posting" /\ frame[c] = b => ~Has(mq, Return(b))
Orderly == outlived \/ (Exact /\ OnceOnItsWay /\ (~streaming => ~FramesOut))

(* The inductive invariant.                                                *)
IndInv == Typed /\ NothingStaleToDeliver /\ NotLost /\ NotOver /\ Orderly

-----------------------------------------------------------------------------
(* What the provers need of sequences.                                     *)

LEMMA HeadAndTail ==
  ASSUME NEW S, NEW s \in Seq(S), s # <<>>
  PROVE  /\ Head(s) \in S /\ Tail(s) \in Seq(S)
         /\ Has(s, Head(s))
         /\ \A x : x # Head(s) => (Has(Tail(s), x) <=> Has(s, x))
         /\ \A x : OnceIn(s, x) => OnceIn(Tail(s), x)
         /\ OnceIn(s, Head(s)) => ~Has(Tail(s), Head(s))
<1>1. /\ Head(s) \in S /\ Tail(s) \in Seq(S) /\ Head(s) = s[1]
      /\ Len(Tail(s)) = Len(s) - 1
      /\ \A i \in 1..Len(Tail(s)) : Tail(s)[i] = s[i + 1]
  BY HeadTailProperties
<1>2. /\ DOMAIN s = 1..Len(s) /\ Len(s) \in Nat \ {0}
      /\ DOMAIN Tail(s) = 1..(Len(s) - 1)
  BY <1>1, EmptySeq, LenProperties
<1>3. ASSUME NEW x, Has(Tail(s), x) PROVE Has(s, x)
  BY <1>1, <1>2, <1>3 DEF Has
<1>4. ASSUME NEW x, Has(s, x), x # Head(s) PROVE Has(Tail(s), x)
  <2>1. PICK i \in DOMAIN s : s[i] = x
    BY <1>4 DEF Has
  <2>2. i - 1 \in DOMAIN Tail(s) /\ Tail(s)[i - 1] = s[i]
    BY <1>1, <1>2, <1>4, <2>1
  <2> QED BY <2>1, <2>2 DEF Has
<1>5. ASSUME NEW x, OnceIn(s, x) PROVE OnceIn(Tail(s), x)
  <2> SUFFICES ASSUME NEW i \in DOMAIN Tail(s), NEW j \in DOMAIN Tail(s), Tail(s)[i] = x, Tail(s)[j] = x
               PROVE  i = j
    BY DEF OnceIn
  <2>1. i + 1 \in DOMAIN s /\ j + 1 \in DOMAIN s /\ s[i + 1] = x /\ s[j + 1] = x
    BY <1>1, <1>2
  <2>2. i + 1 = j + 1
    BY <1>5, <2>1 DEF OnceIn
  <2> QED BY <1>2, <2>2
<1>6. ASSUME OnceIn(s, Head(s)), Has(Tail(s), Head(s)) PROVE FALSE
  <2>1. PICK i \in DOMAIN Tail(s) : Tail(s)[i] = Head(s)
    BY <1>6 DEF Has
  <2>2. /\ i + 1 \in DOMAIN s /\ s[i + 1] = Head(s) /\ i + 1 # 1
        /\ 1 \in DOMAIN s /\ s[1] = Head(s)
    BY <1>1, <1>2, <2>1
  <2> QED BY <1>6, <2>2 DEF OnceIn
<1>7. Has(s, Head(s))
  BY <1>1, <1>2 DEF Has
<1> QED BY <1>1, <1>3, <1>4, <1>5, <1>6, <1>7

LEMMA Joined ==
  ASSUME NEW S, NEW s \in Seq(S), NEW t \in Seq(S)
  PROVE  /\ s \o t \in Seq(S)
         /\ \A x : ~Has(t, x) => (Has(s \o t, x) <=> Has(s, x)) /\ (OnceIn(s, x) => OnceIn(s \o t, x))
         /\ \A x : ~Has(s, x) => (Has(s \o t, x) <=> Has(t, x)) /\ (OnceIn(t, x) => OnceIn(s \o t, x))
<1>1. /\ s \o t \in Seq(S)
      /\ DOMAIN s = 1..Len(s) /\ Len(s) \in Nat
      /\ DOMAIN t = 1..Len(t) /\ Len(t) \in Nat
      /\ DOMAIN (s \o t) = 1..(Len(s) + Len(t))
      /\ \A i \in 1..(Len(s) + Len(t)) :
           (s \o t)[i] = IF i <= Len(s) THEN s[i] ELSE t[i - Len(s)]
  BY ConcatProperties, LenProperties
<1>2. ASSUME NEW i \in DOMAIN (s \o t)
      PROVE  \/ i \in DOMAIN s /\ (s \o t)[i] = s[i]
             \/ i - Len(s) \in DOMAIN t /\ (s \o t)[i] = t[i - Len(s)]
  BY <1>1
<1>3. \A i \in DOMAIN s : i \in DOMAIN (s \o t) /\ (s \o t)[i] = s[i]
  BY <1>1
<1>4. ASSUME NEW i \in DOMAIN t
      PROVE  Len(s) + i \in DOMAIN (s \o t) /\ (s \o t)[Len(s) + i] = t[i]
  <2>1. /\ Len(s) + i \in DOMAIN (s \o t) /\ ~(Len(s) + i <= Len(s))
        /\ (Len(s) + i) - Len(s) = i
    BY <1>1
  <2> QED BY <1>1, <2>1
<1>5. \A x : Has(s \o t, x) <=> Has(s, x) \/ Has(t, x)
  BY <1>2, <1>3, <1>4 DEF Has
<1>6. ASSUME NEW x, ~Has(t, x), OnceIn(s, x) PROVE OnceIn(s \o t, x)
  BY <1>2, <1>6 DEF Has, OnceIn
<1>7. ASSUME NEW x, ~Has(s, x), OnceIn(t, x) PROVE OnceIn(s \o t, x)
  <2> SUFFICES ASSUME NEW i \in DOMAIN (s \o t), NEW j \in DOMAIN (s \o t), (s \o t)[i] = x, (s \o t)[j] = x
               PROVE  i = j
    BY DEF OnceIn
  <2>1. /\ i - Len(s) \in DOMAIN t /\ t[i - Len(s)] = x
        /\ j - Len(s) \in DOMAIN t /\ t[j - Len(s)] = x
    BY <1>2, <1>7 DEF Has
  <2>2. i - Len(s) = j - Len(s)
    BY <1>7, <2>1 DEF OnceIn
  <2> QED BY <1>1, <2>2
<1> QED BY <1>1, <1>5, <1>6, <1>7

-----------------------------------------------------------------------------
(* Steps that touch no buffer                                              *)

(* Calls into the manager, and what a client does without a Frame.          *)
Aside ==
  /\ \E events \in Seq(Event) :
       mq' = mq \o events /\ \A b \in Buffers : ~Has(events, Return(b))
  /\ UNCHANGED <<device, pool, frame>>
  /\ at' \in [Clients -> Places]
  /\ \A c \in Clients :
       at'[c] = at[c] \/ {at[c], at'[c]} \subseteq {"idle", "waiting", "dropped"}

LEMMA CallsAreEvents ==
  ASSUME NEW kind \in {"acquire", "release", "stop", "close"}
  PROVE  /\ <<Call(kind)>> \in Seq(Event)
         /\ \A b \in Buffers : ~Has(<<Call(kind)>>, Return(b))
<1>1. Call(kind) \in Event
  BY DEF Call, Event
<1>2. \A b \in Buffers : Return(b) # Call(kind)
  BY DEF Call, Return
<1> QED BY <1>1, <1>2 DEF Has

LEMMA NoEvents == <<>> \in Seq(Event) /\ \A b \in Buffers : ~Has(<<>>, Return(b))
BY EmptySeq DEF Has

LEMMA AsideSteps ==
  ASSUME TypeOK,
         \/ \E c \in Photos : PhotoBegins(c) \/ PhotoEnds(c)
         \/ DspWaits \/ DspContinues \/ Activate \/ StopAll \/ StopStream \/ StopNone \/ CloseAll
  PROVE  Aside
<1>1. at \in [Clients -> Places] /\ mq \in Seq(Event)
  BY DEF TypeOK
<1>2. ASSUME NEW c \in Photos, PhotoBegins(c) \/ PhotoEnds(c)
      PROVE  Aside
  <2>1. PICK kind \in {"acquire", "release"} : mq' = mq \o <<Call(kind)>>
    BY <1>2 DEF PhotoBegins, PhotoEnds, Post
  <2>2. <<Call(kind)>> \in Seq(Event) /\ \A b \in Buffers : ~Has(<<Call(kind)>>, Return(b))
    BY CallsAreEvents
  <2>3. /\ at' \in [Clients -> Places]
        /\ \A d \in Clients :
             at'[d] = at[d] \/ {at[d], at'[d]} \subseteq {"idle", "waiting", "dropped"}
    BY <1>1, <1>2 DEF PhotoBegins, PhotoEnds, Goes, Clients, Places
  <2> QED BY <1>2, <2>1, <2>2, <2>3 DEF Aside, PhotoBegins, PhotoEnds
<1>3. CASE DspWaits \/ DspContinues
  <2>1. mq' = mq \o <<>>
    BY <1>1, <1>3, ConcatEmptySeq DEF DspWaits, DspContinues
  <2>2. /\ at' \in [Clients -> Places]
        /\ \A d \in Clients :
             at'[d] = at[d] \/ {at[d], at'[d]} \subseteq {"idle", "waiting", "dropped"}
    BY <1>1, <1>3 DEF DspWaits, DspContinues, Goes, Clients, Places
  <2> QED BY <1>3, <2>1, <2>2, NoEvents DEF Aside, DspWaits, DspContinues
<1>4. CASE Activate
  <2>1. PICK events \in {<<>>, <<Call("acquire")>>} : mq' = mq \o events
    BY <1>4 DEF Activate, Post
  <2>2. events \in Seq(Event) /\ \A b \in Buffers : ~Has(events, Return(b))
    BY <2>1, NoEvents, CallsAreEvents
  <2> QED BY <1>1, <1>4, <2>1, <2>2 DEF Aside, Activate
<1>5. ASSUME NEW before \in {<<>>, <<Call("stop")>>}, NEW after \in {<<>>, <<Call("close")>>},
             GivesUp(before, after)
      PROVE  Aside
  <2>1. PICK middle \in {<<>>, <<Call("release")>>} : mq' = mq \o (before \o middle \o after)
    BY <1>5 DEF GivesUp, Post
  <2>2. /\ before \in Seq(Event) /\ \A b \in Buffers : ~Has(before, Return(b))
        /\ middle \in Seq(Event) /\ \A b \in Buffers : ~Has(middle, Return(b))
        /\ after \in Seq(Event) /\ \A b \in Buffers : ~Has(after, Return(b))
    BY NoEvents, CallsAreEvents
  <2>3. before \o middle \in Seq(Event) /\ \A b \in Buffers : ~Has(before \o middle, Return(b))
    BY <2>2, Joined
  <2>4. /\ (before \o middle) \o after \in Seq(Event)
        /\ \A b \in Buffers : ~Has((before \o middle) \o after, Return(b))
    BY <2>2, <2>3, Joined, ZenonT(60)
  <2> DEFINE events == (before \o middle) \o after
  <2>5. mq' = mq \o events
    BY <2>1
  <2>6. UNCHANGED <<device, pool, at, frame>>
    BY <1>5 DEF GivesUp
  <2> HIDE DEF events
  <2>7. events \in Seq(Event) /\ \A b \in Buffers : ~Has(events, Return(b))
    BY <2>4 DEF events
  <2> QED BY <1>1, <2>5, <2>6, <2>7 DEF Aside
<1>6. CASE StopAll \/ StopStream \/ CloseAll
  BY <1>5, <1>6 DEF StopAll, StopStream, CloseAll
<1>7. CASE StopNone
  <2>1. mq' = mq \o <<>>
    BY <1>1, <1>7, ConcatEmptySeq DEF StopNone
  <2> QED BY <1>1, <1>7, <2>1, NoEvents DEF Aside, StopNone
<1> QED BY <1>2, <1>3, <1>4, <1>6, <1>7

(* The manager's queue, and who has which Frame, as far as returns go.      *)
LEMMA AsideKeeps ==
  ASSUME TypeOK, Aside
  PROVE  /\ mq' \in Seq(Event)
         /\ \A b \in Buffers :
              /\ Has(mq, Return(b))' <=> Has(mq, Return(b))
              /\ OnceIn(mq, Return(b)) => OnceIn(mq, Return(b))'
         /\ \A c \in Clients :
              /\ at[c] \in {"holding", "posting"} => at'[c] = at[c]
              /\ at'[c] \in {"holding", "posting"} => at'[c] = at[c]
<1>1. PICK events \in Seq(Event) : mq' = mq \o events /\ \A b \in Buffers : ~Has(events, Return(b))
  BY DEF Aside
<1>2. mq \in Seq(Event)
  BY DEF TypeOK
<1>3. /\ mq \o events \in Seq(Event)
      /\ \A b \in Buffers :
           /\ Has(mq \o events, Return(b)) <=> Has(mq, Return(b))
           /\ OnceIn(mq, Return(b)) => OnceIn(mq \o events, Return(b))
  BY <1>1, <1>2, Joined
<1>4. \A b \in Buffers :
        /\ Has(mq, Return(b))' <=> Has(mq', Return(b))
        /\ OnceIn(mq, Return(b))' <=> OnceIn(mq', Return(b))
  BY DEF Has, OnceIn
<1>5. \A c \in Clients :
        /\ at[c] \in {"holding", "posting"} => at'[c] = at[c]
        /\ at'[c] \in {"holding", "posting"} => at'[c] = at[c]
  BY DEF Aside
<1> QED BY <1>1, <1>3, <1>4, <1>5

-----------------------------------------------------------------------------
(* The manager's thread takes the head of its queue.                        *)
LEMMA Served ==
  ASSUME TypeOK, NEW kind, Serve(kind)
  PROVE  /\ mq # <<>> /\ Head(mq) \in Event /\ Head(mq).kind = kind
         /\ mq' \in Seq(Event) /\ capture = Nothing
         /\ Has(mq, Head(mq))
         /\ \A b \in Buffers :
              /\ OnceIn(mq, Return(b)) => OnceIn(mq, Return(b))'
              /\ Return(b) # Head(mq) => (Has(mq, Return(b))' <=> Has(mq, Return(b)))
              /\ Return(b) = Head(mq) /\ OnceIn(mq, Return(b)) => ~Has(mq, Return(b))'
              /\ kind # "return" => Return(b) # Head(mq)
<1>1. mq \in Seq(Event) /\ mq # <<>> /\ mq' = Tail(mq) /\ Head(mq).kind = kind /\ capture = Nothing
  BY DEF TypeOK, Serve
<1>2. /\ Head(mq) \in Event /\ Tail(mq) \in Seq(Event) /\ Has(mq, Head(mq))
      /\ \A x : x # Head(mq) => (Has(Tail(mq), x) <=> Has(mq, x))
      /\ \A x : OnceIn(mq, x) => OnceIn(Tail(mq), x)
      /\ OnceIn(mq, Head(mq)) => ~Has(Tail(mq), Head(mq))
  BY <1>1, HeadAndTail
<1>3. \A b \in Buffers :
        /\ Has(mq, Return(b))' <=> Has(mq', Return(b))
        /\ OnceIn(mq, Return(b))' <=> OnceIn(mq', Return(b))
  BY DEF Has, OnceIn
<1>4. \A b \in Buffers : Return(b).kind = "return"
  BY DEF Return
<1> QED BY <1>1, <1>2, <1>3, <1>4

LEMMA ReturnServed ==
  ASSUME TypeOK, Serve("return")
  PROVE  Head(mq).buf \in Buffers /\ Head(mq) = Return(Head(mq).buf)
<1>1. Head(mq) \in Event /\ Head(mq).kind = "return"
  BY Served
<1> QED BY <1>1 DEF Event, Return

-----------------------------------------------------------------------------
(* The types, and what a stopped stream leaves.                            *)

LEMMA InitTyped == Init => Typed /\ NothingStaleToDeliver
<1> SUFFICES ASSUME Init PROVE Typed /\ NothingStaleToDeliver
  OBVIOUS
<1>1. mq \in Seq(Event)
  BY EmptySeq DEF Init
<1>2. /\ capture \in Captures
      /\ at \in [Clients -> Places] /\ frame \in [Clients -> Buffers \cup {NoBuffer}]
  BY DEF Init, Captures, Places
<1>3. TypeOK
  <2>1. refs \in [Buffers -> Int] /\ refCount \in Nat
    BY DEF Init
  <2>2. /\ dev \in BOOLEAN /\ streaming \in BOOLEAN /\ latched \in BOOLEAN /\ fresh \in BOOLEAN
        /\ held \in BOOLEAN /\ channel \in BOOLEAN /\ closing \in BOOLEAN /\ outlived \in BOOLEAN
        /\ queued \subseteq Buffers /\ refused \subseteq Buffers /\ armed \in BOOLEAN
    BY DEF Init
  <2> QED BY <1>1, <1>2, <2>1, <2>2 DEF Init, TypeOK
<1>4. HoldersHaveFrames
  BY DEF Init, HoldersHaveFrames
<1> QED BY <1>3, <1>4 DEF Init, Typed, NothingStaleToDeliver

LEMMA OffTypes ==
  ASSUME TypeOK, Off
  PROVE  /\ streaming' = FALSE /\ latest' = NoBuffer /\ queued' = {}
         /\ armed' = FALSE /\ refused' = {}
         /\ refs' \in [Buffers -> Int] /\ outlived' \in BOOLEAN
         /\ capture' = capture /\ fresh' = fresh
BY DEF TypeOK, Off

LEMMA NextTyped == Typed /\ NothingStaleToDeliver /\ [Next]_vars => Typed' /\ NothingStaleToDeliver'
<1> SUFFICES ASSUME Typed, NothingStaleToDeliver, [Next]_vars
             PROVE  Typed' /\ NothingStaleToDeliver'
  OBVIOUS
<1> USE CameraAssumption
<1>1. TypeOK /\ HoldersHaveFrames
  BY DEF Typed
<1>2. /\ mq \in Seq(Event)
      /\ dev \in BOOLEAN /\ streaming \in BOOLEAN /\ latched \in BOOLEAN
      /\ refCount \in Nat
      /\ refs \in [Buffers -> Int]
      /\ latest \in Buffers \cup {NoBuffer}
      /\ queued \subseteq Buffers /\ refused \subseteq Buffers /\ armed \in BOOLEAN
      /\ capture \in Captures
      /\ fresh \in BOOLEAN
      /\ at \in [Clients -> Places]
      /\ frame \in [Clients -> Buffers \cup {NoBuffer}]
      /\ held \in BOOLEAN /\ channel \in BOOLEAN /\ closing \in BOOLEAN
      /\ outlived \in BOOLEAN
  BY <1>1 DEF TypeOK
<1>3. CASE UNCHANGED vars
  BY <1>1, <1>3 DEF vars, device, pool, gui, Typed, TypeOK, HoldersHaveFrames, NothingStaleToDeliver
<1> USE DEF device, pool, gui
<1>4. ASSUME mq' \in Seq(Event), dev' \in BOOLEAN, streaming' \in BOOLEAN, latched' \in BOOLEAN,
             refCount' \in Nat, refs' \in [Buffers -> Int], latest' \in Buffers \cup {NoBuffer},
             queued' \subseteq Buffers, refused' \subseteq Buffers, armed' \in BOOLEAN,
             capture' \in Captures, closing' \in BOOLEAN,
             outlived' \in BOOLEAN, UNCHANGED <<fresh, at, frame, held, channel>>
      PROVE  Typed'
  BY <1>1, <1>2, <1>4 DEF Typed, TypeOK, HoldersHaveFrames
<1>5. CASE Acquire
  <2>1. mq' \in Seq(Event)
    BY <1>1, <1>5, Served DEF Acquire
  <2>2. NothingStaleToDeliver'
    <3>1. dev' /\ streaming'
      BY <1>5 DEF Acquire
    <3> QED BY <3>1 DEF NothingStaleToDeliver
  <2>3. /\ dev' \in BOOLEAN /\ streaming' \in BOOLEAN /\ refCount' \in Nat
        /\ queued' \subseteq Buffers /\ armed' \in BOOLEAN
    <3>1. CASE streaming
      BY <1>2, <1>5, <3>1 DEF Acquire
    <3>2. CASE ~streaming
      BY <1>2, <1>5, <3>2 DEF Acquire
    <3> QED BY <3>1, <3>2
  <2> QED BY <1>2, <1>4, <1>5, <2>1, <2>2, <2>3 DEF Acquire
<1>6. CASE AcquireFails
  <2>1. mq' \in Seq(Event)
    BY <1>1, <1>6, Served DEF AcquireFails
  <2>2. NothingStaleToDeliver'
    <3>1. (dev => dev') /\ (queued' # {} => dev')
      BY <1>6 DEF AcquireFails, NothingStaleToDeliver
    <3>2. UNCHANGED <<streaming, refCount, latest, refused, armed, capture>>
      BY <1>6 DEF AcquireFails
    <3> QED BY <3>1, <3>2 DEF NothingStaleToDeliver
  <2>3. dev' \in BOOLEAN /\ queued' \subseteq Buffers
    BY <1>2, <1>6 DEF AcquireFails
  <2> QED BY <1>2, <1>4, <1>6, <2>1, <2>2, <2>3 DEF AcquireFails
<1>7. CASE Release
  <2>1. mq' \in Seq(Event) /\ capture = Nothing
    BY <1>1, <1>7, Served DEF Release
  <2>2. refCount' \in Nat /\ dev' \in BOOLEAN
    BY <1>2, <1>7 DEF Release
  <2>3. Off \/ StayOn \/ CloseIdle
    BY <1>7 DEF Release
  <2>4. Typed'
    BY <1>1, <1>2, <1>4, <1>7, <2>1, <2>2, <2>3, OffTypes DEF Release, StayOn, CloseIdle
  <2>5. CASE refCount = 1 /\ streaming
    <3>1. Off /\ refCount' = 0
      BY <1>7, <2>5 DEF Release
    <3>2. /\ ~streaming' /\ latest' = NoBuffer /\ queued' = {} /\ capture' = Nothing
          /\ ~armed' /\ refused' = {}
      BY <1>1, <2>1, <3>1, OffTypes
    <3> QED BY <2>4, <3>1, <3>2 DEF NothingStaleToDeliver
  <2>6. CASE refCount = 1 /\ ~streaming
    <3>1. /\ refCount' = 0 /\ dev' = latched
          /\ (latched /\ StayOn) \/ CloseIdle
      BY <1>7, <2>6 DEF Release
    <3> QED BY <2>4, <2>6, <3>1 DEF StayOn, CloseIdle, NothingStaleToDeliver
  <2>7. CASE refCount # 1
    <3>1. StayOn /\ dev' = dev /\ (refCount' > 0 => refCount > 0)
      BY <1>2, <1>7, <2>7 DEF Release
    <3> QED BY <2>4, <3>1 DEF StayOn, NothingStaleToDeliver
  <2> QED BY <2>4, <2>5, <2>6, <2>7
<1>8. CASE StopStreaming
  <2>1. mq' \in Seq(Event) /\ capture = Nothing
    BY <1>1, <1>8, Served DEF StopStreaming
  <2>2. Off \/ StayOn
    BY <1>8 DEF StopStreaming
  <2>3. latched' \in BOOLEAN
    BY <1>2, <1>8 DEF StopStreaming
  <2>4. Typed'
    BY <1>1, <1>2, <1>4, <1>8, <2>1, <2>2, <2>3, OffTypes DEF StopStreaming, StayOn
  <2>5. CASE Off
    <3>1. /\ ~streaming' /\ latest' = NoBuffer /\ queued' = {} /\ capture' = Nothing
          /\ ~armed' /\ refused' = {}
      BY <1>1, <2>1, <2>5, OffTypes
    <3>2. UNCHANGED <<dev, refCount>>
      BY <1>8 DEF StopStreaming
    <3> QED BY <2>4, <3>1, <3>2 DEF NothingStaleToDeliver
  <2>6. CASE StayOn
    <3>1. UNCHANGED <<dev, refCount>>
      BY <1>8 DEF StopStreaming
    <3> QED BY <2>4, <2>6, <3>1 DEF StayOn, NothingStaleToDeliver
  <2> QED BY <2>2, <2>4, <2>5, <2>6
<1>9. CASE Close
  <2>1. mq' \in Seq(Event) /\ capture = Nothing
    BY <1>1, <1>9, Served DEF Close
  <2>2. Off
    BY <1>9 DEF Close
  <2>3. Typed'
    BY <1>1, <1>2, <1>4, <1>9, <2>1, <2>2, OffTypes DEF Close
  <2>4. NothingStaleToDeliver'
    BY <1>1, <1>9, <2>1, <2>2, OffTypes DEF Close, NothingStaleToDeliver
  <2> QED BY <2>3, <2>4
<1>10. CASE ReturnBuffer
  <2>1. mq' \in Seq(Event) /\ Head(mq).buf \in Buffers
    BY <1>1, <1>10, Served, ReturnServed DEF ReturnBuffer
  <2>2. /\ queued' \subseteq Buffers /\ refused' \subseteq Buffers
        /\ ~streaming => queued' = queued /\ refused' \subseteq refused
    BY <1>2, <1>10, <2>1 DEF ReturnBuffer, Requeue
  <2>3. Typed'
    BY <1>2, <1>4, <1>10, <2>1, <2>2 DEF ReturnBuffer
  <2> QED BY <1>10, <2>2, <2>3 DEF ReturnBuffer, NothingStaleToDeliver
<1>11. CASE CaptureFrame
  <2>1. PICK b \in queued :
          /\ queued' = queued \ {b}
          /\ refs' = [refs EXCEPT ![b] = 1]
          /\ capture' = [step |-> "swap", buf |-> b]
    BY <1>11 DEF CaptureFrame
  <2>2. b \in Buffers /\ capture' \in Captures
    BY <1>2, <2>1 DEF Captures
  <2>3. Typed'
    BY <1>2, <1>4, <1>11, <2>1, <2>2 DEF CaptureFrame
  <2> QED BY <1>11, <2>3 DEF CaptureFrame, NothingStaleToDeliver
<1>12. CASE SwapLatest
  <2>1. capture # Nothing /\ capture.buf \in Buffers
    BY <1>2, <1>12 DEF SwapLatest, Captures, Nothing
  <2>2. capture' \in Captures /\ latest' \in Buffers \cup {NoBuffer} /\ fresh' = TRUE
    BY <1>2, <1>12, <2>1 DEF SwapLatest, Captures
  <2>3. Typed'
    BY <1>1, <1>2, <1>12, <2>2 DEF SwapLatest, Typed, TypeOK, HoldersHaveFrames
  <2> QED BY <1>12, <2>1, <2>3 DEF SwapLatest, NothingStaleToDeliver
<1>13. CASE DropOld
  <2>1. capture # Nothing /\ capture.buf \in Buffers
    BY <1>2, <1>13 DEF DropOld, Captures, Nothing
  <2>2. /\ queued' \subseteq Buffers /\ refused' \subseteq Buffers
        /\ refs' \in [Buffers -> Int] /\ capture' \in Captures
    BY <1>2, <1>13, <2>1 DEF DropOld, Requeue, Captures
  <2>3. Typed'
    BY <1>2, <1>4, <1>13, <2>2 DEF DropOld
  <2> QED BY <1>13, <2>1, <2>3 DEF DropOld, NothingStaleToDeliver
<1>14. ASSUME NEW c \in Clients, GetFrame(c)
       PROVE  Typed' /\ NothingStaleToDeliver'
  <2>1. /\ latest \in Buffers /\ at' = [at EXCEPT ![c] = "holding"]
        /\ frame' = [frame EXCEPT ![c] = latest]
    BY <1>2, <1>14 DEF GetFrame, Goes
  <2>2. /\ refs' \in [Buffers -> Int] /\ at' \in [Clients -> Places]
        /\ frame' \in [Clients -> Buffers \cup {NoBuffer}] /\ fresh' \in BOOLEAN
    BY <1>2, <1>14, <2>1 DEF GetFrame, Places
  <2>3. HoldersHaveFrames'
    BY <1>1, <1>2, <2>1 DEF HoldersHaveFrames
  <2> QED BY <1>2, <1>14, <2>2, <2>3 DEF GetFrame, Typed, TypeOK, NothingStaleToDeliver
<1>15. ASSUME NEW c \in Clients, DropFrame(c)
       PROVE  Typed' /\ NothingStaleToDeliver'
  <2>1. frame[c] \in Buffers
    BY <1>1, <1>2, <1>15 DEF DropFrame, HoldersHaveFrames
  <2>2. /\ at[c] = "holding"
        /\ \/ at' = [at EXCEPT ![c] = "posting"] /\ frame' = frame
           \/ at' = [at EXCEPT ![c] = "dropped"] /\ frame' = [frame EXCEPT ![c] = NoBuffer]
    BY <1>15 DEF DropFrame, Goes
  <2>3. /\ refs' \in [Buffers -> Int] /\ at' \in [Clients -> Places]
        /\ frame' \in [Clients -> Buffers \cup {NoBuffer}]
    <3>1. refs' \in [Buffers -> Int]
      BY <1>2, <1>15, <2>1 DEF DropFrame
    <3>2. at' \in [Clients -> Places]
      BY <1>2, <2>2 DEF Places
    <3> QED BY <1>2, <2>2, <3>1, <3>2
  <2>4. HoldersHaveFrames'
    BY <1>1, <1>2, <2>2 DEF HoldersHaveFrames
  <2> QED BY <1>2, <1>15, <2>3, <2>4 DEF DropFrame, Typed, TypeOK, NothingStaleToDeliver
<1>16. ASSUME NEW c \in Clients, PostReturn(c)
       PROVE  Typed' /\ NothingStaleToDeliver'
  <2>1. frame[c] \in Buffers
    BY <1>1, <1>2, <1>16 DEF PostReturn, HoldersHaveFrames
  <2>2. <<[kind |-> "return", buf |-> frame[c]]>> \in Seq(Event)
    BY <2>1 DEF Event
  <2>3. mq' \in Seq(Event)
    BY <1>2, <1>16, <2>2, Joined DEF PostReturn, Post
  <2>4. /\ at' = [at EXCEPT ![c] = "dropped"] /\ frame' = [frame EXCEPT ![c] = NoBuffer]
    BY <1>16 DEF PostReturn, Goes
  <2>5. /\ at' \in [Clients -> Places] /\ frame' \in [Clients -> Buffers \cup {NoBuffer}]
    BY <1>2, <2>4 DEF Places
  <2>6. HoldersHaveFrames'
    BY <1>1, <1>2, <2>4 DEF HoldersHaveFrames
  <2> QED BY <1>2, <1>16, <2>3, <2>5, <2>6 DEF PostReturn, Typed, TypeOK, NothingStaleToDeliver
<1>17. ASSUME \/ \E c \in Photos : PhotoBegins(c) \/ PhotoEnds(c)
              \/ DspWaits \/ DspContinues \/ Activate \/ StopAll \/ StopStream \/ StopNone \/ CloseAll
       PROVE  Typed' /\ NothingStaleToDeliver'
  <2>1. Aside
    BY <1>1, <1>17, AsideSteps
  <2>2. mq' \in Seq(Event) /\ at' \in [Clients -> Places]
    BY <1>1, <2>1, AsideKeeps DEF Aside
  <2>3. HoldersHaveFrames'
    BY <1>1, <2>1, AsideKeeps DEF HoldersHaveFrames, Aside
  <2>4. held' \in BOOLEAN /\ channel' \in BOOLEAN /\ closing' \in BOOLEAN
    BY <1>2, <1>17 DEF PhotoBegins, PhotoEnds, DspWaits, DspContinues, Activate, StopAll, StopStream,
      StopNone, CloseAll, GivesUp
  <2> QED BY <1>2, <2>1, <2>2, <2>3, <2>4 DEF Aside, Typed, TypeOK, NothingStaleToDeliver
<1>18. CASE CaptureFails
  <2>1. Typed'
    BY <1>2, <1>4, <1>18 DEF CaptureFails
  <2> QED BY <1>18, <2>1 DEF CaptureFails, NothingStaleToDeliver
<1> QED
  BY <1>3, <1>5, <1>6, <1>7, <1>8, <1>9, <1>10, <1>11, <1>12, <1>13, <1>14, <1>15, <1>16, <1>17,
     <1>18
  DEF Next, ManagerStep, FrameStep

-----------------------------------------------------------------------------
(* How the steps change the claims and the counts.                         *)

LEMMA Counted ==
  ASSUME NEW R \in SUBSET Clients
  PROVE  /\ IsFiniteSet(R) /\ Cardinality(R) \in Nat
         /\ Cardinality(R) = 0 <=> R = {}
         /\ \A c : c \notin R => Cardinality(R \cup {c}) = Cardinality(R) + 1
         /\ \A c \in R : Cardinality(R \ {c}) = Cardinality(R) - 1
<1>1. IsFiniteSet(Clients)
  BY CameraAssumption, FS_AddElement DEF Clients
<1>2. IsFiniteSet(R)
  BY <1>1, FS_Subset
<1> QED BY <1>2, FS_CardinalityType, FS_EmptySet, FS_AddElement, FS_RemoveElement

LEMMA ClaimsCount ==
  ASSUME NEW b \in Buffers
  PROVE  /\ Claims(b) \in Nat /\ Claims(b)' \in Nat
         /\ Claims(b) = 0 <=> Readers(b) = {} /\ latest # b /\ capture.buf # b
         /\ Claims(b)' = 0 <=> Readers(b)' = {} /\ latest' # b /\ capture'.buf # b
<1>1. /\ Cardinality(Readers(b)) \in Nat
      /\ Cardinality(Readers(b)) = 0 <=> Readers(b) = {}
  <2>1. Readers(b) \in SUBSET Clients
    BY DEF Readers
  <2> QED BY <2>1, Counted
<1>2. /\ Cardinality(Readers(b)') \in Nat
      /\ Cardinality(Readers(b)') = 0 <=> Readers(b)' = {}
  <2>1. Readers(b)' \in SUBSET Clients
    BY DEF Readers
  <2> QED BY <2>1, Counted
<1> HIDE DEF Readers
<1> QED BY <1>1, <1>2 DEF Claims

LEMMA SameReaders ==
  ASSUME NEW b \in Buffers,
         \A c \in Clients : (at'[c] = "holding" /\ frame'[c] = b) <=> (at[c] = "holding" /\ frame[c] = b)
  PROVE  Readers(b)' = Readers(b)
BY DEF Readers

LEMMA ClaimsSame ==
  ASSUME Typed,
         \/ UNCHANGED <<refs, at, frame, latest, capture>>
         \/ SwapLatest \/ Aside
         \/ \E c \in Clients : PostReturn(c)
  PROVE  refs' = refs /\ \A b \in Buffers : Claims(b)' = Claims(b)
<1> SUFFICES ASSUME NEW b \in Buffers PROVE refs' = refs /\ Claims(b)' = Claims(b)
  BY CameraAssumption
<1>1. TypeOK /\ at \in [Clients -> Places] /\ frame \in [Clients -> Buffers \cup {NoBuffer}]
  BY DEF Typed, TypeOK
<1>2. Cardinality(Readers(b)) \in Nat
  <2>1. Readers(b) \in SUBSET Clients
    BY DEF Readers
  <2> QED BY <2>1, Counted
<1>3. ASSUME UNCHANGED <<at, frame>> PROVE Readers(b)' = Readers(b)
  BY <1>3, SameReaders
<1>4. CASE UNCHANGED <<refs, at, frame, latest, capture>>
  <2>1. Readers(b)' = Readers(b)
    BY <1>3, <1>4
  <2> QED
    <3> HIDE DEF Readers
    <3> QED BY <1>4, <2>1 DEF Claims
<1>5. CASE SwapLatest
  <2>1. Readers(b)' = Readers(b)
    BY <1>3, <1>5 DEF SwapLatest
  <2>2. capture.buf \in Buffers /\ latest \in Buffers \cup {NoBuffer} /\ NoBuffer \notin Buffers
    BY <1>5, CameraAssumption DEF SwapLatest, Typed, TypeOK, Captures, Nothing
  <2>3. /\ latest' = capture.buf /\ refs' = refs
        /\ capture'.buf = latest
    BY <1>5, <2>2 DEF SwapLatest, Nothing
  <2> HIDE DEF Readers
  <2> QED BY <1>2, <2>1, <2>3 DEF Claims
<1>6. CASE Aside
  <2>1. Readers(b)' = Readers(b)
    BY <1>1, <1>6, AsideKeeps, SameReaders DEF Aside
  <2> HIDE DEF Readers
  <2> QED BY <1>6, <2>1 DEF Aside, pool, Claims
<1>7. ASSUME NEW c \in Clients, PostReturn(c)
      PROVE  refs' = refs /\ Claims(b)' = Claims(b)
  <2>1. /\ at[c] = "posting" /\ at' = [at EXCEPT ![c] = "dropped"]
        /\ frame' = [frame EXCEPT ![c] = NoBuffer]
    BY <1>7 DEF PostReturn, Goes
  <2>2. Readers(b)' = Readers(b)
    BY <1>1, <2>1, SameReaders
  <2> HIDE DEF Readers
  <2> QED BY <1>7, <2>2 DEF PostReturn, pool, Claims
<1> QED BY <1>4, <1>5, <1>6, <1>7

LEMMA ClaimsOff ==
  ASSUME Typed, Off, UNCHANGED <<at, frame>>
  PROVE  \A b \in Buffers :
           IF latest = b
           THEN Claims(b)' = Claims(b) - 1 /\ refs'[b] = refs[b] - 1
           ELSE Claims(b)' = Claims(b) /\ refs'[b] = refs[b]
<1> SUFFICES ASSUME NEW b \in Buffers
             PROVE  IF latest = b
                    THEN Claims(b)' = Claims(b) - 1 /\ refs'[b] = refs[b] - 1
                    ELSE Claims(b)' = Claims(b) /\ refs'[b] = refs[b]
  OBVIOUS
<1>1. Cardinality(Readers(b)) \in Nat
  <2>1. Readers(b) \in SUBSET Clients
    BY DEF Readers
  <2> QED BY <2>1, Counted
<1>2. Readers(b)' = Readers(b)
  BY SameReaders
<1>3. /\ latest' = NoBuffer /\ capture' = capture /\ latest' # b
      /\ refs'[b] = IF latest = b THEN refs[b] - 1 ELSE refs[b]
  BY CameraAssumption DEF Off, Typed, TypeOK
<1> HIDE DEF Readers
<1> QED BY <1>1, <1>2, <1>3 DEF Claims

LEMMA ClaimsCapture ==
  ASSUME Typed, CaptureFrame
  PROVE  \E b \in queued :
           /\ b \in Buffers /\ queued' = queued \ {b}
           /\ refs' = [refs EXCEPT ![b] = 1]
           /\ \A d \in Buffers : Claims(d)' = IF d = b THEN Claims(d) + 1 ELSE Claims(d)
<1>1. PICK b \in queued :
        /\ queued' = queued \ {b}
        /\ refs' = [refs EXCEPT ![b] = 1]
        /\ capture' = [step |-> "swap", buf |-> b]
  BY DEF CaptureFrame
<1>2. b \in Buffers /\ capture = Nothing /\ UNCHANGED <<at, frame, latest>> /\ NoBuffer \notin Buffers
  BY CameraAssumption DEF CaptureFrame, Typed, TypeOK
<1>3. ASSUME NEW d \in Buffers
      PROVE  Claims(d)' = IF d = b THEN Claims(d) + 1 ELSE Claims(d)
  <2>1. Cardinality(Readers(d)) \in Nat
    <3>1. Readers(d) \in SUBSET Clients
      BY DEF Readers
    <3> QED BY <3>1, Counted
  <2>2. Readers(d)' = Readers(d)
    BY <1>2, SameReaders
  <2>3. capture.buf # d /\ (capture'.buf = d <=> d = b)
    BY <1>1, <1>2 DEF Nothing
  <2> HIDE DEF Readers
  <2> QED BY <1>2, <2>1, <2>2, <2>3 DEF Claims
<1> QED BY <1>1, <1>2, <1>3

LEMMA ClaimsDropOld ==
  ASSUME Typed, DropOld
  PROVE  LET b == capture.buf
         IN /\ b \in Buffers /\ Claims(b) >= 1
            /\ refs' = [refs EXCEPT ![b] = @ - 1]
            /\ \A d \in Buffers : Claims(d)' = IF d = b THEN Claims(d) - 1 ELSE Claims(d)
<1> DEFINE b == capture.buf
<1>1. /\ b \in Buffers /\ capture' = Nothing /\ UNCHANGED <<at, frame, latest>> /\ NoBuffer \notin Buffers
      /\ refs' = [refs EXCEPT ![b] = @ - 1]
  BY CameraAssumption DEF DropOld, Typed, TypeOK, Captures, Nothing
<1>2. ASSUME NEW d \in Buffers
      PROVE  Claims(d)' = IF d = b THEN Claims(d) - 1 ELSE Claims(d)
  <2>1. Cardinality(Readers(d)) \in Nat
    <3>1. Readers(d) \in SUBSET Clients
      BY DEF Readers
    <3> QED BY <3>1, Counted
  <2>2. Readers(d)' = Readers(d)
    BY <1>1, SameReaders
  <2>3. capture'.buf # d /\ (capture.buf = d <=> d = b)
    BY <1>1 DEF Nothing
  <2> HIDE DEF Readers, b
  <2> QED BY <1>1, <2>1, <2>2, <2>3 DEF Claims
<1>3. Claims(b) >= 1
  BY <1>1, ClaimsCount
<1> QED BY <1>1, <1>2, <1>3

LEMMA ClaimsGet ==
  ASSUME Typed, NEW c \in Clients, GetFrame(c)
  PROVE  /\ latest \in Buffers /\ Claims(latest) >= 1
         /\ refs' = [refs EXCEPT ![latest] = @ + 1]
         /\ \A d \in Buffers : Claims(d)' = IF d = latest THEN Claims(d) + 1 ELSE Claims(d)
<1>1. /\ latest \in Buffers /\ UNCHANGED <<latest, capture>> /\ NoBuffer \notin Buffers
      /\ refs' = [refs EXCEPT ![latest] = @ + 1]
      /\ at[c] = "waiting" /\ at' = [at EXCEPT ![c] = "holding"] /\ frame' = [frame EXCEPT ![c] = latest]
      /\ at \in [Clients -> Places] /\ frame \in [Clients -> Buffers \cup {NoBuffer}]
  BY CameraAssumption DEF GetFrame, Goes, Typed, TypeOK
<1>2. ASSUME NEW d \in Buffers
      PROVE  Claims(d)' = IF d = latest THEN Claims(d) + 1 ELSE Claims(d)
  <2>1. Readers(d) \in SUBSET Clients
    BY DEF Readers
  <2>2. Cardinality(Readers(d)) \in Nat
    BY <2>1, Counted
  <2>3. CASE d # latest
    <3>1. Readers(d)' = Readers(d)
      BY <1>1, <2>3, SameReaders
    <3> HIDE DEF Readers
    <3> QED BY <1>1, <2>3, <3>1 DEF Claims
  <2>4. CASE d = latest
    <3>1. Readers(d)' = Readers(d) \cup {c} /\ c \notin Readers(d)
      BY <1>1, <2>4 DEF Readers
    <3>2. Cardinality(Readers(d)') = Cardinality(Readers(d)) + 1
      BY <2>1, <3>1, Counted
    <3> HIDE DEF Readers
    <3> QED BY <1>1, <2>2, <2>4, <3>2 DEF Claims
  <2> QED BY <2>3, <2>4
<1>3. Claims(latest) >= 1
  BY <1>1, ClaimsCount
<1> QED BY <1>1, <1>2, <1>3

LEMMA ClaimsDropFrame ==
  ASSUME Typed, NEW c \in Clients, DropFrame(c)
  PROVE  LET b == frame[c]
         IN /\ b \in Buffers /\ Claims(b) >= 1
            /\ refs' = [refs EXCEPT ![b] = @ - 1]
            /\ \A d \in Buffers : Claims(d)' = IF d = b THEN Claims(d) - 1 ELSE Claims(d)
<1> DEFINE b == frame[c]
<1>1. /\ UNCHANGED <<latest, capture>> /\ NoBuffer \notin Buffers
      /\ at \in [Clients -> Places] /\ frame \in [Clients -> Buffers \cup {NoBuffer}]
      /\ at[c] = "holding"
      /\ \/ at' = [at EXCEPT ![c] = "posting"] /\ frame' = frame
         \/ at' = [at EXCEPT ![c] = "dropped"] /\ frame' = [frame EXCEPT ![c] = NoBuffer]
  BY CameraAssumption DEF DropFrame, Goes, Typed, TypeOK
<1>2. b \in Buffers /\ refs' = [refs EXCEPT ![b] = @ - 1]
  BY <1>1 DEF DropFrame, Typed, HoldersHaveFrames
<1>3. c \in Readers(b)
  BY <1>1 DEF Readers
<1>4. ASSUME NEW d \in Buffers
      PROVE  Claims(d)' = IF d = b THEN Claims(d) - 1 ELSE Claims(d)
  <2>1. Readers(d) \in SUBSET Clients
    BY DEF Readers
  <2>2. Cardinality(Readers(d)) \in Nat
    BY <2>1, Counted
  <2>3. CASE d # b
    <3>1. Readers(d)' = Readers(d)
      BY <1>1, <2>3, SameReaders
    <3> HIDE DEF Readers, b
    <3> QED BY <1>1, <2>3, <3>1 DEF Claims
  <2>4. CASE d = b
    <3>1. Readers(d)' = Readers(d) \ {c} /\ c \in Readers(d)
      BY <1>1, <2>4 DEF Readers
    <3>2. Cardinality(Readers(d)') = Cardinality(Readers(d)) - 1
      BY <2>1, <3>1, Counted
    <3> HIDE DEF Readers, b
    <3> QED BY <1>1, <2>2, <2>4, <3>2 DEF Claims
  <2> QED BY <2>3, <2>4
<1>5. Claims(b) >= 1
  <2> HIDE DEF b
  <2> QED BY <1>2, <1>3, ClaimsCount
<1> QED BY <1>2, <1>4, <1>5

-----------------------------------------------------------------------------
(* The buffers on their way back.                                          *)

Posting(c, b) == at[c] = "posting" /\ frame[c] = b

LEMMA WayIs ==
  /\ \A b : OnItsWay(b) <=> (\E c \in Clients : Posting(c, b)) \/ Has(mq, Return(b))
  /\ \A b : OnItsWay(b)' <=> (\E c \in Clients : Posting(c, b)') \/ Has(mq, Return(b))'
BY DEF OnItsWay, Posting, Has, Return

LEMMA OnceIs ==
  /\ OnceOnItsWay <=>
       \A b \in Buffers :
         /\ OnceIn(mq, Return(b))
         /\ \A c, d \in Clients : Posting(c, b) /\ Posting(d, b) => c = d
         /\ \A c \in Clients : Posting(c, b) => ~Has(mq, Return(b))
  /\ OnceOnItsWay' <=>
       \A b \in Buffers :
         /\ OnceIn(mq, Return(b))'
         /\ \A c, d \in Clients : Posting(c, b)' /\ Posting(d, b)' => c = d
         /\ \A c \in Clients : Posting(c, b)' => ~Has(mq, Return(b))'
BY DEF OnceOnItsWay, Posting, OnceIn, Has

LEMMA WaySame ==
  ASSUME Typed,
         \/ UNCHANGED <<mq, at, frame>>
         \/ (\E kind : kind # "return" /\ Serve(kind)) /\ UNCHANGED <<at, frame>>
         \/ Aside
         \/ \E c \in Clients : GetFrame(c) \/ PostReturn(c)
  PROVE  /\ \A b \in Buffers : OnItsWay(b)' <=> OnItsWay(b)
         /\ OnceOnItsWay => OnceOnItsWay'
<1>1. /\ TypeOK /\ at \in [Clients -> Places] /\ frame \in [Clients -> Buffers \cup {NoBuffer}]
      /\ mq \in Seq(Event) /\ NoBuffer \notin Buffers
  BY CameraAssumption DEF Typed, TypeOK
<1>2. ASSUME \A b \in Buffers : \A c \in Clients : Posting(c, b)' <=> Posting(c, b),
             \A b \in Buffers : Has(mq, Return(b))' <=> Has(mq, Return(b)),
             \A b \in Buffers : OnceIn(mq, Return(b)) => OnceIn(mq, Return(b))'
      PROVE  /\ \A b \in Buffers : OnItsWay(b)' <=> OnItsWay(b)
             /\ OnceOnItsWay => OnceOnItsWay'
  <2>1. \A b \in Buffers : OnItsWay(b)' <=> OnItsWay(b)
    BY <1>2, WayIs
  <2>2. ASSUME OnceOnItsWay PROVE OnceOnItsWay'
    BY <1>2, <2>2, OnceIs
  <2> QED BY <2>1, <2>2
<1>3. ASSUME UNCHANGED mq
      PROVE  \A b \in Buffers : /\ Has(mq, Return(b))' <=> Has(mq, Return(b))
                                /\ OnceIn(mq, Return(b)) => OnceIn(mq, Return(b))'
  BY <1>3 DEF Has, OnceIn
<1>4. ASSUME UNCHANGED <<at, frame>>
      PROVE  \A b \in Buffers : \A c \in Clients : Posting(c, b)' <=> Posting(c, b)
  BY <1>4 DEF Posting
<1>5. CASE UNCHANGED <<mq, at, frame>>
  BY <1>2, <1>3, <1>4, <1>5
<1>6. ASSUME NEW kind, kind # "return", Serve(kind), UNCHANGED <<at, frame>>
      PROVE  /\ \A b \in Buffers : OnItsWay(b)' <=> OnItsWay(b)
             /\ OnceOnItsWay => OnceOnItsWay'
  <2>1. \A b \in Buffers : /\ Has(mq, Return(b))' <=> Has(mq, Return(b))
                           /\ OnceIn(mq, Return(b)) => OnceIn(mq, Return(b))'
    BY <1>1, <1>6, Served
  <2> QED BY <1>2, <1>4, <1>6, <2>1
<1>7. CASE Aside
  <2>1. \A b \in Buffers : /\ Has(mq, Return(b))' <=> Has(mq, Return(b))
                           /\ OnceIn(mq, Return(b)) => OnceIn(mq, Return(b))'
    BY <1>1, <1>7, AsideKeeps
  <2>2. \A b \in Buffers : \A c \in Clients : Posting(c, b)' <=> Posting(c, b)
    BY <1>1, <1>7, AsideKeeps DEF Aside, Posting
  <2> QED BY <1>2, <2>1, <2>2
<1>8. ASSUME NEW c \in Clients, GetFrame(c)
      PROVE  /\ \A b \in Buffers : OnItsWay(b)' <=> OnItsWay(b)
             /\ OnceOnItsWay => OnceOnItsWay'
  <2>1. /\ mq' = mq /\ at[c] = "waiting" /\ at' = [at EXCEPT ![c] = "holding"]
        /\ frame' = [frame EXCEPT ![c] = latest]
    BY <1>8 DEF GetFrame, Goes
  <2>2. \A b \in Buffers : \A d \in Clients : Posting(d, b)' <=> Posting(d, b)
    BY <1>1, <2>1 DEF Posting
  <2> QED BY <1>2, <1>3, <2>1, <2>2
<1>9. ASSUME NEW c \in Clients, PostReturn(c)
      PROVE  /\ \A b \in Buffers : OnItsWay(b)' <=> OnItsWay(b)
             /\ OnceOnItsWay => OnceOnItsWay'
  <2>1. /\ mq' = mq \o <<Return(frame[c])>> /\ at[c] = "posting" /\ at' = [at EXCEPT ![c] = "dropped"]
        /\ frame' = [frame EXCEPT ![c] = NoBuffer]
    BY <1>9 DEF PostReturn, Goes, Post, Return
  <2>2. frame[c] \in Buffers /\ Posting(c, frame[c])
    BY <1>1, <2>1 DEF Typed, HoldersHaveFrames, Posting
  <2>3. /\ <<Return(frame[c])>> \in Seq(Event)
        /\ \A b \in Buffers : Has(<<Return(frame[c])>>, Return(b)) <=> b = frame[c]
        /\ OnceIn(<<Return(frame[c])>>, Return(frame[c]))
    BY <2>2 DEF Return, Event, Has, OnceIn
  <2>4. \A b \in Buffers : /\ Has(mq, Return(b))' <=> Has(mq', Return(b))
                           /\ OnceIn(mq, Return(b))' <=> OnceIn(mq', Return(b))
    BY DEF Has, OnceIn
  <2>5. \A b \in Buffers : b # frame[c] =>
          /\ Has(mq, Return(b))' <=> Has(mq, Return(b))
          /\ OnceIn(mq, Return(b)) => OnceIn(mq, Return(b))'
    BY <1>1, <2>1, <2>3, <2>4, Joined
  <2>6. Has(mq', Return(frame[c]))
    <3>1. Len(mq) + 1 \in DOMAIN mq' /\ mq'[Len(mq) + 1] = Return(frame[c])
      BY <1>1, <2>1, <2>3, ConcatProperties, LenProperties
    <3> QED BY <3>1 DEF Has
  <2>7. ~Has(mq, Return(frame[c])) => OnceIn(mq', Return(frame[c]))
    BY <1>1, <2>1, <2>2, <2>3, Joined
  <2>8. \A b \in Buffers : \A d \in Clients :
          Posting(d, b)' <=> Posting(d, b) /\ d # c
    BY <1>1, <2>1 DEF Posting
  <2>9. \A d \in Clients : \A b : Posting(d, b) => b = frame[d]
    BY DEF Posting
  <2>10. \A b \in Buffers : OnItsWay(b)' <=> OnItsWay(b)
    <3> SUFFICES ASSUME NEW b \in Buffers PROVE OnItsWay(b)' <=> OnItsWay(b)
      OBVIOUS
    <3>1. CASE b = frame[c]
      <4>1. Has(mq, Return(b))'
        BY <2>4, <2>6, <3>1
      <4> QED BY <2>2, <3>1, <4>1, WayIs
    <3>2. CASE b # frame[c]
      <4>1. ~Posting(c, b)
        BY <2>9, <3>2
      <4> QED BY <2>5, <2>8, <3>2, <4>1, WayIs
    <3> QED BY <3>1, <3>2
  <2>11. ASSUME OnceOnItsWay PROVE OnceOnItsWay'
    <3> SUFFICES ASSUME NEW b \in Buffers
                 PROVE  /\ OnceIn(mq, Return(b))'
                        /\ \A d, e \in Clients : Posting(d, b)' /\ Posting(e, b)' => d = e
                        /\ \A d \in Clients : Posting(d, b)' => ~Has(mq, Return(b))'
      BY OnceIs
    <3>1. /\ OnceIn(mq, Return(b))
          /\ \A d, e \in Clients : Posting(d, b) /\ Posting(e, b) => d = e
          /\ \A d \in Clients : Posting(d, b) => ~Has(mq, Return(b))
      BY <2>11, OnceIs
    <3>2. \A d, e \in Clients : Posting(d, b)' /\ Posting(e, b)' => d = e
      BY <2>8, <3>1
    <3>3. CASE b # frame[c]
      BY <2>5, <2>8, <3>1, <3>2, <3>3
    <3>4. CASE b = frame[c]
      <4>1. Posting(c, b)
        BY <2>2, <3>4
      <4>2. ~Has(mq, Return(b)) /\ \A d \in Clients : ~Posting(d, b)'
        BY <2>8, <3>1, <4>1
      <4>3. OnceIn(mq', Return(b))
        BY <2>7, <3>4, <4>2
      <4> QED BY <2>4, <3>2, <4>2, <4>3
    <3> QED BY <3>3, <3>4
  <2> QED BY <2>10, <2>11
<1> QED BY <1>5, <1>6, <1>7, <1>8, <1>9

LEMMA WayDropFrame ==
  ASSUME Typed, NEW c \in Clients, DropFrame(c)
  PROVE  /\ \A b \in Buffers :
              OnItsWay(b)' <=> OnItsWay(b) \/ (b = frame[c] /\ refs[b] = 1)
         /\ OnceOnItsWay /\ (refs[frame[c]] = 1 => ~OnItsWay(frame[c])) => OnceOnItsWay'
<1>1. /\ at \in [Clients -> Places] /\ frame \in [Clients -> Buffers \cup {NoBuffer}]
      /\ NoBuffer \notin Buffers
  BY CameraAssumption DEF Typed, TypeOK
<1>2. /\ mq' = mq /\ at[c] = "holding"
      /\ IF refs[frame[c]] = 1
         THEN at' = [at EXCEPT ![c] = "posting"] /\ frame' = frame
         ELSE at' = [at EXCEPT ![c] = "dropped"] /\ frame' = [frame EXCEPT ![c] = NoBuffer]
  BY DEF DropFrame, Goes
<1>3. \A b \in Buffers : /\ Has(mq, Return(b))' <=> Has(mq, Return(b))
                         /\ OnceIn(mq, Return(b))' <=> OnceIn(mq, Return(b))
  BY <1>2 DEF Has, OnceIn
<1>4. \A b \in Buffers : \A d \in Clients :
        Posting(d, b)' <=> Posting(d, b) \/ (d = c /\ b = frame[c] /\ refs[b] = 1)
  <2>1. CASE refs[frame[c]] = 1
    BY <1>1, <1>2, <2>1 DEF Posting
  <2>2. CASE refs[frame[c]] # 1
    BY <1>1, <1>2, <2>2 DEF Posting
  <2> QED BY <2>1, <2>2
<1>5. \A b \in Buffers : OnItsWay(b)' <=> OnItsWay(b) \/ (b = frame[c] /\ refs[b] = 1)
  BY <1>3, <1>4, WayIs
<1>6. ASSUME OnceOnItsWay, refs[frame[c]] = 1 => ~OnItsWay(frame[c])
      PROVE  OnceOnItsWay'
  <2> SUFFICES ASSUME NEW b \in Buffers
               PROVE  /\ OnceIn(mq, Return(b))'
                      /\ \A d, e \in Clients : Posting(d, b)' /\ Posting(e, b)' => d = e
                      /\ \A d \in Clients : Posting(d, b)' => ~Has(mq, Return(b))'
    BY OnceIs
  <2>1. /\ OnceIn(mq, Return(b))
        /\ \A d, e \in Clients : Posting(d, b) /\ Posting(e, b) => d = e
        /\ \A d \in Clients : Posting(d, b) => ~Has(mq, Return(b))
    BY <1>6, OnceIs
  <2>2. CASE b = frame[c] /\ refs[b] = 1
    <3>1. ~Has(mq, Return(b)) /\ \A d \in Clients : ~Posting(d, b)
      BY <1>6, <2>2, WayIs
    <3> QED BY <1>3, <1>4, <2>1, <3>1
  <2>3. CASE ~(b = frame[c] /\ refs[b] = 1)
    BY <1>3, <1>4, <2>1, <2>3
  <2> QED BY <2>2, <2>3
<1> QED BY <1>5, <1>6

LEMMA WayReturn ==
  ASSUME Typed, ReturnBuffer, NEW b \in Buffers, b = Head(mq).buf
  PROVE  /\ OnItsWay(b)
         /\ \A d \in Buffers : d # b => (OnItsWay(d)' <=> OnItsWay(d))
         /\ OnceOnItsWay => OnceOnItsWay' /\ ~OnItsWay(b)'
<1>1. TypeOK /\ Serve("return") /\ UNCHANGED <<at, frame>>
  BY DEF Typed, ReturnBuffer
<1>2. /\ Head(mq) = Return(b) /\ Has(mq, Return(b))
      /\ \A d \in Buffers :
           /\ OnceIn(mq, Return(d)) => OnceIn(mq, Return(d))'
           /\ Return(d) # Return(b) => (Has(mq, Return(d))' <=> Has(mq, Return(d)))
           /\ d = b /\ OnceIn(mq, Return(d)) => ~Has(mq, Return(d))'
  BY <1>1, ReturnServed, Served
<1>3. \A d : Return(d) = Return(b) => d = b
  BY DEF Return
<1>4. \A d \in Buffers : \A c \in Clients : Posting(c, d)' <=> Posting(c, d)
  BY <1>1 DEF Posting
<1>5. OnItsWay(b)
  BY <1>2, WayIs
<1>6. \A d \in Buffers : d # b => (OnItsWay(d)' <=> OnItsWay(d))
  BY <1>2, <1>3, <1>4, WayIs
<1>7. ASSUME OnceOnItsWay PROVE ~OnItsWay(b)' /\ OnceOnItsWay'
  <2>1. \A d \in Buffers :
         /\ OnceIn(mq, Return(d))
         /\ \A c, e \in Clients : Posting(c, d) /\ Posting(e, d) => c = e
         /\ \A c \in Clients : Posting(c, d) => ~Has(mq, Return(d))
    BY <1>7, OnceIs
  <2>2. ~Has(mq, Return(b))'
    BY <1>2, <2>1
  <2>3. \A c \in Clients : ~Posting(c, b)'
    BY <1>2, <1>4, <2>1
  <2>4. ~OnItsWay(b)'
    BY <2>2, <2>3, WayIs
  <2>5. \A d \in Buffers :
         /\ OnceIn(mq, Return(d))'
         /\ \A c, e \in Clients : Posting(c, d)' /\ Posting(e, d)' => c = e
         /\ \A c \in Clients : Posting(c, d)' => ~Has(mq, Return(d))'
    <3> SUFFICES ASSUME NEW d \in Buffers
                 PROVE  /\ OnceIn(mq, Return(d))'
                        /\ \A c, e \in Clients : Posting(c, d)' /\ Posting(e, d)' => c = e
                        /\ \A c \in Clients : Posting(c, d)' => ~Has(mq, Return(d))'
      OBVIOUS
    <3>1. CASE d = b
      BY <1>2, <1>4, <2>1, <2>3, <3>1
    <3>2. CASE d # b
      BY <1>2, <1>3, <1>4, <2>1, <3>2
    <3> QED BY <3>1, <3>2
  <2> QED BY <2>4, <2>5, OnceIs
<1> QED BY <1>5, <1>6, <1>7
-----------------------------------------------------------------------------
(* The steps, as far as buffers go: calm ones, the start and the stop of    *)
(* the stream, and the five that move a buffer.                            *)

Calm ==
  \/ UNCHANGED vars \/ CaptureFails \/ AcquireFails \/ (Acquire /\ streaming)
  \/ /\ \E kind : kind # "return" /\ Serve(kind)
     /\ StayOn \/ (~streaming /\ CloseIdle)
     /\ UNCHANGED <<at, frame>>
  \/ SwapLatest \/ Aside
  \/ \E c \in Clients : PostReturn(c)
Starts == Acquire /\ ~streaming
Stops == (\E kind : kind # "return" /\ Serve(kind)) /\ Off /\ UNCHANGED <<at, frame>>

LEMMA StepIs ==
  ASSUME TypeOK, [Next]_vars
  PROVE  \/ Calm \/ Starts \/ Stops \/ ReturnBuffer \/ CaptureFrame \/ DropOld
         \/ \E c \in Clients : GetFrame(c) \/ DropFrame(c)
<1>1. CASE UNCHANGED vars
  BY <1>1 DEF Calm
<1>2. CASE Acquire \/ AcquireFails
  BY <1>2 DEF Calm, Starts
<1>3. CASE Release
  <2>1. Off \/ StayOn \/ (~streaming /\ CloseIdle)
    BY <1>3 DEF Release
  <2> QED BY <1>3, <2>1 DEF Release, Calm, Stops
<1>4. CASE StopStreaming
  <2>1. Off \/ StayOn
    BY <1>4 DEF StopStreaming
  <2> QED BY <1>4, <2>1 DEF StopStreaming, Calm, Stops
<1>5. CASE Close
  BY <1>5 DEF Close, Stops
<1>6. CASE \/ \E c \in Photos : PhotoBegins(c) \/ PhotoEnds(c)
           \/ DspWaits \/ DspContinues \/ Activate \/ StopAll \/ StopStream \/ StopNone \/ CloseAll
  BY <1>6, AsideSteps DEF Calm
<1>7. CASE CaptureFails \/ SwapLatest \/ \E c \in Clients : PostReturn(c)
  BY <1>7 DEF Calm
<1> QED BY <1>1, <1>2, <1>3, <1>4, <1>5, <1>6, <1>7 DEF Next, ManagerStep, FrameStep

(* Frames are out when a client has one or a return is queued.              *)
LEMMA OutIs ==
  /\ Typed => (FramesOut <=> \/ \E c \in Clients : frame[c] # NoBuffer
                             \/ \E b \in Buffers : Has(mq, Return(b)))
  /\ Typed' => (FramesOut' <=> \/ \E c \in Clients : frame'[c] # NoBuffer
                               \/ \E b \in Buffers : Has(mq, Return(b))')
<1>1. ASSUME NEW s \in Seq(Event)
      PROVE  (\E i \in DOMAIN s : s[i].kind = "return") <=> \E b \in Buffers : Has(s, Return(b))
  <2>1. ASSUME NEW i \in DOMAIN s, s[i].kind = "return" PROVE \E b \in Buffers : Has(s, Return(b))
    <3>1. s[i] \in Event
      BY ElementOfSeq, LenProperties
    <3>2. s[i].buf \in Buffers /\ s[i] = Return(s[i].buf)
      BY <2>1, <3>1 DEF Event, Return
    <3> QED BY <3>2 DEF Has
  <2>2. ASSUME NEW b \in Buffers, Has(s, Return(b)) PROVE \E i \in DOMAIN s : s[i].kind = "return"
    BY <2>2 DEF Has, Return
  <2> QED BY <2>1, <2>2
<1>2. Typed => mq \in Seq(Event)
  BY DEF Typed, TypeOK
<1>3. Typed' => mq' \in Seq(Event)
  BY DEF Typed, TypeOK
<1>4. \A b \in Buffers : Has(mq, Return(b))' <=> Has(mq', Return(b))
  BY DEF Has
<1>5. ASSUME Typed
      PROVE  FramesOut <=> \/ \E c \in Clients : frame[c] # NoBuffer
                           \/ \E b \in Buffers : Has(mq, Return(b))
  BY <1>1, <1>2, <1>5 DEF FramesOut
<1>6. ASSUME Typed'
      PROVE  FramesOut' <=> \/ \E c \in Clients : frame'[c] # NoBuffer
                            \/ \E b \in Buffers : Has(mq, Return(b))'
  <2>1. (\E i \in DOMAIN mq' : mq'[i].kind = "return") <=> \E b \in Buffers : Has(mq', Return(b))
    BY <1>1, <1>3, <1>6
  <2> QED BY <1>4, <2>1 DEF FramesOut
<1> QED BY <1>5, <1>6

(* Without a frame out nothing is on its way and nobody reads.              *)
LEMMA NoneOut ==
  ASSUME Typed, ~FramesOut
  PROVE  \A b \in Buffers : ~OnItsWay(b) /\ Readers(b) = {}
<1>1. \A c \in Clients : at[c] \notin {"holding", "posting"}
  BY OutIs DEF Typed, HoldersHaveFrames
<1>2. \A b \in Buffers : Readers(b) = {} /\ \A c \in Clients : ~Posting(c, b)
  BY <1>1 DEF Readers, Posting
<1>3. \A b \in Buffers : ~Has(mq, Return(b))
  BY OutIs
<1> QED BY <1>2, <1>3, WayIs

LEMMA OutKept ==
  ASSUME Typed, Typed', FramesOut',
         \/ UNCHANGED <<mq, at, frame>>
         \/ (\E kind : kind # "return" /\ Serve(kind)) /\ UNCHANGED <<at, frame>>
         \/ Aside
         \/ \E c \in Clients : PostReturn(c)
  PROVE  FramesOut
<1>1. TypeOK
  BY DEF Typed
<1>2. \/ \E c \in Clients : frame'[c] # NoBuffer
      \/ \E b \in Buffers : Has(mq, Return(b))'
  BY OutIs
<1>3. CASE \E c \in Clients : PostReturn(c)
  <2>1. \E c \in Clients : frame[c] # NoBuffer
    BY <1>3 DEF PostReturn, Typed, HoldersHaveFrames
  <2> QED BY <2>1, OutIs
<1>4. ASSUME frame' = frame, \A b \in Buffers : Has(mq, Return(b))' => Has(mq, Return(b))
      PROVE  FramesOut
  BY <1>2, <1>4, OutIs
<1>5. CASE UNCHANGED <<mq, at, frame>>
  BY <1>4, <1>5 DEF Has
<1>6. CASE (\E kind : kind # "return" /\ Serve(kind)) /\ UNCHANGED <<at, frame>>
  <2>1. \A b \in Buffers : Has(mq, Return(b))' => Has(mq, Return(b))
    BY <1>1, <1>6, Served
  <2> QED BY <1>4, <1>6, <2>1
<1>7. CASE Aside
  <2>1. \A b \in Buffers : Has(mq, Return(b))' => Has(mq, Return(b))
    BY <1>1, <1>7, AsideKeeps
  <2> QED BY <1>4, <1>7, <2>1 DEF Aside
<1> QED BY <1>3, <1>5, <1>6, <1>7

LEMMA CalmKeeps ==
  ASSUME Typed, Typed', Calm
  PROVE  /\ UNCHANGED <<refs, streaming, outlived>>
         /\ streaming => UNCHANGED <<queued, refused>>
         /\ \A b \in Buffers : Claims(b)' = Claims(b) /\ (OnItsWay(b)' <=> OnItsWay(b))
         /\ OnceOnItsWay => OnceOnItsWay'
         /\ FramesOut' => FramesOut
<1>1. /\ UNCHANGED <<streaming, outlived>>
      /\ streaming => UNCHANGED <<queued, refused>>
      /\ \/ UNCHANGED <<refs, at, frame, latest, capture>> /\ UNCHANGED mq
         \/ /\ UNCHANGED <<refs, at, frame, latest, capture>>
            /\ \E kind : kind # "return" /\ Serve(kind)
         \/ SwapLatest /\ UNCHANGED <<mq, at, frame>>
         \/ Aside
         \/ \E c \in Clients : PostReturn(c)
  <2>1. CASE UNCHANGED vars
    BY <2>1 DEF vars, pool, device
  <2>2. CASE CaptureFails \/ AcquireFails
    BY <2>2 DEF CaptureFails, AcquireFails, device
  <2>3. CASE Acquire /\ streaming
    BY <2>3 DEF Acquire, Typed, TypeOK
  <2>4. CASE /\ \E kind : kind # "return" /\ Serve(kind)
             /\ StayOn \/ (~streaming /\ CloseIdle)
             /\ UNCHANGED <<at, frame>>
    BY <2>4 DEF StayOn, CloseIdle
  <2>5. CASE SwapLatest
    BY <2>5 DEF SwapLatest, device
  <2>6. CASE Aside
    BY <2>6 DEF Aside, device, pool
  <2>7. CASE \E c \in Clients : PostReturn(c)
    BY <2>7 DEF PostReturn, device, pool
  <2> QED BY <2>1, <2>2, <2>3, <2>4, <2>5, <2>6, <2>7 DEF Calm
<1>2. refs' = refs /\ \A b \in Buffers : Claims(b)' = Claims(b)
  BY <1>1, ClaimsSame
<1>3. (\A b \in Buffers : OnItsWay(b)' <=> OnItsWay(b)) /\ (OnceOnItsWay => OnceOnItsWay')
  BY <1>1, WaySame
<1>4. FramesOut' => FramesOut
  BY <1>1, OutKept
<1> QED BY <1>1, <1>2, <1>3, <1>4

LEMMA StartsIs ==
  ASSUME Typed, Starts
  PROVE  /\ streaming' = TRUE /\ queued' = Buffers /\ UNCHANGED <<refs, outlived, latest, capture>>
         /\ ~streaming
         /\ \A b \in Buffers : Claims(b)' = Claims(b) /\ (OnItsWay(b)' <=> OnItsWay(b))
         /\ OnceOnItsWay => OnceOnItsWay'
<1>1. /\ streaming' = TRUE /\ queued' = Buffers /\ UNCHANGED <<refs, at, frame, latest, capture, outlived>>
      /\ Serve("acquire") /\ ~streaming
  BY DEF Starts, Acquire
<1>2. \A b \in Buffers : Claims(b)' = Claims(b)
  BY <1>1, ClaimsSame
<1>3. (\A b \in Buffers : OnItsWay(b)' <=> OnItsWay(b)) /\ (OnceOnItsWay => OnceOnItsWay')
  BY <1>1, WaySame
<1> QED BY <1>1, <1>2, <1>3

LEMMA StopsIs ==
  ASSUME Typed, Typed', Stops
  PROVE  /\ streaming' = FALSE /\ queued' = {} /\ capture = Nothing
         /\ outlived' = (outlived \/ FramesOut)
         /\ \A b \in Buffers :
              /\ OnItsWay(b)' <=> OnItsWay(b)
              /\ IF latest = b
                 THEN Claims(b)' = Claims(b) - 1 /\ refs'[b] = refs[b] - 1
                 ELSE Claims(b)' = Claims(b) /\ refs'[b] = refs[b]
         /\ OnceOnItsWay => OnceOnItsWay'
         /\ FramesOut' => FramesOut
<1>1. (\E kind : kind # "return" /\ Serve(kind)) /\ Off /\ UNCHANGED <<at, frame>>
  BY DEF Stops
<1>2. /\ streaming' = FALSE /\ queued' = {} /\ outlived' = (outlived \/ FramesOut)
      /\ capture = Nothing
  BY <1>1 DEF Off, Serve
<1>3. \A b \in Buffers :
        IF latest = b
        THEN Claims(b)' = Claims(b) - 1 /\ refs'[b] = refs[b] - 1
        ELSE Claims(b)' = Claims(b) /\ refs'[b] = refs[b]
  BY <1>1, ClaimsOff
<1>4. (\A b \in Buffers : OnItsWay(b)' <=> OnItsWay(b)) /\ (OnceOnItsWay => OnceOnItsWay')
  BY <1>1, WaySame
<1>5. FramesOut' => FramesOut
  BY <1>1, OutKept
<1> QED BY <1>2, <1>3, <1>4, <1>5
-----------------------------------------------------------------------------
(* No buffer is lost, and none is counted for more than its claims.         *)

LEMMA NotLostKept ==
  ASSUME Typed, Typed', NotLost, [Next]_vars
  PROVE  NotLost'
<1> SUFFICES ASSUME streaming', NEW b \in Buffers
             PROVE  b \in queued' \cup refused' \/ OnItsWay(b)' \/ refs'[b] >= 1
  BY DEF NotLost
<1>1. /\ TypeOK /\ refs \in [Buffers -> Int]
      /\ streaming => b \in queued \cup refused \/ OnItsWay(b) \/ refs[b] >= 1
  BY DEF Typed, TypeOK, NotLost
<1>2. CASE Calm
  BY <1>1, <1>2, CalmKeeps
<1>3. CASE Starts
  BY <1>3, StartsIs
<1>4. CASE Stops
  BY <1>4, StopsIs
<1>5. CASE ReturnBuffer
  <2>1. /\ streaming /\ refs' = refs /\ Head(mq).buf \in Buffers
        /\ queued \cup refused \cup {Head(mq).buf} \subseteq queued' \cup refused'
    BY <1>1, <1>5, ReturnServed DEF ReturnBuffer, Requeue, device
  <2>2. b # Head(mq).buf => (OnItsWay(b)' <=> OnItsWay(b))
    BY <1>5, <2>1, WayReturn
  <2> QED BY <1>1, <2>1, <2>2
<1>6. CASE CaptureFrame
  <2>1. streaming /\ refused' = refused /\ (OnItsWay(b)' <=> OnItsWay(b))
    BY <1>6, WaySame DEF CaptureFrame, device
  <2>2. PICK d \in queued : queued' = queued \ {d} /\ refs' = [refs EXCEPT ![d] = 1]
    BY <1>6 DEF CaptureFrame
  <2> QED BY <1>1, <2>1, <2>2
<1>7. CASE DropOld
  <2>1. streaming /\ (OnItsWay(b)' <=> OnItsWay(b))
    BY <1>7, WaySame DEF DropOld, device
  <2>2. /\ refs' = [refs EXCEPT ![capture.buf] = @ - 1]
        /\ queued \cup refused \subseteq queued' \cup refused'
        /\ refs[capture.buf] = 1 => capture.buf \in queued' \cup refused'
    BY <1>7, <2>1 DEF DropOld, Requeue
  <2> QED BY <1>1, <2>1, <2>2
<1>8. ASSUME NEW c \in Clients, GetFrame(c)
      PROVE  b \in queued' \cup refused' \/ OnItsWay(b)' \/ refs'[b] >= 1
  <2>1. OnItsWay(b)' <=> OnItsWay(b)
    BY <1>8, WaySame
  <2>2. streaming /\ UNCHANGED <<queued, refused>> /\ refs' = [refs EXCEPT ![latest] = @ + 1]
    BY <1>8 DEF GetFrame, device
  <2> QED BY <1>1, <2>1, <2>2
<1>9. ASSUME NEW c \in Clients, DropFrame(c)
      PROVE  b \in queued' \cup refused' \/ OnItsWay(b)' \/ refs'[b] >= 1
  <2>1. OnItsWay(b)' <=> OnItsWay(b) \/ (b = frame[c] /\ refs[b] = 1)
    BY <1>9, WayDropFrame
  <2>2. streaming /\ UNCHANGED <<queued, refused>> /\ refs' = [refs EXCEPT ![frame[c]] = @ - 1]
    BY <1>9 DEF DropFrame, device
  <2> QED BY <1>1, <2>1, <2>2
<1> QED BY <1>1, <1>2, <1>3, <1>4, <1>5, <1>6, <1>7, <1>8, <1>9, StepIs

LEMMA NotOverKept ==
  ASSUME Typed, Typed', NotOver, [Next]_vars
  PROVE  NotOver'
<1> SUFFICES ASSUME NEW b \in Buffers PROVE refs'[b] <= Claims(b)'
  BY DEF NotOver
<1>1. /\ TypeOK /\ refs \in [Buffers -> Int] /\ refs' \in [Buffers -> Int] /\ refs[b] <= Claims(b)
  BY DEF Typed, TypeOK, NotOver
<1>2. Claims(b) \in Nat /\ Claims(b)' \in Nat
  BY ClaimsCount
<1>3. CASE Calm
  BY <1>1, <1>3, CalmKeeps
<1>4. CASE Starts
  BY <1>1, <1>4, StartsIs
<1>5. CASE Stops
  BY <1>1, <1>2, <1>5, StopsIs
<1>6. CASE ReturnBuffer
  <2>1. UNCHANGED <<refs, at, frame, latest, capture>>
    BY <1>6 DEF ReturnBuffer
  <2> QED BY <1>1, <2>1, ClaimsSame
<1>7. CASE CaptureFrame
  <2>1. PICK d \in queued :
          /\ refs' = [refs EXCEPT ![d] = 1]
          /\ \A e \in Buffers : Claims(e)' = IF e = d THEN Claims(e) + 1 ELSE Claims(e)
    BY <1>7, ClaimsCapture
  <2> QED BY <1>1, <1>2, <2>1
<1>8. CASE DropOld
  BY <1>1, <1>2, <1>8, ClaimsDropOld
<1>9. ASSUME NEW c \in Clients, GetFrame(c) PROVE refs'[b] <= Claims(b)'
  BY <1>1, <1>2, <1>9, ClaimsGet
<1>10. ASSUME NEW c \in Clients, DropFrame(c) PROVE refs'[b] <= Claims(b)'
  BY <1>1, <1>2, <1>10, ClaimsDropFrame
<1> QED BY <1>1, <1>3, <1>4, <1>5, <1>6, <1>7, <1>8, <1>9, <1>10, StepIs

-----------------------------------------------------------------------------
(* While no frame has outlived its stream the buffers are orderly.          *)

LEMMA OrderlyKept ==
  ASSUME Typed, Typed', NothingStaleToDeliver, Orderly, [Next]_vars
  PROVE  Orderly'
<1>1. /\ TypeOK /\ refs \in [Buffers -> Int] /\ refs' \in [Buffers -> Int] /\ queued \subseteq Buffers
      /\ frame \in [Clients -> Buffers \cup {NoBuffer}] /\ NoBuffer \notin Buffers
  BY CameraAssumption DEF Typed, TypeOK
<1>2. \A b \in Buffers : Claims(b) \in Nat /\ Claims(b)' \in Nat
  BY ClaimsCount
<1>3. ASSUME outlived \/ outlived' PROVE Orderly'
  <2>1. outlived => outlived'
    <3>1. CASE Calm
      BY <3>1, CalmKeeps
    <3>2. CASE Starts
      BY <3>2, StartsIs
    <3>3. CASE Stops
      BY <3>3, StopsIs
    <3> QED BY <1>1, <3>1, <3>2, <3>3, StepIs
      DEF ReturnBuffer, CaptureFrame, DropOld, GetFrame, DropFrame
  <2> QED BY <1>3, <2>1 DEF Orderly
<1> SUFFICES ASSUME ~outlived, ~outlived'
             PROVE  Orderly'
  BY <1>3
<1>4. /\ OnceOnItsWay /\ (~streaming => ~FramesOut)
      /\ \A b \in Buffers :
           /\ refs[b] = Claims(b)
           /\ b \in queued \/ OnItsWay(b) => Claims(b) = 0
           /\ b \in queued => ~OnItsWay(b)
  BY DEF Orderly, Exact
<1>5. ASSUME OnceOnItsWay', ~streaming' => ~FramesOut',
             \A b \in Buffers :
               /\ refs'[b] = Claims(b)'
               /\ b \in queued' \/ OnItsWay(b)' => Claims(b)' = 0
               /\ b \in queued' => ~OnItsWay(b)'
      PROVE  Orderly'
  BY <1>5 DEF Orderly, Exact
<1>6. ASSUME ~FramesOut, NEW b \in Buffers, latest = NoBuffer, capture = Nothing
      PROVE  Claims(b) = 0 /\ ~OnItsWay(b)
  <2>1. Readers(b) = {} /\ ~OnItsWay(b)
    BY <1>6, NoneOut
  <2>2. latest # b /\ capture.buf # b
    BY <1>1, <1>6 DEF Nothing
  <2> QED BY <2>1, <2>2, ClaimsCount
<1>7. CASE Calm
  <2>1. /\ UNCHANGED <<refs, streaming>> /\ (streaming => queued' = queued)
        /\ \A b \in Buffers : Claims(b)' = Claims(b) /\ (OnItsWay(b)' <=> OnItsWay(b))
        /\ OnceOnItsWay' /\ (FramesOut' => FramesOut)
    BY <1>4, <1>7, CalmKeeps
  <2>2. ASSUME ~streaming, NEW b \in Buffers PROVE Claims(b) = 0 /\ ~OnItsWay(b)
    BY <1>4, <1>6, <2>2 DEF NothingStaleToDeliver
  <2>3. \A b \in Buffers :
          /\ refs'[b] = Claims(b)'
          /\ b \in queued' \/ OnItsWay(b)' => Claims(b)' = 0
          /\ b \in queued' => ~OnItsWay(b)'
    BY <1>4, <2>1, <2>2
  <2> QED BY <1>4, <1>5, <2>1, <2>3
<1>8. CASE Starts
  <2>1. /\ streaming' = TRUE /\ queued' = Buffers /\ refs' = refs /\ ~streaming
        /\ \A b \in Buffers : Claims(b)' = Claims(b) /\ (OnItsWay(b)' <=> OnItsWay(b))
        /\ OnceOnItsWay'
    BY <1>4, <1>8, StartsIs
  <2>2. \A b \in Buffers : Claims(b) = 0 /\ ~OnItsWay(b)
    BY <1>4, <1>6, <2>1 DEF NothingStaleToDeliver
  <2> QED BY <1>4, <1>5, <2>1, <2>2
<1>9. CASE Stops
  <2>1. /\ streaming' = FALSE /\ queued' = {} /\ ~FramesOut
        /\ \A b \in Buffers :
             /\ OnItsWay(b)' <=> OnItsWay(b)
             /\ IF latest = b
                THEN Claims(b)' = Claims(b) - 1 /\ refs'[b] = refs[b] - 1
                ELSE Claims(b)' = Claims(b) /\ refs'[b] = refs[b]
        /\ OnceOnItsWay' /\ ~FramesOut'
    BY <1>4, <1>9, StopsIs
  <2>2. \A b \in Buffers : ~OnItsWay(b)
    BY <2>1, NoneOut
  <2>3. \A b \in Buffers : refs'[b] = Claims(b)'
    BY <1>4, <2>1
  <2> QED BY <1>5, <2>1, <2>2, <2>3
<1>10. CASE ReturnBuffer
  <2> DEFINE b == Head(mq).buf
  <2>1. b \in Buffers /\ OnItsWay(b)
    BY <1>1, <1>10, ReturnServed, WayReturn DEF ReturnBuffer
  <2>2. streaming
    BY <1>4, <2>1, NoneOut
  <2>3. /\ refs' = refs /\ queued' \subseteq queued \cup {b} /\ streaming'
        /\ UNCHANGED <<at, frame, latest, capture>>
    BY <1>10, <2>2 DEF ReturnBuffer, Requeue, device
  <2>4. PICK d \in Buffers : d = b
    BY <2>1
  <2>5. /\ \A e \in Buffers : e # d => (OnItsWay(e)' <=> OnItsWay(e))
        /\ OnceOnItsWay' /\ ~OnItsWay(d)'
    BY <1>4, <1>10, <2>4, WayReturn
  <2>6. \A e \in Buffers : Claims(e)' = Claims(e)
    BY <2>3, ClaimsSame
  <2> HIDE DEF b
  <2>7. \A e \in Buffers :
          /\ refs'[e] = Claims(e)'
          /\ e \in queued' \/ OnItsWay(e)' => Claims(e)' = 0
          /\ e \in queued' => ~OnItsWay(e)'
    BY <1>4, <2>1, <2>3, <2>4, <2>5, <2>6
  <2> QED BY <1>5, <2>3, <2>5, <2>7
<1>11. CASE CaptureFrame
  <2>1. PICK d \in queued :
          /\ d \in Buffers /\ queued' = queued \ {d}
          /\ refs' = [refs EXCEPT ![d] = 1]
          /\ \A e \in Buffers : Claims(e)' = IF e = d THEN Claims(e) + 1 ELSE Claims(e)
    BY <1>11, ClaimsCapture
  <2>2. streaming' /\ UNCHANGED <<mq, at, frame>>
    <3>1. armed /\ UNCHANGED <<streaming, mq, at, frame>>
      BY <1>11 DEF CaptureFrame, device
    <3> QED BY <3>1 DEF NothingStaleToDeliver
  <2>3. (\A e \in Buffers : OnItsWay(e)' <=> OnItsWay(e)) /\ OnceOnItsWay'
    BY <1>4, <2>2, WaySame
  <2>4. \A e \in Buffers :
          /\ refs'[e] = Claims(e)'
          /\ e \in queued' \/ OnItsWay(e)' => Claims(e)' = 0
          /\ e \in queued' => ~OnItsWay(e)'
    BY <1>1, <1>4, <2>1, <2>3
  <2> QED BY <1>5, <2>2, <2>3, <2>4
<1>12. CASE DropOld
  <2>1. PICK d \in Buffers : d = capture.buf
    BY <1>12, ClaimsDropOld
  <2>2. /\ Claims(d) >= 1 /\ refs' = [refs EXCEPT ![d] = @ - 1]
        /\ \A e \in Buffers : Claims(e)' = IF e = d THEN Claims(e) - 1 ELSE Claims(e)
    BY <1>12, <2>1, ClaimsDropOld
  <2>3. UNCHANGED <<mq, at, frame, streaming>>
    BY <1>12 DEF DropOld, device
  <2>4. streaming
    BY <1>1, <2>1, <2>2 DEF NothingStaleToDeliver, Nothing
  <2>5. queued' \subseteq IF refs[d] = 1 THEN queued \cup {d} ELSE queued
    BY <1>12, <2>1, <2>4 DEF DropOld, Requeue
  <2>6. (\A e \in Buffers : OnItsWay(e)' <=> OnItsWay(e)) /\ OnceOnItsWay'
    BY <1>4, <2>3, WaySame
  <2>7. d \notin queued /\ ~OnItsWay(d)
    BY <1>4, <2>2
  <2>8. \A e \in Buffers :
          /\ refs'[e] = Claims(e)'
          /\ e \in queued' \/ OnItsWay(e)' => Claims(e)' = 0
          /\ e \in queued' => ~OnItsWay(e)'
    BY <1>1, <1>2, <1>4, <2>2, <2>5, <2>6, <2>7
  <2> QED BY <1>5, <2>3, <2>4, <2>6, <2>8
<1>13. ASSUME NEW c \in Clients, GetFrame(c) PROVE Orderly'
  <2>1. /\ latest \in Buffers /\ Claims(latest) >= 1
        /\ refs' = [refs EXCEPT ![latest] = @ + 1]
        /\ \A e \in Buffers : Claims(e)' = IF e = latest THEN Claims(e) + 1 ELSE Claims(e)
    BY <1>13, ClaimsGet
  <2>2. queued' = queued /\ streaming' = streaming
    BY <1>13 DEF GetFrame, device
  <2>3. streaming
    BY <1>1, <2>1 DEF NothingStaleToDeliver
  <2>4. (\A e \in Buffers : OnItsWay(e)' <=> OnItsWay(e)) /\ OnceOnItsWay'
    BY <1>4, <1>13, WaySame
  <2>5. \A e \in Buffers :
          /\ refs'[e] = Claims(e)'
          /\ e \in queued' \/ OnItsWay(e)' => Claims(e)' = 0
          /\ e \in queued' => ~OnItsWay(e)'
    BY <1>1, <1>2, <1>4, <2>1, <2>2, <2>4
  <2> QED BY <1>5, <2>2, <2>3, <2>4, <2>5
<1>14. ASSUME NEW c \in Clients, DropFrame(c) PROVE Orderly'
  <2>1. PICK d \in Buffers : d = frame[c]
    BY <1>14, ClaimsDropFrame
  <2>2. /\ Claims(d) >= 1 /\ refs' = [refs EXCEPT ![d] = @ - 1]
        /\ \A e \in Buffers : Claims(e)' = IF e = d THEN Claims(e) - 1 ELSE Claims(e)
    BY <1>14, <2>1, ClaimsDropFrame
  <2>3. d \notin queued /\ ~OnItsWay(d)
    BY <1>4, <2>2
  <2>4. queued' = queued /\ streaming' = streaming /\ streaming
    <3>1. FramesOut
      BY <1>1, <2>1, OutIs
    <3> QED BY <1>4, <1>14, <3>1 DEF DropFrame, device
  <2>5. /\ \A e \in Buffers : OnItsWay(e)' <=> OnItsWay(e) \/ (e = d /\ refs[e] = 1)
        /\ OnceOnItsWay'
    BY <1>4, <1>14, <2>1, <2>3, WayDropFrame
  <2>6. \A e \in Buffers :
          /\ refs'[e] = Claims(e)'
          /\ e \in queued' \/ OnItsWay(e)' => Claims(e)' = 0
          /\ e \in queued' => ~OnItsWay(e)'
    BY <1>1, <1>2, <1>4, <2>2, <2>3, <2>4, <2>5
  <2> QED BY <1>5, <2>4, <2>5, <2>6
<1> QED BY <1>1, <1>7, <1>8, <1>9, <1>10, <1>11, <1>12, <1>13, <1>14, StepIs

-----------------------------------------------------------------------------
(* The theorems                                                            *)

LEMMA InitInd == Init => IndInv
<1> SUFFICES ASSUME Init PROVE IndInv
  OBVIOUS
<1>1. Typed /\ NothingStaleToDeliver
  BY InitTyped
<1>2. ~FramesOut /\ ~streaming /\ latest = NoBuffer /\ queued = {} /\ capture = Nothing
      /\ NoBuffer \notin Buffers /\ \A b \in Buffers : refs[b] = 0
  BY CameraAssumption DEF Init, FramesOut
<1>3. ASSUME NEW b \in Buffers PROVE Claims(b) = 0 /\ ~OnItsWay(b)
  <2>1. Readers(b) = {} /\ ~OnItsWay(b)
    BY <1>1, <1>2, NoneOut
  <2>2. latest # b /\ capture.buf # b
    BY <1>2 DEF Nothing
  <2> QED BY <2>1, <2>2, ClaimsCount
<1>4. NotLost
  BY <1>2 DEF NotLost
<1>5. NotOver
  BY <1>2, <1>3 DEF NotOver
<1>6. Exact
  BY <1>2, <1>3 DEF Exact
<1>7. OnceOnItsWay
  <2>1. mq = <<>> /\ \A c \in Clients : at[c] = "idle"
    BY DEF Init
  <2> QED BY <2>1 DEF OnceOnItsWay, OnceIn
<1> QED BY <1>1, <1>2, <1>4, <1>5, <1>6, <1>7 DEF IndInv, Orderly

LEMMA NextInd == IndInv /\ [Next]_vars => IndInv'
<1> SUFFICES ASSUME IndInv, [Next]_vars PROVE IndInv'
  OBVIOUS
<1>1. Typed /\ NothingStaleToDeliver /\ NotLost /\ NotOver /\ Orderly
  BY DEF IndInv
<1>2. Typed' /\ NothingStaleToDeliver'
  BY <1>1, NextTyped
<1>3. NotLost' /\ NotOver' /\ Orderly'
  BY <1>1, <1>2, NotLostKept, NotOverKept, OrderlyKept
<1> QED BY <1>2, <1>3 DEF IndInv

LEMMA Inductive == Spec => []IndInv
BY InitInd, NextInd, PTL DEF Spec

(* Every variable keeps its type.                                          *)
THEOREM TypeCorrect == Spec => []TypeOK
<1>1. IndInv => TypeOK
  BY DEF IndInv, Typed
<1> QED BY <1>1, Inductive, PTL

(* A stopped stream leaves no frame to hand out, no buffer in the driver    *)
(* and no capture under way, and only an open device streams or is counted. *)
THEOREM NoStaleFrame == Spec => []NothingStaleToDeliver
<1>1. IndInv => NothingStaleToDeliver
  BY DEF IndInv
<1> QED BY <1>1, Inductive, PTL

(* No buffer is lost, whatever outlives its stream, and no count is wrong   *)
(* as long as no frame has.                                                *)
THEOREM EveryBufferAccounted == Spec => []BuffersAccounted
<1>1. ASSUME IndInv PROVE BuffersAccounted
  <2>1. TypeOK /\ NotLost /\ NotOver /\ Orderly
    BY <1>1 DEF IndInv, Typed
  <2>2. RefsAreClaims
    BY <2>1 DEF Orderly, Exact, RefsAreClaims
  <2>3. ASSUME streaming, NEW b \in Buffers PROVE b \in queued \cup refused \/ Claims(b) > 0 \/ OnItsWay(b)
    <3>1. CASE b \in queued \cup refused \/ OnItsWay(b)
      BY <3>1
    <3>2. CASE refs[b] >= 1
      <4>1. refs[b] <= Claims(b) /\ Claims(b) \in Nat /\ refs[b] \in Int
        BY <2>1, ClaimsCount DEF NotOver, TypeOK
      <4> QED BY <3>2, <4>1
    <3> QED BY <2>1, <2>3, <3>1, <3>2 DEF NotLost
  <2> QED BY <2>1, <2>2, <2>3 DEF BuffersAccounted, NoBufferLost
<1> QED BY <1>1, Inductive, PTL

(* As long as no frame has outlived its stream, a buffer that a client      *)
(* reads is not in the driver.                                             *)
THEOREM FramesSafe == Spec => []StreamFramesSafe
<1>1. ASSUME IndInv, ~outlived, NEW b \in Buffers, Readers(b) # {}
      PROVE  b \notin queued
  <2>1. Claims(b) # 0
    BY <1>1, ClaimsCount
  <2> QED BY <1>1, <2>1 DEF IndInv, Orderly, Exact
<1>2. IndInv => StreamFramesSafe
  BY <1>1 DEF StreamFramesSafe, NeverRecycledWhileRead
<1> QED BY <1>2, Inductive, PTL
=============================================================================
