---------------------------- MODULE MailboxProofs ----------------------------
(***************************************************************************)
(* Theorems about the mailboxes of a network, for any robots, links,        *)
(* connections, messages, hull numbers and faults.                          *)
(***************************************************************************)
EXTENDS MailboxProperties, SequenceTheorems, FiniteSetTheorems, TLAPS

USE NobodyAssumption, LinksAssumption

-----------------------------------------------------------------------------
(* What the provers need of sequences and sets.                            *)

LEMMA HeadAndTail ==
  ASSUME NEW S, NEW s \in Seq(S), s # <<>>
  PROVE  Head(s) \in S /\ Tail(s) \in Seq(S) /\ Head(s) = s[1]
BY HeadTailProperties

LEMMA Joined ==
  ASSUME NEW S, NEW s \in Seq(S), NEW t \in Seq(S)
  PROVE  s \o t \in Seq(S)
BY ConcatProperties

LEMMA JoinedOne ==
  ASSUME NEW S, NEW s \in Seq(S), NEW x \in S
  PROVE  /\ <<x>> \in Seq(S) /\ s \o <<x>> \in Seq(S) /\ <<x>> \o s \in Seq(S)
         /\ Append(s, x) \in Seq(S)
<1>1. <<x>> \in Seq(S)
  OBVIOUS
<1> QED BY <1>1, Joined, AppendProperties

LEMMA FirstStays ==
  ASSUME NEW S, NEW s \in Seq(S), NEW t \in Seq(S), s # <<>>
  PROVE  s \o t # <<>> /\ (s \o t)[1] = s[1]
OBVIOUS

LEMMA Prefix ==
  ASSUME NEW S, NEW s \in Seq(S), NEW n \in 0 .. Len(s)
  PROVE  SubSeq(s, 1, n) \in Seq(S)
<1>1. \A i \in 1 .. n : s[i] \in S
  BY ElementOfSeq, LenProperties
<1> QED BY <1>1, SubSeqProperties, LenProperties

LEMMA Wider ==
  ASSUME NEW S, NEW T, S \subseteq T
  PROVE  Seq(S) \subseteq Seq(T)
BY SeqMonotonic

LEMMA Sorted ==
  ASSUME NEW S, IsFiniteSet(S)
  PROVE  SetToSeq(S) \in Seq(S) /\ DOMAIN SetToSeq(S) = 1 .. Cardinality(S) /\ Cardinality(S) \in Nat
<1>1. Cardinality(S) \in Nat /\ ExistsBijection(1 .. Cardinality(S), S)
  BY FS_CardinalityType
<1>2. \E f \in [1 .. Cardinality(S) -> S] : IsInjective(f)
  BY <1>1 DEF ExistsBijection, Bijection, Injection, IsInjective
<1>3. SetToSeq(S) \in [1 .. Cardinality(S) -> S]
  BY <1>2 DEF SetToSeq
<1> QED BY <1>1, <1>3

-----------------------------------------------------------------------------
(* Operators of the model                                                  *)

LEMMA PortTypes ==
  /\ MaxConns \in Nat /\ MaxSends \in Nat /\ MaxHulls \in Nat /\ MaxFaults \in Nat
  /\ ServerPort \in Ports /\ ServerPort \notin Conns /\ -1 \in Ports /\ 0 \in Ports
  /\ Conns \subseteq Ports /\ ServerPort # -1 /\ ServerPort # 0
  /\ 0 \notin Conns /\ -1 \notin Conns
BY BoundsAssumption DEF ServerPort, Ports, Conns

LEMMA PeerTypes ==
  ASSUME TypeOK, NEW r, NEW i \in Conns
  PROVE  Peer(r, i) \in Hosts \X Ports
BY PortTypes DEF TypeOK, Objects, Peer, Hosts

LEMMA TasksTypes ==
  ASSUME NEW r, NEW entries \in SUBSET Endpoints, IsFiniteSet(entries), NEW message \in Carried
  PROVE  Tasks(r, entries, message) \in
           Seq({t \in Posts : /\ t.do = "reach" /\ t.msg = message /\ t.conn = 0
                              /\ \E e \in entries : t.hull = e.hull /\ t.ip = e.ip})
<1> DEFINE order == SetToSeq(entries)
           T == {t \in Posts : /\ t.do = "reach" /\ t.msg = message /\ t.conn = 0
                               /\ \E e \in entries : t.hull = e.hull /\ t.ip = e.ip}
           n == Cardinality(entries)
           task(e) == [do |-> "reach", hull |-> e.hull, ip |-> e.ip, msg |-> message, conn |-> 0]
<1>1. order \in Seq(entries) /\ DOMAIN order = 1 .. n /\ n \in Nat
  BY Sorted
<1>2. \A j \in 1 .. n : order[j] \in entries
  BY <1>1
<1>3. \A e \in entries : task(e) \in T
  <2> SUFFICES ASSUME NEW e \in entries PROVE task(e) \in T
    OBVIOUS
  <2>1. e.hull \in Hulls /\ e.ip \in Hosts
    BY DEF Endpoints
  <2>2. task(e) \in Posts
    BY <2>1, PortTypes DEF Posts
  <2> QED BY <2>2
<1>4. Tasks(r, entries, message) = [j \in 1 .. n |-> task(order[j])]
  BY <1>1 DEF Tasks
<1>5. \A j \in 1 .. n : task(order[j]) \in T
  BY <1>2, <1>3
<1> HIDE DEF task, T, order, n
<1>6. [j \in 1 .. n |-> task(order[j])] \in Seq(T)
  BY <1>1, <1>5
<1> QED BY <1>4, <1>6 DEF T

LEMMA TasksArePosts ==
  ASSUME NEW r, NEW entries \in SUBSET Endpoints, IsFiniteSet(entries), NEW message \in Carried
  PROVE  Tasks(r, entries, message) \in Seq(Posts)
<1> DEFINE T == {t \in Posts : /\ t.do = "reach" /\ t.msg = message /\ t.conn = 0
                              /\ \E e \in entries : t.hull = e.hull /\ t.ip = e.ip}
<1>1. Tasks(r, entries, message) \in Seq(T)
  BY TasksTypes
<1>2. T \subseteq Posts
  OBVIOUS
<1> HIDE DEF T
<1> QED BY <1>1, <1>2, SeqMonotonic

LEMMA FreshIs ==
  ASSUME Unused # {}
  PROVE  Fresh \in Conns /\ conn[Fresh] = NoConn /\ \A r \in Robots : \A e \in known[r] : e.port # Fresh
<1>1. Fresh \in Unused
  BY DEF Fresh
<1> QED BY <1>1 DEF Unused

(* What is noted of a connection or heard of a robot leaves one entry for   *)
(* each robot, and nobody is forgotten.                                    *)
Table(r, t) ==
  /\ t \subseteq Endpoints /\ IsFiniteSet(t)
  /\ \A d, e \in t : d.ip = e.ip => d = e /\ d.ip # r

LEMMA InfoIs ==
  ASSUME NEW r \in Robots, Table(r, known[r]),
         NEW ip \in Hosts, NEW number \in Hulls, NEW port \in Ports
  PROVE  /\ Table(r, ConnectionInfo(r, ip, number, port))
         /\ \A e \in known[r] : \E d \in ConnectionInfo(r, ip, number, port) : d.ip = e.ip
         /\ ip # r => \E d \in ConnectionInfo(r, ip, number, port) : d.ip = ip
         /\ \A d \in ConnectionInfo(r, ip, number, port) :
              \/ d \in known[r]
              \/ /\ d.ip = ip /\ d.hull = number /\ ip # r
                 /\ \/ d.port = port
                    \/ port = -1 /\ \E e \in known[r] : e.ip = ip /\ e.port = d.port
<1> DEFINE old == {e \in known[r] : e.ip = ip}
           live == {e \in old : Connection(r, ip, e.port) # {}}
           kept == IF port = -1 /\ live # {} THEN (CHOOSE e \in live : TRUE).port ELSE port
           new == [hull |-> number, ip |-> ip, port |-> kept]
<1>1. CASE ip = r
  BY <1>1 DEF ConnectionInfo, Table
<1>2. CASE ip # r
  <2>1. ConnectionInfo(r, ip, number, port) = (known[r] \ old) \cup {new}
    BY <1>2 DEF ConnectionInfo
  <2>2. kept = port \/ (port = -1 /\ \E e \in known[r] : e.ip = ip /\ e.port = kept)
    <3>1. CASE port = -1 /\ live # {}
      <4>1. (CHOOSE e \in live : TRUE) \in live
        BY <3>1
      <4> QED BY <3>1, <4>1
    <3> QED BY <3>1
  <2>3. kept \in Ports
    <3>1. \A e \in known[r] : e.port \in Ports
      BY DEF Table, Endpoints
    <3> QED BY <2>2, <3>1
  <2> HIDE DEF kept
  <2>4. new \in Endpoints /\ new.ip = ip /\ new.hull = number /\ new.port = kept
    BY <2>3 DEF Endpoints
  <2> HIDE DEF new
  <2>5. IsFiniteSet((known[r] \ old) \cup {new})
    <3>1. IsFiniteSet(known[r] \ old)
      BY FS_Subset DEF Table
    <3> QED BY <3>1, FS_AddElement
  <2>6. Table(r, (known[r] \ old) \cup {new})
    BY <1>2, <2>4, <2>5 DEF Table
  <2>7. \A e \in known[r] : \E d \in (known[r] \ old) \cup {new} : d.ip = e.ip
    BY <2>4
  <2>8. \E d \in (known[r] \ old) \cup {new} : d.ip = ip
    BY <2>4
  <2> HIDE DEF old
  <2>9. \A d \in (known[r] \ old) \cup {new} : d \in known[r] \/ d = new
    OBVIOUS
  <2> QED BY <1>2, <2>1, <2>2, <2>4, <2>6, <2>7, <2>8, <2>9
<1> QED BY <1>1, <1>2

-----------------------------------------------------------------------------
(* The inductive invariant, as far as it is about types                    *)

(* r has the object at an end of connection i.                             *)
Calls(r, i) == conn[i].from = r /\ conn[i].client \notin {"none", "gone"}
Serves(r, i) == conn[i].to = r /\ conn[i].server \in {"open", "dead"}

(* A task of r keeps to an end that r has; a greeting goes to the robot     *)
(* that has called, and all it tells of are known.                         *)
Held(r, t) ==
  IF t.do = "greet"
  THEN /\ Serves(r, t.conn)
       /\ t.was => Knows(r, conn[t.conn].from)
       /\ IsFiniteSet(t.others) /\ \A e \in t.others : Knows(r, e.ip)
  ELSE /\ t.ip # r
       /\ t.do # "reach" => t.conn \in Conns /\ (Calls(r, t.conn) \/ Serves(r, t.conn))
TasksHeld ==
  \A r \in Robots : work[r] \in Seq({t \in Posts \cup Greetings : Held(r, t)})

(* What is true of a connection on its way to "open".                      *)
Stage(c) ==
  /\ c.client = "none" => c = NoConn
  /\ c.client # "none" => c.from \in Robots /\ c.from # c.to
  /\ c.client \in {"created", "listed", "connecting"} => c.server = "none" /\ c.down = <<>>
  /\ c.client = "connecting" => c.up # <<>> /\ c.up[1] \in {"register"} \X Hulls
  /\ c.client = "gone" => c.down = <<>>
  /\ c.server # "none" => c.to \in Robots
Stages == \A i \in Conns : Stage(conn[i])

Tables == \A r \in Robots : Table(r, known[r])
Typed == TypeOK /\ Tables /\ TasksHeld /\ Stages

-----------------------------------------------------------------------------
(* What a step may do to a connection                                      *)

Makes(i) ==
  /\ conn[i] = NoConn
  /\ \A r \in Robots : \A e \in known[r] : e.port # i
  /\ \E r \in Robots, ip \in Hosts : ip # r /\ conn'[i] = Created(r, ip)
Lists(i) ==
  conn[i].client = "created" /\ conn'[i] = [conn[i] EXCEPT !.client = "listed"]
Begins(i) ==
  /\ conn[i].client = "listed"
  /\ conn'[i] = [conn[i] EXCEPT !.client = "connecting",
                                !.up = <<<<"register", hull[conn[i].from]>>>>]
Opens(i) ==
  /\ conn[i].client = "connecting" /\ conn[i].to \in Robots
  /\ conn'[i] = [conn[i] EXCEPT !.client = "open", !.server = "open",
                                !.due = conn[i].hooks, !.hooks = <<>>]
(* The object at r's end sends the message of r's task, or of a call.       *)
Sends(i) ==
  \E r \in Robots :
    \/ /\ Task(r, "check") /\ Head(work[r]).conn = i /\ (Calls(r, i) \/ Serves(r, i))
       /\ conn'[i] = [Posted(r, i, <<Head(work[r]).msg>>) EXCEPT !.due = conn[i].due]
    \/ /\ conn[i].from = r /\ conn[i].due # <<>>
       /\ conn'[i] = [Posted(r, i, <<Head(conn[i].due)[2]>>) EXCEPT !.due = Tail(conn[i].due)]
TableNews(r) == {<<"connection", e.ip, e.hull>> : e \in known[r]}
Greets(i) ==
  \E r \in Robots :
    /\ Task(r, "greet") /\ Head(work[r]).conn = i
    /\ conn[i].to = r /\ conn[i].server = "open"
    /\ \E ms \in Seq(TableNews(r)) : conn'[i] = Posted(r, i, ms \o <<<<"self", hull[r]>>>>)
Hooks(i) ==
  /\ conn[i].client # "none"
  /\ \E r \in Robots :
       /\ Task(r, "hook") /\ Head(work[r]).conn = i
       /\ conn'[i] = [conn[i] EXCEPT !.hooks = Append(@, <<Head(work[r]).hull, Head(work[r]).msg>>)]
(* r's last task is to greet whoever has made connection i.                *)
Awaited(r, i) ==
  /\ work[r] # <<>>
  /\ LET t == work[r][Len(work[r])] IN t.do = "greet" /\ t.conn = i
Reads(i) ==
  \E r \in Robots :
    \/ /\ conn[i].from = r /\ conn[i].client \in {"open", "dead"} /\ conn[i].down # <<>>
       /\ conn'[i] = [conn[i] EXCEPT !.down = Tail(@)]
       /\ Free(r)
       /\ Head(conn[i].down)[1] = "self" => \E e \in known'[r] : e.ip = conn[i].to
    \/ /\ conn[i].to = r /\ conn[i].server \in {"open", "dead"} /\ conn[i].up # <<>>
       /\ conn'[i] = [conn[i] EXCEPT !.up = Tail(@)]
       /\ Free(r)
       /\ Head(conn[i].up)[1] = "register" => Awaited(r, i)'
Breaks(i) ==
  \/ /\ conn[i].client \in {"connecting", "open"}
     /\ \E n \in 0 .. Len(conn[i].down) :
          conn'[i] = [conn[i] EXCEPT !.client = "dead", !.down = SubSeq(@, 1, n), !.hooks = <<>>]
  \/ /\ conn[i].server = "open"
     /\ \E n \in 0 .. Len(conn[i].up) :
          conn'[i] = [conn[i] EXCEPT !.server = "dead", !.up = SubSeq(@, 1, n)]
(* r's object goes, when r has no slot or is switched off.                  *)
Closes(i) ==
  \E r \in Robots :
    /\ work'[r] = <<>>
    /\ \/ /\ conn[i].from = r /\ conn[i].client \notin {"none", "gone"}
          /\ conn'[i] = Ended([conn[i] EXCEPT !.client = "gone", !.down = <<>>, !.hooks = <<>>,
                                              !.due = <<>>])
       \/ /\ conn[i].from = r /\ conn[i].client = "dead" /\ conn[i].down = <<>>
          /\ conn'[i] = Ended([conn[i] EXCEPT !.client = "gone"])
       \/ /\ conn[i].to = r /\ conn[i].server \in {"open", "dead"}
          /\ conn'[i] = Ended([conn[i] EXCEPT !.server = "gone", !.up = <<>>])
       \/ /\ conn[i].to = r /\ conn[i].server = "dead" /\ conn[i].up = <<>>
          /\ conn'[i] = Ended([conn[i] EXCEPT !.server = "gone"])

Moves(i) ==
  \/ conn'[i] = conn[i]
  \/ Makes(i) \/ Lists(i) \/ Begins(i) \/ Opens(i)
  \/ Sends(i) \/ Greets(i) \/ Hooks(i) \/ Reads(i) \/ Breaks(i) \/ Closes(i)

LEMMA One ==
  ASSUME TypeOK, NEW i \in Conns, NEW c, conn' = [conn EXCEPT ![i] = c]
  PROVE  /\ conn'[i] = c /\ \A j \in Conns \ {i} : conn'[j] = conn[j]
         /\ DOMAIN conn' = Conns /\ conn' = [j \in Conns |-> conn'[j]]
BY DEF TypeOK

LEMMA HeadHeld ==
  ASSUME Typed, NEW r \in Robots, work[r] # <<>>
  PROVE  /\ Head(work[r]) \in Posts \cup Greetings /\ Held(r, Head(work[r]))
         /\ Head(work[r]).do = "greet" => Head(work[r]) \in Greetings
         /\ Head(work[r]).do # "greet" => Head(work[r]) \in Posts
         /\ Tail(work[r]) \in Seq({t \in Posts \cup Greetings : Held(r, t)})
<1>1. /\ Head(work[r]) \in {t \in Posts \cup Greetings : Held(r, t)}
      /\ Tail(work[r]) \in Seq({t \in Posts \cup Greetings : Held(r, t)})
  BY HeadAndTail DEF Typed, TasksHeld
<1>2. \A t \in Posts \cup Greetings :
        (t.do = "greet" => t \in Greetings) /\ (t.do # "greet" => t \in Posts)
  BY DEF Posts, Greetings
<1> QED BY <1>1, <1>2

LEMMA MessageIs ==
  ASSUME NEW m \in Upwards \cup Downwards
  PROVE  /\ m[1] = "data" => m[2] \in 1 .. MaxSends /\ m = <<"data", m[2]>>
         /\ m[1] = "connection" => m[2] \in Hosts /\ m[3] \in Hulls /\ m[Len(m)] = m[3]
         /\ m[1] \in {"self", "register"} => m[2] \in Hulls /\ m[Len(m)] = m[2]
         /\ m[1] \in {"data", "connection", "self", "register"}
         /\ m \in Upwards /\ m[1] # "register" => m \in Carried
         /\ m \in Downwards /\ m[1] # "self" => m \in Carried
         /\ m \in Carried => m[1] \in {"data", "connection"}
<1>1. CASE m \in {"data"} \X (1 .. MaxSends)
  BY <1>1 DEF Carried
<1>2. CASE m \in {"connection"} \X Hosts \X Hulls
  <2>1. PICK ip \in Hosts, h \in Hulls : m = <<"connection", ip, h>>
    BY <1>2
  <2>2. m[1] = "connection" /\ m[2] = ip /\ m[3] = h /\ Len(m) = 3
    BY <2>1
  <2> QED BY <1>2, <2>2 DEF Carried
<1>3. CASE m \in {"register", "self"} \X Hulls
  <2>1. PICK kind \in {"register", "self"}, h \in Hulls : m = <<kind, h>>
    BY <1>3
  <2>2. m[1] = kind /\ m[2] = h /\ Len(m) = 2
    BY <2>1
  <2> QED BY <2>2 DEF Upwards, Downwards, Carried
<1> QED BY <1>1, <1>2, <1>3 DEF Upwards, Downwards, Carried

(* A message that a server may handle has its place and its kind.           *)
LEMMA IncomingIs ==
  ASSUME TypeOK, Stages, NEW r \in Robots, NEW i \in Conns, Incoming(r, i) # <<>>
  PROVE  \/ /\ conn[i].from = r /\ conn[i].to # r /\ conn[i].client \in {"open", "dead"}
            /\ conn[i].due = <<>>
            /\ Incoming(r, i) = conn[i].down /\ conn[i].down \in Seq(Downwards)
            /\ Head(conn[i].down) \in Downwards /\ Head(conn[i].down) = conn[i].down[1]
         \/ /\ conn[i].from # r /\ conn[i].to = r /\ conn[i].server \in {"open", "dead"}
            /\ Incoming(r, i) = conn[i].up /\ conn[i].up \in Seq(Upwards)
            /\ Head(conn[i].up) \in Upwards /\ Head(conn[i].up) = conn[i].up[1]
<1>1. conn[i] \in Objects /\ conn[i].up \in Seq(Upwards) /\ conn[i].down \in Seq(Downwards)
  BY DEF TypeOK, Objects
<1>2. Stage(conn[i])
  BY DEF Stages
<1>3. CASE conn[i].from = r /\ conn[i].client \in {"open", "dead"} /\ conn[i].due = <<>>
  <2>1. Incoming(r, i) = conn[i].down /\ conn[i].to # r
    BY <1>2, <1>3 DEF Incoming, Stage
  <2> QED BY <1>1, <1>3, <2>1, HeadAndTail
<1>4. CASE conn[i].to = r /\ conn[i].server \in {"open", "dead"}
  <2>1. conn[i].from # r
    BY <1>2, <1>4 DEF Stage, NoConn
  <2>2. Incoming(r, i) = conn[i].up
    BY <1>4, <2>1 DEF Incoming
  <2> QED BY <1>1, <1>4, <2>1, <2>2, HeadAndTail
<1> QED BY <1>3, <1>4 DEF Incoming

LEMMA LastIs ==
  ASSUME NEW S, NEW s \in Seq(S), NEW x \in S
  PROVE  s \o <<x>> # <<>> /\ (s \o <<x>>)[Len(s \o <<x>>)] = x
OBVIOUS

LEMMA SelfIsHeard ==
  ASSUME Typed, NEW r \in Robots, NEW i \in Conns, OnConnectionInfo(r, i),
         conn[i].from = r, conn[i].to # r, Incoming(r, i) = conn[i].down,
         Head(conn[i].down)[1] = "self"
  PROVE  \E e \in known'[r] : e.ip = conn[i].to
<1>1. TypeOK /\ Stages /\ Tables
  BY DEF Typed
<1>2. PICK number \in Hulls :
        known' = [known EXCEPT ![r] = ConnectionInfo(r, conn[i].to, number, -1)]
  BY DEF OnConnectionInfo, Brought
<1>3. conn[i].to \in Hosts
  BY <1>1 DEF TypeOK, Objects
<1>4. \E d \in ConnectionInfo(r, conn[i].to, number, -1) : d.ip = conn[i].to
  BY <1>1, <1>2, <1>3, InfoIs, PortTypes DEF Tables
<1>5. known'[r] = ConnectionInfo(r, conn[i].to, number, -1)
  BY <1>1, <1>2 DEF TypeOK
<1> QED BY <1>4, <1>5

(* Whoever is known hears of the robot that has called, then it is greeted. *)
Handshakes(r, i, m, g) ==
  /\ m = <<"connection", conn[i].from, Head(conn[i].up)[2]>>
  /\ g.do = "greet" /\ g.conn = i /\ g.hull = Head(conn[i].up)[2]
  /\ work'[r] = <<g>> \/ work'[r] = Tasks(r, known[r], m) \o <<g>>
LEMMA HandshakeWork ==
  ASSUME Typed, NEW r \in Robots, NEW i \in Conns, NewConnection(r, i)
  PROVE  /\ conn[i].from # r /\ conn[i].to = r /\ conn[i].up # <<>>
         /\ Head(conn[i].up) \in Upwards /\ Head(conn[i].up)[1] = "register"
         /\ Head(conn[i].up) = conn[i].up[1]
         /\ known[r] \in SUBSET Endpoints /\ IsFiniteSet(known[r])
         /\ \E m \in Carried, g \in Greetings : Handshakes(r, i, m, g)
<1> DEFINE number == Head(conn[i].up)[2]
           ip == conn[i].from
           isKnown == \E e \in known[r] : e.ip = ip /\ e.hull = number
           greeting == [do |-> "greet", conn |-> i, hull |-> number, was |-> isKnown,
                        others |-> known[r]]
           before == IF isKnown THEN <<>> ELSE Tasks(r, known[r], <<"connection", ip, number>>)
<1>1. TypeOK /\ Stages /\ Tables
  BY DEF Typed
<1>2. Incoming(r, i) # <<>> /\ Head(Incoming(r, i))[1] = "register"
      /\ work' = [work EXCEPT ![r] = before \o <<greeting>>]
  BY DEF NewConnection, Gets, Then
<1>3. /\ conn[i].from # r /\ conn[i].to = r /\ conn[i].up # <<>>
      /\ Head(conn[i].up) \in Upwards /\ Head(conn[i].up)[1] = "register"
      /\ Head(conn[i].up) = conn[i].up[1]
  <2>1. \A m \in Downwards : m[1] # "register"
    BY DEF Downwards, Carried
  <2> QED BY <1>1, <1>2, <2>1, IncomingIs
<1>4. number \in Hulls /\ ip \in Hosts
  BY <1>1, <1>3, MessageIs, SMTT(40) DEF TypeOK, Objects
<1>5. known[r] \in SUBSET Endpoints /\ IsFiniteSet(known[r]) /\ isKnown \in BOOLEAN
  BY <1>1 DEF Tables, Table
<1>6. <<"connection", ip, number>> \in Carried
  BY <1>4 DEF Carried
<1> HIDE DEF isKnown, number
<1>7. greeting \in Greetings /\ greeting.do = "greet" /\ greeting.conn = i /\ greeting.hull = number
  BY <1>4, <1>5, SMTT(40) DEF Greetings
<1>8. work'[r] = before \o <<greeting>>
  BY <1>1, <1>2 DEF TypeOK, isKnown, number
<1>9. before \o <<greeting>> = <<greeting>>
      \/ before = Tasks(r, known[r], <<"connection", ip, number>>)
  <2> HIDE DEF greeting
  <2>1. <<>> \o <<greeting>> = <<greeting>>
    OBVIOUS
  <2> QED BY <2>1
<1> HIDE DEF before, greeting, ip
<1>10. \E m \in Carried, g \in Greetings :
         /\ m = <<"connection", ip, number>>
         /\ g.do = "greet" /\ g.conn = i /\ g.hull = number
         /\ work'[r] = <<g>> \/ work'[r] = Tasks(r, known[r], m) \o <<g>>
  BY <1>6, <1>7, <1>8, <1>9
<1> QED BY <1>3, <1>5, <1>10 DEF ip, number, Handshakes

LEMMA HandshakeIsHeard ==
  ASSUME Typed, NEW r \in Robots, NEW i \in Conns, NewConnection(r, i)
  PROVE  Awaited(r, i)'
<1>0. \E m \in Carried, g \in Greetings : Handshakes(r, i, m, g)
  BY HandshakeWork
<1>1. PICK m \in Carried, g \in Greetings :
        /\ g.do = "greet" /\ g.conn = i
        /\ work'[r] = <<g>> \/ work'[r] = Tasks(r, known[r], m) \o <<g>>
  BY <1>0 DEF Handshakes
<1>2. Tasks(r, known[r], m) \in Seq(Posts \cup Greetings)
  <2>1. known[r] \in SUBSET Endpoints /\ IsFiniteSet(known[r])
    BY HandshakeWork
  <2>2. Tasks(r, known[r], m) \in Seq(Posts)
    BY <2>1, TasksArePosts
  <2> QED BY <2>2, SeqMonotonic
<1>3. work'[r] # <<>> /\ work'[r][Len(work'[r])] = g
  <2>1. <<g>> # <<>> /\ <<g>>[Len(<<g>>)] = g
    OBVIOUS
  <2>2. Tasks(r, known[r], m) \o <<g>> # <<>>
        /\ (Tasks(r, known[r], m) \o <<g>>)[Len(Tasks(r, known[r], m) \o <<g>>)] = g
    BY <1>2, LastIs
  <2> QED BY <1>1, <2>1, <2>2
<1> QED BY <1>1, <1>3 DEF Awaited

(* A greeting tells of whoever is in the table, and of the server itself.   *)
LEMMA GreetGreets ==
  ASSUME Typed, NEW r \in Robots, Greet(r)
  PROVE  \/ conn[Head(work[r]).conn].server # "open" /\ UNCHANGED <<conn, known>>
         \/ /\ conn[Head(work[r]).conn].server = "open" /\ Greets(Head(work[r]).conn)
            /\ \E c : conn' = [conn EXCEPT ![Head(work[r]).conn] = c]
<1>1. Task(r, "greet") /\ work[r] # <<>> /\ Head(work[r]).do = "greet"
  BY DEF Greet, Task
<1> DEFINE t == Head(work[r])
           order == SetToSeq(t.others)
           numberOf(e) == IF \E k \in known[r] : k.ip = e.ip
                          THEN (CHOOSE k \in known[r] : k.ip = e.ip).hull ELSE NoHull
           infos == [j \in DOMAIN order |-> <<"connection", order[j].ip, numberOf(order[j])>>]
<1>2. t \in Greetings /\ Held(r, t)
  BY <1>1, HeadHeld
<1>3. t.conn \in Conns /\ t.others \in SUBSET Endpoints /\ Serves(r, t.conn)
      /\ IsFiniteSet(t.others) /\ \A e \in t.others : Knows(r, e.ip)
  BY <1>1, <1>2 DEF Greetings, Held
<1> DEFINE i == t.conn
<1>4. order \in Seq(t.others)
      /\ \A e \in t.others : <<"connection", e.ip, numberOf(e)>> \in TableNews(r)
  <2>1. order \in Seq(t.others)
    BY <1>3, Sorted
  <2>2. ASSUME NEW e \in t.others PROVE <<"connection", e.ip, numberOf(e)>> \in TableNews(r)
    <3>1. \E k \in known[r] : k.ip = e.ip
      BY <1>3 DEF Knows
    <3>2. PICK k \in known[r] : k = CHOOSE d \in known[r] : d.ip = e.ip
      BY <3>1
    <3>3. k.ip = e.ip /\ numberOf(e) = k.hull
      BY <3>1, <3>2
    <3> QED BY <3>3 DEF TableNews
  <2> QED BY <2>1, <2>2
<1> HIDE DEF order, numberOf
<1>5. infos \in Seq(TableNews(r))
  <2>1. /\ DOMAIN order = 1 .. Len(order) /\ Len(order) \in Nat
        /\ \A j \in 1 .. Len(order) : order[j] \in t.others
    BY <1>4, LenProperties, ElementOfSeq
  <2>2. \A j \in 1 .. Len(order) : <<"connection", order[j].ip, numberOf(order[j])>> \in TableNews(r)
    BY <1>4, <2>1
  <2> QED BY <2>1, <2>2
<1> HIDE DEF infos
<1>6. \/ conn[i].server # "open" /\ UNCHANGED <<conn, known>>
      \/ /\ conn[i].server = "open"
         /\ conn' = [conn EXCEPT ![i] = Posted(r, i, infos \o <<<<"self", hull[r]>>>>)]
  BY DEF Greet, infos, order, numberOf
<1>7. conn[i].server = "open" /\ conn'[i] = Posted(r, i, infos \o <<<<"self", hull[r]>>>>) => Greets(i)
  BY <1>1, <1>3, <1>5 DEF Greets, Serves
<1> DEFINE greeted == Posted(r, i, infos \o <<<<"self", hull[r]>>>>)
<1>8. conn' = [conn EXCEPT ![i] = greeted] => conn'[i] = greeted
  BY <1>3 DEF Typed, TypeOK
<1> HIDE DEF i
<1> QED BY <1>6, <1>7, <1>8 DEF i

LEMMA NextMoves ==
  ASSUME Typed, [Next]_vars
  PROVE  DOMAIN conn' = Conns /\ conn' = [j \in Conns |-> conn'[j]] /\ \A i \in Conns : Moves(i)
<1> DEFINE Goal == DOMAIN conn' = Conns /\ conn' = [j \in Conns |-> conn'[j]]
                   /\ \A i \in Conns : Moves(i)
<1> SUFFICES Goal
  OBVIOUS
<1>0. TypeOK
  BY DEF Typed
<1>a. ASSUME UNCHANGED conn PROVE Goal
  BY <1>0, <1>a DEF TypeOK, Moves
<1>b. ASSUME NEW i \in Conns, NEW c, conn' = [conn EXCEPT ![i] = c],
             conn'[i] = c => Moves(i)
      PROVE  Goal
  <2>1. /\ conn'[i] = c /\ \A j \in Conns \ {i} : conn'[j] = conn[j]
        /\ DOMAIN conn' = Conns /\ conn' = [j \in Conns |-> conn'[j]]
    BY <1>0, <1>b, One
  <2> QED BY <1>b, <2>1 DEF Moves
<1>c. ASSUME NEW r \in Robots, NEW ip \in Hosts, ip # r, Unused # {},
             conn' = [conn EXCEPT ![Fresh] = Created(r, ip)]
      PROVE  Goal
  <2>1. Fresh \in Conns /\ conn[Fresh] = NoConn
        /\ \A p \in Robots : \A e \in known[p] : e.port # Fresh
    BY <1>c, FreshIs
  <2>2. conn'[Fresh] = Created(r, ip) => Moves(Fresh)
    BY <1>c, <2>1 DEF Moves, Makes
  <2> QED BY <1>b, <1>c, <2>1, <2>2
<1> HIDE DEF Goal
<1>1. ASSUME NEW r \in Robots, Reach(r) PROVE Goal
  <2>1. work[r] # <<>> /\ Head(work[r]).do = "reach"
    BY <1>1, Zenon DEF Reach, Task
  <2>2. Head(work[r]).ip # r /\ Head(work[r]).ip \in Hosts
    BY <2>1, HeadHeld DEF Held, Posts
  <2>3. UNCHANGED conn \/ (Unused # {} /\ conn' = [conn EXCEPT ![Fresh] = Created(r, Head(work[r]).ip)])
    BY <1>1, Zenon DEF Reach
  <2> QED BY <1>a, <1>c, <2>2, <2>3
<1>2. ASSUME NEW r \in Robots, Check(r) PROVE Goal
  <2>1. Task(r, "check") /\ work[r] # <<>> /\ Head(work[r]).do = "check"
    BY <1>2 DEF Check, Task
  <2> DEFINE t == Head(work[r])
  <2>2. t \in Posts /\ t.conn \in Conns /\ (Calls(r, t.conn) \/ Serves(r, t.conn)) /\ t.msg \in Carried
    BY <2>1, HeadHeld, ZenonT(60) DEF Held, Posts
  <2>3. CASE UNCHANGED conn
    BY <1>a, <2>3
  <2>4. CASE conn' = [conn EXCEPT ![t.conn] = [Posted(r, t.conn, <<t.msg>>) EXCEPT !.due = conn[t.conn].due]]
    <3>2. conn'[t.conn] = [Posted(r, t.conn, <<t.msg>>) EXCEPT !.due = conn[t.conn].due]
            => Sends(t.conn)
      BY <2>1, <2>2, Zenon DEF Sends
    <3> QED BY <1>b, <2>2, <2>4, <3>2, ZenonT(60) DEF Moves
  <2> QED BY <1>2, <2>3, <2>4 DEF Check, Reached
<1>3. ASSUME NEW r \in Robots, Hook(r) PROVE Goal
  <2>1. work[r] # <<>> /\ Head(work[r]).do = "hook"
    BY <1>3 DEF Hook, Task
  <2> DEFINE t == Head(work[r])
  <2>2. t.conn \in Conns /\ <<t.hull, t.msg>> \in Hulls \X Carried
        /\ (Calls(r, t.conn) \/ Serves(r, t.conn))
    BY <2>1, HeadHeld, ZenonT(60) DEF Held, Posts
  <2>a. conn[t.conn].client # "none"
    BY <2>2 DEF Calls, Serves, Typed, Stages, Stage, NoConn
  <2>3. conn' = [conn EXCEPT ![t.conn] = [conn[t.conn] EXCEPT !.hooks = Append(@, <<t.hull, t.msg>>)]]
    BY <1>3, SMTT(40) DEF Hook
  <2>4. conn'[t.conn] = [conn[t.conn] EXCEPT !.hooks = Append(@, <<t.hull, t.msg>>)] => Hooks(t.conn)
    BY <1>3, <2>2, <2>a DEF Hooks, Hook
  <2> QED BY <1>b, <2>2, <2>3, <2>4, Zenon DEF Moves
<1>4. ASSUME NEW r \in Robots, Greet(r) PROVE Goal
  <2> DEFINE t == Head(work[r])
             i == t.conn
  <2>1. i \in Conns
    BY <1>4, HeadHeld DEF Greet, Task, Greetings
  <2>2. UNCHANGED conn \/ (Greets(i) /\ \E c : conn' = [conn EXCEPT ![i] = c])
    BY <1>4, GreetGreets
  <2>3. ASSUME NEW c, Greets(i), conn' = [conn EXCEPT ![i] = c] PROVE Goal
    <3>1. Moves(i)
      BY <2>3 DEF Moves
    <3> HIDE DEF i
    <3> QED BY <1>b, <2>1, <2>3, <3>1
  <2> QED BY <1>a, <2>2, <2>3
<1>5. ASSUME NEW r \in Robots, Connected(r) PROVE Goal
  <2>1. PICK i \in Conns :
          /\ conn[i].from = r /\ conn[i].due # <<>>
          /\ conn' = [conn EXCEPT ![i] = [Posted(r, i, <<Head(conn[i].due)[2]>>) EXCEPT !.due = Tail(@)]]
    BY <1>5 DEF Connected
  <2>4. Posted(r, i, <<Head(conn[i].due)[2]>>).due = conn[i].due
    BY <1>0 DEF Posted, TypeOK, Objects
  <2>5. conn'[i] = [Posted(r, i, <<Head(conn[i].due)[2]>>) EXCEPT !.due = Tail(@)] => Sends(i)
    BY <2>1, <2>4 DEF Sends
  <2> QED BY <1>b, <2>1, <2>5 DEF Moves
<1>6. ASSUME NEW r \in Robots, Started(r) PROVE Goal
  BY <1>6, <1>b DEF Started, Moves, Lists
<1>7. ASSUME NEW r \in Robots, ConnectionClosed(r) PROVE Goal
  <2>1. work'[r] = <<>>
    BY <1>7 DEF ConnectionClosed, Free
  <2>2. PICK i \in Conns :
          \/ /\ conn[i].from = r /\ conn[i].client = "dead" /\ conn[i].down = <<>>
             /\ conn' = [conn EXCEPT ![i] = Ended([@ EXCEPT !.client = "gone"])]
          \/ /\ conn[i].to = r /\ conn[i].server = "dead" /\ conn[i].up = <<>>
             /\ conn' = [conn EXCEPT ![i] = Ended([@ EXCEPT !.server = "gone"])]
    BY <1>7 DEF ConnectionClosed
  <2>3. \/ /\ conn[i].from = r /\ conn[i].client = "dead" /\ conn[i].down = <<>>
           /\ conn' = [conn EXCEPT ![i] = Ended([conn[i] EXCEPT !.client = "gone"])]
        \/ /\ conn[i].to = r /\ conn[i].server = "dead" /\ conn[i].up = <<>>
           /\ conn' = [conn EXCEPT ![i] = Ended([conn[i] EXCEPT !.server = "gone"])]
    BY <2>2
  <2>4. conn[i].from = r /\ conn[i].client = "dead" /\ conn[i].down = <<>>
        /\ conn'[i] = Ended([conn[i] EXCEPT !.client = "gone"]) => Closes(i)
    BY <2>1 DEF Closes
  <2>5. conn[i].to = r /\ conn[i].server = "dead" /\ conn[i].up = <<>>
        /\ conn'[i] = Ended([conn[i] EXCEPT !.server = "gone"]) => Closes(i)
    BY <2>1 DEF Closes
  <2> QED BY <1>b, <2>3, <2>4, <2>5 DEF Moves
<1>8. ASSUME NEW r \in Robots, NEW i \in Conns,
             NewConnection(r, i) \/ OnConnectionInfo(r, i) \/ OnNewData(r, i)
      PROVE  Goal
  <2>1. Incoming(r, i) # <<>> /\ Takes(r, i, conn[i]) /\ Free(r)
    BY <1>8 DEF NewConnection, OnConnectionInfo, OnNewData, Gets
  <2>2. conn' = [conn EXCEPT ![i] = IF conn[i].from = r THEN [conn[i] EXCEPT !.down = Tail(@)]
                                                      ELSE [conn[i] EXCEPT !.up = Tail(@)]]
    BY <2>1 DEF Takes
  <2>3. CASE conn[i].from = r
    <3>1. /\ conn[i].client \in {"open", "dead"} /\ conn[i].to # r
          /\ Incoming(r, i) = conn[i].down /\ conn[i].down # <<>>
      BY <1>0, <2>1, <2>3, IncomingIs DEF Typed
    <3>2. Head(conn[i].down)[1] = "self" => \E e \in known'[r] : e.ip = conn[i].to
      BY <1>0, <1>8, <2>3, <3>1, SelfIsHeard DEF Gets, NewConnection, OnNewData
    <3>3. conn'[i] = [conn[i] EXCEPT !.down = Tail(@)] => Reads(i)
      BY <2>1, <2>3, <3>1, <3>2 DEF Reads
    <3> QED BY <1>b, <2>2, <2>3, <3>3 DEF Moves
  <2>4. CASE conn[i].from # r
    <3>1. /\ conn[i].server \in {"open", "dead"} /\ conn[i].to = r
          /\ Incoming(r, i) = conn[i].up /\ conn[i].up # <<>>
      BY <1>0, <2>1, <2>4, IncomingIs DEF Typed
    <3>2. Head(conn[i].up)[1] = "register" => Awaited(r, i)'
      BY <1>8, <3>1, HandshakeIsHeard DEF Gets, OnConnectionInfo, OnNewData
    <3>3. conn'[i] = [conn[i] EXCEPT !.up = Tail(@)] => Reads(i)
      BY <2>1, <2>4, <3>1, <3>2 DEF Reads
    <3> QED BY <1>b, <2>2, <2>4, <3>3 DEF Moves
  <2> QED BY <2>3, <2>4
<1>9. ASSUME NEW r \in Robots, NEW ip \in Robots, ConnectTo(r, ip) PROVE Goal
  BY <1>9, <1>a, <1>c DEF ConnectTo, Hosts
<1>10. ASSUME NEW r \in Robots, SetHullNumber(r) \/ \E entries : Send(r, entries) PROVE Goal
  BY <1>10, <1>a DEF SetHullNumber, Send
<1>11. ASSUME NEW i \in Conns, Connect(i) PROVE Goal
  BY <1>11, <1>b, ZenonT(60) DEF Connect, Moves, Begins
<1>12. ASSUME NEW i \in Conns, Open(i) PROVE Goal
  <2>1. conn[i].to \in Robots
    BY <1>0, <1>12 DEF Open, TypeOK, Objects, Hosts
  <2>2. conn' = [conn EXCEPT ![i] = [conn[i] EXCEPT !.client = "open", !.server = "open",
                                !.due = conn[i].hooks, !.hooks = <<>>]]
    BY <1>12 DEF Open
  <2> QED BY <1>12, <1>b, <2>1, <2>2, Zenon DEF Open, Moves, Opens
<1>13. ASSUME NEW i \in Conns, Break(i) PROVE Goal
  <2>1. EndBreaks(i)
    BY <1>13 DEF Break
  <2>2. ASSUME conn[i].client \in {"connecting", "open"}, NEW n \in 0 .. Len(conn[i].down),
               conn' = [conn EXCEPT ![i].client = "dead", ![i].down = SubSeq(@, 1, n), ![i].hooks = <<>>]
        PROVE  Goal
    <3>1. conn' = [conn EXCEPT ![i] = [conn[i] EXCEPT !.client = "dead", !.down = SubSeq(@, 1, n),
                                                     !.hooks = <<>>]]
      BY <2>2
    <3>2. conn'[i] = [conn[i] EXCEPT !.client = "dead", !.down = SubSeq(@, 1, n), !.hooks = <<>>] => Breaks(i)
      BY <2>2, Zenon DEF Breaks
    <3> QED BY <1>b, <3>1, <3>2 DEF Moves
  <2>3. ASSUME conn[i].server = "open", NEW n \in 0 .. Len(conn[i].up),
               conn' = [conn EXCEPT ![i].server = "dead", ![i].up = SubSeq(@, 1, n)]
        PROVE  Goal
    <3>1. conn' = [conn EXCEPT ![i] = [conn[i] EXCEPT !.server = "dead", !.up = SubSeq(@, 1, n)]]
      BY <2>3, ZenonT(60)
    <3>2. conn'[i] = [conn[i] EXCEPT !.server = "dead", !.up = SubSeq(@, 1, n)] => Breaks(i)
      BY <2>3, Zenon DEF Breaks
    <3> QED BY <1>b, <3>1, <3>2 DEF Moves
  <2> QED BY <2>1, <2>2, <2>3, Zenon DEF EndBreaks
<1>14. ASSUME NEW r \in Robots, Restart(r) PROVE Goal
  <2> DEFINE gone(c) == Ended([c EXCEPT !.client = "gone", !.down = <<>>, !.hooks = <<>>, !.due = <<>>])
             left(c) == Ended([c EXCEPT !.server = "gone", !.up = <<>>])
             off == [i \in Conns |->
               CASE conn[i].from = r /\ conn[i].client \notin {"none", "gone"} -> gone(conn[i])
                 [] conn[i].to = r /\ conn[i].server \in {"open", "dead"} -> left(conn[i])
                 [] OTHER -> conn[i]]
  <2>1. /\ leader[r] = r \/ Unused # {}
        /\ conn' = IF leader[r] = r THEN off ELSE [off EXCEPT ![Fresh] = Created(r, leader[r])]
        /\ work'[r] = <<>>
    BY <1>0, <1>14, ZenonT(60) DEF Restart, TypeOK
  <2>2. /\ DOMAIN conn' = Conns /\ conn' = [j \in Conns |-> conn'[j]]
        /\ leader[r] # r => conn'[Fresh] = Created(r, leader[r])
        /\ \A i \in Conns : (leader[r] # r /\ i = Fresh) \/ conn'[i] = off[i]
    <3>1. leader[r] # r => Fresh \in Conns
      BY <2>1, FreshIs, ZenonT(60)
    <3> HIDE DEF gone, left
    <3> QED BY <2>1, <3>1, SMTT(40)
  <2>3. ASSUME NEW i \in Conns PROVE Moves(i)
    <3>1. CASE leader[r] # r /\ i = Fresh
      <4>1. leader[r] \in Hosts
        BY <1>0 DEF TypeOK, Hosts
      <4> QED BY <2>1, <2>2, <3>1, <4>1, FreshIs, ZenonT(60) DEF Moves, Makes
    <3>2. CASE conn'[i] = off[i]
      <4>1. CASE conn[i].from = r /\ conn[i].client \notin {"none", "gone"} /\ conn'[i] = gone(conn[i])
        BY <2>1, <4>1, Zenon DEF Moves, Closes
      <4>2. CASE conn[i].to = r /\ conn[i].server \in {"open", "dead"} /\ conn'[i] = left(conn[i])
        BY <2>1, <4>2, Zenon DEF Moves, Closes
      <4> HIDE DEF gone, left
      <4>3. CASE conn'[i] = conn[i]
        BY <4>3 DEF Moves
      <4> QED BY <3>2, <4>1, <4>2, <4>3
    <3> QED BY <2>2, <3>1, <3>2, ZenonT(60)
  <2> QED BY <2>2, <2>3, Zenon DEF Goal
<1>15. CASE UNCHANGED vars
  BY <1>15, <1>a DEF vars
<1> QED
  BY <1>1, <1>2, <1>3, <1>4, <1>5, <1>6, <1>7, <1>8, <1>9, <1>10, <1>11, <1>12, <1>13, <1>14, <1>15
     DEF Next, Scripts, Server, Wires, Faults

-----------------------------------------------------------------------------
(* Types and stages of the connections are kept                            *)

LEMMA PostedIs ==
  ASSUME TypeOK, NEW i \in Conns, NEW r, Stage(conn[i]),
         NEW ms \in Seq(Upwards \cup Downwards),
         conn[i].from = r => ms \in Seq(Upwards), conn[i].from # r => ms \in Seq(Downwards)
  PROVE  /\ Posted(r, i, ms) \in Objects /\ Stage(Posted(r, i, ms))
         /\ Posted(r, i, ms).due = conn[i].due /\ Posted(r, i, ms).client = conn[i].client
<1> DEFINE c == conn[i]
<1>1. c \in Objects /\ c.up \in Seq(Upwards) /\ c.down \in Seq(Downwards)
  BY DEF TypeOK, Objects
<1>2. ASSUME c.from = r, c.client \in {"connecting", "open"},
             Posted(r, i, ms) = [c EXCEPT !.up = @ \o ms]
      PROVE  Posted(r, i, ms) \in Objects /\ Stage(Posted(r, i, ms)) /\ Posted(r, i, ms).due = c.due
            /\ Posted(r, i, ms).client = c.client
  <2>1. c.up \o ms \in Seq(Upwards)
    BY <1>1, <1>2, Joined
  <2>2. c.client = "connecting" => c.up \o ms # <<>> /\ (c.up \o ms)[1] = c.up[1]
    BY <1>1, <1>2, FirstStays DEF Stage
  <2>3. [c EXCEPT !.up = c.up \o ms] \in Objects
    BY <1>1, <2>1 DEF Objects
  <2> HIDE DEF c
  <2>4. Stage(c)
    BY DEF c
  <2>5. Stage([c EXCEPT !.up = c.up \o ms])
    BY <1>1, <1>2, <2>2, <2>4 DEF Stage, Objects
  <2> QED BY <1>1, <1>2, <2>3, <2>5 DEF Objects
<1>3. ASSUME c.from # r, c.client = "open",
             Posted(r, i, ms) = [c EXCEPT !.down = @ \o ms]
      PROVE  Posted(r, i, ms) \in Objects /\ Stage(Posted(r, i, ms)) /\ Posted(r, i, ms).due = c.due
            /\ Posted(r, i, ms).client = c.client
  <2>1. c.down \o ms \in Seq(Downwards)
    BY <1>1, <1>3, Joined
  <2>3. [c EXCEPT !.down = c.down \o ms] \in Objects
    BY <1>1, <2>1 DEF Objects
  <2> HIDE DEF c
  <2>4. Stage(c)
    BY DEF c
  <2>5. Stage([c EXCEPT !.down = c.down \o ms])
    BY <1>1, <1>3, <2>4 DEF Stage, Objects
  <2> QED BY <1>1, <1>3, <2>3, <2>5 DEF Objects
<1>4. CASE Posted(r, i, ms) = c
  BY <1>1, <1>4
<1>5. \/ c.from = r /\ c.client \in {"connecting", "open"} /\ Posted(r, i, ms) = [c EXCEPT !.up = @ \o ms]
      \/ c.from # r /\ c.client = "open" /\ Posted(r, i, ms) = [c EXCEPT !.down = @ \o ms]
      \/ Posted(r, i, ms) = c
  BY DEF Posted, Stage
<1> QED BY <1>2, <1>3, <1>4, <1>5

LEMMA SendIs ==
  ASSUME TypeOK, NEW i \in Conns, Sends(i)
  PROVE  \E r \in Robots, m \in Carried, due \in Seq(Hulls \X Carried) :
           /\ conn[i].from = r \/ conn[i].to = r
           /\ conn'[i] = [Posted(r, i, <<m>>) EXCEPT !.due = due]
<1>1. conn[i].due \in Seq(Hulls \X Carried)
  BY DEF TypeOK, Objects
<1>2. ASSUME NEW r \in Robots, Task(r, "check") PROVE Head(work[r]).msg \in Carried
  <2>1. Head(work[r]) \in Posts \cup Greetings /\ Head(work[r]).do = "check"
    BY <1>2, HeadAndTail DEF Task, TypeOK
  <2> QED BY <2>1 DEF Posts, Greetings
<1>3. conn[i].due # <<>> =>
        Head(conn[i].due)[2] \in Carried /\ Tail(conn[i].due) \in Seq(Hulls \X Carried)
  BY <1>1, HeadAndTail
<1>4. ASSUME NEW r \in Robots, NEW m \in Carried, NEW due \in Seq(Hulls \X Carried),
             conn[i].from = r \/ conn[i].to = r,
             conn'[i] = [Posted(r, i, <<m>>) EXCEPT !.due = due]
      PROVE  \E q \in Robots, n \in Carried, d \in Seq(Hulls \X Carried) :
               /\ conn[i].from = q \/ conn[i].to = q
               /\ conn'[i] = [Posted(q, i, <<n>>) EXCEPT !.due = d]
  BY <1>4
<1>5. PICK r \in Robots :
        \/ /\ Task(r, "check") /\ (conn[i].from = r \/ conn[i].to = r)
           /\ conn'[i] = [Posted(r, i, <<Head(work[r]).msg>>) EXCEPT !.due = conn[i].due]
        \/ /\ conn[i].from = r /\ conn[i].due # <<>>
           /\ conn'[i] = [Posted(r, i, <<Head(conn[i].due)[2]>>) EXCEPT !.due = Tail(conn[i].due)]
  BY DEF Sends, Calls, Serves
<1> QED BY <1>1, <1>2, <1>3, <1>4, <1>5

LEMMA GreetIs ==
  ASSUME TypeOK, NEW i \in Conns, Greets(i)
  PROVE  \E r \in Robots, ms \in Seq(Carried) :
           /\ conn[i].to = r /\ conn[i].server = "open"
           /\ conn'[i] = Posted(r, i, ms \o <<<<"self", hull[r]>>>>)
<1>1. \A r \in Robots : TableNews(r) \subseteq Carried
  BY DEF TableNews, Carried, TypeOK, Endpoints
<1> QED BY <1>1, SeqMonotonic DEF Greets

LEMMA HookIs ==
  ASSUME TypeOK, NEW i \in Conns, Hooks(i)
  PROVE  \E call \in Hulls \X Carried : conn'[i] = [conn[i] EXCEPT !.hooks = Append(@, call)]
<1>1. ASSUME NEW r \in Robots, Task(r, "hook")
      PROVE  <<Head(work[r]).hull, Head(work[r]).msg>> \in Hulls \X Carried
  <2>1. Head(work[r]) \in Posts \cup Greetings /\ Head(work[r]).do = "hook"
    BY <1>1, HeadAndTail DEF Task, TypeOK
  <2> QED BY <2>1 DEF Posts, Greetings
<1> QED BY <1>1 DEF Hooks

LEMMA ObjectKept ==
  ASSUME TypeOK, NEW i \in Conns, Stage(conn[i]), Moves(i)
  PROVE  conn'[i] \in Objects /\ Stage(conn'[i])
<1> DEFINE c == conn[i]
           d == conn'[i]
<1>1. /\ c \in Objects /\ c.up \in Seq(Upwards) /\ c.down \in Seq(Downwards)
      /\ c.hooks \in Seq(Hulls \X Carried) /\ c.due \in Seq(Hulls \X Carried)
  BY DEF TypeOK, Objects
<1>2. NoConn \in Objects /\ Stage(NoConn) /\ \A S : <<>> \in Seq(S)
  <2>1. \A S : <<>> \in Seq(S)
    OBVIOUS
  <2> QED BY <2>1 DEF NoConn, Objects, Stage, Hosts
<1>3. CASE d = c
  BY <1>1, <1>3
<1>4. CASE Makes(i)
  <2>1. PICK r \in Robots, ip \in Hosts : ip # r /\ d = Created(r, ip)
    BY <1>4 DEF Makes
  <2>2. d = [from |-> r, to |-> ip, client |-> "created", server |-> "none",
             up |-> <<>>, down |-> <<>>, hooks |-> <<>>, due |-> <<>>]
    BY <2>1 DEF Created, NoConn
  <2>3. <<>> \in Seq(Upwards) /\ <<>> \in Seq(Downwards) /\ <<>> \in Seq(Hulls \X Carried)
    BY <1>2
  <2>4. d \in Objects
    BY <2>1, <2>2, <2>3 DEF Objects, Hosts
  <2> HIDE DEF d
  <2>5. Stage(d)
    BY <2>1, <2>2 DEF Stage
  <2> QED BY <2>4, <2>5 DEF d
<1>5. CASE Lists(i)
  <2> HIDE DEF c, d
  <2>1. c.client = "created" /\ d = [c EXCEPT !.client = "listed"] /\ Stage(c)
    BY <1>5 DEF Lists, c, d
  <2> QED BY <1>1, <2>1 DEF Objects, Stage, c, d
<1>6. CASE Begins(i)
  <2> DEFINE up == <<<<"register", hull[c.from]>>>>
  <2>1. c.client = "listed" /\ d = [c EXCEPT !.client = "connecting", !.up = up] /\ Stage(c)
    BY <1>6 DEF Begins
  <2>2. c.from \in Robots
    BY <2>1 DEF Stage
  <2>3. <<"register", hull[c.from]>> \in {"register"} \X Hulls
    BY <2>2 DEF TypeOK
  <2>4. up \in Seq(Upwards) /\ up # <<>> /\ up[1] \in {"register"} \X Hulls
    BY <2>3 DEF Upwards
  <2> HIDE DEF up
  <2>5. d \in Objects
    BY <1>1, <2>1, <2>4 DEF Objects
  <2> HIDE DEF c, d
  <2>6. Stage(d)
    BY <1>1, <2>1, <2>2, <2>4 DEF Objects, Stage
  <2> QED BY <2>5, <2>6 DEF d
<1>7. CASE Opens(i)
  <2>1. c.client = "connecting" /\ c.to \in Robots /\ Stage(c)
        /\ d = [c EXCEPT !.client = "open", !.server = "open", !.due = c.hooks, !.hooks = <<>>]
    BY <1>7 DEF Opens
  <2> HIDE DEF c, d
  <2>2. d \in Objects /\ Stage(d)
    BY <1>1, <1>2, <2>1 DEF Objects, Stage
  <2> QED BY <2>2 DEF d
<1>8. CASE Sends(i)
  <2>1. PICK r \in Robots, m \in Carried, due \in Seq(Hulls \X Carried) :
          /\ conn[i].from = r \/ conn[i].to = r
          /\ d = [Posted(r, i, <<m>>) EXCEPT !.due = due]
    BY <1>8, SendIs
  <2>2. <<m>> \in Seq(Upwards) /\ <<m>> \in Seq(Downwards) /\ <<m>> \in Seq(Upwards \cup Downwards)
    BY DEF Upwards, Downwards
  <2> DEFINE p == Posted(r, i, <<m>>)
  <2>3. p \in Objects /\ Stage(p) /\ p.client = c.client
    BY <2>2, PostedIs
  <2>4. d = [p EXCEPT !.due = due]
    BY <2>1
  <2>5. c.client # "none"
    BY <2>1 DEF Stage, NoConn
  <2> HIDE DEF p, d, c
  <2>6. d \in Objects
    BY <2>3, <2>4 DEF Objects
  <2>7. Stage(d)
    BY <2>3, <2>4, <2>5 DEF Objects, Stage
  <2> QED BY <2>6, <2>7 DEF d
<1>9. CASE Greets(i)
  <2>1. PICK r \in Robots, ms \in Seq(Carried) :
          /\ conn[i].to = r /\ conn[i].server = "open"
          /\ d = Posted(r, i, ms \o <<<<"self", hull[r]>>>>)
    BY <1>9, GreetIs
  <2>2. c.from # r
    BY <2>1 DEF Stage, NoConn
  <2>3. <<"self", hull[r]>> \in {"self"} \X Hulls /\ ms \in Seq(Downwards)
    BY SeqMonotonic DEF TypeOK, Downwards
  <2>4. ms \o <<<<"self", hull[r]>>>> \in Seq(Downwards)
    BY <2>3, JoinedOne DEF Downwards
  <2>5. ms \o <<<<"self", hull[r]>>>> \in Seq(Upwards \cup Downwards)
    BY <2>4, SeqMonotonic
  <2> QED BY <2>1, <2>2, <2>4, <2>5, PostedIs
<1>10. CASE Hooks(i)
  <2>1. PICK call \in Hulls \X Carried : d = [c EXCEPT !.hooks = Append(@, call)]
    BY <1>10, HookIs
  <2>2. Append(c.hooks, call) \in Seq(Hulls \X Carried) /\ c.client # "none" /\ Stage(c)
    BY <1>1, <1>10, JoinedOne DEF Hooks
  <2> HIDE DEF c, d
  <2>3. d \in Objects /\ Stage(d)
    BY <1>1, <2>1, <2>2 DEF Objects, Stage
  <2> QED BY <2>3 DEF d
<1>11. CASE Reads(i)
  <2>1. CASE c.client \in {"open", "dead"} /\ c.down # <<>> /\ d = [c EXCEPT !.down = Tail(@)]
    <3>1. Tail(c.down) \in Seq(Downwards) /\ Stage(c)
      BY <1>1, <2>1, HeadAndTail
    <3> HIDE DEF c, d
    <3>2. d \in Objects /\ Stage(d)
      BY <1>1, <2>1, <3>1 DEF Objects, Stage
    <3> QED BY <3>2 DEF d
  <2>2. CASE c.server \in {"open", "dead"} /\ c.up # <<>> /\ d = [c EXCEPT !.up = Tail(@)]
    <3>1. Tail(c.up) \in Seq(Upwards) /\ Stage(c)
      BY <1>1, <2>2, HeadAndTail
    <3>2. c.client # "none"
      BY <2>2 DEF Stage, NoConn
    <3> HIDE DEF c, d
    <3>3. d \in Objects /\ Stage(d)
      BY <1>1, <2>2, <3>1, <3>2 DEF Objects, Stage
    <3> QED BY <3>3 DEF d
  <2> QED BY <1>11, <2>1, <2>2 DEF Reads
<1>12. CASE Breaks(i)
  <2>1. ASSUME c.client \in {"connecting", "open"}, NEW n \in 0 .. Len(c.down),
               d = [c EXCEPT !.client = "dead", !.down = SubSeq(@, 1, n), !.hooks = <<>>]
        PROVE  d \in Objects /\ Stage(d)
    <3>1. SubSeq(c.down, 1, n) \in Seq(Downwards) /\ <<>> \in Seq(Hulls \X Carried) /\ Stage(c)
      BY <1>1, <1>2, Prefix
    <3> HIDE DEF c, d
    <3> QED BY <1>1, <2>1, <3>1 DEF Objects, Stage
  <2>2. ASSUME c.server = "open", NEW n \in 0 .. Len(c.up),
               d = [c EXCEPT !.server = "dead", !.up = SubSeq(@, 1, n)]
        PROVE  d \in Objects /\ Stage(d)
    <3>1. SubSeq(c.up, 1, n) \in Seq(Upwards) /\ Stage(c)
      BY <1>1, Prefix
    <3>2. c.client # "none"
      BY <2>2 DEF Stage, NoConn
    <3> HIDE DEF c, d
    <3> QED BY <1>1, <2>2, <3>1, <3>2 DEF Objects, Stage
  <2> QED BY <1>12, <2>1, <2>2, Zenon DEF Breaks
<1>13. CASE Closes(i)
  <2>1. c.client # "none" /\ Stage(c)
    BY <1>13 DEF Closes, Stage, NoConn
  <2>2. <<>> \in Seq(Upwards) /\ <<>> \in Seq(Downwards) /\ <<>> \in Seq(Hulls \X Carried)
    BY <1>2
  <2>3. \A x \in Objects : Stage(x) => Ended(x) \in Objects /\ Stage(Ended(x))
    BY <1>2 DEF Ended
  <2>4. \E x : /\ d = Ended(x)
               /\ \/ x = [c EXCEPT !.client = "gone", !.down = <<>>, !.hooks = <<>>, !.due = <<>>]
                  \/ c.down = <<>> /\ x = [c EXCEPT !.client = "gone"]
                  \/ c.server \in {"open", "dead"} /\ x = [c EXCEPT !.server = "gone", !.up = <<>>]
                  \/ c.server = "dead" /\ x = [c EXCEPT !.server = "gone"]
    BY <1>13 DEF Closes
  <2> HIDE DEF c, d
  <2>5. PICK x : /\ d = Ended(x)
                 /\ \/ x = [c EXCEPT !.client = "gone", !.down = <<>>, !.hooks = <<>>, !.due = <<>>]
                    \/ c.down = <<>> /\ x = [c EXCEPT !.client = "gone"]
                    \/ c.server \in {"open", "dead"} /\ x = [c EXCEPT !.server = "gone", !.up = <<>>]
                    \/ c.server = "dead" /\ x = [c EXCEPT !.server = "gone"]
    BY <2>4
  <2>6. x \in Objects
    BY <1>1, <2>2, <2>5, ZenonT(60) DEF Objects
  <2>7. Stage(x)
    BY <1>1, <2>1, <2>5, ZenonT(60) DEF Objects, Stage
  <2>8. d \in Objects /\ Stage(d)
    BY <2>3, <2>5, <2>6, <2>7
  <2> QED BY <2>8 DEF d
<1> QED
  BY <1>3, <1>4, <1>5, <1>6, <1>7, <1>8, <1>9, <1>10, <1>11, <1>12, <1>13 DEF Moves

-----------------------------------------------------------------------------
(* The tables                                                               *)

(* Who tells r that the robot at ip has this number.                       *)
Tells(r, ip, number) ==
  \/ /\ Task(r, "check") /\ number = Head(work[r]).hull /\ ip = Peer(r, Head(work[r]).conn)[1]
  \/ /\ Task(r, "greet") /\ number = Head(work[r]).hull /\ ip = conn[Head(work[r]).conn].from
  \/ \E i \in Conns : /\ conn[i].from = r /\ conn[i].due # <<>>
                       /\ number = Head(conn[i].due)[1] /\ ip = Peer(r, i)[1]
  \/ \E i \in Conns, m \in Upwards \cup Downwards :
       /\ Incoming(r, i) # <<>> /\ m = Head(Incoming(r, i)) /\ number[1] = m[Len(m)][1]
       /\ \/ m[1] = "self" /\ ip = conn[i].to
          \/ m[1] = "connection" /\ ip = m[2]

(* What a step may do to the tables; a port of a connection is noted by the *)
(* server that has its end.                                                *)
Notes(r, ip, number, port) ==
  /\ known' = [known EXCEPT ![r] = ConnectionInfo(r, ip, number, port)]
  /\ Tells(r, ip, number)
  /\ port \in Conns =>
       /\ conn[port].to = r /\ conn[port].server = "open"
       /\ work[r] # <<>> /\ Head(work[r]).conn = port
       /\ Head(work[r]).do = "check" \/ Greets(port)

LEMMA NextNotes ==
  ASSUME Typed, [Next]_vars
  PROVE  \/ UNCHANGED known
         \/ \E r \in Robots : Restart(r)
         \/ \E r \in Robots, ip \in Hosts, number \in Hulls, port \in Ports : Notes(r, ip, number, port)
<1> DEFINE Goal == \/ UNCHANGED known
                   \/ \E r \in Robots : Restart(r)
                   \/ \E r \in Robots, ip \in Hosts, number \in Hulls, port \in Ports :
                        Notes(r, ip, number, port)
<1> SUFFICES Goal
  OBVIOUS
<1>0. TypeOK /\ Stages
  BY DEF Typed
<1>1. ASSUME NEW r \in Robots, Check(r) PROVE Goal
  <2>1. CASE UNCHANGED known
    BY <2>1
  <2> DEFINE t == Head(work[r])
             i == t.conn
  <2>2. CASE /\ Task(r, "check")
             /\ known' = [known EXCEPT ![r] = ConnectionInfo(r, Peer(r, i)[1], t.hull, Peer(r, i)[2])]
    <3>1. work[r] # <<>> /\ t.do = "check"
      BY <2>2 DEF Task
    <3>2. t \in Posts /\ i \in Conns /\ t.hull \in Hulls
      BY <3>1, HeadHeld DEF Held, Posts
    <3>3. Peer(r, i)[1] \in Hosts /\ Peer(r, i)[2] \in Ports
      BY <1>0, <3>2, PeerTypes
    <3>4. Peer(r, i)[2] \in Conns => Peer(r, i)[2] = i /\ conn[i].to = r /\ conn[i].server = "open"
      BY <3>2, PortTypes DEF Peer
    <3>5. Tells(r, Peer(r, i)[1], t.hull)
      BY <2>2 DEF Tells
    <3> QED BY <2>2, <3>1, <3>2, <3>3, <3>4, <3>5 DEF Notes
  <2> QED BY <1>1, <2>1, <2>2 DEF Check, Reached
<1>2. ASSUME NEW r \in Robots, Greet(r) PROVE Goal
  <2> DEFINE t == Head(work[r])
             i == t.conn
  <2>1. work[r] # <<>> /\ t.do = "greet"
    BY <1>2 DEF Greet, Task
  <2>2. t \in Greetings /\ i \in Conns /\ t.hull \in Hulls /\ conn[i].to = r
    BY <2>1, HeadHeld DEF Held, Greetings, Serves
  <2>3. conn[i].from \in Hosts /\ i \in Ports
    BY <1>0, <2>2, PortTypes DEF TypeOK, Objects
  <2>4. \/ UNCHANGED known
        \/ /\ conn[i].server = "open" /\ Greets(i)
           /\ known' = [known EXCEPT ![r] = ConnectionInfo(r, conn[i].from, t.hull, i)]
    BY <1>2, GreetGreets DEF Greet
  <2>5. Tells(r, conn[i].from, t.hull)
    BY <2>1 DEF Tells, Task
  <2> QED BY <2>1, <2>2, <2>3, <2>4, <2>5 DEF Notes
<1>3. ASSUME NEW r \in Robots, Connected(r) PROVE Goal
  <2>1. PICK i \in Conns :
          /\ conn[i].from = r /\ conn[i].due # <<>>
          /\ known' = [known EXCEPT ![r] =
                         ConnectionInfo(r, Peer(r, i)[1], Head(conn[i].due)[1], Peer(r, i)[2])]
    BY <1>3 DEF Connected
  <2>2. conn[i].due \in Seq(Hulls \X Carried)
    BY <1>0 DEF TypeOK, Objects
  <2>3. Head(conn[i].due)[1] \in Hulls
    BY <2>1, <2>2, HeadAndTail
  <2>4. Peer(r, i)[1] \in Hosts /\ Peer(r, i)[2] \in Ports
    BY <1>0, PeerTypes
  <2>5. Peer(r, i)[2] \notin Conns
    BY <1>0, <2>1, PortTypes DEF Peer, Stages, Stage, NoConn
  <2>6. Tells(r, Peer(r, i)[1], Head(conn[i].due)[1])
    BY <2>1 DEF Tells
  <2> QED BY <2>1, <2>3, <2>4, <2>5, <2>6 DEF Notes
<1>4. ASSUME NEW r \in Robots, NEW i \in Conns, OnConnectionInfo(r, i) PROVE Goal
  <2> DEFINE m == Head(Incoming(r, i))
             ip == IF m[1] = "self" THEN conn[i].to ELSE m[2]
  <2>1. Incoming(r, i) # <<>> /\ m[1] \in {"connection", "self"}
    BY <1>4 DEF OnConnectionInfo, Gets
  <2>2. PICK number \in Hulls :
          /\ number[1] = m[Len(m)][1]
          /\ known' = [known EXCEPT ![r] = ConnectionInfo(r, ip, number, -1)]
    BY <1>4 DEF OnConnectionInfo, Brought
  <2>3. m \in Upwards \cup Downwards
    BY <1>0, <2>1, IncomingIs
  <2>4. conn[i].to \in Hosts
    BY <1>0 DEF TypeOK, Objects
  <2>6. Tells(r, ip, number)
    BY <2>1, <2>2, <2>3 DEF Tells
  <2> HIDE DEF m
  <2>5. ip \in Hosts
    BY <2>1, <2>3, <2>4, MessageIs
  <2> HIDE DEF ip
  <2> QED BY <2>2, <2>5, <2>6, PortTypes DEF Notes
<1>5. ASSUME NEW r \in Robots, Scripts(r) PROVE Goal
  BY <1>5, Zenon DEF Scripts, ConnectTo, Send, SetHullNumber
<1>6. ASSUME NEW r \in Robots, Reach(r) \/ Hook(r) \/ Started(r) \/ ConnectionClosed(r)
                               \/ \E i \in Conns : NewConnection(r, i) \/ OnNewData(r, i)
      PROVE  Goal
  BY <1>6, Zenon DEF Reach, Hook, Started, ConnectionClosed, NewConnection, OnNewData
<1>7. CASE \E i \in Conns : Connect(i) \/ Open(i) \/ Break(i)
  BY <1>7 DEF Connect, Open, Break
<1>8. CASE UNCHANGED vars
  BY <1>8 DEF vars
<1> HIDE DEF Goal
<1>9. ASSUME \E r \in Robots : Restart(r) PROVE Goal
  BY <1>9 DEF Goal
<1>10. ASSUME NEW r \in Robots, Server(r) PROVE Goal
  BY <1>1, <1>2, <1>3, <1>4, <1>6, <1>10 DEF Server
<1>11. CASE Wires \/ Faults
  BY <1>7, <1>9, <1>11 DEF Wires, Faults
<1> QED BY <1>5, <1>8, <1>10, <1>11 DEF Next

(* Tables stay tables, and a robot is forgotten by none but a restart.      *)
LEMMA TablesKept ==
  ASSUME Typed, [Next]_vars
  PROVE  /\ Tables' /\ known' \in [Robots -> SUBSET Endpoints]
         /\ \A r \in Robots : \A p : Knows(r, p) => Knows(r, p)' \/ (Restart(r) /\ work'[r] = <<>>)
<1>0. TypeOK /\ Tables
  BY DEF Typed
<1>1. CASE UNCHANGED known
  BY <1>0, <1>1, SMTT(40) DEF Tables, Knows, TypeOK
<1>2. ASSUME NEW r \in Robots, Restart(r)
      PROVE  /\ Tables' /\ known' \in [Robots -> SUBSET Endpoints]
             /\ \A q \in Robots : \A p : Knows(q, p) => Knows(q, p)' \/ (Restart(q) /\ work'[q] = <<>>)
  <2>1. known' = [known EXCEPT ![r] = {}] /\ work'[r] = <<>>
    BY <1>0, <1>2, Zenon DEF Restart, TypeOK
  <2>2. IsFiniteSet({})
    BY FS_EmptySet
  <2> QED BY <1>0, <1>2, <2>1, <2>2, SMTT(40) DEF Tables, Table, TypeOK, Knows
<1>3. ASSUME NEW r \in Robots, NEW ip \in Hosts, NEW number \in Hulls, NEW port \in Ports,
             Notes(r, ip, number, port)
      PROVE  /\ Tables' /\ known' \in [Robots -> SUBSET Endpoints]
             /\ \A q \in Robots : \A p : Knows(q, p) => Knows(q, p)'
  <2> DEFINE t == ConnectionInfo(r, ip, number, port)
  <2>1. Table(r, t) /\ \A e \in known[r] : \E d \in t : d.ip = e.ip
    BY <1>0, InfoIs DEF Tables
  <2>2. known' = [known EXCEPT ![r] = t]
    BY <1>3 DEF Notes
  <2>3. t \in SUBSET Endpoints
    BY <2>1 DEF Table
  <2> HIDE DEF t
  <2>4. known' \in [Robots -> SUBSET Endpoints] /\ known'[r] = t
        /\ \A q \in Robots \ {r} : known'[q] = known[q]
    BY <1>0, <2>2, <2>3 DEF TypeOK
  <2>5. Tables'
    BY <1>0, <2>1, <2>4 DEF Tables
  <2>6. ASSUME NEW q \in Robots, NEW p, Knows(q, p) PROVE Knows(q, p)'
    BY <2>1, <2>4, <2>6 DEF Knows
  <2> QED BY <2>4, <2>5, <2>6
<1> QED BY <1>1, <1>2, <1>3, NextNotes

-----------------------------------------------------------------------------
(* The tasks                                                                *)

LEMMA EndsStay ==
  ASSUME TypeOK, NEW i \in Conns, Stage(conn[i]), Moves(i), NEW r \in Robots, work'[r] # <<>>
  PROVE  /\ Calls(r, i) => Calls(r, i)' /\ conn'[i].to = conn[i].to
         /\ Serves(r, i) => Serves(r, i)' /\ conn'[i].from = conn[i].from
<1> DEFINE c == conn[i]
           d == conn'[i]
<1>1. c \in Objects
  BY DEF TypeOK
<1>2. CASE d = c
  BY <1>2 DEF Calls, Serves
<1>3. CASE Makes(i)
  BY <1>3, SMTT(40) DEF Makes, Calls, Serves, NoConn
<1>4. CASE Lists(i) \/ Begins(i) \/ Opens(i) \/ Hooks(i) \/ Reads(i) \/ Breaks(i)
  BY <1>1, <1>4, ZenonT(60) DEF Lists, Begins, Opens, Hooks, Reads, Breaks, Calls, Serves,
                                Objects, Stage
<1>5. CASE Sends(i) \/ Greets(i)
  <2>1. \E p, ms, due : d = Posted(p, i, ms) \/ d = [Posted(p, i, ms) EXCEPT !.due = due]
    <3>1. CASE Sends(i)
      <4>1. PICK p \in Robots, m \in Carried, due \in Seq(Hulls \X Carried) :
              /\ conn[i].from = p \/ conn[i].to = p
              /\ d = [Posted(p, i, <<m>>) EXCEPT !.due = due]
        BY <3>1, SendIs
      <4> QED BY <4>1
    <3>2. CASE Greets(i)
      <4>1. PICK p \in Robots, ms \in Seq(Carried) : d = Posted(p, i, ms \o <<<<"self", hull[p]>>>>)
        BY <3>2, GreetIs
      <4> QED BY <4>1
    <3> QED BY <1>5, <3>1, <3>2
  <2>2. PICK p, ms, due : d = Posted(p, i, ms) \/ d = [Posted(p, i, ms) EXCEPT !.due = due]
    BY <2>1
  <2> DEFINE x == Posted(p, i, ms)
  <2>3. x = c \/ x = [c EXCEPT !.up = @ \o ms] \/ x = [c EXCEPT !.down = @ \o ms]
    BY DEF Posted
  <2>4. d = x \/ d = [x EXCEPT !.due = due]
    BY <2>2
  <2> HIDE DEF x
  <2>5. d.from = c.from /\ d.to = c.to /\ d.client = c.client /\ d.server = c.server
    BY <1>1, <2>3, <2>4 DEF Objects
  <2> QED BY <2>5 DEF Calls, Serves
<1>6. CASE Closes(i)
  <2>1. PICK q \in Robots :
          /\ work'[q] = <<>>
          /\ \/ /\ c.from = q
                /\ \/ d = Ended([c EXCEPT !.client = "gone", !.down = <<>>, !.hooks = <<>>, !.due = <<>>])
                   \/ d = Ended([c EXCEPT !.client = "gone"])
             \/ /\ c.to = q
                /\ \/ d = Ended([c EXCEPT !.server = "gone", !.up = <<>>])
                   \/ d = Ended([c EXCEPT !.server = "gone"])
    BY <1>6 DEF Closes
  <2>2. q # r
    BY <2>1
  <2>3. ASSUME c.from = q,
               \/ d = Ended([c EXCEPT !.client = "gone", !.down = <<>>, !.hooks = <<>>, !.due = <<>>])
               \/ d = Ended([c EXCEPT !.client = "gone"])
        PROVE  ~Calls(r, i) /\ (Serves(r, i) => Serves(r, i)' /\ d.from = c.from)
    <3>1. ~Calls(r, i)
      BY <2>2, <2>3 DEF Calls
    <3>2. ASSUME Serves(r, i)
          PROVE  d.from = c.from /\ d.to = c.to /\ d.server = c.server
      BY <1>1, <2>3, <3>2 DEF Ended, Serves, Objects
    <3> QED BY <3>1, <3>2 DEF Serves
  <2>4. ASSUME c.to = q,
               \/ d = Ended([c EXCEPT !.server = "gone", !.up = <<>>])
               \/ d = Ended([c EXCEPT !.server = "gone"])
        PROVE  ~Serves(r, i) /\ (Calls(r, i) => Calls(r, i)' /\ d.to = c.to)
    <3>1. ~Serves(r, i)
      BY <2>2, <2>4 DEF Serves
    <3>2. ASSUME Calls(r, i)
          PROVE  d.from = c.from /\ d.to = c.to /\ d.client = c.client
      BY <1>1, <2>4, <3>2 DEF Ended, Calls, Objects
    <3> QED BY <3>1, <3>2 DEF Calls
  <2> QED BY <2>1, <2>3, <2>4
<1> QED BY <1>2, <1>3, <1>4, <1>5, <1>6 DEF Moves

LEMMA ConnectionIs ==
  ASSUME TypeOK, Stages, NEW r \in Robots, NEW ip, NEW port, NEW i \in Connection(r, ip, port)
  PROVE  /\ i \in Conns
         /\ \/ Calls(r, i) /\ (conn[i].to = ip \/ ip = Nobody)
            \/ Serves(r, i) /\ conn[i].server = "open" /\ conn[i].from = ip /\ port = i
<1>1. CASE i \in Prepared(r, ip, port)
  <2>1. i \in Conns /\ Peer(r, i) = <<ip, port>> /\ port # -1
    BY <1>1 DEF Prepared
  <2> QED BY <2>1 DEF Peer, Calls, Serves
<1>2. CASE i \in NotPrepared(r, ip, port)
  BY <1>2 DEF NotPrepared, Calls
<1> QED BY <1>1, <1>2 DEF Connection

LEMMA HeldStays ==
  ASSUME Typed, [Next]_vars, NEW r \in Robots, work'[r] # <<>>
  PROVE  {t \in Posts \cup Greetings : Held(r, t)} \subseteq {t \in Posts \cup Greetings : Held(r, t)'}
<1> SUFFICES ASSUME NEW t \in Posts \cup Greetings, Held(r, t) PROVE Held(r, t)'
  OBVIOUS
<1>0. TypeOK /\ Stages
  BY DEF Typed
<1>1. \A p : Knows(r, p) => Knows(r, p)'
  BY TablesKept
<1>2. ASSUME NEW i \in Conns
      PROVE  /\ Calls(r, i) => Calls(r, i)' /\ conn'[i].to = conn[i].to
             /\ Serves(r, i) => Serves(r, i)' /\ conn'[i].from = conn[i].from
  BY <1>0, NextMoves, EndsStay DEF Stages
<1>3. CASE t.do = "greet"
  <2>1. t.conn \in Conns
    BY <1>3 DEF Posts, Greetings
  <2>2. Serves(r, t.conn) /\ IsFiniteSet(t.others) /\ (\A e \in t.others : Knows(r, e.ip))
        /\ (t.was => Knows(r, conn[t.conn].from))
    BY <1>3 DEF Held
  <2>3. Serves(r, t.conn)' /\ conn'[t.conn].from = conn[t.conn].from
    BY <1>2, <2>1, <2>2
  <2>4. (\A e \in t.others : Knows(r, e.ip)') /\ (t.was => Knows(r, conn[t.conn].from)')
    BY <1>1, <2>2, <2>3 DEF Knows
  <2> QED BY <1>3, <2>2, <2>3, <2>4 DEF Held
<1>4. CASE t.do # "greet"
  <2>1. t.ip # r /\ (t.do # "reach" => t.conn \in Conns /\ (Calls(r, t.conn) \/ Serves(r, t.conn)))
    BY <1>4 DEF Held
  <2>2. t.do # "reach" => t.conn \in Conns /\ (Calls(r, t.conn)' \/ Serves(r, t.conn)')
    BY <1>2, <2>1
  <2> QED BY <1>4, <2>1, <2>2 DEF Held
<1> QED BY <1>3, <1>4

LEMMA TasksKept ==
  ASSUME Typed, [Next]_vars
  PROVE  TasksHeld' /\ DOMAIN work' = Robots /\ work' = [r \in Robots |-> work'[r]]
<1> DEFINE Kept(r) == work'[r] \in Seq({t \in Posts \cup Greetings : Held(r, t)'})
           Goal == DOMAIN work' = Robots /\ work' = [r \in Robots |-> work'[r]]
                   /\ \A r \in Robots : Kept(r)
<1> SUFFICES Goal
  BY DEF TasksHeld
<1>0. /\ TypeOK /\ Stages /\ Tables
      /\ \A r \in Robots : work[r] \in Seq({t \in Posts \cup Greetings : Held(r, t)})
      /\ work \in [Robots -> Seq(Posts \cup Greetings)]
  BY DEF Typed, TasksHeld, TypeOK
<1>a. ASSUME NEW r \in Robots, work'[r] # <<>>,
             NEW s \in Seq({t \in Posts \cup Greetings : Held(r, t)})
      PROVE  s \in Seq({t \in Posts \cup Greetings : Held(r, t)'})
  BY <1>a, HeldStays, SeqMonotonic
<1>b. ASSUME NEW r \in Robots, work'[r] = <<>> \/ work'[r] = work[r] PROVE Kept(r)
  <2>1. CASE work'[r] = <<>>
    <3> DEFINE S == {t \in Posts \cup Greetings : Held(r, t)'}
    <3>1. <<>> \in Seq(S)
      OBVIOUS
    <3> QED BY <2>1, <3>1
  <2>2. CASE work'[r] # <<>>
    BY <1>0, <1>a, <1>b, <2>2
  <2> QED BY <2>1, <2>2
<1>c. ASSUME UNCHANGED work PROVE Goal
  BY <1>0, <1>b, <1>c
<1>d. ASSUME NEW r \in Robots, NEW tasks, Then(r, tasks),
             tasks # <<>> => tasks \in Seq({t \in Posts \cup Greetings : Held(r, t)'})
      PROVE  Goal
  <2>1. /\ work' = [work EXCEPT ![r] = tasks] /\ work'[r] = tasks
        /\ \A q \in Robots \ {r} : work'[q] = work[q]
        /\ DOMAIN work' = Robots /\ work' = [q \in Robots |-> work'[q]]
    BY <1>0, <1>d DEF Then
  <2>2. CASE tasks = <<>>
    <3>1. \A q \in Robots : Kept(q)
      BY <1>b, <2>1, <2>2
    <3> QED BY <2>1, <3>1
  <2>3. CASE tasks # <<>>
    <3>1. Kept(r)
      BY <1>d, <2>1, <2>3
    <3>2. \A q \in Robots : Kept(q)
      BY <1>b, <2>1, <3>1
    <3> QED BY <2>1, <3>2
  <2> QED BY <2>2, <2>3
<1>e. ASSUME NEW r \in Robots, Rest(r), work[r] # <<>> PROVE Goal
  <2>1. Then(r, Tail(work[r])) /\ work'[r] = Tail(work[r])
    BY <1>0, <1>e DEF Rest, Then
  <2>2. Tail(work[r]) \in Seq({t \in Posts \cup Greetings : Held(r, t)})
    BY <1>0, <1>e, HeadAndTail
  <2>3. Tail(work[r]) # <<>> => Tail(work[r]) \in Seq({t \in Posts \cup Greetings : Held(r, t)'})
    BY <1>a, <2>1, <2>2
  <2> HIDE DEF Goal
  <2> QED BY <1>d, <2>1, <2>3
<1>f. ASSUME NEW r \in Robots, work[r] # <<>>, NEW t, Then(r, <<t>> \o Tail(work[r])),
             t \in Posts, Held(r, t)'
      PROVE  Goal
  <2>1. Tail(work[r]) \in Seq({u \in Posts \cup Greetings : Held(r, u)})
    BY <1>0, <1>f, HeadAndTail
  <2>2. <<t>> \o Tail(work[r]) # <<>>
    <3>1. Tail(work[r]) \in Seq(Posts \cup Greetings)
      BY <1>0, <1>f, HeadAndTail
    <3>2. <<t>> \in Seq(Posts \cup Greetings) /\ <<t>> # <<>>
      BY <1>f
    <3> QED BY <3>1, <3>2, FirstStays
  <2>3. work'[r] # <<>>
    BY <1>0, <1>f, <2>2 DEF Then
  <2>4. Tail(work[r]) \in Seq({u \in Posts \cup Greetings : Held(r, u)'})
    BY <1>a, <2>1, <2>3
  <2>5. <<t>> \o Tail(work[r]) \in Seq({u \in Posts \cup Greetings : Held(r, u)'})
    BY <1>f, <2>4, JoinedOne
  <2> HIDE DEF Goal
  <2> QED BY <1>d, <1>f, <2>5
<1>g. ASSUME NEW r \in Robots, NEW entries \in SUBSET known[r], NEW message \in Carried
      PROVE  Tasks(r, entries, message) \in Seq({t \in Posts \cup Greetings : Held(r, t)'})
  <2>1. entries \in SUBSET Endpoints /\ IsFiniteSet(entries) /\ \A e \in entries : e.ip # r
    BY <1>0, FS_Subset DEF Tables, Table
  <2> DEFINE T == {t \in Posts : /\ t.do = "reach" /\ t.msg = message /\ t.conn = 0
                                 /\ \E e \in entries : t.hull = e.hull /\ t.ip = e.ip}
  <2>2. Tasks(r, entries, message) \in Seq(T)
    BY <2>1, TasksTypes
  <2>3. T \subseteq {t \in Posts \cup Greetings : Held(r, t)'}
    BY <2>1 DEF Held
  <2> HIDE DEF T
  <2> QED BY <2>2, <2>3, SeqMonotonic
<1> HIDE DEF Goal
<1>h. ASSUME NEW r \in Robots, NEW u \in Posts, u.do # "greet", u.ip # r,
             u.conn \in Conns, Calls(r, u.conn)' \/ Serves(r, u.conn)'
      PROVE  Held(r, u)'
  BY <1>h DEF Held
<1>1. ASSUME NEW r \in Robots, Reach(r) PROVE Goal
  <2>1. work[r] # <<>> /\ Head(work[r]).do = "reach"
    BY <1>1, Zenon DEF Reach, Task
  <2>2. PICK t : t \in Posts /\ t = Head(work[r]) /\ t.ip # r /\ t.ip \in Hosts
    BY <2>1, HeadHeld DEF Held, Posts
  <2> DEFINE ports == {e.port : e \in {e \in known[r] : e.hull = t.hull /\ e.ip = t.ip}}
             old == UNION {Connection(r, t.ip, p) : p \in ports}
             found == IF old # {} THEN old ELSE Connection(r, t.ip, ServerPort)
             task(i) == [t EXCEPT !.do = "check", !.conn = i]
  <2>3. \A i \in found : i \in Conns /\ (Calls(r, i) \/ Serves(r, i))
    BY <1>0, ConnectionIs
  <2>4. \A i \in Conns : task(i) \in Posts /\ task(i).do = "check" /\ task(i).conn = i
                         /\ task(i).ip = t.ip
    <3>1. \A i \in Conns : i \in 0 .. MaxConns
      BY PortTypes DEF Conns
    <3> QED BY <2>2, <3>1 DEF Posts
  <2>5. \/ UNCHANGED conn /\ \E i \in found : Then(r, <<task(i)>> \o Tail(work[r]))
        \/ /\ Unused # {} /\ conn' = [conn EXCEPT ![Fresh] = Created(r, t.ip)]
           /\ Then(r, <<task(Fresh)>> \o Tail(work[r]))
    BY ONLY <1>1, <2>2, ZenonT(60) DEF Reach
  <2> HIDE DEF found, task
  <2>6. ASSUME NEW i \in Conns, Then(r, <<task(i)>> \o Tail(work[r])),
               Calls(r, i)' \/ Serves(r, i)'
        PROVE  Goal
    <3>1. PICK u \in Posts : u = task(i) /\ u.do = "check" /\ u.conn = i /\ u.ip = t.ip
      BY <2>4
    <3>2. Held(r, u)'
      BY <1>h, <2>2, <2>6, <3>1
    <3>3. Then(r, <<u>> \o Tail(work[r]))
      BY <2>6, <3>1
    <3> QED BY <1>f, <2>1, <3>2, <3>3
  <2>7. ASSUME UNCHANGED conn, NEW i \in found, Then(r, <<task(i)>> \o Tail(work[r]))
        PROVE  Goal
    <3>1. i \in Conns /\ (Calls(r, i)' \/ Serves(r, i)')
      BY <2>3, <2>7 DEF Calls, Serves
    <3> QED BY <2>6, <2>7, <3>1
  <2>8. ASSUME Unused # {}, conn' = [conn EXCEPT ![Fresh] = Created(r, t.ip)],
               Then(r, <<task(Fresh)>> \o Tail(work[r]))
        PROVE  Goal
    <3>1. PICK i \in Conns : i = Fresh
      BY <2>8, FreshIs
    <3>2. conn'[i] = Created(r, t.ip)
      BY <1>0, <2>8, <3>1 DEF TypeOK
    <3>3. conn'[i].from = r /\ conn'[i].client = "created"
      BY <3>2 DEF Created, NoConn
    <3>4. Calls(r, i)'
      BY <3>3 DEF Calls
    <3> QED BY <2>6, <2>8, <3>1, <3>4
  <2> QED BY <2>5, <2>7, <2>8
<1>2. ASSUME NEW r \in Robots, Check(r) PROVE Goal
  <2>1. work[r] # <<>> /\ Head(work[r]).do = "check"
    BY <1>2 DEF Check, Task
  <2>2. PICK t : /\ t \in Posts /\ t = Head(work[r]) /\ t.do = "check"
                 /\ t.ip # r /\ t.conn \in Conns /\ Held(r, t)
    BY <2>1, HeadHeld DEF Held
  <2>3. CASE Rest(r)
    BY <1>e, <2>1, <2>3
  <2>4. CASE Then(r, <<[t EXCEPT !.do = "hook"]>> \o Tail(work[r]))
    <3>1. PICK u \in Posts : u = [t EXCEPT !.do = "hook"] /\ u.do = "hook" /\ u.conn = t.conn
                             /\ u.ip = t.ip
      <4> DEFINE v == [t EXCEPT !.do = "hook"]
      <4>1. v \in Posts /\ v.do = "hook" /\ v.conn = t.conn /\ v.ip = t.ip
        BY <2>2 DEF Posts
      <4> QED BY <4>1
    <3>2. Then(r, <<u>> \o Tail(work[r]))
      BY <2>4, <3>1
    <3>3. work'[r] # <<>>
      <4>1. Tail(work[r]) \in Seq(Posts \cup Greetings)
        BY <1>0, <2>1, HeadAndTail
      <4>2. <<u>> \in Seq(Posts \cup Greetings) /\ <<u>> # <<>>
        BY <3>1
      <4>3. <<u>> \o Tail(work[r]) # <<>>
        BY <4>1, <4>2, FirstStays
      <4> QED BY <1>0, <3>2, <4>3 DEF Then
    <3>4. Held(r, t)'
      BY <2>2, <3>3, HeldStays
    <3>5. Held(r, u)'
      BY <2>2, <3>1, <3>4, SMTT(40) DEF Held
    <3> QED BY <1>f, <2>1, <3>2, <3>5
  <2> QED BY <1>2, <2>2, <2>3, <2>4 DEF Check
<1>3. ASSUME NEW r \in Robots, Hook(r) \/ Greet(r) PROVE Goal
  BY <1>e, <1>3 DEF Hook, Greet, Task
<1>4. ASSUME NEW r \in Robots, NEW entries \in SUBSET known[r], Send(r, entries) PROVE Goal
  <2>1. Len(sent) \in Nat /\ Len(sent) < MaxSends /\ Len(sent') = Len(sent) + 1
    BY <1>0, <1>4, LenProperties, AppendProperties DEF Send, TypeOK
  <2>2. <<"data", Len(sent')>> \in Carried
    BY <2>1, PortTypes DEF Carried
  <2> QED BY <1>d, <1>g, <1>4, <2>2 DEF Send
<1>5. ASSUME NEW r \in Robots, SetHullNumber(r) PROVE Goal
  <2>1. hull'[r] \in Hulls
    <3>1. hull[r] \in Robots \X (0 .. MaxHulls) /\ hull[r][2] < MaxHulls
      BY <1>0, <1>5 DEF SetHullNumber, TypeOK, Hulls
    <3>2. hull'[r] = <<r, hull[r][2] + 1>>
      BY <1>0, <1>5 DEF SetHullNumber, TypeOK
    <3>3. hull[r][2] + 1 \in 0 .. MaxHulls
      BY <3>1, PortTypes
    <3> QED BY <3>2, <3>3 DEF Hulls
  <2>2. <<"connection", r, hull'[r]>> \in Carried
    BY <2>1 DEF Carried, Hosts
  <2> QED BY <1>d, <1>g, <1>5, <2>2 DEF SetHullNumber
<1>6. ASSUME NEW r \in Robots, NEW i \in Conns, NewConnection(r, i) PROVE Goal
  <2> DEFINE number == Head(conn[i].up)[2]
             ip == conn[i].from
             isKnown == \E e \in known[r] : e.ip = ip /\ e.hull = number
             greeting == [do |-> "greet", conn |-> i, hull |-> number, was |-> isKnown,
                          others |-> known[r]]
             tasks == (IF isKnown THEN <<>> ELSE Tasks(r, known[r], <<"connection", ip, number>>))
                        \o <<greeting>>
  <2>1. Incoming(r, i) # <<>> /\ Head(Incoming(r, i))[1] = "register" /\ Then(r, tasks)
    BY <1>6 DEF NewConnection, Gets
  <2>2. /\ conn[i].from # r /\ conn[i].to = r /\ conn[i].server \in {"open", "dead"}
        /\ Head(conn[i].up) \in Upwards /\ Head(conn[i].up)[1] = "register"
    <3>1. \A m \in Downwards : m[1] # "register"
      BY DEF Downwards, Carried
    <3> QED BY <1>0, <2>1, <3>1, IncomingIs
  <2>3. number \in Hulls /\ ip \in Hosts
    BY <1>0, <2>2, MessageIs DEF TypeOK, Objects
  <2> HIDE DEF number, ip
  <2>4. <<"connection", ip, number>> \in Carried
    BY <2>3 DEF Carried
  <2>5. known[r] \subseteq Endpoints /\ IsFiniteSet(known[r])
    BY <1>0 DEF Tables, Table
  <2>6. isKnown \in BOOLEAN
    OBVIOUS
  <2>7. greeting \in Greetings /\ greeting.do = "greet" /\ greeting.conn = i
        /\ greeting.was = isKnown /\ greeting.others = known[r]
    BY <2>3, <2>5, <2>6 DEF Greetings
  <2>8. Held(r, greeting)
    <3>1. Serves(r, i)
      BY <2>2 DEF Serves
    <3>2. isKnown => Knows(r, conn[i].from)
      BY DEF Knows, ip
    <3>3. \A e \in known[r] : Knows(r, e.ip)
      BY DEF Knows
    <3> HIDE DEF greeting, isKnown
    <3> QED BY <2>5, <2>7, <3>1, <3>2, <3>3 DEF Held
  <2> DEFINE S == {t \in Posts \cup Greetings : Held(r, t)'}
             before == IF isKnown THEN <<>> ELSE Tasks(r, known[r], <<"connection", ip, number>>)
  <2>9. before \in Seq(S)
    <3>1. Tasks(r, known[r], <<"connection", ip, number>>) \in Seq(S)
      BY <1>g, <2>4
    <3>2. <<>> \in Seq(S)
      OBVIOUS
    <3> HIDE DEF S
    <3> QED BY <3>1, <3>2
  <2> HIDE DEF greeting, isKnown
  <2>10. work'[r] # <<>>
    <3>1. before \in Seq(Posts \cup Greetings) /\ greeting \in Posts \cup Greetings
      BY <2>7, <2>9, SeqMonotonic
    <3>2. before \o <<greeting>> # <<>>
      BY <3>1
    <3> QED BY <1>0, <2>1, <3>2 DEF Then
  <2>11. greeting \in S
    BY <2>7, <2>8, <2>10, HeldStays, SMTT(40)
  <2> HIDE DEF before, S
  <2>12. before \o <<greeting>> \in Seq(S)
    BY <2>9, <2>11, JoinedOne, SMTT(40)
  <2> QED BY <1>d, <2>1, <2>12 DEF before, S
<1>7. ASSUME NEW r \in Robots, Restart(r) PROVE Goal
  <2>1. Then(r, <<>>)
    BY <1>7, Zenon DEF Restart, Then
  <2> QED BY <1>d, <2>1, Zenon
<1>8. ASSUME UNCHANGED work PROVE Goal
  BY <1>c, <1>8
<1>9. ASSUME NEW r \in Robots, Server(r) PROVE Goal
  BY <1>1, <1>2, <1>3, <1>6, <1>8, <1>9
     DEF Server, Connected, Started, ConnectionClosed, OnConnectionInfo, OnNewData
<1>10. ASSUME NEW r \in Robots, Scripts(r) PROVE Goal
  <2>1. ASSUME NEW h, Send(r, {e \in known[r] : e.hull = h}) PROVE Goal
    BY <1>4, <2>1
  <2>2. ASSUME Send(r, known[r]) PROVE Goal
    BY <1>4, <2>2
  <2> QED BY <1>5, <1>8, <1>10, <2>1, <2>2 DEF Scripts, ConnectTo
<1>11. CASE Wires \/ Faults
  BY <1>7, <1>8, <1>11, Zenon DEF Wires, Faults, Connect, Open, Break
<1>12. CASE UNCHANGED vars
  BY <1>8, <1>12 DEF vars
<1> QED BY <1>9, <1>10, <1>11, <1>12 DEF Next
-----------------------------------------------------------------------------
(* Everything else a step changes                                          *)

LEMMA RestTypes ==
  ASSUME Typed, [Next]_vars
  PROVE  /\ hull' \in [Robots -> Hulls] /\ leader' \in [Robots -> Robots]
         /\ sent' \in Seq([by : Robots, to : SUBSET Hosts])
         /\ inbox' \in [Robots -> Seq([m : 1 .. MaxSends, sender : Hulls \cup {NoHull}])]
         /\ faults' \in 0 .. MaxFaults /\ reset' \subseteq Robots
<1> DEFINE Letters == [m : 1 .. MaxSends, sender : Hulls \cup {NoHull}]
           Sent == [by : Robots, to : SUBSET Hosts]
           Goal == /\ hull' \in [Robots -> Hulls] /\ leader' \in [Robots -> Robots]
                   /\ sent' \in Seq(Sent) /\ inbox' \in [Robots -> Seq(Letters)]
                   /\ faults' \in 0 .. MaxFaults /\ reset' \subseteq Robots
<1> SUFFICES Goal
  OBVIOUS
<1>0. TypeOK /\ Stages
  BY DEF Typed
<1>1. /\ hull \in [Robots -> Hulls] /\ leader \in [Robots -> Robots]
      /\ sent \in Seq(Sent) /\ inbox \in [Robots -> Seq(Letters)]
      /\ faults \in 0 .. MaxFaults /\ reset \subseteq Robots
  BY <1>0 DEF TypeOK
<1> HIDE DEF Letters, Sent
<1>2. CASE UNCHANGED <<hull, leader, sent, inbox, faults, reset>>
  BY <1>1, <1>2
<1>3. ASSUME NEW r \in Robots, NEW ip \in Robots, ConnectTo(r, ip) PROVE Goal
  BY <1>1, <1>3 DEF ConnectTo
<1>4. ASSUME NEW r \in Robots, NEW entries \in SUBSET known[r], Send(r, entries) PROVE Goal
  <2>1. \A e \in entries : e.ip \in Hosts
    BY <1>0 DEF TypeOK, Endpoints
  <2>2. [by |-> r, to |-> {e.ip : e \in entries}] \in Sent
    BY <2>1 DEF Sent
  <2>3. sent' \in Seq(Sent)
    BY <1>1, <1>4, <2>2, JoinedOne DEF Send
  <2> QED BY <1>1, <1>4, <2>3 DEF Send
<1>5. ASSUME NEW r \in Robots, SetHullNumber(r) PROVE Goal
  <2>1. hull[r] \in Robots \X (0 .. MaxHulls) /\ hull[r][2] < MaxHulls
    BY <1>0, <1>5 DEF SetHullNumber, TypeOK, Hulls
  <2>2. hull[r][2] + 1 \in 0 .. MaxHulls
    BY <2>1, PortTypes
  <2>3. <<r, hull[r][2] + 1>> \in Hulls
    BY <2>2 DEF Hulls
  <2>4. hull' = [hull EXCEPT ![r] = <<r, hull[r][2] + 1>>]
    BY <1>1, <1>5 DEF SetHullNumber
  <2> QED BY <1>1, <1>5, <2>3, <2>4 DEF SetHullNumber
<1>6. ASSUME NEW r \in Robots, NEW i \in Conns, OnNewData(r, i) PROVE Goal
  <2> DEFINE m == Head(Incoming(r, i))
             peer == IF conn[i].from = r THEN <<conn[i].to, ServerPort>> ELSE <<conn[i].from, i>>
             senders == {e.hull : e \in {e \in known[r] : <<e.ip, e.port>> = peer}}
             sender == IF senders = {} THEN NoHull ELSE CHOOSE h \in senders : TRUE
  <2>1. Incoming(r, i) # <<>> /\ m[1] = "data"
    BY <1>6 DEF OnNewData, Gets
  <2>2. m \in Upwards \cup Downwards
    BY <1>0, <2>1, IncomingIs
  <2>3. m[2] \in 1 .. MaxSends
    <3> HIDE DEF m
    <3> QED BY <2>1, <2>2, MessageIs
  <2>4. sender \in Hulls \cup {NoHull}
    <3>1. senders \subseteq Hulls
      BY <1>0 DEF TypeOK, Endpoints
    <3> HIDE DEF senders
    <3> QED BY <3>1
  <2>5. inbox' = [inbox EXCEPT ![r] = Append(@, [m |-> m[2], sender |-> sender])]
    BY <1>6 DEF OnNewData
  <2> HIDE DEF m, sender
  <2>6. [m |-> m[2], sender |-> sender] \in Letters
    BY <2>3, <2>4, SMTT(40) DEF Letters
  <2>7. Append(inbox[r], [m |-> m[2], sender |-> sender]) \in Seq(Letters)
    BY <1>1, <2>6, JoinedOne, SMTT(40)
  <2> QED BY <1>1, <1>6, <2>5, <2>7 DEF OnNewData
<1>7. ASSUME NEW r \in Robots, Restart(r) PROVE Goal
  <2>1. /\ UNCHANGED <<hull, leader, sent>> /\ faults < MaxFaults /\ faults' = faults + 1
        /\ inbox' = [inbox EXCEPT ![r] = <<>>] /\ reset' = reset \cup {r}
    BY <1>7, Zenon DEF Restart
  <2>2. <<>> \in Seq(Letters)
    OBVIOUS
  <2> QED BY <1>1, <2>1, <2>2, PortTypes, SMTT(40)
<1>8. ASSUME NEW i \in Conns, Break(i) PROVE Goal
  BY <1>1, <1>8, PortTypes DEF Break
<1> HIDE DEF Goal
<1>9. ASSUME NEW r \in Robots, Server(r) PROVE Goal
  <2>1. CASE \E i \in Conns : OnNewData(r, i)
    BY <1>6, <2>1, SMTT(40)
  <2>2. CASE ~\E i \in Conns : OnNewData(r, i)
    BY <1>2, <1>9, <2>2, Zenon DEF Server, Reach, Check, Hook, Greet, Connected, Started,
                            ConnectionClosed, NewConnection, OnConnectionInfo
  <2> QED BY <2>1, <2>2, SMTT(40)
<1>10. ASSUME NEW r \in Robots, Scripts(r) PROVE Goal
  <2>1. ASSUME NEW h, Send(r, {e \in known[r] : e.hull = h}) PROVE Goal
    BY <1>4, <2>1
  <2>2. ASSUME Send(r, known[r]) PROVE Goal
    BY <1>4, <2>2
  <2> QED BY <1>3, <1>5, <1>10, <2>1, <2>2 DEF Scripts
<1>11. CASE Wires \/ Faults
  BY <1>2, <1>7, <1>8, <1>11, Zenon DEF Wires, Faults, Connect, Open
<1>12. CASE UNCHANGED vars
  BY <1>2, <1>12 DEF vars
<1> QED BY <1>9, <1>10, <1>11, <1>12 DEF Next

-----------------------------------------------------------------------------
(* The tables and everything else keep their shape                         *)

LEMMA InitTyped == Init => Typed
<1> SUFFICES ASSUME Init PROVE Typed
  OBVIOUS
<1>1. NoConn \in Objects /\ Stage(NoConn)
  <2>1. <<>> \in Seq(Upwards) /\ <<>> \in Seq(Downwards) /\ <<>> \in Seq(Hulls \X Carried)
    OBVIOUS
  <2> QED BY <2>1 DEF NoConn, Objects, Stage, Hosts
<1>2. Stages /\ conn \in [Conns -> Objects]
  BY <1>1 DEF Init, Stages
<1>3. Tables /\ known \in [Robots -> SUBSET Endpoints]
  <2>1. IsFiniteSet({})
    BY FS_EmptySet
  <2> QED BY <2>1 DEF Init, Tables, Table
<1>4. TasksHeld /\ work \in [Robots -> Seq(Posts \cup Greetings)]
  <2>1. ASSUME NEW S PROVE <<>> \in Seq(S)
    OBVIOUS
  <2> QED BY <2>1 DEF Init, TasksHeld
<1>5. \A r \in Robots : <<r, 0>> \in Hulls
  BY PortTypes DEF Hulls
<1>6. 0 \in 0 .. MaxFaults /\ <<>> \in Seq([by : Robots, to : SUBSET Hosts])
      /\ <<>> \in Seq([m : 1 .. MaxSends, sender : Hulls \cup {NoHull}])
  BY PortTypes
<1>7. TypeOK
  BY <1>2, <1>3, <1>4, <1>5, <1>6 DEF Init, TypeOK
<1> QED BY <1>2, <1>3, <1>4, <1>7 DEF Typed

LEMMA NextTyped == Typed /\ [Next]_vars => Typed'
<1> SUFFICES ASSUME Typed, [Next]_vars PROVE Typed'
  OBVIOUS
<1>0. TypeOK /\ Stages
  BY DEF Typed
<1>1. conn' \in [Conns -> Objects] /\ Stages'
  <2>1. \A i \in Conns : conn'[i] \in Objects /\ Stage(conn'[i])
    BY <1>0, NextMoves, ObjectKept DEF Stages
  <2>2. conn' \in [Conns -> Objects]
    BY <2>1, NextMoves
  <2> QED BY <2>1, <2>2 DEF Stages
<1>2. TasksHeld' /\ work' \in [Robots -> Seq(Posts \cup Greetings)]
  <2>1. ASSUME NEW r \in Robots PROVE work'[r] \in Seq(Posts \cup Greetings)
    <3>1. work'[r] \in Seq({t \in Posts \cup Greetings : Held(r, t)'})
      BY TasksKept DEF TasksHeld
    <3>2. {t \in Posts \cup Greetings : Held(r, t)'} \subseteq Posts \cup Greetings
      OBVIOUS
    <3> QED BY <3>1, <3>2, SeqMonotonic
  <2> QED BY <2>1, TasksKept
<1>3. TypeOK'
  BY <1>1, <1>2, TablesKept, RestTypes DEF TypeOK
<1> QED BY <1>1, <1>2, <1>3, TablesKept DEF Typed

(* Through joins, sends, new numbers and faults, whatever connections there *)
(* are: no robot has two entries for another or one for itself              *)
(* (MailboxServer::onConnectionInfo), and all keeps its type.               *)
THEOREM TablesAreKept == Spec => []KnownRobotsKept
<1>1. Typed => KnownRobotsKept
  BY DEF Typed, Tables, Table, KnownRobotsKept, OneEntryPerRobot
<1> QED BY <1>1, InitTyped, NextTyped, PTL DEF Spec
-----------------------------------------------------------------------------
(* What is told on a wire, before anything else                             *)

HasSelf(s) == \E k \in DOMAIN s : s[k][1] = "self"
(* No script's message comes before the answer to the handshake.            *)
Introduced(s) ==
  \A j \in DOMAIN s : s[j][1] = "data" => \E k \in 1 .. j - 1 : s[k][1] = "self"

LEMMA WireLemmas ==
  ASSUME NEW S, NEW s \in Seq(S)
  PROVE  /\ Introduced(<<>>)
         /\ \A n \in 0 .. Len(s) : Introduced(s) => Introduced(SubSeq(s, 1, n))
         /\ s # <<>> /\ s[1][1] # "self" /\ Introduced(s) => Introduced(Tail(s))
         /\ s # <<>> /\ s[1][1] # "self" /\ HasSelf(s) => HasSelf(Tail(s))
<1>1. Introduced(<<>>)
  BY DEF Introduced
<1>2. ASSUME NEW n \in 0 .. Len(s), Introduced(s) PROVE Introduced(SubSeq(s, 1, n))
  <2>1. n \in Nat /\ DOMAIN s = 1 .. Len(s) /\ Len(s) \in Nat
    BY LenProperties
  <2>2. DOMAIN SubSeq(s, 1, n) = 1 .. n /\ \A j \in 1 .. n : SubSeq(s, 1, n)[j] = s[j]
    BY <2>1
  <2> QED BY <1>2, <2>1, <2>2 DEF Introduced
<1>3. ASSUME s # <<>>, s[1][1] # "self"
      PROVE  /\ Introduced(s) => Introduced(Tail(s))
             /\ HasSelf(s) => HasSelf(Tail(s))
  <2>1. /\ Len(s) \in Nat \ {0} /\ DOMAIN s = 1 .. Len(s)
        /\ DOMAIN Tail(s) = 1 .. Len(s) - 1 /\ \A j \in 1 .. Len(s) - 1 : Tail(s)[j] = s[j + 1]
    BY <1>3, HeadTailProperties, LenProperties, EmptySeq
  <2>2. ASSUME Introduced(s), NEW j \in 1 .. Len(s) - 1, Tail(s)[j][1] = "data"
        PROVE  \E k \in 1 .. j - 1 : Tail(s)[k][1] = "self"
    <3>1. j + 1 \in DOMAIN s /\ s[j + 1][1] = "data"
      BY <2>1, <2>2
    <3>2. PICK k \in 1 .. (j + 1) - 1 : s[k][1] = "self"
      BY <2>2, <3>1 DEF Introduced
    <3>3. k - 1 \in 1 .. j - 1 /\ k - 1 \in 1 .. Len(s) - 1 /\ (k - 1) + 1 = k
      BY <1>3, <2>1, <3>2
    <3> QED BY <2>1, <3>2, <3>3
  <2>3. ASSUME HasSelf(s) PROVE HasSelf(Tail(s))
    <3>1. PICK k \in 1 .. Len(s) : s[k][1] = "self"
      BY <2>1, <2>3 DEF HasSelf
    <3>2. k - 1 \in 1 .. Len(s) - 1 /\ (k - 1) + 1 = k
      BY <1>3, <2>1, <3>1
    <3> QED BY <2>1, <3>1, <3>2 DEF HasSelf
  <2> QED BY <2>1, <2>2, <2>3 DEF Introduced
<1> QED BY <1>1, <1>2, <1>3

LEMMA WireGrows ==
  ASSUME NEW S, NEW s \in Seq(S), NEW t \in Seq(S)
  PROVE  /\ HasSelf(s) \/ HasSelf(t) => HasSelf(s \o t)
         /\ Introduced(s) /\ HasSelf(s) => Introduced(s \o t)
         /\ Introduced(s) /\ (\A j \in DOMAIN t : t[j][1] # "data") => Introduced(s \o t)
<1>1. /\ Len(s) \in Nat /\ Len(t) \in Nat /\ DOMAIN s = 1 .. Len(s) /\ DOMAIN t = 1 .. Len(t)
      /\ DOMAIN (s \o t) = 1 .. Len(s) + Len(t)
      /\ \A j \in 1 .. Len(s) : (s \o t)[j] = s[j]
      /\ \A j \in Len(s) + 1 .. Len(s) + Len(t) : (s \o t)[j] = t[j - Len(s)]
  BY LenProperties, ConcatProperties
<1> DEFINE u == s \o t
<1> HIDE DEF u
<1>2. ASSUME HasSelf(s) PROVE HasSelf(u)
  BY <1>1, <1>2 DEF HasSelf, u
<1>3. ASSUME HasSelf(t) PROVE HasSelf(u)
  <2>1. PICK k \in 1 .. Len(t) : t[k][1] = "self"
    BY <1>1, <1>3 DEF HasSelf
  <2>2. Len(s) + k \in 1 .. Len(s) + Len(t) /\ Len(s) + k \in Len(s) + 1 .. Len(s) + Len(t)
        /\ (Len(s) + k) - Len(s) = k
    BY <1>1, <2>1
  <2> QED BY <1>1, <2>1, <2>2 DEF HasSelf, u
<1>4. ASSUME Introduced(s), NEW j \in 1 .. Len(s), u[j][1] = "data"
      PROVE  \E k \in 1 .. j - 1 : u[k][1] = "self"
  BY <1>1, <1>4 DEF Introduced, u
<1>5. ASSUME HasSelf(s), NEW j \in Len(s) + 1 .. Len(s) + Len(t)
      PROVE  \E k \in 1 .. j - 1 : u[k][1] = "self"
  BY <1>1, <1>5 DEF HasSelf, u
<1>6. ASSUME \A j \in DOMAIN t : t[j][1] # "data", NEW j \in Len(s) + 1 .. Len(s) + Len(t)
      PROVE  u[j][1] # "data"
  <2>1. j - Len(s) \in 1 .. Len(t)
    BY <1>1
  <2> QED BY <1>1, <1>6, <2>1 DEF u
<1>7. \A j \in DOMAIN u : j \in 1 .. Len(s) \/ j \in Len(s) + 1 .. Len(s) + Len(t)
  BY <1>1 DEF u
<1> QED BY <1>2, <1>3, <1>4, <1>5, <1>6, <1>7 DEF Introduced, u

-----------------------------------------------------------------------------
(* What a step may do to what a connection carries                          *)

Same(i) == conn'[i].from = conn[i].from /\ conn'[i].to = conn[i].to

Downs(i) ==
  \/ conn'[i].client # "open" /\ conn'[i].down = <<>>
  \/ /\ Same(i)
     /\ \/ /\ conn'[i].client = conn[i].client \/ Opens(i)
           /\ conn'[i].down = conn[i].down
        \/ /\ conn'[i].client # "open"
           /\ \E n \in 0 .. Len(conn[i].down) : conn'[i].down = SubSeq(conn[i].down, 1, n)
        \/ /\ conn'[i].client = conn[i].client /\ conn[i].down # <<>>
           /\ conn'[i].down = Tail(conn[i].down)
           /\ Head(conn[i].down)[1] = "self" => \E e \in known'[conn[i].from] : e.ip = conn[i].to
        \/ /\ conn'[i].client = "open" /\ conn[i].client = "open" /\ conn[i].to \in Robots
           /\ Task(conn[i].to, "check") /\ Head(work[conn[i].to]).conn = i
           /\ \E m \in Downwards : conn'[i].down = conn[i].down \o <<m>>
        \/ /\ conn'[i].client = conn[i].client
           /\ \E ms \in Seq(Downwards) :
                /\ HasSelf(ms) /\ \A j \in DOMAIN ms : ms[j][1] # "data"
                /\ conn'[i].down = conn[i].down \o ms

LEMMA DownIs ==
  ASSUME Typed, NEW i \in Conns, Moves(i)
  PROVE  Downs(i)
<1> DEFINE c == conn[i]
           d == conn'[i]
<1>0. TypeOK /\ c \in Objects /\ Stage(c)
  BY DEF Typed, TypeOK, Stages
<1>1. CASE d = c
  BY <1>1 DEF Downs, Same
<1>2. CASE Makes(i)
  BY <1>2 DEF Makes, Created, NoConn, Downs
<1>3. CASE Lists(i) \/ Begins(i)
  <2>1. d.client \in {"listed", "connecting"} /\ d.down = <<>>
    BY <1>0, <1>3 DEF Lists, Begins, Stage, Objects
  <2> QED BY <2>1 DEF Downs
<1>4. CASE Opens(i)
  <2>1. d.down = c.down /\ Same(i)
    BY <1>0, <1>4 DEF Opens, Objects, Same
  <2> QED BY <1>4, <2>1 DEF Downs
<1>5. CASE Hooks(i)
  <2>1. PICK h : d = [c EXCEPT !.hooks = h]
    BY <1>5 DEF Hooks
  <2>2. d.down = c.down /\ Same(i) /\ d.client = c.client
    BY <1>0, <2>1 DEF Objects, Same
  <2> QED BY <2>2 DEF Downs
<1>6. CASE Breaks(i)
  <2>1. ASSUME NEW n \in 0 .. Len(c.down),
               d = [c EXCEPT !.client = "dead", !.down = SubSeq(@, 1, n), !.hooks = <<>>]
        PROVE  Downs(i)
    <3>1. d.client = "dead" /\ Same(i) /\ d.down = SubSeq(c.down, 1, n)
      BY <1>0, <2>1 DEF Objects, Same
    <3> QED BY <3>1 DEF Downs
  <2>2. ASSUME NEW n \in 0 .. Len(c.up), d = [c EXCEPT !.server = "dead", !.up = SubSeq(@, 1, n)]
        PROVE  Downs(i)
    <3>1. d.client = c.client /\ Same(i) /\ d.down = c.down
      BY <1>0, <2>2 DEF Objects, Same
    <3> QED BY <3>1 DEF Downs
  <2> QED BY <1>6, <2>1, <2>2, Zenon DEF Breaks
<1>7. CASE Closes(i)
  <2>1. \/ d = Ended([c EXCEPT !.client = "gone", !.down = <<>>, !.hooks = <<>>, !.due = <<>>])
        \/ c.down = <<>> /\ d = Ended([c EXCEPT !.client = "gone"])
        \/ d = Ended([c EXCEPT !.server = "gone", !.up = <<>>])
        \/ d = Ended([c EXCEPT !.server = "gone"])
    BY <1>7 DEF Closes
  <2>2. \/ d.client \in {"none", "gone"} /\ d.down = <<>>
        \/ d.client = c.client /\ Same(i) /\ d.down = c.down
    <3>1. PICK x : /\ d = Ended(x)
                   /\ \/ x = [c EXCEPT !.client = "gone", !.down = <<>>, !.hooks = <<>>, !.due = <<>>]
                      \/ c.down = <<>> /\ x = [c EXCEPT !.client = "gone"]
                      \/ x = [c EXCEPT !.server = "gone", !.up = <<>>]
                      \/ x = [c EXCEPT !.server = "gone"]
      BY <2>1
    <3> HIDE DEF c, d
    <3>2. \/ x.client = "gone" /\ x.down = <<>>
          \/ x.client = c.client /\ x.from = c.from /\ x.to = c.to /\ x.down = c.down
      BY <1>0, <3>1 DEF Objects
    <3>3. d = x \/ d = NoConn
      BY <3>1 DEF Ended
    <3> QED BY <3>2, <3>3 DEF NoConn, Same, c, d
  <2> QED BY <2>2 DEF Downs
<1>8. CASE Reads(i)
  <2>1. \/ /\ c.down # <<>> /\ d = [c EXCEPT !.down = Tail(@)]
           /\ Head(c.down)[1] = "self" => \E e \in known'[c.from] : e.ip = c.to
        \/ d = [c EXCEPT !.up = Tail(@)]
    BY <1>8 DEF Reads
  <2>2. /\ d.client = c.client /\ Same(i)
        /\ \/ c.down # <<>> /\ d.down = Tail(c.down)
              /\ (Head(c.down)[1] = "self" => \E e \in known'[c.from] : e.ip = c.to)
           \/ d.down = c.down
    BY <1>0, <2>1 DEF Objects, Same
  <2> QED BY <2>2 DEF Downs
<1>9. CASE Sends(i)
  <2>a. PICK r \in Robots :
          \E m, due :
            /\ \/ c.from = r
               \/ c.to = r /\ Task(r, "check") /\ Head(work[r]).conn = i /\ m = Head(work[r]).msg
            /\ d = [Posted(r, i, <<m>>) EXCEPT !.due = due]
    BY <1>9 DEF Sends, Calls, Serves
  <2>1. PICK m, due :
          /\ \/ c.from = r
             \/ c.to = r /\ Task(r, "check") /\ Head(work[r]).conn = i /\ m = Head(work[r]).msg
          /\ d = [Posted(r, i, <<m>>) EXCEPT !.due = due]
    BY <2>a
  <2>2. Posted(r, i, <<m>>) \in {c, [c EXCEPT !.up = @ \o <<m>>]}
        \/ (c.to = r /\ c.client = "open" /\ Posted(r, i, <<m>>) = [c EXCEPT !.down = @ \o <<m>>])
    BY DEF Posted
  <2>3. /\ d.client = c.client /\ Same(i)
        /\ d.down = c.down \/ (c.to = r /\ c.client = "open" /\ d.down = c.down \o <<m>>)
    BY <1>0, <2>1, <2>2, ZenonT(60) DEF Objects, Same
  <2>4. CASE d.down = c.down
    BY <2>3, <2>4 DEF Downs
  <2>5. CASE c.to = r /\ c.client = "open" /\ d.down = c.down \o <<m>>
    <3>1. c.from # r
      BY <1>0, <2>5 DEF Stage, NoConn
    <3>2. Task(r, "check") /\ Head(work[r]).conn = i /\ m = Head(work[r]).msg
      BY <2>1, <3>1
    <3>3. Head(work[r]) \in Posts
      BY <3>2, HeadHeld DEF Task
    <3>4. m \in Downwards
      BY <3>2, <3>3 DEF Posts, Downwards
    <3> QED BY <2>3, <2>5, <3>2, <3>4 DEF Downs
  <2> QED BY <2>3, <2>4, <2>5
<1>10. CASE Greets(i)
  <2>1. PICK r \in Robots : c.to = r /\ \E ms \in Seq(TableNews(r)) :
                              d = Posted(r, i, ms \o <<<<"self", hull[r]>>>>)
    BY <1>10 DEF Greets
  <2>2. PICK ms \in Seq(TableNews(r)) : d = Posted(r, i, ms \o <<<<"self", hull[r]>>>>)
    BY <2>1
  <2> DEFINE x == <<"self", hull[r]>>
             all == ms \o <<x>>
  <2>3. TableNews(r) \subseteq Downwards /\ x \in Downwards /\ x[1] = "self"
        /\ \A m \in TableNews(r) : m[1] # "data"
    BY <1>0 DEF TableNews, Downwards, Carried, TypeOK, Endpoints
  <2> HIDE DEF x
  <2>4. all \in Seq(Downwards)
    BY <2>3, JoinedOne, SeqMonotonic
  <2>5. HasSelf(all) /\ \A j \in DOMAIN all : all[j][1] # "data"
    <3>1. /\ DOMAIN all = 1 .. Len(ms) + 1 /\ Len(ms) \in Nat /\ all[Len(ms) + 1] = x
          /\ \A j \in 1 .. Len(ms) : all[j] = ms[j] /\ ms[j] \in TableNews(r)
      BY LenProperties, ElementOfSeq
    <3>2. \A j \in 1 .. Len(ms) + 1 : j \in 1 .. Len(ms) \/ j = Len(ms) + 1
      BY <3>1
    <3> HIDE DEF all
    <3>3. \A j \in 1 .. Len(ms) + 1 : all[j][1] # "data"
      BY <2>3, <3>1, <3>2
    <3>4. Len(ms) + 1 \in 1 .. Len(ms) + 1
      BY <3>1
    <3> QED BY <2>3, <3>1, <3>3, <3>4 DEF HasSelf
  <2>6. c.from # r
    BY <1>0, <2>1 DEF Stage, NoConn
  <2>7. d = c \/ d = [c EXCEPT !.down = @ \o all]
    BY <2>2, <2>6 DEF Posted, x
  <2> HIDE DEF all
  <2>8. /\ d.client = c.client /\ Same(i)
        /\ d.down = c.down \/ d.down = c.down \o all
    BY <1>0, <2>7 DEF Objects, Same
  <2> QED BY <2>4, <2>5, <2>8 DEF Downs
<1> QED BY <1>1, <1>2, <1>3, <1>4, <1>5, <1>6, <1>7, <1>8, <1>9, <1>10 DEF Moves

Ups(i) ==
  \/ conn'[i].server # "open"
  \/ Opens(i) /\ Same(i) /\ conn'[i].up = conn[i].up
  \/ /\ Same(i) /\ conn[i].server = "open"
     /\ \/ \E ms \in Seq(Upwards) : conn'[i].up = conn[i].up \o ms
        \/ /\ conn[i].up # <<>> /\ conn'[i].up = Tail(conn[i].up)
           /\ \E r \in Robots :
                /\ conn[i].to = r /\ Free(r)
                /\ Head(conn[i].up)[1] = "register" => Awaited(r, i)'

LEMMA UpIs ==
  ASSUME Typed, NEW i \in Conns, Moves(i)
  PROVE  Ups(i)
<1> DEFINE c == conn[i]
           d == conn'[i]
<1>0. TypeOK /\ c \in Objects /\ Stage(c) /\ c.up \in Seq(Upwards)
  BY DEF Typed, TypeOK, Stages, Objects
<1>a. <<>> \in Seq(Upwards)
  OBVIOUS
<1>1. ASSUME d.server = c.server, Same(i), d.up = c.up PROVE Ups(i)
  <2>1. c.up \o <<>> = c.up
    BY <1>0
  <2> QED BY <1>a, <1>1, <2>1 DEF Ups
<1>2. CASE Makes(i) \/ Lists(i) \/ Begins(i)
  <2>1. d.server = "none"
    BY <1>0, <1>2, Zenon DEF Makes, Created, NoConn, Lists, Begins, Stage, Objects
  <2> QED BY <2>1 DEF Ups
<1>3. CASE Opens(i)
  <2>1. d.up = c.up /\ Same(i)
    BY <1>0, <1>3 DEF Opens, Objects, Same
  <2> QED BY <1>3, <2>1 DEF Ups
<1>4. CASE Hooks(i)
  <2>1. PICK h : d = [c EXCEPT !.hooks = h]
    BY <1>4 DEF Hooks
  <2>2. d.up = c.up /\ Same(i) /\ d.server = c.server
    BY <1>0, <2>1 DEF Objects, Same
  <2> QED BY <1>1, <2>2
<1>5. CASE Breaks(i)
  <2>1. ASSUME NEW n \in 0 .. Len(c.down),
               d = [c EXCEPT !.client = "dead", !.down = SubSeq(@, 1, n), !.hooks = <<>>]
        PROVE  Ups(i)
    <3>1. d.server = c.server /\ Same(i) /\ d.up = c.up
      BY <1>0, <2>1 DEF Objects, Same
    <3> QED BY <1>1, <3>1
  <2>2. ASSUME NEW n \in 0 .. Len(c.up), d = [c EXCEPT !.server = "dead", !.up = SubSeq(@, 1, n)]
        PROVE  Ups(i)
    <3>1. d.server = "dead"
      BY <1>0, <2>2 DEF Objects
    <3> QED BY <3>1 DEF Ups
  <2> QED BY <1>5, <2>1, <2>2, Zenon DEF Breaks
<1>6. CASE Closes(i)
  <2>1. PICK x : /\ d = Ended(x)
                 /\ \/ x = [c EXCEPT !.client = "gone", !.down = <<>>, !.hooks = <<>>, !.due = <<>>]
                    \/ x = [c EXCEPT !.client = "gone"]
                    \/ x = [c EXCEPT !.server = "gone", !.up = <<>>]
                    \/ x = [c EXCEPT !.server = "gone"]
    BY <1>6 DEF Closes
  <2> HIDE DEF c, d
  <2>2. \/ x.server = "gone"
        \/ x.server = c.server /\ x.from = c.from /\ x.to = c.to /\ x.up = c.up
    BY <1>0, <2>1 DEF Objects
  <2>3. d = x \/ d = NoConn
    BY <2>1 DEF Ended
  <2>4. \/ d.server # "open"
        \/ d.server = c.server /\ d.from = c.from /\ d.to = c.to /\ d.up = c.up
    BY <2>2, <2>3 DEF NoConn
  <2> QED BY <1>1, <2>4 DEF Ups, Same, c, d
<1>7. CASE Reads(i)
  <2>1. PICK r \in Robots :
          \/ d = [c EXCEPT !.down = Tail(@)]
          \/ /\ c.to = r /\ c.up # <<>> /\ d = [c EXCEPT !.up = Tail(@)] /\ Free(r)
             /\ Head(c.up)[1] = "register" => Awaited(r, i)'
    BY <1>7 DEF Reads
  <2>2. CASE d = [c EXCEPT !.down = Tail(@)]
    <3>1. d.server = c.server /\ Same(i) /\ d.up = c.up
      BY <1>0, <2>2 DEF Objects, Same
    <3> QED BY <1>1, <3>1
  <2>3. CASE /\ c.to = r /\ c.up # <<>> /\ d = [c EXCEPT !.up = Tail(@)] /\ Free(r)
             /\ Head(c.up)[1] = "register" => Awaited(r, i)'
    <3>1. d.server = c.server /\ Same(i) /\ d.up = Tail(c.up)
      BY <1>0, <2>3 DEF Objects, Same
    <3>2. c.server # "open" => d.server # "open"
      BY <3>1
    <3> QED BY <2>3, <3>1, <3>2 DEF Ups
  <2> QED BY <2>1, <2>2, <2>3
<1>8. CASE Sends(i) \/ Greets(i)
  <2>1. PICK r, ms : /\ ms \in Seq(Upwards) \/ c.from # r
                     /\ \/ d = Posted(r, i, ms)
                        \/ \E due : d = [Posted(r, i, ms) EXCEPT !.due = due]
    <3>1. CASE Sends(i)
      <4>1. PICK r \in Robots, m \in Carried, due \in Seq(Hulls \X Carried) :
              /\ c.from = r \/ c.to = r
              /\ d = [Posted(r, i, <<m>>) EXCEPT !.due = due]
        BY <1>0, <3>1, SendIs
      <4>2. <<m>> \in Seq(Upwards)
        BY DEF Upwards
      <4> QED BY <4>1, <4>2
    <3>2. CASE Greets(i)
      <4>1. PICK r \in Robots, ms \in Seq(Carried) :
              c.to = r /\ c.server = "open" /\ d = Posted(r, i, ms \o <<<<"self", hull[r]>>>>)
        BY <1>0, <3>2, GreetIs
      <4>2. c.from # r
        BY <1>0, <4>1 DEF Stage, NoConn
      <4> QED BY <4>1, <4>2
    <3> QED BY <1>8, <3>1, <3>2
  <2>2. \/ Posted(r, i, ms) = c
        \/ c.from = r /\ Posted(r, i, ms) = [c EXCEPT !.up = @ \o ms]
        \/ Posted(r, i, ms) = [c EXCEPT !.down = @ \o ms]
    BY DEF Posted
  <2> DEFINE p == Posted(r, i, ms)
  <2>3. /\ p.server = c.server /\ p.from = c.from /\ p.to = c.to
        /\ p.up = c.up \/ (ms \in Seq(Upwards) /\ p.up = c.up \o ms)
        /\ {"server", "from", "to", "up"} \subseteq DOMAIN p
    <3> HIDE DEF p
    <3>1. p = c \/ (c.from = r /\ p = [c EXCEPT !.up = @ \o ms]) \/ p = [c EXCEPT !.down = @ \o ms]
      BY <2>2 DEF p
    <3> QED BY <1>0, <2>1, <3>1 DEF Objects
  <2>4. d = p \/ \E due : d = [p EXCEPT !.due = due]
    BY <2>1
  <2> HIDE DEF p
  <2>5. d.server = p.server /\ d.from = p.from /\ d.to = p.to /\ d.up = p.up
    BY <2>3, <2>4
  <2>6. /\ d.server = c.server /\ Same(i)
        /\ d.up = c.up \/ (ms \in Seq(Upwards) /\ d.up = c.up \o ms)
    BY <2>3, <2>5 DEF Same
  <2> QED BY <1>1, <2>6 DEF Ups
<1> QED BY <1>1, <1>2, <1>3, <1>4, <1>5, <1>6, <1>7, <1>8 DEF Moves, Same

-----------------------------------------------------------------------------
(* What becomes of tasks, tables and ends                                   *)

LEMMA RestartEnds ==
  ASSUME Typed, NEW r \in Robots, Restart(r), NEW i \in Conns
  PROVE  /\ conn[i].from = r => conn'[i].client # "open" /\ conn'[i].down = <<>>
         /\ conn[i].to = r => conn'[i].server # "open"
<1> DEFINE c == conn[i]
           d == conn'[i]
           gone == Ended([c EXCEPT !.client = "gone", !.down = <<>>, !.hooks = <<>>, !.due = <<>>])
           left == Ended([c EXCEPT !.server = "gone", !.up = <<>>])
<1>0. TypeOK /\ c \in Objects /\ Stage(c)
  BY DEF Typed, TypeOK, Stages
<1>1. /\ leader[r] = r \/ Unused # {}
      /\ \/ leader[r] # r /\ i = Fresh /\ d = Created(r, leader[r])
         \/ d = CASE c.from = r /\ c.client \notin {"none", "gone"} -> gone
                  [] c.to = r /\ c.server \in {"open", "dead"} -> left
                  [] OTHER -> c
  BY Zenon DEF Restart
<1>2. CASE leader[r] # r /\ i = Fresh /\ d = Created(r, leader[r])
  <2>1. c = NoConn
    BY <1>1, <1>2, FreshIs
  <2> QED BY <1>2, <2>1 DEF Created, NoConn
<1>3. CASE c.from = r /\ c.client \notin {"none", "gone"} /\ d = gone
  <2>1. c.to # r
    BY <1>0, <1>3 DEF Stage
  <2>2. d.client \in {"none", "gone"} /\ d.down = <<>>
    BY <1>0, <1>3 DEF Ended, NoConn, Objects
  <2> QED BY <2>1, <2>2
<1>4. CASE c.to = r /\ c.server \in {"open", "dead"} /\ d = left
  <2>1. c.from # r
    BY <1>0, <1>4 DEF Stage, NoConn
  <2>2. d.server \in {"none", "gone"}
    BY <1>0, <1>4 DEF Ended, NoConn, Objects
  <2> QED BY <2>1, <2>2
<1>5. CASE d = c /\ ~(c.from = r /\ c.client \notin {"none", "gone"})
           /\ ~(c.to = r /\ c.server \in {"open", "dead"})
  BY <1>0, <1>5 DEF Stage, NoConn
<1> HIDE DEF gone, left, c, d
<1> QED BY <1>1, <1>2, <1>3, <1>4, <1>5 DEF c, d

LEMMA LastOfTail ==
  ASSUME NEW S, NEW s \in Seq(S), Len(s) # 0, Len(s) # 1
  PROVE  Tail(s) # <<>> /\ Tail(s)[Len(Tail(s))] = s[Len(s)]
<1>1. Len(s) \in Nat /\ s # <<>>
  BY LenProperties, EmptySeq
<1>2. /\ Tail(s) \in Seq(S) /\ Len(Tail(s)) = Len(s) - 1
      /\ \A j \in 1 .. Len(s) - 1 : Tail(s)[j] = s[j + 1]
  BY <1>1, HeadTailProperties
<1> DEFINE n == Len(s)
<1>3. n \in Nat /\ n # 0 /\ n # 1
  BY <1>1
<1> HIDE DEF n
<1>4. n - 1 \in 1 .. n - 1 /\ (n - 1) + 1 = n /\ n - 1 # 0
  BY <1>3
<1>5. Tail(s) # <<>>
  <2>1. Len(Tail(s)) # 0
    BY <1>2, <1>4 DEF n
  <2> QED BY <2>1, EmptySeq
<1> QED BY <1>2, <1>4, <1>5 DEF n

(* The end a message is handed to: one that is there, and leads to the      *)
(* robot the message is for, or a new one.                                  *)
LEMMA ReachIs ==
  ASSUME Typed, NEW r \in Robots, Reach(r)
  PROVE  /\ work[r] # <<>> /\ Head(work[r]) \in Posts /\ Head(work[r]).do = "reach"
         /\ \E j \in Conns :
              /\ Then(r, <<[Head(work[r]) EXCEPT !.do = "check", !.conn = j]>> \o Tail(work[r]))
              /\ \/ /\ UNCHANGED conn
                    /\ \/ Calls(r, j) /\ (conn[j].to = Head(work[r]).ip \/ Head(work[r]).ip = Nobody)
                       \/ /\ Serves(r, j) /\ conn[j].from = Head(work[r]).ip
                          /\ \E e \in known[r] : e.port = j
                 \/ conn[j] = NoConn /\ conn'[j] = Created(r, Head(work[r]).ip)
<1> DEFINE t == Head(work[r])
           ports == {e.port : e \in {e \in known[r] : e.hull = t.hull /\ e.ip = t.ip}}
           old == UNION {Connection(r, t.ip, p) : p \in ports}
           found == IF old # {} THEN old ELSE Connection(r, t.ip, ServerPort)
           handed(j) == Then(r, <<[t EXCEPT !.do = "check", !.conn = j]>> \o Tail(work[r]))
<1>1. work[r] # <<>> /\ t.do = "reach" /\ t \in Posts /\ TypeOK /\ Stages
  BY HeadHeld, Zenon DEF Reach, Task, Typed
<1>2. ASSUME NEW j \in found
      PROVE  /\ j \in Conns
             /\ \/ Calls(r, j) /\ (conn[j].to = t.ip \/ t.ip = Nobody)
                \/ Serves(r, j) /\ conn[j].from = t.ip /\ \E e \in known[r] : e.port = j
  <2>1. PICK p : j \in Connection(r, t.ip, p) /\ (p \in ports \/ p = ServerPort)
    BY <1>2
  <2>2. /\ j \in Conns
        /\ \/ Calls(r, j) /\ (conn[j].to = t.ip \/ t.ip = Nobody)
           \/ Serves(r, j) /\ conn[j].from = t.ip /\ p = j
    BY <1>1, <2>1, ConnectionIs
  <2>3. p = j => \E e \in known[r] : e.port = j
    BY <2>1, <2>2, PortTypes
  <2> QED BY <2>2, <2>3
<1>3. \/ UNCHANGED conn /\ \E j \in found : handed(j)
      \/ Unused # {} /\ conn' = [conn EXCEPT ![Fresh] = Created(r, t.ip)] /\ handed(Fresh)
  BY Zenon DEF Reach
<1>4. Unused # {} /\ conn' = [conn EXCEPT ![Fresh] = Created(r, t.ip)] =>
        Fresh \in Conns /\ conn[Fresh] = NoConn /\ conn'[Fresh] = Created(r, t.ip)
  BY <1>1, FreshIs DEF TypeOK
<1> HIDE DEF found, t, handed
<1>5. \E j \in Conns :
        /\ handed(j)
        /\ \/ /\ UNCHANGED conn
              /\ \/ Calls(r, j) /\ (conn[j].to = t.ip \/ t.ip = Nobody)
                 \/ Serves(r, j) /\ conn[j].from = t.ip /\ \E e \in known[r] : e.port = j
           \/ conn[j] = NoConn /\ conn'[j] = Created(r, t.ip)
  BY <1>2, <1>3, <1>4
<1> QED BY <1>1, <1>5, Zenon DEF t, handed

(* A greeting is carried out.                                               *)
LEMMA AwaitedStays ==
  ASSUME Typed, [Next]_vars, NEW r \in Robots, NEW i, Awaited(r, i)
  PROVE  Awaited(r, i)' \/ Restart(r) \/ (Greet(r) /\ Head(work[r]).conn = i)
<1> DEFINE Goal == Awaited(r, i)' \/ Restart(r) \/ (Greet(r) /\ Head(work[r]).conn = i)
<1> SUFFICES Goal
  OBVIOUS
<1>0. TypeOK /\ work[r] # <<>> /\ work[r] \in Seq(Posts \cup Greetings)
  BY DEF Typed, TypeOK, Awaited
<1>1. CASE work'[r] = work[r]
  BY <1>1 DEF Awaited
<1>2. /\ Len(work[r]) \in Nat \ {0} /\ Head(work[r]) = work[r][1]
      /\ Len(work[r]) = 1 => Head(work[r]).do = "greet" /\ Head(work[r]).conn = i
  BY <1>0, HeadTailProperties, EmptySeq, LenProperties DEF Awaited
<1>3. ASSUME Len(work[r]) # 1, work'[r] = Tail(work[r]) PROVE Goal
  <2>1. Tail(work[r]) # <<>> /\ Tail(work[r])[Len(Tail(work[r]))] = work[r][Len(work[r])]
    BY <1>0, <1>2, <1>3, LastOfTail
  <2> QED BY <1>3, <2>1 DEF Awaited
<1>4. ASSUME Len(work[r]) # 1, NEW t \in Posts, work'[r] = <<t>> \o Tail(work[r]) PROVE Goal
  <2>1. /\ Len(<<t>> \o Tail(work[r])) = Len(work[r]) /\ <<t>> \o Tail(work[r]) # <<>>
        /\ (<<t>> \o Tail(work[r]))[Len(work[r])] = work[r][Len(work[r])]
    BY <1>0, <1>2, <1>4, HeadTailProperties, EmptySeq
  <2> QED BY <1>4, <2>1 DEF Awaited
<1> HIDE DEF Goal
<1>5. ASSUME NEW q \in Robots, NEW tasks, Then(q, tasks) PROVE IF q = r THEN work'[r] = tasks ELSE Goal
  BY <1>0, <1>1, <1>5 DEF Then, TypeOK
<1>6. ASSUME NEW q \in Robots, Check(q) \/ Hook(q) PROVE Goal
  <2>1. work[q] # <<>> /\ Head(work[q]).do \in {"check", "hook"}
    BY <1>6 DEF Check, Hook, Task
  <2>2. CASE Then(q, Tail(work[q]))
    BY <1>2, <1>3, <1>5, <2>1, <2>2
  <2>3. CASE Then(q, <<[Head(work[q]) EXCEPT !.do = "hook"]>> \o Tail(work[q]))
    <3>1. Head(work[q]) \in Posts
      BY <2>1, HeadHeld
    <3>2. [Head(work[q]) EXCEPT !.do = "hook"] \in Posts
      BY <3>1 DEF Posts
    <3> QED BY <1>2, <1>4, <1>5, <2>1, <2>3, <3>2
  <2> QED BY <1>6, <2>2, <2>3 DEF Check, Hook, Rest
<1>7. ASSUME NEW q \in Robots, Reach(q) PROVE Goal
  <2>1. work[q] # <<>> /\ Head(work[q]).do = "reach"
    BY <1>7, Zenon DEF Reach, Task
  <2>2. Head(work[q]) \in Posts
    BY <2>1, HeadHeld
  <2>3. PICK j : /\ Then(q, <<[Head(work[q]) EXCEPT !.do = "check", !.conn = j]>> \o Tail(work[q]))
                 /\ j \in Conns
    BY <1>7, ReachIs, Zenon
  <2>4. j \in 0 .. MaxConns
    BY <2>3, PortTypes DEF Conns
  <2>5. [Head(work[q]) EXCEPT !.do = "check", !.conn = j] \in Posts
    BY <2>2, <2>4 DEF Posts
  <2> QED BY <1>2, <1>4, <1>5, <2>1, <2>3, <2>5
<1>8. ASSUME NEW q \in Robots, Greet(q) PROVE Goal
  <2>1. Then(q, Tail(work[q]))
    BY <1>8 DEF Greet, Rest
  <2> QED BY <1>2, <1>3, <1>5, <1>8, <2>1 DEF Goal
<1>9. ASSUME NEW q \in Robots, NEW tasks, Then(q, tasks), Free(q) PROVE Goal
  BY <1>0, <1>5, <1>9, SMTT(40) DEF Free
<1>10. ASSUME NEW q \in Robots, Restart(q) PROVE Goal
  <2>1. Then(q, <<>>)
    BY <1>10, Zenon DEF Restart, Then
  <2> QED BY <1>5, <1>10, <2>1, SMTT(40) DEF Goal
<1>11. ASSUME UNCHANGED work PROVE Goal
  BY <1>1, <1>11
<1>12. ASSUME NEW q \in Robots, Scripts(q) \/ \E j \in Conns : NewConnection(q, j) PROVE Goal
  BY <1>9, <1>11, <1>12 DEF Scripts, ConnectTo, Send, SetHullNumber, NewConnection, Gets
<1>13. ASSUME NEW q \in Robots, Server(q) PROVE Goal
  BY <1>6, <1>7, <1>8, <1>11, <1>12, <1>13
     DEF Server, Connected, Started, ConnectionClosed, OnConnectionInfo, OnNewData
<1>14. CASE Wires \/ Faults
  BY <1>10, <1>11, <1>14, Zenon DEF Wires, Faults, Connect, Open, Break
<1>15. CASE UNCHANGED vars
  BY <1>11, <1>15 DEF vars
<1> QED BY <1>12, <1>13, <1>14, <1>15 DEF Next

(* What a step may do to the slot of r's server: it ends, goes on with the  *)
(* next task or with this one, or begins.                                   *)
Goes(r, t) ==
  /\ t \in Posts /\ t.hull = Head(work[r]).hull /\ t.ip = Head(work[r]).ip
  /\ t.msg = Head(work[r]).msg /\ work'[r] = <<t>> \o Tail(work[r])
  /\ \/ Check(r) /\ Head(work[r]).do = "check" /\ t.do = "hook" /\ t.conn = Head(work[r]).conn
     \/ Reach(r) /\ Head(work[r]).do = "reach" /\ t.do = "check"

Works(r) ==
  \/ work'[r] = work[r]
  \/ work'[r] = <<>>
  \/ work[r] # <<>> /\ work'[r] = Tail(work[r])
  \/ work[r] # <<>> /\ \E t : Goes(r, t)
  \/ /\ work[r] = <<>>
     /\ \E entries \in SUBSET known[r], m \in Carried :
          /\ work'[r] = Tasks(r, entries, m)
          /\ \/ m = <<"data", Len(sent) + 1>> /\ Send(r, entries)
             \/ m = <<"connection", r, hull'[r]>> /\ SetHullNumber(r)
  \/ work[r] = <<>> /\ \E i \in Conns : NewConnection(r, i)

LEMMA NextWorks ==
  ASSUME Typed, [Next]_vars, NEW r \in Robots
  PROVE  Works(r)
<1> DEFINE Goal == Works(r)
<1> SUFFICES Goal
  OBVIOUS
<1>0. TypeOK
  BY DEF Typed
<1>1. ASSUME work'[r] = work[r] PROVE Goal
  BY <1>1 DEF Works
<1>2. ASSUME work[r] # <<>>, NEW t, Goes(r, t) PROVE Goal
  BY <1>2 DEF Works
<1>3. ASSUME work'[r] = Tail(work[r]), work[r] # <<>> PROVE Goal
  BY <1>3 DEF Works
<1>4. ASSUME NEW q \in Robots, NEW tasks, Then(q, tasks)
      PROVE  IF q = r THEN work'[r] = tasks ELSE Goal
  BY <1>0, <1>4 DEF Then, TypeOK, Works
<1>5. ASSUME NEW entries \in SUBSET known[r], Send(r, entries) PROVE Goal
  <2>1. Len(sent) \in Nat /\ Len(sent) < MaxSends /\ Len(sent') = Len(sent) + 1
    BY <1>0, <1>5, LenProperties, AppendProperties DEF Send, TypeOK
  <2>2. <<"data", Len(sent) + 1>> \in Carried
    BY <2>1, PortTypes DEF Carried
  <2>3. work[r] = <<>> /\ work'[r] = Tasks(r, entries, <<"data", Len(sent) + 1>>)
    BY <1>4, <1>5, <2>1 DEF Send, Free
  <2> QED BY <1>5, <2>2, <2>3 DEF Works
<1>6. ASSUME SetHullNumber(r) PROVE Goal
  <2>1. <<"connection", r, hull'[r]>> \in Carried
    <3>1. hull'[r] \in Hulls
      BY RestTypes
    <3> QED BY <3>1 DEF Carried, Hosts
  <2>2. work[r] = <<>> /\ work'[r] = Tasks(r, known[r], <<"connection", r, hull'[r]>>)
    BY <1>4, <1>6 DEF SetHullNumber, Free
  <2> QED BY <1>6, <2>1, <2>2 DEF Works
<1> HIDE DEF Goal
<1>7. ASSUME NEW q \in Robots, Rest(q), work[q] # <<>> PROVE Goal
  BY <1>3, <1>4, <1>7 DEF Rest
<1>8. ASSUME NEW q \in Robots, Reach(q) PROVE Goal
  <2>1. work[q] # <<>> /\ Head(work[q]) \in Posts /\ Head(work[q]).do = "reach"
    BY <1>8, ReachIs, Zenon
  <2>2. PICK j \in Conns :
          Then(q, <<[Head(work[q]) EXCEPT !.do = "check", !.conn = j]>> \o Tail(work[q]))
    BY <1>8, ReachIs, Zenon
  <2>3. j \in 0 .. MaxConns
    BY <2>2, PortTypes DEF Conns
  <2> DEFINE t == [Head(work[q]) EXCEPT !.do = "check", !.conn = j]
  <2>4. /\ t \in Posts /\ t.hull = Head(work[q]).hull /\ t.ip = Head(work[q]).ip
        /\ t.msg = Head(work[q]).msg /\ t.do = "check"
    BY <2>1, <2>3 DEF Posts
  <2> HIDE DEF t
  <2>5. CASE q = r
    <3>1. Goes(r, t)
      BY <1>4, <1>8, <2>1, <2>2, <2>4, <2>5 DEF Goes, t
    <3> QED BY <1>2, <2>1, <2>5, <3>1
  <2>6. CASE q # r
    BY <1>4, <2>2, <2>6
  <2> QED BY <2>5, <2>6
<1>9. ASSUME NEW q \in Robots, Check(q) PROVE Goal
  <2>1. work[q] # <<>> /\ Head(work[q]) \in Posts /\ Head(work[q]).do = "check"
    BY <1>9, HeadHeld DEF Check, Task
  <2>2. CASE Rest(q)
    BY <1>7, <2>1, <2>2
  <2> DEFINE t == [Head(work[q]) EXCEPT !.do = "hook"]
  <2>3. CASE Then(q, <<t>> \o Tail(work[q]))
    <3>1. /\ t \in Posts /\ t.hull = Head(work[q]).hull /\ t.ip = Head(work[q]).ip
          /\ t.msg = Head(work[q]).msg /\ t.do = "hook" /\ t.conn = Head(work[q]).conn
      BY <2>1 DEF Posts
    <3> HIDE DEF t
    <3>2. CASE q = r
      <4>1. Goes(r, t)
        BY <1>4, <1>9, <2>1, <2>3, <3>1, <3>2, Zenon DEF Goes
      <4> QED BY <1>2, <2>1, <3>2, <4>1, SMTT(40)
    <3>3. CASE q # r
      BY <1>4, <2>3, <3>3, SMTT(40)
    <3> QED BY <3>2, <3>3
  <2> QED BY <1>9, <2>2, <2>3 DEF Check
<1>10. ASSUME NEW q \in Robots, Hook(q) \/ Greet(q) PROVE Goal
  BY <1>7, <1>10 DEF Hook, Greet, Task
<1>11. ASSUME UNCHANGED work PROVE Goal
  BY <1>1, <1>11
<1>12. ASSUME NEW q \in Robots, NEW tasks, Then(q, tasks), q # r PROVE Goal
  BY <1>4, <1>12
<1>13. ASSUME NEW q \in Robots, Scripts(q) PROVE Goal
  <2>1. CASE q # r
    BY <1>11, <1>12, <1>13, <2>1 DEF Scripts, ConnectTo, Send, SetHullNumber
  <2>2. CASE q = r
    <3>1. \A h : {e \in known[r] : e.hull = h} \in SUBSET known[r]
      OBVIOUS
    <3> QED BY <1>5, <1>6, <1>11, <1>13, <2>2, <3>1 DEF Scripts, ConnectTo
  <2> QED BY <2>1, <2>2
<1>14. ASSUME NEW q \in Robots, NEW i \in Conns, NewConnection(q, i) PROVE Goal
  BY <1>12, <1>14, ZenonT(60) DEF NewConnection, Works, Gets, Free, Goal
<1>15. ASSUME NEW q \in Robots, Restart(q) PROVE Goal
  <2>1. Then(q, <<>>)
    BY <1>15, Zenon DEF Restart, Then
  <2>2. q = r => work'[r] = <<>>
    BY <1>4, <2>1
  <2> QED BY <1>12, <2>1, <2>2 DEF Works, Goal
<1>16. ASSUME NEW q \in Robots, Server(q) PROVE Goal
  BY <1>8, <1>9, <1>10, <1>11, <1>14, <1>16
     DEF Server, Connected, Started, ConnectionClosed, OnConnectionInfo, OnNewData
<1>17. CASE Wires \/ Faults
  BY <1>11, <1>15, <1>17, Zenon DEF Wires, Faults, Connect, Open, Break
<1>18. CASE UNCHANGED vars
  BY <1>11, <1>18 DEF vars
<1> QED BY <1>13, <1>16, <1>17, <1>18 DEF Next

(* Only the task at the head is about a connection that was found.          *)
Later == {t \in Posts \cup Greetings : t.do \in {"reach", "greet"}}
Waiting == \A r \in Robots : work[r] # <<>> => Tail(work[r]) \in Seq(Later)

LEMMA ConsTail ==
  ASSUME NEW S, NEW s \in Seq(S), NEW x \in S
  PROVE  /\ <<x>> \o s # <<>> /\ Tail(<<x>> \o s) = s /\ Head(<<x>> \o s) = x
OBVIOUS

LEMMA TasksAreLater ==
  ASSUME Typed, NEW r \in Robots, NEW entries \in SUBSET known[r], NEW m \in Carried
  PROVE  Tasks(r, entries, m) \in Seq(Later)
<1>1. entries \in SUBSET Endpoints /\ IsFiniteSet(entries)
  BY FS_Subset DEF Typed, Tables, Table
<1> DEFINE T == {t \in Posts : /\ t.do = "reach" /\ t.msg = m /\ t.conn = 0
                              /\ \E e \in entries : t.hull = e.hull /\ t.ip = e.ip}
<1>2. Tasks(r, entries, m) \in Seq(T)
  BY <1>1, TasksTypes
<1>3. T \subseteq Later
  BY DEF Later
<1> HIDE DEF T
<1> QED BY <1>2, <1>3, SeqMonotonic

LEMMA NewIsLater ==
  ASSUME Typed, NEW r \in Robots,
         \/ \E entries \in SUBSET known[r], m \in Carried : work'[r] = Tasks(r, entries, m)
         \/ \E i \in Conns : NewConnection(r, i)
  PROVE  work'[r] \in Seq(Later)
<1>1. ASSUME NEW i \in Conns, NewConnection(r, i) PROVE work'[r] \in Seq(Later)
  <2>1. PICK m \in Carried, g \in Greetings :
          /\ g.do = "greet"
          /\ work'[r] = <<g>> \/ work'[r] = Tasks(r, known[r], m) \o <<g>>
    <3>1. \E m \in Carried, g \in Greetings : Handshakes(r, i, m, g)
      BY <1>1, HandshakeWork
    <3> QED BY <3>1 DEF Handshakes
  <2>2. g \in Later
    BY <2>1 DEF Later
  <2>3. Tasks(r, known[r], m) \in Seq(Later)
    BY TasksAreLater
  <2> QED BY <2>1, <2>2, <2>3, JoinedOne
<1> QED BY <1>1, TasksAreLater

LEMMA WaitingKept ==
  ASSUME Typed, Waiting, [Next]_vars
  PROVE  Waiting'
<1> SUFFICES ASSUME NEW r \in Robots, work'[r] # <<>> PROVE Tail(work'[r]) \in Seq(Later)
  BY DEF Waiting
<1>1. work[r] # <<>> => Tail(work[r]) \in Seq(Later)
  BY DEF Waiting
<1>2. Works(r)
  BY NextWorks
<1>3. CASE work'[r] = work[r]
  BY <1>1, <1>3
<1>4. CASE work[r] # <<>> /\ work'[r] = Tail(work[r])
  BY <1>1, <1>4, HeadAndTail
<1>5. CASE work[r] # <<>> /\ \E t : Goes(r, t)
  <2>1. PICK t : t \in Posts /\ work'[r] = <<t>> \o Tail(work[r])
    BY <1>5 DEF Goes
  <2>2. Tail(work[r]) \in Seq(Later \cup {t}) /\ t \in Later \cup {t}
    BY <1>1, <1>5, SeqMonotonic
  <2>3. Tail(work'[r]) = Tail(work[r])
    BY <2>1, <2>2, ConsTail
  <2> QED BY <1>1, <1>5, <2>3
<1>6. CASE \/ \E entries \in SUBSET known[r], m \in Carried : work'[r] = Tasks(r, entries, m)
           \/ \E i \in Conns : NewConnection(r, i)
  BY <1>6, NewIsLater, HeadAndTail
<1> QED BY <1>2, <1>3, <1>4, <1>5, <1>6 DEF Works

AtWork(r, i) ==
  work[r] # <<>> /\ Head(work[r]).do \in {"check", "hook"} /\ Head(work[r]).conn = i

LEMMA AtWorkIs ==
  ASSUME Typed, Waiting, [Next]_vars, NEW r \in Robots, NEW i \in Conns, AtWork(r, i)'
  PROVE  \/ AtWork(r, i)
         \/ /\ UNCHANGED conn
            /\ \/ Calls(r, i)
               \/ Serves(r, i) /\ \E e \in known[r] : e.port = i
         \/ conn[i] = NoConn /\ \E ip : conn'[i] = Created(r, ip)
<1>1. work'[r] # <<>> /\ Head(work'[r]).do \in {"check", "hook"} /\ Head(work'[r]).conn = i
  BY DEF AtWork
<1>2. Works(r)
  BY NextWorks
<1>a. \A s \in Seq(Later) : s # <<>> => Head(s).do \notin {"check", "hook"}
  BY HeadAndTail DEF Later
<1>3. CASE work'[r] = work[r]
  BY <1>1, <1>3 DEF AtWork
<1>4. CASE work[r] # <<>> /\ work'[r] = Tail(work[r])
  BY <1>1, <1>4, <1>a DEF Waiting
<1>5. CASE work[r] # <<>> /\ \E t : Goes(r, t)
  <2>1. PICK t : Goes(r, t)
    BY <1>5
  <2>2. Tail(work[r]) \in Seq(Later \cup {t}) /\ t \in Later \cup {t}
    BY <1>5, SeqMonotonic DEF Waiting
  <2>3. Head(work'[r]) = t
    BY <2>1, <2>2, ConsTail DEF Goes
  <2>4. CASE Head(work[r]).do = "check" /\ t.conn = Head(work[r]).conn
    BY <1>1, <1>5, <2>3, <2>4 DEF AtWork
  <2>5. CASE Reach(r)
    <3>1. PICK j \in Conns :
            /\ Then(r, <<[Head(work[r]) EXCEPT !.do = "check", !.conn = j]>> \o Tail(work[r]))
            /\ \/ /\ UNCHANGED conn
                  /\ \/ Calls(r, j)
                     \/ Serves(r, j) /\ \E e \in known[r] : e.port = j
               \/ conn[j] = NoConn /\ conn'[j] = Created(r, Head(work[r]).ip)
      BY <2>5, ReachIs, Zenon
    <3> DEFINE u == [Head(work[r]) EXCEPT !.do = "check", !.conn = j]
    <3>2. u.conn = j
      BY <2>5, ReachIs, Zenon DEF Posts
    <3> HIDE DEF u
    <3>3. work'[r] = <<u>> \o Tail(work[r])
      BY <3>1 DEF Then, Typed, TypeOK, u
    <3>4. Tail(work[r]) \in Seq(Later \cup {u}) /\ u \in Later \cup {u}
      BY <1>5, SeqMonotonic DEF Waiting
    <3>5. j = i
      BY <1>1, <3>2, <3>3, <3>4, ConsTail
    <3> QED BY <3>1, <3>5
  <2> QED BY <2>1, <2>4, <2>5 DEF Goes
<1>6. CASE \/ \E entries \in SUBSET known[r], m \in Carried : work'[r] = Tasks(r, entries, m)
           \/ \E j \in Conns : NewConnection(r, j)
  BY <1>1, <1>6, <1>a, NewIsLater
<1> QED BY <1>1, <1>2, <1>3, <1>4, <1>5, <1>6 DEF Works

-----------------------------------------------------------------------------
(* A server knows whoever it hears from                                     *)

(* The first thing a server hears from its end of a connection is who the   *)
(* robot at the other end is, and it greets that robot at once.             *)
Registered ==
  \A i \in Conns : conn[i].server = "open" =>
    \/ conn[i].up # <<>> /\ conn[i].up[1][1] = "register"
    \/ Awaited(conn[i].to, i)
    \/ Knows(conn[i].to, conn[i].from)

(* The robot that has called is told who it has called, or knows.           *)
Greeted(i) ==
  \/ conn[i].client # "open"
  \/ HasSelf(conn[i].down)
  \/ Knows(conn[i].from, conn[i].to)
SelfFirst ==
  \A i \in Conns : Knows(conn[i].from, conn[i].to) \/ Introduced(conn[i].down)

(* The server at the other end finds the connection, to send over it, by a  *)
(* port that it has noted when it greeted.                                  *)
Noted(r, i) == \E e \in known[r] : e.port = i
Early == {"created", "listed", "connecting"}
Unnoted == \A i \in Conns : conn[i].client \in Early => \A r \in Robots : ~Noted(r, i)
PortsGreeted ==
  \A r \in Robots, i \in Conns :
    conn[i].to = r /\ (Noted(r, i) \/ AtWork(r, i)) => Greeted(i)

Introductions == Registered /\ SelfFirst /\ Unnoted /\ PortsGreeted
Acquainted == Typed /\ Waiting /\ Introductions

LEMMA KnowsStays ==
  ASSUME Typed, [Next]_vars, NEW i \in Conns, NEW p, NEW r \in Robots, Knows(r, p)
  PROVE  \/ Knows(r, p)'
         \/ /\ conn[i].from = r => conn'[i].client # "open" /\ conn'[i].down = <<>>
            /\ conn[i].to = r => conn'[i].server # "open"
BY TablesKept, RestartEnds

LEMMA GreetedStays ==
  ASSUME Typed, [Next]_vars, NEW i \in Conns, Greeted(i), conn[i].client # "connecting"
  PROVE  Greeted(i)'
<1> DEFINE c == conn[i]
           d == conn'[i]
<1> SUFFICES ASSUME d.client = "open"
             PROVE  HasSelf(d.down) \/ \E e \in known'[d.from] : e.ip = d.to
  BY DEF Greeted, Knows, HasSelf
<1>0. Downs(i) /\ c \in Objects /\ Stage(c) /\ c.down \in Seq(Downwards)
  BY NextMoves, DownIs DEF Typed, TypeOK, Stages, Objects
<1>1. Same(i) /\ c.client = "open"
  BY <1>0 DEF Downs, Opens
<1>2. c.from \in Robots
  BY <1>0, <1>1 DEF Stage
<1>3. CASE Knows(c.from, c.to)
  <2>1. PICK r, p : r \in Robots /\ r = c.from /\ p = c.to
    BY <1>2
  <2>2. Knows(r, p)'
    BY <1>3, <2>1, KnowsStays
  <2> QED BY <1>1, <2>1, <2>2 DEF Knows, Same
<1>4. CASE HasSelf(c.down)
  <2>1. CASE d.down = c.down
    BY <1>4, <2>1
  <2>2. CASE /\ c.down # <<>> /\ d.down = Tail(c.down)
             /\ Head(c.down)[1] = "self" => \E e \in known'[c.from] : e.ip = c.to
    <3>1. Head(c.down) = c.down[1]
      BY <1>0, <2>2, HeadAndTail
    <3>2. c.down[1][1] # "self" => HasSelf(d.down)
      BY <1>0, <1>4, <2>2, WireLemmas
    <3> QED BY <1>1, <2>2, <3>1, <3>2 DEF Same
  <2>3. ASSUME NEW ms \in Seq(Downwards), d.down = c.down \o ms PROVE HasSelf(d.down)
    BY <1>0, <1>4, <2>3, WireGrows
  <2>4. ASSUME NEW m \in Downwards, d.down = c.down \o <<m>> PROVE HasSelf(d.down)
    <3>1. <<m>> \in Seq(Downwards)
      BY SMTT(40)
    <3> QED BY <2>3, <2>4, <3>1
  <2>5. \/ d.down = c.down
        \/ /\ c.down # <<>> /\ d.down = Tail(c.down)
           /\ Head(c.down)[1] = "self" => \E e \in known'[c.from] : e.ip = c.to
        \/ \E m \in Downwards : d.down = c.down \o <<m>>
        \/ \E ms \in Seq(Downwards) : d.down = c.down \o ms
    BY <1>0 DEF Downs
  <2> QED BY <2>1, <2>2, <2>3, <2>4, <2>5
<1> QED BY <1>1, <1>3, <1>4 DEF Greeted

LEMMA SelfFirstKept ==
  ASSUME Acquainted, [Next]_vars
  PROVE  SelfFirst'
<1> SUFFICES ASSUME NEW i \in Conns
             PROVE  \/ \E e \in known'[conn'[i].from] : e.ip = conn'[i].to
                    \/ Introduced(conn'[i].down)
  BY DEF SelfFirst, Knows, Introduced
<1> DEFINE c == conn[i]
           d == conn'[i]
<1>0. Typed /\ Downs(i) /\ c \in Objects /\ Stage(c) /\ c.down \in Seq(Downwards) /\ Introduced(<<>>)
  BY NextMoves, DownIs, WireLemmas DEF Acquainted, Typed, TypeOK, Stages, Objects
<1>1. CASE d.down = <<>>
  BY <1>0, <1>1
<1>2. CASE Same(i) /\ d.down # <<>> /\ c.from \in Robots /\ Knows(c.from, c.to)
  <2>1. PICK r, p : r \in Robots /\ r = c.from /\ p = c.to
    BY <1>2, Zenon
  <2>2. Knows(r, p)'
    BY <1>0, <1>2, <2>1, KnowsStays, SMTT(40)
  <2> QED BY <1>2, <2>1, <2>2 DEF Knows, Same
<1>4. CASE Same(i) /\ Introduced(c.down)
  <2>1. CASE d.down = c.down
    BY <1>4, <2>1
  <2>2. ASSUME NEW n \in 0 .. Len(c.down), d.down = SubSeq(c.down, 1, n) PROVE Introduced(d.down)
    BY <1>0, <1>4, <2>2, WireLemmas
  <2>3. CASE /\ c.down # <<>> /\ d.down = Tail(c.down)
             /\ Head(c.down)[1] = "self" => \E e \in known'[c.from] : e.ip = c.to
    <3>1. Head(c.down) = c.down[1]
      BY <1>0, <2>3, HeadAndTail
    <3>2. c.down[1][1] # "self" => Introduced(d.down)
      BY <1>0, <1>4, <2>3, WireLemmas
    <3> QED BY <1>4, <2>3, <3>1, <3>2 DEF Same
  <2>4. ASSUME NEW m \in Downwards, d.down = c.down \o <<m>>, c.client = "open", c.to \in Robots,
               Task(c.to, "check"), Head(work[c.to]).conn = i
        PROVE  \/ \E e \in known'[d.from] : e.ip = d.to
               \/ Introduced(d.down)
    <3>1. AtWork(c.to, i)
      BY <2>4 DEF AtWork, Task
    <3>2. Greeted(i)
      BY <2>4, <3>1 DEF Acquainted, Introductions, PortsGreeted
    <3>3. <<m>> \in Seq(Downwards)
      OBVIOUS
    <3>4. CASE HasSelf(c.down)
      BY <1>0, <1>4, <2>4, <3>3, <3>4, WireGrows
    <3>5. CASE Knows(c.from, c.to) /\ c.from \in Robots
      BY <1>1, <1>2, <1>4, <3>5
    <3>6. c.from \in Robots
      BY <1>0, <2>4 DEF Stage
    <3> QED BY <2>4, <3>2, <3>4, <3>5, <3>6 DEF Greeted
  <2>5. ASSUME NEW ms \in Seq(Downwards), \A j \in DOMAIN ms : ms[j][1] # "data",
               d.down = c.down \o ms
        PROVE  Introduced(d.down)
    BY <1>0, <1>4, <2>5, WireGrows
  <2> QED BY <1>0, <1>1, <2>1, <2>2, <2>3, <2>4, <2>5, Zenon DEF Downs
<1>5. Knows(c.from, c.to) \/ Introduced(c.down)
  BY DEF Acquainted, Introductions, SelfFirst
<1>6. Same(i) \/ d.down = <<>>
  BY <1>0 DEF Downs
<1>3. CASE c.from \notin Robots
  <2>1. c.down = <<>>
    BY <1>0, <1>3 DEF Stage, NoConn
  <2> QED BY <1>0, <1>6, <1>1, <1>4, <2>1
<1> QED BY <1>1, <1>2, <1>3, <1>4, <1>5, <1>6

LEMMA GreetKnows ==
  ASSUME Typed, [Next]_vars, NEW r \in Robots, Greet(r), NEW i \in Conns, Head(work[r]).conn = i,
         conn[i].server = "open"
  PROVE  \E e \in known'[r] : e.ip = conn[i].from
<1> DEFINE t == Head(work[r])
           ip == conn[i].from
           table == ConnectionInfo(r, ip, t.hull, i)
<1>1. TypeOK /\ Tables /\ Stage(conn[i]) /\ ip \in Hosts /\ i \in Ports
  BY PortTypes DEF Typed, Stages, TypeOK, Objects
<1>2. work[r] # <<>> /\ t.do = "greet" /\ t \in Greetings /\ Held(r, t)
  BY HeadHeld DEF Greet, Task
<1>3. t.hull \in Hulls /\ conn[i].to = r /\ (t.was => Knows(r, ip))
  BY <1>2 DEF Held, Greetings, Serves
<1>4. ip # r
  BY <1>1, <1>3 DEF Stage, NoConn
<1>5. known' = IF t.was THEN known ELSE [known EXCEPT ![r] = table]
  BY DEF Greet
<1>6. \E e \in table : e.ip = ip
  BY <1>1, <1>3, <1>4, InfoIs DEF Tables
<1> HIDE DEF table, t
<1>7. CASE t.was
  BY <1>3, <1>5, <1>7 DEF Knows
<1>8. CASE ~t.was
  <2>1. known'[r] = table
    BY <1>1, <1>5, <1>8 DEF TypeOK
  <2> QED BY <1>6, <2>1
<1> QED BY <1>7, <1>8

(* What Registered says of one connection.                                  *)
RegisteredOne(i) ==
  \/ conn[i].up # <<>> /\ conn[i].up[1][1] = "register"
  \/ Awaited(conn[i].to, i)
  \/ Knows(conn[i].to, conn[i].from)

LEMMA RegisteredKept ==
  ASSUME Acquainted, [Next]_vars
  PROVE  Registered'
<1> SUFFICES ASSUME NEW i \in Conns, conn'[i].server = "open"
             PROVE  RegisteredOne(i)'
  BY DEF Registered, RegisteredOne
<1> DEFINE c == conn[i]
           d == conn'[i]
<1>0. /\ Typed /\ Ups(i) /\ c \in Objects /\ Stage(c) /\ c.up \in Seq(Upwards)
      /\ d \in Objects /\ Stage(d)
  BY NextMoves, UpIs, NextTyped DEF Acquainted, Typed, TypeOK, Stages, Objects
<1>1. CASE Opens(i) /\ Same(i) /\ d.up = c.up
  <2>1. c.up # <<>> /\ c.up[1] \in {"register"} \X Hulls
    BY <1>0, <1>1 DEF Opens, Stage
  <2> QED BY <1>1, <2>1 DEF RegisteredOne
<1>2. CASE Same(i) /\ c.server = "open"
  <2>a. PICK r \in Robots : r = c.to
    BY <1>0, <1>2 DEF Stage
  <2>0. PICK p : r = c.to /\ p = c.from
    BY <2>a
  <2>1. CASE c.up # <<>> /\ c.up[1][1] = "register"
    <3>1. ASSUME NEW ms \in Seq(Upwards), d.up = c.up \o ms
          PROVE  d.up # <<>> /\ d.up[1][1] = "register"
      BY <1>0, <2>1, <3>1, FirstStays
    <3>2. ASSUME NEW q \in Robots, c.to = q, Head(c.up)[1] = "register" => Awaited(q, i)'
          PROVE  RegisteredOne(i)'
      <4>1. Head(c.up) = c.up[1]
        BY <1>0, <2>1, HeadAndTail
      <4> QED BY <1>2, <2>1, <3>2, <4>1 DEF Same, RegisteredOne
    <3>3. ~Opens(i)
      BY <1>0, <1>2 DEF Opens, Stage
    <3>4. d.up # <<>> /\ d.up[1][1] = "register" => RegisteredOne(i)'
      BY DEF RegisteredOne
    <3>5. \/ \E ms \in Seq(Upwards) : d.up = c.up \o ms
          \/ \E q \in Robots : c.to = q /\ (Head(c.up)[1] = "register" => Awaited(q, i)')
      BY <1>0, <3>3 DEF Ups
    <3> QED BY <3>1, <3>2, <3>4, <3>5
  <2>2. CASE Knows(c.to, c.from)
    <3>1. Knows(r, p)'
      BY <1>0, <2>0, <2>2, KnowsStays
    <3> QED BY <1>2, <2>0, <3>1 DEF Knows, Same, RegisteredOne
  <2>3. CASE Awaited(c.to, i)
    <3>1. Awaited(r, i)' \/ Restart(r) \/ (Greet(r) /\ Head(work[r]).conn = i)
      BY <1>0, <2>0, <2>3, AwaitedStays
    <3>2. ~Restart(r)
      BY <1>0, <2>0, RestartEnds
    <3>3. CASE Awaited(r, i)'
      BY <1>2, <2>0, <3>3 DEF Same, RegisteredOne
    <3>4. CASE Greet(r) /\ Head(work[r]).conn = i
      <4>1. \E e \in known'[r] : e.ip = conn[i].from
        BY <1>0, <1>2, <3>4, GreetKnows
      <4> QED BY <1>2, <2>0, <4>1 DEF Same, Knows, RegisteredOne
    <3> QED BY <3>1, <3>2, <3>3, <3>4
  <2> QED BY <1>2, <2>1, <2>2, <2>3 DEF Acquainted, Introductions, Registered
<1> QED BY <1>0, <1>1, <1>2 DEF Ups

(* Where a port that a table holds has come from.                           *)
LEMMA NotedIs ==
  ASSUME Typed, [Next]_vars, NEW r \in Robots, NEW i \in Conns, Noted(r, i)'
  PROVE  \/ Noted(r, i)
         \/ /\ conn[i].to = r /\ conn[i].server = "open"
            /\ AtWork(r, i) \/ Greets(i)
<1>0. TypeOK /\ Tables
  BY SMTT(40) DEF Typed
<1>1. CASE UNCHANGED known
  BY <1>1, SMTT(40) DEF Noted
<1>2. ASSUME NEW q \in Robots, Restart(q) PROVE Noted(r, i)
  <2>1. known' = [known EXCEPT ![q] = {}]
    BY <1>2, Zenon DEF Restart
  <2> QED BY <1>0, <2>1, SMTT(40) DEF Noted, TypeOK
<1>3. ASSUME NEW q \in Robots, NEW ip \in Hosts, NEW number \in Hulls, NEW port \in Ports,
             Notes(q, ip, number, port)
      PROVE  \/ Noted(r, i)
             \/ /\ conn[i].to = r /\ conn[i].server = "open"
                /\ AtWork(r, i) \/ Greets(i)
  <2> DEFINE t == ConnectionInfo(q, ip, number, port)
  <2>1. \A d \in t : d \in known[q] \/ d.port = port \/ \E e \in known[q] : e.port = d.port
    BY <1>0, InfoIs DEF Tables
  <2>2. known' = [known EXCEPT ![q] = t]
    BY <1>3 DEF Notes
  <2> HIDE DEF t
  <2>3. CASE q # r
    BY <1>0, <2>2, <2>3 DEF Noted, TypeOK
  <2>4. CASE q = r
    <3>1. known'[r] = t
      BY <1>0, <2>2, <2>4 DEF TypeOK
    <3>2. Noted(r, i) \/ port = i
      BY <2>1, <2>4, <3>1 DEF Noted
    <3> QED BY <1>3, <2>4, <3>2 DEF Notes, AtWork
  <2> QED BY <2>3, <2>4
<1> QED BY <1>1, <1>2, <1>3, NextNotes

LEMMA UnnotedKept ==
  ASSUME Acquainted, [Next]_vars
  PROVE  Unnoted'
<1> SUFFICES ASSUME NEW i \in Conns, conn'[i].client \in Early, NEW r \in Robots, Noted(r, i)'
             PROVE  FALSE
  BY DEF Unnoted
<1> DEFINE c == conn[i]
           d == conn'[i]
<1>0. Typed /\ c \in Objects /\ Stage(c) /\ Moves(i)
  BY NextMoves DEF Acquainted, Typed, TypeOK, Stages
<1>1. Makes(i) \/ c.client \in Early
  <2>1. CASE Makes(i) \/ Lists(i) \/ Begins(i) \/ Opens(i) \/ d = c
    BY <2>1 DEF Lists, Begins, Opens, Early
  <2>2. CASE Sends(i) \/ Greets(i) \/ Hooks(i) \/ Reads(i) \/ Breaks(i) \/ Closes(i)
    <3>1. ~Opens(i) => c.client = d.client \/ d.client \notin Early
      <4>1. CASE Hooks(i)
        <5>1. PICK h : d = [c EXCEPT !.hooks = h]
          BY <4>1 DEF Hooks
        <5> QED BY <1>0, <5>1 DEF Objects
      <4>2. CASE Reads(i)
        <5>1. d = [c EXCEPT !.down = Tail(@)] \/ d = [c EXCEPT !.up = Tail(@)]
          BY <4>2 DEF Reads
        <5> QED BY <1>0, <5>1 DEF Objects
      <4>3. CASE Sends(i) \/ Greets(i)
        <5>1. \E q, ms : d = Posted(q, i, ms) \/ \E due : d = [Posted(q, i, ms) EXCEPT !.due = due]
          BY <4>3 DEF Sends, Greets
        <5>2. PICK q, ms : d = Posted(q, i, ms) \/ \E due : d = [Posted(q, i, ms) EXCEPT !.due = due]
          BY <5>1
        <5>3. Posted(q, i, ms) \in {c, [c EXCEPT !.up = @ \o ms], [c EXCEPT !.down = @ \o ms]}
          BY DEF Posted
        <5> QED BY <1>0, <5>2, <5>3, ZenonT(60) DEF Objects
      <4>4. CASE Breaks(i)
        BY <1>0, <4>4, Zenon DEF Breaks, Objects, Early
      <4>5. CASE Closes(i)
        <5>1. PICK x : /\ d = Ended(x)
                       /\ \/ x = [c EXCEPT !.client = "gone", !.down = <<>>, !.hooks = <<>>, !.due = <<>>]
                          \/ x = [c EXCEPT !.client = "gone"]
                          \/ x = [c EXCEPT !.server = "gone", !.up = <<>>]
                          \/ x = [c EXCEPT !.server = "gone"]
          BY <4>5 DEF Closes
        <5> HIDE DEF c, d
        <5>2. x.client = "gone" \/ x.client = c.client
          BY <1>0, <5>1 DEF Objects
        <5>3. d = x \/ d = NoConn
          BY <5>1 DEF Ended
        <5> QED BY <5>2, <5>3 DEF NoConn, Early
      <4> QED BY <2>2, <4>1, <4>2, <4>3, <4>4, <4>5
    <3> QED BY <2>2, <3>1 DEF Opens, Early
  <2> QED BY <1>0, <2>1, <2>2 DEF Moves
<1>2. ~Noted(r, i)
  BY <1>1 DEF Makes, Noted, Acquainted, Introductions, Unnoted
<1>3. c.server # "open"
  BY <1>0, <1>1 DEF Makes, NoConn, Stage, Early
<1> QED BY <1>0, <1>2, <1>3, NotedIs

LEMMA PortsGreetedKept ==
  ASSUME Acquainted, [Next]_vars
  PROVE  PortsGreeted'
<1> SUFFICES ASSUME NEW r \in Robots, NEW i \in Conns, conn'[i].to = r, conn'[i].client = "open",
                    Noted(r, i)' \/ AtWork(r, i)'
             PROVE  Greeted(i)'
  BY DEF PortsGreeted, Greeted
<1> DEFINE c == conn[i]
           d == conn'[i]
<1>0. Typed /\ Waiting /\ c \in Objects /\ Stage(c) /\ Downs(i)
  BY NextMoves, DownIs DEF Acquainted, Typed, TypeOK, Stages
<1>1. Same(i) /\ c.to = r /\ (c.client = "open" \/ Opens(i))
  BY <1>0 DEF Downs, Same
<1>2. CASE Greets(i) /\ c.client = "open"
  <2>1. PICK q \in Robots : /\ c.to = q /\ c.server = "open"
                            /\ \E ms \in Seq(TableNews(q)) : d = Posted(q, i, ms \o <<<<"self", hull[q]>>>>)
    BY <1>2 DEF Greets
  <2>2. PICK ms \in Seq(TableNews(q)) : d = Posted(q, i, ms \o <<<<"self", hull[q]>>>>)
    BY <2>1
  <2>3. c.from # q
    BY <1>0, <2>1 DEF Stage, NoConn
  <2>4. d.down = c.down \o (ms \o <<<<"self", hull[q]>>>>)
    BY <1>0, <1>2, <2>1, <2>2, <2>3 DEF Posted, Objects
  <2>5. ms \in Seq(Downwards) /\ <<"self", hull[q]>> \in Downwards
    <3>1. TypeOK
      BY <1>0 DEF Typed
    <3>2. TableNews(q) \subseteq Downwards /\ <<"self", hull[q]>> \in Downwards
      BY <3>1 DEF TypeOK, TableNews, Downwards, Carried, Endpoints
    <3> QED BY <2>2, <3>2
  <2> DEFINE m == <<"self", hull[q]>>
             n == <<m>>
             u == ms \o n
  <2>6. n \in Seq(Downwards) /\ HasSelf(n)
    BY <2>5 DEF HasSelf
  <2>7. u \in Seq(Downwards) /\ HasSelf(u)
    <3> HIDE DEF n
    <3> QED BY <2>5, <2>6, WireGrows, ConcatProperties
  <2>8. HasSelf(c.down \o u)
    <3>1. c.down \in Seq(Downwards)
      BY <1>0 DEF Objects
    <3> HIDE DEF u, c
    <3> QED BY <2>7, <3>1, WireGrows
  <2> QED BY <2>4, <2>8 DEF Greeted
<1>3. CASE Noted(r, i) \/ AtWork(r, i)
  <2>1. Greeted(i)
    BY <1>1, <1>3 DEF Acquainted, Introductions, PortsGreeted
  <2>2. CASE c.client = "open"
    BY <1>0, <2>1, <2>2, GreetedStays
  <2>3. CASE Opens(i)
    <3>1. c.client = "connecting" /\ c.server = "none" /\ c.from # r
      BY <1>0, <1>1, <2>3 DEF Opens, Stage
    <3>2. ~Noted(r, i)
      BY <3>1 DEF Acquainted, Introductions, Unnoted, Early
    <3>3. ~AtWork(r, i)
      <4>1. ASSUME AtWork(r, i) PROVE FALSE
        <5>1. Held(r, Head(work[r])) /\ Head(work[r]).do # "greet" /\ Head(work[r]).do # "reach"
              /\ Head(work[r]).conn = i
          BY <1>0, <4>1, HeadHeld DEF AtWork
        <5> QED BY <3>1, <5>1 DEF Held, Calls, Serves
      <4> QED BY <4>1
    <3> QED BY <1>3, <3>2, <3>3
  <2> QED BY <1>1, <2>2, <2>3
<1>4. CASE AtWork(r, i)' /\ ~AtWork(r, i)
  <2>1. \/ UNCHANGED conn /\ (Calls(r, i) \/ Noted(r, i))
        \/ \E ip : d = Created(r, ip)
    BY <1>0, <1>4, AtWorkIs DEF Noted
  <2>2. ~Calls(r, i)
    BY <1>0, <1>1 DEF Calls, Stage
  <2>3. d.client = "open"
    OBVIOUS
  <2> QED BY <1>3, <2>1, <2>2, <2>3, Zenon DEF Created, NoConn
<1>5. CASE Noted(r, i)' /\ ~Noted(r, i) /\ ~AtWork(r, i)
  <2>1. c.server = "open" /\ Greets(i)
    BY <1>0, <1>5, NotedIs
  <2>2. c.client = "open"
    BY <1>0, <1>1, <2>1 DEF Opens, Stage
  <2> QED BY <1>2, <2>1, <2>2
<1> QED BY <1>3, <1>4, <1>5

LEMMA AcquaintedKept == Acquainted /\ [Next]_vars => Acquainted'
BY NextTyped, WaitingKept, RegisteredKept, SelfFirstKept, UnnotedKept, PortsGreetedKept
   DEF Acquainted, Introductions

LEMMA InitAcquainted == Init => Acquainted
<1> SUFFICES ASSUME Init PROVE Acquainted
  OBVIOUS
<1>1. \A i \in Conns : conn[i] = NoConn
  BY DEF Init
<1>2. \A r \in Robots : known[r] = {} /\ work[r] = <<>>
  BY DEF Init
<1>3. \A i \in Conns : Introduced(conn[i].down)
  BY <1>1 DEF NoConn, Introduced
<1>4. Registered /\ SelfFirst /\ Unnoted /\ Waiting
  BY <1>1, <1>2, <1>3 DEF Registered, SelfFirst, Unnoted, Noted, Waiting, NoConn
<1>5. PortsGreeted
  BY <1>2 DEF PortsGreeted, Noted, AtWork
<1> QED BY <1>4, <1>5, InitTyped DEF Acquainted, Introductions

(* Whenever a server handles a script's message, it knows the robot at the  *)
(* other end (MailboxServer::onNewConnection, onNewData): through handshakes*)
(* that cross, answers over connections that others have made, breaks and   *)
(* restarts.                                                                *)
THEOREM HandshakeComesFirst == Spec => []RegisteredFirst
<1>1. ASSUME Acquainted, NEW r \in Robots, NEW i \in Conns, Gets(r, i, "data"),
             conn[i].to = r => conn[i].server = "open"
      PROVE  Knows(r, OtherEnd(r, i))
  <2>1. Typed /\ TypeOK /\ Stages /\ work[r] = <<>> /\ Incoming(r, i) # <<>>
        /\ Head(Incoming(r, i))[1] = "data"
    BY <1>1 DEF Acquainted, Typed, Gets, Free
  <2>2. CASE /\ conn[i].from = r /\ Incoming(r, i) = conn[i].down
             /\ Head(conn[i].down) = conn[i].down[1]
    <3>1. conn[i].down # <<>> /\ conn[i].down[1][1] = "data" /\ conn[i].down \in Seq(Downwards)
      BY <2>1, <2>2 DEF TypeOK, Objects
    <3>2. 1 \in DOMAIN conn[i].down /\ ~\E k \in 1 .. 1 - 1 : TRUE
      BY <3>1
    <3>3. ~Introduced(conn[i].down)
      BY <3>1, <3>2 DEF Introduced
    <3> QED BY <1>1, <2>2, <3>3 DEF Acquainted, Introductions, SelfFirst, OtherEnd
  <2>3. CASE /\ conn[i].from # r /\ conn[i].to = r /\ Incoming(r, i) = conn[i].up
             /\ Head(conn[i].up) = conn[i].up[1]
    BY <1>1, <2>1, <2>3 DEF Acquainted, Introductions, Registered, Awaited, OtherEnd
  <2> QED BY <2>1, <2>2, <2>3, IncomingIs
<1>2. Acquainted => RegisteredFirst
  BY <1>1 DEF RegisteredFirst
<1> QED BY <1>2, InitAcquainted, AcquaintedKept, PTL DEF Spec
-----------------------------------------------------------------------------
(* What is told is true                                                     *)

(* What q may say: its own messages, a robot's number with its address, and *)
(* its own number.                                                          *)
Said(q) ==
  {m \in Upwards \cup Downwards :
     /\ m[1] = "data" => m[2] \in DOMAIN sent /\ sent[m[2]].by = q
     /\ m[1] = "connection" => m[3][1] = m[2]
     /\ m[1] \in {"self", "register"} => m[2][1] = q}
CallsOf(q, p) == {x \in Hulls \X Carried : x[1][1] = p /\ x[2] \in Said(q)}

TrueWire(c) ==
  /\ c.up \in Seq(Said(c.from)) /\ c.down \in Seq(Said(c.to))
  /\ c.due \in Seq(CallsOf(c.from, c.to))
  /\ c.server = "none" => c.hooks \in Seq(CallsOf(c.from, c.to))
TrueTask(r, t) ==
  IF t.do = "greet"
  THEN t.hull[1] = conn[t.conn].from
  ELSE /\ t.hull[1] = t.ip /\ t.ip # Nobody /\ t.msg \in Said(r)
       /\ t.do # "reach" => OtherEnd(r, t.conn) = t.ip
TrueTasks(r) == {t \in Posts \cup Greetings : TrueTask(r, t)}
TrueLetters ==
  {x \in [m : DOMAIN sent, sender : Hulls \cup {NoHull}] :
     x.sender = NoHull \/ x.sender[1] = sent[x.m].by}

TrueTables == \A r \in Robots : \A e \in known[r] : e.hull[1] = e.ip
Truth ==
  /\ \A r \in Robots : hull[r][1] = r
  /\ TrueTables
  /\ \A i \in Conns : TrueWire(conn[i])
  /\ \A r \in Robots : work[r] \in Seq(TrueTasks(r))
  /\ \A r \in Robots : inbox[r] \in Seq(TrueLetters)
Spared == reset = {} /\ OnlyRobotsKnown
Truthful == Typed /\ (Spared => Truth)

LEMMA Both ==
  ASSUME NEW S, NEW T, NEW s \in Seq(S), s \in Seq(T)
  PROVE  s \in Seq(S \cap T)
<1>1. Len(s) \in Nat /\ s \in [1 .. Len(s) -> S \cap T]
  <2>1. s \in [1 .. Len(s) -> S] /\ s \in [1 .. Len(s) -> T] /\ Len(s) \in Nat
    BY LenProperties
  <2> QED BY <2>1
<1> QED BY <1>1

LEMMA SentGrows ==
  ASSUME Typed, [Next]_vars
  PROVE  /\ \A j \in DOMAIN sent : j \in DOMAIN sent' /\ sent'[j] = sent[j]
         /\ \A r \in Robots, entries \in SUBSET Endpoints : Send(r, entries) =>
              Len(sent) + 1 \in DOMAIN sent' /\ sent'[Len(sent) + 1].by = r
<1>0. TypeOK /\ sent \in Seq([by : Robots, to : SUBSET Hosts]) /\ Len(sent) \in Nat
      /\ DOMAIN sent = 1 .. Len(sent)
  BY LenProperties DEF Typed, TypeOK
<1>1. ASSUME NEW x, sent' = Append(sent, x)
      PROVE  /\ \A j \in DOMAIN sent : j \in DOMAIN sent' /\ sent'[j] = sent[j]
             /\ Len(sent) + 1 \in DOMAIN sent' /\ sent'[Len(sent) + 1] = x
  <2>1. sent \in Seq([by : Robots, to : SUBSET Hosts] \cup {x})
        /\ x \in [by : Robots, to : SUBSET Hosts] \cup {x}
    BY <1>0, SeqMonotonic, Zenon
  <2>2. DOMAIN Append(sent, x) = 1 .. Len(sent) + 1
        /\ Append(sent, x)[Len(sent) + 1] = x
        /\ \A j \in 1 .. Len(sent) : Append(sent, x)[j] = sent[j]
    BY <2>1, AppendProperties, LenProperties
  <2> QED BY <1>0, <1>1, <2>2
<1>2. ASSUME NEW r \in Robots, NEW entries, Send(r, entries)
      PROVE  /\ \A j \in DOMAIN sent : j \in DOMAIN sent' /\ sent'[j] = sent[j]
             /\ Len(sent) + 1 \in DOMAIN sent' /\ sent'[Len(sent) + 1].by = r
  BY <1>1, <1>2, SMTT(40) DEF Send
<1>3. UNCHANGED sent \/ \E r \in Robots : \E entries : Send(r, entries)
  BY ZenonT(60) DEF Next, vars, Scripts, Server, Wires, Faults, ConnectTo, SetHullNumber, Reach,
                    Check,
         Hook, Greet, Connected, Started, ConnectionClosed, NewConnection, OnConnectionInfo,
         OnNewData, Connect, Open, Break, Restart
<1> QED BY <1>2, <1>3

LEMMA SaidGrows ==
  ASSUME Typed, [Next]_vars
  PROVE  /\ \A q : Said(q) \subseteq Said(q)'
         /\ \A q, p : CallsOf(q, p) \subseteq CallsOf(q, p)'
         /\ TrueLetters \subseteq TrueLetters'
<1>1. \A j \in DOMAIN sent : j \in DOMAIN sent' /\ sent'[j] = sent[j]
  BY SentGrows
<1>2. \A q : Said(q) \subseteq Said(q)'
  BY <1>1 DEF Said
<1>3. \A q, p : CallsOf(q, p) \subseteq CallsOf(q, p)'
  BY <1>2 DEF CallsOf
<1>4. TrueLetters \subseteq TrueLetters'
  BY <1>1 DEF TrueLetters
<1> QED BY <1>2, <1>3, <1>4

LEMMA WireStays ==
  ASSUME Typed, [Next]_vars, NEW CONSTANT c, TrueWire(c)
  PROVE  TrueWire(c)'
<1>1. Said(c.from) \subseteq Said(c.from)' /\ Said(c.to) \subseteq Said(c.to)'
      /\ CallsOf(c.from, c.to) \subseteq CallsOf(c.from, c.to)'
  BY SaidGrows
<1> QED BY <1>1, SeqMonotonic DEF TrueWire

LEMMA PostedTrue ==
  ASSUME Typed, NEW i \in Conns, TrueWire(conn[i]), NEW r, NEW ms \in Seq(Said(r)),
         conn[i].from = r \/ conn[i].to = r
  PROVE  /\ TrueWire(Posted(r, i, ms))
         /\ Posted(r, i, ms) \in [from : {conn[i].from}, to : {conn[i].to},
              client : {conn[i].client}, server : {conn[i].server},
              up : Seq(Said(conn[i].from)), down : Seq(Said(conn[i].to)),
              hooks : {conn[i].hooks}, due : {conn[i].due}]
<1> DEFINE c == conn[i]
<1>1. c \in Objects /\ c.up \in Seq(Said(c.from)) /\ c.down \in Seq(Said(c.to))
  BY DEF Typed, TypeOK, TrueWire
<1>2. \/ Posted(r, i, ms) = [c EXCEPT !.up = @ \o ms] /\ c.from = r
      \/ Posted(r, i, ms) = [c EXCEPT !.down = @ \o ms] /\ c.to = r
      \/ Posted(r, i, ms) = c
  BY DEF Posted
<1> HIDE DEF c
<1>3. /\ c.from = r => c.up \o ms \in Seq(Said(c.from))
      /\ c.to = r => c.down \o ms \in Seq(Said(c.to))
  BY <1>1, Joined
<1> DEFINE p == Posted(r, i, ms)
<1>4. p \in [from : {c.from}, to : {c.to}, client : {c.client}, server : {c.server},
              up : Seq(Said(c.from)), down : Seq(Said(c.to)), hooks : {c.hooks}, due : {c.due}]
  BY <1>1, <1>2, <1>3 DEF Objects
<1>5. TrueWire(p)
  <2> HIDE DEF p
  <2> QED BY <1>4 DEF TrueWire, c
<1> QED BY <1>4, <1>5 DEF c

LEMMA HeadTrue ==
  ASSUME Typed, Truth, NEW r \in Robots, work[r] # <<>>
  PROVE  /\ TrueTask(r, Head(work[r])) /\ Held(r, Head(work[r]))
         /\ Head(work[r]).do # "greet" => Head(work[r]) \in Posts
         /\ Head(work[r]).do = "greet" => Head(work[r]) \in Greetings
<1>1. work[r] \in Seq(TrueTasks(r))
  BY DEF Truth
<1>2. Head(work[r]) \in TrueTasks(r)
  BY <1>1, HeadAndTail
<1> QED BY <1>2, HeadHeld DEF TrueTasks

LEMMA SendTrue ==
  ASSUME Typed, Truth, NEW i \in Conns, Sends(i)
  PROVE  \E r \in Robots : \E m \in Said(r) : \E due \in Seq(CallsOf(conn[i].from, conn[i].to)) :
           /\ conn[i].from = r \/ conn[i].to = r
           /\ conn'[i] = [Posted(r, i, <<m>>) EXCEPT !.due = due]
<1> DEFINE c == conn[i]
<1>1. c.due \in Seq(CallsOf(c.from, c.to))
  BY DEF Truth, TrueWire
<1>2. ASSUME NEW r \in Robots, Task(r, "check"), Head(work[r]).conn = i, Calls(r, i) \/ Serves(r, i)
      PROVE  Head(work[r]).msg \in Said(r) /\ (c.from = r \/ c.to = r)
  BY <1>2, HeadTrue DEF Task, TrueTask, Calls, Serves
<1>3. ASSUME NEW r \in Robots, c.from = r, c.due # <<>>
      PROVE  Head(c.due)[2] \in Said(r) /\ Tail(c.due) \in Seq(CallsOf(c.from, c.to))
  BY <1>1, <1>3, HeadAndTail DEF CallsOf
<1> QED BY <1>1, <1>2, <1>3, ZenonT(60) DEF Sends

LEMMA GreetTrue ==
  ASSUME Typed, Truth, NEW i \in Conns, Greets(i)
  PROVE  \E r \in Robots : \E ms \in Seq(Said(r)) :
           conn[i].to = r /\ conn'[i] = Posted(r, i, ms)
<1>1. PICK r \in Robots : /\ conn[i].to = r
                         /\ \E ms \in Seq(TableNews(r)) :
                              conn'[i] = Posted(r, i, ms \o <<<<"self", hull[r]>>>>)
  BY DEF Greets
<1>2. PICK ms \in Seq(TableNews(r)) : conn'[i] = Posted(r, i, ms \o <<<<"self", hull[r]>>>>)
  BY <1>1
<1>3. TypeOK /\ hull[r] \in Hulls /\ hull[r][1] = r /\ known[r] \subseteq Endpoints
  BY DEF Typed, TypeOK, Truth
<1>4. TableNews(r) \subseteq Said(r)
  <2> SUFFICES ASSUME NEW e \in known[r] PROVE <<"connection", e.ip, e.hull>> \in Said(r)
    BY DEF TableNews
  <2>1. e.hull[1] = e.ip /\ e.ip \in Hosts /\ e.hull \in Hulls
    BY <1>3 DEF Truth, TrueTables, Endpoints
  <2> QED BY <2>1 DEF Said, Upwards, Carried
<1>5. <<"self", hull[r]>> \in Said(r)
  BY <1>3 DEF Said, Downwards
<1>6. ms \in Seq(Said(r))
  BY <1>4, Wider
<1>7. ms \o <<<<"self", hull[r]>>>> \in Seq(Said(r))
  BY <1>5, <1>6, JoinedOne
<1> QED BY <1>1, <1>2, <1>7

LEMMA HookTrue ==
  ASSUME Typed, Truth, NEW i \in Conns, Hooks(i), conn[i].server = "none"
  PROVE  \E call \in CallsOf(conn[i].from, conn[i].to) :
           conn'[i] = [conn[i] EXCEPT !.hooks = Append(@, call)]
<1>1. PICK r \in Robots :
        /\ Task(r, "hook") /\ Head(work[r]).conn = i
        /\ conn'[i] = [conn[i] EXCEPT !.hooks = Append(@, <<Head(work[r]).hull, Head(work[r]).msg>>)]
  BY DEF Hooks
<1> DEFINE t == Head(work[r])
<1>2. t \in Posts /\ t.hull \in Hulls /\ t.msg \in Carried /\ t.do = "hook"
      /\ TrueTask(r, t) /\ Held(r, t)
  BY <1>1, HeadTrue DEF Task, Posts
<1>3. conn[i].from = r
  BY <1>1, <1>2 DEF Held, Calls, Serves
<1>4. t.hull[1] = conn[i].to /\ t.msg \in Said(r)
  BY <1>1, <1>2, <1>3 DEF TrueTask, OtherEnd
<1> DEFINE call == <<t.hull, t.msg>>
<1>5. call \in CallsOf(conn[i].from, conn[i].to)
  BY <1>2, <1>3, <1>4 DEF CallsOf
<1> QED BY <1>1, <1>5

LEMMA WireTrue ==
  ASSUME Typed, Truth, [Next]_vars, NEW i \in Conns
  PROVE  TrueWire(conn'[i])
<1> DEFINE c == conn[i]
           d == conn'[i]
           Goal == TrueWire(d)
<1> SUFFICES Goal
  OBVIOUS
<1>0. /\ c \in Objects /\ Stage(c) /\ TrueWire(c) /\ Moves(i)
      /\ c.up \in Seq(Said(c.from)) /\ c.down \in Seq(Said(c.to))
      /\ c.due \in Seq(CallsOf(c.from, c.to))
      /\ c.server = "none" => c.hooks \in Seq(CallsOf(c.from, c.to))
  BY NextMoves DEF Typed, TypeOK, Stages, Truth, TrueWire
<1>a. \A S : <<>> \in Seq(S)
  OBVIOUS
<1>b. TrueWire(NoConn)
  BY <1>a DEF TrueWire, NoConn
<1>c. ASSUME d.from = c.from, d.to = c.to, d.up \in Seq(Said(c.from)), d.down \in Seq(Said(c.to)),
             d.due \in Seq(CallsOf(c.from, c.to)),
             d.server = "none" => d.hooks \in Seq(CallsOf(c.from, c.to))
      PROVE  Goal
  <2> HIDE DEF c, d
  <2> QED BY <1>c DEF TrueWire
<1>1. CASE d = c
  BY <1>0, <1>1
<1>2. CASE Makes(i)
  BY <1>2, <1>a DEF Makes, Created, NoConn, TrueWire
<1>3. CASE Lists(i)
  <2>1. d = [c EXCEPT !.client = "listed"]
    BY <1>3 DEF Lists
  <2> HIDE DEF c, d
  <2> QED BY <1>0, <1>c, <2>1 DEF Objects
<1>4. CASE Begins(i)
  <2>1. d = [c EXCEPT !.client = "connecting", !.up = <<<<"register", hull[c.from]>>>>]
    BY <1>4 DEF Begins
  <2>2. c.from \in Robots /\ hull[c.from][1] = c.from /\ hull[c.from] \in Hulls
    BY <1>0, <1>4 DEF Begins, Stage, Truth, Typed, TypeOK
  <2>3. <<"register", hull[c.from]>> \in Said(c.from)
    BY <2>2 DEF Said, Upwards
  <2> HIDE DEF c, d
  <2>4. <<<<"register", hull[c.from]>>>> \in Seq(Said(c.from))
    BY <2>3, <1>0, JoinedOne
  <2> QED BY <1>0, <1>c, <2>1, <2>4 DEF Objects
<1>5. CASE Opens(i)
  <2>1. /\ d = [c EXCEPT !.client = "open", !.server = "open", !.due = c.hooks, !.hooks = <<>>]
        /\ c.server = "none"
    BY <1>0, <1>5 DEF Opens, Stage
  <2> HIDE DEF c, d
  <2> QED BY <1>0, <1>c, <2>1 DEF Objects
<1>6. CASE Sends(i)
  <2>1. PICK r, m, due :
          /\ r \in Robots
          /\ m \in Said(r) /\ due \in Seq(CallsOf(c.from, c.to)) /\ (c.from = r \/ c.to = r)
          /\ d = [Posted(r, i, <<m>>) EXCEPT !.due = due]
    BY <1>6, SendTrue, ZenonT(60)
  <2>2. <<m>> \in Seq(Said(r))
    BY <2>1
  <2> DEFINE p == Posted(r, i, <<m>>)
  <2>3. p \in [from : {c.from}, to : {c.to}, client : {c.client}, server : {c.server},
                up : Seq(Said(c.from)), down : Seq(Said(c.to)), hooks : {c.hooks}, due : {c.due}]
    BY <1>0, <2>1, <2>2, PostedTrue
  <2> HIDE DEF c, d, p
  <2> QED BY <1>0, <1>c, <2>1, <2>3 DEF p
<1>7. CASE Greets(i)
  <2>1. PICK r, ms : r \in Robots /\ ms \in Seq(Said(r)) /\ c.to = r /\ d = Posted(r, i, ms)
    BY <1>7, GreetTrue
  <2> QED BY <1>0, <2>1, PostedTrue
<1>8. CASE Hooks(i)
  <2>1. PICK h : d = [c EXCEPT !.hooks = h]
    BY <1>8 DEF Hooks
  <2>2. c.server = "none" => d.hooks \in Seq(CallsOf(c.from, c.to))
    <3>1. ASSUME c.server = "none" PROVE d.hooks \in Seq(CallsOf(c.from, c.to))
      <4>1. PICK call \in CallsOf(c.from, c.to) : d = [c EXCEPT !.hooks = Append(@, call)]
        BY <1>8, <3>1, HookTrue
      <4>2. d.hooks = Append(c.hooks, call)
        BY <1>0, <4>1 DEF Objects
      <4> QED BY <1>0, <3>1, <4>2, JoinedOne
    <3> QED BY <3>1
  <2> HIDE DEF c, d
  <2> QED BY <1>0, <1>c, <2>1, <2>2 DEF Objects
<1>9. CASE Reads(i)
  <2>1. \/ c.down # <<>> /\ d = [c EXCEPT !.down = Tail(@)]
        \/ c.up # <<>> /\ d = [c EXCEPT !.up = Tail(@)]
    BY <1>9 DEF Reads
  <2>2. /\ c.down # <<>> => Tail(c.down) \in Seq(Said(c.to))
        /\ c.up # <<>> => Tail(c.up) \in Seq(Said(c.from))
    BY <1>0, HeadAndTail
  <2> HIDE DEF c, d
  <2> QED BY <1>0, <1>c, <2>1, <2>2 DEF Objects
<1>10. CASE Breaks(i)
  <2>1. \/ \E n \in 0 .. Len(c.down) :
             d = [c EXCEPT !.client = "dead", !.down = SubSeq(@, 1, n), !.hooks = <<>>]
        \/ \E n \in 0 .. Len(c.up) : d = [c EXCEPT !.server = "dead", !.up = SubSeq(@, 1, n)]
    BY <1>10, Zenon DEF Breaks
  <2>2. /\ \A n \in 0 .. Len(c.down) : SubSeq(c.down, 1, n) \in Seq(Said(c.to))
        /\ \A n \in 0 .. Len(c.up) : SubSeq(c.up, 1, n) \in Seq(Said(c.from))
    BY <1>0, Prefix
  <2> HIDE DEF c, d
  <2>3. ASSUME NEW s \in Seq(Said(c.to)),
               d = [c EXCEPT !.client = "dead", !.down = s, !.hooks = <<>>]
        PROVE  Goal
    BY <1>0, <1>a, <1>c, <2>3 DEF Objects
  <2>4. ASSUME NEW s \in Seq(Said(c.from)), d = [c EXCEPT !.server = "dead", !.up = s]
        PROVE  Goal
    BY <1>0, <1>c, <2>4 DEF Objects
  <2> QED BY <2>1, <2>2, <2>3, <2>4, Zenon
<1>11. CASE Closes(i)
  <2>1. PICK x : /\ d = Ended(x)
                 /\ \/ x = [c EXCEPT !.client = "gone", !.down = <<>>, !.hooks = <<>>, !.due = <<>>]
                    \/ x = [c EXCEPT !.client = "gone"]
                    \/ x = [c EXCEPT !.server = "gone", !.up = <<>>]
                    \/ x = [c EXCEPT !.server = "gone"]
    BY <1>11 DEF Closes
  <2>2. d = x \/ d = NoConn
    BY <2>1 DEF Ended
  <2> HIDE DEF c, d
  <2>3. CASE d = [c EXCEPT !.client = "gone", !.down = <<>>, !.hooks = <<>>, !.due = <<>>]
    BY <1>0, <1>a, <1>c, <2>3 DEF Objects
  <2>4. CASE d = [c EXCEPT !.client = "gone"]
    BY <1>0, <1>c, <2>4 DEF Objects
  <2>5. CASE d = [c EXCEPT !.server = "gone", !.up = <<>>]
    BY <1>0, <1>a, <1>c, <2>5 DEF Objects
  <2>6. CASE d = [c EXCEPT !.server = "gone"]
    BY <1>0, <1>c, <2>6 DEF Objects
  <2> QED BY <1>b, <2>1, <2>2, <2>3, <2>4, <2>5, <2>6
<1> QED
  BY <1>0, <1>1, <1>2, <1>3, <1>4, <1>5, <1>6, <1>7, <1>8, <1>9, <1>10, <1>11 DEF Moves

LEMMA TaskStays ==
  ASSUME Typed, Typed', [Next]_vars, NEW r \in Robots, work'[r] # <<>>,
         NEW CONSTANT t \in Posts \cup Greetings, Held(r, t), TrueTask(r, t)
  PROVE  TrueTask(r, t)'
<1>1. CASE t.do = "greet"
  <2>1. t.conn \in Conns /\ Serves(r, t.conn)
    BY <1>1 DEF Held, Posts, Greetings
  <2>2. conn'[t.conn].from = conn[t.conn].from
    BY <2>1, NextMoves, EndsStay DEF Typed, Stages
  <2> QED BY <1>1, <2>2 DEF TrueTask
<1>2. CASE t.do # "greet"
  <2>1. t.msg \in Said(r)'
    BY <1>2, SaidGrows DEF TrueTask
  <2>2. ASSUME t.do # "reach" PROVE OtherEnd(r, t.conn)' = OtherEnd(r, t.conn)
    <3>1. t.conn \in Conns /\ (Calls(r, t.conn) \/ Serves(r, t.conn))
      BY <1>2, <2>2 DEF Held
    <3>2. /\ Calls(r, t.conn) => Calls(r, t.conn)' /\ conn'[t.conn].to = conn[t.conn].to
          /\ Serves(r, t.conn) => Serves(r, t.conn)' /\ conn'[t.conn].from = conn[t.conn].from
      BY <3>1, NextMoves, EndsStay DEF Typed, Stages
    <3>3. Stage(conn[t.conn]) /\ Stage(conn'[t.conn])
      BY <3>1 DEF Typed, Stages
    <3>4. \A c : Stage(c) /\ c.to = r /\ c.server \in {"open", "dead"} => c.from # r
      BY DEF Stage, NoConn
    <3> QED BY <3>1, <3>2, <3>3, <3>4 DEF OtherEnd, Calls, Serves
  <2> QED BY <1>2, <2>1, <2>2 DEF TrueTask
<1> QED BY <1>1, <1>2

LEMMA TasksTrue ==
  ASSUME Typed, Typed', Truth, OnlyRobotsKnown, [Next]_vars, NEW r \in Robots, work'[r] # <<>>,
         hull'[r][1] = r
  PROVE  work'[r] \in Seq(TrueTasks(r)')
<1> DEFINE Old == {t \in Posts \cup Greetings : Held(r, t)} \cap TrueTasks(r)
           New == TrueTasks(r)'
           Goal == work'[r] \in Seq(New)
<1> SUFFICES Goal
  OBVIOUS
<1>0. TypeOK
  BY DEF Typed
<1>1. work[r] \in Seq(Old)
  <2>1. work[r] \in Seq({t \in Posts \cup Greetings : Held(r, t)}) /\ work[r] \in Seq(TrueTasks(r))
    BY DEF Typed, TasksHeld, Truth
  <2> QED BY <2>1, Both
<1>2. Old \subseteq New
  BY TaskStays DEF TrueTasks
<1>3. Works(r)
  BY NextWorks
<1>4. work[r] \in Seq(New)
  BY <1>1, <1>2, SeqMonotonic
<1>5. CASE work'[r] = work[r]
  BY <1>4, <1>5
<1>6. CASE work[r] # <<>> /\ work'[r] = Tail(work[r])
  BY <1>4, <1>6, HeadAndTail
<1>7. CASE work[r] # <<>> /\ \E t : Goes(r, t)
  <2>1. PICK t : Goes(r, t)
    BY <1>7
  <2>2. PICK h : h = Head(work[r])
    OBVIOUS
  <2>3. h \in Old /\ h \in New /\ Tail(work[r]) \in Seq(New)
    <3>1. h \in Old
      BY <1>1, <1>7, <2>2, HeadAndTail
    <3>2. h \in New
      BY <1>2, <3>1
    <3>3. Tail(work[r]) \in Seq(New)
      BY <1>4, <1>7, HeadAndTail
    <3> QED BY <3>1, <3>2, <3>3
  <2>4. /\ t \in Posts /\ t.hull = h.hull /\ t.ip = h.ip /\ t.msg = h.msg
        /\ h.do \in {"check", "reach"} /\ t.do \in {"hook", "check"}
        /\ work'[r] = <<t>> \o Tail(work[r])
    BY <2>1, <2>2 DEF Goes
  <2>5. t.hull[1] = t.ip /\ t.ip # Nobody /\ t.msg \in Said(r)' /\ h.ip = t.ip
    BY <2>3, <2>4 DEF TrueTasks, TrueTask
  <2>6. OtherEnd(r, t.conn)' = t.ip
    <3>1. CASE h.do = "check" /\ t.conn = h.conn
      BY <2>3, <2>5, <3>1 DEF TrueTasks, TrueTask
    <3>2. CASE Reach(r)
      <4>1. PICK j \in Conns :
              /\ Then(r, <<[Head(work[r]) EXCEPT !.do = "check", !.conn = j]>> \o Tail(work[r]))
              /\ \/ /\ UNCHANGED conn
                    /\ \/ Calls(r, j) /\ (conn[j].to = Head(work[r]).ip \/ Head(work[r]).ip = Nobody)
                       \/ Serves(r, j) /\ conn[j].from = Head(work[r]).ip
                 \/ conn[j] = NoConn /\ conn'[j] = Created(r, Head(work[r]).ip)
        BY <3>2, ReachIs, Zenon
      <4> DEFINE u == [h EXCEPT !.do = "check", !.conn = j]
      <4>2. h \in Posts
        BY <2>2, <3>2, ReachIs, Zenon
      <4>3. u.conn = j
        BY <4>2 DEF Posts
      <4>4. work'[r] = <<u>> \o Tail(work[r])
        BY <1>0, <2>2, <4>1 DEF Then, TypeOK
      <4> HIDE DEF u
      <4>5. t = u
        <5>1. Tail(work[r]) \in Seq(New \cup {t, u})
          BY <2>3, SeqMonotonic
        <5> HIDE DEF New
        <5> QED BY <2>4, <4>4, <5>1, ConsTail
      <4>6. Stage(conn[j])
        BY DEF Typed, Stages
      <4>7. CASE UNCHANGED conn
        <5>1. OtherEnd(r, j) = t.ip
          <6>1. CASE Calls(r, j) /\ conn[j].to = t.ip
            BY <6>1 DEF Calls, OtherEnd
          <6>2. CASE Serves(r, j) /\ conn[j].from = t.ip
            BY <4>6, <6>2 DEF Serves, OtherEnd, Stage, NoConn
          <6>3. conn[j] # NoConn \/ conn'[j] # Created(r, t.ip)
            <7>1. NoConn.client = "none" /\ Created(r, t.ip).client = "created"
              BY DEF NoConn, Created
            <7> QED BY <4>7, <7>1
          <6> QED BY <2>2, <2>5, <4>1, <6>1, <6>2, <6>3
        <5> QED BY <4>3, <4>5, <4>7, <5>1 DEF OtherEnd
      <4>8. CASE conn'[j] = Created(r, t.ip)
        <5>1. conn'[j].from = r /\ conn'[j].to = t.ip
          BY <4>8 DEF Created, NoConn
        <5> QED BY <4>3, <4>5, <5>1 DEF OtherEnd
      <4> QED BY <2>2, <2>5, <4>1, <4>7, <4>8
    <3> QED BY <2>1, <2>2, <3>1, <3>2 DEF Goes
  <2>7. t \in New
    BY <2>4, <2>5, <2>6 DEF TrueTasks, TrueTask
  <2> HIDE DEF New
  <2> QED BY <2>3, <2>4, <2>7, JoinedOne
<1>8. ASSUME NEW entries \in SUBSET known[r], NEW m \in Carried, m \in Said(r)'
      PROVE  Tasks(r, entries, m) \in Seq(New)
  <2> DEFINE T == {t \in Posts : /\ t.do = "reach" /\ t.msg = m /\ t.conn = 0
                                 /\ \E e \in entries : t.hull = e.hull /\ t.ip = e.ip}
  <2>1. entries \in SUBSET Endpoints /\ IsFiniteSet(entries)
    BY FS_Subset DEF Typed, Tables, Table
  <2>2. Tasks(r, entries, m) \in Seq(T)
    BY <2>1, TasksTypes
  <2>3. ASSUME NEW t \in T PROVE t \in New
    <3>1. PICK e \in entries : t.hull = e.hull /\ t.ip = e.ip
      OBVIOUS
    <3>2. e.hull[1] = e.ip /\ e.ip # Nobody
      BY DEF Truth, TrueTables, OnlyRobotsKnown, Knows
    <3> QED BY <1>8, <3>1, <3>2 DEF TrueTasks, TrueTask
  <2> HIDE DEF T, New
  <2> QED BY <2>2, <2>3, SeqMonotonic
<1>9. CASE \E entries \in SUBSET known[r], m \in Carried :
             /\ work'[r] = Tasks(r, entries, m)
             /\ \/ m = <<"data", Len(sent) + 1>> /\ Send(r, entries)
                \/ m = <<"connection", r, hull'[r]>> /\ SetHullNumber(r)
  <2>a. PICK entries \in SUBSET known[r] :
          \E m \in Carried :
             /\ work'[r] = Tasks(r, entries, m)
             /\ \/ m = <<"data", Len(sent) + 1>> /\ Send(r, entries)
                \/ m = <<"connection", r, hull'[r]>> /\ SetHullNumber(r)
    BY <1>9
  <2>1. PICK m :
             /\ m \in Carried /\ work'[r] = Tasks(r, entries, m)
             /\ \/ m = <<"data", Len(sent) + 1>> /\ Send(r, entries)
                \/ m = <<"connection", r, hull'[r]>> /\ SetHullNumber(r)
    BY <2>a
  <2>2. CASE m = <<"data", Len(sent) + 1>> /\ Send(r, entries)
    <3>1. entries \in SUBSET Endpoints
      BY <1>0 DEF TypeOK
    <3>2. Len(sent) + 1 \in DOMAIN sent' /\ sent'[Len(sent) + 1].by = r
      BY <2>2, <3>1, SentGrows
    <3>3. m \in Said(r)'
      BY <2>1, <2>2, <3>2 DEF Said, Upwards
    <3> QED BY <1>8, <2>1, <3>3
  <2>3. CASE m = <<"connection", r, hull'[r]>>
    <3>1. m \in Said(r)'
      BY <2>1, <2>3 DEF Said, Upwards
    <3> QED BY <1>8, <2>1, <3>1
  <2> QED BY <2>1, <2>2, <2>3
<1>10. CASE \E i \in Conns : NewConnection(r, i)
  <2>1. PICK i \in Conns : NewConnection(r, i)
    BY <1>10
  <2>2. /\ conn[i].up # <<>> /\ Head(conn[i].up)[1] = "register"
        /\ \E m \in Carried, g \in Greetings : Handshakes(r, i, m, g)
    BY <2>1, HandshakeWork
  <2>3. PICK m, g : m \in Carried /\ g \in Greetings /\ Handshakes(r, i, m, g)
    BY <2>2
  <2>4. Head(conn[i].up) \in Said(conn[i].from)
    BY <2>2, HeadAndTail DEF Truth, TrueWire
  <2>5. Head(conn[i].up)[2][1] = conn[i].from
    BY <2>2, <2>4 DEF Said
  <2>6. m \in Said(r)'
    <3>1. m = <<"connection", conn[i].from, Head(conn[i].up)[2]>>
      BY <2>3 DEF Handshakes
    <3> QED BY <2>3, <2>5, <3>1 DEF Said, Upwards
  <2>7. g \in New
    <3>1. /\ g.do = "greet" /\ g.conn = i /\ g.hull = Head(conn[i].up)[2]
          /\ g \in Greetings
      BY <2>3 DEF Handshakes
    <3>2. conn'[i].from = conn[i].from
      <4>1. Incoming(r, i) # <<>>
        BY <2>1 DEF NewConnection, Gets
      <4>2. conn' = [conn EXCEPT ![i] = IF conn[i].from = r THEN [conn[i] EXCEPT !.down = Tail(@)]
                                        ELSE [conn[i] EXCEPT !.up = Tail(@)]]
        BY <2>1 DEF NewConnection, Takes
      <4> QED BY <1>0, <4>2 DEF TypeOK, Objects
    <3> QED BY <2>5, <3>1, <3>2 DEF TrueTasks, TrueTask
  <2>8. Tasks(r, known[r], m) \in Seq(New)
    BY <1>8, <2>3, <2>6
  <2> HIDE DEF New
  <2> QED BY <2>3, <2>7, <2>8, JoinedOne DEF Handshakes
<1> QED BY <1>3, <1>5, <1>6, <1>7, <1>9, <1>10 DEF Works

LEMMA TellsTrue ==
  ASSUME Typed, Truth, NEW r \in Robots, NEW ip, NEW number, Tells(r, ip, number)
  PROVE  number[1] = ip \/ ip = Nobody
<1>0. \A i \in Conns : conn[i] \in Objects /\ Stage(conn[i])
  BY DEF Typed, TypeOK, Stages
<1>1. CASE /\ Task(r, "check") /\ number = Head(work[r]).hull
           /\ ip = Peer(r, Head(work[r]).conn)[1]
  <2>1. PICK t : t = Head(work[r])
    OBVIOUS
  <2>2. t.do = "check" /\ TrueTask(r, t) /\ Held(r, t)
    BY <1>1, <2>1, HeadTrue DEF Task
  <2>3. t.hull[1] = OtherEnd(r, t.conn) /\ t.conn \in Conns
    BY <2>2 DEF TrueTask, Held
  <2>4. Peer(r, t.conn)[1] \in {Nobody, OtherEnd(r, t.conn)}
    BY <1>0, <2>3 DEF Peer, OtherEnd, Stage, NoConn
  <2> QED BY <1>1, <2>1, <2>3, <2>4
<1>2. CASE /\ Task(r, "greet") /\ number = Head(work[r]).hull
           /\ ip = conn[Head(work[r]).conn].from
  BY <1>2, HeadTrue DEF Task, TrueTask
<1>3. ASSUME NEW i \in Conns, conn[i].from = r, conn[i].due # <<>>,
             number = Head(conn[i].due)[1], ip = Peer(r, i)[1]
      PROVE  number[1] = ip \/ ip = Nobody
  <2>1. Head(conn[i].due) \in CallsOf(conn[i].from, conn[i].to)
    BY <1>3, HeadAndTail DEF Truth, TrueWire
  <2>2. number[1] = conn[i].to
    BY <1>3, <2>1 DEF CallsOf
  <2>3. conn[i].from # conn[i].to
    BY <1>0, <1>3 DEF Stage, NoConn
  <2>4. ip \in {Nobody, conn[i].to}
    BY <1>3, <2>3 DEF Peer
  <2> QED BY <2>2, <2>4
<1>4. ASSUME NEW i \in Conns, NEW m \in Upwards \cup Downwards,
             Incoming(r, i) # <<>>, m = Head(Incoming(r, i)), number[1] = m[Len(m)][1],
             \/ m[1] = "self" /\ ip = conn[i].to
             \/ m[1] = "connection" /\ ip = m[2]
      PROVE  number[1] = ip \/ ip = Nobody
  <2>1. \/ /\ conn[i].from = r /\ Incoming(r, i) = conn[i].down
        \/ /\ conn[i].to = r /\ Incoming(r, i) = conn[i].up /\ m \in Upwards
    BY <1>4, IncomingIs DEF Typed
  <2>2. m \in Said(conn[i].to) \/ (m \in Upwards /\ m \in Said(conn[i].from))
    BY <1>4, <2>1, HeadAndTail DEF Truth, TrueWire
  <2>3. m[1] = "connection" => number[1] = m[2]
    BY <1>4, <2>2, MessageIs DEF Said
  <2>4. m[1] = "self" => m \notin Upwards
    BY DEF Upwards, Carried
  <2>5. m[1] = "self" => number[1] = conn[i].to
    BY <1>4, <2>2, <2>4, MessageIs DEF Said
  <2> QED BY <1>4, <2>3, <2>5
<1> QED BY <1>1, <1>2, <1>3, <1>4 DEF Tells

LEMMA TablesTrue ==
  ASSUME Typed, Truth, OnlyRobotsKnown', [Next]_vars
  PROVE  TrueTables'
<1>0. TypeOK /\ Tables
  BY DEF Typed
<1>1. CASE UNCHANGED known
  BY <1>1 DEF Truth, TrueTables
<1>2. ASSUME NEW r \in Robots, Restart(r) PROVE TrueTables'
  <2>1. known' = [known EXCEPT ![r] = {}]
    BY <1>2, Zenon DEF Restart
  <2> QED BY <1>0, <2>1, SMTT(40) DEF Truth, TrueTables, TypeOK
<1>3. ASSUME NEW r \in Robots, NEW ip \in Hosts, NEW number \in Hulls, NEW port \in Ports,
             Notes(r, ip, number, port)
      PROVE  TrueTables'
  <2> DEFINE t == ConnectionInfo(r, ip, number, port)
  <2>1. /\ \A d \in t : d \in known[r] \/ (d.ip = ip /\ d.hull = number)
        /\ ip # r => \E d \in t : d.ip = ip
    BY <1>0, InfoIs DEF Tables
  <2>2. known' = [known EXCEPT ![r] = t]
    BY <1>3 DEF Notes
  <2> HIDE DEF t
  <2>3. known'[r] = t /\ \A q \in Robots \ {r} : known'[q] = known[q]
    BY <1>0, <2>2 DEF TypeOK
  <2>4. ip # Nobody
    BY <2>1, <2>3, NobodyAssumption DEF OnlyRobotsKnown, Knows
  <2>5. number[1] = ip
    BY <1>3, <2>4, TellsTrue DEF Notes
  <2> QED BY <2>1, <2>3, <2>5 DEF Truth, TrueTables
<1> QED BY <1>1, <1>2, <1>3, NextNotes

LEMMA LettersTrue ==
  ASSUME Typed, Truth, [Next]_vars, NEW r \in Robots
  PROVE  inbox'[r] \in Seq(TrueLetters')
<1>0. TypeOK /\ inbox[r] \in Seq(TrueLetters')
  BY SaidGrows, SeqMonotonic DEF Typed, Truth
<1>1. CASE UNCHANGED inbox
  BY <1>0, <1>1, SMTT(40)
<1>2. ASSUME NEW q \in Robots, Restart(q) PROVE inbox'[r] \in Seq(TrueLetters')
  <2>1. inbox' = [inbox EXCEPT ![q] = <<>>]
    BY <1>2, Zenon DEF Restart
  <2>2. <<>> \in Seq(TrueLetters')
    OBVIOUS
  <2> QED BY <1>0, <2>1, <2>2, SMTT(40) DEF TypeOK
<1>3. ASSUME NEW q \in Robots, NEW i \in Conns, OnNewData(q, i)
      PROVE  inbox'[r] \in Seq(TrueLetters')
  <2> DEFINE m == Head(Incoming(q, i))
             peer == IF conn[i].from = q THEN <<conn[i].to, ServerPort>> ELSE <<conn[i].from, i>>
             senders == {e.hull : e \in {e \in known[q] : <<e.ip, e.port>> = peer}}
             sender == IF senders = {} THEN NoHull ELSE CHOOSE h \in senders : TRUE
             x == [m |-> m[2], sender |-> sender]
  <2>1. Incoming(q, i) # <<>> /\ m[1] = "data" /\ inbox' = [inbox EXCEPT ![q] = Append(@, x)]
    BY <1>3 DEF OnNewData, Gets
  <2>2. m \in Said(peer[1])
    <3>1. \/ /\ conn[i].from = q /\ Incoming(q, i) = conn[i].down
          \/ /\ conn[i].from # q /\ Incoming(q, i) = conn[i].up
      BY <2>1, IncomingIs DEF Typed
    <3> QED BY <2>1, <3>1, HeadAndTail DEF Truth, TrueWire
  <2>3. m[2] \in DOMAIN sent /\ sent[m[2]].by = peer[1]
    BY <2>1, <2>2 DEF Said
  <2>4. sender = NoHull \/ (sender \in Hulls /\ sender[1] = peer[1])
    <3>1. \A h \in senders : h \in Hulls /\ h[1] = peer[1]
      <4> SUFFICES ASSUME NEW e \in known[q], <<e.ip, e.port>> = peer
                   PROVE  e.hull \in Hulls /\ e.hull[1] = peer[1]
        OBVIOUS
      <4>1. e \in Endpoints /\ e.hull[1] = e.ip
        BY <1>0 DEF Truth, TrueTables, TypeOK
      <4> HIDE DEF peer
      <4> QED BY <4>1 DEF Endpoints
    <3> HIDE DEF senders, peer
    <3> QED BY <3>1
  <2> HIDE DEF sender, m, peer
  <2>5. x \in TrueLetters
    BY <2>3, <2>4 DEF TrueLetters
  <2>6. x \in TrueLetters'
    BY <2>5, SaidGrows, SMTT(40)
  <2> HIDE DEF x
  <2>7. Append(inbox[r], x) \in Seq(TrueLetters')
    BY <1>0, <2>6, AppendProperties, SMTT(40)
  <2> QED BY <1>0, <2>1, <2>7 DEF TypeOK
<1>4. \/ UNCHANGED inbox
      \/ \E q \in Robots : Restart(q)
      \/ \E q \in Robots, i \in Conns : OnNewData(q, i)
  BY ZenonT(60) DEF Next, vars, Scripts, Server, Wires, Faults, ConnectTo, Send, SetHullNumber,
                    Reach,
         Check, Hook, Greet, Connected, Started, ConnectionClosed, NewConnection,
         OnConnectionInfo, Connect, Open, Break
<1> QED BY <1>1, <1>2, <1>3, <1>4

(* A null address that was once noted stays, and so does a restart.         *)
LEMMA SparedBefore ==
  ASSUME Typed, [Next]_vars, Spared'
  PROVE  Spared /\ \A r \in Robots : ~Restart(r)
<1>1. \A r \in Robots : ~Restart(r)
  BY ZenonT(60) DEF Spared, Restart
<1>2. reset = {}
  BY <1>1, ZenonT(60) DEF Spared, Next, vars, Scripts, Server, Wires, Faults, ConnectTo, Send,
                          SetHullNumber,
         Reach, Check, Hook, Greet, Connected, Started, ConnectionClosed, NewConnection,
         OnConnectionInfo, OnNewData, Connect, Open, Break
<1>3. OnlyRobotsKnown
  BY <1>1, TablesKept DEF Spared, OnlyRobotsKnown
<1> QED BY <1>1, <1>2, <1>3, SMTT(40) DEF Spared

LEMMA TruthKept == Truthful /\ [Next]_vars => Truthful'
<1> SUFFICES ASSUME Truthful, [Next]_vars PROVE Truthful'
  OBVIOUS
<1>1. Typed /\ Typed'
  BY NextTyped DEF Truthful
<1> SUFFICES ASSUME Spared' PROVE Truth'
  BY <1>1 DEF Truthful
<1>2. \A r \in Robots : ~Restart(r)
  BY <1>1, SparedBefore
<1>3. Spared
  BY <1>1, SparedBefore
<1>4. OnlyRobotsKnown
  BY <1>3 DEF Spared
<1>5. Truth /\ OnlyRobotsKnown'
  BY <1>3 DEF Truthful, Spared
<1>6. \A r \in Robots : hull'[r][1] = r
  <2>1. ASSUME NEW q \in Robots, SetHullNumber(q) PROVE \A r \in Robots : hull'[r][1] = r
    <3>1. \E n : hull' = [hull EXCEPT ![q] = <<q, n>>]
      BY <2>1, Zenon DEF SetHullNumber
    <3> QED BY <1>1, <1>5, <3>1 DEF Truth, Typed, TypeOK
  <2>2. UNCHANGED hull \/ \E q \in Robots : SetHullNumber(q)
    BY ZenonT(60) DEF Next, vars, Scripts, Server, Wires, Faults, ConnectTo, Send, Reach,
           Check, Hook, Greet, Connected, Started, ConnectionClosed, NewConnection,
           OnConnectionInfo, OnNewData, Connect, Open, Break, Restart
  <2> QED BY <1>5, <2>1, <2>2 DEF Truth
<1>7. TrueTables'
  BY <1>1, <1>5, TablesTrue
<1>8. \A i \in Conns : TrueWire(conn[i])'
  <2> SUFFICES ASSUME NEW i \in Conns PROVE TrueWire(conn[i])'
    OBVIOUS
  <2>1. PICK c : c = conn'[i]
    OBVIOUS
  <2>2. TrueWire(c)
    BY <1>1, <1>5, <2>1, WireTrue
  <2>3. TrueWire(c)'
    BY <1>1, <2>2, WireStays
  <2> QED BY <2>1, <2>3
<1>9. \A r \in Robots : work'[r] \in Seq(TrueTasks(r)')
  <2> SUFFICES ASSUME NEW r \in Robots PROVE work'[r] \in Seq(TrueTasks(r)')
    OBVIOUS
  <2>1. CASE work'[r] = <<>>
    BY <2>1
  <2> QED BY <1>1, <1>4, <1>5, <1>6, <2>1, TasksTrue
<1>10. \A r \in Robots : inbox'[r] \in Seq(TrueLetters')
  BY <1>1, <1>5, LettersTrue
<1> QED BY <1>6, <1>7, <1>8, <1>9, <1>10 DEF Truth

LEMMA InitTruthful == Init => Truthful
<1> SUFFICES ASSUME Init PROVE Truthful
  OBVIOUS
<1>1. \A S : <<>> \in Seq(S)
  OBVIOUS
<1>2. TrueWire(NoConn)
  BY <1>1 DEF TrueWire, NoConn
<1>3. Truth
  BY <1>1, <1>2 DEF Init, Truth, TrueTables
<1> QED BY <1>3, InitTyped DEF Truthful

(* newMessage names the robot that has sent the message, or no robot        *)
(* (MailboxServer::onNewData), whatever breaks, as long as no table holds a *)
(* null address (MailboxServer::prepareConnection) and nothing restarts.    *)
THEOREM SendersAreNamed == Spec => []SenderIsRight
<1>1. Truthful => SenderIsRight
  <2> SUFFICES ASSUME Typed, Truth, NEW r \in Robots, NEW j \in DOMAIN inbox[r]
               PROVE  inbox[r][j].sender = NoHull \/ inbox[r][j].sender[1] = sent[inbox[r][j].m].by
    BY DEF Truthful, Spared, SenderIsRight
  <2>1. inbox[r] \in Seq(TrueLetters)
    BY DEF Truth
  <2>2. inbox[r][j] \in TrueLetters
    BY <2>1
  <2> QED BY <2>2 DEF TrueLetters
<1> QED BY <1>1, InitTruthful, TruthKept, PTL DEF Spec

-----------------------------------------------------------------------------
(* Every message on its way to a robot is in one place                      *)

Has(s, D) == \E j \in DOMAIN s : s[j] \in D
Once(s, D) == \A j, k \in DOMAIN s : s[j] \in D /\ s[k] \in D => j = k
Fewer(s, t, D) == (Has(t, D) => Has(s, D)) /\ (Once(s, D) => Once(t, D))

Data(n) == {<<"data", n>>}
CallsWith(n) == Hulls \X Data(n)
Errands(n, p) == {t \in Posts : t.msg = <<"data", n>> /\ t.ip = p}
Letters(n) == [m : {n}, sender : Hulls \cup {NoHull}]

(* The places where message n can be on its way to p: the slots, what the   *)
(* connections will call, the wires to p, and p's inbox. What is hooked to  *)
(* a signal that has been emitted stays there.                             *)
Places(p) ==
  ({"work"} \X Robots) \cup ({"hooks", "due", "up", "down"} \X Conns) \cup {<<"inbox", p>>}
Content(l, p) ==
  LET i == l[2] IN
  CASE l[1] = "work" -> work[i]
    [] l[1] = "inbox" -> inbox[p]
    [] l[1] = "hooks" -> IF conn[i].to = p /\ conn[i].server = "none" THEN conn[i].hooks ELSE <<>>
    [] l[1] = "due" -> IF conn[i].to = p THEN conn[i].due ELSE <<>>
    [] l[1] = "up" -> IF conn[i].to = p THEN conn[i].up ELSE <<>>
    [] l[1] = "down" -> IF conn[i].from = p THEN conn[i].down ELSE <<>>
Copies(l, n, p) ==
  CASE l[1] = "work" -> Errands(n, p)
    [] l[1] = "inbox" -> Letters(n)
    [] l[1] \in {"hooks", "due"} -> CallsWith(n)
    [] l[1] \in {"up", "down"} -> Data(n)
Carries(l, n, p) == Has(Content(l, p), Copies(l, n, p))
OneCopy(n, p) ==
  /\ \A l \in Places(p) : Once(Content(l, p), Copies(l, n, p))
  /\ \A k, l \in Places(p) : Carries(k, n, p) /\ Carries(l, n, p) => k = l
Unique == \A n \in DOMAIN sent, p \in Robots : OneCopy(n, p)
Delivering == Truthful /\ (Spared => Unique)


LEMMA NoneIn ==
  ASSUME NEW D
  PROVE  ~Has(<<>>, D) /\ Once(<<>>, D) /\ \A s : Fewer(s, s, D) /\ Fewer(s, <<>>, D)
BY DEF Has, Once, Fewer

LEMMA OneIn ==
  ASSUME NEW D, NEW x
  PROVE  (Has(<<x>>, D) => x \in D) /\ Once(<<x>>, D)
BY DEF Has, Once

LEMMA InTail ==
  ASSUME NEW S, NEW s \in Seq(S), s # <<>>, NEW D
  PROVE  /\ Fewer(s, Tail(s), D)
         /\ Head(s) \in D => Has(s, D) /\ (Once(s, D) => ~Has(Tail(s), D))
<1>1. /\ Len(s) \in Nat \ {0} /\ DOMAIN s = 1 .. Len(s) /\ Head(s) = s[1]
      /\ DOMAIN Tail(s) = 1 .. Len(s) - 1
      /\ \A j \in 1 .. Len(s) - 1 : Tail(s)[j] = s[j + 1]
  BY HeadTailProperties, LenProperties, EmptySeq
<1>2. \A j \in DOMAIN Tail(s) : j + 1 \in DOMAIN s /\ Tail(s)[j] = s[j + 1] /\ j + 1 # 1
  BY <1>1
<1>3. \A j, k \in DOMAIN Tail(s) : j + 1 = k + 1 => j = k
  BY <1>1
<1>4. 1 \in DOMAIN s
  BY <1>1
<1> QED BY <1>1, <1>2, <1>3, <1>4 DEF Has, Once, Fewer

LEMMA InPrefix ==
  ASSUME NEW S, NEW s \in Seq(S), NEW n \in 0 .. Len(s), NEW D
  PROVE  Fewer(s, SubSeq(s, 1, n), D)
<1>1. /\ DOMAIN SubSeq(s, 1, n) \subseteq DOMAIN s
      /\ \A j \in DOMAIN SubSeq(s, 1, n) : SubSeq(s, 1, n)[j] = s[j]
  BY LenProperties
<1> QED BY <1>1 DEF Has, Once, Fewer

LEMMA InBoth ==
  ASSUME NEW S, NEW s \in Seq(S), NEW t \in Seq(S), NEW D
  PROVE  /\ Has(s \o t, D) => Has(s, D) \/ Has(t, D)
         /\ Once(s, D) /\ Once(t, D) /\ ~(Has(s, D) /\ Has(t, D)) => Once(s \o t, D)
<1> DEFINE m == Len(s)
           u == s \o t
<1>1. /\ m \in Nat /\ DOMAIN s = 1 .. m /\ DOMAIN t = 1 .. Len(t) /\ Len(t) \in Nat
      /\ DOMAIN u = 1 .. (m + Len(t))
      /\ \A j \in 1 .. (m + Len(t)) : u[j] = IF j <= m THEN s[j] ELSE t[j - m]
  BY ConcatProperties, LenProperties
<1> HIDE DEF m, u
<1>2. ASSUME NEW j \in DOMAIN u
      PROVE  \/ j \in DOMAIN s /\ u[j] = s[j]
             \/ j - m \in DOMAIN t /\ u[j] = t[j - m]
  BY <1>1, <1>2
<1>3. \A j, k \in DOMAIN u : j - m = k - m => j = k
  BY <1>1
<1> QED BY <1>2, <1>3 DEF Has, Once, u

LEMMA WithOne ==
  ASSUME NEW S, NEW s \in Seq(S), NEW x \in S, NEW D
  PROVE  /\ Append(s, x) = s \o <<x>>
         /\ Has(s \o <<x>>, D) => Has(s, D) \/ x \in D
         /\ Once(s, D) /\ ~(Has(s, D) /\ x \in D) => Once(s \o <<x>>, D)
<1>1. <<x>> \in Seq(S)
  OBVIOUS
<1>2. Append(s, x) = s \o <<x>>
  BY LenProperties
<1> QED BY <1>1, <1>2, InBoth, OneIn

(* The head gives way to another, which is a copy only if the head was.     *)
LEMMA InChanged ==
  ASSUME NEW S, NEW s \in Seq(S), s # <<>>, NEW x \in S, NEW D, x \in D => Head(s) \in D
  PROVE  Fewer(s, <<x>> \o Tail(s), D)
<1>1. Tail(s) \in Seq(S) /\ <<x>> \in Seq(S)
  BY HeadAndTail
<1>2. /\ Fewer(s, Tail(s), D)
      /\ Head(s) \in D => Has(s, D) /\ (Once(s, D) => ~Has(Tail(s), D))
  BY InTail
<1>3. (Has(<<x>>, D) => x \in D) /\ Once(<<x>>, D)
  BY OneIn
<1>4. /\ Has(<<x>> \o Tail(s), D) => Has(<<x>>, D) \/ Has(Tail(s), D)
      /\ Once(<<x>>, D) /\ Once(Tail(s), D) /\ ~(Has(<<x>>, D) /\ Has(Tail(s), D))
           => Once(<<x>> \o Tail(s), D)
  BY <1>1, InBoth
<1> QED BY <1>2, <1>3, <1>4 DEF Fewer

(* A send makes one task for each robot.                                    *)
LEMMA TasksOnce ==
  ASSUME NEW r \in Robots, NEW entries, Table(r, entries), NEW n, NEW p,
         NEW message
  PROVE  /\ Once(Tasks(r, entries, message), Errands(n, p))
         /\ Has(Tasks(r, entries, message), Errands(n, p)) => message = <<"data", n>>
<1> DEFINE order == SetToSeq(entries)
           N == Cardinality(entries)
           tasks == Tasks(r, entries, message)
<1>1. /\ order \in Seq(entries) /\ DOMAIN order = 1 .. N /\ N \in Nat
      /\ ExistsBijection(1 .. N, entries)
  BY Sorted, FS_CardinalityType DEF Table
<1>2. \E f \in [1 .. N -> entries] : IsInjective(f)
  BY <1>1 DEF ExistsBijection, Bijection, Injection, IsInjective
<1>3. order \in [1 .. N -> entries] /\ IsInjective(order)
  BY <1>2 DEF SetToSeq
<1>4. \A j, k \in 1 .. N : order[j] = order[k] => j = k
  BY <1>3 DEF IsInjective
<1>5. DOMAIN tasks = 1 .. N /\ \A j \in 1 .. N : tasks[j].ip = order[j].ip /\ tasks[j].msg = message
  BY <1>1 DEF Tasks
<1>6. \A j, k \in 1 .. N : order[j].ip = order[k].ip => order[j] = order[k]
  BY <1>3 DEF Table
<1> HIDE DEF order, tasks, N
<1>7. \A j, k \in 1 .. N : tasks[j] \in Errands(n, p) /\ tasks[k] \in Errands(n, p) => j = k
  BY <1>4, <1>5, <1>6 DEF Errands
<1>8. Once(tasks, Errands(n, p))
  BY <1>5, <1>7 DEF Once
<1>9. Has(tasks, Errands(n, p)) => message = <<"data", n>>
  BY <1>5 DEF Has, Errands
<1> QED BY <1>8, <1>9 DEF tasks

(* The places one by one.                                                   *)
LEMMA PlacesAre ==
  ASSUME NEW n, NEW p \in Robots
  PROVE  /\ \A r \in Robots :
              /\ <<"work", r>> \in Places(p) /\ Copies(<<"work", r>>, n, p) = Errands(n, p)
              /\ Content(<<"work", r>>, p) = work[r]
              /\ Content(<<"work", r>>, p)' = work'[r]
         /\ /\ <<"inbox", p>> \in Places(p) /\ Copies(<<"inbox", p>>, n, p) = Letters(n)
            /\ Content(<<"inbox", p>>, p) = inbox[p]
            /\ Content(<<"inbox", p>>, p)' = inbox'[p]
         /\ \A i \in Conns :
              /\ {<<"hooks", i>>, <<"due", i>>, <<"up", i>>, <<"down", i>>} \subseteq Places(p)
              /\ Copies(<<"hooks", i>>, n, p) = CallsWith(n)
              /\ Copies(<<"due", i>>, n, p) = CallsWith(n)
              /\ Copies(<<"up", i>>, n, p) = Data(n)
              /\ Copies(<<"down", i>>, n, p) = Data(n)
BY DEF Places, Content, Copies

Parts(i) == {<<"hooks", i>>, <<"due", i>>, <<"up", i>>, <<"down", i>>}

LEMMA PlaceKinds ==
  ASSUME NEW p, NEW l \in Places(p)
  PROVE  \/ \E r \in Robots : l = <<"work", r>>
         \/ l = <<"inbox", p>>
         \/ \E i \in Conns : l \in Parts(i)
BY DEF Places, Parts

LEMMA ContentIs ==
  ASSUME NEW p \in Robots, NEW i \in Conns
  PROVE  /\ Content(<<"hooks", i>>, p) =
              IF conn[i].to = p /\ conn[i].server = "none" THEN conn[i].hooks ELSE <<>>
         /\ Content(<<"due", i>>, p) = IF conn[i].to = p THEN conn[i].due ELSE <<>>
         /\ Content(<<"up", i>>, p) = IF conn[i].to = p THEN conn[i].up ELSE <<>>
         /\ Content(<<"down", i>>, p) = IF conn[i].from = p THEN conn[i].down ELSE <<>>
BY DEF Content

LEMMA ContentWillBe ==
  ASSUME NEW p \in Robots, NEW i \in Conns
  PROVE  /\ Content(<<"hooks", i>>, p)' =
              IF conn'[i].to = p /\ conn'[i].server = "none" THEN conn'[i].hooks ELSE <<>>
         /\ Content(<<"due", i>>, p)' = IF conn'[i].to = p THEN conn'[i].due ELSE <<>>
         /\ Content(<<"up", i>>, p)' = IF conn'[i].to = p THEN conn'[i].up ELSE <<>>
         /\ Content(<<"down", i>>, p)' = IF conn'[i].from = p THEN conn'[i].down ELSE <<>>
BY DEF Content

(* Nothing comes to a place; something may go from place a to place b.      *)
KeptAt(l, n, p) == Fewer(Content(l, p), Content(l, p)', Copies(l, n, p))
Comes(a, b, n, p) ==
  /\ Once(Content(a, p), Copies(a, n, p)) /\ Carries(b, n, p)' =>
       Carries(b, n, p) \/ (Carries(a, n, p) /\ ~Carries(a, n, p)')
  /\ /\ Once(Content(a, p), Copies(a, n, p)) /\ Once(Content(b, p), Copies(b, n, p))
     /\ ~(Carries(a, n, p) /\ Carries(b, n, p))
     => Once(Content(b, p), Copies(b, n, p))'

LEMMA AllKept ==
  ASSUME NEW n, NEW p \in Robots, OneCopy(n, p), \A l \in Places(p) : KeptAt(l, n, p)
  PROVE  OneCopy(n, p)'
<1>1. \A l : Copies(l, n, p)' = Copies(l, n, p)
  BY DEF Copies
<1>2. \A l \in Places(p)' : l \in Places(p)
  BY DEF Places
<1>3. \A l \in Places(p) :
        /\ Carries(l, n, p)' => Carries(l, n, p)
        /\ Once(Content(l, p), Copies(l, n, p)) => Once(Content(l, p)', Copies(l, n, p))
  BY <1>1 DEF KeptAt, Fewer, Carries
<1> QED BY <1>1, <1>2, <1>3 DEF OneCopy

LEMMA HandedOver ==
  ASSUME NEW n, NEW p \in Robots, OneCopy(n, p),
         NEW CONSTANT a, a \in Places(p), NEW CONSTANT b, b \in Places(p), a # b,
         \A l \in Places(p) : l # b => KeptAt(l, n, p), Comes(a, b, n, p)
  PROVE  OneCopy(n, p)'
<1>1. \A l : Copies(l, n, p)' = Copies(l, n, p)
  BY DEF Copies
<1>2. \A l \in Places(p)' : l \in Places(p)
  BY DEF Places
<1>3. \A l \in Places(p) : l # b =>
        /\ Carries(l, n, p)' => Carries(l, n, p)
        /\ Once(Content(l, p), Copies(l, n, p)) => Once(Content(l, p)', Copies(l, n, p))
  BY <1>1 DEF KeptAt, Fewer, Carries
<1>4. \A k, l \in Places(p) : Carries(k, n, p) /\ Carries(l, n, p) => k = l
  BY DEF OneCopy
<1>5. \A l \in Places(p) : Once(Content(l, p), Copies(l, n, p))
  BY DEF OneCopy
<1>6. Carries(b, n, p)' => Carries(b, n, p) \/ (Carries(a, n, p) /\ ~Carries(a, n, p)')
  BY <1>5 DEF Comes
<1>7. Once(Content(b, p), Copies(b, n, p))'
  BY <1>4, <1>5 DEF Comes
<1>8. \A l \in Places(p) : Once(Content(l, p)', Copies(l, n, p))
  BY <1>1, <1>3, <1>5, <1>7
<1>9. \A l \in Places(p) : Carries(b, n, p)' /\ Carries(l, n, p)' => l = b
  BY <1>3, <1>4, <1>6
<1>10. \A k, l \in Places(p) : Carries(k, n, p)' /\ Carries(l, n, p)' => k = l
  BY <1>3, <1>4, <1>9
<1> QED BY <1>1, <1>2, <1>8, <1>10 DEF OneCopy

(* What a step may leave of a connection's part when nothing comes to it.   *)
Thinner(n, c, d) ==
  \/ d.up = <<>> /\ d.down = <<>> /\ d.hooks = <<>> /\ d.due = <<>>
  \/ /\ d.from = c.from /\ d.to = c.to
     /\ Fewer(c.up, d.up, Data(n)) /\ Fewer(c.down, d.down, Data(n))
     /\ d.server = "none" => c.server = "none" /\ Fewer(c.hooks, d.hooks, CallsWith(n))
     /\ Fewer(c.due, d.due, CallsWith(n))

LEMMA ThinnerIsKept ==
  ASSUME NEW n, NEW p \in Robots, NEW i \in Conns, Thinner(n, conn[i], conn'[i])
  PROVE  /\ KeptAt(<<"hooks", i>>, n, p) /\ KeptAt(<<"due", i>>, n, p)
         /\ KeptAt(<<"up", i>>, n, p) /\ KeptAt(<<"down", i>>, n, p)
<1>1. \A D, s : Fewer(s, s, D) /\ Fewer(s, <<>>, D)
  BY NoneIn
<1>2. /\ Copies(<<"hooks", i>>, n, p) = CallsWith(n) /\ Copies(<<"due", i>>, n, p) = CallsWith(n)
      /\ Copies(<<"up", i>>, n, p) = Data(n) /\ Copies(<<"down", i>>, n, p) = Data(n)
  BY PlacesAre
<1>3. KeptAt(<<"hooks", i>>, n, p)
  BY <1>1, <1>2, ContentIs, ContentWillBe DEF KeptAt, Thinner
<1>4. KeptAt(<<"due", i>>, n, p)
  BY <1>1, <1>2, ContentIs, ContentWillBe DEF KeptAt, Thinner
<1>5. KeptAt(<<"up", i>>, n, p)
  BY <1>1, <1>2, ContentIs, ContentWillBe DEF KeptAt, Thinner
<1>6. KeptAt(<<"down", i>>, n, p)
  BY <1>1, <1>2, ContentIs, ContentWillBe DEF KeptAt, Thinner
<1> QED BY <1>3, <1>4, <1>5, <1>6

LEMMA SameIsThinner ==
  ASSUME NEW n, NEW c
  PROVE  Thinner(n, c, c)
BY NoneIn DEF Thinner

(* A slot brings no copy but of the message that is sent just now.          *)
LEMMA WorkKept ==
  ASSUME Typed, [Next]_vars, NEW n, n # Len(sent) + 1, NEW p \in Robots, NEW r \in Robots
  PROVE  KeptAt(<<"work", r>>, n, p)
<1> DEFINE D == Errands(n, p)
           S == Posts \cup Greetings
           Goal == Fewer(work[r], work'[r], D)
<1> SUFFICES Goal
  BY PlacesAre DEF KeptAt
<1>0. TypeOK /\ work[r] \in Seq(S) /\ Works(r)
  BY NextWorks DEF Typed, TypeOK
<1>1. CASE work'[r] = work[r] \/ work'[r] = <<>>
  BY <1>1, NoneIn
<1>2. CASE work[r] # <<>> /\ work'[r] = Tail(work[r])
  BY <1>0, <1>2, InTail
<1>3. CASE work[r] # <<>> /\ \E t : Goes(r, t)
  <2>1. PICK t : Goes(r, t)
    BY <1>3
  <2>2. Head(work[r]) \in Posts
    BY <1>3, <2>1, HeadHeld DEF Goes
  <2>3. t \in S /\ (t \in D => Head(work[r]) \in D) /\ work'[r] = <<t>> \o Tail(work[r])
    BY <2>1, <2>2 DEF Goes, Errands
  <2> QED BY <1>0, <1>3, <2>3, InChanged
<1>4. ASSUME NEW entries \in SUBSET known[r], NEW m, m # <<"data", n>>
      PROVE  ~Has(Tasks(r, entries, m), D) /\ Once(Tasks(r, entries, m), D)
  <2>1. Table(r, entries)
    <3>1. Table(r, known[r])
      BY DEF Typed, Tables
    <3> QED BY <3>1, FS_Subset DEF Table
  <2> QED BY <1>4, <2>1, TasksOnce
<1>5. CASE /\ work[r] = <<>>
           /\ \E entries \in SUBSET known[r], m \in Carried :
                /\ work'[r] = Tasks(r, entries, m)
                /\ \/ m = <<"data", Len(sent) + 1>> /\ Send(r, entries)
                   \/ m = <<"connection", r, hull'[r]>> /\ SetHullNumber(r)
  <2>1. PICK entries, m : /\ entries \in SUBSET known[r] /\ work'[r] = Tasks(r, entries, m)
                          /\ m = <<"data", Len(sent) + 1>> \/ m = <<"connection", r, hull'[r]>>
    BY <1>5
  <2>2. m # <<"data", n>>
    BY <2>1
  <2> QED BY <1>4, <2>1, <2>2 DEF Fewer
<1>6. ASSUME NEW i \in Conns, NewConnection(r, i) PROVE Goal
  <2>1. known[r] \in SUBSET Endpoints /\ IsFiniteSet(known[r])
    BY <1>6, HandshakeWork
  <2>2. PICK m, g : m \in Carried /\ g \in Greetings /\ Handshakes(r, i, m, g)
    BY <1>6, HandshakeWork
  <2>3. m # <<"data", n>> /\ g \notin D /\ g \in S
    BY <2>2 DEF Handshakes, Errands, Posts, Greetings
  <2>4. Tasks(r, known[r], m) \in Seq(S)
    BY <2>1, <2>2, TasksArePosts, SeqMonotonic
  <2>5. ~Has(Tasks(r, known[r], m), D) /\ Once(Tasks(r, known[r], m), D)
    BY <1>4, <2>3
  <2>6. ~Has(<<g>>, D) /\ Once(<<g>>, D)
    BY <2>3, OneIn
  <2>7. LET s == Tasks(r, known[r], m) \o <<g>> IN ~Has(s, D) /\ Once(s, D)
    BY <2>3, <2>4, <2>5, WithOne
  <2> QED BY <2>2, <2>6, <2>7 DEF Handshakes, Fewer
<1> QED BY <1>0, <1>1, <1>2, <1>3, <1>5, <1>6 DEF Works

(* What is posted to a connection's object.                                 *)
LEMMA PostedAt ==
  ASSUME NEW r, NEW i, NEW ms
  PROVE  \/ conn[i].from = r /\ Posted(r, i, ms) = [conn[i] EXCEPT !.up = @ \o ms]
         \/ conn[i].to = r /\ Posted(r, i, ms) = [conn[i] EXCEPT !.down = @ \o ms]
         \/ Posted(r, i, ms) = conn[i]
BY DEF Posted

LEMMA NewsIsThinner ==
  ASSUME TypeOK, NEW r \in Robots, NEW i \in Conns, NEW n,
         NEW ms \in Seq(Upwards \cup Downwards), ~Has(ms, Data(n)), Once(ms, Data(n))
  PROVE  Thinner(n, conn[i], Posted(r, i, ms))
<1> DEFINE c == conn[i]
           d == Posted(r, i, ms)
<1>1. c \in Objects /\ c.up \in Seq(Upwards) /\ c.down \in Seq(Downwards)
  BY DEF TypeOK, Objects
<1>2. c.up \in Seq(Upwards \cup Downwards) /\ c.down \in Seq(Upwards \cup Downwards)
  BY <1>1, SeqMonotonic
<1>3. Fewer(c.up, c.up \o ms, Data(n)) /\ Fewer(c.down, c.down \o ms, Data(n))
  BY <1>2, InBoth DEF Fewer
<1>4. \A D, s : Fewer(s, s, D)
  BY NoneIn
<1>5. d = [c EXCEPT !.up = @ \o ms] \/ d = [c EXCEPT !.down = @ \o ms] \/ d = c
  BY PostedAt
<1> HIDE DEF c, d
<1>6. Thinner(n, c, d)
  BY <1>1, <1>3, <1>4, <1>5 DEF Thinner, Objects
<1> QED BY <1>6 DEF c, d

(* A step of which one connection hears, and carries nothing more.          *)
LEMMA OneThins ==
  ASSUME Typed, NEW n, NEW j \in Conns, NEW x, conn' = [conn EXCEPT ![j] = x],
         Thinner(n, conn[j], x)
  PROVE  \A i \in Conns : Thinner(n, conn[i], conn'[i])
<1>1. conn'[j] = x /\ \A i \in Conns \ {j} : conn'[i] = conn[i]
  BY One DEF Typed
<1> QED BY <1>1, SameIsThinner

LEMMA Taken ==
  ASSUME Typed, NEW r \in Robots, NEW i \in Conns, Incoming(r, i) # <<>>,
         Takes(r, i, conn[i])
  PROVE  \/ /\ conn[i].to # r /\ conn[i].from = r
            /\ conn'[i] = [conn[i] EXCEPT !.down = Tail(@)]
            /\ Incoming(r, i) = conn[i].down
         \/ /\ conn[i].from # r /\ conn[i].to = r
            /\ conn'[i] = [conn[i] EXCEPT !.up = Tail(@)]
            /\ Incoming(r, i) = conn[i].up
<1> DEFINE c == conn[i]
<1>1. \/ c.from = r /\ c.to # r /\ c.down # <<>> /\ Incoming(r, i) = c.down
      \/ c.from # r /\ c.to = r /\ c.up # <<>> /\ Incoming(r, i) = c.up
  BY IncomingIs DEF Typed
<1>2. conn'[i] = IF c.from = r THEN [c EXCEPT !.down = Tail(@)] ELSE [c EXCEPT !.up = Tail(@)]
  BY DEF Takes, Typed, TypeOK
<1> QED BY <1>1, <1>2

LEMMA OthersUntaken ==
  ASSUME Typed, NEW r, NEW i \in Conns, Takes(r, i, conn[i]), NEW j \in Conns, j # i
  PROVE  conn'[j] = conn[j]
BY DEF Takes, Typed, TypeOK

LEMMA TakenThins ==
  ASSUME Typed, NEW n, NEW r \in Robots, NEW i \in Conns, Incoming(r, i) # <<>>,
         Takes(r, i, conn[i]), NEW j \in Conns
  PROVE  Thinner(n, conn[j], conn'[j])
<1>1. CASE j # i
  <2>1. conn'[j] = conn[j]
    BY <1>1, OthersUntaken
  <2> QED BY <2>1, SameIsThinner
<1>2. CASE j = i
  <2> DEFINE c == conn[j]
             d == conn'[j]
  <2>1. c \in Objects /\ c.up \in Seq(Upwards) /\ c.down \in Seq(Downwards)
    BY DEF Typed, TypeOK, Objects
  <2>2. \/ d = [c EXCEPT !.down = Tail(@)] /\ c.down # <<>>
        \/ d = [c EXCEPT !.up = Tail(@)] /\ c.up # <<>>
    <3>1. \/ /\ conn'[i] = [conn[i] EXCEPT !.down = Tail(@)]
             /\ Incoming(r, i) = conn[i].down
          \/ /\ conn'[i] = [conn[i] EXCEPT !.up = Tail(@)]
             /\ Incoming(r, i) = conn[i].up
      BY Taken, Zenon
    <3> QED BY <1>2, <3>1
  <2>3. /\ c.down # <<>> => Fewer(c.down, Tail(c.down), Data(n))
        /\ c.up # <<>> => Fewer(c.up, Tail(c.up), Data(n))
    BY <2>1, InTail
  <2>4. \A D, s : Fewer(s, s, D)
    BY NoneIn
  <2> HIDE DEF c, d
  <2>5. Thinner(n, c, d)
    BY <2>1, <2>2, <2>3, <2>4 DEF Thinner, Objects
  <2> QED BY <2>5 DEF c, d
<1> QED BY <1>1, <1>2

LEMMA GreetThins ==
  ASSUME Typed, NEW n, NEW r \in Robots, Greet(r)
  PROVE  \A i \in Conns : Thinner(n, conn[i], conn'[i])
<1>1. CASE UNCHANGED conn
  BY <1>1, SameIsThinner
<1>2. ASSUME NEW j \in Conns, Greets(j), \E c : conn' = [conn EXCEPT ![j] = c]
      PROVE  \A i \in Conns : Thinner(n, conn[i], conn'[i])
  <2>1. PICK q, ms : /\ q \in Robots /\ ms \in Seq(Carried)
                     /\ conn'[j] = Posted(q, j, ms \o <<<<"self", hull[q]>>>>)
                     /\ ms \in Seq(TableNews(q))
    <3>1. PICK q : /\ q \in Robots
                   /\ \E ms \in Seq(TableNews(q)) : conn'[j] = Posted(q, j, ms \o <<<<"self", hull[q]>>>>)
      BY <1>2 DEF Greets
    <3>2. TableNews(q) \subseteq Carried
      BY <3>1 DEF TableNews, Carried, Typed, TypeOK, Endpoints
    <3> QED BY <3>1, <3>2, SeqMonotonic
  <2> DEFINE S == Upwards \cup Downwards
             self == <<"self", hull[q]>>
  <2>2. ms \in Seq(S) /\ self \in S /\ <<"data", n>> # self
    <3>1. hull[q] \in Hulls
      BY <2>1 DEF Typed, TypeOK
    <3>2. self \in S
      BY <3>1 DEF Downwards
    <3>3. Carried \subseteq S
      BY DEF Upwards
    <3> QED BY <2>1, <3>2, <3>3, SeqMonotonic
  <2>3. ~Has(ms, Data(n)) /\ Once(ms, Data(n))
    <3>1. \A k \in DOMAIN ms : ms[k] \in TableNews(q)
      BY <2>1, ElementOfSeq, LenProperties
    <3> QED BY <3>1 DEF Has, Once, Data, TableNews
  <2>4. self \notin Data(n)
    BY DEF Data
  <2> HIDE DEF self, S
  <2>5. /\ ms \o <<self>> \in Seq(S)
        /\ ~Has(ms \o <<self>>, Data(n)) /\ Once(ms \o <<self>>, Data(n))
    BY <2>2, <2>3, <2>4, WithOne, JoinedOne
  <2>6. Thinner(n, conn[j], conn'[j])
    BY <2>1, <2>5, NewsIsThinner DEF Typed, S, self
  <2>7. \A i \in Conns \ {j} : conn'[i] = conn[i]
    <3>1. PICK c : conn' = [conn EXCEPT ![j] = c]
      BY <1>2
    <3> QED BY <3>1, One DEF Typed
  <2> QED BY <2>6, <2>7, SameIsThinner
<1>3. Head(work[r]).conn \in Conns
  BY HeadHeld DEF Greet, Task, Greetings
<1> QED BY <1>1, <1>2, <1>3, GreetGreets

(* The steps that move no message from one place to another.                *)
Unmoving ==
  \/ UNCHANGED conn
  \/ \E r \in Robots :
       \/ Reach(r) \/ Greet(r) \/ Started(r) \/ ConnectionClosed(r)
       \/ \E ip \in Robots : ConnectTo(r, ip)
       \/ \E i \in Conns : NewConnection(r, i) \/ OnConnectionInfo(r, i)
  \/ \E i \in Conns : Connect(i) \/ Break(i)

LEMMA UnmovingThins ==
  ASSUME Typed, NEW n, Unmoving
  PROVE  \A i \in Conns : Thinner(n, conn[i], conn'[i])
<1> DEFINE Goal == \A i \in Conns : Thinner(n, conn[i], conn'[i])
<1> SUFFICES Goal
  OBVIOUS
<1>0. /\ \A i \in Conns : conn[i] \in Objects
      /\ \A D, s : Fewer(s, s, D) /\ Fewer(s, <<>>, D)
      /\ \A c : Thinner(n, c, c) /\ Thinner(n, c, NoConn)
      /\ \A c, r, ip : Thinner(n, c, Created(r, ip))
  <2>1. \A D, s : Fewer(s, s, D) /\ Fewer(s, <<>>, D)
    BY NoneIn
  <2>2. \A c : Thinner(n, c, c)
    BY SameIsThinner
  <2> QED BY <2>1, <2>2 DEF Typed, TypeOK, Thinner, NoConn, Created
<1>1. ASSUME NEW j \in Conns, NEW x, conn' = [conn EXCEPT ![j] = x], Thinner(n, conn[j], x)
      PROVE  Goal
  BY <1>1, OneThins
<1>2. CASE UNCHANGED conn
  BY <1>0, <1>2
<1>3. ASSUME NEW r \in Robots, Reach(r) PROVE Goal
  <2>1. CASE UNCHANGED conn
    BY <1>0, <2>1
  <2>2. CASE Unused # {} /\ conn' = [conn EXCEPT ![Fresh] = Created(r, Head(work[r]).ip)]
    BY <1>0, <1>1, <2>2, FreshIs
  <2> QED BY <1>3, <2>1, <2>2, Zenon DEF Reach
<1>4. ASSUME NEW r \in Robots, Greet(r) PROVE Goal
  BY <1>4, GreetThins
<1>5. ASSUME NEW r \in Robots, Started(r) PROVE Goal
  <2>1. PICK j \in Conns : conn' = [conn EXCEPT ![j].client = "listed"]
    BY <1>5 DEF Started
  <2>2. PICK x : x = [conn[j] EXCEPT !.client = "listed"]
    OBVIOUS
  <2>3. conn' = [conn EXCEPT ![j] = x]
    BY <2>1, <2>2
  <2>4. Thinner(n, conn[j], x)
    BY <1>0, <2>2 DEF Thinner, Objects
  <2> QED BY <1>1, <2>3, <2>4
<1>6. ASSUME NEW r \in Robots, ConnectionClosed(r) PROVE Goal
  <2>1. PICK j, x : /\ j \in Conns /\ conn' = [conn EXCEPT ![j] = Ended(x)]
                    /\ \/ x = [conn[j] EXCEPT !.client = "gone"]
                       \/ x = [conn[j] EXCEPT !.server = "gone"]
    BY <1>6 DEF ConnectionClosed
  <2>2. Thinner(n, conn[j], x)
    BY <1>0, <2>1, ZenonT(60) DEF Thinner, Objects
  <2>3. Thinner(n, conn[j], Ended(x))
    BY <1>0, <2>2 DEF Ended
  <2> QED BY <1>1, <2>1, <2>3
<1>7. ASSUME NEW r \in Robots, NEW ip \in Robots, ConnectTo(r, ip) PROVE Goal
  BY <1>0, <1>1, <1>7, FreshIs DEF ConnectTo
<1>8. ASSUME NEW r \in Robots, NEW i \in Conns, NewConnection(r, i) \/ OnConnectionInfo(r, i)
      PROVE  Goal
  <2>1. Incoming(r, i) # <<>>
    BY <1>8 DEF NewConnection, OnConnectionInfo, Gets
  <2>2. Takes(r, i, conn[i])
    BY <1>8 DEF NewConnection, OnConnectionInfo
  <2> QED BY <2>1, <2>2, TakenThins
<1>9. ASSUME NEW j \in Conns, Connect(j) PROVE Goal
  <2>1. conn' = [conn EXCEPT ![j].client = "connecting",
                             ![j].up = <<<<"register", hull[conn[j].from]>>>>]
    BY <1>9 DEF Connect
  <2>2. PICK m : m = <<"register", hull[conn[j].from]>>
    OBVIOUS
  <2>3. PICK x : x = [conn[j] EXCEPT !.client = "connecting", !.up = <<m>>]
    OBVIOUS
  <2>4. conn' = [conn EXCEPT ![j] = x]
    BY <2>1, <2>2, <2>3, <1>0 DEF Typed, TypeOK
  <2>5. Fewer(conn[j].up, <<m>>, Data(n))
    BY <2>2, OneIn DEF Data, Fewer
  <2>6. Thinner(n, conn[j], x)
    BY <1>0, <2>3, <2>5 DEF Thinner, Objects
  <2> QED BY <1>1, <2>4, <2>6
<1>10. ASSUME NEW j \in Conns, Break(j) PROVE Goal
  <2> DEFINE c == conn[j]
  <2>1. c \in Objects /\ c.up \in Seq(Upwards) /\ c.down \in Seq(Downwards)
    BY <1>0 DEF Objects
  <2>2. /\ \A k \in 0 .. Len(c.down) : Fewer(c.down, SubSeq(c.down, 1, k), Data(n))
        /\ \A k \in 0 .. Len(c.up) : Fewer(c.up, SubSeq(c.up, 1, k), Data(n))
    BY <2>1, InPrefix
  <2>3. ASSUME NEW k \in 0 .. Len(c.down),
               conn' = [conn EXCEPT ![j].client = "dead", ![j].down = SubSeq(@, 1, k), ![j].hooks = <<>>]
        PROVE  Goal
    <3>1. PICK x : x = [c EXCEPT !.client = "dead", !.down = SubSeq(@, 1, k), !.hooks = <<>>]
      OBVIOUS
    <3>2. conn' = [conn EXCEPT ![j] = x]
      BY <2>3, <3>1, <1>0 DEF Typed, TypeOK
    <3>3. Thinner(n, c, x)
      <4> HIDE DEF c
      <4> QED BY <1>0, <2>1, <2>2, <3>1 DEF Thinner, Objects
    <3> QED BY <1>1, <3>2, <3>3
  <2>4. ASSUME NEW k \in 0 .. Len(c.up),
               conn' = [conn EXCEPT ![j].server = "dead", ![j].up = SubSeq(@, 1, k)]
        PROVE  Goal
    <3>1. PICK x : x = [c EXCEPT !.server = "dead", !.up = SubSeq(@, 1, k)]
      OBVIOUS
    <3>2. conn' = [conn EXCEPT ![j] = x]
      BY <2>4, <3>1, <1>0 DEF Typed, TypeOK
    <3>3. Thinner(n, c, x)
      <4> HIDE DEF c
      <4> QED BY <1>0, <2>1, <2>2, <3>1 DEF Thinner, Objects
    <3> QED BY <1>1, <3>2, <3>3
  <2> QED BY <1>10, <2>3, <2>4, Zenon DEF Break, EndBreaks
<1> QED BY <1>2, <1>3, <1>4, <1>5, <1>6, <1>7, <1>8, <1>9, <1>10 DEF Unmoving

(* Of a connection that keeps its ends, each part by itself.                *)
LEMMA PartKept ==
  ASSUME NEW n, NEW p \in Robots, NEW i \in Conns,
         conn'[i].from = conn[i].from, conn'[i].to = conn[i].to
  PROVE  /\ (conn[i].to = p /\ conn'[i].server = "none" =>
               conn[i].server = "none" /\ Fewer(conn[i].hooks, conn'[i].hooks, CallsWith(n)))
              => KeptAt(<<"hooks", i>>, n, p)
         /\ (conn[i].to = p => Fewer(conn[i].due, conn'[i].due, CallsWith(n)))
              => KeptAt(<<"due", i>>, n, p)
         /\ (conn[i].to = p => Fewer(conn[i].up, conn'[i].up, Data(n)))
              => KeptAt(<<"up", i>>, n, p)
         /\ (conn[i].from = p => Fewer(conn[i].down, conn'[i].down, Data(n)))
              => KeptAt(<<"down", i>>, n, p)
<1>1. \A D, s : Fewer(s, s, D) /\ Fewer(s, <<>>, D)
  BY NoneIn
<1>2. /\ Copies(<<"hooks", i>>, n, p) = CallsWith(n) /\ Copies(<<"due", i>>, n, p) = CallsWith(n)
      /\ Copies(<<"up", i>>, n, p) = Data(n) /\ Copies(<<"down", i>>, n, p) = Data(n)
  BY PlacesAre
<1>3. ASSUME conn[i].to = p /\ conn'[i].server = "none" =>
               conn[i].server = "none" /\ Fewer(conn[i].hooks, conn'[i].hooks, CallsWith(n))
      PROVE  KeptAt(<<"hooks", i>>, n, p)
  BY <1>1, <1>2, <1>3, ContentIs, ContentWillBe DEF KeptAt
<1>4. ASSUME conn[i].to = p => Fewer(conn[i].due, conn'[i].due, CallsWith(n))
      PROVE  KeptAt(<<"due", i>>, n, p)
  BY <1>1, <1>2, <1>4, ContentIs, ContentWillBe DEF KeptAt
<1>5. ASSUME conn[i].to = p => Fewer(conn[i].up, conn'[i].up, Data(n))
      PROVE  KeptAt(<<"up", i>>, n, p)
  BY <1>1, <1>2, <1>5, ContentIs, ContentWillBe DEF KeptAt
<1>6. ASSUME conn[i].from = p => Fewer(conn[i].down, conn'[i].down, Data(n))
      PROVE  KeptAt(<<"down", i>>, n, p)
  BY <1>1, <1>2, <1>6, ContentIs, ContentWillBe DEF KeptAt
<1> QED BY <1>3, <1>4, <1>5, <1>6

LEMMA KeptElsewhere ==
  ASSUME Typed, [Next]_vars, NEW n, n # Len(sent) + 1, NEW p \in Robots, NEW i \in Conns,
         \A j \in Conns \ {i} : conn'[j] = conn[j]
  PROVE  \A l \in Places(p) \ Parts(i) : l # <<"inbox", p>> => KeptAt(l, n, p)
<1>1. \A r \in Robots : KeptAt(<<"work", r>>, n, p)
  BY WorkKept, Zenon
<1>2. \A j \in Conns \ {i} : \A l \in Parts(j) : KeptAt(l, n, p)
  <2> SUFFICES ASSUME NEW j \in Conns \ {i} PROVE \A l \in Parts(j) : KeptAt(l, n, p)
    OBVIOUS
  <2>1. Thinner(n, conn[j], conn'[j])
    BY SameIsThinner
  <2>2. /\ KeptAt(<<"hooks", j>>, n, p) /\ KeptAt(<<"due", j>>, n, p)
        /\ KeptAt(<<"up", j>>, n, p) /\ KeptAt(<<"down", j>>, n, p)
    BY <2>1, ThinnerIsKept
  <2> QED BY <2>2 DEF Parts
<1> QED BY <1>1, <1>2, PlaceKinds

(* The first thing of one place becomes the last of another.                *)
LEMMA HeadComes ==
  ASSUME NEW n, NEW p, NEW CONSTANT a, NEW CONSTANT b, NEW S, NEW T,
         Content(a, p) \in Seq(S), Content(a, p) # <<>>, Content(a, p)' = Tail(Content(a, p)),
         Content(b, p) \in Seq(T), NEW x \in T, Content(b, p)' = Content(b, p) \o <<x>>,
         x \in Copies(b, n, p) => Head(Content(a, p)) \in Copies(a, n, p)
  PROVE  Comes(a, b, n, p)
<1>1. \A l : Copies(l, n, p)' = Copies(l, n, p)
  BY DEF Copies
<1> DEFINE A == Content(a, p)
           B == Content(b, p)
           D == Copies(a, n, p)
           E == Copies(b, n, p)
<1>2. Head(A) \in D => Has(A, D) /\ (Once(A, D) => ~Has(Tail(A), D))
  BY InTail
<1>3. /\ Has(B \o <<x>>, E) => Has(B, E) \/ x \in E
      /\ Once(B, E) /\ ~(Has(B, E) /\ x \in E) => Once(B \o <<x>>, E)
  BY WithOne
<1>4. Carries(b, n, p)' = Has(B \o <<x>>, E) /\ Carries(a, n, p)' = Has(Tail(A), D)
  BY <1>1 DEF Carries
<1>5. Once(Content(b, p), Copies(b, n, p))' = Once(B \o <<x>>, E)
  BY <1>1
<1>6. Carries(a, n, p) = Has(A, D) /\ Carries(b, n, p) = Has(B, E)
  BY DEF Carries
<1> QED BY <1>2, <1>3, <1>4, <1>5, <1>6 DEF Comes

(* A task's message is posted to the connection that it has come to.        *)
LEMMA CheckMoves ==
  ASSUME Typed, Truth, [Next]_vars, NEW n, n # Len(sent) + 1, NEW p \in Robots, OneCopy(n, p),
         NEW r \in Robots, Check(r)
  PROVE  OneCopy(n, p)'
<1> DEFINE Goal == OneCopy(n, p)'
<1> SUFFICES Goal
  OBVIOUS
<1>1. PICK t : t = Head(work[r])
  OBVIOUS
<1>2. /\ work[r] # <<>> /\ t \in Posts /\ t.do = "check" /\ TrueTask(r, t) /\ Held(r, t)
      /\ UNCHANGED inbox
  BY <1>1, HeadTrue DEF Check, Task
<1>3. PICK i : i = t.conn
  OBVIOUS
<1>4. i \in Conns /\ OtherEnd(r, i) = t.ip /\ t.ip # r /\ t.msg \in Carried
  BY <1>2, <1>3 DEF TrueTask, Held, Posts
<1> DEFINE c == conn[i]
<1>5. /\ c \in Objects /\ c.up \in Seq(Upwards) /\ c.down \in Seq(Downwards)
      /\ work[r] \in Seq(Posts \cup Greetings)
  BY <1>4 DEF Typed, TypeOK, Objects
<1>6. KeptAt(<<"inbox", p>>, n, p)
  BY <1>2, PlacesAre, NoneIn DEF KeptAt
<1>7. ASSUME \A j \in Conns : Thinner(n, conn[j], conn'[j])
      PROVE  Goal
  <2>1. \A l \in Places(p) : KeptAt(l, n, p)
    <3>1. \A j \in Conns : \A l \in Parts(j) : KeptAt(l, n, p)
      BY <1>7, ThinnerIsKept DEF Parts
    <3>2. \A q \in Robots : KeptAt(<<"work", q>>, n, p)
      BY WorkKept, Zenon
    <3> QED BY <1>6, <3>1, <3>2, PlaceKinds
  <2> QED BY <2>1, AllKept
<1>8. CASE UNCHANGED conn
  BY <1>7, <1>8, SameIsThinner
<1>9. ASSUME Rest(r),
             conn' = [conn EXCEPT ![i] = [Posted(r, i, <<t.msg>>) EXCEPT !.due = c.due]]
      PROVE  Goal
  <2>1. /\ conn'[i] = [Posted(r, i, <<t.msg>>) EXCEPT !.due = c.due]
        /\ \A j \in Conns \ {i} : conn'[j] = conn[j]
    BY <1>4, <1>9, One DEF Typed
  <2>2. work'[r] = Tail(work[r])
    BY <1>9 DEF Rest, Then, Typed, TypeOK
  <2>3. \A l \in Places(p) \ Parts(i) : l # <<"inbox", p>> => KeptAt(l, n, p)
    BY <1>4, <2>1, KeptElsewhere
  <2>4. \A D, s : Fewer(s, s, D)
    BY NoneIn
  <2>5. CASE c.from = r /\ Posted(r, i, <<t.msg>>) = [c EXCEPT !.up = @ \o <<t.msg>>]
    <3>1. conn'[i] = [c EXCEPT !.up = @ \o <<t.msg>>] /\ c.to = t.ip
      <4>1. conn'[i] = [[c EXCEPT !.up = @ \o <<t.msg>>] EXCEPT !.due = c.due]
        BY <2>1, <2>5
      <4>2. c.to = t.ip
        BY <1>4, <2>5 DEF OtherEnd
      <4> HIDE DEF c
      <4> QED BY <4>1, <4>2, <1>5 DEF Objects
    <3>2. /\ conn'[i].from = c.from /\ conn'[i].to = c.to /\ conn'[i].down = c.down
          /\ conn'[i].hooks = c.hooks /\ conn'[i].due = c.due /\ conn'[i].server = c.server
          /\ conn'[i].up = c.up \o <<t.msg>>
      <4> HIDE DEF c
      <4> QED BY <3>1, <1>5 DEF Objects
    <3>3. KeptAt(<<"hooks", i>>, n, p) /\ KeptAt(<<"due", i>>, n, p) /\ KeptAt(<<"down", i>>, n, p)
      BY <1>4, <2>4, <3>2, PartKept
    <3>4. CASE c.to # p
      <4>1. KeptAt(<<"up", i>>, n, p)
        BY <1>4, <3>2, <3>4, PartKept
      <4>2. \A l \in Places(p) : KeptAt(l, n, p)
        BY <1>6, <2>3, <3>3, <4>1 DEF Parts
      <4> QED BY <4>2, AllKept
    <3>5. CASE c.to = p
      <4> DEFINE a == <<"work", r>>
                 b == <<"up", i>>
      <4>1. a \in Places(p) /\ b \in Places(p) /\ a # b
            /\ Copies(a, n, p) = Errands(n, p) /\ Copies(b, n, p) = Data(n)
            /\ Content(a, p) = work[r] /\ Content(a, p)' = work'[r]
        BY <1>4, PlacesAre
      <4>2. Content(b, p) = c.up /\ Content(b, p)' = c.up \o <<t.msg>>
        BY <1>4, <3>2, <3>5, ContentIs, ContentWillBe
      <4>3. t.msg \in Data(n) => t \in Errands(n, p)
        BY <1>2, <3>1, <3>5 DEF Data, Errands
      <4>4. t.msg \in Upwards
        BY <1>4 DEF Upwards
      <4> HIDE DEF a, b, c
      <4>5. Comes(a, b, n, p)
        BY <1>1, <1>2, <1>5, <2>2, <4>1, <4>2, <4>3, <4>4, HeadComes
      <4>6. \A l \in Places(p) : l # b => KeptAt(l, n, p)
        BY <1>6, <2>3, <3>3 DEF Parts, b
      <4> QED BY <4>1, <4>5, <4>6, HandedOver
    <3> QED BY <3>4, <3>5
  <2>6. CASE c.to = r /\ Posted(r, i, <<t.msg>>) = [c EXCEPT !.down = @ \o <<t.msg>>]
    <3>0. c.from = t.ip
      <4>1. Stage(c) /\ (c.from = r \/ c.from = t.ip)
        BY <1>4 DEF OtherEnd, Typed, Stages
      <4> QED BY <1>4, <2>6, <4>1 DEF Stage, NoConn, OtherEnd
    <3>1. conn'[i] = [c EXCEPT !.down = @ \o <<t.msg>>]
      <4>1. conn'[i] = [[c EXCEPT !.down = @ \o <<t.msg>>] EXCEPT !.due = c.due]
        BY <2>1, <2>6
      <4> HIDE DEF c
      <4> QED BY <4>1, <1>5 DEF Objects
    <3>2. /\ conn'[i].from = c.from /\ conn'[i].to = c.to /\ conn'[i].up = c.up
          /\ conn'[i].hooks = c.hooks /\ conn'[i].due = c.due /\ conn'[i].server = c.server
          /\ conn'[i].down = c.down \o <<t.msg>>
      <4> HIDE DEF c
      <4> QED BY <3>1, <1>5 DEF Objects
    <3>3. KeptAt(<<"hooks", i>>, n, p) /\ KeptAt(<<"due", i>>, n, p) /\ KeptAt(<<"up", i>>, n, p)
      BY <1>4, <2>4, <3>2, PartKept
    <3>4. CASE c.from # p
      <4>1. KeptAt(<<"down", i>>, n, p)
        BY <1>4, <3>2, <3>4, PartKept
      <4>2. \A l \in Places(p) : KeptAt(l, n, p)
        BY <1>6, <2>3, <3>3, <4>1 DEF Parts
      <4> QED BY <4>2, AllKept
    <3>5. CASE c.from = p
      <4> DEFINE a == <<"work", r>>
                 b == <<"down", i>>
      <4>1. a \in Places(p) /\ b \in Places(p) /\ a # b
            /\ Copies(a, n, p) = Errands(n, p) /\ Copies(b, n, p) = Data(n)
            /\ Content(a, p) = work[r] /\ Content(a, p)' = work'[r]
        BY <1>4, PlacesAre
      <4>2. Content(b, p) = c.down /\ Content(b, p)' = c.down \o <<t.msg>>
        BY <1>4, <3>2, <3>5, ContentIs, ContentWillBe
      <4>3. t.msg \in Data(n) => t \in Errands(n, p)
        BY <1>2, <3>0, <3>5 DEF Data, Errands
      <4>4. t.msg \in Downwards
        BY <1>4 DEF Downwards
      <4> HIDE DEF a, b, c
      <4>5. Comes(a, b, n, p)
        BY <1>1, <1>2, <1>5, <2>2, <4>1, <4>2, <4>3, <4>4, HeadComes
      <4>6. \A l \in Places(p) : l # b => KeptAt(l, n, p)
        BY <1>6, <2>3, <3>3 DEF Parts, b
      <4> QED BY <4>1, <4>5, <4>6, HandedOver
    <3> QED BY <3>4, <3>5
  <2>7. CASE Posted(r, i, <<t.msg>>) = c
    <3>1. conn'[i] = c
      <4>1. conn'[i] = [c EXCEPT !.due = c.due]
        BY <2>1, <2>7
      <4> HIDE DEF c
      <4> QED BY <4>1, <1>5 DEF Objects
    <3>2. \A j \in Conns : conn'[j] = conn[j]
      BY <2>1, <3>1
    <3> QED BY <1>7, <3>2, SameIsThinner
  <2> QED BY <2>5, <2>6, <2>7, PostedAt
<1> QED BY <1>1, <1>3, <1>8, <1>9 DEF Check, Reached

(* A task's message is hooked to the signal of a connection.                *)
LEMMA HookMoves ==
  ASSUME Typed, Truth, [Next]_vars, NEW n, n # Len(sent) + 1, NEW p \in Robots, OneCopy(n, p),
         NEW r \in Robots, Hook(r)
  PROVE  OneCopy(n, p)'
<1>1. PICK t : t = Head(work[r])
  OBVIOUS
<1>2. /\ work[r] # <<>> /\ t \in Posts /\ t.do = "hook" /\ TrueTask(r, t) /\ Held(r, t)
      /\ UNCHANGED inbox /\ Rest(r)
  BY <1>1, HeadTrue DEF Hook, Task
<1>3. PICK i : i = t.conn
  OBVIOUS
<1>4. /\ i \in Conns /\ OtherEnd(r, i) = t.ip /\ (Calls(r, i) \/ Serves(r, i))
      /\ t.msg \in Carried /\ t.hull \in Hulls
  BY <1>2, <1>3 DEF TrueTask, Held, Posts
<1> DEFINE c == conn[i]
           call == <<t.hull, t.msg>>
<1>5. c \in Objects /\ c.hooks \in Seq(Hulls \X Carried) /\ call \in Hulls \X Carried
      /\ work[r] \in Seq(Posts \cup Greetings)
  BY <1>4 DEF Typed, TypeOK, Objects
<1>6. KeptAt(<<"inbox", p>>, n, p)
  BY <1>2, PlacesAre, NoneIn DEF KeptAt
<1>7. /\ conn'[i] = [c EXCEPT !.hooks = c.hooks \o <<call>>]
      /\ \A j \in Conns \ {i} : conn'[j] = conn[j]
  <2>1. conn' = [conn EXCEPT ![i].hooks = Append(@, call)]
    BY <1>1, <1>3 DEF Hook
  <2>2. Append(c.hooks, call) = c.hooks \o <<call>>
    BY <1>5, WithOne, SMTT(40)
  <2>3. conn' = [conn EXCEPT ![i] = [c EXCEPT !.hooks = Append(c.hooks, call)]]
    BY <1>4, <2>1 DEF Typed, TypeOK
  <2> QED BY <1>4, <2>2, <2>3, One DEF Typed
<1>8. /\ conn'[i].from = c.from /\ conn'[i].to = c.to /\ conn'[i].up = c.up
      /\ conn'[i].down = c.down /\ conn'[i].due = c.due /\ conn'[i].server = c.server
      /\ conn'[i].hooks = c.hooks \o <<call>>
  <2> HIDE DEF c
  <2> QED BY <1>5, <1>7 DEF Objects
<1>9. work'[r] = Tail(work[r])
  BY <1>2 DEF Rest, Then, Typed, TypeOK
<1>10. \A l \in Places(p) \ Parts(i) : l # <<"inbox", p>> => KeptAt(l, n, p)
  BY <1>4, <1>7, KeptElsewhere
<1>11. KeptAt(<<"due", i>>, n, p) /\ KeptAt(<<"up", i>>, n, p) /\ KeptAt(<<"down", i>>, n, p)
  <2>1. \A D, s : Fewer(s, s, D)
    BY NoneIn
  <2> QED BY <1>4, <1>8, <2>1, PartKept
<1>12. CASE ~(c.to = p /\ c.server = "none")
  <2>1. KeptAt(<<"hooks", i>>, n, p)
    BY <1>4, <1>8, <1>12, PartKept
  <2>2. \A l \in Places(p) : KeptAt(l, n, p)
    BY <1>6, <1>10, <1>11, <2>1 DEF Parts
  <2> QED BY <2>2, AllKept
<1>13. CASE c.to = p /\ c.server = "none"
  <2> DEFINE a == <<"work", r>>
             b == <<"hooks", i>>
  <2>1. a \in Places(p) /\ b \in Places(p) /\ a # b
        /\ Copies(a, n, p) = Errands(n, p) /\ Copies(b, n, p) = CallsWith(n)
        /\ Content(a, p) = work[r] /\ Content(a, p)' = work'[r]
    BY <1>4, PlacesAre
  <2>2. Content(b, p) = c.hooks /\ Content(b, p)' = c.hooks \o <<call>>
    BY <1>4, <1>8, <1>13, ContentIs, ContentWillBe
  <2>3. t.ip = p
    BY <1>4, <1>13 DEF OtherEnd, Calls, Serves
  <2>4. call \in CallsWith(n) => t \in Errands(n, p)
    BY <1>2, <2>3 DEF CallsWith, Data, Errands
  <2> HIDE DEF a, b, c, call
  <2>5. Comes(a, b, n, p)
    BY <1>1, <1>2, <1>5, <1>9, <2>1, <2>2, <2>4, HeadComes
  <2>6. \A l \in Places(p) : l # b => KeptAt(l, n, p)
    BY <1>6, <1>10, <1>11 DEF Parts, b
  <2> QED BY <2>1, <2>5, <2>6, HandedOver
<1> QED BY <1>12, <1>13

(* A hooked message is posted, by its call.                                 *)
LEMMA ConnectedMoves ==
  ASSUME Typed, Truth, [Next]_vars, NEW n, n # Len(sent) + 1, NEW p \in Robots, OneCopy(n, p),
         NEW r \in Robots, Connected(r)
  PROVE  OneCopy(n, p)'
<1>1. PICK i, call :
        /\ i \in Conns /\ conn[i].from = r /\ conn[i].due # <<>> /\ call = Head(conn[i].due)
        /\ conn' = [conn EXCEPT ![i] = [Posted(r, i, <<call[2]>>) EXCEPT !.due = Tail(@)]]
  BY DEF Connected
<1> DEFINE c == conn[i]
           x == call[2]
           d == conn'[i]
<1>2. /\ c \in Objects /\ c.up \in Seq(Upwards) /\ c.due \in Seq(Hulls \X Carried)
      /\ call \in Hulls \X Carried /\ Stage(c)
  <2>1. c \in Objects /\ c.up \in Seq(Upwards) /\ c.due \in Seq(Hulls \X Carried) /\ Stage(c)
    BY <1>1, SMTT(40) DEF Typed, TypeOK, Objects, Stages
  <2> QED BY <1>1, <2>1, HeadAndTail
<1>3. x \in Carried /\ x \in Upwards
  BY <1>2 DEF Upwards
<1>4. d = [Posted(r, i, <<x>>) EXCEPT !.due = Tail(@)] /\ \A j \in Conns \ {i} : conn'[j] = conn[j]
  BY <1>1, One DEF Typed
<1>5. KeptAt(<<"inbox", p>>, n, p)
  <2>1. UNCHANGED inbox
    BY DEF Connected
  <2> QED BY <2>1, PlacesAre, NoneIn DEF KeptAt
<1>6. \A l \in Places(p) \ Parts(i) : l # <<"inbox", p>> => KeptAt(l, n, p)
  BY <1>1, <1>4, KeptElsewhere
<1>7. c.from # c.to
  BY <1>1, <1>2 DEF Stage, NoConn
<1>8. /\ d.from = c.from /\ d.to = c.to /\ d.down = c.down /\ d.hooks = c.hooks
      /\ d.server = c.server /\ d.due = Tail(c.due) /\ (d.up = c.up \o <<x>> \/ d.up = c.up)
  <2>1. Posted(r, i, <<x>>) = [c EXCEPT !.up = @ \o <<x>>] \/ Posted(r, i, <<x>>) = c
    BY <1>1, <1>7, PostedAt, ZenonT(60)
  <2>2. PICK u : u \in {c.up, c.up \o <<x>>} /\ Posted(r, i, <<x>>) = [c EXCEPT !.up = u]
    <3> HIDE DEF c, x, d
    <3>1. c = [c EXCEPT !.up = c.up]
      BY <1>2 DEF Objects
    <3> QED BY <2>1, <3>1
  <2>3. d = [[c EXCEPT !.up = u] EXCEPT !.due = Tail(@)]
    BY <1>4, <2>2, Zenon
  <2> HIDE DEF c, x, d
  <2> QED BY <1>2, <2>2, <2>3 DEF Objects
<1>9. \A D, s : Fewer(s, s, D)
  BY NoneIn
<1>10. KeptAt(<<"hooks", i>>, n, p) /\ KeptAt(<<"down", i>>, n, p)
  BY <1>1, <1>8, <1>9, PartKept, ZenonT(60)
<1>11. KeptAt(<<"due", i>>, n, p)
  <2>1. Fewer(c.due, Tail(c.due), CallsWith(n))
    BY <1>1, <1>2, InTail, SMTT(40)
  <2> QED BY <1>1, <1>8, <2>1, PartKept, ZenonT(60)
<1>12. CASE c.to # p \/ d.up = c.up
  <2>1. KeptAt(<<"up", i>>, n, p)
    BY <1>1, <1>8, <1>9, <1>12, PartKept, Zenon
  <2>2. \A l \in Places(p) : KeptAt(l, n, p)
    BY <1>5, <1>6, <1>10, <1>11, <2>1 DEF Parts
  <2> QED BY <2>2, AllKept
<1>13. CASE c.to = p /\ d.up = c.up \o <<x>>
  <2> DEFINE a == <<"due", i>>
             b == <<"up", i>>
  <2>1. a \in Places(p) /\ b \in Places(p) /\ a # b
        /\ Copies(a, n, p) = CallsWith(n) /\ Copies(b, n, p) = Data(n)
    BY <1>1, PlacesAre, Zenon
  <2>2. /\ Content(a, p) = c.due /\ Content(a, p)' = Tail(c.due)
        /\ Content(b, p) = c.up /\ Content(b, p)' = c.up \o <<x>>
    BY <1>1, <1>8, <1>13, ContentIs, ContentWillBe, Zenon
  <2>3. x \in Data(n) => call \in CallsWith(n)
    BY <1>2 DEF CallsWith
  <2> HIDE DEF a, b, c, d, x
  <2>4. Comes(a, b, n, p)
    BY <1>1, <1>2, <1>3, <2>1, <2>2, <2>3, HeadComes DEF c
  <2>5. \A l \in Places(p) : l # b => KeptAt(l, n, p)
    BY <1>5, <1>6, <1>10, <1>11 DEF Parts, b
  <2> QED BY <2>1, <2>4, <2>5, HandedOver
<1> QED BY <1>8, <1>12, <1>13

(* The signal is emitted: what was hooked to it will be called.             *)
LEMMA OpenMoves ==
  ASSUME Typed, [Next]_vars, NEW n, n # Len(sent) + 1, NEW p \in Robots, OneCopy(n, p),
         NEW i \in Conns, Open(i)
  PROVE  OneCopy(n, p)'
<1> DEFINE c == conn[i]
           d == conn'[i]
           a == <<"hooks", i>>
           b == <<"due", i>>
<1>1. c \in Objects /\ c.server = "none"
  BY DEF Typed, TypeOK, Stages, Stage, Open
<1>2. /\ d = [c EXCEPT !.client = "open", !.server = "open", !.due = c.hooks, !.hooks = <<>>]
      /\ \A j \in Conns \ {i} : conn'[j] = conn[j]
  BY DEF Open, Typed, TypeOK
<1>3. /\ d.from = c.from /\ d.to = c.to /\ d.up = c.up /\ d.down = c.down
      /\ d.server = "open" /\ d.due = c.hooks
  <2> HIDE DEF c, d
  <2> QED BY <1>1, <1>2 DEF Objects
<1>4. KeptAt(<<"inbox", p>>, n, p)
  <2>1. UNCHANGED inbox
    BY DEF Open
  <2> QED BY <2>1, PlacesAre, NoneIn DEF KeptAt
<1>5. \A l \in Places(p) \ Parts(i) : l # <<"inbox", p>> => KeptAt(l, n, p)
  BY <1>2, KeptElsewhere
<1>6. KeptAt(<<"hooks", i>>, n, p) /\ KeptAt(<<"up", i>>, n, p) /\ KeptAt(<<"down", i>>, n, p)
  <2>1. \A D, s : Fewer(s, s, D)
    BY NoneIn
  <2> QED BY <1>3, <2>1, PartKept
<1>7. a \in Places(p) /\ b \in Places(p) /\ a # b
      /\ Copies(a, n, p) = CallsWith(n) /\ Copies(b, n, p) = CallsWith(n)
  BY PlacesAre
<1>8. Content(a, p)' = <<>> /\ Content(b, p)' = Content(a, p)
  <2>1. /\ Content(<<"hooks", i>>, p) = IF c.to = p THEN c.hooks ELSE <<>>
        /\ Content(<<"hooks", i>>, p)' = <<>>
    BY <1>1, <1>3, ContentIs, ContentWillBe
  <2>2. Content(<<"due", i>>, p)' = IF c.to = p THEN c.hooks ELSE <<>>
    BY <1>3, ContentWillBe
  <2> QED BY <2>1, <2>2
<1> HIDE DEF a, b, c, d
<1>9. Comes(a, b, n, p)
  <2>1. Copies(a, n, p)' = Copies(a, n, p) /\ Copies(b, n, p)' = Copies(b, n, p)
    BY DEF Copies
  <2>2. ~Has(<<>>, CallsWith(n))
    BY NoneIn
  <2>3. ~Carries(a, n, p)'
    BY <1>7, <1>8, <2>1, <2>2 DEF Carries
  <2>4. Carries(b, n, p)' = Carries(a, n, p)
    BY <1>7, <1>8, <2>1 DEF Carries
  <2>5. Once(Content(b, p), Copies(b, n, p))' = Once(Content(a, p), Copies(a, n, p))
    BY <1>7, <1>8, <2>1
  <2> QED BY <2>3, <2>4, <2>5 DEF Comes
<1>10. \A l \in Places(p) : l # b => KeptAt(l, n, p)
  BY <1>4, <1>5, <1>6 DEF Parts, a, b
<1> QED BY <1>7, <1>9, <1>10, HandedOver

(* What a connection brings is put into the inbox.                          *)
LEMMA DataMoves ==
  ASSUME Typed, [Next]_vars, NEW n, n # Len(sent) + 1, NEW p \in Robots, OneCopy(n, p),
         NEW r \in Robots, NEW i \in Conns, OnNewData(r, i)
  PROVE  OneCopy(n, p)'
<1> DEFINE c == conn[i]
           m == Head(Incoming(r, i))
<1>1. Incoming(r, i) # <<>> /\ m[1] = "data"
  BY DEF OnNewData, Gets
<1>2. /\ \A j \in Conns : Thinner(n, conn[j], conn'[j])
      /\ \A j \in Conns \ {i} : conn'[j] = conn[j]
      /\ \/ /\ c.to # r /\ c.from = r /\ conn'[i] = [c EXCEPT !.down = Tail(@)]
            /\ Incoming(r, i) = c.down
         \/ /\ c.from # r /\ c.to = r /\ conn'[i] = [c EXCEPT !.up = Tail(@)]
            /\ Incoming(r, i) = c.up
  <2>1. Takes(r, i, conn[i])
    BY DEF OnNewData
  <2>2. Incoming(r, i) # <<>>
    BY <1>1
  <2>3. \A j \in Conns : Thinner(n, conn[j], conn'[j])
    BY <2>1, <2>2, TakenThins
  <2>4. \A j \in Conns \ {i} : conn'[j] = conn[j]
    BY <2>1, OthersUntaken
  <2>5. \/ /\ conn[i].to # r /\ conn[i].from = r
           /\ conn'[i] = [conn[i] EXCEPT !.down = Tail(@)]
           /\ Incoming(r, i) = conn[i].down
        \/ /\ conn[i].from # r /\ conn[i].to = r
           /\ conn'[i] = [conn[i] EXCEPT !.up = Tail(@)]
           /\ Incoming(r, i) = conn[i].up
    BY <2>1, <2>2, Taken
  <2> QED BY <2>3, <2>4, <2>5
<1>3. /\ c \in Objects /\ c.up \in Seq(Upwards \cup Downwards)
      /\ c.down \in Seq(Upwards \cup Downwards)
      /\ inbox[p] \in Seq([m : 1 .. MaxSends, sender : Hulls \cup {NoHull}])
  <2>1. c \in Objects /\ c.up \in Seq(Upwards) /\ c.down \in Seq(Downwards)
    BY DEF Typed, TypeOK, Objects
  <2> QED BY <2>1, SeqMonotonic DEF Typed, TypeOK
<1>4. m = <<"data", m[2]>> /\ m[2] \in 1 .. MaxSends
  <2>1. m \in Upwards \cup Downwards
    BY <1>1, <1>2, <1>3, HeadAndTail
  <2> QED BY <1>1, <2>1 DEF Upwards, Downwards, Carried
<1>5. PICK h : h \in Hulls \cup {NoHull}
               /\ inbox' = [inbox EXCEPT ![r] = Append(@, [m |-> m[2], sender |-> h])]
  <2> DEFINE peer == IF conn[i].from = r THEN <<conn[i].to, ServerPort>> ELSE <<conn[i].from, i>>
             senders == {e.hull : e \in {e \in known[r] : <<e.ip, e.port>> = peer}}
  <2>1. senders \subseteq Hulls
    BY DEF Typed, TypeOK, Endpoints
  <2> HIDE DEF senders
  <2>2. (IF senders = {} THEN NoHull ELSE CHOOSE x \in senders : TRUE) \in Hulls \cup {NoHull}
    BY <2>1
  <2> QED BY <2>2 DEF OnNewData, senders
<1>6. \A l \in Places(p) : l # <<"inbox", p>> => KeptAt(l, n, p)
  <2>1. \A j \in Conns : \A l \in Parts(j) : KeptAt(l, n, p)
    <3>1. \A j \in Conns : Thinner(n, conn[j], conn'[j])
      BY <1>2
    <3> QED BY <3>1, ThinnerIsKept DEF Parts
  <2>2. \A q \in Robots : KeptAt(<<"work", q>>, n, p)
    BY WorkKept, Zenon
  <2> QED BY <2>1, <2>2, PlaceKinds
<1>7. CASE r # p
  <2>1. inbox'[p] = inbox[p]
    BY <1>5, <1>7 DEF Typed, TypeOK
  <2>2. KeptAt(<<"inbox", p>>, n, p)
    BY <2>1, PlacesAre, NoneIn DEF KeptAt
  <2>3. \A l \in Places(p) : KeptAt(l, n, p)
    BY <1>6, <2>2
  <2> QED BY <2>3, AllKept
<1>8. CASE r = p
  <2>1. PICK x : x = [m |-> m[2], sender |-> h]
    OBVIOUS
  <2>2. /\ inbox'[p] = inbox[p] \o <<x>> /\ x \in [m : 1 .. MaxSends, sender : Hulls \cup {NoHull}]
        /\ x \in Letters(n) => m \in Data(n)
    <3>1. inbox'[p] = Append(inbox[p], x)
      BY <1>5, <1>8, <2>1 DEF Typed, TypeOK
    <3>2. x \in [m : 1 .. MaxSends, sender : Hulls \cup {NoHull}]
      BY <1>4, <1>5, <2>1
    <3>3. x.m = m[2]
      BY <2>1
    <3>4. x \in Letters(n) => m[2] = n
      BY <3>3 DEF Letters
    <3>5. x \in Letters(n) => m \in Data(n)
      BY <1>4, <3>4 DEF Data
    <3>6. Append(inbox[p], x) = inbox[p] \o <<x>>
      BY <1>3, <3>2, WithOne
    <3> QED BY <3>1, <3>2, <3>5, <3>6
  <2> DEFINE b == <<"inbox", p>>
  <2>3. /\ b \in Places(p) /\ Copies(b, n, p) = Letters(n)
        /\ Content(b, p) = inbox[p] /\ Content(b, p)' = inbox'[p]
    BY PlacesAre
  <2>4. ASSUME NEW CONSTANT a, a \in Places(p), a # b, Copies(a, n, p) = Data(n),
               Content(a, p) = Incoming(r, i), Content(a, p)' = Tail(Incoming(r, i))
        PROVE  OneCopy(n, p)'
    <3>1. Incoming(r, i) \in Seq(Upwards \cup Downwards)
      BY <1>2, <1>3
    <3> HIDE DEF b
    <3>2. Comes(a, b, n, p)
      BY <1>1, <1>3, <2>2, <2>3, <2>4, <3>1, HeadComes, ZenonT(60)
    <3> QED BY <1>6, <2>3, <2>4, <3>2, HandedOver DEF b
  <2>5. CASE /\ c.from = r /\ conn'[i] = [c EXCEPT !.down = Tail(@)] /\ Incoming(r, i) = c.down
    <3> DEFINE a == <<"down", i>>
    <3>1. a \in Places(p) /\ a # b /\ Copies(a, n, p) = Data(n)
      BY PlacesAre
    <3>2. conn'[i].from = r /\ conn'[i].down = Tail(c.down)
      <4> HIDE DEF c
      <4> QED BY <1>3, <2>5 DEF Objects
    <3>3. Content(a, p) = Incoming(r, i) /\ Content(a, p)' = Tail(Incoming(r, i))
      BY <1>8, <2>5, <3>2, ContentIs, ContentWillBe
    <3> HIDE DEF a, b
    <3> QED BY <2>4, <3>1, <3>3
  <2>6. CASE /\ c.to = r /\ conn'[i] = [c EXCEPT !.up = Tail(@)] /\ Incoming(r, i) = c.up
    <3> DEFINE a == <<"up", i>>
    <3>1. a \in Places(p) /\ a # b /\ Copies(a, n, p) = Data(n)
      BY PlacesAre
    <3>2. conn'[i].to = r /\ conn'[i].up = Tail(c.up)
      <4> HIDE DEF c
      <4> QED BY <1>3, <2>6 DEF Objects
    <3>3. Content(a, p) = Incoming(r, i) /\ Content(a, p)' = Tail(Incoming(r, i))
      BY <1>8, <2>6, <3>2, ContentIs, ContentWillBe
    <3> HIDE DEF a, b
    <3> QED BY <2>4, <3>1, <3>3
  <2> QED BY <1>2, <2>5, <2>6
<1> QED BY <1>7, <1>8

(* What nobody has sent is nowhere.                                         *)
LEMMA UnsentIsNowhere ==
  ASSUME Typed, Truth, NEW n, n \notin DOMAIN sent, NEW p \in Robots
  PROVE  \A l \in Places(p) : ~Carries(l, n, p)
<1>1. \A r \in Robots : ~Carries(<<"work", r>>, n, p)
  <2>0. \A r \in Robots : Carries(<<"work", r>>, n, p) = Has(work[r], Errands(n, p))
    BY PlacesAre, Zenon DEF Carries
  <2> SUFFICES ASSUME NEW r \in Robots, NEW j \in DOMAIN work[r], work[r][j] \in Errands(n, p)
               PROVE  FALSE
    BY <2>0, Zenon DEF Has
  <2>1. work[r] \in Seq(TrueTasks(r))
    BY DEF Truth
  <2>2. PICK t : t = work[r][j]
    OBVIOUS
  <2>3. t \in TrueTasks(r)
    BY <2>1, <2>2
  <2>4. t \in Posts /\ t.msg = <<"data", n>> /\ t.do # "greet"
    BY <2>2 DEF Errands, Posts
  <2> QED BY <2>3, <2>4 DEF TrueTasks, TrueTask, Said
<1>2. ~Carries(<<"inbox", p>>, n, p)
  <2> SUFFICES ASSUME NEW j \in DOMAIN inbox[p], inbox[p][j] \in Letters(n) PROVE FALSE
    BY PlacesAre DEF Carries, Has
  <2>1. inbox[p] \in Seq(TrueLetters)
    BY DEF Truth
  <2>2. PICK x : x = inbox[p][j]
    OBVIOUS
  <2>3. x \in TrueLetters
    BY <2>1, <2>2
  <2> QED BY <2>2, <2>3 DEF TrueLetters, Letters
<1>3. ASSUME NEW i \in Conns PROVE \A l \in Parts(i) : ~Carries(l, n, p)
  <2> DEFINE c == conn[i]
  <2>1. TrueWire(c)
    BY <1>3 DEF Truth
  <2>2. \A q : <<"data", n>> \notin Said(q)
    BY DEF Said
  <2>3. \A q : \A s \in Seq(Said(q)) : ~Has(s, Data(n))
    <3> SUFFICES ASSUME NEW q, NEW s \in Seq(Said(q)), NEW j \in DOMAIN s, s[j] \in Data(n)
                 PROVE  FALSE
      BY DEF Has
    <3>1. s[j] \in Said(q)
      OBVIOUS
    <3> QED BY <2>2, <3>1 DEF Data
  <2>4. \A q, o : \A s \in Seq(CallsOf(q, o)) : ~Has(s, CallsWith(n))
    <3> SUFFICES ASSUME NEW q, NEW o, NEW s \in Seq(CallsOf(q, o)), NEW j \in DOMAIN s,
                        s[j] \in CallsWith(n)
                 PROVE  FALSE
      BY DEF Has
    <3>1. PICK x : x = s[j]
      OBVIOUS
    <3>2. x \in CallsOf(q, o) /\ x \in CallsWith(n)
      BY <3>1
    <3>3. x[2] \in Said(q) /\ x[2] = <<"data", n>>
      BY <3>2 DEF CallsOf, CallsWith, Data
    <3> QED BY <2>2, <3>3
  <2>5. ~Has(<<>>, CallsWith(n)) /\ ~Has(<<>>, Data(n))
    BY NoneIn
  <2>6. /\ Copies(<<"hooks", i>>, n, p) = CallsWith(n) /\ Copies(<<"due", i>>, n, p) = CallsWith(n)
        /\ Copies(<<"up", i>>, n, p) = Data(n) /\ Copies(<<"down", i>>, n, p) = Data(n)
    BY <1>3, PlacesAre
  <2>7. ~Has(c.up, Data(n)) /\ ~Has(c.down, Data(n)) /\ ~Has(c.due, CallsWith(n))
        /\ (c.server = "none" => ~Has(c.hooks, CallsWith(n)))
    <3> HIDE DEF c
    <3> QED BY <2>1, <2>3, <2>4 DEF TrueWire
  <2>8. ~Carries(<<"hooks", i>>, n, p)
    BY <1>3, <2>5, <2>6, <2>7, ContentIs DEF Carries
  <2>9. ~Carries(<<"due", i>>, n, p)
    BY <1>3, <2>5, <2>6, <2>7, ContentIs DEF Carries
  <2>10. ~Carries(<<"up", i>>, n, p)
    BY <1>3, <2>5, <2>6, <2>7, ContentIs DEF Carries
  <2>11. ~Carries(<<"down", i>>, n, p)
    BY <1>3, <2>5, <2>6, <2>7, ContentIs DEF Carries
  <2> QED BY <2>8, <2>9, <2>10, <2>11 DEF Parts
<1> QED BY <1>1, <1>2, <1>3, PlaceKinds

(* A message that is sent just now is with its sender's tasks, one for each *)
(* robot that it goes to.                                                  *)
LEMMA SendComes ==
  ASSUME Typed, Truth, NEW n, n \notin DOMAIN sent, NEW p \in Robots,
         NEW r \in Robots, NEW entries \in SUBSET known[r], Send(r, entries)
  PROVE  OneCopy(n, p)'
<1> DEFINE a == <<"work", r>>
<1>1. \A l : Copies(l, n, p)' = Copies(l, n, p)
  BY DEF Copies
<1>2. \A l \in Places(p)' : l \in Places(p)
  BY DEF Places
<1>3. UNCHANGED <<conn, inbox>> /\ \E m : work' = [work EXCEPT ![r] = Tasks(r, entries, m)]
  BY DEF Send, Then
<1>4. \A l \in Places(p) : l # a => Content(l, p)' = Content(l, p)
  <2>1. \A q \in Robots : q # r => Content(<<"work", q>>, p)' = Content(<<"work", q>>, p)
    <3>1. \A q \in Robots : q # r => work'[q] = work[q]
      BY <1>3 DEF Typed, TypeOK
    <3>2. \A q \in Robots : /\ Content(<<"work", q>>, p) = work[q]
                            /\ Content(<<"work", q>>, p)' = work'[q]
      BY PlacesAre, Zenon
    <3> QED BY <3>1, <3>2
  <2>2. Content(<<"inbox", p>>, p)' = Content(<<"inbox", p>>, p)
    BY <1>3, PlacesAre
  <2>3. ASSUME NEW i \in Conns PROVE \A l \in Parts(i) : Content(l, p)' = Content(l, p)
    <3>1. /\ Content(<<"hooks", i>>, p)' = Content(<<"hooks", i>>, p)
          /\ Content(<<"due", i>>, p)' = Content(<<"due", i>>, p)
      BY <1>3 DEF Content
    <3>2. /\ Content(<<"up", i>>, p)' = Content(<<"up", i>>, p)
          /\ Content(<<"down", i>>, p)' = Content(<<"down", i>>, p)
      BY <1>3 DEF Content
    <3> QED BY <3>1, <3>2 DEF Parts
  <2> QED BY <2>1, <2>2, <2>3, PlaceKinds
<1>5. \A l \in Places(p) : l # a => ~Carries(l, n, p)'
  BY <1>1, <1>4, UnsentIsNowhere DEF Carries
<1>6. Once(Content(a, p)', Copies(a, n, p))
  <2>1. PICK m : work' = [work EXCEPT ![r] = Tasks(r, entries, m)]
    BY <1>3
  <2>2. Table(r, entries)
    <3>1. Table(r, known[r])
      BY DEF Typed, Tables
    <3> QED BY <3>1, FS_Subset DEF Table
  <2>3. work'[r] = Tasks(r, entries, m)
    BY <2>1 DEF Typed, TypeOK
  <2>4. Once(work'[r], Errands(n, p))
    BY <2>2, <2>3, TasksOnce
  <2> QED BY <2>4, PlacesAre
<1>7. \A l \in Places(p) : Once(Content(l, p)', Copies(l, n, p))
  <2>1. \A s, D : ~Has(s, D) => Once(s, D)
    BY DEF Has, Once
  <2>2. \A l \in Places(p) : l # a => ~Has(Content(l, p)', Copies(l, n, p))
    BY <1>1, <1>5 DEF Carries
  <2> QED BY <1>6, <2>1, <2>2
<1> HIDE DEF a
<1> QED BY <1>1, <1>2, <1>5, <1>7 DEF OneCopy

(* What was sent before goes on, in whatever step, in one copy.             *)
LEMMA CopyGoesOn ==
  ASSUME Typed, Truth, [Next]_vars, \A r \in Robots : ~Restart(r),
         NEW n \in DOMAIN sent, NEW p \in Robots, OneCopy(n, p)
  PROVE  OneCopy(n, p)'
<1> DEFINE Goal == OneCopy(n, p)'
<1> SUFFICES Goal
  OBVIOUS
<1>1. n # Len(sent) + 1
  BY LenProperties DEF Typed, TypeOK
<1>2. ASSUME Unmoving, UNCHANGED inbox PROVE Goal
  <2>1. \A i \in Conns : Thinner(n, conn[i], conn'[i])
    BY <1>2, UnmovingThins
  <2>2. KeptAt(<<"inbox", p>>, n, p)
    BY <1>2, PlacesAre, NoneIn DEF KeptAt
  <2>3. \A i \in Conns : \A l \in Parts(i) : KeptAt(l, n, p)
    BY <2>1, ThinnerIsKept DEF Parts
  <2>4. \A r \in Robots : KeptAt(<<"work", r>>, n, p)
    BY <1>1, WorkKept, Zenon
  <2>5. \A l \in Places(p) : KeptAt(l, n, p)
    BY <2>2, <2>3, <2>4, PlaceKinds
  <2> QED BY <2>5, AllKept
<1>3. ASSUME NEW r \in Robots, Check(r) \/ Hook(r) \/ Connected(r) PROVE Goal
  BY <1>1, <1>3, CheckMoves, HookMoves, ConnectedMoves
<1>4. ASSUME NEW r \in Robots, NEW i \in Conns, OnNewData(r, i) PROVE Goal
  BY <1>1, <1>4, DataMoves
<1>5. ASSUME NEW i \in Conns, Open(i) PROVE Goal
  BY <1>1, <1>5, OpenMoves
<1> HIDE DEF Goal
<1>6. ASSUME NEW r \in Robots, Scripts(r) PROVE Goal
  <2>1. CASE UNCHANGED conn
    BY <1>2, <1>6, <2>1, ZenonT(60) DEF Unmoving, Scripts, ConnectTo, Send, SetHullNumber
  <2>2. ASSUME NEW ip \in Robots, ConnectTo(r, ip) PROVE Goal
    BY <1>2, <2>2, Zenon DEF Unmoving, ConnectTo
  <2> QED BY <1>6, <2>1, <2>2 DEF Scripts, Send, SetHullNumber
<1>7. ASSUME NEW r \in Robots, Reach(r) \/ Greet(r) \/ Started(r) \/ ConnectionClosed(r) PROVE Goal
  <2>1. UNCHANGED inbox
    BY <1>7, Zenon DEF Reach, Greet, Started, ConnectionClosed
  <2>2. Unmoving
    BY <1>7 DEF Unmoving
  <2> QED BY <1>2, <2>1, <2>2
<1>8. ASSUME NEW r \in Robots, NEW i \in Conns, NewConnection(r, i) \/ OnConnectionInfo(r, i)
      PROVE  Goal
  <2>1. UNCHANGED inbox
    BY <1>8 DEF NewConnection, OnConnectionInfo
  <2>2. Unmoving
    BY <1>8 DEF Unmoving
  <2> QED BY <1>2, <2>1, <2>2
<1>9. ASSUME NEW i \in Conns, Connect(i) \/ Break(i) PROVE Goal
  <2>1. UNCHANGED inbox
    BY <1>9 DEF Connect, Break
  <2>2. Unmoving
    BY <1>9 DEF Unmoving
  <2> QED BY <1>2, <2>1, <2>2
<1>10. CASE UNCHANGED vars
  BY <1>2, <1>10 DEF vars, Unmoving
<1> QED BY <1>3, <1>4, <1>5, <1>6, <1>7, <1>8, <1>9, <1>10 DEF Next, Server, Wires, Faults

LEMMA CopiesKept == Delivering /\ [Next]_vars => Delivering'
<1> SUFFICES ASSUME Delivering, [Next]_vars PROVE Delivering'
  OBVIOUS
<1>1. Truthful /\ Truthful' /\ Typed /\ Typed'
  BY TruthKept DEF Delivering, Truthful
<1> SUFFICES ASSUME Spared' PROVE Unique'
  BY <1>1 DEF Delivering
<1>2. \A r \in Robots : ~Restart(r)
  BY <1>1, SparedBefore
<1>3. Spared
  BY <1>1, SparedBefore
<1>4. Truth /\ Unique
  BY <1>1, <1>3 DEF Delivering, Truthful
<1> SUFFICES ASSUME NEW n \in (DOMAIN sent)', NEW p \in Robots PROVE OneCopy(n, p)'
  BY DEF Unique
<1>5. CASE n \in DOMAIN sent
  BY <1>1, <1>2, <1>4, <1>5, CopyGoesOn DEF Unique
<1>6. CASE n \notin DOMAIN sent
  <2>1. \/ UNCHANGED sent
        \/ \E r \in Robots : \E entries \in SUBSET known[r] : Send(r, entries)
    <3>1. \A r : \A h : {e \in known[r] : e.hull = h} \in SUBSET known[r]
      OBVIOUS
    <3>2. \A r : known[r] \in SUBSET known[r]
      OBVIOUS
    <3>3. \A r \in Robots : Scripts(r) =>
            UNCHANGED sent \/ \E entries \in SUBSET known[r] : Send(r, entries)
      BY <3>1, <3>2 DEF Scripts, ConnectTo, SetHullNumber
    <3> QED
      BY <3>3, ZenonT(60) DEF Next, vars, Server, Wires, Faults, Reach, Check, Hook, Greet,
                              Connected,
             Started, ConnectionClosed, NewConnection, OnConnectionInfo, OnNewData, Connect,
             Open, Break, Restart
  <2> QED BY <1>1, <1>4, <1>6, <2>1, SendComes, SMTT(40)
<1> QED BY <1>5, <1>6

LEMMA InitDelivering == Init => Delivering
<1> SUFFICES ASSUME Init PROVE Delivering
  OBVIOUS
<1>1. DOMAIN sent = {}
  BY DEF Init
<1> QED BY <1>1, InitTruthful DEF Delivering, Unique

(* A message comes to a robot at most once, however many connections there  *)
(* are to it and whichever break while it is on its way                     *)
(* (MailboxServer::send, forEveryConnection, Connection::onConnected), on   *)
(* the condition of SendersAreNamed.                                       *)
THEOREM NothingComesTwice == Spec => []AtMostOnce
<1>1. Delivering => AtMostOnce
  <2> SUFFICES ASSUME Delivering, reset = {}, OnlyRobotsKnown, NEW r \in Robots,
                      NEW j \in DOMAIN inbox[r], NEW k \in DOMAIN inbox[r],
                      inbox[r][j].m = inbox[r][k].m
               PROVE  j = k
    BY DEF AtMostOnce
  <2>1. Typed /\ Truth /\ Unique
    BY DEF Delivering, Truthful, Spared
  <2>2. inbox[r] \in Seq(TrueLetters)
    BY <2>1 DEF Truth
  <2>3. inbox[r][j] \in TrueLetters /\ inbox[r][k] \in TrueLetters
    BY <2>2
  <2>4. PICK n : n = inbox[r][j].m
    OBVIOUS
  <2>5. n \in DOMAIN sent /\ inbox[r][j] \in Letters(n) /\ inbox[r][k] \in Letters(n)
    BY <2>3, <2>4 DEF TrueLetters, Letters
  <2>6. Once(inbox[r], Letters(n))
    <3>1. OneCopy(n, r)
      BY <2>1, <2>5 DEF Unique
    <3> QED BY <3>1, PlacesAre DEF OneCopy
  <2> QED BY <2>5, <2>6 DEF Once
<1> QED BY <1>1, InitDelivering, CopiesKept, PTL DEF Spec
=============================================================================
