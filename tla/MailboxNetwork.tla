---------------------------- MODULE MailboxNetwork ----------------------------
(***************************************************************************)
(* The MailboxServers of the robots of a network. Each server has one       *)
(* thread, which serves its slots, and a thread for each connection. What a *)
(* connection's thread reads, it posts to the server in order, so a message *)
(* is taken off the wire by the server's slot; what the server posts to a   *)
(* connection is sent in order, so it goes on the wire at once.             *)
(***************************************************************************)
EXTENDS Integers, Sequences, FiniteSets, SequencesExt

CONSTANTS
  Robots,    \* a robot stands for the address and the port of its server
  Nobody,    \* a null QHostAddress
  Links,     \* who may be told to connect to whom
  Again,     \* bound: who may be told so again when it has already followed that robot
  Senders,   \* whose scripts send messages
  MaxConns,  \* bound: connections
  MaxSends,  \* bound: messages sent by scripts
  MaxHulls,  \* bound: new hull numbers, of one robot
  MaxFaults, \* bound: connections that break, attempts that fail, restarts
  Spare      \* bound: a call is made while as many connections are left

ASSUME NobodyAssumption == Nobody \notin Robots
ASSUME BoundsAssumption == \A n \in {MaxConns, MaxSends, MaxHulls, MaxFaults} : n \in Nat
ASSUME LinksAssumption ==
  Links \subseteq Robots \X Robots /\ Again \subseteq Links /\ Senders \subseteq Robots

Conns == 1 .. MaxConns
Hosts == Robots \cup {Nobody}
Hulls == Robots \X (0 .. MaxHulls)  \* the hull numbers a robot has, one after another
NoHull == <<Nobody, 0>>             \* -1
ServerPort == MaxConns + 1          \* the port of every server; a client's is its connection
Ports == -1 .. ServerPort           \* -1 is none, 0 that of a socket that is not connected yet
Endpoints == [hull : Hulls, ip : Hosts, port : Ports]

VARIABLES
  conn,    \* the connections: their two Connection objects and the wire
  known,   \* mKnownRobots
  hull,    \* mHullNumber
  leader,  \* mServerIp, kept in the settings
  work,    \* what is left of the slot the server's thread is in
  sent,    \* the scripts' messages: who sent them, and to whom
  inbox,   \* mMessagesQueue, each message with the sender newMessage names
  faults,  \* faults so far
  reset    \* history: robots that were switched off and on

vars == <<conn, known, hull, leader, work, sent, inbox, faults, reset>>

(* A connection that nobody has made yet. client and server are the states  *)
(* of the two objects, hooks what is connected to the signal connected, due *)
(* the calls it has posted.                                                 *)
NoConn == [from |-> Nobody, to |-> Nobody, client |-> "none", server |-> "none",
           up |-> <<>>, down |-> <<>>, hooks |-> <<>>, due |-> <<>>]
(* A connection that is over at both ends leaves its place to another, once *)
(* nobody remembers its port: there are more ports than connections.        *)
Ended(c) ==
  IF c.client = "gone" /\ c.server \in {"none", "gone"} THEN NoConn ELSE c
Unused ==
  {i \in Conns : conn[i] = NoConn /\ \A r \in Robots : \A e \in known[r] : e.port # i}
Free(r) == work[r] = <<>>

-----------------------------------------------------------------------------
(* TrikServer::connection                                                   *)

(* peerAddress and peerPort of r's object of connection i; a socket that is *)
(* connecting is valid and has no peer.                                     *)
Peer(r, i) ==
  CASE conn[i].from = r /\ conn[i].client = "connecting" -> <<Nobody, 0>>
    [] conn[i].from = r /\ conn[i].client = "open" -> <<conn[i].to, ServerPort>>
    [] conn[i].to = r /\ conn[i].server = "open" -> <<conn[i].from, i>>
    [] OTHER -> <<Nobody, -1>>

Prepared(r, ip, port) == {i \in Conns : Peer(r, i) = <<ip, port>> /\ port # -1}

(* notPreparedConnections whose object does not have isStarted set.         *)
NotPrepared(r, ip, port) ==
  {i \in Conns : /\ port = ServerPort
                 /\ conn[i].from = r /\ conn[i].to = ip
                 /\ conn[i].client \in {"created", "listed"}}

Connection(r, ip, port) ==
  IF Prepared(r, ip, port) # {} THEN Prepared(r, ip, port) ELSE NotPrepared(r, ip, port)

-----------------------------------------------------------------------------
(* The tables                                                               *)

(* Fault: what is known of the robot stays.                                 *)
ConnectionInfo_Adds(r, ip, number, port) ==
  IF ip = r THEN known[r]
  ELSE known[r] \cup {[hull |-> number, ip |-> ip, port |-> port]}

(* onConnectionInfo: the robot's entries give way to one.                   *)
ConnectionInfo(r, ip, number, port) ==
  LET old == {e \in known[r] : e.ip = ip}
      live == {e \in old : Connection(r, ip, e.port) # {}}
      kept == IF port = -1 /\ live # {} THEN (CHOOSE e \in live : TRUE).port ELSE port
  IN IF ip = r
     THEN known[r]
     ELSE (known[r] \ old) \cup {[hull |-> number, ip |-> ip, port |-> kept]}

(* r posts messages to its object of connection i; what the other end is    *)
(* not there to read is lost.                                               *)
Posted(r, i, ms) ==
  CASE /\ conn[i].from = r /\ conn[i].client \in {"connecting", "open"}
       /\ conn[i].server \notin {"dead", "gone"} -> [conn[i] EXCEPT !.up = @ \o ms]
    [] /\ conn[i].to = r /\ conn[i].server = "open"
       /\ conn[i].client = "open" -> [conn[i] EXCEPT !.down = @ \o ms]
    [] OTHER -> conn[i]

(* connectTo makes a connection: the object and its thread.                 *)
Created(r, ip) == [NoConn EXCEPT !.from = r, !.to = ip, !.client = "created"]
Fresh == CHOOSE i \in Unused : TRUE

-----------------------------------------------------------------------------
(* forEveryConnection                                                       *)

Tasks(r, entries, message) ==
  LET order == SetToSeq(entries)
  IN [j \in DOMAIN order |-> [do |-> "reach", hull |-> order[j].hull, ip |-> order[j].ip,
                              msg |-> message, conn |-> 0]]

Then(r, tasks) == work' = [work EXCEPT ![r] = tasks]
Rest(r) == Then(r, Tail(work[r]))
Task(r, do) == work[r] # <<>> /\ Head(work[r]).do = do

(* prepareConnection: the connection that is there, or a new one.           *)
Reach(r) ==
  /\ Task(r, "reach")
  /\ LET t == Head(work[r])
         ports == {e.port : e \in {e \in known[r] : e.hull = t.hull /\ e.ip = t.ip}}
         old == UNION {Connection(r, t.ip, p) : p \in ports}
         found == IF old # {} THEN old ELSE Connection(r, t.ip, ServerPort)
     IN IF found # {}
        THEN /\ \E i \in found : Then(r, <<[t EXCEPT !.do = "check", !.conn = i]>> \o Tail(work[r]))
             /\ UNCHANGED conn
        ELSE /\ Unused # {}
             /\ conn' = [conn EXCEPT ![Fresh] = Created(r, t.ip)]
             /\ Then(r, <<[t EXCEPT !.do = "check", !.conn = Fresh]>> \o Tail(work[r]))
  /\ UNCHANGED <<known, hull, leader, sent, inbox, faults, reset>>

(* The connection is connected: its peer is noted and the method called.    *)
Reached(r, i, number, message) ==
  /\ known' = [known EXCEPT ![r] = ConnectionInfo(r, Peer(r, i)[1], number, Peer(r, i)[2])]
  /\ conn' = [conn EXCEPT ![i] = [Posted(r, i, <<message>>) EXCEPT !.due = conn[i].due]]

Check(r) ==
  /\ Task(r, "check")
  /\ LET t == Head(work[r])
     IN IF Peer(r, t.conn)[2] # -1
        THEN Reached(r, t.conn, t.hull, t.msg) /\ Rest(r)
        ELSE /\ Then(r, <<[t EXCEPT !.do = "hook"]>> \o Tail(work[r]))
             /\ UNCHANGED <<known, conn>>
  /\ UNCHANGED <<hull, leader, sent, inbox, faults, reset>>

(* Fault: the connection is not there, and neither is the message.          *)
Hook_Drops(r) ==
  /\ Task(r, "hook")
  /\ Rest(r)
  /\ UNCHANGED <<conn, known, hull, leader, sent, inbox, faults, reset>>

(* The method is called once the connection says connected.                 *)
Hook(r) ==
  /\ Task(r, "hook")
  /\ LET t == Head(work[r])
     IN conn' = [conn EXCEPT ![t.conn].hooks = Append(@, <<t.hull, t.msg>>)]
  /\ Rest(r)
  /\ UNCHANGED <<known, hull, leader, sent, inbox, faults, reset>>

(* It says so.                                                              *)
Connected(r) ==
  /\ Free(r)
  /\ \E i \in Conns :
       /\ conn[i].from = r /\ conn[i].due # <<>>
       /\ LET call == Head(conn[i].due)
          IN /\ known' = [known EXCEPT ![r] = ConnectionInfo(r, Peer(r, i)[1], call[1], Peer(r, i)[2])]
             /\ conn' = [conn EXCEPT ![i] = [Posted(r, i, <<call[2]>>) EXCEPT !.due = Tail(@)]]
  /\ UNCHANGED <<hull, leader, work, sent, inbox, faults, reset>>

-----------------------------------------------------------------------------
(* What a script or the settings ask of the server                          *)

(* connectTo, and joinNetwork without a hull number.                        *)
ConnectTo(r, ip) ==
  /\ Free(r)
  /\ leader' = [leader EXCEPT ![r] = ip]
  /\ IF ip = r \/ Connection(r, ip, ServerPort) # {}
     THEN UNCHANGED conn
     ELSE Unused # {} /\ conn' = [conn EXCEPT ![Fresh] = Created(r, ip)]
  /\ UNCHANGED <<known, hull, work, sent, inbox, faults, reset>>

(* send to one hull number, or to all.                                      *)
Send(r, entries) ==
  /\ Free(r)
  /\ r \in Senders /\ Len(sent) < MaxSends
  /\ sent' = Append(sent, [by |-> r, to |-> {e.ip : e \in entries}])
  /\ Then(r, Tasks(r, entries, <<"data", Len(sent')>>))
  /\ UNCHANGED <<conn, known, hull, leader, inbox, faults, reset>>

SetHullNumber(r) ==
  /\ Free(r)
  /\ hull[r][2] < MaxHulls /\ \A p \in Robots \ {r} : hull[p][2] = 0
  /\ hull' = [hull EXCEPT ![r] = <<r, @[2] + 1>>]
  /\ Then(r, Tasks(r, known[r], <<"connection", r, hull'[r]>>))
  /\ UNCHANGED <<conn, known, leader, sent, inbox, faults, reset>>

-----------------------------------------------------------------------------
(* What comes from the connections                                          *)

(* The client's thread has started: its connection is put into mConnections *)
(* and told to connect.                                                     *)
Started(r) ==
  /\ Free(r)
  /\ \E i \in Conns :
       /\ conn[i].from = r /\ conn[i].client = "created"
       /\ conn' = [conn EXCEPT ![i].client = "listed"]
  /\ UNCHANGED <<known, hull, leader, work, sent, inbox, faults, reset>>

(* The client's thread: isStarted, and the socket connects; the handshake   *)
(* is sent before anything that is posted.                                  *)
Connect(i) ==
  /\ conn[i].client = "listed"
  /\ conn' = [conn EXCEPT ![i].client = "connecting",
                          ![i].up = <<<<"register", hull[conn[i].from]>>>>]
  /\ UNCHANGED <<known, hull, leader, work, sent, inbox, faults, reset>>

(* waitForConnected returns, and connected is emitted. At the other end it  *)
(* is incomingConnection, up to the thread's start; nobody knows the port   *)
(* before the handshake is handled.                                         *)
Open(i) ==
  /\ conn[i].client = "connecting" /\ conn[i].to # Nobody
  /\ conn' = [conn EXCEPT ![i].client = "open", ![i].server = "open",
                          ![i].due = conn[i].hooks, ![i].hooks = <<>>]
  /\ UNCHANGED <<known, hull, leader, work, sent, inbox, faults, reset>>

(* The connections of which r has a message to handle, and that message.    *)
Incoming(r, i) ==
  CASE conn[i].from = r /\ conn[i].client \in {"open", "dead"} /\ conn[i].due = <<>> -> conn[i].down
    [] conn[i].to = r /\ conn[i].server \in {"open", "dead"} -> conn[i].up
    [] OTHER -> <<>>
Takes(r, i, c) ==
  conn' = [conn EXCEPT ![i] = IF c.from = r THEN [c EXCEPT !.down = Tail(@)]
                                            ELSE [c EXCEPT !.up = Tail(@)]]
Gets(r, i, kind) == Free(r) /\ Incoming(r, i) # <<>> /\ Head(Incoming(r, i))[1] = kind

(* Fault: the network does not hear of the new robot.                       *)
NewConnection_Silent(r, i) ==
  /\ Gets(r, i, "register")
  /\ LET number == Head(conn[i].up)[2]
         ip == conn[i].from
         isKnown == \E e \in known[r] : e.ip = ip /\ e.hull = number
     IN Then(r, <<[do |-> "greet", conn |-> i, hull |-> number, was |-> isKnown,
                   others |-> {}]>>)
  /\ Takes(r, i, conn[i])
  /\ UNCHANGED <<known, hull, leader, sent, inbox, faults, reset>>

(* onNewConnection: whoever is known hears of the new robot first, if it is *)
(* new.                                                                     *)
NewConnection(r, i) ==
  /\ Gets(r, i, "register")
  /\ LET number == Head(conn[i].up)[2]
         ip == conn[i].from
         isKnown == \E e \in known[r] : e.ip = ip /\ e.hull = number
         greeting == [do |-> "greet", conn |-> i, hull |-> number, was |-> isKnown,
                      others |-> known[r]]
     IN Then(r, (IF isKnown THEN <<>> ELSE Tasks(r, known[r], <<"connection", ip, number>>))
                  \o <<greeting>>)
  /\ Takes(r, i, conn[i])
  /\ UNCHANGED <<known, hull, leader, sent, inbox, faults, reset>>

(* Fault: the robot of the handshake is not put into the table.             *)
Greet_Unlisted(r) ==
  /\ Task(r, "greet")
  /\ LET t == Head(work[r])
     IN conn' = [conn EXCEPT ![t.conn] = Posted(r, t.conn, <<<<"self", hull[r]>>>>)]
  /\ Rest(r)
  /\ UNCHANGED <<known, hull, leader, sent, inbox, faults, reset>>

(* The new robot hears of whoever is known and of this one, and is known.   *)
Greet(r) ==
  /\ Task(r, "greet")
  /\ LET t == Head(work[r])
         ip == conn[t.conn].from
         order == SetToSeq(t.others)
         numberOf(e) == IF \E k \in known[r] : k.ip = e.ip
                        THEN (CHOOSE k \in known[r] : k.ip = e.ip).hull ELSE NoHull
         infos == [j \in DOMAIN order |-> <<"connection", order[j].ip, numberOf(order[j])>>]
     IN IF conn[t.conn].server = "open"
        THEN /\ conn' = [conn EXCEPT ![t.conn] =
                           Posted(r, t.conn, infos \o <<<<"self", hull[r]>>>>)]
             /\ known' = IF t.was THEN known
                         ELSE [known EXCEPT ![r] = ConnectionInfo(r, ip, t.hull, t.conn)]
        ELSE UNCHANGED <<conn, known>>
  /\ Rest(r)
  /\ UNCHANGED <<hull, leader, sent, inbox, faults, reset>>

(* The hull number a message brings. What a robot tells of itself is read   *)
(* in the connection's thread, when it is sent: it is the number of the     *)
(* moment the call was posted, or a later one.                              *)
Brought(r, i) ==
  LET m == Head(Incoming(r, i))
      posted == m[Len(m)]
      peer == IF conn[i].from = r THEN conn[i].to ELSE conn[i].from
  IN {h \in Hulls :
        /\ h[1] = posted[1]
        /\ h = posted \/ (h[1] = peer /\ h[2] \in posted[2] .. hull[peer][2])}

(* "connection" and "self" of the peer.                                     *)
OnConnectionInfo(r, i) ==
  /\ Gets(r, i, "connection") \/ Gets(r, i, "self")
  /\ LET m == Head(Incoming(r, i))
         ip == IF m[1] = "self" THEN conn[i].to ELSE m[2]
     IN \E number \in Brought(r, i) :
          known' = [known EXCEPT ![r] = ConnectionInfo(r, ip, number, -1)]
  /\ Takes(r, i, conn[i])
  /\ UNCHANGED <<hull, leader, work, sent, inbox, faults, reset>>

(* Fault: the sender is told by the port alone.                             *)
OnNewData_PortOnly(r, i) ==
  /\ Gets(r, i, "data")
  /\ LET port == IF conn[i].from = r THEN ServerPort ELSE i
         senders == {e.hull : e \in {e \in known[r] : e.port = port}}
     IN \E h \in IF senders = {} THEN {NoHull} ELSE senders :
          inbox' = [inbox EXCEPT ![r] = Append(@, [m |-> Head(Incoming(r, i))[2], sender |-> h])]
  /\ Takes(r, i, conn[i])
  /\ UNCHANGED <<known, hull, leader, work, sent, faults, reset>>

(* onNewData: the sender is the known robot at that address and port.       *)
OnNewData(r, i) ==
  /\ Gets(r, i, "data")
  /\ LET peer == IF conn[i].from = r THEN <<conn[i].to, ServerPort>> ELSE <<conn[i].from, i>>
         senders == {e.hull : e \in {e \in known[r] : <<e.ip, e.port>> = peer}}
     IN inbox' = [inbox EXCEPT ![r] =
                    Append(@, [m |-> Head(Incoming(r, i))[2],
                               sender |-> IF senders = {} THEN NoHull
                                          ELSE CHOOSE h \in senders : TRUE])]
  /\ Takes(r, i, conn[i])
  /\ UNCHANGED <<known, hull, leader, work, sent, faults, reset>>

-----------------------------------------------------------------------------
(* Failures                                                                 *)

(* The object at an end of connection i finds it broken: an error, the      *)
(* heartbeat, or the peer has closed it. What it has not read is lost.      *)
EndBreaks(i) ==
  \/ /\ conn[i].client \in {"connecting", "open"}
     /\ \E n \in 0 .. Len(conn[i].down) :
          conn' = [conn EXCEPT ![i].client = "dead", ![i].down = SubSeq(@, 1, n), ![i].hooks = <<>>]
  \/ /\ conn[i].server = "open"
     /\ \E n \in 0 .. Len(conn[i].up) :
          conn' = [conn EXCEPT ![i].server = "dead", ![i].up = SubSeq(@, 1, n)]

Broken(i) ==
  \/ conn[i].client \in {"dead", "gone"} \/ conn[i].server \in {"dead", "gone"}
  \/ conn[i].client = "connecting" /\ conn[i].to = Nobody

Break(i) ==
  /\ IF Broken(i) THEN UNCHANGED faults ELSE faults < MaxFaults /\ faults' = faults + 1
  /\ EndBreaks(i)
  /\ UNCHANGED <<known, hull, leader, work, sent, inbox, reset>>

(* onConnectionClosed, after all that the connection has posted.            *)
ConnectionClosed(r) ==
  /\ Free(r)
  /\ \E i \in Conns :
       \/ /\ conn[i].from = r /\ conn[i].client = "dead"
          /\ conn[i].due = <<>> /\ conn[i].down = <<>>
          /\ conn' = [conn EXCEPT ![i] = Ended([@ EXCEPT !.client = "gone"])]
       \/ /\ conn[i].to = r /\ conn[i].server = "dead" /\ conn[i].up = <<>>
          /\ conn' = [conn EXCEPT ![i] = Ended([@ EXCEPT !.server = "gone"])]
  /\ UNCHANGED <<known, hull, leader, work, sent, inbox, faults, reset>>

(* Fault: start does not look for the leader.                               *)
Restart_Alone(r) ==
  /\ faults < MaxFaults /\ faults' = faults + 1
  /\ conn' = [i \in Conns |->
                CASE conn[i].from = r /\ conn[i].client \notin {"none", "gone"} ->
                       Ended([conn[i] EXCEPT !.client = "gone", !.down = <<>>, !.hooks = <<>>,
                                             !.due = <<>>])
                  [] conn[i].to = r /\ conn[i].server \in {"open", "dead"} ->
                       Ended([conn[i] EXCEPT !.server = "gone", !.up = <<>>])
                  [] OTHER -> conn[i]]
  /\ known' = [known EXCEPT ![r] = {}]
  /\ work' = [work EXCEPT ![r] = <<>>]
  /\ inbox' = [inbox EXCEPT ![r] = <<>>]
  /\ reset' = reset \cup {r}
  /\ UNCHANGED <<hull, leader, sent>>

(* A robot is switched off and on: its objects are gone, and start connects *)
(* to the leader of the settings. It comes back with the address and the    *)
(* port it had: another one is another robot.                               *)
Restart(r) ==
  /\ faults < MaxFaults /\ faults' = faults + 1
  /\ leader[r] = r \/ Unused # {}
  /\ LET off == [i \in Conns |->
               CASE conn[i].from = r /\ conn[i].client \notin {"none", "gone"} ->
                      Ended([conn[i] EXCEPT !.client = "gone", !.down = <<>>, !.hooks = <<>>,
                                            !.due = <<>>])
                 [] conn[i].to = r /\ conn[i].server \in {"open", "dead"} ->
                      Ended([conn[i] EXCEPT !.server = "gone", !.up = <<>>])
                 [] OTHER -> conn[i]]
     IN conn' = IF leader[r] = r THEN off
                ELSE [off EXCEPT ![Fresh] = Created(r, leader[r])]
  /\ known' = [known EXCEPT ![r] = {}]
  /\ work' = [work EXCEPT ![r] = <<>>]
  /\ inbox' = [inbox EXCEPT ![r] = <<>>]
  /\ reset' = reset \cup {r}
  /\ UNCHANGED <<hull, leader, sent>>

-----------------------------------------------------------------------------

Init ==
  /\ conn = [i \in Conns |-> NoConn]
  /\ known = [r \in Robots |-> {}]
  /\ hull = [r \in Robots |-> <<r, 0>>]
  /\ leader = [r \in Robots |-> r]
  /\ work = [r \in Robots |-> <<>>]
  /\ sent = <<>>
  /\ inbox = [r \in Robots |-> <<>>]
  /\ faults = 0
  /\ reset = {}

Scripts(r) ==
  /\ Cardinality(Unused) >= Spare
  /\ \/ \E ip \in Robots :
          /\ <<r, ip>> \in Links /\ (leader[r] # ip \/ <<r, ip>> \in Again)
          /\ ConnectTo(r, ip)
     \/ Send(r, known[r])
     \/ \E h \in {e.hull : e \in known[r]} : Send(r, {e \in known[r] : e.hull = h})
     \/ SetHullNumber(r)

Server(r) ==
  \/ Reach(r) \/ Check(r) \/ Hook(r) \/ Greet(r)
  \/ Connected(r) \/ Started(r) \/ ConnectionClosed(r)
  \/ \E i \in Conns :
       \/ NewConnection(r, i) \/ OnConnectionInfo(r, i) \/ OnNewData(r, i)

Wires ==
  \E i \in Conns :
    \/ Connect(i) \/ Open(i)
    \/ Broken(i) /\ Break(i)

Faults ==
  \/ \E i \in Conns : ~Broken(i) /\ Break(i)
  \/ \E r \in Robots : Restart(r)

Next ==
  \/ \E r \in Robots : Scripts(r) \/ Server(r)
  \/ Wires
  \/ Faults

Spec == Init /\ [][Next]_vars

(* As long as a server's or a connection's thread can go on, one of them    *)
(* does; scripts and faults need not come. Nothing more is needed of the    *)
(* scheduling: no thread's steps can keep another's from coming for ever.   *)
FairSpec == Spec /\ WF_vars((\E r \in Robots : Server(r)) \/ Wires)
=============================================================================
