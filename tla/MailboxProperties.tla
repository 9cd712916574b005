-------------------------- MODULE MailboxProperties --------------------------
(***************************************************************************)
(* What the mailboxes of a network keep, whatever breaks.                   *)
(***************************************************************************)
EXTENDS MailboxNetwork

(* What a server posts for others goes both ways; a handshake is answered.  *)
Carried == ({"data"} \X (1 .. MaxSends)) \cup ({"connection"} \X Hosts \X Hulls)
Upwards == Carried \cup ({"register"} \X Hulls)
Downwards == Carried \cup ({"self"} \X Hulls)
Objects ==
  [from : Hosts, to : Hosts,
   client : {"none", "created", "listed", "connecting", "open", "dead", "gone"},
   server : {"none", "open", "dead", "gone"},
   up : Seq(Upwards), down : Seq(Downwards),
   hooks : Seq(Hulls \X Carried), due : Seq(Hulls \X Carried)]
Posts ==
  [do : {"reach", "check", "hook"}, hull : Hulls, ip : Hosts, msg : Carried,
   conn : 0 .. MaxConns]
Greetings ==
  [do : {"greet"}, conn : Conns, hull : Hulls, was : BOOLEAN, others : SUBSET Endpoints]

TypeOK ==
  /\ conn \in [Conns -> Objects]
  /\ work \in [Robots -> Seq(Posts \cup Greetings)]
  /\ known \in [Robots -> SUBSET Endpoints]
  /\ hull \in [Robots -> Hulls] /\ leader \in [Robots -> Robots]
  /\ sent \in Seq([by : Robots, to : SUBSET Hosts])
  /\ inbox \in [Robots -> Seq([m : 1 .. MaxSends, sender : Hulls \cup {NoHull}])]
  /\ faults \in 0 .. MaxFaults /\ reset \subseteq Robots

Knows(r, p) == \E e \in known[r] : e.ip = p
Received(r, m) == \E j \in DOMAIN inbox[r] : inbox[r][j].m = m

(* Handshakes, propagated news and noted connections come in any order: a   *)
(* robot never has two entries for another, so no message goes to it twice  *)
(* over, and none for itself.                                               *)
OneEntryPerRobot ==
  \A r \in Robots : \A d, e \in known[r] : d.ip = e.ip => d = e /\ d.ip # r

(* The table of known robots, and everything else, keeps its shape through  *)
(* joins, sends, new numbers and faults.                                    *)
KnownRobotsKept == TypeOK /\ OneEntryPerRobot

(* mailboxInterface.h: "Sends message to all known robots." No table holds  *)
(* the address of a connection that had no peer when it was noted: that     *)
(* address is found to be that of any connection that is being opened, and  *)
(* what is meant for one robot, or noted of it, goes to another.            *)
OnlyRobotsKnown == \A r \in Robots : ~Knows(r, Nobody)

(* A message reaches a robot at most once, although each send may open      *)
(* another connection to it while the first is not there yet - as long as   *)
(* no table holds, or has held before a restart, a null address.            *)
AtMostOnce ==
  reset = {} /\ OnlyRobotsKnown =>
    \A r \in Robots : \A j, k \in DOMAIN inbox[r] : inbox[r][j].m = inbox[r][k].m => j = k

(* newMessage never names another robot than the one that sent it: not with *)
(* ports noted at different times, nor with news from third robots; on the  *)
(* same condition.                                                          *)
SenderIsRight ==
  reset = {} /\ OnlyRobotsKnown =>
    \A r \in Robots : \A j \in DOMAIN inbox[r] :
      inbox[r][j].sender = NoHull \/ inbox[r][j].sender[1] = sent[inbox[r][j].m].by

(* When a server handles a message, it knows the robot at the other end:    *)
(* the handshake is handled before anything else a connection brings. Only  *)
(* what was read from a connection that has broken since may come from a    *)
(* robot whose handshake found it broken.                                   *)
OtherEnd(r, i) == IF conn[i].from = r THEN conn[i].to ELSE conn[i].from
RegisteredFirst ==
  \A r \in Robots, i \in Conns :
    Gets(r, i, "data") /\ (conn[i].to = r => conn[i].server = "open") =>
      Knows(r, OtherEnd(r, i))

(* The method of a send was connected to the signal after the connection    *)
(* had emitted it.                                                          *)
HookedLate(p, m) ==
  \E i \in Conns :
    /\ conn[i].to = p /\ conn[i].client = "open"
    /\ \E j \in DOMAIN conn[i].hooks : conn[i].hooks[j][2] = <<"data", m>>

(* Nothing is under way: no slot, no message on a wire, no connection that  *)
(* is being opened or closed.                                               *)
Resting ==
  /\ \A r \in Robots : Free(r)
  /\ \A i \in Conns :
       /\ conn[i].client \in {"none", "open"} /\ conn[i].server \in {"none", "open"}
       /\ conn[i].up = <<>> /\ conn[i].down = <<>> /\ conn[i].due = <<>>

(* mailboxInterface.h: a robot can send to every robot "that is connected   *)
(* to a leader": whoever joins hears of all, and all of them hear of it.    *)
AllJoin ==
  (\A l \in Links : leader[l[1]] = l[2])
    ~> \A q, r \in Robots : q # r => Knows(q, r)

(* While nothing breaks, every message reaches all it was sent to, whatever *)
(* connections there were or were being opened when it was sent; a message  *)
(* hooked late is the one exception.                                        *)
Delivered ==
  <>[](\A m \in DOMAIN sent : \A p \in sent[m].to : Received(p, m) \/ HookedLate(p, m))

(* The same of a network at rest, for bounds that are too large for         *)
(* liveness.                                                                *)
NothingLost ==
  Resting /\ faults = 0 =>
    \A m \in DOMAIN sent : \A p \in sent[m].to : Received(p, m) \/ HookedLate(p, m)

(* A robot that joins, or is switched on again, comes to know its leader    *)
(* and to be known to it, unless something else breaks.                     *)
Upset(r) == faults > (IF r \in reset THEN 1 ELSE 0)
RejoinsNetwork ==
  \A r \in Robots : leader[r] # r ~> (Knows(r, leader[r]) /\ Knows(leader[r], r)) \/ Upset(r)

(* mailboxInterface.h: "Sends message to all known robots." None is left in *)
(* a hook that nothing will ever call.                                      *)
NeverHookedLate ==
  \A m \in DOMAIN sent : \A p \in sent[m].to : ~HookedLate(p, m)

(* mailboxServer.h: newMessage is emitted when a message comes "from a robot *)
(* with given hull number"; here, from one that is known.                   *)
SenderKnown ==
  \A r \in Robots : \A j \in DOMAIN inbox[r] :
    Knows(r, sent[inbox[r][j].m].by) => inbox[r][j].sender # NoHull
=============================================================================
