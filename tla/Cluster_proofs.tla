--------------------------- MODULE Cluster_proofs ---------------------------
(***************************************************************************)
(* Theorems about Cluster, for every number of nodes, configuration, size  *)
(* of the sockets' buffers and pattern of losses: each of its nodes is a   *)
(* daemon in an open environment, so that what is proved of that daemon    *)
(* holds in every cluster; the variables of the network keep their types;  *)
(* and no decision counts a beacon that is older, in real time, than a     *)
(* bound that the configuration gives.                                     *)
(***************************************************************************)
EXTENDS Cluster, DaemonSafety_proofs, SequenceTheorems

-----------------------------------------------------------------------------
(* What is on the wire is what some node could say of itself; a beacon is  *)
(* kept under its sender's name, and nobody keeps his own.                 *)
OnTheWire == [status : WireStatus(Id), age : 0 .. AgeLimit]

SocketOK(n) ==
  /\ inbox[n] \in Seq(OnTheWire)
  /\ Len(inbox[n]) <= InboxCapacity
  /\ DOMAIN beacons[n] \subseteq Node \ {n}
  /\ beacons[n] \in [DOMAIN beacons[n] -> OnTheWire]
  /\ \A p \in DOMAIN beacons[n] : beacons[n][p].status.node_id = p

NetInv ==
  /\ DOMAIN inbox = Node /\ DOMAIN beacons = Node
  /\ \A n \in Node : SocketOK(n)

(* A daemon advertises itself, in a state it can be in.                    *)
LEMMA HeartbeatIsWire ==
  ASSUME TypeOK, NEW n \in Node
  PROVE  /\ HeartbeatOf(n) \in WireStatus(Id)
         /\ HeartbeatOf(n).node_id = n
         /\ [status |-> HeartbeatOf(n), age |-> 0] \in OnTheWire
  <1>1. n \in Id /\ advertised[n] \in {"backup", "master"}
    BY NodeAssumption DEF TypeOK
  <1>2. HeartbeatOf(n) \in WireStatus(Id)
    <2>1. HeartbeatOf(n) \in WireStatus(Id) <=>
            \E id \in Id, h \in BOOLEAN, s \in {"backup", "master"} :
              HeartbeatOf(n) = [node_id |-> id, priority |-> Priority[id], healthy |-> h,
                                heartbeat_seen |-> TRUE, state |-> s]
      BY DEF WireStatus
    <2>2. HeartbeatOf(n) = [node_id |-> n, priority |-> Priority[n], healthy |-> TRUE,
                            heartbeat_seen |-> TRUE, state |-> advertised[n]]
      BY DEF HeartbeatOf
    <2> QED
      BY <1>1, <2>1, <2>2, Zenon
  <1>3. HeartbeatOf(n).node_id = n
    BY DEF HeartbeatOf
  <1> QED
    BY <1>2, <1>3, ClusterAssumption DEF OnTheWire

(* The beacons a node takes from its socket.                               *)
LEMMA DrainedAreOwn ==
  ASSUME NetInv, NEW n \in Node
  PROVE  Drained(n) \in OwnBeacons(n)
  <1> DEFINE b == Drained(n)
  <1>1. DOMAIN beacons[n] \in SUBSET (Segment \ {n})
    BY ClusterAssumption DEF NetInv, SocketOK
  <1>2. b \in [DOMAIN beacons[n] -> WireStatus(Segment)]
    <2>1. \A p \in DOMAIN beacons[n] : /\ beacons[n][p].status \in WireStatus(Id)
                                       /\ beacons[n][p].status.node_id = p
                                       /\ p \in Segment
      BY <1>1 DEF NetInv, SocketOK, OnTheWire
    <2>2. \A p \in DOMAIN beacons[n] : beacons[n][p].status \in WireStatus(Segment)
      BY <2>1 DEF WireStatus
    <2> QED
      BY <2>2 DEF Drained
  <1>3. b \in BeaconSets(n)
    BY <1>1, <1>2 DEF BeaconSets
  <1>4. \A p \in DOMAIN b : b[p].node_id = p
    BY DEF NetInv, SocketOK, Drained
  <1> QED
    BY <1>3, <1>4 DEF OwnBeacons

-----------------------------------------------------------------------------
(* Every step of the cluster is a step of one of its daemons, or none.     *)
LEMMA StepIsADaemonStep ==
  ASSUME TypeOK, NetInv, [ClusterNext]_clusterVars
  PROVE  [Next]_vars
  <1>1. CASE UNCHANGED clusterVars
    BY <1>1 DEF clusterVars
  <1>2. CASE ChangeLinks \/ Tick
    BY <1>2 DEF ChangeLinks, Tick
  <1>3. ASSUME NEW n \in Node, Start(n) \/ Crash(n)
        PROVE  Next
    BY <1>3 DEF Start, Crash, Next, Environment
  <1>4. ASSUME NEW n \in Node, SendHeartbeats(n) \/ ManageVip(n) \/ Sleep(n)
        PROVE  Next
    BY <1>4 DEF SendHeartbeats, ManageVip, Sleep, Next, MainThread
  <1>5. ASSUME NEW n \in Node, Hear(n) \/ HearNothing(n)
        PROVE  Next
    <2>1. CASE Hear(n)
      <3>1. Head(inbox[n]) \in OnTheWire
        BY <2>1 DEF Hear, NetInv, SocketOK
      <3>2. Received(Head(inbox[n]).status) \in ReceiveResults
        BY <3>1 DEF OnTheWire, ReceiveResults
      <3> QED
        BY <2>1, <3>2 DEF Hear, Next, MainThread
    <2>2. CASE HearNothing(n)
      BY <2>2 DEF HearNothing, ReceiveResults, Next, MainThread
    <2> QED
      BY <1>5, <2>1, <2>2
  <1>6. ASSUME NEW n \in Node, Discover(n)
        PROVE  Next
    <2>1. PICK heard \in OwnBeacons(n) : ExchangeBeacons(n, heard)
      BY <1>6, DrainedAreOwn DEF Discover
    <2>2. pc[n] = "discovery"
      BY <2>1 DEF ExchangeBeacons
    <2> QED
      BY <2>1, <2>2 DEF Next, MainThread
  <1> QED
    BY <1>1, <1>2, <1>3, <1>4, <1>5, <1>6 DEF ClusterNext, DaemonStep

-----------------------------------------------------------------------------
(* The network keeps what NetInv says of it.                               *)

(* A function on the places of a sequence is a sequence of that length.    *)
LEMMA SameLengthSeq ==
  ASSUME NEW S, NEW s \in Seq(S), NEW f, DOMAIN f = DOMAIN s,
         f = [i \in DOMAIN f |-> f[i]], \A i \in DOMAIN f : f[i] \in S
  PROVE  f \in Seq(S) /\ Len(f) = Len(s)
  <1>1. Len(s) \in Nat /\ DOMAIN s = 1 .. Len(s)
    BY LenProperties
  <1>2. f \in Seq(S)
    BY <1>1
  <1>3. Len(f) \in Nat /\ 1 .. Len(f) = 1 .. Len(s)
    BY <1>1, <1>2, LenProperties
  <1> QED
    BY <1>1, <1>2, <1>3

(* A socket that is closed, and one that nothing happens to.               *)
LEMMA SocketKept ==
  ASSUME NetInv, NEW n \in Node,
         \/ inbox'[n] = inbox[n] /\ beacons'[n] = beacons[n]
         \/ inbox'[n] = << >> /\ beacons'[n] = EmptyTable
  PROVE  SocketOK(n)'
  <1>1. CASE inbox'[n] = inbox[n] /\ beacons'[n] = beacons[n]
    BY <1>1 DEF NetInv, SocketOK
  <1>2. CASE inbox'[n] = << >> /\ beacons'[n] = EmptyTable
    <2>1. << >> \in Seq(OnTheWire) /\ Len(<< >>) = 0 /\ DOMAIN EmptyTable = {}
      BY DEF EmptyTable
    <2>2. EmptyTable \in [{} -> OnTheWire]
      BY DEF EmptyTable
    <2> QED
      BY <1>2, <2>1, <2>2, ClusterAssumption DEF SocketOK
  <1> QED
    BY <1>1, <1>2

(* A process that may have ended.                                          *)
LEMMA ClosingKeepsNet ==
  ASSUME NetInv, NEW n \in Node, CloseIfDown(n)
  PROVE  NetInv'
  <1>1. DOMAIN inbox' = Node /\ DOMAIN beacons' = Node
    BY DEF NetInv, CloseIfDown, beaconVars
  <1>2. ASSUME NEW m \in Node
        PROVE  \/ inbox'[m] = inbox[m] /\ beacons'[m] = beacons[m]
               \/ inbox'[m] = << >> /\ beacons'[m] = EmptyTable
    BY DEF NetInv, CloseIfDown, beaconVars
  <1> QED
    BY <1>1, <1>2, SocketKept DEF NetInv

(* A heartbeat takes the last free place of a queue at most.               *)
LEMMA SendingKeepsNet ==
  ASSUME TypeOK, NetInv, NEW n \in Node, SendHeartbeats(n)
  PROVE  NetInv'
  <1> DEFINE d == [status |-> HeartbeatOf(n), age |-> 0]
  <1>1. d \in OnTheWire
    BY HeartbeatIsWire
  <1>2. UNCHANGED beacons /\ DOMAIN inbox' = Node
    BY DEF SendHeartbeats, beaconVars
  <1>3. ASSUME NEW m \in Node
        PROVE  inbox'[m] \in Seq(OnTheWire) /\ Len(inbox'[m]) <= InboxCapacity
    <2>1. inbox[m] \in Seq(OnTheWire) /\ Len(inbox[m]) <= InboxCapacity
      BY DEF NetInv, SocketOK
    <2>2. CASE Delivers(n, m)
      <3>1. inbox'[m] = Append(inbox[m], d) /\ Len(inbox[m]) < InboxCapacity
        BY <2>2 DEF SendHeartbeats, Delivers
      <3> HIDE DEF d
      <3> QED
        BY <1>1, <2>1, <3>1, ClusterAssumption
    <2>3. CASE ~Delivers(n, m)
      BY <2>1, <2>3 DEF SendHeartbeats
    <2> QED
      BY <2>2, <2>3
  <1> QED
    BY <1>2, <1>3 DEF NetInv, SocketOK

(* A receive takes the oldest datagram.                                    *)
LEMMA HearingKeepsNet ==
  ASSUME NetInv, NEW n \in Node, Hear(n)
  PROVE  NetInv'
  <1>1. inbox[n] \in Seq(OnTheWire) /\ Len(inbox[n]) <= InboxCapacity /\ inbox[n] # << >>
    BY DEF NetInv, SocketOK, Hear
  <1>2. Tail(inbox[n]) \in Seq(OnTheWire) /\ Len(Tail(inbox[n])) <= InboxCapacity
    BY <1>1, ClusterAssumption
  <1>3. inbox' = [inbox EXCEPT ![n] = Tail(inbox[n])] /\ UNCHANGED beacons
    BY DEF Hear, beaconVars
  <1> QED
    BY <1>2, <1>3 DEF NetInv, SocketOK

(* A beacon goes to other nodes only, under its sender's name.             *)
LEMMA BeaconsKeepNet ==
  ASSUME TypeOK, NetInv, NEW n \in Node, Discover(n)
  PROVE  NetInv'
  <1> DEFINE d == [status |-> BeaconOf(n), age |-> 0]
  <1>1. d \in OnTheWire /\ d.status.node_id = n
    BY HeartbeatIsWire DEF BeaconOf
  <1>2. UNCHANGED inbox /\ DOMAIN beacons' = Node
    BY DEF Discover
  <1>3. ASSUME NEW m \in Node
        PROVE  /\ DOMAIN beacons'[m] \subseteq Node \ {m}
               /\ beacons'[m] \in [DOMAIN beacons'[m] -> OnTheWire]
               /\ \A p \in DOMAIN beacons'[m] : beacons'[m][p].status.node_id = p
    <2>1. SocketOK(m)
      BY DEF NetInv
    <2>2. CASE m = n
      BY <2>2 DEF Discover, EmptyTable
    <2>3. CASE m # n /\ beaconDue(n) /\ BeaconReaches(n, m)
      <3>1. beacons'[m] = Put(beacons[m], n, d)
        BY <2>3 DEF Discover
      <3> HIDE DEF d
      <3> QED
        BY <1>1, <2>1, <2>3, <3>1 DEF Put, SocketOK
    <2>4. CASE m # n /\ ~(beaconDue(n) /\ BeaconReaches(n, m))
      BY <2>1, <2>4 DEF Discover, SocketOK
    <2> QED
      BY <2>2, <2>3, <2>4
  <1> QED
    BY <1>2, <1>3 DEF NetInv, SocketOK

(* Time ages what is on its way, up to the limit.                          *)
LEMMA TickKeepsNet ==
  ASSUME NetInv, Tick
  PROVE  NetInv'
  <1>1. DOMAIN inbox' = Node /\ DOMAIN beacons' = Node
    BY DEF Tick
  <1>2. ASSUME NEW d \in OnTheWire
        PROVE  /\ [d EXCEPT !.age = OneUnitOlder(@)] \in OnTheWire
               /\ [d EXCEPT !.age = OneUnitOlder(@)].status = d.status
    BY ClusterAssumption DEF OnTheWire, OneUnitOlder, AtMost
  <1>3. ASSUME NEW n \in Node
        PROVE  inbox'[n] \in Seq(OnTheWire) /\ Len(inbox'[n]) <= InboxCapacity
    <2>1. inbox[n] \in Seq(OnTheWire) /\ Len(inbox[n]) <= InboxCapacity
      BY DEF NetInv, SocketOK
    <2>2. inbox'[n] = [i \in DOMAIN inbox[n] |-> [inbox[n][i] EXCEPT !.age = OneUnitOlder(@)]]
      BY DEF Tick
    <2>3. \A i \in DOMAIN inbox[n] : inbox'[n][i] \in OnTheWire
      BY <1>2, <2>1, <2>2
    <2>4. /\ DOMAIN inbox'[n] = DOMAIN inbox[n]
          /\ inbox'[n] = [i \in DOMAIN inbox'[n] |-> inbox'[n][i]]
      BY <2>2
    <2>5. inbox'[n] \in Seq(OnTheWire) /\ Len(inbox'[n]) = Len(inbox[n])
      BY <2>1, <2>3, <2>4, SameLengthSeq
    <2> QED
      BY <2>1, <2>5
  <1>4. ASSUME NEW n \in Node
        PROVE  /\ DOMAIN beacons'[n] \subseteq Node \ {n}
               /\ beacons'[n] \in [DOMAIN beacons'[n] -> OnTheWire]
               /\ \A p \in DOMAIN beacons'[n] : beacons'[n][p].status.node_id = p
    <2>1. SocketOK(n)
      BY DEF NetInv
    <2>2. beacons'[n] = [p \in DOMAIN beacons[n] |-> [beacons[n][p] EXCEPT !.age = OneUnitOlder(@)]]
      BY DEF Tick
    <2>3. \A p \in DOMAIN beacons[n] : beacons[n][p] \in OnTheWire
      BY <2>1 DEF SocketOK
    <2> QED
      BY <1>2, <2>1, <2>2, <2>3 DEF SocketOK
  <1> QED
    BY <1>1, <1>3, <1>4 DEF NetInv, SocketOK

(* Every step of the cluster keeps NetInv.                                 *)
LEMMA NetStep ==
  ASSUME TypeOK, NetInv, [ClusterNext]_clusterVars
  PROVE  NetInv'
  <1>1. CASE UNCHANGED clusterVars \/ ChangeLinks
    BY <1>1 DEF clusterVars, netVars, beaconVars, ChangeLinks, NetInv, SocketOK
  <1>2. ASSUME NEW n \in Node, Start(n) \/ HearNothing(n) \/ Sleep(n)
        PROVE  NetInv'
    BY <1>2 DEF Start, HearNothing, Sleep, beaconVars, NetInv, SocketOK
  <1>3. ASSUME NEW n \in Node, ManageVip(n) \/ Crash(n)
        PROVE  NetInv'
    BY <1>3, ClosingKeepsNet DEF ManageVip, Crash
  <1> QED
    BY <1>1, <1>2, <1>3, SendingKeepsNet, HearingKeepsNet, BeaconsKeepNet, TickKeepsNet
       DEF ClusterNext, DaemonStep

(* The network starts empty.                                               *)
LEMMA NetInit == ClusterInit => NetInv
  <1> SUFFICES ASSUME ClusterInit PROVE NetInv
    OBVIOUS
  <1>1. << >> \in Seq(OnTheWire) /\ Len(<< >>) = 0
    OBVIOUS
  <1>2. EmptyTable \in [{} -> OnTheWire] /\ DOMAIN EmptyTable = {}
    BY DEF EmptyTable
  <1> QED
    BY <1>1, <1>2, ClusterAssumption DEF ClusterInit, NetInv, SocketOK

-----------------------------------------------------------------------------
(* Every node of every cluster is a daemon in an open environment.         *)
THEOREM EveryNodeStaysADaemon == ClusterSpec => EveryNodeIsADaemon
  <1>1. ClusterInit => Init /\ TypeOK /\ NetInv
    BY TypeInit, NetInit DEF ClusterInit
  <1>2. TypeOK /\ NetInv /\ [ClusterNext]_clusterVars => [Next]_vars
    BY StepIsADaemonStep
  <1>3. TypeOK /\ NetInv /\ [ClusterNext]_clusterVars => TypeOK' /\ NetInv'
    BY StepIsADaemonStep, TypeStep, NetStep
  <1> QED
    BY <1>1, <1>2, <1>3, PTL DEF ClusterSpec, EveryNodeIsADaemon, Spec

(* What is proved of a daemon in an open environment holds in a cluster:   *)
(* the views decisions count are fresh, the operations match the           *)
(* interface, a failed heartbeat cycle is followed by none, and a dry run  *)
(* stays dry.                                                              *)
THEOREM ClusterInheritsSafety ==
  ClusterSpec =>
    /\ [](ViewIsFresh /\ OperationsMatchInterface /\ HeartbeatFailureFailsClosed)
    /\ DryRunKeepsInterface
  BY EveryNodeStaysADaemon, ViewStaysFresh, OperationsMatch, HeartbeatFailsClosed, DryRunIsDry, PTL
     DEF EveryNodeIsADaemon

-----------------------------------------------------------------------------
(* Real time and discovery.                                                *)

(* The longest an iteration lasts.                                         *)
Round == HeartbeatInterval + HeartbeatTimeout

(* The real time since the node last emptied its discovery socket, or for  *)
(* which it will not have done so when it comes to it.                     *)
Phase(n) ==
  IF pc[n] = "asleep" THEN HeartbeatInterval - timer[n]
  ELSE IF pc[n] = "receive" THEN Round - timer[n]
  ELSE Round

(* A timer does not exceed what it was set to, the heartbeat is due in     *)
(* every iteration, and no cycle fails: the LAN loses without telling.     *)
TimerOK(n) ==
  /\ timer[n] \in 0 .. (HeartbeatTimeout + HeartbeatInterval + RestartDelay)
  /\ pc[n] = "asleep" => timer[n] <= HeartbeatInterval
  /\ pc[n] = "receive" => timer[n] <= HeartbeatTimeout
  /\ pc[n] \in {"asleep", "down"} => sinceSend[n] = HeartbeatInterval
  /\ cycle[n] # "send_failed"
  /\ pc[n] = "discovery" => DiscoveryEnabled

(* What waits in the discovery socket arrived since it was last emptied.   *)
SocketAgeOK(n) ==
  /\ ~DiscoveryEnabled \/ pc[n] \notin {"asleep", "receive", "discovery"} =>
       DOMAIN beacons[n] = {}
  /\ \A p \in DOMAIN beacons[n] : beacons[n][p].age <= Phase(n)

(* An entry that is still counted was made some iterations ago, and each   *)
(* of them took a round at most.                                           *)
EntryAgeOK(n) ==
  /\ pc[n] = "down" => DOMAIN discovered[n] = {}
  /\ DOMAIN beaconAge[n] = DOMAIN discovered[n]
  /\ beaconAge[n] \in [DOMAIN beaconAge[n] -> 0 .. AgeLimit]
  /\ \A p \in DOMAIN discovered[n] : discovered[n][p].age <= DiscoveryTimeout =>
       \E k \in Nat : /\ discovered[n][p].age = k * HeartbeatInterval
                      /\ beaconAge[n][p] <= k * Round + Phase(n)

PoolOK(n) == TimerOK(n) /\ SocketAgeOK(n) /\ EntryAgeOK(n)

PoolInv ==
  /\ timer = [n \in Node |-> timer[n]] /\ DOMAIN beaconAge = Node
  /\ \A n \in Node : PoolOK(n)

(* A node that nothing happens to.                                         *)
LEMMA PoolKept ==
  ASSUME NEW n \in Node, PoolOK(n),
         pc'[n] = pc[n], timer'[n] = timer[n], sinceSend'[n] = sinceSend[n],
         cycle'[n] = cycle[n], beacons'[n] = beacons[n], beaconAge'[n] = beaconAge[n],
         discovered'[n] = discovered[n]
  PROVE  PoolOK(n)'
  BY DEF PoolOK, TimerOK, SocketAgeOK, EntryAgeOK, Phase, Round

(* A process that ended and closed its sockets.                            *)
LEMMA PoolAfterExit ==
  ASSUME TypeOK, NetInv, PoolInv, NEW n \in Node, NEW status, Exit(n, status), CloseIfDown(n)
  PROVE  PoolInv'
  <1>1. /\ pc' = [pc EXCEPT ![n] = "down"]
        /\ cycle' = [cycle EXCEPT ![n] = "none"]
        /\ discovered' = [discovered EXCEPT ![n] = EmptyTable]
        /\ sinceSend' = [sinceSend EXCEPT ![n] = HeartbeatInterval]
    BY DEF Exit, LoopReset, GoTo
  <1>2. pc'[n] = "down"
    BY <1>1 DEF TypeOK
  <1>3. /\ beacons' = [beacons EXCEPT ![n] = EmptyTable]
        /\ beaconAge' = [beaconAge EXCEPT ![n] = EmptyTable]
        /\ timer' = [timer EXCEPT ![n] = RestartDelay]
    BY <1>2 DEF CloseIfDown, SetTimer
  <1>4. DOMAIN EmptyTable = {} /\ EmptyTable \in [{} -> 0 .. AgeLimit]
    BY DEF EmptyTable
  <1>5. PoolOK(n)'
    <2>1. /\ beacons'[n] = EmptyTable /\ beaconAge'[n] = EmptyTable /\ discovered'[n] = EmptyTable
          /\ cycle'[n] = "none" /\ sinceSend'[n] = HeartbeatInterval
      BY <1>1, <1>3 DEF TypeOK, NetInv, PoolInv
    <2>2. timer'[n] = RestartDelay
      BY <1>3 DEF PoolInv
    <2>3. TimerOK(n)'
      BY <1>2, <2>1, <2>2, ClusterAssumption, TimeAssumption DEF TimerOK
    <2>4. SocketAgeOK(n)' /\ EntryAgeOK(n)'
      BY <1>4, <2>1 DEF SocketAgeOK, EntryAgeOK
    <2> QED
      BY <2>3, <2>4 DEF PoolOK
  <1>6. ASSUME NEW m \in Node \ {n} PROVE PoolOK(m)'
    BY <1>1, <1>3, PoolKept DEF PoolInv, TypeOK, NetInv
  <1>7. timer' = [m \in Node |-> timer'[m]] /\ DOMAIN beaconAge' = Node
    BY <1>3 DEF PoolInv
  <1> QED
    BY <1>5, <1>6, <1>7 DEF PoolInv

(* Starting a process; its sockets are new.                                *)
LEMMA PoolAfterStart ==
  ASSUME TypeOK, NetInv, PoolInv, NEW n \in Node, Start(n)
  PROVE  PoolInv'
  <1>1. /\ pc[n] = "down" /\ timer[n] = 0
        /\ pc' = [pc EXCEPT ![n] = "asleep"]
        /\ UNCHANGED <<timer, beacons, beaconAge, cycle, discovered, sinceSend>>
    BY DEF Start, ServiceStart, Launch, GoTo, loopVars, beaconVars
  <1>2. PoolOK(n)'
    BY <1>1, TimeAssumption DEF TypeOK, PoolInv, PoolOK, TimerOK, SocketAgeOK, EntryAgeOK
  <1>3. ASSUME NEW m \in Node \ {n} PROVE PoolOK(m)'
    BY <1>1, PoolKept DEF PoolInv, TypeOK
  <1> QED
    BY <1>1, <1>2, <1>3 DEF PoolInv

(* The sleep is over; poll begins.                                         *)
LEMMA PoolAfterSend ==
  ASSUME TypeOK, NetInv, PoolInv, NEW n \in Node, SendHeartbeats(n)
  PROVE  PoolInv'
  <1>1. pc[n] = "asleep" /\ timer[n] = 0 /\ heartbeatDue(n)
    BY TimeAssumption DEF SendHeartbeats, BeginIteration, PoolInv, PoolOK, TimerOK, heartbeatDue
  <1>2. /\ pc' = [pc EXCEPT ![n] = "receive"]
        /\ timer' = [timer EXCEPT ![n] = HeartbeatTimeout]
        /\ sinceSend' = [sinceSend EXCEPT ![n] = 0]
        /\ cycle' = [cycle EXCEPT ![n] = "sent"]
        /\ UNCHANGED <<beacons, beaconAge, discovered>>
    BY <1>1 DEF SendHeartbeats, BeginIteration, GoTo, SetTimer, beaconVars
  <1>3. /\ pc'[n] = "receive" /\ timer'[n] = HeartbeatTimeout /\ cycle'[n] = "sent"
    BY <1>2 DEF TypeOK, PoolInv
  <1>4. Phase(n)' = Phase(n)
    BY <1>1, <1>3, TimeAssumption DEF Phase, Round
  <1>5. PoolOK(n)'
    <2>1. TimerOK(n)'
      BY <1>3, TimeAssumption, ClusterAssumption DEF TimerOK
    <2>2. SocketAgeOK(n)'
      BY <1>1, <1>2, <1>3, <1>4 DEF PoolInv, PoolOK, SocketAgeOK
    <2>3. EntryAgeOK(n)'
      BY <1>1, <1>2, <1>3, <1>4 DEF PoolInv, PoolOK, EntryAgeOK
    <2> QED
      BY <2>1, <2>2, <2>3 DEF PoolOK
  <1>6. ASSUME NEW m \in Node \ {n} PROVE PoolOK(m)'
    BY <1>2, PoolKept DEF PoolInv, TypeOK
  <1> QED
    BY <1>2, <1>5, <1>6 DEF PoolInv

(* The wait ends, with a datagram or without; no error, no fault.          *)
LEMMA PoolAfterReceive ==
  ASSUME TypeOK, NetInv, PoolInv, NEW n \in Node, Hear(n) \/ HearNothing(n)
  PROVE  PoolInv'
  <1>1. PICK result : result.kind # "error" /\ CompleteReceive(n, result)
    BY DEF Hear, HearNothing, Received, ReceiveTimeout
  <1>2. UNCHANGED <<beacons, beaconAge>> /\ timer' \in {timer, [timer EXCEPT ![n] = 0]}
    BY DEF Hear, HearNothing, SetTimer, beaconVars
  <1>3. ~heartbeatFaults(n, result)
    BY <1>1 DEF heartbeatFaults, PoolInv, PoolOK, TimerOK
  <1>4. /\ pc[n] = "receive"
        /\ pc' = [pc EXCEPT ![n] = IF DiscoveryEnabled THEN "discovery" ELSE "lifecycle"]
        /\ cycle' = [cycle EXCEPT ![n] = "warmed"]
        /\ UNCHANGED <<discovered, sinceSend>>
    BY <1>1, <1>3 DEF CompleteReceive, ReceiveOutcome, GoTo, PoolInv, PoolOK, TimerOK
  <1>5. /\ pc'[n] = IF DiscoveryEnabled THEN "discovery" ELSE "lifecycle"
        /\ cycle'[n] = "warmed" /\ timer'[n] \in {timer[n], 0}
    BY <1>2, <1>4 DEF TypeOK, PoolInv
  <1>6. PoolOK(n)'
    <2>1. PoolOK(n)
      BY DEF PoolInv
    <2>2. timer[n] \in Nat /\ Phase(n) = Round - timer[n] /\ Phase(n)' = Round /\ Round \in Nat
      BY <1>4, <1>5, <2>1, TimeAssumption, ClusterAssumption DEF Phase, Round, PoolOK, TimerOK
    <2>3. TimerOK(n)'
      BY <1>4, <1>5, <2>1, TimeAssumption, ClusterAssumption DEF PoolOK, TimerOK
    <2>4. SocketAgeOK(n)'
      <3>1. DOMAIN beacons[n] = {} \/ DiscoveryEnabled
        BY <1>4, <2>1 DEF PoolOK, SocketAgeOK
      <3>2. \A p \in DOMAIN beacons[n] : beacons[n][p].age \in 0 .. AgeLimit
        BY DEF NetInv, SocketOK, OnTheWire
      <3>3. \A p \in DOMAIN beacons[n] : beacons[n][p].age <= Phase(n)'
        BY <2>1, <2>2, <3>2, ClusterAssumption DEF PoolOK, SocketAgeOK
      <3> QED
        BY <1>2, <1>5, <3>1, <3>3 DEF SocketAgeOK
    <2>5. EntryAgeOK(n)'
      <3>1. EntryAgeOK(n)
        BY <2>1 DEF PoolOK
      <3>2. ASSUME NEW p \in DOMAIN discovered[n], discovered[n][p].age <= DiscoveryTimeout
            PROVE  \E k \in Nat : /\ discovered[n][p].age = k * HeartbeatInterval
                                  /\ beaconAge[n][p] <= k * Round + Phase(n)'
        <4>1. PICK k \in Nat : /\ discovered[n][p].age = k * HeartbeatInterval
                               /\ beaconAge[n][p] <= k * Round + Phase(n)
          BY <3>1, <3>2 DEF EntryAgeOK
        <4>2. beaconAge[n][p] \in 0 .. AgeLimit /\ k * Round \in Nat
          BY <3>1, <2>2 DEF EntryAgeOK
        <4> DEFINE kr == k * Round
        <4>3. kr \in Nat /\ beaconAge[n][p] <= kr + Phase(n)
          BY <4>1, <4>2
        <4> HIDE DEF kr
        <4>4. beaconAge[n][p] <= kr + Phase(n)'
          BY <2>2, <4>2, <4>3, ClusterAssumption
        <4> QED
          BY <4>1, <4>4 DEF kr
      <3> QED
        BY <1>2, <1>4, <1>5, <3>1, <3>2 DEF EntryAgeOK
    <2> QED
      BY <2>3, <2>4, <2>5 DEF PoolOK
  <1>7. ASSUME NEW m \in Node \ {n} PROVE PoolOK(m)'
    BY <1>2, <1>4, PoolKept DEF PoolInv, TypeOK
  <1> QED
    BY <1>2, <1>6, <1>7 DEF PoolInv

(* Probing, deciding and acting on the interface.                          *)
LEMMA PoolAfterManage ==
  ASSUME TypeOK, NetInv, PoolInv, NEW n \in Node, ManageVip(n) \/ Crash(n)
  PROVE  PoolInv'
  <1>1. CloseIfDown(n)
    BY DEF ManageVip, Crash
  <1>2. CASE \E status : Exit(n, status)
    BY <1>1, <1>2, PoolAfterExit
  <1>3. CASE \A status : ~Exit(n, status)
    <2>1. /\ pc[n] \in {"lifecycle", "add", "announce", "remove"}
          /\ \E next \in {"add", "announce", "remove", "publish", "stopping"} : GoTo(n, next)
          /\ UNCHANGED <<cycle, discovered, sinceSend>>
      BY <1>3 DEF ManageVip, Crash, Kill, PowerLoss, LifecycleIdle, ProbeAndDecide, AddVip,
                  AnnounceVip, RemoveVip, RecordVipOperation, operationFor, loopVars
    <2>2. PICK next \in {"add", "announce", "remove", "publish", "stopping"} : pc' = [pc EXCEPT ![n] = next]
      BY <2>1 DEF GoTo
    <2>3. pc'[n] = next
      BY <2>2 DEF TypeOK
    <2>4. UNCHANGED <<timer, beacons, beaconAge>>
      BY <1>1, <2>3 DEF CloseIfDown, beaconVars
    <2>5. PoolOK(n)'
      <3>1. Phase(n)' = Phase(n)
        BY <2>1, <2>3 DEF Phase, Round
      <3> QED
        BY <2>1, <2>3, <2>4, <3>1 DEF PoolInv, PoolOK, TimerOK, SocketAgeOK, EntryAgeOK
    <2>6. ASSUME NEW m \in Node \ {n} PROVE PoolOK(m)'
      BY <2>1, <2>2, <2>4, PoolKept DEF PoolInv, TypeOK
    <2> QED
      BY <2>4, <2>5, <2>6 DEF PoolInv
  <1> QED
    BY <1>2, <1>3

(* The socket is emptied into the table; others may get a new beacon.      *)
LEMMA PoolAfterDiscover ==
  ASSUME TypeOK, NetInv, PoolInv, NEW n \in Node, Discover(n)
  PROVE  PoolInv'
  <1> DEFINE heard == Drained(n)
             merged == [p \in DOMAIN discovered[n] \cup (DOMAIN heard \ {n}) |->
                          IF p \in DOMAIN heard \ {n} THEN [status |-> heard[p], age |-> 0]
                          ELSE discovered[n][p]]
             ages == [p \in DOMAIN beaconAge[n] \cup DOMAIN beacons[n] |->
                        IF p \in DOMAIN beacons[n] THEN beacons[n][p].age ELSE beaconAge[n][p]]
  <1>1. /\ pc[n] = "discovery" /\ pc' = [pc EXCEPT ![n] = "lifecycle"]
        /\ discovered' = [discovered EXCEPT ![n] = prune(merged)]
        /\ beaconAge' = [beaconAge EXCEPT ![n] = Keep(ages, discovered'[n])]
        /\ UNCHANGED <<timer, cycle, sinceSend>>
    BY DEF Discover, ExchangeBeacons, GoTo
  <1>2. /\ pc'[n] = "lifecycle" /\ discovered'[n] = prune(merged)
        /\ beaconAge'[n] = Keep(ages, prune(merged)) /\ beacons'[n] = EmptyTable
    BY <1>1 DEF Discover, TypeOK, PoolInv
  <1>3. DiscoveryEnabled /\ PoolOK(n)
    BY <1>1 DEF PoolInv, PoolOK, TimerOK
  <1>4. Phase(n) = Round /\ Phase(n)' = Round /\ Round \in Nat
    BY <1>1, <1>2, TimeAssumption DEF Phase, Round
  <1>5. EntryAgeOK(n)'
    <2>1. EntryAgeOK(n) /\ SocketAgeOK(n) /\ n \notin DOMAIN beacons[n]
      BY <1>3 DEF PoolOK, NetInv, SocketOK
    <2>2. /\ DOMAIN heard = DOMAIN beacons[n]
          /\ DOMAIN merged = DOMAIN discovered[n] \cup DOMAIN beacons[n]
      BY <2>1 DEF Drained
    <2>3. DOMAIN ages = DOMAIN merged
      BY <2>1, <2>2 DEF EntryAgeOK
    <2>4. \A p \in DOMAIN ages : ages[p] \in 0 .. AgeLimit
      BY <2>1 DEF EntryAgeOK, NetInv, SocketOK, OnTheWire
    <2>5. ASSUME NEW p \in DOMAIN merged, merged[p].age <= DiscoveryTimeout
          PROVE  \E k \in Nat : /\ merged[p].age = k * HeartbeatInterval
                                /\ ages[p] <= k * Round + Round
      <3>1. CASE p \in DOMAIN beacons[n]
        <4>1. merged[p].age = 0 /\ ages[p] = beacons[n][p].age
          BY <2>1, <2>2, <3>1
        <4>2. ages[p] <= Round
          BY <1>4, <2>1, <3>1, <4>1 DEF SocketAgeOK
        <4>3. 0 * HeartbeatInterval = 0 /\ 0 * Round + Round = Round
          BY <1>4, TimeAssumption
        <4> QED
          BY <4>1, <4>2, <4>3
      <3>2. CASE p \notin DOMAIN beacons[n]
        <4>1. p \in DOMAIN discovered[n] /\ merged[p] = discovered[n][p] /\ ages[p] = beaconAge[n][p]
          BY <2>1, <2>2, <2>3, <3>2 DEF EntryAgeOK
        <4> QED
          BY <1>4, <2>1, <2>5, <4>1 DEF EntryAgeOK
      <3> QED
        BY <3>1, <3>2
    <2> HIDE DEF merged, ages
    <2>6. /\ DOMAIN prune(merged) \subseteq DOMAIN merged
          /\ \A p \in DOMAIN prune(merged) : prune(merged)[p] = merged[p]
      BY DEF prune, Restrict
    <2>7. /\ DOMAIN beaconAge'[n] = DOMAIN discovered'[n]
          /\ \A p \in DOMAIN beaconAge'[n] : beaconAge'[n][p] = ages[p]
          /\ beaconAge'[n] \in [DOMAIN beaconAge'[n] -> 0 .. AgeLimit]
      BY <1>2, <2>3, <2>4, <2>6 DEF Keep, Restrict
    <2> QED
      BY <1>2, <1>4, <2>5, <2>6, <2>7 DEF EntryAgeOK
  <1>6. TimerOK(n)' /\ SocketAgeOK(n)'
    BY <1>1, <1>2, <1>3 DEF PoolOK, TimerOK, SocketAgeOK, EmptyTable
  <1>7. ASSUME NEW m \in Node \ {n}
        PROVE  PoolOK(m)'
    <2>1. /\ pc'[m] = pc[m] /\ beaconAge'[m] = beaconAge[m] /\ discovered'[m] = discovered[m]
          /\ PoolOK(m) /\ Phase(m)' = Phase(m)
      BY <1>1 DEF TypeOK, PoolInv, Phase
    <2>2. CASE beacons'[m] = beacons[m]
      BY <1>1, <2>1, <2>2, PoolKept
    <2>3. CASE beacons'[m] # beacons[m]
      <3>1. /\ BeaconReaches(n, m)
            /\ beacons'[m] = Put(beacons[m], n, [status |-> BeaconOf(n), age |-> 0])
        BY <2>3 DEF Discover, NetInv
      <3>2. pc[m] \in {"asleep", "receive"}
        BY <3>1 DEF Discover, OthersWait, Waiting, BeaconReaches
      <3>3. 0 <= Phase(m)
        BY <2>1, <3>2, TimeAssumption, ClusterAssumption DEF Phase, Round, PoolOK, TimerOK
      <3>4. \A p \in DOMAIN beacons'[m] : beacons'[m][p].age <= Phase(m)
        BY <2>1, <3>1, <3>3 DEF Put, PoolOK, SocketAgeOK
      <3>5. TimerOK(m)' /\ EntryAgeOK(m)'
        BY <1>1, <2>1 DEF PoolOK, TimerOK, EntryAgeOK
      <3> QED
        BY <1>3, <2>1, <3>2, <3>4, <3>5 DEF PoolOK, SocketAgeOK
    <2> QED
      BY <2>2, <2>3
  <1> QED
    BY <1>1, <1>5, <1>6, <1>7 DEF PoolInv, PoolOK

(* The entries grow older by the interval, in the daemon's own time; the   *)
(* round that ends took no longer than Round.                              *)
LEMMA PoolAfterSleep ==
  ASSUME TypeOK, NetInv, PoolInv, NEW n \in Node, Sleep(n)
  PROVE  PoolInv'
  <1>1. /\ pc[n] = "publish" /\ pc' = [pc EXCEPT ![n] = "asleep"]
        /\ discovered' = [discovered EXCEPT ![n] = Older(@, DiscoveryTimeout + 1)]
        /\ cycle' = [cycle EXCEPT ![n] = "none"]
        /\ timer' = [timer EXCEPT ![n] = HeartbeatInterval]
        /\ sinceSend' = [sinceSend EXCEPT ![n] =
                           AtMost(@ + IterationElapsed, HeartbeatInterval)]
        /\ UNCHANGED <<beacons, beaconAge>>
    BY DEF Sleep, EndIteration, GoTo, SetTimer, beaconVars
  <1>2. /\ pc'[n] = "asleep" /\ cycle'[n] = "none" /\ timer'[n] = HeartbeatInterval
        /\ sinceSend'[n] = AtMost(sinceSend[n] + IterationElapsed, HeartbeatInterval)
        /\ discovered'[n] = Older(discovered[n], DiscoveryTimeout + 1)
        /\ PoolOK(n)
    BY <1>1 DEF TypeOK, PoolInv
  <1>3. sinceSend'[n] = HeartbeatInterval
    BY <1>2, TimeAssumption, ClusterAssumption DEF AtMost, TypeOK
  <1>4. TimerOK(n)'
    BY <1>2, <1>3, TimeAssumption, ClusterAssumption DEF TimerOK
  <1>5. Phase(n) = Round /\ Phase(n)' = 0 /\ Round \in Nat /\ HeartbeatInterval \in Nat
    BY <1>1, <1>2, TimeAssumption DEF Phase, Round
  <1>6. SocketAgeOK(n)'
    BY <1>1, <1>2 DEF SocketAgeOK, PoolOK
  <1>7. EntryAgeOK(n)'
    <2>1. EntryAgeOK(n) /\ IsTable(discovered[n], DiscoveryTimeout + 1)
      BY <1>2 DEF PoolOK, TypeOK
    <2>2. DOMAIN discovered'[n] = DOMAIN discovered[n]
      BY <1>2 DEF Older
    <2>3. ASSUME NEW p \in DOMAIN discovered[n], discovered'[n][p].age <= DiscoveryTimeout
          PROVE  \E k \in Nat : /\ discovered'[n][p].age = k * HeartbeatInterval
                                /\ beaconAge[n][p] <= k * Round + Phase(n)'
      <3> DEFINE age == discovered[n][p].age
      <3>1. discovered[n][p] \in [status : PeerStatus, age : 0 .. (DiscoveryTimeout + 1)]
        BY <2>1 DEF IsTable
      <3>2. discovered'[n][p].age = AtMost(age + IterationElapsed, DiscoveryTimeout + 1)
        BY <1>2, <3>1 DEF Older
      <3>3. discovered'[n][p].age = age + HeartbeatInterval /\ age <= DiscoveryTimeout
        BY <2>3, <3>1, <3>2, TimeAssumption, ClusterAssumption DEF AtMost
      <3>4. PICK k \in Nat : /\ age = k * HeartbeatInterval
                             /\ beaconAge[n][p] <= k * Round + Round
        BY <1>5, <2>1, <3>3 DEF EntryAgeOK
      <3>5. /\ k + 1 \in Nat /\ (k + 1) * HeartbeatInterval = k * HeartbeatInterval + HeartbeatInterval
            /\ (k + 1) * Round = k * Round + Round /\ (k + 1) * Round + 0 = (k + 1) * Round
        BY <1>5
      <3>6. discovered'[n][p].age = (k + 1) * HeartbeatInterval
        BY <3>3, <3>4, <3>5
      <3>7. beaconAge[n][p] <= (k + 1) * Round + Phase(n)'
        BY <1>5, <3>4, <3>5
      <3> QED
        BY <3>5, <3>6, <3>7
    <2> QED
      BY <1>1, <1>2, <2>1, <2>2, <2>3 DEF EntryAgeOK
  <1>8. ASSUME NEW m \in Node \ {n} PROVE PoolOK(m)'
    BY <1>1, PoolKept DEF PoolInv, TypeOK
  <1> QED
    BY <1>1, <1>4, <1>6, <1>7, <1>8 DEF PoolInv, PoolOK

(* Time passes while every node waits: what waits and what is counted      *)
(* grows older by one, and so does the phase of every node that runs.      *)
LEMMA PoolAfterTick ==
  ASSUME TypeOK, NetInv, PoolInv, Tick
  PROVE  PoolInv'
  <1>1. /\ UNCHANGED <<pc, cycle, sinceSend, discovered>>
        /\ timer' = [n \in Node |-> IF timer[n] > 0 THEN timer[n] - 1 ELSE 0]
        /\ beacons' = [n \in Node |-> [p \in DOMAIN beacons[n] |->
                         [beacons[n][p] EXCEPT !.age = OneUnitOlder(@)]]]
        /\ beaconAge' = [n \in Node |-> [p \in DOMAIN beaconAge[n] |->
                           OneUnitOlder(beaconAge[n][p])]]
    BY DEF Tick, vars, loopVars
  <1>2. ASSUME NEW n \in Node
        PROVE  PoolOK(n)'
    <2>1. PoolOK(n) /\ MayLetTimePass(n)
      BY DEF PoolInv, Tick
    <2>2. ASSUME NEW a \in 0 .. AgeLimit
          PROVE  OneUnitOlder(a) \in 0 .. AgeLimit /\ OneUnitOlder(a) <= a + 1
      BY ClusterAssumption DEF OneUnitOlder, AtMost
    <2>3. timer[n] \in Nat /\ timer'[n] = IF timer[n] > 0 THEN timer[n] - 1 ELSE 0
      BY <1>1, <2>1, TimeAssumption, ClusterAssumption DEF PoolOK, TimerOK
    <2>4. TimerOK(n)'
      <3>1. TimerOK(n)
        BY <2>1 DEF PoolOK
      <3>2. timer'[n] \in Nat /\ timer'[n] <= timer[n]
        BY <2>3
      <3>3. timer'[n] \in 0 .. (HeartbeatTimeout + HeartbeatInterval + RestartDelay)
        BY <2>3, <3>1, <3>2, TimeAssumption, ClusterAssumption DEF TimerOK
      <3>4. /\ pc[n] = "asleep" => timer'[n] <= HeartbeatInterval
            /\ pc[n] = "receive" => timer'[n] <= HeartbeatTimeout
        BY <2>3, <3>1, <3>2, TimeAssumption DEF TimerOK
      <3> QED
        BY <1>1, <3>1, <3>3, <3>4 DEF TimerOK
    <2>5. ASSUME pc[n] # "down"
          PROVE  Phase(n) \in Int /\ Phase(n)' = Phase(n) + 1
      <3>1. /\ timer[n] > 0 /\ timer'[n] = timer[n] - 1 /\ pc'[n] = pc[n]
            /\ pc[n] = "asleep" \/ pc[n] = "receive"
        BY <1>1, <2>1, <2>3, <2>5 DEF MayLetTimePass
      <3>2. CASE pc[n] = "asleep"
        <4>1. Phase(n) = HeartbeatInterval - timer[n] /\ Phase(n)' = HeartbeatInterval - timer'[n]
          BY <3>1, <3>2 DEF Phase
        <4> QED
          BY <2>3, <3>1, <4>1, TimeAssumption
      <3>3. CASE pc[n] = "receive"
        <4>1. Phase(n) = Round - timer[n] /\ Phase(n)' = Round - timer'[n]
          BY <3>1, <3>3 DEF Phase, Round
        <4> QED
          BY <2>3, <3>1, <4>1, TimeAssumption DEF Round
      <3> QED
        BY <3>1, <3>2, <3>3
    <2>6. SocketAgeOK(n)'
      <3>1. \A p \in DOMAIN beacons[n] :
              /\ beacons[n][p] \in OnTheWire
              /\ beacons'[n][p] = [beacons[n][p] EXCEPT !.age = OneUnitOlder(@)]
        BY <1>1 DEF NetInv, SocketOK
      <3>2. \A p \in DOMAIN beacons[n] :
              /\ beacons[n][p].age \in 0 .. AgeLimit
              /\ beacons'[n][p].age = OneUnitOlder(beacons[n][p].age)
        BY <3>1 DEF OnTheWire
      <3>3. DOMAIN beacons'[n] = DOMAIN beacons[n]
        BY <1>1
      <3>4. CASE pc[n] = "down"
        BY <1>1, <2>1, <3>3, <3>4 DEF PoolOK, SocketAgeOK
      <3>5. CASE pc[n] # "down"
        <4>1. ASSUME NEW p \in DOMAIN beacons[n]
              PROVE  beacons'[n][p].age <= Phase(n)'
          BY <2>1, <2>2, <2>5, <3>2, <3>5, ClusterAssumption DEF PoolOK, SocketAgeOK, OneUnitOlder, AtMost
        <4> QED
          BY <1>1, <2>1, <3>3, <4>1 DEF PoolOK, SocketAgeOK
      <3> QED
        BY <3>4, <3>5
    <2>7. EntryAgeOK(n)'
      <3>1. EntryAgeOK(n)
        BY <2>1 DEF PoolOK
      <3>2. /\ DOMAIN beaconAge'[n] = DOMAIN beaconAge[n]
            /\ \A p \in DOMAIN beaconAge[n] : beaconAge'[n][p] = OneUnitOlder(beaconAge[n][p])
            /\ beaconAge'[n] = [p \in DOMAIN beaconAge[n] |-> OneUnitOlder(beaconAge[n][p])]
        BY <1>1
      <3>3. beaconAge'[n] \in [DOMAIN beaconAge'[n] -> 0 .. AgeLimit]
        BY <2>2, <3>1, <3>2 DEF EntryAgeOK
      <3>4. ASSUME NEW p \in DOMAIN discovered[n], discovered[n][p].age <= DiscoveryTimeout
            PROVE  \E k \in Nat : /\ discovered[n][p].age = k * HeartbeatInterval
                                  /\ beaconAge'[n][p] <= k * Round + Phase(n)'
        <4>1. PICK k \in Nat : /\ discovered[n][p].age = k * HeartbeatInterval
                               /\ beaconAge[n][p] <= k * Round + Phase(n)
          BY <3>1, <3>4 DEF EntryAgeOK
        <4> DEFINE kr == k * Round
        <4>2. kr \in Nat /\ beaconAge[n][p] \in 0 .. AgeLimit /\ pc[n] # "down"
          BY <3>1, TimeAssumption DEF EntryAgeOK, Round
        <4>3. beaconAge'[n][p] = OneUnitOlder(beaconAge[n][p])
          BY <3>1, <3>2 DEF EntryAgeOK
        <4>4. beaconAge[n][p] <= kr + Phase(n)
          BY <4>1
        <4> HIDE DEF kr
        <4>5. OneUnitOlder(beaconAge[n][p]) \in Nat
          BY <4>2, <2>2, ClusterAssumption
        <4>6. beaconAge'[n][p] <= kr + Phase(n)'
          BY <2>2, <2>5, <4>2, <4>3, <4>4, <4>5, ClusterAssumption
        <4> QED
          BY <4>1, <4>6 DEF kr
      <3> QED
        BY <1>1, <3>1, <3>2, <3>3, <3>4 DEF EntryAgeOK
    <2> QED
      BY <2>4, <2>6, <2>7 DEF PoolOK
  <1> QED
    BY <1>1, <1>2 DEF PoolInv

(* Every step of the cluster keeps PoolInv.                                *)
LEMMA PoolStep ==
  ASSUME TypeOK, NetInv, PoolInv, [ClusterNext]_clusterVars
  PROVE  PoolInv'
  <1>1. CASE UNCHANGED clusterVars \/ ChangeLinks
    <2>1. UNCHANGED <<pc, cycle, sinceSend, discovered, timer, beacons, beaconAge>>
      BY <1>1 DEF clusterVars, netVars, beaconVars, ChangeLinks, vars, loopVars
    <2>2. ASSUME NEW n \in Node PROVE PoolOK(n)'
      BY <2>1, PoolKept DEF PoolInv
    <2> QED
      BY <2>1, <2>2 DEF PoolInv
  <1> QED
    BY <1>1, PoolAfterStart, PoolAfterSend, PoolAfterReceive, PoolAfterManage, PoolAfterDiscover,
       PoolAfterSleep, PoolAfterTick DEF ClusterNext, DaemonStep

(* Nobody runs at first.                                                   *)
LEMMA PoolInit == ClusterInit => PoolInv
  <1> SUFFICES ASSUME ClusterInit PROVE PoolInv
    OBVIOUS
  <1>1. DOMAIN EmptyTable = {} /\ EmptyTable \in [{} -> 0 .. AgeLimit]
    BY DEF EmptyTable
  <1>2. ASSUME NEW n \in Node PROVE PoolOK(n)
    BY <1>1, TimeAssumption, ClusterAssumption
       DEF ClusterInit, Init, PoolOK, TimerOK, SocketAgeOK, EntryAgeOK
  <1> QED
    BY <1>2 DEF ClusterInit, PoolInv

(* What the age in iterations bounds, bounds the age in real time.         *)
LEMMA PoolImpliesBound ==
  ASSUME TypeOK, PoolInv, ViewIsFresh
  PROVE  PoolIsBounded
  <1> SUFFICES ASSUME NEW n \in Node, pc[n] \in {"lifecycle", "add", "remove"},
                      NEW p \in DOMAIN discovered[n]
               PROVE  beaconAge[n][p] <= BeaconBound
    BY DEF PoolIsBounded
  <1> DEFINE q == DiscoveryTimeout \div HeartbeatInterval
  <1>1. discovered[n][p].age <= DiscoveryTimeout /\ EntryAgeOK(n) /\ Phase(n) = Round
    BY DEF ViewIsFresh, Deciding, PoolInv, PoolOK, Phase
  <1>2. PICK k \in Nat : /\ discovered[n][p].age = k * HeartbeatInterval
                         /\ beaconAge[n][p] <= k * Round + Round
    BY <1>1 DEF EntryAgeOK
  <1>3. k * HeartbeatInterval <= DiscoveryTimeout
    BY <1>1, <1>2
  <1>4. q \in Nat /\ DiscoveryTimeout < (q + 1) * HeartbeatInterval
    BY TimeAssumption
  <1>5. k <= q
    BY <1>3, <1>4, TimeAssumption
  <1>6. Round \in Nat /\ k * Round <= q * Round
    BY <1>4, <1>5, TimeAssumption DEF Round
  <1>7. (1 + q) * Round = q * Round + Round /\ q * Round \in Nat /\ k * Round \in Nat
    BY <1>4, <1>6
  <1>8. beaconAge[n][p] \in 0 .. AgeLimit
    BY <1>1 DEF EntryAgeOK
  <1>9. BeaconBound = (1 + q) * Round
    BY DEF BeaconBound, Round
  <1> QED
    BY <1>2, <1>6, <1>7, <1>8, <1>9, ClusterAssumption

(* No decision counts a beacon older, in real time, than BeaconBound.      *)
THEOREM PoolStaysBounded == ClusterSpec => []PoolIsBounded
  <1>1. ClusterInit => Init /\ TypeOK /\ NetInv /\ PoolInv
    BY TypeInit, NetInit, PoolInit DEF ClusterInit
  <1>2. TypeOK /\ NetInv /\ PoolInv /\ [ClusterNext]_clusterVars => TypeOK' /\ NetInv' /\ PoolInv'
    BY StepIsADaemonStep, TypeStep, NetStep, PoolStep
  <1>3. TypeOK /\ PoolInv /\ ViewIsFresh => PoolIsBounded
    BY PoolImpliesBound
  <1> QED
    BY <1>1, <1>2, <1>3, ClusterInheritsSafety, PTL DEF ClusterSpec

-----------------------------------------------------------------------------
(* The types of a cluster's variables.                                     *)

HeardOK(n) ==
  /\ DOMAIN heardAge[n] \subseteq Id
  /\ \A p \in DOMAIN heardAge[n] : heardAge[n][p] \in 0 .. AgeLimit

CountsOK ==
  /\ lossy \in SUBSET (Node \X Node)
  /\ crashes \in 0 .. MaxCrashes
  /\ linkChanges \in 0 .. MaxLinkChanges

HeardInv ==
  /\ DOMAIN heardAge = Node
  /\ \A n \in Node : HeardOK(n)
  /\ CountsOK

(* The ages kept are those of the entries that stay.                       *)
LEMMA KeptAgesAreAges ==
  ASSUME NEW t, NEW r, DOMAIN t \subseteq Id, \A p \in DOMAIN t : t[p] \in 0 .. AgeLimit
  PROVE  /\ DOMAIN Keep(t, r) \subseteq Id
         /\ \A p \in DOMAIN Keep(t, r) : Keep(t, r)[p] \in 0 .. AgeLimit
  BY DEF Keep, Restrict

(* Every step of the cluster keeps HeardInv.                               *)
LEMMA HeardStep ==
  ASSUME TypeOK, NetInv, HeardInv, [ClusterNext]_clusterVars
  PROVE  HeardInv'
  <1>1. ASSUME UNCHANGED heardAge, CountsOK' PROVE HeardInv'
    BY <1>1 DEF HeardInv, HeardOK
  <1>2. ASSUME UNCHANGED <<lossy, crashes, linkChanges>> PROVE CountsOK'
    BY <1>2 DEF HeardInv, CountsOK
  <1>3. CASE UNCHANGED clusterVars
    BY <1>1, <1>2, <1>3 DEF clusterVars, netVars
  <1>4. CASE ChangeLinks
    <2>1. CountsOK'
      BY <1>4, ClusterAssumption DEF ChangeLinks, HeardInv, CountsOK
    <2> QED
      BY <1>1, <1>4, <2>1 DEF ChangeLinks
  <1>5. CASE Tick
    <2>1. DOMAIN heardAge' = Node /\ CountsOK'
      BY <1>2, <1>5 DEF Tick
    <2>2. ASSUME NEW n \in Node
          PROVE  HeardOK(n)'
      BY <1>5, ClusterAssumption DEF Tick, HeardInv, HeardOK, OneUnitOlder, AtMost
    <2> QED
      BY <2>1, <2>2 DEF HeardInv
  <1>6. ASSUME NEW n \in Node, Start(n) \/ Discover(n) \/ Sleep(n)
        PROVE  HeardInv'
    BY <1>1, <1>2, <1>6 DEF Start, Discover, Sleep
  <1>7. ASSUME NEW n \in Node, NEW t, DOMAIN t \subseteq Id,
               \A p \in DOMAIN t : t[p] \in 0 .. AgeLimit,
               heardAge' = [heardAge EXCEPT ![n] = t], CountsOK'
        PROVE  HeardInv'
    BY <1>7 DEF HeardInv, HeardOK
  <1>8. ASSUME NEW n \in Node, SendHeartbeats(n) \/ HearNothing(n)
        PROVE  HeardInv'
    <2>1. heardAge' = [heardAge EXCEPT ![n] = Keep(heardAge[n], recent'[n])] /\ CountsOK'
      BY <1>2, <1>8 DEF SendHeartbeats, HearNothing
    <2>2. HeardOK(n)
      BY DEF HeardInv
    <2> QED
      BY <1>7, <2>1, <2>2, KeptAgesAreAges DEF HeardOK
  <1>9. ASSUME NEW n \in Node, Hear(n)
        PROVE  HeardInv'
    <2> DEFINE d == Head(inbox[n])
               heard == Put(heardAge[n], d.status.node_id, d.age)
    <2>1. d \in OnTheWire
      BY <1>9 DEF Hear, NetInv, SocketOK
    <2>2. d.age \in 0 .. AgeLimit /\ d.status.node_id \in Id
      BY <2>1 DEF OnTheWire, WireStatus
    <2>3. heardAge' = [heardAge EXCEPT ![n] = Keep(heard, recent'[n])] /\ CountsOK'
      BY <1>2, <1>9 DEF Hear
    <2> HIDE DEF d
    <2>4. DOMAIN heard \subseteq Id /\ \A p \in DOMAIN heard : heard[p] \in 0 .. AgeLimit
      BY <2>2 DEF Put, HeardInv, HeardOK
    <2> HIDE DEF heard
    <2> QED
      BY <1>7, <2>3, <2>4, KeptAgesAreAges
  <1>10. ASSUME NEW n \in Node, ManageVip(n) \/ Crash(n)
         PROVE  HeardInv'
    <2>1. CountsOK'
      <3>1. UNCHANGED <<lossy, linkChanges>>
        BY <1>10 DEF ManageVip, Crash
      <3>2. CASE ManageVip(n)
        <4>1. UNCHANGED crashes
          BY <3>2 DEF ManageVip
        <4> QED
          BY <3>1, <4>1 DEF HeardInv, CountsOK
      <3>3. CASE Crash(n)
        <4>1. crashes < MaxCrashes /\ crashes' = crashes + 1
          BY <3>3 DEF Crash
        <4>2. crashes' \in 0 .. MaxCrashes
          BY <4>1, ClusterAssumption DEF HeardInv, CountsOK
        <4> QED
          BY <3>1, <4>2 DEF HeardInv, CountsOK
      <3> QED
        BY <1>10, <3>2, <3>3
    <2>2. CloseIfDown(n)
      BY <1>10 DEF ManageVip, Crash
    <2>3. CASE pc'[n] = "down"
      <3>1. heardAge' = [heardAge EXCEPT ![n] = EmptyTable]
        BY <2>2, <2>3 DEF CloseIfDown
      <3>2. DOMAIN EmptyTable = {}
        BY DEF EmptyTable
      <3> QED
        BY <1>7, <2>1, <3>1, <3>2
    <2>4. CASE pc'[n] # "down"
      BY <1>1, <2>1, <2>2, <2>4 DEF CloseIfDown
    <2> QED
      BY <2>3, <2>4
  <1> QED
    BY <1>3, <1>4, <1>5, <1>6, <1>8, <1>9, <1>10 DEF ClusterNext, DaemonStep

(* What is on its way is a datagram.                                       *)
LEMMA WireIsDatagram == OnTheWire \subseteq Datagram
  BY WireIsTyped DEF OnTheWire, Datagram

(* Every variable of a cluster keeps its type.                             *)
THEOREM ClusterTypesKept == ClusterSpec => []ClusterTypeOK
  <1>1. ClusterInit => TypeOK /\ NetInv /\ PoolInv
    BY TypeInit, NetInit, PoolInit DEF ClusterInit
  <1>2. ClusterInit => HeardInv
    BY ClusterAssumption DEF ClusterInit, HeardInv, HeardOK, CountsOK, EmptyTable
  <1>3. TypeOK /\ NetInv /\ PoolInv /\ HeardInv /\ [ClusterNext]_clusterVars =>
          TypeOK' /\ NetInv' /\ PoolInv' /\ HeardInv'
    BY StepIsADaemonStep, TypeStep, NetStep, PoolStep, HeardStep
  <1>4. ASSUME TypeOK, NetInv, PoolInv, HeardInv
        PROVE  ClusterTypeOK
    <2>1. timer \in [Node -> 0 .. (HeartbeatTimeout + HeartbeatInterval + RestartDelay)]
      BY <1>4 DEF PoolInv, PoolOK, TimerOK
    <2>2. ASSUME NEW n \in Node
          PROVE  /\ Len(inbox[n]) <= InboxCapacity
                 /\ \A i \in DOMAIN inbox[n] : inbox[n][i] \in Datagram
                 /\ DOMAIN heardAge[n] \subseteq Id
                 /\ \A p \in DOMAIN heardAge[n] : heardAge[n][p] \in 0 .. AgeLimit
                 /\ DOMAIN beacons[n] \subseteq Node \ {n}
                 /\ beacons[n] \in [DOMAIN beacons[n] -> Datagram]
                 /\ DOMAIN beaconAge[n] = DOMAIN discovered[n]
                 /\ beaconAge[n] \in [DOMAIN beaconAge[n] -> 0 .. AgeLimit]
      <3>1. /\ inbox[n] \in Seq(OnTheWire) /\ Len(inbox[n]) <= InboxCapacity
            /\ DOMAIN beacons[n] \subseteq Node \ {n}
            /\ beacons[n] \in [DOMAIN beacons[n] -> OnTheWire]
        BY <1>4 DEF NetInv, SocketOK
      <3>2. \A i \in DOMAIN inbox[n] : inbox[n][i] \in Datagram
        BY <3>1, WireIsDatagram
      <3>3. beacons[n] \in [DOMAIN beacons[n] -> Datagram]
        BY <3>1, WireIsDatagram
      <3>4. HeardOK(n) /\ EntryAgeOK(n)
        BY <1>4 DEF HeardInv, PoolInv, PoolOK
      <3> QED
        BY <3>1, <3>2, <3>3, <3>4 DEF HeardOK, EntryAgeOK
    <2> QED
      BY <1>4, <2>1, <2>2 DEF ClusterTypeOK, NetInv, PoolInv, HeardInv, CountsOK
  <1> QED
    BY <1>1, <1>2, <1>3, <1>4, PTL DEF ClusterSpec
=============================================================================
