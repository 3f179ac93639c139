------------------------------- MODULE Cluster -------------------------------
(***************************************************************************)
(* Several daemons on one LAN: the nodes of Daemon, the UDP sockets        *)
(* between them for heartbeats and for the beacons of discovery, and real  *)
(* time.                                                                   *)
(*                                                                         *)
(* Real time is counted in units and advances by Tick, only when every     *)
(* daemon waits: asleep until its delay is over, or in poll until a        *)
(* datagram arrives or the timeout is over.  Computation and commands take *)
(* no time.  A daemon counts elapsed_ms by iterations, not by this clock.  *)
(*                                                                         *)
(* While one daemon is between two waits, the others do not move: what it  *)
(* does in between reads and writes only its own host.                     *)
(***************************************************************************)
EXTENDS Daemon, Sequences

CONSTANTS
  InboxCapacity,   \* datagrams a heartbeat socket buffers
  RestartDelay,    \* an ended daemon is up again no sooner: a restart, a boot
  MaxCrashes,      \* bound: processes killed and hosts powered off
  MaxLinkChanges,  \* bound: changes of the set of links that lose datagrams
  LinkStates,      \* the sets of lossy links <<from, to>> a run considers
  AgeLimit         \* bound: real ages of datagrams are told apart up to here

ASSUME ClusterAssumption ==
  /\ InboxCapacity \in Nat \ {0} /\ RestartDelay \in Nat
  /\ MaxCrashes \in Nat /\ MaxLinkChanges \in Nat /\ AgeLimit \in Nat
  /\ LinkStates \subseteq SUBSET (Node \X Node)
  /\ Node \subseteq Segment                 \* the daemons of a cluster hear one another's beacons
  /\ IterationElapsed = HeartbeatInterval   \* main.cpp: the delay is the interval

VARIABLES
  timer,       \* what is left of a sleep, a poll timeout or a restart delay
  inbox,       \* each heartbeat socket's queue of datagrams
  lossy,       \* the links that lose datagrams now
  heardAge,    \* real age of the datagram behind each entry of recent
  beacons,     \* each discovery socket: the last beacon of each other node
  beaconAge,   \* real age of the beacon behind each entry of discovered
  crashes,     \* crashes so far
  linkChanges  \* link changes so far

beaconVars  == <<beacons, beaconAge>>
netVars     == <<timer, inbox, lossy, heardAge, beaconVars, crashes, linkChanges>>
clusterVars == <<vars, netVars>>

Datagram == [status : PeerStatus, age : 0 .. AgeLimit]

ClusterTypeOK ==
  /\ TypeOK
  /\ timer \in [Node -> 0 .. (HeartbeatTimeout + HeartbeatInterval + RestartDelay)]
  /\ DOMAIN inbox = Node /\ DOMAIN heardAge = Node
  /\ DOMAIN beacons = Node /\ DOMAIN beaconAge = Node
  /\ \A n \in Node :
       /\ Len(inbox[n]) <= InboxCapacity
       /\ \A i \in DOMAIN inbox[n] : inbox[n][i] \in Datagram
       /\ DOMAIN heardAge[n] \subseteq Id
       /\ \A p \in DOMAIN heardAge[n] : heardAge[n][p] \in 0 .. AgeLimit
       /\ DOMAIN beacons[n] \subseteq Node \ {n}
       /\ beacons[n] \in [DOMAIN beacons[n] -> Datagram]
       /\ DOMAIN beaconAge[n] = DOMAIN discovered[n]
       /\ beaconAge[n] \in [DOMAIN beaconAge[n] -> 0 .. AgeLimit]
  /\ lossy \in SUBSET (Node \X Node)
  /\ crashes \in 0 .. MaxCrashes
  /\ linkChanges \in 0 .. MaxLinkChanges

ClusterInit ==
  /\ Init
  /\ timer = [n \in Node |-> 0]
  /\ inbox = [n \in Node |-> << >>]
  /\ lossy \in LinkStates
  /\ heardAge = [n \in Node |-> EmptyTable]
  /\ beacons = [n \in Node |-> EmptyTable]
  /\ beaconAge = [n \in Node |-> EmptyTable]
  /\ crashes = 0
  /\ linkChanges = 0

-----------------------------------------------------------------------------
Waiting(n) == pc[n] \in {"asleep", "receive", "down"}

(* Only n may be between two waits.                                        *)
OthersWait(n) == \A m \in Node \ {n} : Waiting(m)

SetTimer(n, t) == timer' = [timer EXCEPT ![n] = t]

(* Mutated form, for testing a property: a backup advertises its hope.     *)
HeartbeatOfCandidate(n) ==
  [node_id |-> n, priority |-> Priority[n], healthy |-> TRUE, heartbeat_seen |-> TRUE,
   state |-> IF advertised[n] = "backup" THEN "candidate" ELSE "master"]

(* What a heartbeat of n carries, and what peerStatusFromHeartbeat makes   *)
(* of it: local_status of the last iteration.                              *)
HeartbeatOf(n) ==
  [node_id |-> n, priority |-> Priority[n], healthy |-> TRUE, heartbeat_seen |-> TRUE,
   state |-> advertised[n]]

(* A socket takes a datagram when its process runs, the link delivers and  *)
(* the buffer has room; otherwise the datagram is lost and nobody knows.   *)
Delivers(n, m) ==
  /\ m \in Peers[n] \cap Node
  /\ pc[m] # "down"
  /\ <<n, m>> \notin lossy
  /\ Len(inbox[m]) < InboxCapacity

(* A process that ends closes its sockets: the queues are gone.  It is not *)
(* started again before RestartDelay: the service manager waits after a    *)
(* failure, and a host takes no less to boot.                              *)
CloseIfDown(n) ==
  IF pc'[n] = "down"
  THEN /\ inbox' = [inbox EXCEPT ![n] = << >>]
       /\ heardAge' = [heardAge EXCEPT ![n] = EmptyTable]
       /\ beacons' = [beacons EXCEPT ![n] = EmptyTable]
       /\ beaconAge' = [beaconAge EXCEPT ![n] = EmptyTable]
       /\ SetTimer(n, RestartDelay)
  ELSE UNCHANGED <<timer, inbox, heardAge, beaconVars>>

Put(table, key, value) ==
  [k \in DOMAIN table \cup {key} |-> IF k = key THEN value ELSE table[k]]

Keep(table, expired) == Restrict(table, DOMAIN table \cap DOMAIN expired)

Start(n) ==
  /\ timer[n] = 0
  /\ ServiceStart(n)
  /\ UNCHANGED <<timer, inbox, lossy, heardAge, beaconVars, crashes, linkChanges>>

(* The sleep is over: send to every peer, then wait in poll.               *)
SendHeartbeats(n) ==
  /\ OthersWait(n)
  /\ timer[n] = 0
  /\ BeginIteration(n, TRUE)
  /\ SetTimer(n, HeartbeatTimeout)
  /\ inbox' = [m \in Node |->
       IF Delivers(n, m) THEN Append(inbox[m], [status |-> HeartbeatOf(n), age |-> 0])
       ELSE inbox[m]]
  /\ heardAge' = [heardAge EXCEPT ![n] = Keep(@, recent'[n])]
  /\ UNCHANGED <<lossy, beaconVars, crashes, linkChanges>>

(* poll returns at once while the queue is not empty; one datagram, the    *)
(* oldest, is taken.                                                       *)
Hear(n) ==
  /\ OthersWait(n)
  /\ inbox[n] # << >>
  /\ CompleteReceive(n, Received(Head(inbox[n]).status))
  /\ inbox' = [inbox EXCEPT ![n] = Tail(@)]
  /\ heardAge' = [heardAge EXCEPT ![n] = Keep(
       Put(@, Head(inbox[n]).status.node_id, Head(inbox[n]).age), recent'[n])]
  /\ SetTimer(n, 0)
  /\ UNCHANGED <<lossy, beaconVars, crashes, linkChanges>>

HearNothing(n) ==
  /\ OthersWait(n)
  /\ inbox[n] = << >>
  /\ timer[n] = 0
  /\ CompleteReceive(n, ReceiveTimeout)
  /\ heardAge' = [heardAge EXCEPT ![n] = Keep(@, recent'[n])]
  /\ UNCHANGED <<timer, inbox, lossy, beaconVars, crashes, linkChanges>>

(* A beacon is broadcast on the segment; a node drops its own, which comes *)
(* back to it, by its identity.                                            *)
BeaconReaches(n, m) == m # n /\ pc[m] # "down" /\ <<n, m>> \notin lossy

(* What a beacon of n carries, verified, is what its heartbeat does.       *)
BeaconOf(n) == HeartbeatOf(n)

(* All that the discovery socket holds, of which the last beacon of each   *)
(* node counts.                                                            *)
Drained(n) == [p \in DOMAIN beacons[n] |-> beacons[n][p].status]

(* Empty the discovery socket; broadcast when the interval is over.        *)
Discover(n) ==
  /\ OthersWait(n)
  /\ ExchangeBeacons(n, Drained(n))
  /\ beacons' = [m \in Node |->
       IF m = n THEN EmptyTable
       ELSE IF beaconDue(n) /\ BeaconReaches(n, m)
       THEN Put(beacons[m], n, [status |-> BeaconOf(n), age |-> 0])
       ELSE beacons[m]]
  /\ beaconAge' = [beaconAge EXCEPT ![n] =
       Keep([p \in DOMAIN @ \cup DOMAIN beacons[n] |->
               IF p \in DOMAIN beacons[n] THEN beacons[n][p].age ELSE @[p]], discovered'[n])]
  /\ UNCHANGED <<timer, inbox, lossy, heardAge, crashes, linkChanges>>

(* Probe, decide and act on the interface, or idle without a VIP; the      *)
(* process may fault.                                                      *)
ManageVip(n) ==
  /\ OthersWait(n)
  /\ \/ LifecycleIdle(n) \/ \E probed \in BOOLEAN : ProbeAndDecide(n, probed)
     \/ AddVip(n) \/ AnnounceVip(n) \/ RemoveVip(n)
  /\ CloseIfDown(n)
  /\ UNCHANGED <<lossy, crashes, linkChanges>>

Sleep(n) ==
  /\ OthersWait(n)
  /\ EndIteration(n)
  /\ SetTimer(n, HeartbeatInterval)
  /\ UNCHANGED <<inbox, lossy, heardAge, beaconVars, crashes, linkChanges>>

Crash(n) ==
  /\ OthersWait(n)
  /\ crashes < MaxCrashes
  /\ Kill(n) \/ PowerLoss(n)
  /\ CloseIfDown(n)
  /\ crashes' = crashes + 1
  /\ UNCHANGED <<lossy, linkChanges>>

ChangeLinks ==
  /\ \A n \in Node : Waiting(n)
  /\ linkChanges < MaxLinkChanges
  /\ lossy' \in LinkStates \ {lossy}
  /\ linkChanges' = linkChanges + 1
  /\ UNCHANGED <<vars, timer, inbox, heardAge, beaconVars, crashes>>

(* A daemon that could move at once keeps time from passing; a process     *)
(* that is down starts whenever the service manager gets to it.            *)
MayLetTimePass(n) ==
  \/ pc[n] = "down"
  \/ pc[n] = "asleep" /\ timer[n] > 0
  \/ pc[n] = "receive" /\ timer[n] > 0 /\ inbox[n] = << >>

OneUnitOlder(age) == AtMost(age + 1, AgeLimit)

Tick ==
  /\ \A n \in Node : MayLetTimePass(n)
  /\ \E n \in Node : pc[n] # "down" \/ timer[n] > 0
  /\ timer' = [n \in Node |-> IF timer[n] > 0 THEN timer[n] - 1 ELSE 0]
  /\ inbox' = [n \in Node |->
       [i \in DOMAIN inbox[n] |-> [inbox[n][i] EXCEPT !.age = OneUnitOlder(@)]]]
  /\ heardAge' = [n \in Node |-> [p \in DOMAIN heardAge[n] |-> OneUnitOlder(heardAge[n][p])]]
  /\ beacons' = [n \in Node |->
       [p \in DOMAIN beacons[n] |-> [beacons[n][p] EXCEPT !.age = OneUnitOlder(@)]]]
  /\ beaconAge' = [n \in Node |->
       [p \in DOMAIN beaconAge[n] |-> OneUnitOlder(beaconAge[n][p])]]
  /\ UNCHANGED <<vars, lossy, crashes, linkChanges>>

DaemonStep(n) ==
  \/ Start(n) \/ SendHeartbeats(n) \/ Hear(n) \/ HearNothing(n) \/ Discover(n)
  \/ ManageVip(n) \/ Sleep(n)

ClusterNext ==
  \/ \E n \in Node : DaemonStep(n) \/ Crash(n)
  \/ ChangeLinks
  \/ Tick

ClusterSpec == ClusterInit /\ [][ClusterNext]_clusterVars

(* Daemons run and time passes; crashes and link changes owe nothing.      *)
FairClusterSpec ==
  /\ ClusterSpec
  /\ \A n \in Node : WF_clusterVars(DaemonStep(n))
  /\ WF_clusterVars(Tick)

-----------------------------------------------------------------------------
(* Safety                                                                  *)

Owners == {n \in Node : vip[n]}

(* No two hosts carry the VIP.                                             *)
AtMostOneOwner == \A m, n \in Node : vip[m] /\ vip[n] => m = n

(* No two daemons that run and are past their warm-up hold the VIP.        *)
AtMostOneWarmOwner ==
  \A m, n \in Node : vip[m] /\ vip[n] /\ warm[m] /\ warm[n] => m = n

(* Each node of the cluster behaves like the daemon that Daemon puts in an *)
(* open environment: what holds there of any daemon holds here.            *)
EveryNodeIsADaemon == Spec

(* What the real age of a counted heartbeat comes to when its datagram     *)
(* waited in the queue for so long: the entry made of it survives the      *)
(* iterations that add one interval each to elapsed_ms, but may take the   *)
(* interval and a whole receive timeout of real time.                      *)
AgeAfterQueue(wait) ==
  wait + ((HeartbeatTimeout - 1) \div HeartbeatInterval) * (HeartbeatInterval + HeartbeatTimeout)

HeartbeatsYoungerThan(bound) ==
  \A n \in Node : pc[n] \in {"lifecycle", "add", "remove"} =>
    \A p \in DOMAIN recent[n] : heardAge[n][p] <= bound

(* Every peer a decision counts sent its last heartbeat at most            *)
(* DetectionBound of real time ago, where a socket has one sender: of a    *)
(* single sender no datagram waits for longer than an interval.  That is   *)
(* more than the timeout_ms.                                               *)
DetectionBound == AgeAfterQueue(HeartbeatInterval)

DetectionIsBounded == HeartbeatsYoungerThan(DetectionBound)

(* With any number of senders the queue may be full; a receive takes one   *)
(* datagram, and every interval sees one receive.                          *)
QueueBound == AgeAfterQueue(InboxCapacity * HeartbeatInterval)

QueueIsBounded == HeartbeatsYoungerThan(QueueBound)

(* The same of beacons: one waits in the socket for the rest of an         *)
(* iteration, and the entry made of it is counted in the iterations that   *)
(* add no more than timeout_ms to elapsed_ms, each of which may take the   *)
(* sleep and a whole heartbeat timeout of real time.                       *)
BeaconBound ==
  (1 + DiscoveryTimeout \div HeartbeatInterval) * (HeartbeatInterval + HeartbeatTimeout)

PoolIsBounded ==
  \A n \in Node : pc[n] \in {"lifecycle", "add", "remove"} =>
    \A p \in DOMAIN discovered[n] : beaconAge[n][p] <= BeaconBound

-----------------------------------------------------------------------------
(* Liveness                                                                *)

Ranking(n) == [node_id |-> n, priority |-> Priority[n]]

TopNode == CHOOSE n \in Node : \A m \in Node \ {n} : Outranks(Ranking(n), Ranking(m))

(* Once the links stop changing and lose nothing, the highest-ranked node, *)
(* and it alone, ends up with the VIP for good.                            *)
TopNodeTakesOver ==
  <>[](lossy = {}) => <>[](Owners = {TopNode})

(* Once the links stop changing and lose nothing, the cluster settles on   *)
(* one owner.                                                              *)
OneOwnerInTheEnd ==
  <>[](lossy = {}) => <>[](Cardinality(Owners) = 1)
=============================================================================
