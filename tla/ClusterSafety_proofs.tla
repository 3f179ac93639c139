------------------------ MODULE ClusterSafety_proofs ------------------------
(***************************************************************************)
(* Theorems about Cluster, continued: how old, in real time, the           *)
(* heartbeats are that a decision counts, in any cluster and where a       *)
(* socket has one sender; and that a cluster whose quorum is everybody     *)
(* never has two owners.                                                   *)
(***************************************************************************)
EXTENDS Cluster_proofs

-----------------------------------------------------------------------------
(* The tables and real time                                                *)

(* An entry that a decision may count was heard k iterations ago, each of  *)
(* them but the one under way took a round at most, and its datagram had   *)
(* waited for no longer than w.                                            *)
EntriesWithin(w, table, ages, phase) ==
  \A p \in DOMAIN table : table[p].age < HeartbeatTimeout =>
    \E k \in Nat : /\ table[p].age = k * HeartbeatInterval
                   /\ ages[p] + Round <= w + k * Round + phase

(* The real ages that are told apart.                                      *)
IsAges(ages) == \A p \in DOMAIN ages : ages[p] \in 0 .. AgeLimit

(* Lengths of time.                                                        *)
LEMMA RoundIsNat == Round \in Nat /\ HeartbeatInterval \in Nat \ {0}
  BY TimeAssumption DEF Round

(* An entry that goes is forgotten with its age.                           *)
LEMMA ExpiryKeepsWithin ==
  ASSUME NEW w \in Nat, NEW table, NEW ages, NEW phase \in Int, DOMAIN ages = DOMAIN table,
         EntriesWithin(w, table, ages, phase)
  PROVE  /\ DOMAIN expirePeers(table) \subseteq DOMAIN table
         /\ DOMAIN Keep(ages, expirePeers(table)) = DOMAIN expirePeers(table)
         /\ EntriesWithin(w, expirePeers(table), Keep(ages, expirePeers(table)), phase)
  BY DEF expirePeers, Keep, Restrict, EntriesWithin

(* A later phase allows for more.                                          *)
LEMMA LaterKeepsWithin ==
  ASSUME NEW w \in Nat, NEW table, NEW ages, NEW phase \in Int, NEW later \in Int, phase <= later,
         DOMAIN ages = DOMAIN table, IsAges(ages), EntriesWithin(w, table, ages, phase)
  PROVE  EntriesWithin(w, table, ages, later)
  <1>1. ASSUME NEW p \in DOMAIN table, table[p].age < HeartbeatTimeout
        PROVE  \E k \in Nat : /\ table[p].age = k * HeartbeatInterval
                              /\ ages[p] + Round <= w + k * Round + later
    <2>1. PICK k \in Nat : /\ table[p].age = k * HeartbeatInterval
                           /\ ages[p] + Round <= w + k * Round + phase
      BY <1>1 DEF EntriesWithin
    <2> DEFINE kr == k * Round
    <2>2. kr \in Nat /\ ages[p] \in Nat /\ ages[p] + Round <= w + kr + phase
      BY <2>1, RoundIsNat, ClusterAssumption DEF IsAges
    <2> HIDE DEF kr
    <2>3. ages[p] + Round <= w + kr + later
      BY <2>2, RoundIsNat
    <2> QED
      BY <2>1, <2>3 DEF kr
  <1> QED
    BY <1>1 DEF EntriesWithin

(* A new entry is as old as its datagram.                                  *)
LEMMA HearingKeepsWithin ==
  ASSUME NEW w \in Nat, NEW table, NEW ages, DOMAIN ages = DOMAIN table,
         EntriesWithin(w, table, ages, Round), NEW p, NEW status, NEW age \in Nat, age <= w
  PROVE  /\ DOMAIN Put(ages, p, age) = DOMAIN observe(table, p, status)
         /\ EntriesWithin(w, observe(table, p, status), Put(ages, p, age), Round)
  <1>1. 0 = 0 * HeartbeatInterval /\ age + Round <= w + 0 * Round + Round /\ 0 \in Nat
    BY RoundIsNat
  <1> DEFINE t == observe(table, p, status)
             a == Put(ages, p, age)
  <1>2. /\ DOMAIN t = DOMAIN table \cup {p} /\ DOMAIN a = DOMAIN ages \cup {p}
        /\ t[p].age = 0 /\ a[p] = age
        /\ \A q \in DOMAIN table \ {p} : t[q] = table[q] /\ a[q] = ages[q]
    BY DEF observe, Put
  <1> HIDE DEF t, a
  <1>3. ASSUME NEW q \in DOMAIN t, t[q].age < HeartbeatTimeout
        PROVE  \E k \in Nat : /\ t[q].age = k * HeartbeatInterval
                              /\ a[q] + Round <= w + k * Round + Round
    <2>1. CASE q = p
      BY <1>1, <1>2, <2>1
    <2>2. CASE q # p
      BY <1>2, <1>3, <2>2 DEF EntriesWithin
    <2> QED
      BY <2>1, <2>2
  <1>4. DOMAIN a = DOMAIN t /\ EntriesWithin(w, t, a, Round)
    BY <1>2, <1>3 DEF EntriesWithin
  <1> QED
    BY <1>4 DEF t, a

(* An iteration ends: its round is over, another entry of k begins.        *)
LEMMA AgingKeepsWithin ==
  ASSUME NEW w \in Nat, NEW table, NEW ages, IsTable(table, HeartbeatTimeout),
         DOMAIN ages = DOMAIN table, IsAges(ages), EntriesWithin(w, table, ages, Round)
  PROVE  /\ DOMAIN Older(table, HeartbeatTimeout) = DOMAIN table
         /\ EntriesWithin(w, Older(table, HeartbeatTimeout), ages, 0)
  <1>1. ASSUME NEW p \in DOMAIN table, Older(table, HeartbeatTimeout)[p].age < HeartbeatTimeout
        PROVE  \E k \in Nat : /\ Older(table, HeartbeatTimeout)[p].age = k * HeartbeatInterval
                              /\ ages[p] + Round <= w + k * Round + 0
    <2> DEFINE age == table[p].age
    <2>1. table[p] \in [status : PeerStatus, age : 0 .. HeartbeatTimeout]
      BY DEF IsTable
    <2>2. Older(table, HeartbeatTimeout)[p].age = AtMost(age + IterationElapsed, HeartbeatTimeout)
      BY <2>1 DEF Older
    <2>3. Older(table, HeartbeatTimeout)[p].age = age + HeartbeatInterval /\ age < HeartbeatTimeout
      BY <1>1, <2>1, <2>2, TimeAssumption, ClusterAssumption DEF AtMost
    <2>4. PICK k \in Nat : /\ age = k * HeartbeatInterval
                           /\ ages[p] + Round <= w + k * Round + Round
      BY <2>3 DEF EntriesWithin
    <2>5. Round \in Nat /\ HeartbeatInterval \in Nat
      BY RoundIsNat
    <2>6. /\ k + 1 \in Nat /\ (k + 1) * HeartbeatInterval = k * HeartbeatInterval + HeartbeatInterval
          /\ (k + 1) * Round = k * Round + Round /\ (k + 1) * Round + 0 = (k + 1) * Round
      BY <2>5
    <2>7. Older(table, HeartbeatTimeout)[p].age = (k + 1) * HeartbeatInterval
      BY <2>3, <2>4, <2>6
    <2>8. ages[p] \in Nat
      BY ClusterAssumption DEF IsAges
    <2> DEFINE kr == k * Round
    <2>9. kr \in Nat /\ ages[p] + Round <= w + kr + Round /\ (k + 1) * Round = kr + Round
      BY <2>4, <2>5, <2>6
    <2> HIDE DEF kr
    <2>10. ages[p] + Round <= w + (k + 1) * Round + 0
      BY <2>5, <2>8, <2>9
    <2> QED
      BY <2>6, <2>7, <2>10
  <1>2. DOMAIN Older(table, HeartbeatTimeout) = DOMAIN table
    BY DEF Older
  <1> QED
    BY <1>1, <1>2 DEF EntriesWithin

(* Time passes for the entry and for the iteration.                        *)
LEMMA TimeKeepsWithin ==
  ASSUME NEW w \in Nat, NEW table, NEW ages, NEW phase \in Int,
         DOMAIN ages = DOMAIN table, IsAges(ages), EntriesWithin(w, table, ages, phase)
  PROVE  EntriesWithin(w, table, [p \in DOMAIN ages |-> OneUnitOlder(ages[p])], phase + 1)
  <1>1. ASSUME NEW p \in DOMAIN table, table[p].age < HeartbeatTimeout
        PROVE  \E k \in Nat : /\ table[p].age = k * HeartbeatInterval
                              /\ OneUnitOlder(ages[p]) + Round <= w + k * Round + (phase + 1)
    <2>1. PICK k \in Nat : /\ table[p].age = k * HeartbeatInterval
                           /\ ages[p] + Round <= w + k * Round + phase
      BY <1>1 DEF EntriesWithin
    <2> DEFINE kr == k * Round
    <2>2. /\ kr \in Nat /\ ages[p] \in 0 .. AgeLimit /\ ages[p] + Round <= w + kr + phase
      BY <2>1, RoundIsNat DEF IsAges
    <2>3. OneUnitOlder(ages[p]) \in Nat /\ OneUnitOlder(ages[p]) <= ages[p] + 1
      BY <2>2, ClusterAssumption DEF OneUnitOlder, AtMost
    <2> HIDE DEF kr
    <2>4. OneUnitOlder(ages[p]) + Round <= w + kr + (phase + 1)
      BY <2>2, <2>3, RoundIsNat, ClusterAssumption
    <2> QED
      BY <2>1, <2>4 DEF kr
  <1> QED
    BY <1>1 DEF EntriesWithin

(* What a node has in its table was heard from peers of its own, and its   *)
(* table is empty while it is down.                                        *)
EntryOK(w, n) ==
  /\ DOMAIN recent[n] \subseteq Peers[n]
  /\ pc[n] = "down" => DOMAIN recent[n] = {}
  /\ DOMAIN heardAge[n] = DOMAIN recent[n]
  /\ IsAges(heardAge[n])
  /\ EntriesWithin(w, recent[n], heardAge[n], Phase(n))

(* The entries of all tables.                                              *)
EntryInv(w) ==
  /\ DOMAIN heardAge = Node
  /\ \A n \in Node : EntryOK(w, n)

(* No datagram waits for longer than w.                                    *)
HeadsWithin(w) ==
  \A n \in Node : pc[n] = "receive" /\ inbox[n] # << >> => Head(inbox[n]).age <= w

(* A node that nothing happens to.                                         *)
LEMMA EntryKept ==
  ASSUME NEW w \in Nat, NEW n \in Node, EntryOK(w, n),
         pc'[n] = pc[n], timer'[n] = timer[n], recent'[n] = recent[n], heardAge'[n] = heardAge[n]
  PROVE  EntryOK(w, n)'
  BY DEF EntryOK, Phase, Round

(* It is enough to look at the node that takes the step.                   *)
LEMMA EntryOfOthers ==
  ASSUME NEW w \in Nat, EntryInv(w), NEW n \in Node,
         \A m \in Node \ {n} : /\ pc'[m] = pc[m] /\ timer'[m] = timer[m]
                               /\ recent'[m] = recent[m] /\ heardAge'[m] = heardAge[m],
         DOMAIN heardAge' = Node, EntryOK(w, n)'
  PROVE  EntryInv(w)'
  <1>1. ASSUME NEW m \in Node \ {n} PROVE EntryOK(w, m)'
    BY EntryKept DEF EntryInv
  <1> QED
    BY <1>1 DEF EntryInv

(* The phase is a number, and not beyond the round.                        *)
LEMMA PhaseIsInt ==
  ASSUME PoolInv, NEW n \in Node
  PROVE  /\ Phase(n) \in Int /\ timer[n] \in Nat /\ Phase(n) <= Round
         /\ pc[n] = "asleep" => timer[n] <= HeartbeatInterval
  <1>1. timer[n] \in Nat /\ (pc[n] = "asleep" => timer[n] <= HeartbeatInterval)
    BY TimeAssumption, ClusterAssumption DEF PoolInv, PoolOK, TimerOK
  <1> QED
    BY <1>1, TimeAssumption DEF Phase, Round

(* A process ends, and forgets what it heard.                              *)
LEMMA EntryAfterExit ==
  ASSUME TypeOK, PoolInv, NEW w \in Nat, EntryInv(w), NEW n \in Node,
         NEW status, Exit(n, status), CloseIfDown(n)
  PROVE  EntryInv(w)'
  <1>1. /\ pc'[n] = "down" /\ recent'[n] = EmptyTable
        /\ \A m \in Node \ {n} : pc'[m] = pc[m] /\ recent'[m] = recent[m]
    BY DEF Exit, LoopReset, GoTo, TypeOK
  <1>2. /\ heardAge'[n] = EmptyTable /\ DOMAIN heardAge' = Node
        /\ \A m \in Node \ {n} : timer'[m] = timer[m] /\ heardAge'[m] = heardAge[m]
    BY <1>1 DEF CloseIfDown, SetTimer, EntryInv, PoolInv
  <1>3. EntryOK(w, n)'
    BY <1>1, <1>2 DEF EntryOK, EmptyTable, EntriesWithin, IsAges
  <1> QED
    BY <1>1, <1>2, <1>3, EntryOfOthers

(* A process starts with an empty table.                                   *)
LEMMA EntryAfterStart ==
  ASSUME TypeOK, PoolInv, NEW w \in Nat, EntryInv(w), NEW n \in Node, Start(n)
  PROVE  EntryInv(w)'
  <1>1. /\ pc[n] = "down" /\ pc'[n] = "asleep" /\ UNCHANGED <<timer, recent, heardAge>>
        /\ \A m \in Node \ {n} : pc'[m] = pc[m]
    BY DEF Start, ServiceStart, Launch, GoTo, loopVars, TypeOK
  <1>2. EntryOK(w, n)'
    BY <1>1 DEF EntryInv, EntryOK, EntriesWithin
  <1> QED
    BY <1>1, <1>2, EntryOfOthers DEF EntryInv

(* Peers expire; the wait begins.                                          *)
LEMMA EntryAfterSend ==
  ASSUME TypeOK, PoolInv, NEW w \in Nat, EntryInv(w), NEW n \in Node, SendHeartbeats(n)
  PROVE  EntryInv(w)'
  <1> DEFINE table == expirePeers(recent[n])
             ages  == Keep(heardAge[n], table)
  <1>1. heartbeatDue(n) /\ pc[n] = "asleep" /\ timer[n] = 0 /\ EntryOK(w, n)
    BY TimeAssumption DEF SendHeartbeats, BeginIteration, PoolInv, PoolOK, TimerOK, heartbeatDue, EntryInv
  <1>2. /\ pc'[n] = "receive" /\ timer'[n] = HeartbeatTimeout /\ recent'[n] = table
        /\ \A m \in Node \ {n} : /\ pc'[m] = pc[m] /\ timer'[m] = timer[m]
                                 /\ recent'[m] = recent[m]
    BY <1>1 DEF SendHeartbeats, BeginIteration, GoTo, SetTimer, TypeOK, PoolInv
  <1>3. heardAge'[n] = ages /\ DOMAIN heardAge' = Node
    BY <1>2 DEF SendHeartbeats, EntryInv
  <1>4. \A m \in Node \ {n} : heardAge'[m] = heardAge[m]
    BY DEF SendHeartbeats, EntryInv
  <1>5. Phase(n)' = Phase(n)
    BY <1>1, <1>2, TimeAssumption DEF Phase, Round
  <1>6. /\ DOMAIN table \subseteq DOMAIN recent[n] /\ DOMAIN ages = DOMAIN table
        /\ EntriesWithin(w, table, ages, Phase(n))
    BY <1>1, ExpiryKeepsWithin, PhaseIsInt DEF EntryOK
  <1>7. IsAges(ages)
    BY <1>1 DEF EntryOK, IsAges, Keep, Restrict
  <1> HIDE DEF table, ages
  <1>8. EntryOK(w, n)'
    BY <1>1, <1>2, <1>3, <1>5, <1>6, <1>7 DEF EntryOK
  <1> QED
    BY <1>2, <1>3, <1>4, <1>8, EntryOfOthers

(* The wait ends: the entries of the table, with the one heard or without, *)
(* expire, and the round is over.                                          *)
LEMMA EntryAfterOutcome ==
  ASSUME TypeOK, PoolInv, NEW w \in Nat, EntryInv(w), NEW n \in Node,
         NEW result, CompleteReceive(n, result), result.kind # "error",
         timer' \in {timer, [timer EXCEPT ![n] = 0]}, NEW table, NEW ages,
         table = IF result.kind = "message" /\ peerIsConfigured(n, result.status.node_id)
                 THEN observe(recent[n], result.status.node_id, result.status)
                 ELSE recent[n],
         heardAge' = [heardAge EXCEPT ![n] = Keep(ages, recent'[n])],
         DOMAIN table \subseteq DOMAIN ages, IsAges(ages),
         EntriesWithin(w, table, Keep(ages, table), Round)
  PROVE  EntryInv(w)'
  <1> DEFINE kept == expirePeers(table)
             next == IF DiscoveryEnabled THEN "discovery" ELSE "lifecycle"
  <1>1. ~heartbeatFaults(n, result)
    BY DEF heartbeatFaults, PoolInv, PoolOK, TimerOK
  <1>2. /\ pc'[n] = next /\ recent'[n] = kept
        /\ \A m \in Node \ {n} : pc'[m] = pc[m] /\ recent'[m] = recent[m]
    BY <1>1 DEF CompleteReceive, ReceiveOutcome, GoTo, TypeOK
  <1>3. \A m \in Node \ {n} : timer'[m] = timer[m] /\ heardAge'[m] = heardAge[m]
    BY DEF PoolInv, EntryInv
  <1>4. DOMAIN heardAge' = Node /\ heardAge'[n] = Keep(ages, kept)
    BY <1>2 DEF EntryInv
  <1>5. DOMAIN table \subseteq Peers[n]
    BY DEF EntryInv, EntryOK, observe, peerIsConfigured
  <1>6. DOMAIN kept \subseteq DOMAIN table /\ \A p \in DOMAIN kept : kept[p] = table[p]
    BY DEF expirePeers, Restrict
  <1> HIDE DEF kept
  <1>7. /\ DOMAIN Keep(ages, kept) = DOMAIN kept
        /\ \A p \in DOMAIN kept : Keep(ages, kept)[p] = ages[p] /\ Keep(ages, table)[p] = ages[p]
    BY <1>6 DEF Keep, Restrict
  <1>8. IsAges(Keep(ages, kept)) /\ EntriesWithin(w, kept, Keep(ages, kept), Round)
    BY <1>6, <1>7 DEF IsAges, EntriesWithin
  <1>9. Phase(n)' = Round
    BY <1>2 DEF Phase, Round
  <1>10. EntryOK(w, n)'
    BY <1>2, <1>4, <1>5, <1>6, <1>7, <1>8, <1>9 DEF EntryOK
  <1> QED
    BY <1>2, <1>3, <1>4, <1>10, EntryOfOthers

(* The entry that a datagram makes is as old as it.                        *)
LEMMA EntryAfterReceive ==
  ASSUME TypeOK, NetInv, PoolInv, NEW w \in Nat, EntryInv(w), HeadsWithin(w), NEW n \in Node,
         Hear(n) \/ HearNothing(n)
  PROVE  EntryInv(w)'
  <1>1. pc[n] = "receive" /\ EntryOK(w, n) /\ timer' \in {timer, [timer EXCEPT ![n] = 0]}
    BY DEF Hear, HearNothing, CompleteReceive, ReceiveOutcome, SetTimer, EntryInv
  <1>2. EntriesWithin(w, recent[n], heardAge[n], Round)
    <2>1. Phase(n) \in Int /\ Phase(n) <= Round /\ Round \in Int
      BY PhaseIsInt, RoundIsNat
    <2>2. DOMAIN heardAge[n] = DOMAIN recent[n] /\ IsAges(heardAge[n])
      BY <1>1 DEF EntryOK
    <2>3. EntriesWithin(w, recent[n], heardAge[n], Phase(n))
      BY <1>1 DEF EntryOK
    <2> QED
      BY <2>1, <2>2, <2>3, LaterKeepsWithin
  <1>3. CASE HearNothing(n)
    <2>1. EntriesWithin(w, recent[n], Keep(heardAge[n], recent[n]), Round)
      BY <1>1, <1>2 DEF EntryOK, EntriesWithin, Keep, Restrict
    <2>2. /\ CompleteReceive(n, ReceiveTimeout) /\ ReceiveTimeout.kind \notin {"error", "message"}
          /\ heardAge' = [heardAge EXCEPT ![n] = Keep(heardAge[n], recent'[n])]
      BY <1>3 DEF HearNothing, ReceiveTimeout
    <2>3. DOMAIN recent[n] \subseteq DOMAIN heardAge[n] /\ IsAges(heardAge[n])
      BY <1>1 DEF EntryOK
    <2> QED
      BY <1>1, <2>1, <2>2, <2>3, EntryAfterOutcome
  <1>4. CASE Hear(n)
    <2> DEFINE d == Head(inbox[n])
               p == d.status.node_id
               ages == Put(heardAge[n], p, d.age)
    <2>1. d \in OnTheWire /\ inbox[n] # << >>
      BY <1>4 DEF Hear, NetInv, SocketOK
    <2>2. d.age \in 0 .. AgeLimit /\ d.age \in Nat /\ d.age <= w
      BY <1>1, <2>1, ClusterAssumption DEF OnTheWire, HeadsWithin
    <2>3. /\ CompleteReceive(n, Received(d.status))
          /\ heardAge' = [heardAge EXCEPT ![n] = Keep(ages, recent'[n])]
      BY <1>4 DEF Hear
    <2>4. /\ Received(d.status).kind = "message" /\ Received(d.status).kind # "error"
          /\ Received(d.status).status = d.status
      BY DEF Received
    <2> HIDE DEF d
    <2>5. IsAges(ages)
      BY <1>1, <2>2 DEF EntryOK, IsAges, Put
    <2>6. CASE peerIsConfigured(n, p)
      <3> DEFINE table == observe(recent[n], p, d.status)
      <3>1. DOMAIN ages = DOMAIN table /\ EntriesWithin(w, table, ages, Round)
        BY <1>1, <1>2, <2>2, HearingKeepsWithin DEF EntryOK
      <3> HIDE DEF ages, table
      <3>2. EntriesWithin(w, table, Keep(ages, table), Round)
        BY <3>1 DEF EntriesWithin, Keep, Restrict
      <3>3. table = IF /\ Received(d.status).kind = "message"
                       /\ peerIsConfigured(n, Received(d.status).status.node_id)
                    THEN observe(recent[n], Received(d.status).status.node_id, Received(d.status).status)
                    ELSE recent[n]
        BY <2>4, <2>6 DEF table
      <3> QED
        BY <1>1, <2>3, <2>4, <2>5, <3>1, <3>2, <3>3, EntryAfterOutcome
    <2>7. CASE ~peerIsConfigured(n, p)
      <3>1. p \notin DOMAIN recent[n]
        BY <1>1, <2>7 DEF EntryOK, peerIsConfigured
      <3>2. DOMAIN recent[n] \subseteq DOMAIN ages /\ \A q \in DOMAIN recent[n] : ages[q] = heardAge[n][q]
        BY <1>1, <3>1 DEF EntryOK, Put
      <3> HIDE DEF ages
      <3>3. EntriesWithin(w, recent[n], Keep(ages, recent[n]), Round)
        BY <1>2, <3>2 DEF EntriesWithin, Keep, Restrict
      <3> QED
        BY <1>1, <2>3, <2>4, <2>5, <2>7, <3>2, <3>3, EntryAfterOutcome
    <2> QED
      BY <2>6, <2>7
  <1> QED
    BY <1>3, <1>4

(* A node that hears nothing and stays between its waits.                  *)
LEMMA EntryHeld ==
  ASSUME TypeOK, PoolInv, NEW w \in Nat, EntryInv(w), NEW n \in Node,
         UNCHANGED <<timer, recent, heardAge>>,
         \A m \in Node \ {n} : pc'[m] = pc[m],
         pc[n] \notin {"asleep", "receive", "down"}, pc'[n] \notin {"asleep", "receive", "down"}
  PROVE  EntryInv(w)'
  <1>1. Phase(n)' = Phase(n)
    BY DEF Phase, Round
  <1>2. EntryOK(w, n)'
    BY <1>1 DEF EntryInv, EntryOK
  <1> QED
    BY <1>2, EntryOfOthers DEF EntryInv

(* Probing, deciding and acting on the interface.                          *)
LEMMA EntryAfterManage ==
  ASSUME TypeOK, PoolInv, NEW w \in Nat, EntryInv(w), NEW n \in Node, ManageVip(n) \/ Crash(n)
  PROVE  EntryInv(w)'
  <1>1. CloseIfDown(n)
    BY DEF ManageVip, Crash
  <1>2. CASE \E status : Exit(n, status)
    BY <1>1, <1>2, EntryAfterExit
  <1>3. CASE \A status : ~Exit(n, status)
    <2>1. /\ pc[n] \in {"lifecycle", "add", "announce", "remove"}
          /\ \E next \in {"add", "announce", "remove", "publish", "stopping"} : GoTo(n, next)
          /\ UNCHANGED recent
      BY <1>3 DEF ManageVip, Crash, Kill, PowerLoss, LifecycleIdle, ProbeAndDecide, AddVip,
                  AnnounceVip, RemoveVip, RecordVipOperation, operationFor, loopVars
    <2>2. /\ pc'[n] \in {"add", "announce", "remove", "publish", "stopping"}
          /\ \A m \in Node \ {n} : pc'[m] = pc[m]
      BY <2>1 DEF GoTo, TypeOK
    <2>3. UNCHANGED <<timer, heardAge>>
      BY <1>1, <2>2 DEF CloseIfDown
    <2> QED
      BY <2>1, <2>2, <2>3, EntryHeld
  <1> QED
    BY <1>2, <1>3

(* The next iteration begins with its round still to come.                 *)
LEMMA EntryAfterSleep ==
  ASSUME TypeOK, PoolInv, NEW w \in Nat, EntryInv(w), NEW n \in Node, Sleep(n)
  PROVE  EntryInv(w)'
  <1> DEFINE table == Older(recent[n], HeartbeatTimeout)
  <1>1. /\ pc[n] = "publish" /\ pc'[n] = "asleep" /\ timer'[n] = HeartbeatInterval
        /\ recent'[n] = table /\ UNCHANGED heardAge
        /\ \A m \in Node \ {n} : /\ pc'[m] = pc[m] /\ timer'[m] = timer[m]
                                 /\ recent'[m] = recent[m]
    BY DEF Sleep, EndIteration, GoTo, SetTimer, TypeOK, PoolInv
  <1>2. Phase(n) = Round /\ Phase(n)' = 0
    BY <1>1, TimeAssumption DEF Phase
  <1>3. EntryOK(w, n) /\ IsTable(recent[n], HeartbeatTimeout)
    BY DEF EntryInv, TypeOK
  <1>4. DOMAIN heardAge[n] = DOMAIN recent[n] /\ IsAges(heardAge[n])
        /\ EntriesWithin(w, recent[n], heardAge[n], Round)
    BY <1>2, <1>3 DEF EntryOK
  <1>5. DOMAIN table = DOMAIN recent[n] /\ EntriesWithin(w, table, heardAge[n], 0)
    BY <1>3, <1>4, AgingKeepsWithin
  <1> HIDE DEF table
  <1>6. EntryOK(w, n)'
    BY <1>1, <1>2, <1>3, <1>4, <1>5 DEF EntryOK
  <1> QED
    BY <1>1, <1>6, EntryOfOthers DEF EntryInv

(* Time passes.                                                            *)
LEMMA EntryAfterTick ==
  ASSUME TypeOK, PoolInv, NEW w \in Nat, EntryInv(w), Tick
  PROVE  EntryInv(w)'
  <1>1. UNCHANGED <<pc, recent>> /\ DOMAIN heardAge' = Node
    BY DEF Tick, vars, loopVars
  <1>2. ASSUME NEW n \in Node
        PROVE  EntryOK(w, n)'
    <2> DEFINE ages == [p \in DOMAIN heardAge[n] |-> OneUnitOlder(heardAge[n][p])]
    <2>1. EntryOK(w, n) /\ heardAge'[n] = ages /\ MayLetTimePass(n)
      BY DEF EntryInv, Tick
    <2>2. timer[n] \in Nat /\ timer'[n] = IF timer[n] > 0 THEN timer[n] - 1 ELSE 0
      BY PhaseIsInt DEF Tick
    <2>3. DOMAIN ages = DOMAIN recent[n] /\ IsAges(ages)
      BY <2>1, ClusterAssumption DEF EntryOK, IsAges, OneUnitOlder, AtMost
    <2>4. CASE pc[n] = "down"
      BY <1>1, <2>1, <2>3, <2>4 DEF EntryOK, EntriesWithin
    <2>5. CASE pc[n] # "down"
      <3>1. pc[n] \in {"asleep", "receive"} /\ timer'[n] = timer[n] - 1
        BY <2>1, <2>2, <2>5 DEF MayLetTimePass
      <3>2. Phase(n) \in Int /\ Phase(n)' = Phase(n) + 1
        BY <1>1, <2>2, <3>1, PhaseIsInt, TimeAssumption DEF Phase, Round
      <3>3. DOMAIN heardAge[n] = DOMAIN recent[n] /\ IsAges(heardAge[n])
            /\ EntriesWithin(w, recent[n], heardAge[n], Phase(n))
        BY <2>1 DEF EntryOK
      <3>4. EntriesWithin(w, recent[n], ages, Phase(n) + 1)
        BY <3>2, <3>3, TimeKeepsWithin
      <3> HIDE DEF ages
      <3> QED
        BY <1>1, <2>1, <2>3, <2>5, <3>2, <3>4 DEF EntryOK
    <2> QED
      BY <2>4, <2>5
  <1> QED
    BY <1>1, <1>2 DEF EntryInv

(* Every step of the cluster keeps EntryInv, as long as no datagram waits  *)
(* for longer than w.                                                      *)
LEMMA EntryStep ==
  ASSUME TypeOK, NetInv, PoolInv, NEW w \in Nat, EntryInv(w), HeadsWithin(w),
         [ClusterNext]_clusterVars
  PROVE  EntryInv(w)'
  <1>1. CASE UNCHANGED clusterVars \/ ChangeLinks
    <2>1. UNCHANGED <<pc, recent, timer, heardAge>>
      BY <1>1 DEF clusterVars, netVars, ChangeLinks, vars, loopVars
    <2>2. ASSUME NEW n \in Node PROVE EntryOK(w, n)'
      BY <2>1, EntryKept DEF EntryInv
    <2> QED
      BY <2>1, <2>2 DEF EntryInv
  <1>2. ASSUME NEW n \in Node, Discover(n)
        PROVE  EntryInv(w)'
    <2>1. /\ pc[n] = "discovery" /\ pc'[n] = "lifecycle" /\ UNCHANGED <<timer, recent, heardAge>>
          /\ \A m \in Node \ {n} : pc'[m] = pc[m]
      BY <1>2 DEF Discover, ExchangeBeacons, GoTo, TypeOK
    <2> QED
      BY <2>1, EntryHeld
  <1> QED
    BY <1>1, <1>2, EntryAfterStart, EntryAfterSend, EntryAfterReceive, EntryAfterManage,
       EntryAfterSleep, EntryAfterTick DEF ClusterNext, DaemonStep

(* Nobody has heard anything at first.                                     *)
LEMMA EntryInit ==
  ASSUME NEW w \in Nat, ClusterInit
  PROVE  EntryInv(w)
  BY DEF ClusterInit, Init, EntryInv, EntryOK, EntriesWithin, IsAges, EmptyTable

(* What the age in iterations bounds, bounds the age in real time.         *)
LEMMA EntryImpliesBound ==
  ASSUME PoolInv, ViewIsFresh, NEW w \in Nat, EntryInv(w)
  PROVE  HeartbeatsYoungerThan(AgeAfterQueue(w))
  <1> SUFFICES ASSUME NEW n \in Node, pc[n] \in {"lifecycle", "add", "remove"},
                      NEW p \in DOMAIN recent[n]
               PROVE  heardAge[n][p] <= AgeAfterQueue(w)
    BY DEF HeartbeatsYoungerThan
  <1> DEFINE q == (HeartbeatTimeout - 1) \div HeartbeatInterval
  <1>1. recent[n][p].age < HeartbeatTimeout /\ EntryOK(w, n) /\ Phase(n) = Round
    BY DEF ViewIsFresh, Deciding, EntryInv, Phase
  <1>2. PICK k \in Nat : /\ recent[n][p].age = k * HeartbeatInterval
                         /\ heardAge[n][p] + Round <= w + k * Round + Round
    BY <1>1 DEF EntryOK, EntriesWithin
  <1>3. k * HeartbeatInterval <= HeartbeatTimeout - 1
    BY <1>1, <1>2, TimeAssumption
  <1>4. q \in Nat /\ HeartbeatTimeout - 1 < (q + 1) * HeartbeatInterval
    BY TimeAssumption
  <1>5. k <= q
    BY <1>3, <1>4, TimeAssumption
  <1>6. Round \in Nat /\ k * Round <= q * Round
    BY <1>4, <1>5, TimeAssumption DEF Round
  <1>7. q * Round \in Nat /\ k * Round \in Nat
    BY <1>4, <1>6
  <1>8. heardAge[n][p] \in Nat
    BY <1>1, ClusterAssumption DEF EntryOK, IsAges
  <1>9. AgeAfterQueue(w) = w + q * Round
    BY DEF AgeAfterQueue, Round
  <1> QED
    BY <1>2, <1>6, <1>7, <1>8, <1>9

-----------------------------------------------------------------------------
(* The queues and real time                                                *)

(* How long the i-th datagram of n's queue waits until a receive takes it, *)
(* at most: a receive takes the first at once, and every interval sees one.*)
WaitFor(n, i) ==
  IF pc[n] = "asleep" THEN timer[n] + (i - 1) * HeartbeatInterval
  ELSE IF pc[n] = "receive" THEN (i - 1) * HeartbeatInterval
  ELSE i * HeartbeatInterval

(* No datagram of the queue will have waited for longer than w.            *)
LineOK(w, n) ==
  /\ pc[n] = "down" => inbox[n] = << >>
  /\ \A i \in DOMAIN inbox[n] : inbox[n][i].age + WaitFor(n, i) <= w

(* The lines at all sockets.                                               *)
LineInv(w) == \A n \in Node : LineOK(w, n)

(* The turns of a queue.                                                   *)
LEMMA TurnsAreIntervals ==
  ASSUME NEW i \in Nat
  PROVE  /\ i * HeartbeatInterval \in Nat
         /\ (i + 1) * HeartbeatInterval = i * HeartbeatInterval + HeartbeatInterval
         /\ 0 * HeartbeatInterval = 0
  BY RoundIsNat

(* The turn before one.                                                    *)
LEMMA EarlierTurn ==
  ASSUME NEW i \in Nat \ {0}
  PROVE  (i - 1) * HeartbeatInterval \in Nat
  <1>1. i - 1 \in Nat
    OBVIOUS
  <1> QED
    BY <1>1, TurnsAreIntervals

(* A queue is a sequence of datagrams.                                     *)
LEMMA QueueIsSeq ==
  ASSUME NetInv, NEW n \in Node
  PROVE  /\ inbox[n] \in Seq(OnTheWire) /\ Len(inbox[n]) \in Nat
         /\ DOMAIN inbox[n] = 1 .. Len(inbox[n])
         /\ \A i \in DOMAIN inbox[n] : inbox[n][i] \in OnTheWire /\ inbox[n][i].age \in 0 .. AgeLimit
         /\ \A i \in DOMAIN inbox[n] : inbox[n][i].age \in Nat
  <1>1. inbox[n] \in Seq(OnTheWire)
    BY DEF NetInv, SocketOK
  <1>2. Len(inbox[n]) \in Nat /\ DOMAIN inbox[n] = 1 .. Len(inbox[n])
    BY <1>1, LenProperties
  <1>3. \A i \in DOMAIN inbox[n] : inbox[n][i] \in OnTheWire
    BY <1>1, <1>2
  <1> QED
    BY <1>1, <1>2, <1>3, ClusterAssumption DEF OnTheWire

(* It is enough to look at the node that takes the step.                   *)
LEMMA LineOfOthers ==
  ASSUME NEW w \in Nat, LineInv(w), NEW n \in Node,
         \A m \in Node \ {n} : /\ pc'[m] = pc[m] /\ timer'[m] = timer[m] /\ inbox'[m] = inbox[m],
         LineOK(w, n)'
  PROVE  LineInv(w)'
  BY DEF LineInv, LineOK, WaitFor

(* The wait gets no longer.                                                *)
LEMMA LineHeld ==
  ASSUME NEW w \in Nat, LineInv(w), NEW n \in Node, UNCHANGED inbox,
         \A m \in Node \ {n} : /\ pc'[m] = pc[m] /\ timer'[m] = timer[m],
         pc'[n] # "down", \A i \in DOMAIN inbox[n] : WaitFor(n, i)' = WaitFor(n, i)
  PROVE  LineInv(w)'
  BY LineOfOthers DEF LineInv, LineOK

(* A closed socket has no queue.                                           *)
LEMMA LineAfterExit ==
  ASSUME TypeOK, NetInv, PoolInv, NEW w \in Nat, LineInv(w), NEW n \in Node,
         NEW status, Exit(n, status), CloseIfDown(n)
  PROVE  LineInv(w)'
  <1>1. pc'[n] = "down" /\ \A m \in Node \ {n} : pc'[m] = pc[m]
    BY DEF Exit, LoopReset, GoTo, TypeOK
  <1>2. /\ inbox'[n] = << >>
        /\ \A m \in Node \ {n} : timer'[m] = timer[m] /\ inbox'[m] = inbox[m]
    BY <1>1 DEF CloseIfDown, SetTimer, NetInv, PoolInv
  <1>3. LineOK(w, n)'
    BY <1>1, <1>2 DEF LineOK
  <1> QED
    BY <1>1, <1>2, <1>3, LineOfOthers

(* A process starts with new sockets.                                      *)
LEMMA LineAfterStart ==
  ASSUME TypeOK, NEW w \in Nat, LineInv(w), NEW n \in Node, Start(n)
  PROVE  LineInv(w)'
  <1>1. /\ pc[n] = "down" /\ pc'[n] = "asleep" /\ UNCHANGED <<timer, inbox>>
        /\ \A m \in Node \ {n} : pc'[m] = pc[m]
    BY DEF Start, ServiceStart, Launch, GoTo, TypeOK
  <1>2. inbox'[n] = << >> /\ DOMAIN << >> = {}
    BY <1>1 DEF LineInv, LineOK
  <1>3. LineOK(w, n)'
    BY <1>1, <1>2 DEF LineOK
  <1> QED
    BY <1>1, <1>3, LineOfOthers

(* A receive takes the first, and the others move up.                      *)
LEMMA LineAfterReceive ==
  ASSUME TypeOK, NetInv, PoolInv, NEW w \in Nat, LineInv(w), NEW n \in Node,
         Hear(n) \/ HearNothing(n)
  PROVE  LineInv(w)'
  <1>1. PICK result : result.kind # "error" /\ CompleteReceive(n, result)
    BY DEF Hear, HearNothing, Received, ReceiveTimeout
  <1>2. ~heartbeatFaults(n, result)
    BY <1>1 DEF heartbeatFaults, PoolInv, PoolOK, TimerOK
  <1>3. /\ pc[n] = "receive" /\ pc'[n] \in {"discovery", "lifecycle"}
        /\ \A m \in Node \ {n} : pc'[m] = pc[m]
    BY <1>1, <1>2 DEF CompleteReceive, ReceiveOutcome, GoTo, TypeOK
  <1>4. \A m \in Node \ {n} : timer'[m] = timer[m] /\ inbox'[m] = inbox[m]
    BY DEF Hear, HearNothing, SetTimer, PoolInv, NetInv
  <1>5. ASSUME NEW i \in DOMAIN inbox'[n]
        PROVE  inbox'[n][i].age + WaitFor(n, i)' <= w
    <2>1. Hear(n) /\ inbox[n] # << >> /\ inbox'[n] = Tail(inbox[n])
      BY <1>5 DEF Hear, HearNothing, NetInv
    <2>2. i \in Nat \ {0} /\ i + 1 \in DOMAIN inbox[n] /\ inbox'[n][i] = inbox[n][i + 1]
      BY <1>5, <2>1, QueueIsSeq, HeadTailProperties
    <2>3. WaitFor(n, i + 1) = i * HeartbeatInterval /\ WaitFor(n, i)' = i * HeartbeatInterval
      BY <1>3, <2>2 DEF WaitFor
    <2>4. inbox[n][i + 1].age + WaitFor(n, i + 1) <= w
      BY <2>2 DEF LineInv, LineOK
    <2> QED
      BY <2>2, <2>3, <2>4
  <1>6. LineOK(w, n)'
    BY <1>3, <1>5 DEF LineOK
  <1> QED
    BY <1>3, <1>4, <1>6, LineOfOthers

(* Between its waits a node takes no time.                                 *)
LEMMA LineAfterWork ==
  ASSUME TypeOK, NetInv, PoolInv, NEW w \in Nat, LineInv(w), NEW n \in Node,
         Discover(n) \/ ManageVip(n) \/ Crash(n)
  PROVE  LineInv(w)'
  <1>1. CASE Discover(n)
    <2>1. /\ pc[n] = "discovery" /\ pc'[n] = "lifecycle" /\ UNCHANGED <<timer, inbox>>
          /\ \A m \in Node \ {n} : pc'[m] = pc[m]
      BY <1>1 DEF Discover, ExchangeBeacons, GoTo, TypeOK
    <2> QED
      BY <2>1, LineHeld DEF WaitFor
  <1>2. CASE ManageVip(n) \/ Crash(n)
    <2>1. CloseIfDown(n)
      BY <1>2 DEF ManageVip, Crash
    <2>2. CASE \E status : Exit(n, status)
      BY <2>1, <2>2, LineAfterExit
    <2>3. CASE \A status : ~Exit(n, status)
      <3>1. /\ pc[n] \in {"lifecycle", "add", "announce", "remove"}
            /\ \E next \in {"add", "announce", "remove", "publish", "stopping"} : GoTo(n, next)
        BY <1>2, <2>3 DEF ManageVip, Crash, Kill, PowerLoss, LifecycleIdle, ProbeAndDecide, AddVip, AnnounceVip,
                          RemoveVip, RecordVipOperation, operationFor
      <3>2. /\ pc'[n] \in {"add", "announce", "remove", "publish", "stopping"}
            /\ \A m \in Node \ {n} : pc'[m] = pc[m]
        BY <3>1 DEF GoTo, TypeOK
      <3>3. UNCHANGED <<timer, inbox>>
        BY <2>1, <3>2 DEF CloseIfDown
      <3> QED
        BY <3>1, <3>2, <3>3, LineHeld DEF WaitFor
    <2> QED
      BY <2>2, <2>3
  <1> QED
    BY <1>1, <1>2

(* Before the next receive a node sleeps for an interval.                  *)
LEMMA LineAfterSleep ==
  ASSUME TypeOK, NetInv, PoolInv, NEW w \in Nat, LineInv(w), NEW n \in Node, Sleep(n)
  PROVE  LineInv(w)'
  <1>1. /\ pc[n] = "publish" /\ pc'[n] = "asleep" /\ timer'[n] = HeartbeatInterval /\ UNCHANGED inbox
        /\ \A m \in Node \ {n} : pc'[m] = pc[m] /\ timer'[m] = timer[m]
    BY DEF Sleep, EndIteration, GoTo, SetTimer, TypeOK, PoolInv
  <1>2. ASSUME NEW i \in DOMAIN inbox[n]
        PROVE  WaitFor(n, i)' = WaitFor(n, i)
    <2>1. WaitFor(n, i) = i * HeartbeatInterval
          /\ WaitFor(n, i)' = HeartbeatInterval + (i - 1) * HeartbeatInterval
      BY <1>1 DEF WaitFor
    <2>2. i - 1 \in Nat /\ (i - 1) + 1 = i
      BY <1>2, QueueIsSeq
    <2> QED
      BY <2>1, <2>2, TurnsAreIntervals, RoundIsNat
  <1> QED
    BY <1>1, <1>2, LineHeld

(* Time passes for a queue while its node sleeps.                          *)
LEMMA LineAfterTick ==
  ASSUME TypeOK, NetInv, PoolInv, NEW w \in Nat, LineInv(w), Tick
  PROVE  LineInv(w)'
  <1>1. UNCHANGED pc
    BY DEF Tick, vars
  <1>2. ASSUME NEW n \in Node
        PROVE  LineOK(w, n)'
    <2>1. /\ LineOK(w, n) /\ MayLetTimePass(n)
          /\ inbox'[n] = [i \in DOMAIN inbox[n] |-> [inbox[n][i] EXCEPT !.age = OneUnitOlder(@)]]
          /\ timer[n] \in Nat /\ timer'[n] = IF timer[n] > 0 THEN timer[n] - 1 ELSE 0
      BY PhaseIsInt DEF LineInv, Tick
    <2>2. CASE DOMAIN inbox[n] = {}
      BY <1>1, <2>1, <2>2 DEF LineOK
    <2>3. CASE DOMAIN inbox[n] # {}
      <3>1. DOMAIN << >> = {}
        OBVIOUS
      <3>2. inbox[n] # << >> /\ pc[n] = "asleep" /\ timer'[n] = timer[n] - 1
        BY <2>1, <2>3, <3>1 DEF LineOK, MayLetTimePass
      <3>3. ASSUME NEW i \in DOMAIN inbox[n]
            PROVE  inbox'[n][i].age + WaitFor(n, i)' <= w
        <4> DEFINE turn == (i - 1) * HeartbeatInterval
        <4>1. turn \in Nat /\ inbox[n][i].age \in 0 .. AgeLimit
          <5>1. i \in Nat \ {0} /\ inbox[n][i].age \in 0 .. AgeLimit
            BY <3>3, QueueIsSeq
          <5> QED
            BY <5>1, EarlierTurn
        <4>2. inbox[n][i] \in OnTheWire
          BY QueueIsSeq
        <4>3. inbox'[n][i].age = OneUnitOlder(inbox[n][i].age)
          BY <2>1, <4>2 DEF OnTheWire
        <4>4. OneUnitOlder(inbox[n][i].age) \in Nat
              /\ OneUnitOlder(inbox[n][i].age) <= inbox[n][i].age + 1
          BY <4>1, ClusterAssumption DEF OneUnitOlder, AtMost
        <4>5. WaitFor(n, i) = timer[n] + turn /\ WaitFor(n, i)' = (timer[n] - 1) + turn
          BY <1>1, <3>2 DEF WaitFor
        <4>6. inbox[n][i].age + WaitFor(n, i) <= w
          BY <2>1 DEF LineOK
        <4> HIDE DEF turn
        <4> QED
          BY <2>1, <4>1, <4>3, <4>4, <4>5, <4>6, ClusterAssumption
      <3> QED
        BY <1>1, <2>1, <3>2, <3>3 DEF LineOK
    <2> QED
      BY <2>2, <2>3
  <1> QED
    BY <1>2 DEF LineInv

(* A heartbeat joins the queue where it will be heard in time.             *)
LEMMA LineAfterSend ==
  ASSUME TypeOK, NetInv, PoolInv, NEW w \in Nat, LineInv(w), NEW n \in Node, SendHeartbeats(n),
         \A m \in Node : Delivers(n, m) => WaitFor(m, Len(inbox[m]) + 1) <= w
  PROVE  LineInv(w)'
  <1>1. pc[n] = "asleep" /\ timer[n] = 0 /\ heartbeatDue(n)
    BY TimeAssumption DEF SendHeartbeats, BeginIteration, PoolInv, PoolOK, TimerOK, heartbeatDue
  <1>2. /\ pc'[n] = "receive"
        /\ \A m \in Node \ {n} : pc'[m] = pc[m] /\ timer'[m] = timer[m]
    BY <1>1 DEF SendHeartbeats, BeginIteration, GoTo, SetTimer, TypeOK, PoolInv
  <1>3. ASSUME NEW m \in Node
        PROVE  LineOK(w, m)'
    <2>1. ASSUME NEW i \in Nat \ {0} PROVE WaitFor(m, i)' = WaitFor(m, i)
      <3>1. (i - 1) * HeartbeatInterval \in Nat
        BY EarlierTurn
      <3>2. CASE m = n
        BY <1>1, <1>2, <3>1, <3>2 DEF WaitFor
      <3>3. CASE m # n
        BY <1>2, <3>3 DEF WaitFor
      <3> QED
        BY <3>2, <3>3
    <2>2. LineOK(w, m) /\ DOMAIN inbox[m] \subseteq Nat \ {0}
      BY QueueIsSeq DEF LineInv
    <2>3. pc'[m] = "down" => pc[m] = "down"
      BY <1>2
    <2>4. CASE ~Delivers(n, m)
      <3>1. inbox'[m] = inbox[m]
        BY <2>4 DEF SendHeartbeats
      <3> QED
        BY <2>1, <2>2, <2>3, <3>1 DEF LineOK
    <2>5. CASE Delivers(n, m)
      <3> DEFINE d == [status |-> HeartbeatOf(n), age |-> 0]
      <3>1. inbox'[m] = Append(inbox[m], d) /\ d.age = 0
        BY <2>5 DEF SendHeartbeats
      <3>2. pc'[m] # "down"
        BY <2>3, <2>5 DEF Delivers
      <3>3. d \in OnTheWire
        BY HeartbeatIsWire
      <3>4. PICK last \in Nat \ {0} : last = Len(inbox[m]) + 1 /\ WaitFor(m, last) <= w
        BY <2>5, QueueIsSeq
      <3> HIDE DEF d
      <3>5. /\ DOMAIN inbox'[m] = DOMAIN inbox[m] \cup {last}
            /\ inbox'[m][last] = d
            /\ \A i \in DOMAIN inbox[m] : inbox'[m][i] = inbox[m][i]
        BY <3>1, <3>3, <3>4, QueueIsSeq, AppendProperties
      <3>6. WaitFor(m, last) \in Int
        <4>1. (last - 1) * HeartbeatInterval \in Nat /\ last * HeartbeatInterval \in Nat /\ timer[m] \in Nat
          BY EarlierTurn, TurnsAreIntervals, PhaseIsInt
        <4> QED
          BY <4>1 DEF WaitFor
      <3>7. d.age + WaitFor(m, last)' <= w
        BY <2>1, <3>1, <3>4, <3>6
      <3>8. ASSUME NEW i \in DOMAIN inbox'[m] PROVE inbox'[m][i].age + WaitFor(m, i)' <= w
        <4>1. CASE i = last
          BY <3>5, <3>7, <4>1
        <4>2. CASE i \in DOMAIN inbox[m]
          BY <2>1, <2>2, <3>5, <4>2 DEF LineOK
        <4> QED
          BY <3>5, <3>8, <4>1, <4>2
      <3> QED
        BY <3>2, <3>8 DEF LineOK
    <2> QED
      BY <2>4, <2>5
  <1> QED
    BY <1>3 DEF LineInv

(* Every step but a heartbeat keeps LineInv.                               *)
LEMMA LineStep ==
  ASSUME TypeOK, NetInv, PoolInv, NEW w \in Nat, LineInv(w), [ClusterNext]_clusterVars,
         \A n, m \in Node :
           SendHeartbeats(n) /\ Delivers(n, m) => WaitFor(m, Len(inbox[m]) + 1) <= w
  PROVE  LineInv(w)'
  <1>1. CASE UNCHANGED clusterVars \/ ChangeLinks
    <2>1. UNCHANGED <<pc, timer, inbox>>
      BY <1>1 DEF clusterVars, netVars, ChangeLinks, vars
    <2> QED
      BY <2>1 DEF LineInv, LineOK, WaitFor
  <1> QED
    BY <1>1, LineAfterStart, LineAfterSend, LineAfterReceive, LineAfterWork,
       LineAfterSleep, LineAfterTick DEF ClusterNext, DaemonStep

(* What the next receive takes has waited for no longer than w.            *)
LEMMA LineImpliesHeads ==
  ASSUME NetInv, NEW w \in Nat, LineInv(w)
  PROVE  HeadsWithin(w)
  <1> SUFFICES ASSUME NEW n \in Node, pc[n] = "receive", inbox[n] # << >>
               PROVE  Head(inbox[n]).age <= w
    BY DEF HeadsWithin
  <1>1. 1 \in DOMAIN inbox[n] /\ Head(inbox[n]) = inbox[n][1] /\ inbox[n][1].age \in Nat
    BY QueueIsSeq, HeadTailProperties
  <1>2. WaitFor(n, 1) = 0
    BY TurnsAreIntervals DEF WaitFor
  <1>3. inbox[n][1].age + WaitFor(n, 1) <= w
    BY <1>1 DEF LineInv, LineOK
  <1> QED
    BY <1>1, <1>2, <1>3

(* The wait at the end of a full queue.                                    *)
QueueWait == InboxCapacity * HeartbeatInterval

(* A queue with room for another datagram is not longer than its capacity. *)
LEMMA RoomIsTime ==
  ASSUME NetInv, PoolInv, NEW n \in Node, NEW m \in Node, SendHeartbeats(n), Delivers(n, m)
  PROVE  WaitFor(m, Len(inbox[m]) + 1) <= QueueWait
  <1>1. pc[m] \in {"asleep", "receive"} /\ Len(inbox[m]) < InboxCapacity
    BY DEF SendHeartbeats, BeginIteration, OthersWait, Waiting, Delivers
  <1>2. PICK i \in Nat : i = Len(inbox[m])
    BY QueueIsSeq
  <1>3. i + 1 <= InboxCapacity /\ InboxCapacity \in Nat /\ i + 1 \in Nat
    BY <1>1, <1>2, ClusterAssumption
  <1>4. HeartbeatInterval \in Nat
    BY RoundIsNat
  <1>5. (i + 1) * HeartbeatInterval <= QueueWait /\ QueueWait \in Nat
    BY <1>3, <1>4 DEF QueueWait
  <1>6. (i + 1) - 1 = i
    BY <1>2
  <1>7. WaitFor(m, i + 1) <= i * HeartbeatInterval + HeartbeatInterval
    <2> DEFINE turn == i * HeartbeatInterval
    <2>1. turn \in Nat /\ timer[m] \in Nat /\ (pc[m] = "asleep" => timer[m] <= HeartbeatInterval)
      BY TurnsAreIntervals, PhaseIsInt
    <2>2. WaitFor(m, i + 1) = IF pc[m] = "asleep" THEN timer[m] + turn ELSE turn
      BY <1>1, <1>6 DEF WaitFor
    <2> HIDE DEF turn
    <2>3. WaitFor(m, i + 1) <= turn + HeartbeatInterval /\ WaitFor(m, i + 1) \in Nat
      BY <1>4, <2>1, <2>2
    <2> QED
      BY <2>3 DEF turn
  <1>8. (i + 1) * HeartbeatInterval = i * HeartbeatInterval + HeartbeatInterval
    BY TurnsAreIntervals
  <1>9. WaitFor(m, i + 1) \in Int
    BY <1>1, <1>4, <1>6, TurnsAreIntervals, PhaseIsInt DEF WaitFor
  <1> DEFINE room == (i + 1) * HeartbeatInterval
  <1>10. room \in Nat /\ room <= QueueWait /\ WaitFor(m, i + 1) <= room
    BY <1>3, <1>4, <1>5, <1>7, <1>8
  <1> HIDE DEF room
  <1>11. WaitFor(m, i + 1) <= QueueWait
    BY <1>5, <1>9, <1>10
  <1> QED
    BY <1>2, <1>11

(* Nobody is heard at first, and nothing waits.                            *)
LEMMA LineInit ==
  ASSUME NEW w \in Nat, ClusterInit
  PROVE  LineInv(w)
  <1>1. \A n \in Node : inbox[n] = << >> /\ DOMAIN inbox[n] = {}
    BY DEF ClusterInit
  <1> QED
    BY <1>1 DEF LineInv, LineOK

(* In every cluster, however many nodes send to one, the entries of the    *)
(* tables are no older than the capacity of the queue allows.              *)
LEMMA QueueInvariant == ClusterSpec => [](PoolInv /\ EntryInv(QueueWait))
  <1> DEFINE Inv == TypeOK /\ NetInv /\ PoolInv /\ LineInv(QueueWait) /\ EntryInv(QueueWait)
  <1>1. QueueWait \in Nat
    BY ClusterAssumption, RoundIsNat DEF QueueWait
  <1>2. ClusterInit => Inv
    BY <1>1, TypeInit, NetInit, PoolInit, LineInit, EntryInit DEF ClusterInit
  <1>3. Inv /\ [ClusterNext]_clusterVars => Inv'
    <2> SUFFICES ASSUME Inv, [ClusterNext]_clusterVars PROVE Inv'
      OBVIOUS
    <2>1. TypeOK' /\ NetInv' /\ PoolInv'
      BY StepIsADaemonStep, TypeStep, NetStep, PoolStep
    <2>2. LineInv(QueueWait)'
      <3>1. \A n, m \in Node : SendHeartbeats(n) /\ Delivers(n, m) =>
              WaitFor(m, Len(inbox[m]) + 1) <= QueueWait
        BY RoomIsTime
      <3>2. PICK w \in Nat : w = QueueWait
        BY <1>1
      <3>3. LineInv(w) /\ \A n, m \in Node : SendHeartbeats(n) /\ Delivers(n, m) =>
              WaitFor(m, Len(inbox[m]) + 1) <= w
        BY <3>1, <3>2
      <3>4. LineInv(w)'
        BY <3>3, LineStep
      <3> QED
        BY <3>2, <3>4 DEF QueueWait
    <2>3. EntryInv(QueueWait)'
      <3>1. PICK w \in Nat : w = QueueWait
        BY <1>1
      <3>2. EntryInv(w)'
        BY <1>1, <3>1, LineImpliesHeads, EntryStep
      <3> QED
        BY <3>1, <3>2 DEF QueueWait
    <2> QED
      BY <2>1, <2>2, <2>3
  <1> QED
    BY <1>2, <1>3, PTL DEF ClusterSpec

(* So no decision counts a heartbeat older, in real time, than QueueBound. *)
THEOREM QueueStaysBounded == ClusterSpec => []QueueIsBounded
  <1>1. QueueWait \in Nat
    BY ClusterAssumption, RoundIsNat DEF QueueWait
  <1>2. PoolInv /\ EntryInv(QueueWait) /\ ViewIsFresh => QueueIsBounded
    BY <1>1, EntryImpliesBound DEF QueueIsBounded, QueueBound, QueueWait
  <1> QED
    BY <1>2, QueueInvariant, ClusterInheritsSafety, PTL

-----------------------------------------------------------------------------
(* Sockets with one sender                                                 *)

(* As in a cluster of two nodes.                                           *)
OneSender == \A l, m \in Node : Peers[l] \cap Peers[m] \cap Node # {} => l = m

(* The real time until m can send again, at least.                         *)
NextSend(m) ==
  IF pc[m] \in {"asleep", "down"} THEN timer[m] ELSE HeartbeatInterval

(* What m sent last to n has waited for the rest of the interval.          *)
SpacingOK(n, m) ==
  n \in Peers[m] /\ inbox[n] # << >> =>
    inbox[n][Len(inbox[n])].age + NextSend(m) >= HeartbeatInterval

(* The spacing at all sockets.                                             *)
SpacingInv == \A n, m \in Node : SpacingOK(n, m)

(* The last of a sequence stays the last when the first is taken.          *)
LEMMA LastOfTail ==
  ASSUME NEW S, NEW s \in Seq(S), s # << >>, Tail(s) # << >>
  PROVE  Tail(s)[Len(Tail(s))] = s[Len(s)]
  <1>1. Tail(s) \in Seq(S) /\ Len(Tail(s)) = Len(s) - 1
    BY HeadTailProperties
  <1>2. Len(s) \in Nat /\ Len(Tail(s)) \in Nat \ {0}
    BY <1>1, EmptySeq, LenProperties
  <1>3. Len(Tail(s)) \in 1 .. Len(Tail(s)) /\ Len(Tail(s)) + 1 = Len(s)
    BY <1>1, <1>2
  <1>4. Tail(s)[Len(Tail(s))] = s[Len(Tail(s)) + 1]
    BY <1>3, HeadTailProperties
  <1> QED
    BY <1>3, <1>4

(* A queue that keeps its last datagram, while its sender may send no      *)
(* sooner.                                                                 *)
LEMMA SpacingKept ==
  ASSUME NetInv, PoolInv, SpacingInv, NEW n \in Node, NEW m \in Node,
         \/ inbox'[n] = << >>
         \/ inbox[n] # << >> /\ inbox'[n][Len(inbox'[n])] = inbox[n][Len(inbox[n])],
         NextSend(m)' = NextSend(m) \/ (NextSend(m)' \in Int /\ NextSend(m)' >= HeartbeatInterval)
  PROVE  SpacingOK(n, m)'
  <1>1. ASSUME inbox[n] # << >>
        PROVE  inbox[n][Len(inbox[n])].age \in Nat
    <2>1. Len(inbox[n]) \in DOMAIN inbox[n]
      BY <1>1, QueueIsSeq, EmptySeq
    <2> QED
      BY <2>1, QueueIsSeq
  <1> QED
    BY <1>1, RoundIsNat DEF SpacingInv, SpacingOK

(* The steps of a node but its heartbeat leave the queues as they are, or  *)
(* take the oldest datagram, or close them; and the node does not come     *)
(* closer to its next heartbeat.                                           *)
LEMMA SpacingOfDaemon ==
  ASSUME HeartbeatInterval <= RestartDelay, TypeOK, NetInv, PoolInv, SpacingInv, NEW n \in Node,
         Start(n) \/ Hear(n) \/ HearNothing(n) \/ Discover(n) \/ ManageVip(n) \/ Sleep(n) \/ Crash(n)
  PROVE  SpacingInv'
  <1>1. \A m \in Node \ {n} : pc'[m] = pc[m] /\ timer'[m] = timer[m] /\ inbox'[m] = inbox[m]
    <2>1. CASE Start(n) \/ Discover(n)
      BY <2>1 DEF Start, ServiceStart, Launch, Discover, ExchangeBeacons, GoTo, TypeOK
    <2>2. CASE Hear(n) \/ HearNothing(n)
      BY <2>2 DEF Hear, HearNothing, CompleteReceive, ReceiveOutcome, Exit, GoTo, SetTimer,
                  TypeOK, PoolInv, NetInv
    <2>3. CASE Sleep(n)
      BY <2>3 DEF Sleep, EndIteration, GoTo, SetTimer, TypeOK, PoolInv
    <2>4. CASE ManageVip(n) \/ Crash(n)
      <3>1. CloseIfDown(n)
        BY <2>4 DEF ManageVip, Crash
      <3>2. \A m \in Node \ {n} : timer'[m] = timer[m] /\ inbox'[m] = inbox[m]
        BY <3>1 DEF CloseIfDown, SetTimer, PoolInv, NetInv
      <3>3. \E place : pc' = [pc EXCEPT ![n] = place]
        BY <2>4 DEF ManageVip, Crash, Kill, PowerLoss, LifecycleIdle, ProbeAndDecide, AddVip,
                    AnnounceVip, RemoveVip, RecordVipOperation, Exit, GoTo
      <3> QED
        BY <3>2, <3>3 DEF TypeOK
    <2> QED
      BY <2>1, <2>2, <2>3, <2>4
  <1>2. NextSend(n)' = NextSend(n) \/ (NextSend(n)' \in Int /\ NextSend(n)' >= HeartbeatInterval)
    <2>1. CASE Start(n)
      BY <2>1 DEF Start, ServiceStart, Launch, GoTo, TypeOK, NextSend
    <2>2. CASE pc'[n] \notin {"asleep", "down"}
      BY <2>2, RoundIsNat DEF NextSend
    <2>3. CASE Sleep(n)
      <3>1. pc'[n] = "asleep" /\ timer'[n] = HeartbeatInterval
        BY <2>3 DEF Sleep, EndIteration, GoTo, SetTimer, TypeOK, PoolInv
      <3> QED
        BY <3>1, RoundIsNat DEF NextSend
    <2>4. CASE (ManageVip(n) \/ Crash(n)) /\ pc'[n] = "down"
      <3>1. timer'[n] = RestartDelay
        BY <2>4 DEF ManageVip, Crash, CloseIfDown, SetTimer, PoolInv
      <3> QED
        BY <2>4, <3>1, ClusterAssumption, RoundIsNat DEF NextSend
    <2>5. CASE Hear(n) \/ HearNothing(n)
      <3>1. PICK result : result.kind # "error" /\ CompleteReceive(n, result)
        BY <2>5 DEF Hear, HearNothing, Received, ReceiveTimeout
      <3>2. ~heartbeatFaults(n, result)
        BY <3>1 DEF heartbeatFaults, PoolInv, PoolOK, TimerOK
      <3>3. pc'[n] \in {"discovery", "lifecycle"}
        BY <3>1, <3>2 DEF CompleteReceive, ReceiveOutcome, GoTo, TypeOK
      <3> QED
        BY <2>2, <3>3
    <2>6. CASE Discover(n)
      <3>1. pc'[n] = "lifecycle"
        BY <2>6 DEF Discover, ExchangeBeacons, GoTo, TypeOK
      <3> QED
        BY <2>2, <3>1
    <2>7. CASE (ManageVip(n) \/ Crash(n)) /\ pc'[n] = "asleep"
      BY <2>7 DEF ManageVip, Crash, Kill, PowerLoss, LifecycleIdle, ProbeAndDecide, AddVip,
                  AnnounceVip, RemoveVip, RecordVipOperation, Exit, GoTo, operationFor, TypeOK
    <2> QED
      BY <2>1, <2>2, <2>3, <2>4, <2>5, <2>6, <2>7
  <1>3. ASSUME NEW m \in Node
        PROVE  NextSend(m)' = NextSend(m) \/ (NextSend(m)' \in Int /\ NextSend(m)' >= HeartbeatInterval)
    BY <1>1, <1>2 DEF NextSend
  <1>4. ASSUME NEW m \in Node
        PROVE  \/ inbox'[m] = << >>
               \/ inbox[m] # << >> /\ inbox'[m][Len(inbox'[m])] = inbox[m][Len(inbox[m])]
    <2>1. CASE inbox'[m] = inbox[m]
      BY <2>1
    <2>2. CASE Hear(n) /\ m = n
      <3>1. inbox[n] # << >> /\ inbox'[n] = Tail(inbox[n])
        BY <2>2 DEF Hear, NetInv
      <3> QED
        BY <2>2, <3>1, QueueIsSeq, LastOfTail
    <2>3. CASE m = n /\ (ManageVip(n) \/ Crash(n))
      <3>1. CloseIfDown(n)
        BY <2>3 DEF ManageVip, Crash
      <3> QED
        BY <2>3, <3>1 DEF CloseIfDown, NetInv
    <2> QED
      BY <1>1, <2>1, <2>2, <2>3 DEF Start, HearNothing, Discover, Sleep
  <1> QED
    BY <1>3, <1>4, SpacingKept DEF SpacingInv

(* A heartbeat follows the one before it after an interval; then the queue *)
(* is short enough for it.                                                 *)
LEMMA SpacedIsTime ==
  ASSUME NetInv, PoolInv, LineInv(HeartbeatInterval), SpacingInv,
         NEW n \in Node, NEW m \in Node, SendHeartbeats(n), Delivers(n, m)
  PROVE  WaitFor(m, Len(inbox[m]) + 1) <= HeartbeatInterval
  <1>1. /\ pc[m] \in {"asleep", "receive"} /\ m \in Peers[n]
        /\ pc[n] = "asleep" /\ timer[n] = 0
    BY DEF SendHeartbeats, BeginIteration, OthersWait, Waiting, Delivers
  <1>2. PICK i \in Nat : i = Len(inbox[m])
    BY QueueIsSeq
  <1>3. HeartbeatInterval \in Nat \ {0} /\ timer[m] \in Nat
        /\ (pc[m] = "asleep" => timer[m] <= HeartbeatInterval)
    BY RoundIsNat, PhaseIsInt
  <1>4. (i + 1) - 1 = i
    BY <1>2
  <1>5. WaitFor(m, i + 1) = IF pc[m] = "asleep" THEN timer[m] + i * HeartbeatInterval
                            ELSE i * HeartbeatInterval
    BY <1>1, <1>4 DEF WaitFor
  <1>6. CASE i = 0
    <2>1. i * HeartbeatInterval = 0
      BY <1>6, TurnsAreIntervals
    <2>2. WaitFor(m, i + 1) <= HeartbeatInterval
      BY <1>3, <1>5, <2>1
    <2> QED
      BY <1>2, <2>2
  <1>7. CASE i # 0
    <2>1. inbox[m] # << >> /\ i \in DOMAIN inbox[m] /\ i - 1 \in Nat /\ (i - 1) + 1 = i
      BY <1>2, <1>7, QueueIsSeq, EmptySeq
    <2> DEFINE age == inbox[m][i].age
               turn == (i - 1) * HeartbeatInterval
    <2>2. age \in Nat
      BY <2>1, QueueIsSeq
    <2>3. age + NextSend(n) >= HeartbeatInterval /\ NextSend(n) = 0
      BY <1>1, <1>2, <2>1 DEF SpacingInv, SpacingOK, NextSend
    <2>4. age >= HeartbeatInterval
      BY <1>3, <2>2, <2>3
    <2>5. age + WaitFor(m, i) <= HeartbeatInterval
      BY <2>1 DEF LineInv, LineOK
    <2>6. WaitFor(m, i) = IF pc[m] = "asleep" THEN timer[m] + turn ELSE turn
      BY <1>1 DEF WaitFor
    <2>7. turn \in Nat /\ i * HeartbeatInterval = turn + HeartbeatInterval
      BY <2>1, TurnsAreIntervals
    <2> HIDE DEF age, turn
    <2>8. turn = 0 /\ (pc[m] = "asleep" => timer[m] = 0)
      BY <1>3, <2>2, <2>4, <2>5, <2>6, <2>7
    <2> QED
      BY <1>2, <1>3, <1>5, <2>7, <2>8
  <1> QED
    BY <1>6, <1>7

(* A heartbeat is the last of its queue for as long as its sender waits    *)
(* before the next, when nobody else sends there.                          *)
LEMMA SpacingAfterSend ==
  ASSUME OneSender, TypeOK, NetInv, PoolInv, SpacingInv, NEW l \in Node, SendHeartbeats(l)
  PROVE  SpacingInv'
  <1>1. pc[l] = "asleep" /\ timer[l] = 0 /\ heartbeatDue(l)
    BY TimeAssumption DEF SendHeartbeats, BeginIteration, PoolInv, PoolOK, TimerOK, heartbeatDue
  <1>2. /\ pc'[l] = "receive"
        /\ \A m \in Node \ {l} : pc'[m] = pc[m] /\ timer'[m] = timer[m]
    BY <1>1 DEF SendHeartbeats, BeginIteration, GoTo, SetTimer, TypeOK, PoolInv
  <1>3. NextSend(l)' = HeartbeatInterval /\ \A m \in Node \ {l} : NextSend(m)' = NextSend(m)
    BY <1>2 DEF NextSend
  <1>4. ASSUME NEW n \in Node, NEW m \in Node
        PROVE  SpacingOK(n, m)'
    <2>1. CASE ~Delivers(l, n)
      <3>1. inbox'[n] = inbox[n]
        BY <2>1 DEF SendHeartbeats
      <3> QED
        BY <1>3, <3>1, SpacingKept, RoundIsNat
    <2>2. CASE Delivers(l, n) /\ m # l
      BY <2>2 DEF OneSender, Delivers, SpacingOK
    <2>3. CASE Delivers(l, n) /\ m = l
      <3> DEFINE d == [status |-> HeartbeatOf(l), age |-> 0]
      <3>1. inbox'[n] = Append(inbox[n], d) /\ d.age = 0 /\ d \in OnTheWire
        BY <2>3, HeartbeatIsWire DEF SendHeartbeats
      <3> HIDE DEF d
      <3>2. inbox'[n][Len(inbox'[n])] = d
        BY <3>1, QueueIsSeq, AppendProperties
      <3> QED
        BY <1>3, <2>3, <3>1, <3>2, RoundIsNat DEF SpacingOK
    <2> QED
      BY <2>1, <2>2, <2>3
  <1> QED
    BY <1>4 DEF SpacingInv

(* Time brings the next heartbeat closer, and makes the last one older.    *)
LEMMA SpacingAfterTick ==
  ASSUME HeartbeatInterval <= AgeLimit, TypeOK, NetInv, PoolInv, SpacingInv, Tick
  PROVE  SpacingInv'
  <1>1. UNCHANGED pc
    BY DEF Tick, vars
  <1>2. ASSUME NEW n \in Node, NEW m \in Node, n \in Peers[m], inbox'[n] # << >>
        PROVE  inbox'[n][Len(inbox'[n])].age + NextSend(m)' >= HeartbeatInterval
    <2>1. inbox'[n] = [i \in DOMAIN inbox[n] |-> [inbox[n][i] EXCEPT !.age = OneUnitOlder(@)]]
      BY DEF Tick
    <2>2. inbox'[n] \in Seq(OnTheWire) /\ DOMAIN inbox'[n] = DOMAIN inbox[n]
          /\ inbox'[n] = [i \in DOMAIN inbox'[n] |-> inbox'[n][i]]
      BY <2>1, TickKeepsNet DEF NetInv, SocketOK
    <2>3. PICK i \in Nat \ {0} : i = Len(inbox'[n]) /\ i \in DOMAIN inbox'[n]
      BY <1>2, <2>2, LenProperties, EmptySeq
    <2>4. i = Len(inbox[n]) /\ i \in DOMAIN inbox[n] /\ inbox[n] # << >>
      <3>1. \A k \in DOMAIN inbox'[n] : inbox'[n][k] \in OnTheWire
        BY <2>2, LenProperties
      <3>2. Len(inbox'[n]) = Len(inbox[n])
        BY <2>2, <3>1, QueueIsSeq, SameLengthSeq
      <3>3. DOMAIN << >> = {}
        OBVIOUS
      <3> QED
        BY <2>2, <2>3, <3>2, <3>3
    <2>5. inbox[n][i] \in OnTheWire /\ inbox[n][i].age \in 0 .. AgeLimit
      BY <2>4, QueueIsSeq
    <2> DEFINE age == inbox[n][i].age
    <2>6. inbox'[n][i].age = AtMost(age + 1, AgeLimit) /\ age \in 0 .. AgeLimit
      BY <2>1, <2>4, <2>5 DEF OnTheWire, OneUnitOlder
    <2>7. age + NextSend(m) >= HeartbeatInterval
      BY <1>2, <2>4 DEF SpacingInv, SpacingOK
    <2>8. timer[m] \in Nat /\ timer'[m] = IF timer[m] > 0 THEN timer[m] - 1 ELSE 0
      BY PhaseIsInt DEF Tick
    <2>9. \/ NextSend(m) = timer[m] /\ NextSend(m)' = timer'[m]
          \/ NextSend(m) = HeartbeatInterval /\ NextSend(m)' = HeartbeatInterval
      BY <1>1 DEF NextSend
    <2> HIDE DEF age
    <2>10. AtMost(age + 1, AgeLimit) \in Nat
           /\ (AtMost(age + 1, AgeLimit) = age + 1 \/ AtMost(age + 1, AgeLimit) >= HeartbeatInterval)
      BY <2>6, ClusterAssumption, RoundIsNat DEF AtMost
    <2>11. AtMost(age + 1, AgeLimit) + NextSend(m)' >= HeartbeatInterval
      BY <2>6, <2>7, <2>8, <2>9, <2>10, ClusterAssumption, RoundIsNat
    <2> QED
      BY <2>3, <2>6, <2>11
  <1> QED
    BY <1>2 DEF SpacingInv, SpacingOK

(* Where a socket has one sender, and a process that ended starts no       *)
(* sooner than an interval later, no decision counts a heartbeat older, in *)
(* real time, than DetectionBound.  (Ages that cannot be told apart so far *)
(* are below the bound anyway.)                                            *)
THEOREM DetectionStaysBounded ==
  ASSUME OneSender, HeartbeatInterval <= RestartDelay
  PROVE  ClusterSpec => []DetectionIsBounded
  <1> DEFINE Inv == /\ TypeOK /\ NetInv /\ PoolInv
                    /\ LineInv(HeartbeatInterval) /\ SpacingInv /\ EntryInv(HeartbeatInterval)
  <1>1. HeartbeatInterval \in Nat /\ AgeLimit \in Nat
    BY RoundIsNat, ClusterAssumption
  <1>2. CASE HeartbeatInterval <= AgeLimit
    <2>1. ClusterInit => Inv
      <3>1. ClusterInit => SpacingInv
        BY DEF ClusterInit, SpacingInv, SpacingOK
      <3> QED
        BY <1>1, <3>1, TypeInit, NetInit, PoolInit, LineInit, EntryInit DEF ClusterInit
    <2>2. Inv /\ [ClusterNext]_clusterVars => Inv'
      <3> SUFFICES ASSUME Inv, [ClusterNext]_clusterVars PROVE Inv'
        OBVIOUS
      <3>1. TypeOK' /\ NetInv' /\ PoolInv'
        BY StepIsADaemonStep, TypeStep, NetStep, PoolStep
      <3>2. LineInv(HeartbeatInterval)'
        BY <1>1, SpacedIsTime, LineStep
      <3>3. EntryInv(HeartbeatInterval)'
        BY <1>1, LineImpliesHeads, EntryStep
      <3>4. CASE UNCHANGED clusterVars \/ ChangeLinks
        <4>1. UNCHANGED <<pc, timer, inbox>>
          BY <3>4 DEF clusterVars, netVars, ChangeLinks, vars
        <4> QED
          BY <3>1, <3>2, <3>3, <4>1 DEF SpacingInv, SpacingOK, NextSend
      <3>5. SpacingInv'
        BY <1>2, <3>4, SpacingOfDaemon, SpacingAfterSend, SpacingAfterTick
           DEF ClusterNext, DaemonStep, SpacingInv, SpacingOK
      <3> QED
        BY <3>1, <3>2, <3>3, <3>5
    <2>3. Inv /\ ViewIsFresh => DetectionIsBounded
      BY <1>1, EntryImpliesBound DEF DetectionIsBounded, DetectionBound
    <2> QED
      BY <2>1, <2>2, <2>3, ClusterInheritsSafety, PTL DEF ClusterSpec
  <1>3. CASE AgeLimit < HeartbeatInterval
    <2>1. ASSUME EntryInv(QueueWait)
          PROVE  DetectionIsBounded
      <3> SUFFICES ASSUME NEW n \in Node, NEW p \in DOMAIN recent[n]
                   PROVE  heardAge[n][p] <= DetectionBound
        BY DEF DetectionIsBounded, HeartbeatsYoungerThan
      <3>1. heardAge[n][p] \in 0 .. AgeLimit
        BY <2>1 DEF EntryInv, EntryOK, IsAges
      <3> DEFINE q == (HeartbeatTimeout - 1) \div HeartbeatInterval
      <3>2. q \in Nat /\ Round \in Nat
        BY TimeAssumption, RoundIsNat
      <3>3. q * Round \in Nat /\ DetectionBound = HeartbeatInterval + q * Round
        BY <3>2 DEF DetectionBound, AgeAfterQueue, Round
      <3> QED
        BY <1>1, <1>3, <3>1, <3>3
    <2> QED
      BY <2>1, QueueInvariant, PTL
  <1> QED
    BY <1>1, <1>2, <1>3

-----------------------------------------------------------------------------
(* The elections of a cluster, and its one owner                           *)

(* What is proved of the elections of a daemon in an open environment      *)
(* holds in a cluster: whoever adds the VIP outranks every healthy peer it *)
(* counts, no owner completes an iteration in which it should have         *)
(* yielded, and where members count once no owner claims the VIP, or       *)
(* completes an iteration with it, without a quorum.                       *)
THEOREM ClusterInheritsElection ==
  /\ ClusterSpec => []ElectionIsObeyed
  /\ MembersCountOnce => (ClusterSpec => []OwnersSeeQuorum /\ ClaimsSeeQuorum)
  <1>1. ClusterSpec => []ElectionIsObeyed
    BY EveryNodeStaysADaemon, ElectionStaysObeyed, PTL DEF EveryNodeIsADaemon
  <1>2. ASSUME MembersCountOnce
        PROVE  ClusterSpec => []OwnersSeeQuorum /\ ClaimsSeeQuorum
    BY <1>2, EveryNodeStaysADaemon, OwnersNeedQuorum, ClaimsNeedQuorum, PTL DEF EveryNodeIsADaemon
  <1> QED
    BY <1>1, <1>2

(* A quorum is everybody: of two nodes, the strict majority.               *)
QuorumIsEverybody ==
  /\ RequireQuorum
  /\ \A n \in Node : /\ Node \subseteq Peers[n] \cup {n}
                     /\ Cardinality(Peers[n] \cup {n}) <= quorumThreshold(electionPolicy(n))

(* n is the highest-ranked node.                                           *)
Leads(n) == \A m \in Node \ {n} : Outranks(Ranking(n), Ranking(m))

(* Daemons call themselves healthy, by their own name.                     *)
KnownOK(n) ==
  /\ \A p \in DOMAIN recent[n] : recent[n][p].status.node_id = p /\ recent[n][p].status.healthy
  /\ \A i \in DOMAIN inbox[n] : inbox[n][i].status.healthy

(* What all nodes know, and what is on its way to them.                    *)
KnownInv == \A n \in Node : KnownOK(n)

(* The queue of a node, whatever happens.                                  *)
LEMMA SentHealthyStep ==
  ASSUME TypeOK, NetInv, KnownInv, [ClusterNext]_clusterVars, NEW m \in Node,
         NEW i \in DOMAIN inbox'[m]
  PROVE  inbox'[m][i].status.healthy
  <1>1. \A k \in DOMAIN inbox[m] : inbox[m][k].status.healthy
    BY DEF KnownInv, KnownOK
  <1>2. CASE inbox'[m] = inbox[m]
    BY <1>1, <1>2
  <1>3. ASSUME NEW n \in Node, SendHeartbeats(n), Delivers(n, m)
        PROVE  inbox'[m][i].status.healthy
    <2> DEFINE d == [status |-> HeartbeatOf(n), age |-> 0]
    <2>1. inbox'[m] = Append(inbox[m], d) /\ d.status.healthy /\ d \in OnTheWire
      BY <1>3, HeartbeatIsWire DEF SendHeartbeats, HeartbeatOf
    <2> HIDE DEF d
    <2>2. (i \in DOMAIN inbox[m] /\ inbox'[m][i] = inbox[m][i]) \/ inbox'[m][i] = d
      BY <2>1, QueueIsSeq, AppendProperties
    <2> QED
      BY <1>1, <2>1, <2>2
  <1>4. CASE Hear(m)
    <2>1. inbox[m] # << >> /\ inbox'[m] = Tail(inbox[m])
      BY <1>4 DEF Hear, NetInv
    <2>2. i + 1 \in DOMAIN inbox[m] /\ inbox'[m][i] = inbox[m][i + 1]
      BY <2>1, QueueIsSeq, HeadTailProperties
    <2> QED
      BY <1>1, <2>2
  <1>5. CASE Tick
    <2>1. inbox'[m] = [k \in DOMAIN inbox[m] |-> [inbox[m][k] EXCEPT !.age = OneUnitOlder(@)]]
      BY <1>5 DEF Tick
    <2>2. i \in DOMAIN inbox[m] /\ inbox[m][i] \in OnTheWire
      BY <2>1, QueueIsSeq
    <2> QED
      BY <1>1, <2>1, <2>2 DEF OnTheWire
  <1>6. CASE inbox'[m] = << >>
    BY <1>6
  <1>7. ASSUME NEW n \in Node, ManageVip(n) \/ Crash(n)
        PROVE  inbox'[m] = inbox[m] \/ inbox'[m] = << >>
    <2>1. CloseIfDown(n)
      BY <1>7 DEF ManageVip, Crash
    <2> QED
      BY <2>1 DEF CloseIfDown, NetInv
  <1>8. ASSUME NEW n \in Node,
               \/ Start(n) \/ HearNothing(n) \/ Discover(n) \/ Sleep(n)
               \/ Hear(n) /\ m # n
               \/ SendHeartbeats(n) /\ ~Delivers(n, m)
        PROVE  inbox'[m] = inbox[m]
    BY <1>8 DEF Start, HearNothing, Discover, Sleep, Hear, SendHeartbeats, NetInv
  <1>9. CASE UNCHANGED clusterVars \/ ChangeLinks
    BY <1>2, <1>9 DEF clusterVars, netVars, ChangeLinks
  <1> QED
    BY <1>2, <1>3, <1>4, <1>5, <1>6, <1>7, <1>8, <1>9 DEF ClusterNext, DaemonStep

(* The table of a node, whatever happens.                                  *)
LEMMA HeardHealthyStep ==
  ASSUME TypeOK, NetInv, PoolInv, KnownInv, [ClusterNext]_clusterVars, NEW m \in Node,
         NEW p \in DOMAIN recent'[m]
  PROVE  recent'[m][p].status.node_id = p /\ recent'[m][p].status.healthy
  <1>1. \A q \in DOMAIN recent[m] : recent[m][q].status.node_id = q /\ recent[m][q].status.healthy
    BY DEF KnownInv, KnownOK
  <1>2. CASE recent'[m] = recent[m]
    BY <1>1, <1>2
  <1>3. CASE SendHeartbeats(m)
    <2>1. recent'[m] = expirePeers(recent[m])
      BY <1>3 DEF SendHeartbeats, BeginIteration, TypeOK
    <2> QED
      BY <1>1, <2>1 DEF expirePeers, Restrict
  <1>4. CASE HearNothing(m)
    <2>1. CompleteReceive(m, ReceiveTimeout) /\ ReceiveTimeout.kind \notin {"message", "error"}
      BY <1>4 DEF HearNothing, ReceiveTimeout
    <2>2. ~heartbeatFaults(m, ReceiveTimeout)
      BY <2>1 DEF heartbeatFaults, PoolInv, PoolOK, TimerOK
    <2>3. recent'[m] = expirePeers(recent[m])
      BY <2>1, <2>2 DEF CompleteReceive, ReceiveOutcome, TypeOK
    <2> QED
      BY <1>1, <2>3 DEF expirePeers, Restrict
  <1>5. CASE Hear(m)
    <2> DEFINE s == Head(inbox[m]).status
    <2>1. CompleteReceive(m, Received(s)) /\ Received(s).kind = "message" /\ Received(s).status = s
      BY <1>5 DEF Hear, Received
    <2>2. 1 \in DOMAIN inbox[m] /\ Head(inbox[m]) = inbox[m][1]
      BY <1>5, QueueIsSeq, EmptySeq DEF Hear
    <2>3. s.healthy
      BY <2>2 DEF KnownInv, KnownOK
    <2> HIDE DEF s
    <2>4. ~heartbeatFaults(m, Received(s))
      BY <2>1 DEF heartbeatFaults, PoolInv, PoolOK, TimerOK
    <2>5. recent'[m] = expirePeers(IF peerIsConfigured(m, s.node_id) THEN observe(recent[m], s.node_id, s)
                                   ELSE recent[m])
      BY <2>1, <2>4 DEF CompleteReceive, ReceiveOutcome, TypeOK
    <2>6. ASSUME NEW table, recent'[m] = expirePeers(table)
          PROVE  p \in DOMAIN table /\ recent'[m][p] = table[p]
      BY <2>6 DEF expirePeers, Restrict
    <2>7. CASE peerIsConfigured(m, s.node_id)
      <3>1. p \in DOMAIN observe(recent[m], s.node_id, s)
            /\ recent'[m][p] = observe(recent[m], s.node_id, s)[p]
        BY <2>5, <2>6, <2>7
      <3> QED
        BY <1>1, <2>3, <3>1 DEF observe
    <2>8. CASE ~peerIsConfigured(m, s.node_id)
      BY <1>1, <2>5, <2>6, <2>8
    <2> QED
      BY <2>7, <2>8
  <1>6. CASE Sleep(m)
    <2>1. recent'[m] = Older(recent[m], HeartbeatTimeout)
      BY <1>6 DEF Sleep, EndIteration, TypeOK
    <2>2. p \in DOMAIN recent[m]
          /\ recent[m][p] \in [status : PeerStatus, age : 0 .. HeartbeatTimeout]
      BY <2>1 DEF TypeOK, IsTable, Older
    <2>3. recent'[m][p].status = recent[m][p].status
      BY <2>1, <2>2 DEF Older
    <2> QED
      BY <1>1, <2>2, <2>3
  <1>7. CASE recent'[m] = EmptyTable
    BY <1>7 DEF EmptyTable
  <1>8. ASSUME NEW n \in Node, ManageVip(n) \/ Crash(n)
        PROVE  recent'[m] = recent[m] \/ recent'[m] = EmptyTable
    <2>1. CASE \E status : Exit(n, status)
      BY <2>1 DEF Exit, LoopReset, TypeOK
    <2>2. CASE \A status : ~Exit(n, status)
      BY <1>8, <2>2 DEF ManageVip, Crash, Kill, PowerLoss, LifecycleIdle, ProbeAndDecide, AddVip,
                        AnnounceVip, RemoveVip, RecordVipOperation, loopVars
    <2> QED
      BY <2>1, <2>2
  <1>9. ASSUME NEW n \in Node,
               \/ Start(n) \/ Discover(n)
               \/ m # n /\ (SendHeartbeats(n) \/ Hear(n) \/ HearNothing(n) \/ Sleep(n))
        PROVE  recent'[m] = recent[m] \/ recent'[m] = EmptyTable
    BY <1>9 DEF Start, ServiceStart, Launch, Discover, ExchangeBeacons, SendHeartbeats, BeginIteration,
                Hear, HearNothing, CompleteReceive, ReceiveOutcome, Exit, LoopReset, Sleep, EndIteration,
                loopVars, TypeOK
  <1>10. CASE UNCHANGED clusterVars \/ ChangeLinks \/ Tick
    BY <1>2, <1>10 DEF clusterVars, ChangeLinks, Tick, vars, loopVars
  <1> QED
    BY <1>2, <1>3, <1>4, <1>5, <1>6, <1>7, <1>8, <1>9, <1>10 DEF ClusterNext, DaemonStep

(* An add that is about to happen is one of the highest-ranked node: it    *)
(* hears everybody, and outranks everybody it hears.                       *)
LEMMA ClaimantLeads ==
  ASSUME QuorumIsEverybody, ~DiscoveryEnabled,
         TypeOK, ViewInv, WireInv, ElectionInv, QuorumInv, KnownInv,
         NEW n \in Node, n \notin Peers[n], pc[n] = "add"
  PROVE  Leads(n)
  <1> SUFFICES ASSUME NEW m \in Node \ {n}
               PROVE  Outranks(Ranking(n), Ranking(m))
    BY DEF Leads
  <1>1. m \in DOMAIN recent[n]
    <2> DEFINE heard == DOMAIN recent[n] \cup {n}
               all == Peers[n] \cup {n}
    <2>1. heard \in SUBSET all /\ Heard(n) \cup {n} = heard
      BY DEF QuorumInv, SourcesOK, ViewInv, DiscoveryOff, Heard
    <2>2. IsFiniteSet(all)
      <3>1. all \in SUBSET Id
        BY NodeAssumption
      <3> HIDE DEF all
      <3> QED
        BY <3>1, NodeAssumption, FS_Subset
    <2>3. Cardinality(all) <= Cardinality(heard)
      <3>1. Cardinality(heard) >= quorumThreshold(electionPolicy(n))
        BY <2>1 DEF QuorumIsEverybody, QuorumInv, HeardQuorum
      <3>2. Cardinality(all) <= quorumThreshold(electionPolicy(n))
        BY DEF QuorumIsEverybody
      <3> HIDE DEF heard, all
      <3>3. Cardinality(all) \in Nat /\ Cardinality(heard) \in Nat
        BY <2>1, <2>2, FS_Subset, FS_CardinalityType
      <3> QED
        BY <3>1, <3>2, <3>3, ThresholdIsInt
    <2> HIDE DEF heard, all
    <2>4. Cardinality(all) = Cardinality(heard)
      BY <2>1, <2>2, <2>3, FS_Subset, FS_CardinalityType
    <2>5. all = heard
      BY <2>1, <2>2, <2>4, FS_Subset
    <2> QED
      BY <2>5 DEF heard, all, QuorumIsEverybody
  <1> DEFINE s == recent[n][m].status
             k == <<"heartbeat", m>>
  <1>2. s.node_id = m /\ s.healthy /\ s \in WireStatus(Id)
    BY <1>1 DEF KnownInv, KnownOK, WireInv, HeardOnWire
  <1>3. s.priority = Priority[m]
    BY <1>2 DEF WireStatus
  <1>4. k \in DOMAIN peerStatuses(n) /\ peerStatuses(n)[k] = s
    BY <1>1 DEF peerStatuses
  <1> HIDE DEF s, k
  <1>5. s \in HealthyPeers(n)
    BY <1>2, <1>4 DEF HealthyPeers
  <1>6. Outranks(localStatusFromOwnership(n, vip[n]), s)
    BY <1>5 DEF ElectionInv, Obeys, Claimable
  <1> QED
    BY <1>2, <1>3, <1>6 DEF Outranks, localStatusFromOwnership, Ranking

(* Where a quorum is everybody, discovery is off, no node lists itself,    *)
(* and the hosts that carry the VIP from before are led by themselves, no  *)
(* two hosts carry it: whatever is lost or crashes, the one that does      *)
(* outranks all.                                                           *)
THEOREM OneOwner ==
  ASSUME QuorumIsEverybody, ~DiscoveryEnabled, MembersCountOnce,
         \A n \in InitialOwners : Leads(n)
  PROVE  ClusterSpec => []AtMostOneOwner
  <1> DEFINE LeadInv == \A n \in Node : vip[n] => Leads(n)
             DInv == TypeOK /\ ViewInv /\ WireInv /\ ElectionInv /\ QuorumInv
             CInv == NetInv /\ PoolInv /\ KnownInv /\ LeadInv
  <1>1. ClusterInit => DInv /\ CInv
    <2> SUFFICES ASSUME ClusterInit PROVE DInv /\ CInv
      OBVIOUS
    <2>1. Init /\ TypeOK /\ NetInv /\ PoolInv
      BY TypeInit, NetInit, PoolInit DEF ClusterInit
    <2>2. DOMAIN EmptyTable = {} /\ DOMAIN << >> = {}
      BY DEF EmptyTable
    <2>3. ViewInv /\ WireInv /\ ElectionInv /\ QuorumInv
      BY <2>1, <2>2 DEF Init, ViewInv, HeartbeatViewFresh, DiscoveryViewFresh, DiscoveryOff, Deciding,
                        WireInv, HeardOnWire, ElectionInv, Obeys, QuorumInv, SourcesOK
    <2>4. KnownInv
      BY <2>2 DEF ClusterInit, Init, KnownInv, KnownOK
    <2>5. LeadInv
      BY <2>1 DEF Init, Leads
    <2> QED
      BY <2>1, <2>3, <2>4, <2>5
  <1>2. DInv /\ CInv /\ [ClusterNext]_clusterVars => DInv' /\ CInv'
    <2> SUFFICES ASSUME DInv, CInv, [ClusterNext]_clusterVars PROVE DInv' /\ CInv'
      OBVIOUS
    <2>1. [Next]_vars
      BY StepIsADaemonStep
    <2>2. DInv'
      BY <2>1, TypeStep, ViewStep, WireStep, ElectionStep, QuorumStep
    <2>3. NetInv' /\ PoolInv'
      BY NetStep, PoolStep
    <2>4. KnownInv'
      BY SentHealthyStep, HeardHealthyStep DEF KnownInv, KnownOK
    <2>5. ASSUME NEW n \in Node, vip'[n]
          PROVE  Leads(n)
      <3>1. CASE vip[n]
        BY <3>1
      <3>2. CASE ~vip[n]
        <4>1. pc[n] = "add" /\ n \notin Peers[n]
          BY <2>1, <2>5, <3>2, OnlyAddBringsVipUp DEF MembersCountOnce
        <4> QED
          BY <4>1, ClaimantLeads
      <3> QED
        BY <3>1, <3>2
    <2>6. LeadInv'
      BY <2>5 DEF Leads, Ranking, Outranks
    <2> QED
      BY <2>2, <2>3, <2>4, <2>6
  <1>3. LeadInv => AtMostOneOwner
    BY NodeAssumption DEF Leads, AtMostOneOwner, Ranking, Outranks
  <1> QED
    BY <1>1, <1>2, <1>3, PTL DEF ClusterSpec

(* Two nodes that list each other, with the strict majority, have one      *)
(* owner at most.                                                          *)
THEOREM TwoNodesHaveOneOwner ==
  ASSUME NEW a, NEW b, a # b, Node = {a, b}, Peers = [n \in Node |-> Node \ {n}],
         RequireQuorum, QuorumSize = 0, ~DiscoveryEnabled, InitialOwners = {}
  PROVE  ClusterSpec => []AtMostOneOwner
  <1>1. MembersCountOnce
    BY DEF MembersCountOnce
  <1>2. ASSUME NEW n \in Node
        PROVE  /\ Peers[n] \cup {n} = Node
               /\ Cardinality(Peers[n]) = 1 /\ Cardinality(Peers[n] \cup {n}) = 2
    <2>1. \E m : m # n /\ Peers[n] = {m} /\ Peers[n] \cup {n} = Node
      OBVIOUS
    <2>2. PICK m : m # n /\ Peers[n] = {m} /\ Peers[n] \cup {n} = Node
      BY <2>1
    <2>3. IsFiniteSet({m}) /\ Cardinality({m}) = 1
      BY FS_Singleton
    <2>4. Cardinality({m} \cup {n}) = 2
      BY <2>2, <2>3, FS_AddElement
    <2> QED
      BY <2>2, <2>3, <2>4
  <1>3. QuorumIsEverybody
    <2>1. ASSUME NEW n \in Node PROVE quorumThreshold(electionPolicy(n)) = 2
      <3>1. electionPolicy(n).quorum_size = 0 /\ electionPolicy(n).cluster_size = 2
        BY <1>2 DEF electionPolicy
      <3> QED
        BY <3>1 DEF quorumThreshold
    <2> QED
      BY <1>2, <2>1 DEF QuorumIsEverybody
  <1> QED
    BY <1>1, <1>3, OneOwner
=============================================================================
