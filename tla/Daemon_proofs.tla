---------------------------- MODULE Daemon_proofs ----------------------------
(***************************************************************************)
(* Theorems about one or more daemons in an open environment, for every    *)
(* set of nodes, configuration and set of faults.                          *)
(***************************************************************************)
EXTENDS Daemon, TLAPS

-----------------------------------------------------------------------------
(* Tables                                                                  *)

(* Expiry and pruning keep a table a table.                                *)
LEMMA ExpiryKeepsTable ==
  ASSUME NEW t, NEW m \in Nat, IsTable(t, m)
  PROVE  IsTable(expirePeers(t), m) /\ IsTable(prune(t), m)
  BY DEF IsTable, expirePeers, prune, Restrict

(* Aging keeps a table a table: ages stop at the cap.                      *)
LEMMA AgingKeepsTable ==
  ASSUME NEW t, NEW m \in Nat, IsTable(t, m)
  PROVE  IsTable(Older(t, m), m)
  <1>1. ASSUME NEW p \in DOMAIN t
        PROVE  [t[p] EXCEPT !.age = AtMost(@ + IterationElapsed, m)]
                 \in [status : PeerStatus, age : 0 .. m]
    <2>1. t[p] \in [status : PeerStatus, age : 0 .. m]
      BY DEF IsTable
    <2> QED
      BY <2>1, TimeAssumption DEF AtMost
  <1> QED
    BY <1>1 DEF IsTable, Older

(* Recording an observation of a known id keeps a table a table.           *)
LEMMA ObservingKeepsTable ==
  ASSUME NEW t, NEW m \in Nat, IsTable(t, m), NEW k \in Id, NEW s \in PeerStatus
  PROVE  IsTable(observe(t, k, s), m)
  BY DEF IsTable, observe

(* The table a process starts with.                                        *)
LEMMA EmptyIsTable ==
  ASSUME NEW m \in Nat PROVE IsTable(EmptyTable, m)
  BY DEF IsTable, EmptyTable

(* What the wire says of known senders is a peer status.                   *)
LEMMA WireIsTyped ==
  ASSUME NEW status \in WireStatus(Id) PROVE status \in PeerStatus
  <1>1. PICK id \in Id, h \in BOOLEAN, s \in {"backup", "master"} :
          status = [node_id |-> id, priority |-> Priority[id], healthy |-> h,
                    heartbeat_seen |-> TRUE, state |-> s]
    BY DEF WireStatus
  <1>2. Priority[id] \in Nat
    BY NodeAssumption
  <1> QED
    BY <1>1, <1>2 DEF PeerStatus, NodeState

(* Beacons of the segment are beacons of known ids.                        *)
LEMMA SegmentIsKnown ==
  WireStatus(Segment) \subseteq WireStatus(Id)
  BY NodeAssumption DEF WireStatus

(* Merging beacons of other nodes into the discovery table and dropping    *)
(* what is stale gives a table.                                            *)
LEMMA BeaconsKeepTable ==
  ASSUME NEW t, NEW m \in Nat, IsTable(t, m), NEW n \in Node, NEW b \in OwnBeacons(n)
  PROVE  IsTable(prune([p \in DOMAIN t \cup (DOMAIN b \ {n}) |->
                          IF p \in DOMAIN b \ {n} THEN [status |-> b[p], age |-> 0]
                          ELSE t[p]]), m)
  <1>1. PICK D \in SUBSET (Segment \ {n}) : b \in [D -> WireStatus(Segment)]
    BY DEF OwnBeacons, BeaconSets
  <1>2. DOMAIN b \subseteq Id /\ \A p \in DOMAIN b : b[p] \in PeerStatus
    BY <1>1, WireIsTyped, SegmentIsKnown, NodeAssumption
  <1>3. IsTable([p \in DOMAIN t \cup (DOMAIN b \ {n}) |->
                   IF p \in DOMAIN b \ {n} THEN [status |-> b[p], age |-> 0]
                   ELSE t[p]], m)
    BY <1>1, <1>2 DEF IsTable
  <1> QED
    BY <1>3, ExpiryKeepsTable

-----------------------------------------------------------------------------
(* Type correctness                                                        *)

(* A process that ends leaves well-typed loop variables behind.            *)
LEMMA ExitIsTyped ==
  ASSUME TypeOK, NEW n \in Node, NEW status \in {"none", "success", "failure"},
         Exit(n, status),
         vip' \in [Node -> BOOLEAN], announced' \in [Node -> BOOLEAN],
         released' \in [Node -> BOOLEAN],
         pending' \in [Node -> BOOLEAN], apiFailed' \in [Node -> BOOLEAN]
  PROVE  TypeOK'
  <1> USE TimeAssumption
  <1>1. /\ pc' \in [Node -> Running \cup {"down"}]
        /\ exit' \in [Node -> {"none", "success", "failure"}]
        /\ warm' \in [Node -> BOOLEAN]
        /\ advertised' \in [Node -> {"backup", "master"}]
        /\ cycle' \in [Node -> CycleOutcome]
        /\ sinceSend' \in [Node -> 0 .. HeartbeatInterval]
        /\ sinceBeacon' \in [Node -> 0 .. DiscoveryInterval]
    BY DEF TypeOK, Exit, LoopReset, GoTo, CycleOutcome, Running
  <1>2. /\ DOMAIN recent' = Node /\ DOMAIN discovered' = Node
        /\ \A m \in Node : /\ IsTable(recent'[m], HeartbeatTimeout)
                           /\ IsTable(discovered'[m], DiscoveryTimeout + 1)
    <2>1. IsTable(EmptyTable, HeartbeatTimeout) /\ IsTable(EmptyTable, DiscoveryTimeout + 1)
      BY EmptyIsTable
    <2> QED
      BY <2>1 DEF TypeOK, Exit, LoopReset
  <1> QED
    BY <1>1, <1>2 DEF TypeOK

(* Starting, stopping and signalling a process keep the types.             *)
LEMMA ProcessStepsAreTyped ==
  ASSUME TypeOK, NEW n \in Node,
         \/ ServiceStart(n) \/ OperatorStart(n) \/ Kill(n) \/ PowerLoss(n)
         \/ Signal(n) \/ ApiFailure(n) \/ ReleaseVip(n) \/ StopLoop(n)
  PROVE  TypeOK'
  <1>1. CASE ServiceStart(n) \/ OperatorStart(n)
    <2>1. Launch(n)
      BY <1>1 DEF ServiceStart, OperatorStart
    <2>2. pc' \in [Node -> Running \cup {"down"}] /\ exit' \in [Node -> {"none", "success", "failure"}]
      BY <2>1 DEF TypeOK, Launch, GoTo, Running
    <2>3. pending' \in [Node -> BOOLEAN] /\ apiFailed' \in [Node -> BOOLEAN]
      BY <2>1 DEF TypeOK, Launch
    <2> QED
      BY <2>1, <2>2, <2>3 DEF TypeOK, Launch, hostVars, loopVars
  <1>2. CASE Kill(n)
    BY <1>2, ExitIsTyped DEF TypeOK, Kill, hostVars, signalVars
  <1>3. CASE PowerLoss(n)
    BY <1>3, ExitIsTyped DEF TypeOK, PowerLoss, signalVars
  <1>4. CASE Signal(n) \/ ApiFailure(n)
    BY <1>4 DEF TypeOK, Signal, ApiFailure, hostVars, loopVars
  <1>5. CASE ReleaseVip(n)
    <2>1. PICK removed \in BOOLEAN :
            /\ vip' = [vip EXCEPT ![n] = @ /\ ~removed]
            /\ announced' = [announced EXCEPT ![n] = @ /\ ~removed]
            /\ released' = [released EXCEPT ![n] =
                 @ \/ (removed /\ vip[n] /\ pc[n] \in {"announce", "remove"})]
      BY <1>5 DEF ReleaseVip
    <2>2. /\ vip' \in [Node -> BOOLEAN] /\ announced' \in [Node -> BOOLEAN]
          /\ released' \in [Node -> BOOLEAN]
      BY <2>1 DEF TypeOK
    <2>3. exit' \in [Node -> {"none", "success", "failure"}]
      BY <1>5 DEF TypeOK, ReleaseVip
    <2> QED
      BY <1>5, <2>2, <2>3 DEF TypeOK, ReleaseVip, signalVars, loopVars
  <1>6. CASE StopLoop(n)
    <2>1. (IF apiFailed[n] THEN "failure" ELSE "success") \in {"none", "success", "failure"}
      OBVIOUS
    <2> QED
      BY <1>6, <2>1, ExitIsTyped DEF TypeOK, StopLoop, hostVars, signalVars
  <1> QED
    BY <1>1, <1>2, <1>3, <1>4, <1>5, <1>6

(* So does the first half of an iteration, up to the receive.              *)
LEMMA BeginIsTyped ==
  ASSUME TypeOK, NEW n \in Node, NEW sent \in BOOLEAN, BeginIteration(n, sent)
  PROVE  TypeOK'
  <1>1. \A m \in Node : IsTable(recent'[m], HeartbeatTimeout)
    <2>1. IsTable(expirePeers(recent[n]), HeartbeatTimeout)
      BY ExpiryKeepsTable, TimeAssumption DEF TypeOK
    <2> QED
      BY <2>1 DEF TypeOK, BeginIteration
  <1>2. sinceSend' \in [Node -> 0 .. HeartbeatInterval]
    BY TimeAssumption DEF TypeOK, BeginIteration
  <1>3. pc' \in [Node -> Running \cup {"down"}] /\ cycle' \in [Node -> CycleOutcome]
    BY DEF TypeOK, BeginIteration, GoTo, Running, CycleOutcome
  <1> QED
    BY <1>1, <1>2, <1>3 DEF TypeOK, BeginIteration, hostVars, signalVars

(* The receive keeps the types, whatever it returns.                       *)
LEMMA ReceiveIsTyped ==
  ASSUME TypeOK, NEW n \in Node, NEW result \in ReceiveResults, ReceiveOutcome(n, result),
         pending' \in [Node -> BOOLEAN], apiFailed' \in [Node -> BOOLEAN]
  PROVE  TypeOK'
  <1>1. CASE heartbeatFaults(n, result)
    BY <1>1, ExitIsTyped DEF TypeOK, ReceiveOutcome, hostVars
  <1>2. CASE ~heartbeatFaults(n, result)
    <2> DEFINE heard == IF result.kind = "message" /\ peerIsConfigured(n, result.status.node_id)
                        THEN observe(recent[n], result.status.node_id, result.status)
                        ELSE recent[n]
    <2>1. IsTable(heard, HeartbeatTimeout)
      <3>1. IsTable(recent[n], HeartbeatTimeout)
        BY DEF TypeOK
      <3>2. ASSUME result.kind = "message", peerIsConfigured(n, result.status.node_id)
            PROVE  IsTable(observe(recent[n], result.status.node_id, result.status),
                           HeartbeatTimeout)
        <4>1. PICK status \in WireStatus(Id) : result = Received(status)
          BY <3>2 DEF ReceiveResults, ReceiveTimeout, ReceiveError
        <4>2. result.status \in PeerStatus
          BY <4>1, WireIsTyped DEF Received
        <4>3. result.status.node_id \in Id
          BY <4>2 DEF PeerStatus
        <4> QED
          BY <3>1, <4>2, <4>3, ObservingKeepsTable, TimeAssumption
      <3> QED
        BY <3>1, <3>2
    <2>2. IsTable(expirePeers(heard), HeartbeatTimeout)
      BY <2>1, ExpiryKeepsTable, TimeAssumption
    <2>3. recent' = [recent EXCEPT ![n] = expirePeers(heard)]
      BY <1>2 DEF ReceiveOutcome
    <2>4. DOMAIN recent' = Node /\ \A m \in Node : IsTable(recent'[m], HeartbeatTimeout)
      BY <2>2, <2>3 DEF TypeOK
    <2>5. pc' \in [Node -> Running \cup {"down"}] /\ cycle' \in [Node -> CycleOutcome]
      BY <1>2 DEF TypeOK, ReceiveOutcome, GoTo, Running, CycleOutcome
    <2> QED
      BY <1>2, <2>4, <2>5 DEF TypeOK, ReceiveOutcome, hostVars
  <1> QED
    BY <1>1, <1>2

(* The exchange of beacons keeps the types.                                *)
LEMMA BeaconsAreTyped ==
  ASSUME TypeOK, NEW n \in Node, NEW beacons \in OwnBeacons(n), ExchangeBeacons(n, beacons)
  PROVE  TypeOK'
  <1>1. IsTable(discovered[n], DiscoveryTimeout + 1) /\ DiscoveryTimeout + 1 \in Nat
    BY TimeAssumption DEF TypeOK
  <1> DEFINE heard == prune([p \in DOMAIN discovered[n] \cup (DOMAIN beacons \ {n}) |->
                               IF p \in DOMAIN beacons \ {n}
                               THEN [status |-> beacons[p], age |-> 0]
                               ELSE discovered[n][p]])
  <1>2. IsTable(heard, DiscoveryTimeout + 1)
    BY <1>1, BeaconsKeepTable
  <1>3. discovered' = [discovered EXCEPT ![n] = heard]
    BY DEF ExchangeBeacons
  <1>4. DOMAIN discovered' = Node /\ \A m \in Node : IsTable(discovered'[m], DiscoveryTimeout + 1)
    <2> HIDE DEF heard
    <2> QED
      BY <1>2, <1>3 DEF TypeOK
  <1>5. sinceBeacon' \in [Node -> 0 .. DiscoveryInterval] /\ pc' \in [Node -> Running \cup {"down"}]
    BY TimeAssumption DEF TypeOK, ExchangeBeacons, GoTo, Running
  <1> QED
    BY <1>4, <1>5 DEF TypeOK, ExchangeBeacons, hostVars, signalVars

(* So do the lifecycle, the VIP operations and the end of the iteration.   *)
LEMMA LifecycleIsTyped ==
  ASSUME TypeOK, NEW n \in Node,
         LifecycleIdle(n) \/ \E probed \in BOOLEAN : ProbeAndDecide(n, probed)
  PROVE  TypeOK'
  <1>1. CASE LifecycleIdle(n)
    <2>1. pc' \in [Node -> Running \cup {"down"}] /\ advertised' \in [Node -> {"backup", "master"}]
      BY <1>1 DEF TypeOK, LifecycleIdle, GoTo, Running
    <2> QED
      BY <1>1, <2>1 DEF TypeOK, LifecycleIdle, hostVars, signalVars
  <1>2. ASSUME NEW probed \in BOOLEAN, ProbeAndDecide(n, probed)
        PROVE  TypeOK'
    <2> DEFINE owner == probed /\ vip[n]
    <2>1. CASE ~probed /\ ~DryRun
      BY <1>2, <2>1, ExitIsTyped DEF TypeOK, ProbeAndDecide, hostVars, signalVars
    <2>2. CASE ~(~probed /\ ~DryRun)
      <3>1. operationFor(decisionOf(n, owner), owner) \in Running
        BY DEF operationFor, Running
      <3>2. pc' \in [Node -> Running \cup {"down"}]
        BY <1>2, <2>2, <3>1 DEF TypeOK, ProbeAndDecide, GoTo
      <3>3. advertised' \in [Node -> {"backup", "master"}]
        BY <1>2, <2>2 DEF TypeOK, ProbeAndDecide
      <3> QED
        BY <1>2, <2>2, <3>2, <3>3 DEF TypeOK, ProbeAndDecide, hostVars, signalVars
    <2> QED
      BY <2>1, <2>2
  <1> QED
    BY <1>1, <1>2

(* What is recorded of a VIP operation is well typed.                      *)
LEMMA RecordedOperationIsTyped ==
  ASSUME TypeOK, NEW n \in Node, NEW success, NEW next \in Running,
         RecordVipOperation(n, success, next),
         vip' \in [Node -> BOOLEAN], announced' \in [Node -> BOOLEAN],
         released' \in [Node -> BOOLEAN], UNCHANGED signalVars
  PROVE  TypeOK'
  <1>1. CASE Exit(n, "failure")
    BY <1>1, ExitIsTyped DEF TypeOK, signalVars
  <1>2. CASE GoTo(n, next) /\ UNCHANGED <<exit, loopVars>>
    <2>1. pc' \in [Node -> Running \cup {"down"}]
      BY <1>2 DEF TypeOK, GoTo
    <2> QED
      BY <1>2, <2>1 DEF TypeOK, signalVars, loopVars
  <1> QED
    BY <1>1, <1>2 DEF RecordVipOperation

(* Add, announce and remove keep the types.                                *)
LEMMA VipOperationsAreTyped ==
  ASSUME TypeOK, NEW n \in Node, AddVip(n) \/ AnnounceVip(n) \/ RemoveVip(n)
  PROVE  TypeOK'
  <1>1. CASE AddVip(n)
    <2>1. PICK result \in VipCommandResults(n, "add") :
            /\ vip' = [vip EXCEPT ![n] = @ \/ result.applied]
            /\ RecordVipOperation(n, result.success, "announce")
      BY <1>1 DEF AddVip
    <2>2. /\ vip' \in [Node -> BOOLEAN] /\ announced' \in [Node -> BOOLEAN]
          /\ released' \in [Node -> BOOLEAN] /\ UNCHANGED signalVars
      BY <1>1, <2>1 DEF TypeOK, AddVip
    <2> QED
      BY <2>1, <2>2, RecordedOperationIsTyped DEF Running
  <1>2. CASE AnnounceVip(n)
    <2>1. PICK result \in VipCommandResults(n, "announce") :
            /\ announced' = IF result.applied THEN [m \in Node |-> m = n] ELSE announced
            /\ RecordVipOperation(n, result.success, "publish")
      BY <1>2 DEF AnnounceVip
    <2>2. /\ vip' \in [Node -> BOOLEAN] /\ announced' \in [Node -> BOOLEAN]
          /\ released' \in [Node -> BOOLEAN] /\ UNCHANGED signalVars
      BY <1>2, <2>1 DEF TypeOK, AnnounceVip
    <2> QED
      BY <2>1, <2>2, RecordedOperationIsTyped DEF Running
  <1>3. CASE RemoveVip(n)
    <2>1. PICK result \in VipCommandResults(n, "remove") :
            /\ vip' = [vip EXCEPT ![n] = @ /\ ~result.applied]
            /\ announced' = [announced EXCEPT ![n] = @ /\ ~result.applied]
            /\ RecordVipOperation(n, result.success, "publish")
      BY <1>3 DEF RemoveVip
    <2>2. /\ vip' \in [Node -> BOOLEAN] /\ announced' \in [Node -> BOOLEAN]
          /\ released' \in [Node -> BOOLEAN] /\ UNCHANGED signalVars
      BY <1>3, <2>1 DEF TypeOK, RemoveVip
    <2> QED
      BY <2>1, <2>2, RecordedOperationIsTyped DEF Running
  <1> QED
    BY <1>1, <1>2, <1>3

(* The end of an iteration keeps the types: all ages stop at their caps.   *)
LEMMA EndIsTyped ==
  ASSUME TypeOK, NEW n \in Node, EndIteration(n)
  PROVE  TypeOK'
  <1>1. /\ DOMAIN recent' = Node /\ DOMAIN discovered' = Node
        /\ \A m \in Node : /\ IsTable(recent'[m], HeartbeatTimeout)
                           /\ IsTable(discovered'[m], DiscoveryTimeout + 1)
    <2>1. IsTable(Older(recent[n], HeartbeatTimeout), HeartbeatTimeout)
      BY AgingKeepsTable, TimeAssumption DEF TypeOK
    <2>2. IsTable(Older(discovered[n], DiscoveryTimeout + 1), DiscoveryTimeout + 1)
      BY AgingKeepsTable, TimeAssumption DEF TypeOK
    <2> QED
      BY <2>1, <2>2 DEF TypeOK, EndIteration
  <1>2. /\ sinceSend' \in [Node -> 0 .. HeartbeatInterval]
        /\ sinceBeacon' \in [Node -> 0 .. DiscoveryInterval]
    BY TimeAssumption DEF TypeOK, EndIteration, AtMost
  <1>3. /\ pc' \in [Node -> Running \cup {"down"}]
        /\ warm' \in [Node -> BOOLEAN] /\ cycle' \in [Node -> CycleOutcome]
    BY DEF TypeOK, EndIteration, GoTo, Running, CycleOutcome
  <1> QED
    BY <1>1, <1>2, <1>3 DEF TypeOK, EndIteration, hostVars, signalVars

(* Every step keeps the types.                                             *)
LEMMA TypeStep ==
  ASSUME TypeOK, [Next]_vars
  PROVE  TypeOK'
  <1>1. CASE UNCHANGED vars
    BY <1>1 DEF TypeOK, vars, hostVars, signalVars, loopVars
  <1>2. ASSUME NEW n \in Node, ServiceStart(n) \/ MainThread(n) \/ Environment(n)
        PROVE  TypeOK'
    <2>1. CASE \E result \in ReceiveResults : CompleteReceive(n, result)
      BY <2>1, ReceiveIsTyped DEF TypeOK, CompleteReceive, signalVars
    <2>2. CASE InterruptReceive(n)
      <3>1. pending' \in [Node -> BOOLEAN] /\ apiFailed' \in [Node -> BOOLEAN]
        BY <2>2 DEF TypeOK, InterruptReceive
      <3> QED
        BY <2>2, <3>1, ReceiveIsTyped DEF InterruptReceive, ReceiveResults
    <2> QED
      BY <1>2, <2>1, <2>2, ProcessStepsAreTyped, BeginIsTyped, BeaconsAreTyped,
         LifecycleIsTyped, VipOperationsAreTyped, EndIsTyped DEF MainThread, Environment
  <1> QED
    BY <1>1, <1>2 DEF Next

(* The daemon starts well typed.                                           *)
LEMMA TypeInit == Init => TypeOK
  BY EmptyIsTable, NodeAssumption, TimeAssumption
     DEF Init, TypeOK, CycleOutcome

(* Every variable keeps its type, whatever the environment does.           *)
THEOREM TypeCorrect == Spec => []TypeOK
  BY TypeInit, TypeStep, PTL DEF Spec
=============================================================================
