------------------------- MODULE DaemonSafety_proofs -------------------------
(***************************************************************************)
(* The safety properties of Daemon, for every configuration and every set  *)
(* of faults.                                                              *)
(***************************************************************************)
EXTENDS Daemon_proofs, FiniteSetTheorems

(* A node takes a step alone: what is indexed by another node stays.       *)
LEMMA ExitMoves ==
  ASSUME TypeOK, NEW n \in Node, NEW status, Exit(n, status)
  PROVE  /\ pc' = [pc EXCEPT ![n] = "down"]
         /\ \A m \in Node \ {n} : /\ cycle'[m] = cycle[m]
                                  /\ recent'[m] = recent[m]
                                  /\ discovered'[m] = discovered[m]
         /\ cycle'[n] = "none"
         /\ recent'[n] = EmptyTable /\ discovered'[n] = EmptyTable
  BY DEF TypeOK, Exit, LoopReset, GoTo

-----------------------------------------------------------------------------
(* VIP operations and the interface                                        *)

(* A real operation that succeeds has taken effect.                        *)
LEMMA SuccessIsReal ==
  ASSUME NEW n \in Node, NEW kind, NEW result \in VipCommandResults(n, kind)
  PROVE  /\ ~managerDryRun /\ result.success => result.applied
         /\ managerDryRun => ~result.applied
         /\ result.applied \in BOOLEAN
  <1>1. CASE managerDryRun
    <2>1. result = [applied |-> FALSE, success |-> TRUE]
      BY <1>1 DEF VipCommandResults
    <2> QED
      BY <1>1, <2>1
  <1>2. CASE ~managerDryRun
    <2>1. \/ result = [applied |-> TRUE, success |-> TRUE]
          \/ result \in [applied : BOOLEAN, success : {FALSE}]
          \/ result = [applied |-> FALSE, success |-> FALSE]
      BY <1>2 DEF VipCommandResults, CommandResults, Refusals
    <2>2. CASE result = [applied |-> TRUE, success |-> TRUE]
      <3>1. result.applied = TRUE
        BY <2>2
      <3> QED
        BY <1>2, <3>1
    <2>3. CASE result \in [applied : BOOLEAN, success : {FALSE}]
      <3>1. result.applied \in BOOLEAN /\ ~result.success
        BY <2>3
      <3> QED
        BY <1>2, <3>1
    <2>4. CASE result = [applied |-> FALSE, success |-> FALSE]
      <3>1. result.applied = FALSE /\ result.success = FALSE
        BY <2>4
      <3> QED
        BY <1>2, <3>1
    <2> QED
      BY <2>1, <2>2, <2>3, <2>4
  <1> QED
    BY <1>1, <1>2

(* Steps that keep the host's interface and do not lead to an operation.   *)
LEMMA OperationsKept ==
  ASSUME TypeOK, OperationsMatchInterface, NEW n \in Node, UNCHANGED <<vip, released>>,
         \A m \in Node \ {n} : pc'[m] = pc[m],
         pc'[n] \notin {"add", "announce", "remove"} \/ pc'[n] = pc[n]
  PROVE  OperationsMatchInterface'
  BY DEF OperationsMatchInterface, managerDryRun

(* Every step keeps operations and interface in agreement.                 *)
LEMMA OperationsStep ==
  ASSUME TypeOK, OperationsMatchInterface, [Next]_vars
  PROVE  OperationsMatchInterface'
  <1>1. CASE UNCHANGED vars
    BY <1>1 DEF OperationsMatchInterface, vars, hostVars, managerDryRun
  <1>2. ASSUME NEW n \in Node, ServiceStart(n) \/ OperatorStart(n)
        PROVE  OperationsMatchInterface'
    BY <1>2, OperationsKept DEF TypeOK, ServiceStart, OperatorStart, Launch, GoTo, hostVars
  <1>3. ASSUME NEW n \in Node, StopLoop(n) \/ Kill(n)
        PROVE  OperationsMatchInterface'
    BY <1>3, ExitMoves, OperationsKept DEF TypeOK, StopLoop, Kill, hostVars
  <1>4. ASSUME NEW n \in Node, PowerLoss(n)
        PROVE  OperationsMatchInterface'
    BY <1>4, ExitMoves DEF TypeOK, OperationsMatchInterface, PowerLoss, managerDryRun
  <1>5. ASSUME NEW n \in Node, Signal(n) \/ ApiFailure(n)
        PROVE  OperationsMatchInterface'
    BY <1>5 DEF OperationsMatchInterface, Signal, ApiFailure, hostVars, managerDryRun
  <1>6. ASSUME NEW n \in Node, ReleaseVip(n)
        PROVE  OperationsMatchInterface'
    <2>1. PICK removed \in BOOLEAN :
            /\ vip' = [vip EXCEPT ![n] = @ /\ ~removed]
            /\ released' = [released EXCEPT ![n] =
                 @ \/ (removed /\ vip[n] /\ pc[n] \in {"announce", "remove"})]
      BY <1>6 DEF ReleaseVip
    <2>2. UNCHANGED pc
      BY <1>6 DEF ReleaseVip
    <2> QED
      BY <2>1, <2>2 DEF TypeOK, OperationsMatchInterface, managerDryRun
  <1>7. ASSUME NEW n \in Node, NEW sent \in BOOLEAN, BeginIteration(n, sent)
        PROVE  OperationsMatchInterface'
    BY <1>7, OperationsKept DEF TypeOK, BeginIteration, GoTo, hostVars
  <1>8. ASSUME NEW n \in Node, NEW result, ReceiveOutcome(n, result)
        PROVE  OperationsMatchInterface'
    BY <1>8, ExitMoves, OperationsKept DEF TypeOK, ReceiveOutcome, GoTo, hostVars
  <1>9. ASSUME NEW n \in Node, NEW beacons, ExchangeBeacons(n, beacons)
        PROVE  OperationsMatchInterface'
    BY <1>9, OperationsKept DEF TypeOK, ExchangeBeacons, GoTo, hostVars
  <1>10. ASSUME NEW n \in Node, LifecycleIdle(n) \/ EndIteration(n)
         PROVE  OperationsMatchInterface'
    BY <1>10, OperationsKept DEF TypeOK, LifecycleIdle, EndIteration, GoTo, hostVars
  <1>11. ASSUME NEW n \in Node, NEW probed \in BOOLEAN, ProbeAndDecide(n, probed)
         PROVE  OperationsMatchInterface'
    <2>1. CASE ~probed /\ ~DryRun
      <3>1. /\ UNCHANGED vip /\ released' = [released EXCEPT ![n] = FALSE]
            /\ pc' = [pc EXCEPT ![n] = "down"]
        BY <1>11, <2>1, ExitMoves DEF ProbeAndDecide
      <3> QED
        BY <3>1 DEF TypeOK, OperationsMatchInterface, managerDryRun
    <2>2. CASE ~(~probed /\ ~DryRun)
      <3> DEFINE owner  == probed /\ vip[n]
                 action == decisionOf(n, owner)
      <3>1. /\ pc' = [pc EXCEPT ![n] = operationFor(action, owner)]
            /\ UNCHANGED vip /\ released' = [released EXCEPT ![n] = FALSE]
        BY <1>11, <2>2 DEF ProbeAndDecide, GoTo
      <3>2. /\ operationFor(action, owner) = "add" => ~owner
            /\ operationFor(action, owner) = "remove" => owner
            /\ operationFor(action, owner) # "announce"
        BY DEF operationFor
      <3>3. ~managerDryRun => probed
        BY <2>2 DEF managerDryRun
      <3>4. owner => vip[n]
        OBVIOUS
      <3>5. ~owner /\ ~managerDryRun => ~vip[n]
        BY <3>3
      <3> HIDE DEF action, owner
      <3> QED
        BY <3>1, <3>2, <3>4, <3>5 DEF TypeOK, OperationsMatchInterface, managerDryRun
    <2> QED
      BY <2>1, <2>2
  <1>12. ASSUME NEW n \in Node, AddVip(n) \/ AnnounceVip(n) \/ RemoveVip(n)
         PROVE  OperationsMatchInterface'
    <2>1. ASSUME NEW success, NEW next, RecordVipOperation(n, success, next)
          PROVE  \/ pc' = [pc EXCEPT ![n] = "down"]
                 \/ success /\ pc' = [pc EXCEPT ![n] = next]
      BY <2>1, ExitMoves DEF RecordVipOperation, GoTo
    <2>2. CASE AddVip(n)
      <3>1. PICK result \in VipCommandResults(n, "add") :
              /\ vip' = [vip EXCEPT ![n] = @ \/ result.applied]
              /\ RecordVipOperation(n, result.success, "announce")
        BY <2>2 DEF AddVip
      <3>2. UNCHANGED released
        BY <2>2 DEF AddVip
      <3> QED
        BY <2>1, <3>1, <3>2, SuccessIsReal DEF TypeOK, OperationsMatchInterface, managerDryRun
    <2>3. CASE AnnounceVip(n)
      <3>1. PICK result \in VipCommandResults(n, "announce") :
              RecordVipOperation(n, result.success, "publish")
        BY <2>3 DEF AnnounceVip
      <3> QED
        BY <2>1, <2>3, <3>1, OperationsKept DEF TypeOK, AnnounceVip
    <2>4. CASE RemoveVip(n)
      <3>1. PICK result \in VipCommandResults(n, "remove") :
              /\ vip' = [vip EXCEPT ![n] = @ /\ ~result.applied]
              /\ RecordVipOperation(n, result.success, "publish")
        BY <2>4 DEF RemoveVip
      <3>2. UNCHANGED released
        BY <2>4 DEF RemoveVip
      <3> QED
        BY <2>1, <3>1, <3>2 DEF TypeOK, OperationsMatchInterface, managerDryRun
    <2> QED
      BY <1>12, <2>2, <2>3, <2>4
  <1> QED
    BY <1>1, <1>2, <1>3, <1>4, <1>5, <1>6, <1>7, <1>8, <1>9, <1>10, <1>11, <1>12
       DEF Next, MainThread, Environment, CompleteReceive, InterruptReceive

(* The daemon never adds a VIP the interface carries, and never announces  *)
(* or removes one it does not carry.                                       *)
THEOREM OperationsMatch == Spec => []OperationsMatchInterface
  <1>1. Init => OperationsMatchInterface
    BY DEF Init, OperationsMatchInterface
  <1> QED
    BY <1>1, TypeCorrect, OperationsStep, PTL DEF Spec

-----------------------------------------------------------------------------
(* A failed heartbeat cycle and VIP operations                             *)

(* Steps that do not bring a node closer to an operation.                  *)
LEMMA HeartbeatKept ==
  ASSUME TypeOK, HeartbeatFailureFailsClosed, NEW n \in Node,
         \A m \in Node \ {n} : pc'[m] = pc[m] /\ cycle'[m] = cycle[m],
         \/ pc'[n] \notin Deciding \cup {"discovery"}
         \/ pc[n] \in Deciding \cup {"discovery"} /\ cycle'[n] = cycle[n]
         \/ cycle'[n] \notin {"send_failed", "failed"}
  PROVE  HeartbeatFailureFailsClosed'
  BY DEF HeartbeatFailureFailsClosed, realNetworkMutationRequested

(* Every step keeps a failed heartbeat cycle away from the decision.       *)
LEMMA HeartbeatStep ==
  ASSUME TypeOK, HeartbeatFailureFailsClosed, [Next]_vars
  PROVE  HeartbeatFailureFailsClosed'
  <1>1. CASE UNCHANGED vars
    BY <1>1 DEF HeartbeatFailureFailsClosed, vars, loopVars, realNetworkMutationRequested
  <1>2. ASSUME NEW n \in Node, ServiceStart(n) \/ OperatorStart(n)
        PROVE  HeartbeatFailureFailsClosed'
    BY <1>2, HeartbeatKept
       DEF TypeOK, ServiceStart, OperatorStart, Launch, GoTo, loopVars, Deciding
  <1>3. ASSUME NEW n \in Node, StopLoop(n) \/ Kill(n) \/ PowerLoss(n)
        PROVE  HeartbeatFailureFailsClosed'
    BY <1>3, ExitMoves, HeartbeatKept DEF TypeOK, StopLoop, Kill, PowerLoss, Deciding
  <1>4. ASSUME NEW n \in Node, Signal(n) \/ ApiFailure(n) \/ ReleaseVip(n)
        PROVE  HeartbeatFailureFailsClosed'
    BY <1>4 DEF HeartbeatFailureFailsClosed, Signal, ApiFailure, ReleaseVip, loopVars,
                realNetworkMutationRequested
  <1>5. ASSUME NEW n \in Node, NEW sent \in BOOLEAN, BeginIteration(n, sent)
        PROVE  HeartbeatFailureFailsClosed'
    BY <1>5, HeartbeatKept DEF TypeOK, BeginIteration, GoTo, Deciding
  <1>6. ASSUME NEW n \in Node, NEW result \in ReceiveResults, ReceiveOutcome(n, result)
        PROVE  HeartbeatFailureFailsClosed'
    <2>1. CASE heartbeatFaults(n, result)
      BY <1>6, <2>1, ExitMoves, HeartbeatKept DEF TypeOK, ReceiveOutcome, Deciding
    <2>2. CASE ~heartbeatFaults(n, result) /\ realNetworkMutationRequested
      <3>1. cycle[n] # "send_failed" /\ result.kind # "error"
        BY <2>2 DEF heartbeatFaults
      <3> QED
        BY <1>6, <2>2, <3>1, HeartbeatKept DEF TypeOK, ReceiveOutcome, GoTo
    <2>3. CASE ~realNetworkMutationRequested
      BY <2>3 DEF HeartbeatFailureFailsClosed, realNetworkMutationRequested
    <2> QED
      BY <2>1, <2>2, <2>3
  <1>7. ASSUME NEW n \in Node, NEW beacons, ExchangeBeacons(n, beacons)
        PROVE  HeartbeatFailureFailsClosed'
    BY <1>7, HeartbeatKept DEF TypeOK, ExchangeBeacons, GoTo
  <1>8. ASSUME NEW n \in Node, LifecycleIdle(n)
        PROVE  HeartbeatFailureFailsClosed'
    BY <1>8, HeartbeatKept DEF TypeOK, LifecycleIdle, GoTo, Deciding
  <1>9. ASSUME NEW n \in Node, NEW probed \in BOOLEAN, ProbeAndDecide(n, probed)
        PROVE  HeartbeatFailureFailsClosed'
    <2>1. CASE ~probed /\ ~DryRun
      BY <1>9, <2>1, ExitMoves, HeartbeatKept DEF TypeOK, ProbeAndDecide, Deciding
    <2>2. CASE ~(~probed /\ ~DryRun)
      BY <1>9, <2>2, HeartbeatKept DEF TypeOK, ProbeAndDecide, GoTo, Deciding
    <2> QED
      BY <2>1, <2>2
  <1>10. ASSUME NEW n \in Node, AddVip(n) \/ AnnounceVip(n) \/ RemoveVip(n)
         PROVE  HeartbeatFailureFailsClosed'
    <2>1. PICK success, next : RecordVipOperation(n, success, next)
      BY <1>10 DEF AddVip, AnnounceVip, RemoveVip
    <2>2. pc[n] \in Deciding
      BY <1>10 DEF AddVip, AnnounceVip, RemoveVip, Deciding
    <2>3. CASE Exit(n, "failure")
      BY <2>3, ExitMoves, HeartbeatKept DEF TypeOK, Deciding
    <2>4. CASE GoTo(n, next) /\ UNCHANGED <<exit, loopVars>>
      BY <2>2, <2>4, HeartbeatKept DEF TypeOK, GoTo, loopVars
    <2> QED
      BY <2>1, <2>3, <2>4 DEF RecordVipOperation
  <1>11. ASSUME NEW n \in Node, EndIteration(n)
         PROVE  HeartbeatFailureFailsClosed'
    BY <1>11, HeartbeatKept DEF TypeOK, EndIteration, GoTo, Deciding
  <1> QED
    BY <1>1, <1>2, <1>3, <1>4, <1>5, <1>6, <1>7, <1>8, <1>9, <1>10, <1>11
       DEF Next, MainThread, Environment, CompleteReceive, InterruptReceive, ReceiveResults

(* No daemon that may mutate the network gets past a failed heartbeat      *)
(* cycle.                                                                  *)
THEOREM HeartbeatFailsClosed == Spec => []HeartbeatFailureFailsClosed
  <1>1. Init => HeartbeatFailureFailsClosed
    BY DEF Init, HeartbeatFailureFailsClosed, Deciding
  <1> QED
    BY <1>1, TypeCorrect, HeartbeatStep, PTL DEF Spec

-----------------------------------------------------------------------------
(* Dry runs                                                                *)

(* A daemon that may not mutate the network leaves the interface alone in  *)
(* every step: what changes it then is the operator or a loss of power.    *)
LEMMA DryRunStep ==
  ASSUME TypeOK, [Next]_vars,
         NEW m \in Node, pc[m] # "down", vip'[m] # vip[m]
  PROVE  realNetworkMutationRequested \/ Faults \cap {"power", "release"} # {}
  <1>1. ASSUME NEW n \in Node, AddVip(n) \/ RemoveVip(n), managerDryRun
        PROVE  UNCHANGED vip
    <2>1. CASE AddVip(n)
      <3>1. PICK result \in VipCommandResults(n, "add") :
              vip' = [vip EXCEPT ![n] = @ \/ result.applied]
        BY <2>1 DEF AddVip
      <3> QED
        BY <1>1, <3>1, SuccessIsReal DEF TypeOK
    <2>2. CASE RemoveVip(n)
      <3>1. PICK result \in VipCommandResults(n, "remove") :
              vip' = [vip EXCEPT ![n] = @ /\ ~result.applied]
        BY <2>2 DEF RemoveVip
      <3> QED
        BY <1>1, <3>1, SuccessIsReal DEF TypeOK
    <2> QED
      BY <1>1, <2>1, <2>2
  <1>2. ASSUME NEW n \in Node, ReleaseVip(n)
        PROVE  "release" \in Faults
    BY <1>2 DEF ReleaseVip
  <1>3. ASSUME NEW n \in Node, PowerLoss(n)
        PROVE  "power" \in Faults
    BY <1>3 DEF PowerLoss
  <1>4. PICK n \in Node : AddVip(n) \/ RemoveVip(n) \/ ReleaseVip(n) \/ PowerLoss(n)
    BY DEF Next, MainThread, Environment, vars, hostVars, signalVars, ServiceStart, OperatorStart,
           Launch, StopLoop, Kill, Signal, ApiFailure, BeginIteration, CompleteReceive,
           InterruptReceive, ReceiveOutcome, ExchangeBeacons, LifecycleIdle, ProbeAndDecide,
           AnnounceVip, EndIteration
  <1> QED
    BY <1>1, <1>2, <1>3, <1>4, FlagAssumption DEF managerDryRun, realNetworkMutationRequested

(* Without the operator's permission, or in a dry run, no running daemon   *)
(* changes the interface.                                                  *)
THEOREM DryRunIsDry == Spec => DryRunKeepsInterface
  <1>1. TypeOK /\ [Next]_vars =>
          [\A n \in Node : pc[n] # "down" /\ vip'[n] # vip[n] =>
             realNetworkMutationRequested \/ Faults \cap {"power", "release"} # {}]_vars
    BY DryRunStep
  <1> QED
    BY <1>1, TypeCorrect, PTL DEF Spec, DryRunKeepsInterface

-----------------------------------------------------------------------------
(* The freshness of the view                                               *)

HeartbeatViewFresh(n) ==
  pc[n] \in Deciding \cup {"discovery"} =>
    \A p \in DOMAIN recent[n] : recent[n][p].age < HeartbeatTimeout

DiscoveryViewFresh(n) ==
  pc[n] \in Deciding =>
    \A p \in DOMAIN discovered[n] : discovered[n][p].age <= DiscoveryTimeout

(* Without discovery its table is empty and its step is never reached.     *)
DiscoveryOff(n) ==
  ~DiscoveryEnabled => pc[n] # "discovery" /\ DOMAIN discovered[n] = {}

ViewInv ==
  \A n \in Node : HeartbeatViewFresh(n) /\ DiscoveryViewFresh(n) /\ DiscoveryOff(n)

(* It is enough to look at the node that takes the step.                   *)
LEMMA ViewKept ==
  ASSUME TypeOK, ViewInv, NEW n \in Node,
         \A m \in Node \ {n} : /\ pc'[m] = pc[m]
                               /\ recent'[m] = recent[m] /\ discovered'[m] = discovered[m],
         HeartbeatViewFresh(n)', DiscoveryViewFresh(n)', DiscoveryOff(n)'
  PROVE  ViewInv'
  BY DEF ViewInv, HeartbeatViewFresh, DiscoveryViewFresh, DiscoveryOff

(* A process that ends forgets its view.                                   *)
LEMMA ViewAfterExit ==
  ASSUME TypeOK, ViewInv, NEW n \in Node, NEW status, Exit(n, status)
  PROVE  ViewInv'
  <1>1. pc'[n] = "down" /\ \A m \in Node \ {n} : pc'[m] = pc[m]
    BY ExitMoves DEF TypeOK
  <1>2. DOMAIN discovered'[n] = {}
    BY ExitMoves DEF EmptyTable
  <1> QED
    BY <1>1, <1>2, ExitMoves, ViewKept
       DEF Deciding, HeartbeatViewFresh, DiscoveryViewFresh, DiscoveryOff

(* Within an iteration the view, once there, stays.                        *)
LEMMA ViewCarried ==
  ASSUME TypeOK, ViewInv, NEW n \in Node, UNCHANGED <<recent, discovered>>,
         \A m \in Node \ {n} : pc'[m] = pc[m],
         pc'[n] # "discovery", pc'[n] \in Deciding => pc[n] \in Deciding
  PROVE  ViewInv'
  <1>1. HeartbeatViewFresh(n)' /\ DiscoveryViewFresh(n)' /\ DiscoveryOff(n)'
    BY DEF ViewInv, HeartbeatViewFresh, DiscoveryViewFresh, DiscoveryOff, Deciding
  <1> QED
    BY <1>1, ViewKept

(* What expiry and pruning leave in a table is fresh.                      *)
LEMMA ExpiredIsFresh ==
  ASSUME NEW t
  PROVE  /\ \A p \in DOMAIN expirePeers(t) : expirePeers(t)[p].age < HeartbeatTimeout
         /\ \A p \in DOMAIN prune(t) : prune(t)[p].age <= DiscoveryTimeout
  BY DEF expirePeers, prune, Restrict

(* Every step keeps the view fresh from its expiry to the decision.        *)
LEMMA ViewStep ==
  ASSUME TypeOK, ViewInv, [Next]_vars
  PROVE  ViewInv'
  <1>1. CASE UNCHANGED vars
    BY <1>1 DEF ViewInv, HeartbeatViewFresh, DiscoveryViewFresh, DiscoveryOff, vars, loopVars
  <1>2. ASSUME NEW n \in Node, ServiceStart(n) \/ OperatorStart(n)
        PROVE  ViewInv'
    BY <1>2, ViewCarried
       DEF TypeOK, ServiceStart, OperatorStart, Launch, GoTo, loopVars, Deciding
  <1>3. ASSUME NEW n \in Node, StopLoop(n) \/ Kill(n) \/ PowerLoss(n)
        PROVE  ViewInv'
    BY <1>3, ViewAfterExit DEF StopLoop, Kill, PowerLoss
  <1>4. ASSUME NEW n \in Node, Signal(n) \/ ApiFailure(n) \/ ReleaseVip(n)
        PROVE  ViewInv'
    BY <1>4 DEF ViewInv, HeartbeatViewFresh, DiscoveryViewFresh, DiscoveryOff,
                Signal, ApiFailure, ReleaseVip, loopVars
  <1>5. ASSUME NEW n \in Node, NEW sent \in BOOLEAN, BeginIteration(n, sent)
        PROVE  ViewInv'
    <2>1. HeartbeatViewFresh(n)'
      BY <1>5, ExpiredIsFresh DEF TypeOK, BeginIteration, HeartbeatViewFresh
    <2>2. DiscoveryOff(n)' /\ DiscoveryViewFresh(n)'
      BY <1>5 DEF TypeOK, ViewInv, BeginIteration, GoTo, DiscoveryOff, DiscoveryViewFresh, Deciding
    <2> QED
      BY <1>5, <2>1, <2>2, ViewKept DEF TypeOK, BeginIteration, GoTo
  <1>6. ASSUME NEW n \in Node, NEW result, ReceiveOutcome(n, result)
        PROVE  ViewInv'
    <2>1. CASE heartbeatFaults(n, result)
      BY <1>6, <2>1, ViewAfterExit DEF ReceiveOutcome
    <2>2. CASE ~heartbeatFaults(n, result)
      <3>1. HeartbeatViewFresh(n)'
        BY <1>6, <2>2, ExpiredIsFresh DEF TypeOK, ReceiveOutcome, HeartbeatViewFresh
      <3>2. DiscoveryOff(n)' /\ DiscoveryViewFresh(n)'
        BY <1>6, <2>2
           DEF TypeOK, ViewInv, ReceiveOutcome, GoTo, DiscoveryOff, DiscoveryViewFresh, Deciding
      <3> QED
        BY <1>6, <2>2, <3>1, <3>2, ViewKept DEF TypeOK, ReceiveOutcome, GoTo
    <2> QED
      BY <2>1, <2>2
  <1>7. ASSUME NEW n \in Node, NEW beacons, ExchangeBeacons(n, beacons)
        PROVE  ViewInv'
    <2>1. DiscoveryViewFresh(n)'
      BY <1>7, ExpiredIsFresh DEF TypeOK, ExchangeBeacons, DiscoveryViewFresh
    <2>2. DiscoveryOff(n)' /\ HeartbeatViewFresh(n)'
      BY <1>7
         DEF TypeOK, ViewInv, ExchangeBeacons, GoTo, DiscoveryOff, HeartbeatViewFresh, Deciding
    <2> QED
      BY <1>7, <2>1, <2>2, ViewKept DEF TypeOK, ExchangeBeacons, GoTo
  <1>8. ASSUME NEW n \in Node, LifecycleIdle(n)
        PROVE  ViewInv'
    BY <1>8, ViewCarried DEF TypeOK, LifecycleIdle, GoTo, Deciding
  <1>9. ASSUME NEW n \in Node, NEW probed \in BOOLEAN, ProbeAndDecide(n, probed)
        PROVE  ViewInv'
    <2>1. CASE ~probed /\ ~DryRun
      BY <1>9, <2>1, ViewAfterExit DEF ProbeAndDecide
    <2>2. CASE ~(~probed /\ ~DryRun)
      <3> DEFINE owner == probed /\ vip[n]
      <3>1. operationFor(decisionOf(n, owner), owner) # "discovery"
        BY DEF operationFor
      <3>2. /\ pc[n] = "lifecycle" /\ UNCHANGED <<recent, discovered>>
            /\ pc' = [pc EXCEPT ![n] = operationFor(decisionOf(n, owner), owner)]
        BY <1>9, <2>2 DEF ProbeAndDecide, GoTo
      <3>3. pc'[n] # "discovery" /\ \A m \in Node \ {n} : pc'[m] = pc[m]
        <4> HIDE DEF owner
        <4> QED
          BY <3>1, <3>2 DEF TypeOK
      <3>4. pc[n] \in Deciding
        BY <3>2 DEF Deciding
      <3> QED
        BY <3>2, <3>3, <3>4, ViewCarried
    <2> QED
      BY <2>1, <2>2
  <1>10. ASSUME NEW n \in Node, AddVip(n) \/ AnnounceVip(n) \/ RemoveVip(n)
         PROVE  ViewInv'
    <2>1. PICK success, next : next \in {"announce", "publish"} /\ RecordVipOperation(n, success, next)
      BY <1>10 DEF AddVip, AnnounceVip, RemoveVip
    <2>2. pc[n] \in Deciding
      BY <1>10 DEF AddVip, AnnounceVip, RemoveVip, Deciding
    <2>3. CASE Exit(n, "failure")
      BY <2>3, ViewAfterExit
    <2>4. CASE GoTo(n, next) /\ UNCHANGED <<exit, loopVars>>
      <3>1. pc'[n] # "discovery" /\ \A m \in Node \ {n} : pc'[m] = pc[m]
        BY <2>1, <2>4 DEF TypeOK, GoTo
      <3> QED
        BY <2>2, <2>4, <3>1, ViewCarried DEF loopVars
    <2> QED
      BY <2>1, <2>3, <2>4 DEF RecordVipOperation
  <1>11. ASSUME NEW n \in Node, EndIteration(n)
         PROVE  ViewInv'
    <2>1. pc'[n] = "asleep" /\ \A m \in Node \ {n} : pc'[m] = pc[m]
      BY <1>11 DEF TypeOK, EndIteration, GoTo
    <2>2. DiscoveryOff(n)'
      BY <1>11, <2>1 DEF TypeOK, ViewInv, EndIteration, DiscoveryOff, Older
    <2> QED
      BY <1>11, <2>1, <2>2, ViewKept
         DEF TypeOK, EndIteration, HeartbeatViewFresh, DiscoveryViewFresh, Deciding
  <1> QED
    BY <1>1, <1>2, <1>3, <1>4, <1>5, <1>6, <1>7, <1>8, <1>9, <1>10, <1>11
       DEF Next, MainThread, Environment, CompleteReceive, InterruptReceive

(* The view is fresh from its expiry to the end of the iteration.          *)
LEMMA ViewInvariant == Spec => []ViewInv
  <1>1. Init => ViewInv
    BY DEF Init, ViewInv, HeartbeatViewFresh, DiscoveryViewFresh, DiscoveryOff, Deciding, EmptyTable
  <1> QED
    BY <1>1, TypeCorrect, ViewStep, PTL DEF Spec

(* No decision counts a peer that has been silent for the timeout, in the  *)
(* daemon's own time.                                                      *)
THEOREM ViewStaysFresh == Spec => []ViewIsFresh
  <1>1. ViewInv => ViewIsFresh
    BY DEF ViewInv, HeartbeatViewFresh, DiscoveryViewFresh, ViewIsFresh
  <1> QED
    BY <1>1, ViewInvariant, PTL

-----------------------------------------------------------------------------
(* Claims and quorum                                                       *)

(* The conditions under which a node counts every member once: no second   *)
(* way to hear of a peer, and no node among its own peers.                 *)
MembersCountOnce ==
  \A n \in Node : /\ n \notin Peers[n]
                  /\ DiscoveryEnabled => Peers[n] \cap Segment = {}

Heard(n) == DOMAIN recent[n] \cup DOMAIN discovered[n]

HeardQuorum(n) ==
  Cardinality(Heard(n) \cup {n}) >= quorumThreshold(electionPolicy(n))

(* Where heartbeats and where beacons come from.                           *)
SourcesOK(n) ==
  /\ DOMAIN recent[n] \subseteq Peers[n]
  /\ DOMAIN discovered[n] \subseteq Segment \ {n}

QuorumInv ==
  \A n \in Node : /\ SourcesOK(n)
                  /\ pc[n] = "add" /\ RequireQuorum => HeardQuorum(n)

(* Then nobody is in both tables, and the node itself in neither.          *)
LEMMA CountedOnce ==
  ASSUME MembersCountOnce, ViewInv, QuorumInv, NEW n \in Node
  PROVE  n \notin Heard(n) /\ DOMAIN recent[n] \cap DOMAIN discovered[n] = {}
  <1>1. SourcesOK(n) /\ DiscoveryOff(n)
    BY DEF QuorumInv, ViewInv
  <1>2. CASE DiscoveryEnabled
    BY <1>1, <1>2 DEF SourcesOK, MembersCountOnce, Heard
  <1>3. CASE ~DiscoveryEnabled
    BY <1>1, <1>3 DEF SourcesOK, DiscoveryOff, MembersCountOnce, Heard
  <1> QED
    BY <1>2, <1>3

(* Every decision to be master passed the quorum gate.                     *)
LEMMA MasterNeedsQuorum ==
  ASSUME NEW local, NEW peers, NEW policy, local.healthy = TRUE,
         wantsMaster(decideFailoverAction(local, peers, policy))
  PROVE  hasQuorum(peers, policy)
  <1>1. SUFFICES ASSUME ~hasQuorum(peers, policy) PROVE FALSE
    OBVIOUS
  <1>2. decideFailoverAction(local, peers, policy) \in {"BecomeBackup", "StayBackup"}
    BY <1>1 DEF decideFailoverAction
  <1> QED
    BY <1>2 DEF wantsMaster

(* The quorum a policy asks for is an integer.                             *)
LEMMA ThresholdIsInt ==
  ASSUME NEW n \in Node
  PROVE  quorumThreshold(electionPolicy(n)) \in Int
  <1>1. Cardinality(Peers[n]) \in Nat
    BY NodeAssumption, FS_Subset, FS_CardinalityType
  <1> QED
    BY <1>1, TimeAssumption DEF quorumThreshold, electionPolicy

(* When every member counts once, the gate's count is the number of        *)
(* distinct nodes heard, this one included.                                *)
LEMMA GateCountsNodes ==
  ASSUME TypeOK, NEW n \in Node, n \notin Heard(n),
         DOMAIN recent[n] \cap DOMAIN discovered[n] = {},
         RequireQuorum, hasQuorum(peerStatuses(n), electionPolicy(n))
  PROVE  HeardQuorum(n)
  <1> DEFINE R == Heard(n)
             S == {i \in DOMAIN peerStatuses(n) : peerStatuses(n)[i].heartbeat_seen}
             f == [k \in S |-> k[2]]
  <1>1. IsFiniteSet(R)
    <2>1. R \subseteq Id
      BY DEF TypeOK, IsTable, Heard
    <2> QED
      BY <2>1, NodeAssumption, FS_Subset
  <1>2. S \subseteq ({"heartbeat"} \X DOMAIN recent[n]) \cup ({"discovery"} \X DOMAIN discovered[n])
    BY DEF peerStatuses
  <1>3. f \in Injection(S, R)
    <2>1. f \in [S -> R]
      BY <1>2 DEF Heard
    <2>2. ASSUME NEW j \in S, NEW k \in S, f[j] = f[k]
          PROVE  j = k
      <3>1. j[2] = k[2]
        BY <2>2
      <3> QED
        BY <1>2, <3>1
    <2> QED
      BY <2>1, <2>2 DEF Injection, IsInjective
  <1>4. IsFiniteSet(S) /\ Cardinality(S) <= Cardinality(R)
    BY <1>1, <1>3, FS_Injection
  <1>5. Cardinality(R \cup {n}) = Cardinality(R) + 1
    BY <1>1, FS_AddElement
  <1>6. 1 + Cardinality(S) >= quorumThreshold(electionPolicy(n))
    BY DEF hasQuorum, observedClusterMembers, electionPolicy
  <1>7. Cardinality(R) \in Nat /\ Cardinality(S) \in Nat
    BY <1>1, <1>4, FS_CardinalityType
  <1> HIDE DEF R, S
  <1>8. Cardinality(R \cup {n}) >= quorumThreshold(electionPolicy(n))
    BY <1>4, <1>5, <1>6, <1>7, ThresholdIsInt
  <1> QED
    BY <1>8 DEF R, HeardQuorum

(* Steps that do not lead to an add.                                       *)
LEMMA QuorumKept ==
  ASSUME TypeOK, QuorumInv, NEW n \in Node,
         \A m \in Node \ {n} : /\ pc'[m] = pc[m]
                               /\ recent'[m] = recent[m] /\ discovered'[m] = discovered[m],
         SourcesOK(n)', pc'[n] # "add"
  PROVE  QuorumInv'
  <1>1. ASSUME NEW m \in Node \ {n}, pc'[m] = "add", RequireQuorum PROVE HeardQuorum(m)'
    <2>1. HeardQuorum(m)
      BY <1>1 DEF QuorumInv
    <2> QED
      BY <1>1, <2>1 DEF HeardQuorum, Heard
  <1> QED
    BY <1>1 DEF QuorumInv, SourcesOK

(* A process that ends is not about to add the VIP.                        *)
LEMMA QuorumAfterExit ==
  ASSUME TypeOK, QuorumInv, NEW n \in Node, NEW status, Exit(n, status)
  PROVE  QuorumInv'
  <1>1. pc'[n] # "add" /\ \A m \in Node \ {n} : pc'[m] = pc[m]
    BY ExitMoves DEF TypeOK
  <1>2. DOMAIN recent'[n] = {} /\ DOMAIN discovered'[n] = {}
    BY ExitMoves DEF EmptyTable
  <1> QED
    BY <1>1, <1>2, ExitMoves, QuorumKept DEF SourcesOK

(* Every step keeps the quorum behind a pending add.                       *)
LEMMA QuorumStep ==
  ASSUME MembersCountOnce, TypeOK, ViewInv, QuorumInv, [Next]_vars
  PROVE  QuorumInv'
  <1>1. CASE UNCHANGED <<pc, recent, discovered>>
    <2>1. \A n \in Node : HeardQuorum(n)' = HeardQuorum(n) /\ SourcesOK(n)' = SourcesOK(n)
      BY <1>1 DEF HeardQuorum, Heard, SourcesOK
    <2> QED
      BY <1>1, <2>1 DEF QuorumInv
  <1>2. ASSUME NEW n \in Node, ServiceStart(n) \/ OperatorStart(n)
        PROVE  QuorumInv'
    BY <1>2, QuorumKept
       DEF TypeOK, QuorumInv, SourcesOK, ServiceStart, OperatorStart, Launch, GoTo, loopVars
  <1>3. ASSUME NEW n \in Node, StopLoop(n) \/ Kill(n) \/ PowerLoss(n)
        PROVE  QuorumInv'
    BY <1>3, QuorumAfterExit DEF StopLoop, Kill, PowerLoss
  <1>4. ASSUME NEW n \in Node, NEW sent \in BOOLEAN, BeginIteration(n, sent)
        PROVE  QuorumInv'
    <2>1. SourcesOK(n)'
      BY <1>4 DEF TypeOK, QuorumInv, SourcesOK, BeginIteration, expirePeers, Restrict
    <2> QED
      BY <1>4, <2>1, QuorumKept DEF TypeOK, BeginIteration, GoTo
  <1>5. ASSUME NEW n \in Node, NEW result, ReceiveOutcome(n, result)
        PROVE  QuorumInv'
    <2>1. CASE heartbeatFaults(n, result)
      BY <1>5, <2>1, QuorumAfterExit DEF ReceiveOutcome
    <2>2. CASE ~heartbeatFaults(n, result)
      <3>1. SourcesOK(n)'
        BY <1>5, <2>2
           DEF TypeOK, QuorumInv, SourcesOK, ReceiveOutcome, expirePeers, Restrict, observe, peerIsConfigured
      <3> QED
        BY <1>5, <2>2, <3>1, QuorumKept DEF TypeOK, ReceiveOutcome, GoTo
    <2> QED
      BY <2>1, <2>2
  <1>6. ASSUME NEW n \in Node, NEW beacons \in OwnBeacons(n), ExchangeBeacons(n, beacons)
        PROVE  QuorumInv'
    <2>1. DOMAIN beacons \subseteq Segment \ {n}
      BY <1>6 DEF OwnBeacons, BeaconSets
    <2>2. DOMAIN discovered'[n] \subseteq DOMAIN discovered[n] \cup (DOMAIN beacons \ {n})
      BY <1>6 DEF TypeOK, ExchangeBeacons, prune, Restrict
    <2>3. SourcesOK(n)'
      BY <1>6, <2>1, <2>2 DEF QuorumInv, SourcesOK, ExchangeBeacons
    <2> QED
      BY <1>6, <2>3, QuorumKept DEF TypeOK, ExchangeBeacons, GoTo
  <1>7. ASSUME NEW n \in Node, LifecycleIdle(n)
        PROVE  QuorumInv'
    BY <1>7, QuorumKept DEF TypeOK, QuorumInv, SourcesOK, LifecycleIdle, GoTo
  <1>8. ASSUME NEW n \in Node, NEW probed \in BOOLEAN, ProbeAndDecide(n, probed)
        PROVE  QuorumInv'
    <2>1. CASE ~probed /\ ~DryRun
      BY <1>8, <2>1, QuorumAfterExit DEF ProbeAndDecide
    <2>2. CASE ~(~probed /\ ~DryRun)
      <3> DEFINE owner == probed /\ vip[n]
                 next  == operationFor(decisionOf(n, owner), owner)
      <3>1. pc' = [pc EXCEPT ![n] = next] /\ UNCHANGED <<recent, discovered>>
        BY <1>8, <2>2 DEF ProbeAndDecide, GoTo
      <3>2. CASE next # "add"
        <4>1. pc'[n] # "add" /\ \A m \in Node \ {n} : pc'[m] = pc[m]
          <5> HIDE DEF next
          <5> QED
            BY <3>1, <3>2 DEF TypeOK
        <4> QED
          BY <3>1, <4>1, QuorumKept DEF QuorumInv, SourcesOK
      <3>3. CASE next = "add"
        <4>1. wantsMaster(decisionOf(n, owner))
          BY <3>3 DEF operationFor
        <4>2. hasQuorum(peerStatuses(n), electionPolicy(n))
          <5>1. localStatusFromOwnership(n, owner).healthy = TRUE
            BY DEF localStatusFromOwnership
          <5> QED
            BY <4>1, <5>1, MasterNeedsQuorum DEF decisionOf
        <4>3. RequireQuorum => HeardQuorum(n)
          BY <4>2, CountedOnce, GateCountsNodes
        <4>4. \A m \in Node : pc'[m] = "add" /\ RequireQuorum => HeardQuorum(m)
          <5> HIDE DEF next
          <5> QED
            BY <3>1, <4>3 DEF TypeOK, QuorumInv
        <4>5. \A m \in Node : HeardQuorum(m)' = HeardQuorum(m) /\ SourcesOK(m)' = SourcesOK(m)
          BY <3>1 DEF HeardQuorum, Heard, SourcesOK
        <4> QED
          BY <3>1, <4>4, <4>5 DEF QuorumInv
      <3> QED
        BY <3>2, <3>3
    <2> QED
      BY <2>1, <2>2
  <1>9. ASSUME NEW n \in Node, AddVip(n) \/ AnnounceVip(n) \/ RemoveVip(n)
        PROVE  QuorumInv'
    <2>1. PICK success, next : next \in {"announce", "publish"} /\ RecordVipOperation(n, success, next)
      BY <1>9 DEF AddVip, AnnounceVip, RemoveVip
    <2>2. CASE Exit(n, "failure")
      BY <2>2, QuorumAfterExit
    <2>3. CASE GoTo(n, next) /\ UNCHANGED <<exit, loopVars>>
      <3>1. pc'[n] # "add" /\ \A m \in Node \ {n} : pc'[m] = pc[m]
        BY <2>1, <2>3 DEF TypeOK, GoTo
      <3> QED
        BY <2>3, <3>1, QuorumKept DEF QuorumInv, SourcesOK, loopVars
    <2> QED
      BY <2>1, <2>2, <2>3 DEF RecordVipOperation
  <1>10. ASSUME NEW n \in Node, EndIteration(n)
         PROVE  QuorumInv'
    <2>1. SourcesOK(n)'
      BY <1>10 DEF TypeOK, QuorumInv, SourcesOK, EndIteration, Older
    <2> QED
      BY <1>10, <2>1, QuorumKept DEF TypeOK, EndIteration, GoTo
  <1> QED
    BY <1>1, <1>2, <1>3, <1>4, <1>5, <1>6, <1>7, <1>8, <1>9, <1>10
       DEF Next, MainThread, Environment, CompleteReceive, InterruptReceive, Signal, ApiFailure,
           ReleaseVip, vars, loopVars

(* What a node hears a quorum of, it sees a quorum of.                     *)
LEMMA HeardIsSeen ==
  ASSUME NEW n \in Node, HeardQuorum(n)
  PROVE  SeesQuorum(n)
  <1>1. DistinctMembers(n) = Heard(n) \cup {n}
    <2>1. DOMAIN peerStatuses(n) =
            ({"heartbeat"} \X DOMAIN recent[n]) \cup ({"discovery"} \X DOMAIN discovered[n])
      BY DEF peerStatuses
    <2>2. /\ \A p \in DOMAIN recent[n] :
               <<"heartbeat", p>> \in DOMAIN peerStatuses(n) /\ <<"heartbeat", p>>[2] = p
          /\ \A p \in DOMAIN discovered[n] :
               <<"discovery", p>> \in DOMAIN peerStatuses(n) /\ <<"discovery", p>>[2] = p
      BY <2>1
    <2>3. {k[2] : k \in DOMAIN peerStatuses(n)} \subseteq Heard(n)
      BY <2>1 DEF Heard
    <2>4. Heard(n) \subseteq {k[2] : k \in DOMAIN peerStatuses(n)}
      BY <2>2 DEF Heard
    <2> QED
      BY <2>3, <2>4 DEF DistinctMembers
  <1> QED
    BY <1>1 DEF SeesQuorum, HeardQuorum

(* A VIP comes up on an interface only by an add.                          *)
LEMMA OnlyAddBringsVipUp ==
  ASSUME TypeOK, [Next]_vars, NEW m \in Node, ~vip[m], vip'[m]
  PROVE  pc[m] = "add"
  <1>1. ASSUME NEW n \in Node, NEW applied, vip' = [vip EXCEPT ![n] = @ /\ ~applied]
        PROVE  FALSE
    BY <1>1 DEF TypeOK
  <1>2. ASSUME NEW n \in Node, PowerLoss(n)
        PROVE  FALSE
    BY <1>2 DEF TypeOK, PowerLoss
  <1>3. ASSUME NEW n \in Node, AddVip(n)
        PROVE  pc[m] = "add"
    BY <1>3 DEF TypeOK, AddVip
  <1>4. UNCHANGED vip \/ \E n \in Node : AddVip(n) \/ RemoveVip(n) \/ ReleaseVip(n) \/ PowerLoss(n)
    BY DEF Next, MainThread, Environment, vars, hostVars, signalVars, ServiceStart, OperatorStart,
           Launch, StopLoop, Kill, Signal, ApiFailure, BeginIteration, CompleteReceive,
           InterruptReceive, ReceiveOutcome, ExchangeBeacons, LifecycleIdle, ProbeAndDecide,
           AnnounceVip, EndIteration
  <1> QED
    BY <1>1, <1>2, <1>3, <1>4 DEF RemoveVip, ReleaseVip

(* With quorum required, whoever puts the VIP on its interface hears a     *)
(* quorum of distinct nodes, as long as every member can be counted once.  *)
THEOREM ClaimsNeedQuorum ==
  ASSUME MembersCountOnce
  PROVE  Spec => ClaimsSeeQuorum
  <1>1. Init => QuorumInv
    BY DEF Init, QuorumInv, SourcesOK, EmptyTable
  <1>2. TypeOK /\ ViewInv /\ QuorumInv /\ [Next]_vars => QuorumInv'
    BY QuorumStep
  <1>3. TypeOK /\ ViewInv /\ QuorumInv /\ [Next]_vars =>
          [\A n \in Node : RequireQuorum /\ ~vip[n] /\ vip'[n] => SeesQuorum(n)]_vars
    BY OnlyAddBringsVipUp, HeardIsSeen DEF QuorumInv
  <1> QED
    BY <1>1, <1>2, <1>3, TypeCorrect, ViewInvariant, PTL DEF Spec, ClaimsSeeQuorum
-----------------------------------------------------------------------------
(* The election                                                            *)

(* What peers of a decision say of themselves: who they are, and nobody    *)
(* under the local node's name with another priority.                      *)
Comparable(local, peers) ==
  /\ local.node_id \in Nat /\ local.priority \in Nat
  /\ \A i \in DOMAIN peers :
       /\ peers[i].node_id \in Nat /\ peers[i].priority \in Nat
       /\ peers[i].node_id = local.node_id => peers[i].priority = local.priority

(* The ways to become or stay master.                                      *)
LEMMA MasterIsElectedOrKeeps ==
  ASSUME NEW local, NEW peers, NEW policy, local.healthy = TRUE,
         wantsMaster(decideFailoverAction(local, peers, policy))
  PROVE  LET winner == chooseHighestPriorityHealthyNode(electionCandidates(local, peers))
             elected == \E c \in winner : c.node_id = local.node_id
         IN \/ elected /\ (local.state = "master" \/ policy.preempt \/ healthyPeerMaster(peers) = {})
            \/ /\ ~elected /\ local.state = "master" /\ ~policy.preempt
               /\ ~\E c \in winner : peerIsHealthyMaster(peers, c.node_id)
  BY DEF decideFailoverAction, wantsMaster

(* A peer that outranks the local node keeps it from being elected.        *)
LEMMA ElectedOutranks ==
  ASSUME NEW local, NEW peers, Comparable(local, peers),
         NEW c \in chooseHighestPriorityHealthyNode(electionCandidates(local, peers)),
         c.node_id = local.node_id,
         NEW i \in DOMAIN peers, isCandidate(peers[i]), peers[i].node_id # local.node_id
  PROVE  Outranks(local, peers[i])
  <1> DEFINE d == [node_id |-> peers[i].node_id, priority |-> peers[i].priority, healthy |-> TRUE]
  <1>1. d \in electionCandidates(local, peers)
    BY DEF electionCandidates
  <1>2. ~Outranks(d, c)
    BY <1>1 DEF chooseHighestPriorityHealthyNode
  <1>3. c.priority = local.priority
    BY DEF chooseHighestPriorityHealthyNode, electionCandidates, Comparable
  <1> QED
    BY <1>2, <1>3 DEF Outranks, Comparable

(* A decision to claim.                                                    *)
LEMMA ClaimIsElected ==
  ASSUME NEW local, NEW peers, NEW policy, local.healthy = TRUE, local.state # "master",
         Comparable(local, peers), wantsMaster(decideFailoverAction(local, peers, policy)),
         NEW i \in DOMAIN peers, isCandidate(peers[i]), peers[i].node_id # local.node_id
  PROVE  Outranks(local, peers[i]) /\ (policy.preempt \/ peers[i].state # "master")
  <1>1. /\ \E c \in chooseHighestPriorityHealthyNode(electionCandidates(local, peers)) :
             c.node_id = local.node_id
        /\ policy.preempt \/ healthyPeerMaster(peers) = {}
    BY MasterIsElectedOrKeeps
  <1>2. peers[i].state = "master" => peers[i].node_id \in healthyPeerMaster(peers)
    BY DEF healthyPeerMaster
  <1> QED
    BY <1>1, <1>2, ElectedOutranks

(* A decision to claim or to keep: whoever outranks the local node does    *)
(* not preempt it, and is not a master that wins.                          *)
LEMMA KeeperHasNoSuperior ==
  ASSUME NEW local, NEW peers, NEW policy, local.healthy = TRUE,
         Comparable(local, peers), wantsMaster(decideFailoverAction(local, peers, policy)),
         NEW i \in DOMAIN peers, isCandidate(peers[i]), peers[i].node_id # local.node_id,
         Outranks(peers[i], local)
  PROVE  /\ ~policy.preempt
         /\ peers[i].state = "master" =>
              \E j \in DOMAIN peers : /\ isCandidate(peers[j]) /\ peers[j].node_id # local.node_id
                                      /\ Outranks(peers[j], peers[i])
  <1> DEFINE winner == chooseHighestPriorityHealthyNode(electionCandidates(local, peers))
             c == [node_id |-> peers[i].node_id, priority |-> peers[i].priority, healthy |-> TRUE]
  <1>1. ~Outranks(local, peers[i])
    BY DEF Outranks, Comparable
  <1>2. ~\E e \in winner : e.node_id = local.node_id
    BY <1>1, ElectedOutranks
  <1>3. ~policy.preempt /\ ~\E e \in winner : peerIsHealthyMaster(peers, e.node_id)
    BY <1>2, MasterIsElectedOrKeeps
  <1>4. ASSUME peers[i].state = "master",
               \A j \in DOMAIN peers : isCandidate(peers[j]) /\ peers[j].node_id # local.node_id
                                         => ~Outranks(peers[j], peers[i])
        PROVE  FALSE
    <2>1. peerIsHealthyMaster(peers, c.node_id)
      BY <1>4 DEF peerIsHealthyMaster, healthyPeerMaster
    <2>2. ASSUME NEW d \in electionCandidates(local, peers) PROVE ~Outranks(d, c)
      <3>1. CASE d = [node_id |-> local.node_id, priority |-> local.priority, healthy |-> TRUE]
        BY <1>1, <3>1 DEF Outranks
      <3>2. CASE d # [node_id |-> local.node_id, priority |-> local.priority, healthy |-> TRUE]
        <4>1. PICK j \in DOMAIN peers :
                isCandidate(peers[j]) /\ d = [node_id |-> peers[j].node_id,
                                              priority |-> peers[j].priority, healthy |-> TRUE]
          BY <3>2 DEF electionCandidates
        <4>2. peers[j].node_id # local.node_id
          BY <3>2, <4>1 DEF Comparable
        <4> QED
          BY <1>4, <4>1, <4>2 DEF Outranks
      <3> QED
        BY <3>1, <3>2
    <2>3. c \in electionCandidates(local, peers) /\ c.healthy
      BY DEF electionCandidates
    <2>4. c \in winner
      BY <2>2, <2>3 DEF chooseHighestPriorityHealthyNode
    <2> QED
      BY <1>3, <2>1, <2>4
  <1> QED
    BY <1>3, <1>4

-----------------------------------------------------------------------------
(* From one place to the next                                              *)

(* How a step leaves a node that carries out a decision or has done so.    *)
SameView(n) == recent'[n] = recent[n] /\ discovered'[n] = discovered[n]

Decides(n) ==
  \E owner \in BOOLEAN :
    /\ owner = vip[n] \/ DryRun
    /\ pc'[n] = operationFor(decisionOf(n, owner), owner)

HoldsAfter(n) ==
  pc'[n] \in {"add", "announce", "publish"} =>
    /\ SameView(n)
    /\ \/ pc'[n] = pc[n] /\ (vip'[n] => vip[n])
       \/ Decides(n) /\ vip'[n] = vip[n]
       \/ pc'[n] = "publish" /\ ~VipConfigured
       \/ pc[n] = "add" /\ pc'[n] = "announce"
       \/ pc[n] = "announce" /\ pc'[n] = "publish" /\ vip'[n] = vip[n]
       \/ pc'[n] = "publish" /\ (realNetworkMutationRequested => ~vip'[n])

(* A step that leaves a node about to act, or done, is one of these.       *)
LEMMA WaysToHold ==
  ASSUME TypeOK, [Next]_vars, NEW n \in Node
  PROVE  HoldsAfter(n)
  <1> USE DEF HoldsAfter
  <1>1. ASSUME NEW m \in Node, pc'[m] = "down"
        PROVE  HoldsAfter(m)
    BY <1>1
  <1>2. ASSUME NEW m \in Node, NEW status, Exit(m, status)
        PROVE  pc'[m] = "down"
    BY <1>2 DEF TypeOK, Exit, GoTo
  <1>3. ASSUME NEW m \in Node, MainThread(m) \/ Environment(m) \/ ServiceStart(m)
        PROVE  HoldsAfter(m)
    <2>1. CASE StopLoop(m) \/ Kill(m) \/ PowerLoss(m)
      BY <1>1, <1>2, <2>1 DEF StopLoop, Kill, PowerLoss
    <2>2. CASE ServiceStart(m) \/ OperatorStart(m)
      BY <2>2 DEF TypeOK, ServiceStart, OperatorStart, Launch, GoTo
    <2>3. CASE \E sent \in BOOLEAN : BeginIteration(m, sent)
      BY <2>3 DEF TypeOK, BeginIteration, GoTo
    <2>4. ASSUME NEW result, ReceiveOutcome(m, result) PROVE HoldsAfter(m)
      BY <1>1, <1>2, <2>4 DEF TypeOK, ReceiveOutcome, GoTo
    <2>5. CASE (\E beacons \in OwnBeacons(m) : ExchangeBeacons(m, beacons)) \/ EndIteration(m)
      BY <2>5 DEF TypeOK, ExchangeBeacons, EndIteration, GoTo
    <2>6. CASE LifecycleIdle(m)
      BY <2>6 DEF TypeOK, LifecycleIdle, GoTo, SameView
    <2>7. ASSUME NEW probed \in BOOLEAN, ProbeAndDecide(m, probed) PROVE HoldsAfter(m)
      <3>1. CASE ~probed /\ ~DryRun
        BY <1>1, <1>2, <2>7, <3>1 DEF ProbeAndDecide
      <3>2. CASE ~(~probed /\ ~DryRun)
        <4> DEFINE owner == probed /\ vip[m]
                   next  == operationFor(decisionOf(m, owner), owner)
        <4>1. pc' = [pc EXCEPT ![m] = next] /\ SameView(m) /\ vip'[m] = vip[m]
          BY <2>7, <3>2 DEF ProbeAndDecide, GoTo, hostVars, SameView
        <4>2. pc'[m] = next
          <5> HIDE DEF next
          <5> QED
            BY <4>1 DEF TypeOK
        <4>3. owner \in BOOLEAN /\ (owner = vip[m] \/ DryRun)
          BY <3>2, FlagAssumption DEF TypeOK
        <4>4. Decides(m)
          <5> HIDE DEF owner
          <5> QED
            BY <4>2, <4>3 DEF Decides
        <4> QED
          BY <4>1, <4>4
      <3> QED
        BY <3>1, <3>2
    <2>8. ASSUME NEW success, NEW next, RecordVipOperation(m, success, next)
          PROVE  \/ pc'[m] = "down"
                 \/ pc'[m] = next /\ SameView(m) /\ success
      BY <2>8, <1>2 DEF TypeOK, RecordVipOperation, GoTo, loopVars, SameView
    <2>9. CASE AddVip(m)
      BY <1>1, <2>8, <2>9 DEF AddVip
    <2>10. CASE AnnounceVip(m)
      BY <1>1, <2>8, <2>10 DEF AnnounceVip
    <2>11. CASE RemoveVip(m)
      <3>1. PICK result \in VipCommandResults(m, "remove") :
              /\ vip' = [vip EXCEPT ![m] = @ /\ ~result.applied]
              /\ RecordVipOperation(m, result.success, "publish")
        BY <2>11 DEF RemoveVip
      <3>2. result.success /\ realNetworkMutationRequested => result.applied
        BY <3>1, SuccessIsReal, FlagAssumption DEF realNetworkMutationRequested, managerDryRun
      <3>3. result.success /\ realNetworkMutationRequested => ~vip'[m]
        BY <3>1, <3>2 DEF TypeOK
      <3> QED
        BY <1>1, <2>8, <3>1, <3>3
    <2>12. CASE Signal(m) \/ ApiFailure(m)
      BY <2>12 DEF Signal, ApiFailure, SameView, hostVars, loopVars
    <2>13. CASE ReleaseVip(m)
      <3>1. UNCHANGED <<pc, loopVars>> /\ \E removed \in BOOLEAN : vip' = [vip EXCEPT ![m] = @ /\ ~removed]
        BY <2>13 DEF ReleaseVip
      <3>2. vip'[m] => vip[m]
        BY <3>1 DEF TypeOK
      <3> QED
        BY <3>1, <3>2 DEF SameView, loopVars
    <2> QED
      BY <1>3, <2>1, <2>2, <2>3, <2>4, <2>5, <2>6, <2>7, <2>9, <2>10, <2>11, <2>12, <2>13
         DEF MainThread, Environment, CompleteReceive, InterruptReceive
  <1>4. ASSUME NEW m \in Node \ {n}, MainThread(m) \/ Environment(m) \/ ServiceStart(m)
        PROVE  pc'[n] = pc[n] /\ vip'[n] = vip[n] /\ SameView(n)
    <2> DEFINE Away == pc'[n] = pc[n] /\ vip'[n] = vip[n] /\ SameView(n)
    <2>1. ASSUME NEW status, Exit(m, status)
          PROVE  pc'[n] = pc[n] /\ SameView(n)
      BY <2>1, ExitMoves DEF TypeOK, SameView
    <2>2. CASE StopLoop(m) \/ Kill(m) \/ PowerLoss(m)
      BY <1>4, <2>1, <2>2 DEF TypeOK, StopLoop, Kill, PowerLoss, hostVars
    <2>3. ASSUME NEW result, ReceiveOutcome(m, result) PROVE Away
      BY <1>4, <2>1, <2>3 DEF TypeOK, ReceiveOutcome, GoTo, hostVars, SameView
    <2>4. ASSUME NEW probed \in BOOLEAN, ProbeAndDecide(m, probed) PROVE Away
      <3>1. CASE ~probed /\ ~DryRun
        BY <1>4, <2>1, <2>4, <3>1 DEF ProbeAndDecide, hostVars
      <3>2. CASE ~(~probed /\ ~DryRun)
        <4>1. PICK next : pc' = [pc EXCEPT ![m] = next]
          BY <2>4, <3>2 DEF ProbeAndDecide, GoTo
        <4> QED
          BY <1>4, <2>4, <3>2, <4>1 DEF TypeOK, ProbeAndDecide, hostVars, SameView
      <3> QED
        BY <3>1, <3>2
    <2>5. ASSUME NEW success, NEW next, RecordVipOperation(m, success, next)
          PROVE  pc'[n] = pc[n] /\ SameView(n)
      BY <1>4, <2>1, <2>5 DEF TypeOK, RecordVipOperation, GoTo, loopVars, SameView
    <2>6. CASE AddVip(m) \/ AnnounceVip(m) \/ RemoveVip(m)
      BY <1>4, <2>5, <2>6 DEF TypeOK, AddVip, AnnounceVip, RemoveVip
    <2>7. CASE ServiceStart(m) \/ OperatorStart(m) \/ LifecycleIdle(m) \/ EndIteration(m)
      BY <1>4, <2>7 DEF TypeOK, ServiceStart, OperatorStart, Launch, LifecycleIdle, EndIteration, GoTo,
                        hostVars, loopVars, SameView
    <2>8. CASE \/ \E sent \in BOOLEAN : BeginIteration(m, sent)
               \/ \E beacons \in OwnBeacons(m) : ExchangeBeacons(m, beacons)
      BY <1>4, <2>8 DEF TypeOK, BeginIteration, ExchangeBeacons, GoTo, hostVars, SameView
    <2>9. CASE Signal(m) \/ ApiFailure(m) \/ ReleaseVip(m)
      BY <1>4, <2>9 DEF TypeOK, Signal, ApiFailure, ReleaseVip, hostVars, loopVars, SameView
    <2> QED
      BY <1>4, <2>2, <2>3, <2>4, <2>6, <2>7, <2>8, <2>9
         DEF MainThread, Environment, CompleteReceive, InterruptReceive
  <1>5. CASE UNCHANGED vars
    BY <1>5 DEF vars, hostVars, loopVars, SameView
  <1> QED
    BY <1>3, <1>4, <1>5 DEF Next

-----------------------------------------------------------------------------
(* The tables and the wire                                                 *)

(* What is in the tables was on the wire.                                  *)
HeardOnWire(n) ==
  /\ \A p \in DOMAIN recent[n] : recent[n][p].status \in WireStatus(Id)
  /\ \A p \in DOMAIN discovered[n] : discovered[n][p].status \in WireStatus(Id)

WireInv == \A n \in Node : HeardOnWire(n)

(* It is enough to look at the node that takes the step.                   *)
LEMMA WireKept ==
  ASSUME TypeOK, WireInv, NEW n \in Node, HeardOnWire(n)',
         \A m \in Node \ {n} : recent'[m] = recent[m] /\ discovered'[m] = discovered[m]
  PROVE  WireInv'
  BY DEF WireInv, HeardOnWire

(* Every step keeps the tables true to the wire.                           *)
LEMMA WireStep ==
  ASSUME TypeOK, WireInv, [Next]_vars
  PROVE  WireInv'
  <1>1. CASE UNCHANGED <<recent, discovered>>
    BY <1>1 DEF WireInv, HeardOnWire
  <1>2. ASSUME NEW n \in Node, NEW status, Exit(n, status)
        PROVE  WireInv'
    <2>1. HeardOnWire(n)'
      BY <1>2, ExitMoves DEF HeardOnWire, EmptyTable
    <2> QED
      BY <1>2, <2>1, ExitMoves, WireKept
  <1>3. ASSUME NEW n \in Node, NEW sent \in BOOLEAN, BeginIteration(n, sent)
        PROVE  WireInv'
    <2>1. HeardOnWire(n)'
      BY <1>3 DEF TypeOK, WireInv, HeardOnWire, BeginIteration, expirePeers, Restrict
    <2> QED
      BY <1>3, <2>1, WireKept DEF TypeOK, BeginIteration
  <1>4. ASSUME NEW n \in Node, NEW result, ReceiveOutcome(n, result),
               result.kind = "message" => result.status \in WireStatus(Id)
        PROVE  WireInv'
    <2>1. CASE heartbeatFaults(n, result)
      BY <1>2, <1>4, <2>1 DEF ReceiveOutcome
    <2>2. CASE ~heartbeatFaults(n, result)
      <3> DEFINE heard == IF result.kind = "message" /\ peerIsConfigured(n, result.status.node_id)
                          THEN observe(recent[n], result.status.node_id, result.status)
                          ELSE recent[n]
      <3>1. \A p \in DOMAIN heard : heard[p].status \in WireStatus(Id)
        BY <1>4 DEF WireInv, HeardOnWire, observe
      <3>2. recent' = [recent EXCEPT ![n] = expirePeers(heard)] /\ UNCHANGED discovered
        BY <1>4, <2>2 DEF ReceiveOutcome
      <3> HIDE DEF heard
      <3>3. recent'[n] = expirePeers(heard)
        BY <3>2 DEF TypeOK
      <3>4. HeardOnWire(n)'
        BY <3>1, <3>2, <3>3 DEF WireInv, HeardOnWire, expirePeers, Restrict
      <3> QED
        BY <3>2, <3>4, WireKept DEF TypeOK
    <2> QED
      BY <2>1, <2>2
  <1>5. ASSUME NEW n \in Node, NEW beacons \in OwnBeacons(n), ExchangeBeacons(n, beacons)
        PROVE  WireInv'
    <2>1. \A p \in DOMAIN beacons : beacons[p] \in WireStatus(Id)
      BY SegmentIsKnown DEF OwnBeacons, BeaconSets
    <2>2. HeardOnWire(n)'
      BY <1>5, <2>1 DEF TypeOK, WireInv, HeardOnWire, ExchangeBeacons, prune, Restrict
    <2> QED
      BY <1>5, <2>2, WireKept DEF TypeOK, ExchangeBeacons
  <1>6. ASSUME NEW n \in Node, EndIteration(n)
        PROVE  WireInv'
    <2>1. IsTable(recent[n], HeartbeatTimeout) /\ IsTable(discovered[n], DiscoveryTimeout + 1)
      BY DEF TypeOK
    <2>2. HeardOnWire(n)'
      BY <1>6, <2>1 DEF TypeOK, IsTable, WireInv, HeardOnWire, EndIteration, Older
    <2> QED
      BY <1>6, <2>2, WireKept DEF TypeOK, EndIteration
  <1>7. ASSUME NEW n \in Node, \E success, next : RecordVipOperation(n, success, next)
        PROVE  WireInv'
    BY <1>1, <1>2, <1>7 DEF RecordVipOperation, loopVars
  <1>8. ASSUME NEW n \in Node, NEW probed \in BOOLEAN, ProbeAndDecide(n, probed)
        PROVE  WireInv'
    BY <1>1, <1>2, <1>8 DEF ProbeAndDecide
  <1>9. ASSUME NEW n \in Node, NEW result \in ReceiveResults
        PROVE  result.kind = "message" => result.status \in WireStatus(Id)
    BY <1>9 DEF ReceiveResults, ReceiveTimeout, ReceiveError, Received
  <1>10. ASSUME NEW n \in Node, StopLoop(n) \/ Kill(n) \/ PowerLoss(n)
         PROVE  WireInv'
    BY <1>2, <1>10 DEF StopLoop, Kill, PowerLoss
  <1>11. ASSUME NEW n \in Node, InterruptReceive(n)
         PROVE  WireInv'
    BY <1>4, <1>11 DEF InterruptReceive, ReceiveError
  <1>12. ASSUME NEW n \in Node, AddVip(n) \/ AnnounceVip(n) \/ RemoveVip(n)
         PROVE  WireInv'
    BY <1>7, <1>12 DEF AddVip, AnnounceVip, RemoveVip
  <1> QED
    BY <1>1, <1>3, <1>4, <1>5, <1>6, <1>8, <1>9, <1>10, <1>11, <1>12
       DEF Next, MainThread, Environment, CompleteReceive, Signal, ApiFailure, LifecycleIdle,
           ReleaseVip, ServiceStart, OperatorStart, Launch, vars, loopVars

(* What is on the wire says who it is of and with which priority.          *)
LEMMA PeersAreComparable ==
  ASSUME TypeOK, WireInv, NEW n \in Node, NEW owner
  PROVE  /\ Comparable(localStatusFromOwnership(n, owner), peerStatuses(n))
         /\ \A i \in DOMAIN peerStatuses(n) : peerStatuses(n)[i].heartbeat_seen
  <1>1. ASSUME NEW i \in DOMAIN peerStatuses(n)
        PROVE  peerStatuses(n)[i] \in WireStatus(Id)
    BY <1>1 DEF peerStatuses, WireInv, HeardOnWire
  <1>2. ASSUME NEW s \in WireStatus(Id)
        PROVE  /\ s.node_id \in Id /\ s.priority = Priority[s.node_id] /\ s.heartbeat_seen
    BY DEF WireStatus
  <1>3. n \in Id /\ Id \subseteq Nat /\ \A id \in Id : Priority[id] \in Nat
    BY NodeAssumption
  <1> QED
    BY <1>1, <1>2, <1>3 DEF Comparable, localStatusFromOwnership

-----------------------------------------------------------------------------
(* Obedience to the election                                               *)

(* What a claim needs of the view, and what the node owes the election at  *)
(* each place.                                                             *)
Claimable(n) ==
  \A s \in HealthyPeers(n) :
    /\ Outranks(localStatusFromOwnership(n, vip[n]), s)
    /\ Preempt \/ s.state # "master"

Obeys(n) ==
  /\ pc[n] \in {"add", "announce"} => Claimable(n)
  /\ VipConfigured /\ realNetworkMutationRequested /\ pc[n] = "publish" /\ vip[n] =>
       Superiors(n) = {}

ElectionInv == \A n \in Node : Obeys(n)

(* Both depend on the view alone.                                          *)
LEMMA ViewDecides ==
  ASSUME NEW n \in Node, SameView(n)
  PROVE  /\ Claimable(n)' <=> Claimable(n)
         /\ Superiors(n)' = Superiors(n)
  <1>1. peerStatuses(n)' = peerStatuses(n)
    BY DEF SameView, peerStatuses
  <1>2. HealthyPeers(n)' = HealthyPeers(n)
    BY <1>1 DEF HealthyPeers
  <1>3. \A s : Outranks(localStatusFromOwnership(n, vip[n])', s)
                 <=> Outranks(localStatusFromOwnership(n, vip[n]), s)
    BY DEF Outranks, localStatusFromOwnership
  <1>4. \A s : Outranks(s, localStatusFromOwnership(n, vip[n])')
                 <=> Outranks(s, localStatusFromOwnership(n, vip[n]))
    BY DEF Outranks, localStatusFromOwnership
  <1> QED
    BY <1>2, <1>3, <1>4 DEF Claimable, Superiors

(* What a decision makes of a node.                                        *)
LEMMA DecisionObeys ==
  ASSUME TypeOK, WireInv, NEW n \in Node, Decides(n)
  PROVE  /\ pc'[n] \in {"add", "announce"} => Claimable(n)
         /\ realNetworkMutationRequested /\ pc'[n] = "publish" /\ vip[n] => Superiors(n) = {}
  <1>1. PICK owner \in BOOLEAN : /\ owner = vip[n] \/ DryRun
                                 /\ pc'[n] = operationFor(decisionOf(n, owner), owner)
    BY DEF Decides
  <1> DEFINE local == localStatusFromOwnership(n, owner)
             peers == peerStatuses(n)
  <1>2. /\ Comparable(local, peers) /\ \A i \in DOMAIN peers : peers[i].heartbeat_seen
        /\ local.healthy = TRUE /\ local.node_id = n
        /\ owner <=> local.state = "master"
        /\ electionPolicy(n).preempt = Preempt
    BY PeersAreComparable DEF localStatusFromOwnership, electionPolicy
  <1>3. \A s : Outranks(localStatusFromOwnership(n, vip[n]), s) <=> Outranks(local, s)
    BY DEF Outranks, localStatusFromOwnership
  <1>4. \A s : Outranks(s, localStatusFromOwnership(n, vip[n])) <=> Outranks(s, local)
    BY DEF Outranks, localStatusFromOwnership
  <1>5. ASSUME NEW s \in HealthyPeers(n)
        PROVE  \E i \in DOMAIN peers : s = peers[i] /\ isCandidate(peers[i]) /\ peers[i].node_id # n
    BY <1>2 DEF HealthyPeers, isCandidate
  <1> HIDE DEF local, peers
  <1>6. ASSUME pc'[n] \in {"add", "announce"} PROVE Claimable(n)
    <2>1. wantsMaster(decisionOf(n, owner)) /\ ~owner
      BY <1>1, <1>6 DEF operationFor
    <2>2. wantsMaster(decideFailoverAction(local, peers, electionPolicy(n))) /\ local.state # "master"
      BY <1>2, <2>1 DEF decisionOf, local, peers
    <2>3. ASSUME NEW s \in HealthyPeers(n)
          PROVE  Outranks(local, s) /\ (Preempt \/ s.state # "master")
      <3>1. PICK i \in DOMAIN peers : s = peers[i] /\ isCandidate(peers[i]) /\ peers[i].node_id # n
        BY <1>5
      <3> QED
        BY <1>2, <2>2, <3>1, ClaimIsElected
    <2> QED
      BY <1>3, <2>3 DEF Claimable
  <1>7. ASSUME realNetworkMutationRequested, pc'[n] = "publish", vip[n] PROVE Superiors(n) = {}
    <2>1. owner
      BY <1>1, <1>7 DEF realNetworkMutationRequested
    <2>2. wantsMaster(decideFailoverAction(local, peers, electionPolicy(n)))
      <3>1. ~wantsBackup(decisionOf(n, owner))
        BY <1>1, <1>7, <2>1 DEF operationFor
      <3>2. decisionOf(n, owner) \in FailoverAction \ {"EnterFault"}
        BY <1>2 DEF decisionOf, decideFailoverAction, FailoverAction, local
      <3> QED
        BY <3>1, <3>2 DEF wantsMaster, wantsBackup, FailoverAction, decisionOf, local, peers
    <2>3. ASSUME NEW s \in Superiors(n) PROVE FALSE
      <3>1. /\ s \in HealthyPeers(n) /\ Outranks(s, local)
            /\ Preempt \/ (s.state = "master" /\ \A t \in HealthyPeers(n) : ~Outranks(t, s))
        BY <1>4 DEF Superiors
      <3>2. PICK i \in DOMAIN peers : s = peers[i] /\ isCandidate(peers[i]) /\ peers[i].node_id # n
        BY <1>5, <3>1
      <3>3. ~Preempt /\ (peers[i].state = "master" =>
              \E j \in DOMAIN peers : /\ isCandidate(peers[j]) /\ peers[j].node_id # n
                                      /\ Outranks(peers[j], peers[i]))
        BY <1>2, <2>2, <3>1, <3>2, KeeperHasNoSuperior
      <3>4. \A j \in DOMAIN peers : isCandidate(peers[j]) /\ peers[j].node_id # n =>
              peers[j] \in HealthyPeers(n)
        BY DEF HealthyPeers, isCandidate, peers
      <3> QED
        BY <3>1, <3>2, <3>3, <3>4
    <2> QED
      BY <2>3
  <1> QED
    BY <1>6, <1>7

(* Who may claim has no superior.                                          *)
LEMMA ClaimableHasNoSuperior ==
  ASSUME TypeOK, WireInv, NEW n \in Node, Claimable(n)
  PROVE  Superiors(n) = {}
  <1>1. ASSUME NEW s \in HealthyPeers(n)
        PROVE  s.priority \in Nat /\ s.node_id \in Nat
    BY PeersAreComparable DEF HealthyPeers, Comparable
  <1>2. ASSUME NEW s \in Superiors(n) PROVE FALSE
    <2>1. /\ s \in HealthyPeers(n) /\ Outranks(s, localStatusFromOwnership(n, vip[n]))
          /\ Outranks(localStatusFromOwnership(n, vip[n]), s)
      BY DEF Superiors, Claimable
    <2>2. n \in Nat /\ Priority[n] \in Nat
      BY NodeAssumption
    <2> QED
      BY <1>1, <2>1, <2>2 DEF Outranks, localStatusFromOwnership
  <1> QED
    BY <1>2

(* Every step keeps the obedience to the election.                         *)
LEMMA ElectionStep ==
  ASSUME TypeOK, WireInv, ElectionInv, [Next]_vars
  PROVE  ElectionInv'
  <1> SUFFICES ASSUME NEW n \in Node PROVE Obeys(n)'
    BY DEF ElectionInv
  <1>1. CASE pc'[n] \notin {"add", "announce", "publish"}
    BY <1>1 DEF Obeys
  <1>2. CASE pc'[n] \in {"add", "announce", "publish"}
    <2>1. Obeys(n) /\ HoldsAfter(n) /\ SameView(n)
      BY <1>2, WaysToHold DEF ElectionInv, HoldsAfter
    <2>2. (Claimable(n)' <=> Claimable(n)) /\ Superiors(n)' = Superiors(n)
      BY <2>1, ViewDecides
    <2> QED
      BY <1>2, <2>1, <2>2, DecisionObeys, ClaimableHasNoSuperior DEF HoldsAfter, Obeys
  <1> QED
    BY <1>1, <1>2

(* Claims and holdings obey the election, for every configuration and      *)
(* whatever is heard.                                                      *)
THEOREM ElectionStaysObeyed == Spec => []ElectionIsObeyed
  <1>1. Init => WireInv /\ ElectionInv
    BY DEF Init, WireInv, HeardOnWire, EmptyTable, ElectionInv, Obeys
  <1>2. TypeOK /\ WireInv /\ ElectionInv /\ [Next]_vars => WireInv' /\ ElectionInv'
    BY WireStep, ElectionStep
  <1>3. ElectionInv => ElectionIsObeyed
    BY DEF ElectionInv, Obeys, Claimable, ElectionIsObeyed
  <1> QED
    BY <1>1, <1>2, <1>3, TypeCorrect, PTL DEF Spec

-----------------------------------------------------------------------------
(* Owners and quorum                                                       *)

(* The quorum a node has when it announces, and when it has completed an   *)
(* iteration with the VIP.                                                 *)
OwnsWithQuorum(n) ==
  RequireQuorum =>
    /\ pc[n] = "announce" => HeardQuorum(n)
    /\ VipConfigured /\ realNetworkMutationRequested /\ pc[n] = "publish" /\ vip[n] =>
         HeardQuorum(n)

OwnerInv == \A n \in Node : OwnsWithQuorum(n)

(* A node that decides to keep the VIP, or to claim it, hears a quorum.    *)
LEMMA DecisionSeesQuorum ==
  ASSUME MembersCountOnce, TypeOK, ViewInv, QuorumInv, NEW n \in Node, Decides(n), RequireQuorum,
         realNetworkMutationRequested, pc'[n] = "publish", vip[n]
  PROVE  HeardQuorum(n)
  <1>1. PICK owner \in BOOLEAN : /\ owner = vip[n] \/ DryRun
                                 /\ pc'[n] = operationFor(decisionOf(n, owner), owner)
    BY DEF Decides
  <1>2. owner
    BY <1>1 DEF realNetworkMutationRequested
  <1>3. localStatusFromOwnership(n, owner).healthy = TRUE
    BY DEF localStatusFromOwnership
  <1>4. wantsMaster(decisionOf(n, owner))
    <2>1. ~wantsBackup(decisionOf(n, owner))
      BY <1>1, <1>2 DEF operationFor
    <2>2. decisionOf(n, owner) \in FailoverAction \ {"EnterFault"}
      BY <1>3 DEF decisionOf, decideFailoverAction, FailoverAction
    <2> QED
      BY <2>1, <2>2 DEF wantsMaster, wantsBackup, FailoverAction
  <1>5. hasQuorum(peerStatuses(n), electionPolicy(n))
    BY <1>3, <1>4, MasterNeedsQuorum DEF decisionOf
  <1> QED
    BY <1>5, CountedOnce, GateCountsNodes

(* Every step keeps the quorum behind an owner.                            *)
LEMMA OwnerStep ==
  ASSUME MembersCountOnce, TypeOK, ViewInv, QuorumInv, OwnerInv, [Next]_vars
  PROVE  OwnerInv'
  <1> SUFFICES ASSUME NEW n \in Node, RequireQuorum PROVE OwnsWithQuorum(n)'
    BY DEF OwnerInv, OwnsWithQuorum
  <1>1. CASE pc'[n] \notin {"add", "announce", "publish"}
    BY <1>1 DEF OwnsWithQuorum
  <1>2. CASE pc'[n] \in {"add", "announce", "publish"}
    <2>1. OwnsWithQuorum(n) /\ HoldsAfter(n) /\ SameView(n) /\ (pc[n] = "add" => HeardQuorum(n))
      BY <1>2, WaysToHold DEF OwnerInv, QuorumInv, HoldsAfter
    <2>2. HeardQuorum(n)' <=> HeardQuorum(n)
      BY <2>1 DEF SameView, HeardQuorum, Heard
    <2>3. Decides(n) => pc'[n] # "announce"
      BY DEF Decides, operationFor
    <2> QED
      BY <1>2, <2>1, <2>2, <2>3, DecisionSeesQuorum DEF HoldsAfter, OwnsWithQuorum
  <1> QED
    BY <1>1, <1>2

(* Self-fencing as safety: with every member counted once, no iteration is *)
(* completed with the VIP and without a quorum.                            *)
THEOREM OwnersNeedQuorum ==
  ASSUME MembersCountOnce
  PROVE  Spec => []OwnersSeeQuorum
  <1>1. Init => QuorumInv /\ OwnerInv
    BY DEF Init, QuorumInv, SourcesOK, OwnerInv, OwnsWithQuorum, EmptyTable
  <1>2. TypeOK /\ ViewInv /\ QuorumInv /\ OwnerInv /\ [Next]_vars => QuorumInv' /\ OwnerInv'
    BY QuorumStep, OwnerStep
  <1>3. OwnerInv => OwnersSeeQuorum
    BY HeardIsSeen DEF OwnerInv, OwnsWithQuorum, OwnersSeeQuorum
  <1> QED
    BY <1>1, <1>2, <1>3, TypeCorrect, ViewInvariant, PTL DEF Spec
=============================================================================
