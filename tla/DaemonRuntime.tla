---------------------------- MODULE DaemonRuntime ----------------------------
(***************************************************************************)
(* The failover daemon: runDaemonRuntimeLoop and runDaemonLifecycleOnce    *)
(* (runtime/DaemonRuntime.cpp) with the process around them (main.cpp, the *)
(* service manager) and the host's interface (platform/linux).             *)
(*                                                                         *)
(* Every variable is a function of the node, so that a composition can run *)
(* several daemons; each action is one step of one daemon's main thread,   *)
(* cut where the process blocks or runs an external command.  What the     *)
(* environment answers (the heartbeat received, whether a command worked)  *)
(* is a parameter of the action.                                           *)
(*                                                                         *)
(* Time: the code compares differences of elapsed_ms, which grows by a     *)
(* fixed step per iteration.  A table entry keeps that difference as its   *)
(* age, cut off where no comparison can tell larger ages apart.            *)
(***************************************************************************)
EXTENDS FailoverDecision, Functions

CONSTANTS
  Node,               \* the daemons that run
  Id,                 \* every node id that may appear on the wire
  Peers,              \* config.peers of each daemon: a set of ids
  Priority,           \* the configured priority of each id
  DryRun,             \* --dry-run
  AllowMutation,      \* mutation_safety.allow_network_mutation
  VipConfigured,      \* vip.address and vip.interface are set
  RequireQuorum, QuorumSize, Preempt,                    \* [election]
  HeartbeatInterval, HeartbeatTimeout,                   \* [heartbeat]
  DiscoveryEnabled, DiscoveryInterval, DiscoveryTimeout, \* [discovery]
  Segment,            \* the ids whose beacons the network may carry
  ApiEnabled,         \* the local API thread runs
  IterationElapsed,   \* what one iteration adds to elapsed_ms
  InitialOwners,      \* the hosts an earlier run left with the VIP
  Faults              \* the faults and operator actions a run admits

FaultKinds ==
  {"send", "receive", "probe", "add", "announce", "remove",
   "signal", "api", "kill", "power", "release"}

ASSUME NodeAssumption ==
  /\ Id \subseteq Nat
  /\ Node \subseteq Id /\ Segment \subseteq Id
  /\ IsFiniteSet(Id)
  /\ Peers \in [Node -> SUBSET Id]
  /\ Priority \in [Id -> Nat \ {0}]
  /\ InitialOwners \subseteq Node

ASSUME FlagAssumption ==
  /\ DryRun \in BOOLEAN /\ AllowMutation \in BOOLEAN /\ VipConfigured \in BOOLEAN
  /\ RequireQuorum \in BOOLEAN /\ Preempt \in BOOLEAN
  /\ DiscoveryEnabled \in BOOLEAN /\ ApiEnabled \in BOOLEAN
  /\ Faults \subseteq FaultKinds

ASSUME TimeAssumption ==
  /\ QuorumSize \in Nat /\ IterationElapsed \in Nat
  /\ HeartbeatInterval \in Nat \ {0} /\ HeartbeatTimeout \in Nat \ {0}
  /\ DiscoveryInterval \in Nat \ {0} /\ DiscoveryTimeout \in Nat \ {0}

VARIABLES
  pc,          \* where the daemon's main thread is
  exit,        \* how the process last ended, as the service manager sees it
  vip,         \* the host's interface carries the VIP (outlives the process)
  announced,   \* announced since it added the VIP, and no other host since then
  released,    \* history: the operator removed the VIP since the last probe
  pending,     \* g_pending_shutdown_signal
  apiFailed,   \* the API thread ended with an error and requested shutdown
  warm,        \* real_mutation_warmup_complete
  advertised,  \* local_status.state, which heartbeats and beacons carry
  cycle,       \* what the heartbeat cycle of this iteration did
  recent,      \* recent_peers: configured id -> last status and its age
  discovered,  \* discovery_peers: identity -> last status and its age
  sinceSend,   \* elapsed_ms - last_heartbeat_send_due_elapsed_ms
  sinceBeacon  \* elapsed_ms - last_discovery_send_elapsed_ms

hostVars   == <<vip, announced, released>>
signalVars == <<pending, apiFailed>>
loopVars   == <<warm, advertised, cycle, recent, discovered, sinceSend, sinceBeacon>>
vars       == <<pc, exit, hostVars, signalVars, loopVars>>

-----------------------------------------------------------------------------
(* Data                                                                    *)

PeerStatus ==
  [node_id : Id, priority : Nat, healthy : BOOLEAN, heartbeat_seen : {TRUE},
   state : NodeState]

(* The outcomes of one receive: nothing within the timeout, an error of    *)
(* the socket or of the parser, or a heartbeat.                            *)
ReceiveTimeout    == [kind |-> "timeout"]
ReceiveError      == [kind |-> "error"]
Received(status)  == [kind |-> "message", status |-> status]

(* The outcomes of one external command: whether it took effect, and what  *)
(* the daemon is told.  A success is never reported without the effect.    *)
CommandResults(kind) ==
  {[applied |-> TRUE, success |-> TRUE]}
  \cup (IF kind \in Faults THEN [applied : BOOLEAN, success : {FALSE}] ELSE {})

Running == {"asleep", "receive", "discovery", "lifecycle", "add", "announce",
            "remove", "publish", "stopping"}

CycleOutcome == {"none", "sent", "send_failed", "failed", "warmed"}

(* A table maps some of the ids to the last status heard and its age.      *)
IsTable(table, maxAge) ==
  /\ DOMAIN table \subseteq Id
  /\ table \in [DOMAIN table -> [status : PeerStatus, age : 0 .. maxAge]]

TypeOK ==
  /\ pc \in [Node -> Running \cup {"down"}]
  /\ exit \in [Node -> {"none", "success", "failure"}]
  /\ vip \in [Node -> BOOLEAN]
  /\ announced \in [Node -> BOOLEAN]
  /\ released \in [Node -> BOOLEAN]
  /\ pending \in [Node -> BOOLEAN]
  /\ apiFailed \in [Node -> BOOLEAN]
  /\ warm \in [Node -> BOOLEAN]
  /\ advertised \in [Node -> {"backup", "master"}]
  /\ cycle \in [Node -> CycleOutcome]
  /\ DOMAIN recent = Node /\ DOMAIN discovered = Node
  /\ \A n \in Node : /\ IsTable(recent[n], HeartbeatTimeout)
                     /\ IsTable(discovered[n], DiscoveryTimeout + 1)
  /\ sinceSend \in [Node -> 0 .. HeartbeatInterval]
  /\ sinceBeacon \in [Node -> 0 .. DiscoveryInterval]

-----------------------------------------------------------------------------
(* Pure helpers                                                            *)

AtMost(x, bound) == IF x < bound THEN x ELSE bound

EmptyTable == [p \in {} |-> 0]

(* Mutated form, for testing properties: an entry is stamped with the      *)
(* start of the next iteration.                                            *)
observeAhead(table, key, status) ==
  [k \in DOMAIN table \cup {key} |->
     IF k = key THEN [status |-> status, age |-> -IterationElapsed] ELSE table[k]]

observe(table, key, status) ==
  [k \in DOMAIN table \cup {key} |->
     IF k = key THEN [status |-> status, age |-> 0] ELSE table[k]]

(* Mutated form, for testing properties: an entry of timeout age stays.    *)
expirePeersLate(table) ==
  Restrict(table, {p \in DOMAIN table : table[p].age <= HeartbeatTimeout})

(* The heartbeat table drops an entry when its age reaches the timeout,    *)
(* the discovery table only when the age exceeds it.                       *)
expirePeers(table) ==
  Restrict(table, {p \in DOMAIN table : table[p].age < HeartbeatTimeout})

(* Mutated form, for testing properties: an entry goes one step too late.  *)
pruneLate(table) ==
  Restrict(table, {p \in DOMAIN table : table[p].age <= DiscoveryTimeout + 1})

prune(table) ==
  Restrict(table, {p \in DOMAIN table : table[p].age <= DiscoveryTimeout})

Older(table, maxAge) ==
  [p \in DOMAIN table |-> [table[p] EXCEPT !.age = AtMost(@ + IterationElapsed, maxAge)]]

peerIsConfigured(n, id) == id \in Peers[n]

(* The daemon asks for real mutation; the VIP manager, built once from the *)
(* start-up configuration, performs it; the lifecycle, given a copy of the *)
(* configuration with the permission withdrawn until the warm-up is over,  *)
(* expects it only then.                                                   *)
realNetworkMutationRequested == ~DryRun /\ AllowMutation
managerDryRun                == DryRun \/ ~AllowMutation
requireDryRun(n)             == DryRun \/ ~AllowMutation \/ ~warm[n]

electionPolicy(n) ==
  [require_quorum |-> RequireQuorum,
   quorum_size    |-> QuorumSize,
   cluster_size   |-> Cardinality(Peers[n]) + 1,
   preempt        |-> Preempt]

(* The loop always passes local_healthy = true: no health check is run.    *)
localStatusFromOwnership(n, owner) ==
  [node_id |-> n, priority |-> Priority[n], healthy |-> TRUE,
   state |-> IF owner THEN "master" ELSE "backup"]

(* Heartbeat peers followed by discovered peers; a node known both ways    *)
(* appears twice.                                                          *)
peerStatuses(n) ==
  [k \in ({"heartbeat"} \X DOMAIN recent[n]) \cup ({"discovery"} \X DOMAIN discovered[n]) |->
     IF k[1] = "heartbeat" THEN recent[n][k[2]].status ELSE discovered[n][k[2]].status]

heartbeatDue(n) == sinceSend[n] >= HeartbeatInterval
beaconDue(n)    == sinceBeacon[n] >= DiscoveryInterval

-----------------------------------------------------------------------------
(* The process                                                             *)

LoopReset(n) ==
  /\ warm' = [warm EXCEPT ![n] = FALSE]
  /\ advertised' = [advertised EXCEPT ![n] = "backup"]
  /\ cycle' = [cycle EXCEPT ![n] = "none"]
  /\ recent' = [recent EXCEPT ![n] = EmptyTable]
  /\ discovered' = [discovered EXCEPT ![n] = EmptyTable]
  /\ sinceSend' = [sinceSend EXCEPT ![n] = HeartbeatInterval]
  /\ sinceBeacon' = [sinceBeacon EXCEPT ![n] = DiscoveryInterval]

GoTo(n, place) == pc' = [pc EXCEPT ![n] = place]

(* The loop returns and main exits: the VIP stays where it is.             *)
Exit(n, status) ==
  /\ GoTo(n, "down")
  /\ exit' = [exit EXCEPT ![n] = status]
  /\ LoopReset(n)

Init ==
  /\ pc = [n \in Node |-> "down"]
  /\ exit = [n \in Node |-> "none"]
  /\ vip = [n \in Node |-> n \in InitialOwners]
  /\ announced = [n \in Node |-> FALSE]
  /\ released = [n \in Node |-> FALSE]
  /\ pending = [n \in Node |-> FALSE]
  /\ apiFailed = [n \in Node |-> FALSE]
  /\ warm = [n \in Node |-> FALSE]
  /\ advertised = [n \in Node |-> "backup"]
  /\ cycle = [n \in Node |-> "none"]
  /\ recent = [n \in Node |-> EmptyTable]
  /\ discovered = [n \in Node |-> EmptyTable]
  /\ sinceSend = [n \in Node |-> HeartbeatInterval]
  /\ sinceBeacon = [n \in Node |-> DiscoveryInterval]

Launch(n) ==
  /\ pc[n] = "down"
  /\ GoTo(n, "asleep")
  /\ exit' = [exit EXCEPT ![n] = "none"]
  /\ pending' = [pending EXCEPT ![n] = FALSE]
  /\ apiFailed' = [apiFailed EXCEPT ![n] = FALSE]
  /\ UNCHANGED <<hostVars, loopVars>>

(* At boot, and after a failure (Restart=on-failure).                      *)
ServiceStart(n) == exit[n] # "success" /\ Launch(n)

(* After a clean stop, only when the operator starts the service again.    *)
OperatorStart(n) == exit[n] = "success" /\ Launch(n)

(* SIGKILL, out of memory: the process dies, the host's interface stays.   *)
Kill(n) ==
  /\ "kill" \in Faults
  /\ pc[n] # "down"
  /\ Exit(n, "failure")
  /\ UNCHANGED <<hostVars, signalVars>>

(* The host loses power; it is down until it boots.                        *)
PowerLoss(n) ==
  /\ "power" \in Faults
  /\ Exit(n, "none")
  /\ vip' = [vip EXCEPT ![n] = FALSE]
  /\ announced' = [announced EXCEPT ![n] = FALSE]
  /\ pc[n] # "down" \/ vip[n]
  /\ UNCHANGED <<released, signalVars>>

(* The signal handler records the signal; the top of the loop and the API  *)
(* thread look.                                                            *)
Signal(n) ==
  /\ "signal" \in Faults
  /\ pc[n] # "down"
  /\ ~pending[n]
  /\ pending' = [pending EXCEPT ![n] = TRUE]
  /\ UNCHANGED <<pc, exit, hostVars, apiFailed, loopVars>>

(* The API listener fails while serving and asks the daemon to stop.       *)
ApiFailure(n) ==
  /\ ApiEnabled
  /\ "api" \in Faults
  /\ pc[n] # "down"
  /\ ~apiFailed[n]
  /\ apiFailed' = [apiFailed EXCEPT ![n] = TRUE]
  /\ UNCHANGED <<pc, exit, hostVars, pending, loopVars>>

(* easy-failover --release-vip, a process of its own, removes the VIP if   *)
(* the probe finds it; a failure is only logged.  The mutation gate does   *)
(* not apply.  Package removal stops and disables the service before; an   *)
(* operator may call it while a daemon runs.                               *)
ReleaseVip(n) ==
  /\ "release" \in Faults
  /\ VipConfigured
  /\ exit' = [exit EXCEPT ![n] = IF pc[n] = "down" THEN "success" ELSE @]
  /\ \E removed \in BOOLEAN :
       /\ ~removed => Faults \cap {"probe", "remove"} # {}
       /\ vip' = [vip EXCEPT ![n] = @ /\ ~removed]
       /\ announced' = [announced EXCEPT ![n] = @ /\ ~removed]
       /\ released' = [released EXCEPT ![n] =
            @ \/ (removed /\ vip[n] /\ pc[n] \in {"announce", "remove"})]
  /\ UNCHANGED <<pc, signalVars, loopVars>>

-----------------------------------------------------------------------------
(* The loop                                                                *)

(* Mutated form, for testing properties: the signal flag is not polled.    *)
shutdownSeenWithoutPoll(n) == apiFailed[n]

(* The top of the loop polls the signal handler's flag.                    *)
shutdownSeen(n) == pending[n] \/ apiFailed[n]

(* Shutdown requested: seen at the top of the loop, or by the lifecycle,   *)
(* after which the loop still publishes and sleeps once.                   *)
StopLoop(n) ==
  /\ \/ pc[n] = "asleep" /\ shutdownSeen(n)
     \/ pc[n] = "stopping"
  /\ Exit(n, IF apiFailed[n] THEN "failure" ELSE "success")
  /\ UNCHANGED <<hostVars, signalVars>>

(* Expire peers and, when due, send a heartbeat to every peer and wait.    *)
BeginIteration(n, sent) ==
  /\ pc[n] = "asleep"
  /\ ~shutdownSeen(n)
  /\ sent \/ ("send" \in Faults /\ heartbeatDue(n) /\ Peers[n] # {})
  /\ recent' = [recent EXCEPT ![n] = expirePeers(@)]
  /\ IF heartbeatDue(n)
     THEN /\ GoTo(n, "receive")
          /\ sinceSend' = [sinceSend EXCEPT ![n] = 0]
          /\ cycle' = [cycle EXCEPT ![n] = IF sent THEN "sent" ELSE "send_failed"]
     ELSE /\ GoTo(n, IF DiscoveryEnabled THEN "discovery" ELSE "lifecycle")
          /\ cycle' = [cycle EXCEPT ![n] = "none"]
          /\ UNCHANGED sinceSend
  /\ UNCHANGED <<exit, hostVars, signalVars, warm, advertised, discovered, sinceBeacon>>

(* Mutated form, for testing properties: send errors are ignored.          *)
heartbeatFaultsOnReceiveOnly(n, result) ==
  realNetworkMutationRequested /\ result.kind = "error"

(* A daemon that may mutate the network faults on a send or receive error. *)
heartbeatFaults(n, result) ==
  realNetworkMutationRequested /\ (cycle[n] = "send_failed" \/ result.kind = "error")

(* The one receive of the iteration ends.  (A cycle with a failed send and *)
(* a good receive would count as a warm-up; but the daemon that goes on    *)
(* after it has no permission to mutate, and no use for the warm-up.)      *)
ReceiveOutcome(n, result) ==
  /\ pc[n] = "receive"
  /\ IF heartbeatFaults(n, result)
     THEN Exit(n, "failure")
     ELSE /\ GoTo(n, IF DiscoveryEnabled THEN "discovery" ELSE "lifecycle")
          /\ cycle' = [cycle EXCEPT ![n] =
               IF result.kind = "error" THEN "failed" ELSE IF @ = "send_failed" THEN @ ELSE "warmed"]
          /\ recent' = [recent EXCEPT ![n] = expirePeers(
               IF result.kind = "message" /\ peerIsConfigured(n, result.status.node_id)
               THEN observe(@, result.status.node_id, result.status)
               ELSE @)]
          /\ UNCHANGED <<exit, warm, advertised, discovered, sinceSend, sinceBeacon>>
  /\ UNCHANGED hostVars

CompleteReceive(n, result) ==
  /\ result.kind = "error" => "receive" \in Faults
  /\ ReceiveOutcome(n, result)
  /\ UNCHANGED signalVars

(* A signal handled by the thread blocked in poll: poll returns EINTR,     *)
(* which the transport reports as an error.                                *)
InterruptReceive(n) ==
  /\ "signal" \in Faults
  /\ ReceiveOutcome(n, ReceiveError)
  /\ pending' = [pending EXCEPT ![n] = TRUE]
  /\ UNCHANGED apiFailed

(* Drain verified beacons (the last of each sender counts), broadcast when *)
(* due, drop stale entries.                                                *)
ExchangeBeacons(n, beacons) ==
  /\ pc[n] = "discovery"
  /\ GoTo(n, "lifecycle")
  /\ discovered' = [discovered EXCEPT ![n] = prune(
       [p \in DOMAIN @ \cup (DOMAIN beacons \ {n}) |->
          IF p \in DOMAIN beacons \ {n} THEN [status |-> beacons[p], age |-> 0] ELSE @[p]])]
  /\ sinceBeacon' = [sinceBeacon EXCEPT ![n] = IF beaconDue(n) THEN 0 ELSE @]
  /\ UNCHANGED <<exit, hostVars, signalVars, warm, advertised, cycle, recent, sinceSend>>

(* Mutated form, for testing properties: the probe's answer is ignored.    *)
operationForAnyOwner(action, owner) ==
  IF wantsMaster(action) THEN "add" ELSE IF wantsBackup(action) /\ owner THEN "remove"
  ELSE "publish"

(* What the lifecycle does next to carry out a decision.                   *)
operationFor(action, owner) ==
  IF wantsMaster(action) /\ ~owner THEN "add"
  ELSE IF wantsBackup(action) /\ owner THEN "remove"
  ELSE "publish"

decisionOf(n, owner) ==
  decideFailoverAction(localStatusFromOwnership(n, owner), peerStatuses(n), electionPolicy(n))

(* Lifecycle without a mutation: a shutdown request, or no VIP to manage.  *)
(* The request is the API thread's own or a signal: that thread polls the  *)
(* signal handler's flag as well, at a moment of its own.                  *)
LifecycleIdle(n) ==
  /\ pc[n] = "lifecycle"
  /\ \E stops \in BOOLEAN :
       /\ IF stops THEN apiFailed[n] \/ (ApiEnabled /\ pending[n])
                   ELSE ~apiFailed[n] /\ ~VipConfigured
       /\ GoTo(n, IF stops THEN "stopping" ELSE "publish")
       /\ advertised' = [advertised EXCEPT ![n] = IF stops THEN @ ELSE "backup"]
  /\ UNCHANGED <<exit, hostVars, signalVars, warm, cycle, recent, discovered,
                 sinceSend, sinceBeacon>>

(* Probe the interface and decide.  A failed probe faults the daemon,      *)
(* except in a dry run, where the host counts as not owning the VIP.       *)
ProbeAndDecide(n, probed) ==
  /\ pc[n] = "lifecycle"
  /\ ~apiFailed[n] /\ VipConfigured
  /\ probed \/ "probe" \in Faults
  /\ LET owner == probed /\ vip[n]
     IN IF ~probed /\ ~DryRun
        THEN Exit(n, "failure")
        ELSE /\ GoTo(n, operationFor(decisionOf(n, owner), owner))
             /\ advertised' = [advertised EXCEPT ![n] = IF owner THEN "master" ELSE "backup"]
             /\ UNCHANGED <<exit, warm, cycle, recent, discovered, sinceSend, sinceBeacon>>
  /\ released' = [released EXCEPT ![n] = FALSE]
  /\ UNCHANGED <<vip, announced, signalVars>>

(* recordVipOperation: an operation that was real while the lifecycle      *)
(* wanted a dry run is a fault, and so is one that failed.                 *)
RecordVipOperation(n, success, next) ==
  IF (requireDryRun(n) /\ ~managerDryRun) \/ ~success
  THEN Exit(n, "failure")
  ELSE GoTo(n, next) /\ UNCHANGED <<exit, loopVars>>

(* Where the interface does not carry the VIP, ip cannot remove it, and    *)
(* arping may refuse to announce it.                                       *)
Refusals(n, kind) ==
  IF vip[n] \/ kind = "add" THEN {} ELSE {[applied |-> FALSE, success |-> FALSE]}

VipCommandResults(n, kind) ==
  IF managerDryRun THEN {[applied |-> FALSE, success |-> TRUE]}
  ELSE IF kind = "remove" /\ ~vip[n] THEN Refusals(n, kind)
  ELSE CommandResults(kind) \cup Refusals(n, kind)

AddVip(n) ==
  /\ pc[n] = "add"
  /\ \E result \in VipCommandResults(n, "add") :
       /\ vip' = [vip EXCEPT ![n] = @ \/ result.applied]
       /\ RecordVipOperation(n, result.success, "announce")
  /\ UNCHANGED <<announced, released, signalVars>>

(* The neighbour caches follow the last announcement.                      *)
AnnounceVip(n) ==
  /\ pc[n] = "announce"
  /\ \E result \in VipCommandResults(n, "announce") :
       /\ announced' = IF result.applied THEN [m \in Node |-> m = n] ELSE announced
       /\ RecordVipOperation(n, result.success, "publish")
  /\ UNCHANGED <<vip, released, signalVars>>

RemoveVip(n) ==
  /\ pc[n] = "remove"
  /\ \E result \in VipCommandResults(n, "remove") :
       /\ vip' = [vip EXCEPT ![n] = @ /\ ~result.applied]
       /\ announced' = [announced EXCEPT ![n] = @ /\ ~result.applied]
       /\ RecordVipOperation(n, result.success, "publish")
  /\ UNCHANGED <<released, signalVars>>

(* Publish the result, end the warm-up, sleep, advance elapsed_ms.         *)
EndIteration(n) ==
  /\ pc[n] = "publish"
  /\ GoTo(n, "asleep")
  /\ warm' = [warm EXCEPT ![n] = @ \/ (realNetworkMutationRequested /\ cycle[n] = "warmed")]
  /\ cycle' = [cycle EXCEPT ![n] = "none"]
  /\ recent' = [recent EXCEPT ![n] = Older(@, HeartbeatTimeout)]
  /\ discovered' = [discovered EXCEPT ![n] = Older(@, DiscoveryTimeout + 1)]
  /\ sinceSend' = [sinceSend EXCEPT ![n] = AtMost(@ + IterationElapsed, HeartbeatInterval)]
  /\ sinceBeacon' = [sinceBeacon EXCEPT ![n] = AtMost(@ + IterationElapsed, DiscoveryInterval)]
  /\ UNCHANGED <<exit, hostVars, signalVars, advertised>>
=============================================================================
