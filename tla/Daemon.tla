------------------------------- MODULE Daemon -------------------------------
(***************************************************************************)
(* The daemon in an open environment: any peer may be heard or stay silent *)
(* in any iteration, and every fault in Faults may strike at any step.     *)
(* What holds here holds in every network the daemon is put in.            *)
(***************************************************************************)
EXTENDS DaemonRuntime

(* What the wire can say of a sender: its own id and priority, and the     *)
(* state it advertises.                                                    *)
WireStatus(ids) ==
  {[node_id |-> id, priority |-> Priority[id], healthy |-> h, heartbeat_seen |-> TRUE,
    state |-> s] : id \in ids, h \in BOOLEAN, s \in {"backup", "master"}}

ReceiveResults ==
  {ReceiveTimeout, ReceiveError} \cup {Received(status) : status \in WireStatus(Id)}

(* Verified beacons of any other nodes of the segment, one per identity.   *)
BeaconSets(n) ==
  UNION {[D -> WireStatus(Segment)] : D \in SUBSET (Segment \ {n})}

OwnBeacons(n) ==
  {b \in BeaconSets(n) : \A id \in DOMAIN b : b[id].node_id = id}

MainThread(n) ==
  \/ StopLoop(n)
  \/ \E sent \in BOOLEAN : BeginIteration(n, sent)
  \/ \E result \in ReceiveResults : CompleteReceive(n, result)
  \/ pc[n] = "discovery" /\ \E beacons \in OwnBeacons(n) : ExchangeBeacons(n, beacons)
  \/ LifecycleIdle(n)
  \/ \E probed \in BOOLEAN : ProbeAndDecide(n, probed)
  \/ AddVip(n)
  \/ AnnounceVip(n)
  \/ RemoveVip(n)
  \/ EndIteration(n)

Environment(n) ==
  \/ OperatorStart(n)
  \/ Kill(n)
  \/ PowerLoss(n)
  \/ Signal(n)
  \/ InterruptReceive(n)
  \/ ApiFailure(n)
  \/ ReleaseVip(n)

Next == \E n \in Node : ServiceStart(n) \/ MainThread(n) \/ Environment(n)

Spec == Init /\ [][Next]_vars

(* Every wait of the main thread is bounded (poll and sleep have timeouts) *)
(* and systemd restarts a failed service, so a step that stays possible is *)
(* taken.  The environment owes nothing.                                   *)
FairSpec == Spec /\ \A n \in Node : WF_vars(ServiceStart(n) \/ MainThread(n))

-----------------------------------------------------------------------------
(* Safety                                                                  *)

Deciding == {"lifecycle", "add", "announce", "remove", "publish"}

(* While a decision is made and carried out, every peer it counts was      *)
(* heard less than a timeout ago.                                          *)
ViewIsFresh ==
  \A n \in Node :
    pc[n] \in Deciding =>
      /\ \A p \in DOMAIN recent[n] : recent[n][p].age < HeartbeatTimeout
      /\ \A p \in DOMAIN discovered[n] : discovered[n][p].age <= DiscoveryTimeout

(* An add is only attempted on an interface without the VIP, a removal and *)
(* an announcement only on one that carries it (failover-safety.md:        *)
(* releases only run when the probe confirms the host holds the VIP), or   *)
(* from which the operator has taken it since the probe.                   *)
OperationsMatchInterface ==
  \A n \in Node :
    /\ pc[n] = "add" /\ ~managerDryRun => ~vip[n]
    /\ pc[n] = "announce" /\ ~managerDryRun => vip[n] \/ released[n]
    /\ pc[n] = "remove" => vip[n] \/ released[n]

(* A daemon that may mutate the network never reaches a VIP operation in   *)
(* an iteration whose heartbeat cycle failed: it fails closed.             *)
HeartbeatFailureFailsClosed ==
  \A n \in Node :
    realNetworkMutationRequested /\ pc[n] \in Deciding \cup {"discovery"} =>
      cycle[n] \notin {"send_failed", "failed"}

(* The running daemon changes the interface only when the operator allowed *)
(* mutation and did not ask for a dry run; else nothing but a loss of      *)
(* power and the operator's own release does.                              *)
DryRunKeepsInterface ==
  [][\A n \in Node :
       pc[n] # "down" /\ vip'[n] # vip[n] =>
         realNetworkMutationRequested \/ Faults \cap {"power", "release"} # {}]_vars

(* The ids a node heard from, itself included, each counted once.          *)
DistinctMembers(n) == {n} \cup {k[2] : k \in DOMAIN peerStatuses(n)}

SeesQuorum(n) ==
  Cardinality(DistinctMembers(n)) >= quorumThreshold(electionPolicy(n))

(* With quorum required, a node puts the VIP on its interface only while   *)
(* it can observe a quorum of distinct members.                            *)
ClaimsSeeQuorum ==
  [][\A n \in Node :
       RequireQuorum /\ ~vip[n] /\ vip'[n] => SeesQuorum(n)]_vars

(* Self-fencing within one iteration: a node that may act never completes  *)
(* one with the VIP on its interface unless it saw a quorum of distinct    *)
(* members in it, whatever commands, probes and heartbeats did before.     *)
OwnersSeeQuorum ==
  \A n \in Node :
    /\ RequireQuorum /\ VipConfigured /\ realNetworkMutationRequested
    /\ pc[n] = "publish" /\ vip[n]
    => SeesQuorum(n)

(* The healthy peers a decision of n counts, and those it yields to: the   *)
(* better ones, of which only a master that none of them outranks matters  *)
(* without preemption.                                                     *)
HealthyPeers(n) ==
  {s \in {peerStatuses(n)[k] : k \in DOMAIN peerStatuses(n)} : s.healthy /\ s.node_id # n}

Superiors(n) ==
  {s \in HealthyPeers(n) :
     /\ Outranks(s, localStatusFromOwnership(n, vip[n]))
     /\ Preempt \/ (s.state = "master" /\ \A t \in HealthyPeers(n) : ~Outranks(t, s))}

(* Whoever is about to add the VIP outranks every healthy peer it counts,  *)
(* and without preemption none of them is a master; and no node that may   *)
(* act completes an iteration with the VIP that it should have yielded.    *)
ElectionIsObeyed ==
  \A n \in Node :
    /\ pc[n] = "add" =>
         \A s \in HealthyPeers(n) :
           /\ Outranks(localStatusFromOwnership(n, vip[n]), s)
           /\ Preempt \/ s.state # "master"
    /\ VipConfigured /\ realNetworkMutationRequested /\ pc[n] = "publish" /\ vip[n] =>
         Superiors(n) = {}

(* A real operation waits for the warm-up: a heartbeat cycle that          *)
(* succeeded in an earlier iteration of the same process.                  *)
MutationAfterWarmup ==
  [][\A n \in Node : pc[n] # "down" /\ vip'[n] # vip[n] => warm[n]]_vars

-----------------------------------------------------------------------------
(* Liveness                                                                *)

(* A shutdown request, by signal or by the API thread, ends the process.   *)
ShutdownStops ==
  \A n \in Node : (pc[n] # "down" /\ (pending[n] \/ apiFailed[n])) ~> pc[n] = "down"

(* Self-fencing: a daemon that stays up does not hold the VIP for ever     *)
(* without seeing a quorum.  (One whose heartbeats, probes or removals     *)
(* fail does not stay up: it ends, with the VIP, and is started again.)    *)
SelfFencing ==
  \A n \in Node :
    <>[](pc[n] # "down") => []<>(~vip[n] \/ SeesQuorum(n))
=============================================================================
