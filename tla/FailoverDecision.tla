-------------------------- MODULE FailoverDecision --------------------------
(***************************************************************************)
(* The pure decision layer of easy-failover: election by priority          *)
(* (core/Election.cpp) and, on top of it, the quorum gate, non-preemptive  *)
(* election and self-fencing (core/FailoverDecision.cpp).                  *)
(*                                                                         *)
(* A node id is a natural number: the order of the numbers stands for the  *)
(* lexicographic order of the strings, which breaks ties.  The vector of   *)
(* peer statuses is a function: its domain stands for the positions of the *)
(* vector, so one node may appear at two positions.  An std::optional is a *)
(* set with at most one element.                                           *)
(***************************************************************************)
EXTENDS Integers, FiniteSets

NodeState == {"backup", "candidate", "master", "fault"}

FailoverAction ==
  {"StayBackup", "BecomeMaster", "StayMaster", "BecomeBackup", "EnterFault"}

-----------------------------------------------------------------------------
(* Election: the highest priority wins, then the smallest node id.         *)

Outranks(a, b) ==
  \/ a.priority > b.priority
  \/ a.priority = b.priority /\ a.node_id < b.node_id

(* At most one element: two healthy candidates that neither outrank each   *)
(* other are the same record.                                              *)
chooseHighestPriorityHealthyNode(candidates) ==
  {c \in candidates :
     /\ c.healthy
     /\ \A d \in candidates : d.healthy => ~Outranks(d, c)}

-----------------------------------------------------------------------------
(* Quorum: strict majority of the configured cluster unless overridden.    *)

quorumThreshold(policy) ==
  IF policy.quorum_size > 0
  THEN policy.quorum_size
  ELSE (IF policy.cluster_size > 0 THEN policy.cluster_size ELSE 1) \div 2 + 1

(* Mutated form, for testing properties: the node does not count itself.   *)
observedPeersOnly(peers) ==
  Cardinality({i \in DOMAIN peers : peers[i].heartbeat_seen})

(* Counts positions of the vector, not distinct nodes.                     *)
observedClusterMembers(peers) ==
  1 + Cardinality({i \in DOMAIN peers : peers[i].heartbeat_seen})

(* Mutated form, for testing properties: one member fewer is enough.       *)
hasQuorumOffByOne(peers, policy) ==
  policy.require_quorum => observedClusterMembers(peers) + 1 >= quorumThreshold(policy)

hasQuorum(peers, policy) ==
  policy.require_quorum => observedClusterMembers(peers) >= quorumThreshold(policy)

-----------------------------------------------------------------------------
isCandidate(peer) == peer.healthy /\ peer.heartbeat_seen

(* The healthy masters among the observed peers; the code reports the      *)
(* first, and only its existence decides anything.                         *)
healthyPeerMaster(peers) ==
  {peers[i].node_id : i \in {j \in DOMAIN peers :
                               isCandidate(peers[j]) /\ peers[j].state = "master"}}

(* Mutated form, for testing properties: a dual master is not noticed.     *)
peerIsHealthyMasterUnseen(peers, node_id) == FALSE

peerIsHealthyMaster(peers, node_id) == node_id \in healthyPeerMaster(peers)

(* This node, taken as healthy, and every healthy peer that was heard.     *)
electionCandidates(local, peers) ==
  {[node_id |-> local.node_id, priority |-> local.priority, healthy |-> TRUE]}
  \cup {[node_id |-> peers[i].node_id, priority |-> peers[i].priority, healthy |-> TRUE] :
          i \in {j \in DOMAIN peers : isCandidate(peers[j])}}

decideFailoverAction(local, peers, policy) ==
  LET winner       == chooseHighestPriorityHealthyNode(electionCandidates(local, peers))
      master       == local.state = "master"
      selfElected  == \E c \in winner : c.node_id = local.node_id
      defers       == ~policy.preempt /\ healthyPeerMaster(peers) # {}
      keeps        == /\ ~policy.preempt
                      /\ ~\E c \in winner : peerIsHealthyMaster(peers, c.node_id)
  IN CASE ~local.healthy -> "EnterFault"
       [] local.healthy /\ ~hasQuorum(peers, policy) ->
            IF master THEN "BecomeBackup" ELSE "StayBackup"
       [] local.healthy /\ hasQuorum(peers, policy) /\ selfElected ->
            IF master THEN "StayMaster"
            ELSE IF defers THEN "StayBackup" ELSE "BecomeMaster"
       [] OTHER ->
            IF ~master THEN "StayBackup"
            ELSE IF keeps THEN "StayMaster" ELSE "BecomeBackup"

wantsMaster(action) == action \in {"BecomeMaster", "StayMaster"}

wantsBackup(action) == action \in {"BecomeBackup", "StayBackup"}
=============================================================================
