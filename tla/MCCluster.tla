------------------------------ MODULE MCCluster ------------------------------
(* Small clusters: every node lists all others as peers, or those it was   *)
(* onboarded with, and the smallest id has the highest priority.           *)
EXTENDS Cluster

AllOthers    == [n \in Node |-> Node \ {n}]
(* As web/lib/onboarding/cluster.ts leaves a cluster that grew one node at *)
(* a time: a new node inherits the peers of the node whose dashboard adds  *)
(* it, and that node itself; no list of an older node changes.             *)
Onboarded    == [n \in Node |-> {m \in Node : m < n}]
Descending   == [id \in Id |-> 10 - id]

Connected    == {{}}
(* No loss, or one node cut off from the rest in both directions.          *)
CutOff(n)    == ({n} \X (Node \ {n})) \cup ((Node \ {n}) \X {n})
OneCutOff    == {{}} \cup {CutOff(n) : n \in Node}
FirstCutOff  == {{}, CutOff(1)}
(* Any set of links, each direction on its own, may lose datagrams.        *)
AnyLinks     == SUBSET {l \in Node \X Node : l[1] # l[2]}
=============================================================================
