------------------------------ MODULE MCDaemon ------------------------------
(* Small instances of Daemon: one daemon, ids 1 (the daemon) to 4.         *)
EXTENDS Daemon

TwoPeers == [n \in Node |-> {2, 3}]

(* Id 1 is outranked by 2 (priority) and outranks 3 (tie on priority).     *)
MCPriority == [id \in Id |-> IF id = 2 THEN 20 ELSE 10]
=============================================================================
