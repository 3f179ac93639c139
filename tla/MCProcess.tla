------------------------------ MODULE MCProcess ------------------------------
(* One process, two clients, a queue of one connection.                    *)
EXTENDS Process

AllFaults == FaultKinds
=============================================================================
