--------------------------- MODULE MCHealthCommand ---------------------------
(* One run of the runner; every process may be stubborn, every call fail.  *)
EXTENDS HealthCommand

AllProcesses == Process
AllFaults    == FaultKinds
=============================================================================
