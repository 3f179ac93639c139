---------------------------- MODULE HealthCommand ----------------------------
(***************************************************************************)
(* One run of a health command: LinuxHealthCommandRunner::run and          *)
(* evaluateHealthCheck above it.                                           *)
(*                                                                         *)
(* Three processes interleave: the caller, the shell it forks (the leader  *)
(* of a process group), and a helper the command may leave in that group.  *)
(* The deadline may pass between any two steps.  The caller's steps are    *)
(* cut at its system calls; reading and writing the pipe of the exec       *)
(* handshake is one step, since a write of that size is one.               *)
(***************************************************************************)
EXTENDS Naturals, FiniteSets

CONSTANTS
  Stubborn,  \* the processes of the command that may ignore SIGTERM
  Faults     \* the system calls that may fail

Process == {"leader", "helper"}

FaultKinds == {"start", "setpgid", "exec", "pipe", "parent_setpgid"}

ASSUME RunnerAssumption ==
  /\ Stubborn \subseteq Process
  /\ Faults \subseteq FaultKinds

VARIABLES
  pc,         \* where the caller is in run()
  outcome,    \* the CommandResult it will return
  health,     \* what evaluateHealthCheck makes of it
  expired,    \* steady_clock is past the deadline
  useGroup,   \* use_pgid
  leader,     \* the forked child, later the shell
  status,     \* how the leader ended, as waitpid tells
  executed,   \* the command was started
  helper,     \* a process the command started
  ignores,    \* the processes that do not die of SIGTERM now
  pipe        \* what the caller can read from the exec-error pipe

callerVars  == <<pc, outcome, health, useGroup>>
commandVars == <<leader, status, executed, helper, ignores, pipe>>
vars        == <<callerVars, expired, commandVars>>

Alive == {"forked", "grouped", "failing", "running"}

(* The two ways to time out yield the same CommandResult; they are kept    *)
(* apart for the properties.                                               *)
TimeoutOutcome == {"timeout_in_handshake", "timeout"}

Outcome ==
  {"none", "not_started", "setpgid_failed", "exec_failed", "protocol_failure", "pipe_failed",
   "exit_zero", "exit_nonzero", "signalled"} \cup TimeoutOutcome

TypeOK ==
  /\ pc \in {"start", "handshake", "reap_failed", "set_group", "wait", "clock", "term_group",
             "term_leader", "grace", "kill_group", "kill_leader", "reap", "done"}
  /\ outcome \in Outcome
  /\ health \in {"none", "Healthy", "Unhealthy"}
  /\ expired \in BOOLEAN /\ useGroup \in BOOLEAN /\ executed \in BOOLEAN
  /\ leader \in Alive \cup {"none", "zombie", "reaped"}
  /\ status \in {"none", "zero", "nonzero", "signal"}
  /\ helper \in {"none", "running", "ended"}
  /\ ignores \subseteq Process
  /\ pipe \in {"open", "setpgid_errno", "exec_errno", "partial", "eof"}

Init ==
  /\ pc = "start"
  /\ outcome = "none" /\ health = "none"
  /\ expired = FALSE /\ useGroup = TRUE
  /\ leader = "none" /\ status = "none" /\ executed = FALSE
  /\ helper = "none" /\ ignores = {}
  /\ pipe = "open"

-----------------------------------------------------------------------------
(* The processes of the command                                            *)

(* A process that ends closes its end of the pipe.                         *)
LeaderEnds(how) ==
  /\ leader' = "zombie"
  /\ status' = how
  /\ pipe' = IF pipe = "open" THEN "eof" ELSE pipe

ChildSetsGroup ==
  /\ leader = "forked"
  /\ leader' \in {"grouped"} \cup (IF "setpgid" \in Faults THEN {"failing"} ELSE {})
  /\ pipe' \in IF leader' = "grouped" THEN {"open"}
               ELSE {"setpgid_errno"} \cup (IF "pipe" \in Faults THEN {"partial", "open"} ELSE {})
  /\ UNCHANGED <<callerVars, expired, status, executed, helper, ignores>>

(* exec closes the pipe, resets the handlers and starts the command, which *)
(* may ignore SIGTERM; a failed exec reports its errno.                    *)
ChildExecs ==
  /\ leader = "grouped"
  /\ \/ /\ leader' = "running"
        /\ executed' = TRUE
        /\ pipe' = "eof"
        /\ ignores' \in SUBSET (Stubborn \cap {"leader"})
     \/ /\ "exec" \in Faults
        /\ leader' = "failing"
        /\ pipe' \in {"exec_errno"} \cup (IF "pipe" \in Faults THEN {"partial", "open"} ELSE {})
        /\ UNCHANGED <<executed, ignores>>
  /\ UNCHANGED <<callerVars, expired, status, helper>>

(* _exit(127) of a child that could not start the command.                 *)
ChildGivesUp ==
  /\ leader = "failing"
  /\ LeaderEnds("nonzero")
  /\ UNCHANGED <<callerVars, expired, executed, helper, ignores>>

(* The command starts a process, which stays in the leader's group.        *)
CommandForks ==
  /\ leader = "running" /\ helper = "none"
  /\ helper' = "running"
  /\ \E more \in SUBSET (Stubborn \cap {"helper"}) : ignores' = ignores \cup more
  /\ UNCHANGED <<callerVars, expired, leader, status, executed, pipe>>

CommandEnds ==
  /\ leader = "running"
  /\ \E how \in {"zero", "nonzero", "signal"} : LeaderEnds(how)
  /\ UNCHANGED <<callerVars, expired, executed, helper, ignores>>

HelperEnds ==
  /\ helper = "running"
  /\ helper' = "ended"
  /\ UNCHANGED <<callerVars, expired, leader, status, executed, ignores, pipe>>

DeadlinePasses ==
  /\ pc # "done"
  /\ ~expired
  /\ expired' = TRUE
  /\ UNCHANGED <<callerVars, commandVars>>

-----------------------------------------------------------------------------
(* The caller                                                              *)

(* Mutated form, for testing a property: the exit code is read without     *)
(* asking whether the command exited; of a signalled one it reads 0.       *)
resultFromExitCode(how) == IF how = "nonzero" THEN "exit_nonzero" ELSE "exit_zero"

(* Mutated form, for testing a property: the raw status is passed on.      *)
resultUnconverted(how) == how

resultFromStatus(how) ==
  CASE how = "zero" -> "exit_zero" [] how = "nonzero" -> "exit_nonzero" [] OTHER -> "signalled"

(* Without a command a host counts as healthy.                             *)
evaluateHealthCheck(result) ==
  IF result \in {"none", "exit_zero"} THEN "Healthy" ELSE "Unhealthy"

Return(result) ==
  /\ pc' = "done"
  /\ outcome' = result
  /\ health' = evaluateHealthCheck(result)

GoTo(place) == pc' = place /\ UNCHANGED <<outcome, health, useGroup>>

Terminate(result) ==
  /\ pc' = "term_group"
  /\ outcome' = result
  /\ UNCHANGED health

Reap == leader = "zombie" /\ leader' = "reaped"

NoCommand ==
  /\ pc = "start"
  /\ Return("none")
  /\ UNCHANGED <<useGroup, expired, commandVars>>

CannotStart ==
  /\ pc = "start"
  /\ "start" \in Faults
  /\ Return("not_started")
  /\ UNCHANGED <<useGroup, expired, commandVars>>

(* The child keeps the caller's SIGTERM handler until it execs: if there   *)
(* is one (main installs it), a SIGTERM before the exec is lost.           *)
Fork ==
  /\ pc = "start"
  /\ GoTo("handshake")
  /\ leader' = "forked"
  /\ ignores' \in SUBSET {"leader"}
  /\ UNCHANGED <<expired, status, executed, helper, pipe>>

HandshakeTimesOut ==
  /\ pc = "handshake"
  /\ expired
  /\ Terminate("timeout_in_handshake")
  /\ UNCHANGED <<useGroup, expired, commandVars>>

(* poll or read fails with an error other than EINTR.                      *)
HandshakeFails ==
  /\ pc = "handshake"
  /\ "pipe" \in Faults
  /\ Terminate("pipe_failed")
  /\ UNCHANGED <<useGroup, expired, commandVars>>

(* A part of an errno is only recognised when the pipe is closed.          *)
ReadErrno ==
  /\ pc = "handshake"
  /\ \/ pipe = "setpgid_errno" /\ outcome' = "setpgid_failed"
     \/ pipe = "exec_errno"    /\ outcome' = "exec_failed"
     \/ pipe = "partial" /\ leader = "zombie" /\ outcome' = "protocol_failure"
  /\ pc' = "reap_failed"
  /\ UNCHANGED <<health, useGroup, expired, commandVars>>

(* Mutated form, for testing a property: nobody waits for the child.       *)
LeaveFailedChild ==
  /\ pc = "reap_failed"
  /\ Return(outcome)
  /\ UNCHANGED <<useGroup, expired, commandVars>>

(* waitpid blocks, whatever the deadline: the child is about to exit.      *)
ReapFailedChild ==
  /\ pc = "reap_failed"
  /\ Reap
  /\ Return(outcome)
  /\ UNCHANGED <<useGroup, expired, status, executed, helper, ignores, pipe>>

ReadEof ==
  /\ pc = "handshake"
  /\ pipe = "eof"
  /\ GoTo("set_group")
  /\ UNCHANGED <<expired, commandVars>>

(* EACCES and ESRCH leave use_pgid on: the child set its group itself.     *)
SetGroup ==
  /\ pc = "set_group"
  /\ useGroup' \in {TRUE} \cup (IF "parent_setpgid" \in Faults THEN {FALSE} ELSE {})
  /\ pc' = "wait"
  /\ UNCHANGED <<outcome, health, expired, commandVars>>

WaitFindsExit ==
  /\ pc = "wait"
  /\ Reap
  /\ Return(resultFromStatus(status))
  /\ UNCHANGED <<useGroup, expired, status, executed, helper, ignores, pipe>>

WaitFindsNothing ==
  /\ pc = "wait"
  /\ leader # "zombie"
  /\ GoTo("clock")
  /\ UNCHANGED <<expired, commandVars>>

LookAtClock ==
  /\ pc = "clock"
  /\ \/ expired /\ Terminate("timeout")
     \/ ~expired /\ pc' = "wait" /\ UNCHANGED <<outcome, health>>
  /\ UNCHANGED <<useGroup, expired, commandVars>>

-----------------------------------------------------------------------------
(* terminateProcessGroup                                                   *)

(* The members of the group: none before the child has called setpgid.     *)
Group ==
  (IF leader \in Alive \ {"forked"} THEN {"leader"} ELSE {})
    \cup (IF helper = "running" THEN {"helper"} ELSE {})

(* The processes in targets get a signal that those in immune survive.     *)
Deliver(targets, immune) ==
  /\ helper' = IF "helper" \in targets \ immune /\ helper = "running" THEN "ended" ELSE helper
  /\ IF "leader" \in targets \ immune /\ leader \in Alive
     THEN LeaderEnds("signal")
     ELSE UNCHANGED <<leader, status, pipe>>
  /\ UNCHANGED <<executed, ignores>>

(* Mutated form, for testing a property: SIGTERM goes to the leader only.  *)
groupOfLeaderOnly == {"leader"}

(* kill(-child_pid, SIGTERM); the group does not exist before the child    *)
(* has called setpgid, and the signal is then nobody's.                    *)
groupTargets == IF useGroup THEN Group ELSE {}

TermGroup ==
  /\ pc = "term_group"
  /\ GoTo("term_leader")
  /\ Deliver(groupTargets, ignores)
  /\ UNCHANGED expired

TermLeader ==
  /\ pc = "term_leader"
  /\ GoTo("grace")
  /\ Deliver({"leader"}, ignores)
  /\ UNCHANGED expired

(* Mutated form, for testing a property: once the leader is reaped the     *)
(* group is killed all the same.                                           *)
afterGraceKillAll == "kill_group"

(* The leader ended in the grace period: terminateProcessGroup returns,    *)
(* whatever is left of the group.                                          *)
afterGrace == "done"

GraceFindsExit ==
  /\ pc = "grace"
  /\ Reap
  /\ pc' = afterGrace
  /\ health' = evaluateHealthCheck(outcome)
  /\ UNCHANGED <<outcome, useGroup, expired, status, executed, helper, ignores, pipe>>

GraceEnds ==
  /\ pc = "grace"
  /\ GoTo("kill_group")
  /\ UNCHANGED <<expired, commandVars>>

(* SIGKILL is survived by nobody.                                          *)
KillGroup ==
  /\ pc = "kill_group"
  /\ GoTo("kill_leader")
  /\ Deliver(groupTargets, {})
  /\ UNCHANGED expired

(* Mutated form, for testing a property: SIGTERM once more.                *)
immuneToTheLastSignal == ignores

immuneToKill == {}

KillLeader ==
  /\ pc = "kill_leader"
  /\ GoTo("reap")
  /\ Deliver({"leader"}, immuneToKill)
  /\ UNCHANGED expired

ReapKilled ==
  /\ pc = "reap"
  /\ Reap
  /\ Return(outcome)
  /\ UNCHANGED <<useGroup, expired, status, executed, helper, ignores, pipe>>

(* run() has returned; what is left of the command goes its own way.       *)
Returned == pc = "done" /\ UNCHANGED vars

Caller ==
  \/ NoCommand \/ CannotStart \/ Fork
  \/ HandshakeTimesOut \/ HandshakeFails \/ ReadErrno \/ ReapFailedChild \/ ReadEof
  \/ SetGroup \/ WaitFindsExit \/ WaitFindsNothing \/ LookAtClock
  \/ TermGroup \/ TermLeader \/ GraceFindsExit \/ GraceEnds
  \/ KillGroup \/ KillLeader \/ ReapKilled

Child   == ChildSetsGroup \/ ChildExecs \/ ChildGivesUp
Command == CommandForks \/ CommandEnds \/ HelperEnds

Next == Caller \/ Child \/ Command \/ DeadlinePasses \/ Returned

Spec == Init /\ [][Next]_vars

(* The scheduler runs the caller and the forked copy of it, and time       *)
(* passes.  The command owes nothing: it may run, or sleep, for ever.      *)
FairSpec ==
  /\ Spec
  /\ WF_vars(Caller) /\ WF_vars(Child) /\ WF_vars(DeadlinePasses)

-----------------------------------------------------------------------------
(* Safety                                                                  *)

(* What is reported is what happened: a host is healthy only through a     *)
(* command that ran and itself exited with 0, a command that failed to     *)
(* start never ran, a timeout is reported only after the deadline, and a   *)
(* command that exited with 0 in time is not turned into a failure.        *)
ReportIsTrue ==
  pc = "done" =>
    /\ health = "Healthy" => outcome = "none" \/ (executed /\ status = "zero")
    /\ outcome \in {"setpgid_failed", "exec_failed", "not_started"} => ~executed
    /\ outcome \in TimeoutOutcome => expired
    /\ executed /\ status = "zero" /\ ~expired => outcome \in {"exit_zero", "pipe_failed"}

(* run() leaves neither a zombie nor a running shell behind, on whichever  *)
(* of its paths it returns.                                                *)
NothingLeftToReap == pc = "done" => leader \in {"none", "reaped"}

(* kill() names the child only while it is not reaped: afterwards the pid  *)
(* may be another process's.                                               *)
SignalsHitTheChild ==
  pc \in {"term_group", "term_leader", "kill_group", "kill_leader"} =>
    leader \notin {"none", "reaped"}

(* After a timeout of a command that was watched in its own group, no      *)
(* process of the group is left, if none of them ignores SIGTERM.  One     *)
(* that does is left over when the leader goes first: see GroupIsGone.     *)
PoliteGroupIsGone ==
  pc = "done" /\ outcome = "timeout" /\ useGroup /\ ignores = {} => helper # "running"

(* macos-support.md on this runner: on timeout it terminates the whole     *)
(* group with SIGTERM then SIGKILL.                                        *)
GroupIsGone ==
  pc = "done" /\ outcome = "timeout" => helper # "running"

-----------------------------------------------------------------------------
(* Liveness                                                                *)

(* run() returns, whatever the command does.                               *)
RunReturns == <>(pc = "done")
=============================================================================
