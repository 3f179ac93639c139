------------------------ MODULE HealthCommand_proofs ------------------------
(***************************************************************************)
(* Theorems about HealthCommand, for every set of processes that may       *)
(* ignore SIGTERM and every set of system calls that may fail: whatever    *)
(* way run() goes, it reaps its child, signals nobody else, and tells the  *)
(* truth about the command.                                                *)
(***************************************************************************)
EXTENDS HealthCommand, TLAPS

(* The child exists, not yet reaped, exactly while run() works on it.      *)
ChildInv ==
  leader \in {"none", "reaped"} <=> pc \in {"start", "done"}

(* What is known of the child: it executed the command if it runs or ended *)
(* with 0, an errno in the pipe says that it did not, end of file says     *)
(* that it will not be anything but the command any more.                  *)
CommandInv ==
  /\ leader = "none" => pipe = "open"
  /\ leader \in {"none", "forked", "grouped", "failing"} => ~executed
  /\ leader = "running" \/ status = "zero" => executed
  /\ status = "none" <=> leader \in Alive \cup {"none"}
  /\ pipe \in {"setpgid_errno", "exec_errno", "partial"} =>
       leader \in {"failing", "zombie", "reaped"} /\ ~executed
  /\ pipe = "eof" => leader \in {"running", "zombie", "reaped"}

(* What the caller has come to know in each place.                         *)
CallerInv ==
  /\ pc \in {"start", "handshake", "set_group", "wait", "clock"} => outcome = "none"
  /\ pc \in {"set_group", "wait", "clock"} => pipe = "eof"
  /\ pc = "start" => leader = "none"
  /\ pc = "reap_failed" => outcome \in {"setpgid_failed", "exec_failed", "protocol_failure"}
  /\ pc \in {"term_group", "term_leader", "grace", "kill_group", "kill_leader", "reap"} =>
       outcome \in TimeoutOutcome \cup {"pipe_failed"}
  /\ pc = "done" => health = evaluateHealthCheck(outcome)

(* What an outcome means.                                                  *)
OutcomeInv ==
  /\ outcome \in TimeoutOutcome => expired
  /\ outcome = "timeout" => pipe = "eof"
  /\ outcome \in {"setpgid_failed", "exec_failed", "protocol_failure"} =>
       leader \in {"failing", "zombie", "reaped"} /\ ~executed
  /\ outcome = "not_started" => leader = "none"
  /\ pc = "done" /\ outcome = "none" => leader = "none"
  /\ outcome = "exit_zero" => status = "zero"
  /\ outcome = "exit_nonzero" => status = "nonzero"
  /\ outcome = "signalled" => status = "signal"

Inv == TypeOK /\ ChildInv /\ CommandInv /\ CallerInv /\ OutcomeInv

(* The initial state.                                                      *)
LEMMA InitInv == Init => Inv
  BY DEF Init, Inv, TypeOK, Outcome, TimeoutOutcome, Alive,
         ChildInv, CommandInv, CallerInv, OutcomeInv

(* What a signal does to the group: the leader may become a zombie, the    *)
(* helper may end, and a closed pipe reads end of file.                    *)
LEMMA DeliverEffect ==
  ASSUME TypeOK, NEW targets \in SUBSET Process, NEW immune \in SUBSET Process,
         Deliver(targets, immune)
  PROVE  /\ UNCHANGED <<executed, ignores>>
         /\ helper' \in {"none", "running", "ended"}
         /\ helper' # helper => helper' = "ended"
         /\ \/ UNCHANGED <<leader, status, pipe>>
            \/ /\ leader \in Alive /\ leader' = "zombie" /\ status' = "signal"
               /\ pipe' = IF pipe = "open" THEN "eof" ELSE pipe
  BY DEF Deliver, LeaderEnds, TypeOK

(* The child and the command keep the invariant, and so does time.         *)
LEMMA CommandKeepsInv == Inv /\ (Child \/ Command \/ DeadlinePasses) => Inv'
  <1> SUFFICES ASSUME Inv, Child \/ Command \/ DeadlinePasses PROVE Inv'
    OBVIOUS
  <1> USE DEF Inv, TypeOK, Outcome, TimeoutOutcome, Alive, Process,
              ChildInv, CommandInv, CallerInv, OutcomeInv, callerVars, commandVars
  <1>1. CASE ChildSetsGroup
    BY <1>1 DEF ChildSetsGroup
  <1>2. CASE ChildExecs
    <2>1. ignores' \in SUBSET Process
      BY <1>2 DEF ChildExecs
    <2>2. CASE leader' = "running"
      BY <1>2, <2>1, <2>2 DEF ChildExecs
    <2>3. CASE leader' = "failing"
      BY <1>2, <2>1, <2>3 DEF ChildExecs
    <2> QED
      BY <1>2, <2>2, <2>3 DEF ChildExecs
  <1>3. CASE ChildGivesUp
    BY <1>3 DEF ChildGivesUp, LeaderEnds
  <1>4. CASE CommandForks
    BY <1>4, RunnerAssumption DEF CommandForks
  <1>5. CASE CommandEnds
    BY <1>5 DEF CommandEnds, LeaderEnds
  <1>6. CASE HelperEnds
    BY <1>6 DEF HelperEnds
  <1>7. CASE DeadlinePasses
    BY <1>7 DEF DeadlinePasses
  <1> QED
    BY <1>1, <1>2, <1>3, <1>4, <1>5, <1>6, <1>7 DEF Child, Command

(* The caller, up to where it gives the command up.                        *)
LEMMA WaitingKeepsInv ==
  ASSUME Inv,
         \/ NoCommand \/ CannotStart \/ Fork
         \/ HandshakeTimesOut \/ HandshakeFails \/ ReadErrno \/ ReapFailedChild \/ ReadEof
         \/ SetGroup \/ WaitFindsExit \/ WaitFindsNothing \/ LookAtClock
  PROVE  Inv'
  <1> USE DEF Inv, TypeOK, Outcome, TimeoutOutcome, Alive, Process, evaluateHealthCheck,
              ChildInv, CommandInv, CallerInv, OutcomeInv, callerVars, commandVars
  <1>1. CASE NoCommand
    BY <1>1 DEF NoCommand, Return
  <1>10. CASE CannotStart
    BY <1>10 DEF CannotStart, Return
  <1>2. CASE Fork
    BY <1>2 DEF Fork, GoTo
  <1>3. CASE HandshakeTimesOut
    BY <1>3 DEF HandshakeTimesOut, Terminate
  <1>11. CASE HandshakeFails
    BY <1>11 DEF HandshakeFails, Terminate
  <1>4. CASE ReadErrno
    BY <1>4 DEF ReadErrno
  <1>5. CASE ReapFailedChild
    BY <1>5 DEF ReapFailedChild, Reap, Return
  <1>6. CASE ReadEof
    BY <1>6 DEF ReadEof, GoTo
  <1>7. CASE SetGroup
    BY <1>7 DEF SetGroup
  <1>8. CASE WaitFindsExit
    BY <1>8 DEF WaitFindsExit, Reap, Return, resultFromStatus
  <1>9. CASE WaitFindsNothing \/ LookAtClock
    BY <1>9 DEF WaitFindsNothing, LookAtClock, GoTo, Terminate
  <1> QED
    BY <1>1, <1>2, <1>3, <1>4, <1>5, <1>6, <1>7, <1>8, <1>9, <1>10, <1>11

(* The groups that are signalled.                                          *)
LEMMA TargetsAreProcesses ==
  ASSUME TypeOK
  PROVE  groupTargets \in SUBSET Process /\ {"leader"} \in SUBSET Process
         /\ ignores \in SUBSET Process /\ immuneToKill \in SUBSET Process
         /\ {} \in SUBSET Process
  BY DEF groupTargets, Group, Process, TypeOK, immuneToKill

(* terminateProcessGroup.                                                  *)
LEMMA TerminationKeepsInv ==
  ASSUME Inv,
         \/ TermGroup \/ TermLeader \/ GraceFindsExit \/ GraceEnds
         \/ KillGroup \/ KillLeader \/ ReapKilled
  PROVE  Inv'
  <1>1. ASSUME NEW targets \in SUBSET Process, NEW immune \in SUBSET Process,
               Deliver(targets, immune),
               UNCHANGED <<outcome, health, useGroup, expired>>,
               pc \in {"term_group", "term_leader", "kill_group", "kill_leader"},
               pc' \in {"term_leader", "grace", "kill_leader", "reap"}
        PROVE  Inv'
    <2>1. /\ UNCHANGED <<executed, ignores>>
          /\ helper' \in {"none", "running", "ended"}
          /\ \/ UNCHANGED <<leader, status, pipe>>
             \/ /\ leader \in Alive /\ leader' = "zombie" /\ status' = "signal"
                /\ pipe' = IF pipe = "open" THEN "eof" ELSE pipe
      BY <1>1, DeliverEffect DEF Inv
    <2> QED
      BY <1>1, <2>1
         DEF Inv, TypeOK, Outcome, TimeoutOutcome, Alive, Process,
             ChildInv, CommandInv, CallerInv, OutcomeInv
  <1>2. CASE TermGroup \/ TermLeader \/ KillGroup \/ KillLeader
    BY <1>1, <1>2, TargetsAreProcesses DEF TermGroup, TermLeader, KillGroup, KillLeader, GoTo, Inv
  <1> USE DEF Inv, TypeOK, Outcome, TimeoutOutcome, Alive, Process, evaluateHealthCheck,
              ChildInv, CommandInv, CallerInv, OutcomeInv, callerVars, commandVars
  <1>3. CASE GraceFindsExit
    BY <1>3 DEF GraceFindsExit, Reap, afterGrace
  <1>4. CASE GraceEnds
    BY <1>4 DEF GraceEnds, GoTo
  <1>5. CASE ReapKilled
    BY <1>5 DEF ReapKilled, Reap, Return
  <1> QED
    BY <1>2, <1>3, <1>4, <1>5

(* Inv is inductive.                                                       *)
LEMMA NextInv == Inv /\ [Next]_vars => Inv'
  <1> SUFFICES ASSUME Inv, [Next]_vars PROVE Inv'
    OBVIOUS
  <1>1. CASE UNCHANGED vars
    BY <1>1 DEF vars, callerVars, commandVars, Inv, TypeOK, Outcome, TimeoutOutcome, Alive,
                ChildInv, CommandInv, CallerInv, OutcomeInv
  <1> QED
    BY <1>1, CommandKeepsInv, WaitingKeepsInv, TerminationKeepsInv DEF Next, Caller, Returned

(* Every variable of a run keeps its type.                                 *)
THEOREM RunTypesKept == Spec => []TypeOK
  <1>1. Inv => TypeOK
    BY DEF Inv
  <1> QED
    BY <1>1, InitInv, NextInv, PTL DEF Spec

(* run() never returns without having reaped its child.                    *)
THEOREM ChildIsReaped == Spec => []NothingLeftToReap
  <1>1. Inv => NothingLeftToReap
    BY DEF Inv, ChildInv, NothingLeftToReap
  <1> QED
    BY <1>1, InitInv, NextInv, PTL DEF Spec

(* A signal is sent only while the child is not reaped.                    *)
THEOREM SignalsStayOnTarget == Spec => []SignalsHitTheChild
  <1>1. Inv => SignalsHitTheChild
    BY DEF Inv, ChildInv, SignalsHitTheChild
  <1> QED
    BY <1>1, InitInv, NextInv, PTL DEF Spec

(* What run() and the health check above it report is what happened.       *)
THEOREM ReportStaysTrue == Spec => []ReportIsTrue
  <1>1. Inv => ReportIsTrue
    BY DEF Inv, ReportIsTrue, TypeOK, Outcome, TimeoutOutcome, Alive, evaluateHealthCheck,
           ChildInv, CommandInv, CallerInv, OutcomeInv
  <1> QED
    BY <1>1, InitInv, NextInv, PTL DEF Spec

-----------------------------------------------------------------------------
(* Once a group that ignores nothing was sent SIGTERM, no one is left to   *)
(* start another process.                                                  *)
GroupInv ==
  /\ Inv
  /\ /\ pc \in {"term_leader", "grace", "kill_group", "kill_leader", "reap", "done"}
     /\ outcome = "timeout" /\ useGroup /\ ignores = {}
     => leader \in {"zombie", "reaped"} /\ helper # "running"

(* GroupInv is inductive.                                                  *)
LEMMA NextGroupInv == GroupInv /\ [Next]_vars => GroupInv'
  <1> SUFFICES ASSUME GroupInv, [Next]_vars PROVE GroupInv'
    OBVIOUS
  <1>0. Inv /\ Inv'
    BY NextInv DEF GroupInv
  <1> USE DEF callerVars, commandVars
  <1>1. CASE UNCHANGED vars
    BY <1>0, <1>1 DEF vars, GroupInv
  <1>2. CASE Child \/ Command \/ DeadlinePasses
    BY <1>0, <1>2
       DEF Child, Command, DeadlinePasses, ChildSetsGroup, ChildExecs, ChildGivesUp,
           CommandForks, CommandEnds, HelperEnds, LeaderEnds, GroupInv,
           Inv, OutcomeInv, CommandInv
  <1>3. CASE NoCommand \/ CannotStart \/ Fork \/ HandshakeTimesOut \/ HandshakeFails
             \/ ReadErrno \/ ReapFailedChild \/ ReadEof \/ SetGroup \/ WaitFindsExit
             \/ WaitFindsNothing \/ LookAtClock
    BY <1>0, <1>3
       DEF NoCommand, CannotStart, Fork, HandshakeTimesOut, HandshakeFails, ReadErrno,
           ReapFailedChild, ReadEof, SetGroup, WaitFindsExit, WaitFindsNothing, LookAtClock,
           Return, Terminate, GoTo, Reap, resultFromStatus, GroupInv, Inv, CallerInv
  <1>4. CASE TermGroup
    <2>1. SUFFICES ASSUME outcome = "timeout", useGroup, ignores' = {}
                   PROVE  leader' \in {"zombie", "reaped"} /\ helper' # "running"
      BY <1>0, <1>4 DEF TermGroup, GoTo, GroupInv
    <2>2. leader \in {"running", "zombie"} /\ ignores = {}
      BY <1>0, <1>4, <2>1
         DEF TermGroup, Deliver, Inv, OutcomeInv, CommandInv, ChildInv
    <2>3. groupTargets = Group
      BY <2>1 DEF groupTargets
    <2> QED
      BY <1>4, <2>2, <2>3 DEF TermGroup, Deliver, LeaderEnds, Group, Alive
  <1>5. ASSUME NEW targets \in SUBSET Process, NEW immune \in SUBSET Process,
               Deliver(targets, immune), UNCHANGED <<outcome, useGroup>>,
               pc \in {"term_leader", "kill_group", "kill_leader"}
        PROVE  GroupInv'
    BY <1>0, <1>5, DeliverEffect DEF GroupInv, Inv, Alive
  <1>6. CASE TermLeader \/ KillGroup \/ KillLeader
    BY <1>0, <1>5, <1>6, TargetsAreProcesses DEF TermLeader, KillGroup, KillLeader, GoTo, Inv
  <1>7. CASE GraceFindsExit \/ GraceEnds \/ ReapKilled
    BY <1>0, <1>7 DEF GraceFindsExit, GraceEnds, ReapKilled, Reap, Return, GoTo, GroupInv
  <1> QED
    BY <1>1, <1>2, <1>3, <1>4, <1>6, <1>7 DEF Next, Caller, Returned

(* After a timeout nothing is left of a group that ignores no SIGTERM.     *)
THEOREM PoliteGroupGoes == Spec => []PoliteGroupIsGone
  <1>1. Init => GroupInv
    BY InitInv DEF Init, GroupInv
  <1>2. GroupInv => PoliteGroupIsGone
    BY DEF GroupInv, PoliteGroupIsGone
  <1> QED
    BY <1>1, <1>2, NextGroupInv, PTL DEF Spec
=============================================================================
