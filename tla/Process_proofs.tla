--------------------------- MODULE Process_proofs ---------------------------
(***************************************************************************)
(* Theorems about Process, for every set of clients and of faults and for  *)
(* every bound: whatever order the threads run in, the reason and the exit *)
(* status of a shutdown are true, the start-up state is there while the    *)
(* API thread needs it, and no command is taken for a success falsely.     *)
(***************************************************************************)
EXTENDS Process, TLAPS

(* Main has left the loop and told the API thread to stop.                 *)
Ending == {"join", "judge", "unwind_join", "exited"}

(* Main leaves by an early return or an exception.                         *)
Unwinding == {"unwind", "guard", "unwind_join"}

(* A recorded signal was delivered; "unknown" stands for a failure of the  *)
(* API thread until main itself ends; the flag never precedes the reason.  *)
ShutdownInv ==
  /\ pending # "none" => pending \in delivered
  /\ signal \in Signals => signal \in delivered
  /\ signal = "unknown" => served = "error" \/ startup.exception \/ main \in Ending
  /\ requested \/ api \in {"flag_then_stop", "flag_then_end"} => signal # "none"
  /\ api \in {"request", "flag_then_end"} => served = "error" \/ startup.exception

(* What the start-up state says of the two threads.                        *)
StartupInv ==
  /\ startup.reported => api \notin {"none", "opening", "report", "report_failure"}
  /\ startup.failed => startup.reported
  /\ startup.failed \/ startup.exception => main \notin {"boot", "launch"}
  /\ startup.failed => api \in {"store_error", "request", "flag_then_end", "ended"}
  /\ startup.failed => main \in Unwinding \cup {"await", "exited"}
  /\ startup.exception => startup.reported /\ api \in {"request", "flag_then_end", "ended"}
  /\ served = "error" => startup.reported /\ api \in {"request", "flag_then_end", "ended"}
  /\ api \notin {"none", "opening", "report", "report_failure", "caught"} => startup.reported
  /\ api # "none" => ready /\ main \notin {"boot", "launch"}
  /\ ready => startup.reported \/ main \in Unwinding \cup {"boot", "launch", "await", "exited"}
  /\ main = "await" => api # "none"

(* How main ends.                                                          *)
EndInv ==
  /\ threw => main \in Unwinding \cup {"exited"}
  /\ main \in Unwinding => threw \/ startup.failed \/ startup.exception
  /\ startupGone => main \in {"guard", "unwind_join", "exited"}
  /\ exit # "none" <=> main = "exited"

(* The last command.                                                       *)
CommandInv ==
  /\ command.status # "none" <=> command.state = "ended"
  /\ command.state \in {"running", "closed"} \/ command.status = "zero" => command.started
  /\ result = "success" => command.status = "zero"

Inv ==
  /\ TypeOK /\ ShutdownInv /\ StartupInv /\ EndInv /\ CommandInv
  /\ ExitTellsFailure /\ ReasonIsTrue

(* The initial state.                                                      *)
LEMMA InitInv == Init => Inv
  <1> SUFFICES ASSUME Init PROVE Inv
    OBVIOUS
  <1> USE DEF Init, NoCommandYet
  <1>1. PlacesOK /\ FlagsOK /\ RecordsOK
    BY DEF PlacesOK, FlagsOK, RecordsOK, Signals
  <1>2. BoundsOK
    BY ProcessAssumption DEF BoundsOK
  <1>3. ShutdownInv /\ ReasonIsTrue
    BY DEF ShutdownInv, ReasonIsTrue, Signals
  <1>4. StartupInv
    BY DEF StartupInv
  <1>5. EndInv /\ CommandInv /\ ExitTellsFailure
    BY DEF EndInv, CommandInv, ExitTellsFailure, Unwinding
  <1> QED
    BY <1>1, <1>2, <1>3, <1>4, <1>5 DEF Inv, TypeOK

(* Main, until the loop runs.                                              *)
LEMMA StartKeepsInv ==
  ASSUME Inv, Running,
         \/ InstallHandlers \/ Launch \/ AwaitStartup
  PROVE  Inv'
  <1> USE ProcessAssumption
      DEF Inv, TypeOK, Signals, Ending, Unwinding, Running,
          mainVars, threadVars, apiVars, startupVars, clientVars, outside, shutdownVars,
          commandVars
  <1>1. CASE InstallHandlers
    BY <1>1
       DEF InstallHandlers, GoTo,
           PlacesOK, FlagsOK, RecordsOK, BoundsOK,
           ShutdownInv, StartupInv, EndInv, CommandInv, ExitTellsFailure, ReasonIsTrue
  <1>2. CASE Launch
    <2> USE <1>2 DEF Launch, PollSignals, RequestShutdown, GoTo, Throw
    <2>1. PlacesOK'
      BY DEF PlacesOK
    <2>2. FlagsOK'
      BY DEF FlagsOK
    <2>3. RecordsOK'
      BY DEF RecordsOK
    <2>4. BoundsOK'
      BY DEF BoundsOK
    <2>5. ShutdownInv' /\ ReasonIsTrue'
      BY DEF PlacesOK, FlagsOK, RecordsOK, ShutdownInv, StartupInv, ReasonIsTrue
    <2>6. StartupInv'
      BY DEF PlacesOK, FlagsOK, RecordsOK, StartupInv, EndInv
    <2>7. EndInv' /\ ExitTellsFailure'
      BY DEF PlacesOK, FlagsOK, RecordsOK, EndInv, StartupInv, ExitTellsFailure
    <2>8. CommandInv'
      BY DEF PlacesOK, FlagsOK, RecordsOK, CommandInv
    <2> QED
      BY <2>1, <2>2, <2>3, <2>4, <2>5, <2>6, <2>7, <2>8
  <1>3. CASE AwaitStartup
    BY <1>3
       DEF AwaitStartup, GoTo, startupReported,
           PlacesOK, FlagsOK, RecordsOK, BoundsOK,
           ShutdownInv, StartupInv, EndInv, CommandInv, ExitTellsFailure, ReasonIsTrue
  <1> QED
    BY <1>1, <1>2, <1>3

(* A command that was just forked, or could not be.                        *)
LEMMA RunCommandKeepsRecords ==
  ASSUME RecordsOK, RunCommand
  PROVE  RecordsOK'
  <1>1. startup' = startup
    BY DEF RunCommand, threadVars, startupVars
  <1>2. \/ command' = [state |-> "setup", started |-> FALSE, status |-> "none"]
        \/ command' = [state |-> "none", started |-> FALSE, status |-> "none"]
    BY DEF RunCommand, NoCommandYet
  <1>3. CASE command' = [state |-> "setup", started |-> FALSE, status |-> "none"]
    BY <1>1, <1>3 DEF RecordsOK
  <1>4. CASE command' = [state |-> "none", started |-> FALSE, status |-> "none"]
    BY <1>1, <1>4 DEF RecordsOK
  <1> QED
    BY <1>2, <1>3, <1>4

(* The loop and its commands.                                              *)
LEMMA LoopKeepsInv ==
  ASSUME Inv, Running,
         \/ LoopTop \/ EnterLifecycle \/ RunCommand \/ ReadOutput \/ ReapCommand
         \/ EndCommands \/ LoopThrows \/ Publish \/ CommandRuns
  PROVE  Inv'
  <1> USE ProcessAssumption
      DEF Inv, TypeOK, Signals, Ending, Unwinding, Running,
          mainVars, threadVars, apiVars, startupVars, clientVars, outside, shutdownVars,
          commandVars
  <1>1. CASE LoopTop
    <2> USE <1>1 DEF LoopTop, PollSignals, RequestShutdown, reasonOf
    <2>1. PlacesOK'
      BY DEF PlacesOK
    <2>2. FlagsOK'
      BY DEF FlagsOK
    <2>3. RecordsOK'
      BY DEF RecordsOK
    <2>4. BoundsOK'
      BY DEF BoundsOK
    <2>5. ShutdownInv' /\ ReasonIsTrue'
      BY DEF PlacesOK, FlagsOK, RecordsOK, ShutdownInv, StartupInv, ReasonIsTrue
    <2>6. StartupInv'
      BY DEF PlacesOK, FlagsOK, RecordsOK, StartupInv, EndInv
    <2>7. EndInv' /\ ExitTellsFailure'
      BY DEF PlacesOK, FlagsOK, RecordsOK, EndInv, StartupInv, ExitTellsFailure
    <2>8. CommandInv'
      BY DEF PlacesOK, FlagsOK, RecordsOK, CommandInv
    <2> QED
      BY <2>1, <2>2, <2>3, <2>4, <2>5, <2>6, <2>7, <2>8
  <1>2. CASE EnterLifecycle
    BY <1>2
       DEF EnterLifecycle, reasonOf,
           PlacesOK, FlagsOK, RecordsOK, BoundsOK,
           ShutdownInv, StartupInv, EndInv, CommandInv, ExitTellsFailure, ReasonIsTrue
  <1>3. CASE RunCommand
    <2> USE <1>3 DEF RunCommand, GoTo, NoCommandYet
    <2>1. PlacesOK'
      BY DEF PlacesOK
    <2>2. FlagsOK'
      BY DEF FlagsOK
    <2>3. RecordsOK'
      BY RunCommandKeepsRecords
    <2>4. BoundsOK'
      BY DEF BoundsOK
    <2>5. ShutdownInv' /\ ReasonIsTrue'
      BY DEF PlacesOK, FlagsOK, RecordsOK, ShutdownInv, StartupInv, ReasonIsTrue
    <2>6. StartupInv'
      BY DEF PlacesOK, FlagsOK, RecordsOK, StartupInv, EndInv
    <2>7. EndInv' /\ ExitTellsFailure'
      BY DEF PlacesOK, FlagsOK, RecordsOK, EndInv, StartupInv, ExitTellsFailure
    <2>8. CommandInv'
      BY DEF PlacesOK, FlagsOK, RecordsOK, CommandInv
    <2> QED
      BY <2>1, <2>2, <2>3, <2>4, <2>5, <2>6, <2>7, <2>8
  <1>4. CASE ReadOutput
    BY <1>4
       DEF ReadOutput, GoTo,
           PlacesOK, FlagsOK, RecordsOK, BoundsOK,
           ShutdownInv, StartupInv, EndInv, CommandInv, ExitTellsFailure, ReasonIsTrue
  <1>5. CASE ReapCommand
    BY <1>5
       DEF ReapCommand, GoTo, verdict, succeeded,
           PlacesOK, FlagsOK, RecordsOK, BoundsOK,
           ShutdownInv, StartupInv, EndInv, CommandInv, ExitTellsFailure, ReasonIsTrue
  <1>6. CASE EndCommands
    <2> USE <1>6 DEF EndCommands
    <2>1. PlacesOK'
      BY DEF PlacesOK
    <2>2. FlagsOK'
      BY DEF FlagsOK
    <2>3. RecordsOK'
      BY DEF RecordsOK
    <2>4. BoundsOK'
      BY DEF BoundsOK
    <2>5. ShutdownInv' /\ ReasonIsTrue'
      BY DEF PlacesOK, FlagsOK, RecordsOK, ShutdownInv, StartupInv, ReasonIsTrue
    <2>6. StartupInv'
      BY DEF PlacesOK, FlagsOK, RecordsOK, StartupInv, EndInv
    <2>7. EndInv' /\ ExitTellsFailure'
      BY DEF PlacesOK, FlagsOK, RecordsOK, EndInv, StartupInv, ExitTellsFailure
    <2>8. CommandInv'
      BY DEF PlacesOK, FlagsOK, RecordsOK, CommandInv
    <2> QED
      BY <2>1, <2>2, <2>3, <2>4, <2>5, <2>6, <2>7, <2>8
  <1>7. CASE LoopThrows
    BY <1>7
       DEF LoopThrows, Throw,
           PlacesOK, FlagsOK, RecordsOK, BoundsOK,
           ShutdownInv, StartupInv, EndInv, CommandInv, ExitTellsFailure, ReasonIsTrue
  <1>8. CASE Publish
    BY <1>8
       DEF Publish, GoTo,
           PlacesOK, FlagsOK, RecordsOK, BoundsOK,
           ShutdownInv, StartupInv, EndInv, CommandInv, ExitTellsFailure, ReasonIsTrue
  <1>9. CASE CommandRuns
    <2> USE <1>9 DEF CommandRuns
    <2>1. PlacesOK'
      BY DEF PlacesOK
    <2>2. FlagsOK'
      BY DEF FlagsOK
    <2>3. RecordsOK'
      BY DEF RecordsOK
    <2>4. BoundsOK'
      BY DEF BoundsOK
    <2>5. ShutdownInv' /\ ReasonIsTrue'
      BY DEF PlacesOK, FlagsOK, RecordsOK, ShutdownInv, StartupInv, ReasonIsTrue
    <2>6. StartupInv'
      BY DEF PlacesOK, FlagsOK, RecordsOK, StartupInv, EndInv
    <2>7. EndInv' /\ ExitTellsFailure'
      BY DEF PlacesOK, FlagsOK, RecordsOK, EndInv, StartupInv, ExitTellsFailure
    <2>8. CommandInv'
      BY DEF PlacesOK, FlagsOK, RecordsOK, CommandInv
    <2> QED
      BY <2>1, <2>2, <2>3, <2>4, <2>5, <2>6, <2>7, <2>8
  <1> QED
    BY <1>1, <1>2, <1>3, <1>4, <1>5, <1>6, <1>7, <1>8, <1>9

(* Main, on its way out.                                                   *)
LEMMA EndKeepsInv ==
  ASSUME Inv, Running,
         \/ Stop \/ Join \/ Judge \/ Unwind \/ GuardStops \/ GuardJoins
  PROVE  Inv'
  <1> USE ProcessAssumption
      DEF Inv, TypeOK, Signals, Ending, Unwinding, Running,
          mainVars, threadVars, apiVars, startupVars, clientVars, outside, shutdownVars,
          commandVars
  <1>1. CASE Stop
    <2> USE <1>1 DEF Stop, GoTo, askThread, RequestShutdown
    <2>1. PlacesOK'
      BY DEF PlacesOK
    <2>2. FlagsOK'
      BY DEF FlagsOK
    <2>3. RecordsOK'
      BY DEF RecordsOK
    <2>4. BoundsOK'
      BY DEF BoundsOK
    <2>5. ShutdownInv' /\ ReasonIsTrue'
      BY DEF PlacesOK, FlagsOK, RecordsOK, ShutdownInv, StartupInv, ReasonIsTrue
    <2>6. StartupInv'
      BY DEF PlacesOK, FlagsOK, RecordsOK, StartupInv, EndInv
    <2>7. EndInv' /\ ExitTellsFailure'
      BY DEF PlacesOK, FlagsOK, RecordsOK, EndInv, StartupInv, ExitTellsFailure
    <2>8. CommandInv'
      BY DEF PlacesOK, FlagsOK, RecordsOK, CommandInv
    <2> QED
      BY <2>1, <2>2, <2>3, <2>4, <2>5, <2>6, <2>7, <2>8
  <1>2. CASE Join
    BY <1>2
       DEF Join, GoTo,
           PlacesOK, FlagsOK, RecordsOK, BoundsOK,
           ShutdownInv, StartupInv, EndInv, CommandInv, ExitTellsFailure, ReasonIsTrue
  <1>3. CASE Judge
    <2> USE <1>3 DEF Judge, ExitWith, CloseClient, failed
    <2>1. PlacesOK'
      BY DEF PlacesOK
    <2>2. FlagsOK'
      BY DEF FlagsOK
    <2>3. RecordsOK'
      BY DEF RecordsOK
    <2>4. BoundsOK'
      BY DEF BoundsOK
    <2>5. ShutdownInv' /\ ReasonIsTrue'
      BY DEF PlacesOK, FlagsOK, RecordsOK, ShutdownInv, StartupInv, ReasonIsTrue
    <2>6. StartupInv'
      BY DEF PlacesOK, FlagsOK, RecordsOK, StartupInv, EndInv
    <2>7. EndInv' /\ ExitTellsFailure'
      BY DEF PlacesOK, FlagsOK, RecordsOK, EndInv, StartupInv, ExitTellsFailure
    <2>8. CommandInv'
      BY DEF PlacesOK, FlagsOK, RecordsOK, CommandInv
    <2> QED
      BY <2>1, <2>2, <2>3, <2>4, <2>5, <2>6, <2>7, <2>8
  <1>4. CASE Unwind
    BY <1>4
       DEF Unwind, GoTo,
           PlacesOK, FlagsOK, RecordsOK, BoundsOK,
           ShutdownInv, StartupInv, EndInv, CommandInv, ExitTellsFailure, ReasonIsTrue
  <1>5. CASE GuardStops
    <2> USE <1>5 DEF GuardStops, GoTo, askThread, RequestShutdown
    <2>1. PlacesOK'
      BY DEF PlacesOK
    <2>2. FlagsOK'
      BY DEF FlagsOK
    <2>3. RecordsOK'
      BY DEF RecordsOK
    <2>4. BoundsOK'
      BY DEF BoundsOK
    <2>5. ShutdownInv' /\ ReasonIsTrue'
      BY DEF PlacesOK, FlagsOK, RecordsOK, ShutdownInv, StartupInv, ReasonIsTrue
    <2>6. StartupInv'
      BY DEF PlacesOK, FlagsOK, RecordsOK, StartupInv, EndInv
    <2>7. EndInv' /\ ExitTellsFailure'
      BY DEF PlacesOK, FlagsOK, RecordsOK, EndInv, StartupInv, ExitTellsFailure
    <2>8. CommandInv'
      BY DEF PlacesOK, FlagsOK, RecordsOK, CommandInv
    <2> QED
      BY <2>1, <2>2, <2>3, <2>4, <2>5, <2>6, <2>7, <2>8
  <1>6. CASE GuardJoins
    <2> USE <1>6 DEF GuardJoins, ExitWith, CloseClient
    <2>1. PlacesOK'
      BY DEF PlacesOK
    <2>2. FlagsOK'
      BY DEF FlagsOK
    <2>3. RecordsOK'
      BY DEF RecordsOK
    <2>4. BoundsOK'
      BY DEF BoundsOK
    <2>5. ShutdownInv' /\ ReasonIsTrue'
      BY DEF PlacesOK, FlagsOK, RecordsOK, ShutdownInv, StartupInv, ReasonIsTrue
    <2>6. StartupInv'
      BY DEF PlacesOK, FlagsOK, RecordsOK, StartupInv, EndInv
    <2>7. EndInv' /\ ExitTellsFailure'
      BY DEF PlacesOK, FlagsOK, RecordsOK, EndInv, StartupInv, ExitTellsFailure
    <2>8. CommandInv'
      BY DEF PlacesOK, FlagsOK, RecordsOK, CommandInv
    <2> QED
      BY <2>1, <2>2, <2>3, <2>4, <2>5, <2>6, <2>7, <2>8
  <1> QED
    BY <1>1, <1>2, <1>3, <1>4, <1>5, <1>6

(* The API thread, until it serves and once it ends.                       *)
LEMMA ApiStartKeepsInv ==
  ASSUME Inv, Running,
         \/ OpenListener \/ ReportStartup \/ ApiThrows \/ CatchException \/ StoreResult
         \/ ApiRequestsShutdown \/ RaiseFlag
  PROVE  Inv'
  <1> USE ProcessAssumption
      DEF Inv, TypeOK, Signals, Ending, Unwinding, Running,
          mainVars, threadVars, apiVars, startupVars, clientVars, outside, shutdownVars,
          commandVars
  <1>1. CASE OpenListener
    BY <1>1
       DEF OpenListener, ApiGoesTo,
           PlacesOK, FlagsOK, RecordsOK, BoundsOK,
           ShutdownInv, StartupInv, EndInv, CommandInv, ExitTellsFailure, ReasonIsTrue
  <1>2. CASE ReportStartup
    <2> USE <1>2 DEF ReportStartup, ApiGoesTo
    <2>1. PlacesOK'
      BY DEF PlacesOK
    <2>2. FlagsOK'
      BY DEF FlagsOK
    <2>3. RecordsOK'
      BY DEF RecordsOK
    <2>4. BoundsOK'
      BY DEF BoundsOK
    <2>5. ShutdownInv' /\ ReasonIsTrue'
      BY DEF PlacesOK, FlagsOK, RecordsOK, ShutdownInv, StartupInv, ReasonIsTrue
    <2>6. StartupInv'
      BY DEF PlacesOK, FlagsOK, RecordsOK, StartupInv, EndInv
    <2>7. EndInv' /\ ExitTellsFailure'
      BY DEF PlacesOK, FlagsOK, RecordsOK, EndInv, StartupInv, ExitTellsFailure
    <2>8. CommandInv'
      BY DEF PlacesOK, FlagsOK, RecordsOK, CommandInv
    <2> QED
      BY <2>1, <2>2, <2>3, <2>4, <2>5, <2>6, <2>7, <2>8
  <1>3. CASE ApiThrows
    <2> USE <1>3 DEF ApiThrows, ApiGoesTo, CloseClient
    <2>1. PlacesOK'
      BY DEF PlacesOK
    <2>2. FlagsOK'
      BY DEF FlagsOK
    <2>3. RecordsOK'
      BY DEF RecordsOK
    <2>4. BoundsOK'
      BY DEF BoundsOK
    <2>5. ShutdownInv' /\ ReasonIsTrue'
      BY DEF PlacesOK, FlagsOK, RecordsOK, ShutdownInv, StartupInv, ReasonIsTrue
    <2>6. StartupInv'
      BY DEF PlacesOK, FlagsOK, RecordsOK, StartupInv, EndInv
    <2>7. EndInv' /\ ExitTellsFailure'
      BY DEF PlacesOK, FlagsOK, RecordsOK, EndInv, StartupInv, ExitTellsFailure
    <2>8. CommandInv'
      BY DEF PlacesOK, FlagsOK, RecordsOK, CommandInv
    <2> QED
      BY <2>1, <2>2, <2>3, <2>4, <2>5, <2>6, <2>7, <2>8
  <1>4. CASE CatchException
    <2> USE <1>4 DEF CatchException, ApiGoesTo
    <2>1. PlacesOK'
      BY DEF PlacesOK
    <2>2. FlagsOK'
      BY DEF FlagsOK
    <2>3. RecordsOK'
      BY DEF RecordsOK
    <2>4. BoundsOK'
      BY DEF BoundsOK
    <2>5. ShutdownInv' /\ ReasonIsTrue'
      BY DEF PlacesOK, FlagsOK, RecordsOK, ShutdownInv, StartupInv, ReasonIsTrue
    <2>6. StartupInv'
      BY DEF PlacesOK, FlagsOK, RecordsOK, StartupInv, EndInv
    <2>7. EndInv' /\ ExitTellsFailure'
      BY DEF PlacesOK, FlagsOK, RecordsOK, EndInv, StartupInv, ExitTellsFailure
    <2>8. CommandInv'
      BY DEF PlacesOK, FlagsOK, RecordsOK, CommandInv
    <2> QED
      BY <2>1, <2>2, <2>3, <2>4, <2>5, <2>6, <2>7, <2>8
  <1>5. CASE StoreResult
    <2> USE <1>5 DEF StoreResult
    <2>1. PlacesOK'
      BY DEF PlacesOK
    <2>2. FlagsOK'
      BY DEF FlagsOK
    <2>3. RecordsOK'
      BY DEF RecordsOK
    <2>4. BoundsOK'
      BY DEF BoundsOK
    <2>5. ShutdownInv' /\ ReasonIsTrue'
      BY DEF PlacesOK, FlagsOK, RecordsOK, ShutdownInv, StartupInv, ReasonIsTrue
    <2>6. StartupInv'
      BY DEF PlacesOK, FlagsOK, RecordsOK, StartupInv, EndInv
    <2>7. EndInv' /\ ExitTellsFailure'
      BY DEF PlacesOK, FlagsOK, RecordsOK, EndInv, StartupInv, ExitTellsFailure
    <2>8. CommandInv'
      BY DEF PlacesOK, FlagsOK, RecordsOK, CommandInv
    <2> QED
      BY <2>1, <2>2, <2>3, <2>4, <2>5, <2>6, <2>7, <2>8
  <1>6. CASE ApiRequestsShutdown
    BY <1>6
       DEF ApiRequestsShutdown, ApiGoesTo, storeReason,
           PlacesOK, FlagsOK, RecordsOK, BoundsOK,
           ShutdownInv, StartupInv, EndInv, CommandInv, ExitTellsFailure, ReasonIsTrue
  <1>7. CASE RaiseFlag
    BY <1>7
       DEF RaiseFlag, ApiGoesTo,
           PlacesOK, FlagsOK, RecordsOK, BoundsOK,
           ShutdownInv, StartupInv, EndInv, CommandInv, ExitTellsFailure, ReasonIsTrue
  <1> QED
    BY <1>1, <1>2, <1>3, <1>4, <1>5, <1>6, <1>7

(* The API thread while it serves.                                         *)
LEMMA ServeKeepsInv ==
  ASSUME Inv, Running,
         \/ ServePollsSignal \/ ServeStops \/ ServeFails \/ Accept \/ ReadMore \/ ReadEnds
         \/ Answer
  PROVE  Inv'
  <1> USE ProcessAssumption
      DEF Inv, TypeOK, Signals, Ending, Unwinding, Running,
          mainVars, threadVars, apiVars, startupVars, clientVars, outside, shutdownVars,
          commandVars
  <1>1. CASE ServePollsSignal
    BY <1>1
       DEF ServePollsSignal, ApiGoesTo, storeReason,
           PlacesOK, FlagsOK, RecordsOK, BoundsOK,
           ShutdownInv, StartupInv, EndInv, CommandInv, ExitTellsFailure, ReasonIsTrue
  <1>2. CASE ServeStops
    BY <1>2
       DEF ServeStops, ApiGoesTo,
           PlacesOK, FlagsOK, RecordsOK, BoundsOK,
           ShutdownInv, StartupInv, EndInv, CommandInv, ExitTellsFailure, ReasonIsTrue
  <1>3. CASE ServeFails
    BY <1>3
       DEF ServeFails, ApiGoesTo,
           PlacesOK, FlagsOK, RecordsOK, BoundsOK,
           ShutdownInv, StartupInv, EndInv, CommandInv, ExitTellsFailure, ReasonIsTrue
  <1>4. CASE Accept
    BY <1>4
       DEF Accept, ApiGoesTo,
           PlacesOK, FlagsOK, RecordsOK, BoundsOK,
           ShutdownInv, StartupInv, EndInv, CommandInv, ExitTellsFailure, ReasonIsTrue
  <1>5. CASE ReadMore
    <2> USE <1>5 DEF ReadMore, mayRead, countRead
    <2>1. PlacesOK'
      BY DEF PlacesOK
    <2>2. FlagsOK'
      BY DEF FlagsOK
    <2>3. RecordsOK'
      BY DEF RecordsOK
    <2>4. BoundsOK'
      BY DEF BoundsOK
    <2>5. ShutdownInv' /\ ReasonIsTrue'
      BY DEF PlacesOK, FlagsOK, RecordsOK, ShutdownInv, StartupInv, ReasonIsTrue
    <2>6. StartupInv'
      BY DEF PlacesOK, FlagsOK, RecordsOK, StartupInv, EndInv
    <2>7. EndInv' /\ ExitTellsFailure'
      BY DEF PlacesOK, FlagsOK, RecordsOK, EndInv, StartupInv, ExitTellsFailure
    <2>8. CommandInv'
      BY DEF PlacesOK, FlagsOK, RecordsOK, CommandInv
    <2> QED
      BY <2>1, <2>2, <2>3, <2>4, <2>5, <2>6, <2>7, <2>8
  <1>6. CASE ReadEnds
    BY <1>6
       DEF ReadEnds, ApiGoesTo,
           PlacesOK, FlagsOK, RecordsOK, BoundsOK,
           ShutdownInv, StartupInv, EndInv, CommandInv, ExitTellsFailure, ReasonIsTrue
  <1>7. CASE Answer
    <2> USE <1>7 DEF Answer, ApiGoesTo, CloseClient
    <2>1. PlacesOK'
      BY DEF PlacesOK
    <2>2. FlagsOK'
      BY DEF FlagsOK
    <2>3. RecordsOK'
      BY DEF RecordsOK
    <2>4. BoundsOK'
      BY DEF BoundsOK
    <2>5. ShutdownInv' /\ ReasonIsTrue'
      BY DEF PlacesOK, FlagsOK, RecordsOK, ShutdownInv, StartupInv, ReasonIsTrue
    <2>6. StartupInv'
      BY DEF PlacesOK, FlagsOK, RecordsOK, StartupInv, EndInv
    <2>7. EndInv' /\ ExitTellsFailure'
      BY DEF PlacesOK, FlagsOK, RecordsOK, EndInv, StartupInv, ExitTellsFailure
    <2>8. CommandInv'
      BY DEF PlacesOK, FlagsOK, RecordsOK, CommandInv
    <2> QED
      BY <2>1, <2>2, <2>3, <2>4, <2>5, <2>6, <2>7, <2>8
  <1> QED
    BY <1>1, <1>2, <1>3, <1>4, <1>5, <1>6, <1>7

(* A signal is one of Signals.                                             *)
LEMMA SignalKeepsPlaces ==
  ASSUME PlacesOK, NEW s \in Signals, SignalArrives(s)
  PROVE  PlacesOK'
  <1>1. delivered' \subseteq Signals
    BY DEF PlacesOK, SignalArrives
  <1>2. pending' \in Signals \cup {"none"}
    BY DEF PlacesOK, SignalArrives
  <1>3. exit' \in {"none", "success", "failure", "killed"}
    BY DEF PlacesOK, SignalArrives
  <1>4. main' = "exited" \/ main' = main
    BY DEF PlacesOK, SignalArrives
  <1>5. UNCHANGED <<signal, reason, served, result, active, api>>
    BY DEF SignalArrives, threadVars, apiVars, shutdownVars, commandVars, clientVars
  <1> QED
    BY <1>1, <1>2, <1>3, <1>4, <1>5 DEF PlacesOK

(* The world outside: signals and clients.                                 *)
LEMMA OutsideKeepsInv ==
  ASSUME Inv,
         \/ \E s \in Signals : SignalArrives(s)
         \/ ClientSends \/ \E c \in Client : Connect(c)
  PROVE  Inv'
  <1> USE ProcessAssumption
      DEF Inv, TypeOK, Signals, Ending, Unwinding,
          mainVars, threadVars, apiVars, startupVars, clientVars, outside, shutdownVars,
          commandVars
  <1>1. ASSUME NEW s \in Signals, SignalArrives(s)
        PROVE  Inv'
    <2> USE <1>1 DEF SignalArrives
    <2>1. PlacesOK'
      BY SignalKeepsPlaces
    <2>2. FlagsOK' /\ RecordsOK' /\ BoundsOK'
      BY DEF FlagsOK, RecordsOK, BoundsOK
    <2>3. ShutdownInv' /\ ReasonIsTrue'
      BY DEF PlacesOK, ShutdownInv, ReasonIsTrue
    <2>4. StartupInv'
      BY DEF StartupInv
    <2>5. EndInv' /\ ExitTellsFailure' /\ CommandInv'
      BY DEF EndInv, StartupInv, ExitTellsFailure, CommandInv
    <2> QED
      BY <2>1, <2>2, <2>3, <2>4, <2>5
  <1>2. ASSUME NEW c \in Client, Connect(c)
        PROVE  Inv'
    BY <1>2
       DEF Connect, PlacesOK, FlagsOK, RecordsOK, BoundsOK,
           ShutdownInv, StartupInv, EndInv, CommandInv, ExitTellsFailure, ReasonIsTrue
  <1>3. CASE ClientSends
    BY <1>3
       DEF ClientSends, PlacesOK, FlagsOK, RecordsOK, BoundsOK,
           ShutdownInv, StartupInv, EndInv, CommandInv, ExitTellsFailure, ReasonIsTrue
  <1> QED
    BY <1>1, <1>2, <1>3

(* Inv is inductive.                                                       *)
LEMMA NextInv == Inv /\ [Next]_vars => Inv'
  <1> SUFFICES ASSUME Inv, [Next]_vars PROVE Inv'
    OBVIOUS
  <1>1. CASE UNCHANGED vars
    BY <1>1
       DEF vars, Inv, TypeOK, PlacesOK, FlagsOK, RecordsOK, BoundsOK,
           mainVars, threadVars, apiVars, startupVars, clientVars, outside, shutdownVars,
           commandVars, ShutdownInv, StartupInv, EndInv, CommandInv, ExitTellsFailure,
           ReasonIsTrue
  <1>2. CASE Running /\ Main
    BY <1>2, StartKeepsInv, LoopKeepsInv, EndKeepsInv DEF Main
  <1>3. CASE Running /\ ApiThread
    BY <1>3, ApiStartKeepsInv, ServeKeepsInv DEF ApiThread
  <1>4. CASE Running /\ CommandRuns
    BY <1>4, LoopKeepsInv
  <1> QED
    BY <1>1, <1>2, <1>3, <1>4, OutsideKeepsInv DEF Next, Exited

(* Inv holds in every reachable state.                                     *)
LEMMA InvHolds == Spec => []Inv
  BY InitInv, NextInv, PTL DEF Spec

(* Every variable of the threads keeps its type.                           *)
THEOREM ThreadTypesKept == Spec => []TypeOK
  <1>1. Inv => TypeOK
    BY DEF Inv
  <1> QED
    BY <1>1, InvHolds, PTL

(* The reason recorded for a shutdown is a cause it had.                   *)
THEOREM ReasonStaysTrue == Spec => []ReasonIsTrue
  <1>1. Inv => ReasonIsTrue
    BY DEF Inv
  <1> QED
    BY <1>1, InvHolds, PTL

(* The exit status is failure exactly when something failed.               *)
THEOREM ExitStaysTrue == Spec => []ExitTellsFailure
  <1>1. Inv => ExitTellsFailure
    BY DEF Inv
  <1> QED
    BY <1>1, InvHolds, PTL

(* Unless main itself throws, the start-up state outlives its use.         *)
THEOREM StartupStateStays == Spec => []StartupStateOutlivesThread
  <1>1. Inv => StartupStateOutlivesThread
    BY DEF Inv, TypeOK, FlagsOK, RecordsOK, StartupInv, EndInv, Running, Unwinding,
           StartupStateOutlivesThread, UsesStartupState
  <1> QED
    BY <1>1, InvHolds, PTL

(* No command is taken for a success that was not one.                     *)
THEOREM SuccessStaysReal == Spec => []SuccessIsReal
  <1>1. Inv => SuccessIsReal
    BY DEF Inv, CommandInv, SuccessIsReal
  <1> QED
    BY <1>1, InvHolds, PTL
=============================================================================
