------------------------------- MODULE Process -------------------------------
(***************************************************************************)
(* The threads of one daemon process: main, which runs the loop and the    *)
(* external commands; the API thread, which serves one client at a time;   *)
(* and the signal handler.  What the loop decides is the matter of         *)
(* DaemonRuntime; here an iteration is a few commands that work or fail.   *)
(*                                                                         *)
(* Steps are cut where another thread can see or change what is shared:    *)
(* the handler's flag, the shutdown state (two atomic stores), the         *)
(* start-up state with its mutex and condition, and the result of serving. *)
(***************************************************************************)
EXTENDS Naturals, Sequences, FiniteSets

CONSTANTS
  Client,       \* the clients of the local API
  Backlog,      \* connections the listening socket queues
  MaxReads,     \* reads of one request until kMaxRequestBytes is reached
  MaxCommands,  \* commands of one iteration
  NoClient,     \* nobody is being served
  Faults        \* what may go wrong

FaultKinds ==
  {"thread", "listen", "serve", "api_throws", "loop_throws", "spawn", "exec", "read"}

Signals == {"interrupt", "terminate"}

ASSUME ProcessAssumption ==
  /\ Backlog \in Nat \ {0} /\ MaxReads \in Nat /\ MaxCommands \in Nat
  /\ NoClient \notin Client
  /\ Faults \subseteq FaultKinds

VARIABLES
  main,        \* where the main thread is
  exit,        \* how the process ended
  ready,       \* evaluateLocalApiStartup said Ready: there is an API thread
  api,         \* where the API thread is
  pending,     \* g_pending_shutdown_signal
  delivered,   \* the signals the handler was called with
  signal,      \* ShutdownSignalState::signal_
  requested,   \* ShutdownSignalState::shutdown_requested_
  reason,      \* the reason the loop recorded when it saw the request
  startup,     \* api_thread_startup
  startupGone, \* its mutex and condition are destroyed
  served,      \* api_serve_result
  faulted,     \* the loop's final state is Faulted
  threw,       \* main itself left by an exception
  command,     \* the child process of the last external command
  result,      \* what LinuxNetworkCommandRunner::run said of it
  ran,         \* commands run in this iteration
  queue,       \* connections accepted by the kernel, not yet by the thread
  active,      \* the client being served
  reads,       \* reads of its request so far
  arrived      \* there is something of it to read

shutdownVars == <<signal, requested>>
startupVars  == <<startup, startupGone>>
commandVars  == <<command, result, ran>>
clientVars   == <<queue, active, reads, arrived>>
mainVars     == <<main, exit, reason, faulted, threw>>
apiVars      == <<api, served>>
outside      == <<ready, pending, delivered>>
threadVars   == <<apiVars, startupVars, clientVars>>
vars         == <<mainVars, threadVars, outside, shutdownVars, commandVars>>

PlacesOK ==
  /\ main \in {"boot", "launch", "await", "top", "lifecycle", "commands", "output", "waitpid",
               "publish", "stop", "join", "judge", "unwind", "guard", "unwind_join", "exited"}
  /\ exit \in {"none", "success", "failure", "killed"}
  /\ api \in {"none", "opening", "report", "report_failure", "serve", "reading", "answering",
              "flag_then_stop", "store", "store_error", "caught", "request", "flag_then_end",
              "ended"}
  /\ pending \in Signals \cup {"none"} /\ delivered \subseteq Signals
  /\ signal \in Signals \cup {"none", "unknown"}
  /\ reason \in Signals \cup {"none", "unspecified"}
  /\ served \in {"none", "ok", "error"}
  /\ result \in {"none", "success", "failure", "no_output"}
  /\ active \in Client \cup {NoClient}

FlagsOK ==
  /\ ready \in BOOLEAN /\ requested \in BOOLEAN /\ startupGone \in BOOLEAN
  /\ faulted \in BOOLEAN /\ threw \in BOOLEAN /\ arrived \in BOOLEAN

RecordsOK ==
  /\ startup \in [reported : BOOLEAN, failed : BOOLEAN, exception : BOOLEAN]
  /\ command \in [state : {"none", "setup", "running", "closed", "ended"}, started : BOOLEAN,
                  status : {"none", "zero", "nonzero", "signal"}]

BoundsOK ==
  /\ ran \in 0 .. MaxCommands
  /\ reads \in 0 .. MaxReads
  /\ queue \in Seq(Client) /\ Len(queue) <= Backlog

TypeOK == PlacesOK /\ FlagsOK /\ RecordsOK /\ BoundsOK

NoCommandYet == [state |-> "none", started |-> FALSE, status |-> "none"]

Init ==
  /\ main = "boot" /\ exit = "none" /\ api = "none"
  /\ ready \in BOOLEAN
  /\ pending = "none" /\ delivered = {}
  /\ signal = "none" /\ requested = FALSE /\ reason = "none"
  /\ startup = [reported |-> FALSE, failed |-> FALSE, exception |-> FALSE]
  /\ startupGone = FALSE
  /\ served = "none" /\ faulted = FALSE /\ threw = FALSE
  /\ command = NoCommandYet /\ result = "none" /\ ran = 0
  /\ queue = << >> /\ active = NoClient /\ reads = 0 /\ arrived = FALSE

-----------------------------------------------------------------------------
(* Shutdown                                                                *)

(* A signal before the handlers are installed ends the process; later the  *)
(* handler records it, the last one if there are several.                  *)
SignalArrives(s) ==
  /\ main # "exited"
  /\ IF main = "boot"
     THEN /\ main' = "exited" /\ exit' = "killed"
          /\ UNCHANGED <<pending, delivered>>
     ELSE /\ pending' = s /\ delivered' = delivered \cup {s}
          /\ UNCHANGED <<main, exit>>
  /\ UNCHANGED <<reason, faulted, threw, ready, threadVars, shutdownVars, commandVars>>

(* requestShutdown of the main thread; the API thread only looks at the    *)
(* flag, so that the two stores are one step.                              *)
RequestShutdown(s) == signal' = s /\ requested' = TRUE

(* pollShutdownSignals.                                                    *)
PollSignals ==
  IF pending # "none" THEN RequestShutdown(pending) ELSE UNCHANGED shutdownVars

(* ShutdownSignalState::reason.                                            *)
reasonOf(s) == IF s \in Signals THEN s ELSE "unspecified"

-----------------------------------------------------------------------------
(* Main: start                                                             *)

GoTo(place) == main' = place /\ UNCHANGED <<exit, reason, faulted, threw>>

Throw == main' = "unwind" /\ threw' = TRUE /\ UNCHANGED <<exit, reason, faulted>>

InstallHandlers ==
  /\ main = "boot"
  /\ GoTo("launch")
  /\ UNCHANGED <<threadVars, outside, shutdownVars, commandVars>>

Launch ==
  /\ main = "launch"
  /\ PollSignals
  /\ \/ ready /\ GoTo("await") /\ api' = "opening"
     \/ ready /\ "thread" \in Faults /\ Throw /\ UNCHANGED api
     \/ ~ready /\ GoTo("top") /\ UNCHANGED api
  /\ UNCHANGED <<served, startupVars, clientVars, outside, commandVars>>

(* Mutated form, for testing a property: a wait without its predicate      *)
(* returns when nothing was reported (a spurious wake-up).                 *)
wokenUp == TRUE

startupReported == startup.reported

(* Wait for the API thread's report; its failure or exception ends main.   *)
AwaitStartup ==
  /\ main = "await"
  /\ startupReported
  /\ GoTo(IF startup.exception \/ startup.failed \/ ~startup.reported THEN "unwind" ELSE "top")
  /\ UNCHANGED <<threadVars, outside, shutdownVars, commandVars>>

-----------------------------------------------------------------------------
(* Main: the loop and its commands                                         *)

LoopTop ==
  /\ main = "top"
  /\ PollSignals
  /\ main' = IF requested' THEN "stop" ELSE "lifecycle"
  /\ reason' = IF requested' THEN reasonOf(signal') ELSE reason
  /\ ran' = 0 /\ result' = "none"
  /\ UNCHANGED <<exit, faulted, threw, threadVars, outside, command>>

(* The lifecycle looks at the flag too, without polling; the loop then     *)
(* publishes and sleeps before it looks again.                             *)
EnterLifecycle ==
  /\ main = "lifecycle"
  /\ main' = IF requested THEN "publish" ELSE "commands"
  /\ reason' = IF requested THEN reasonOf(signal) ELSE reason
  /\ UNCHANGED <<exit, faulted, threw, threadVars, outside, shutdownVars, commandVars>>

(* A failed command may fault the daemon.                                  *)
EndCommands ==
  /\ main = "commands"
  /\ main' = "publish"
  /\ \/ faulted' = FALSE
     \/ result \in {"failure", "no_output"} /\ faulted' = TRUE
  /\ UNCHANGED <<exit, reason, threw, threadVars, outside, shutdownVars, commandVars>>

LoopThrows ==
  /\ main = "commands"
  /\ "loop_throws" \in Faults
  /\ Throw
  /\ UNCHANGED <<threadVars, outside, shutdownVars, commandVars>>

(* pipe and fork; without them the command fails unexecuted.               *)
RunCommand ==
  /\ main = "commands"
  /\ ran < MaxCommands
  /\ ran' = ran + 1
  /\ \/ /\ GoTo("output")
        /\ command' = [state |-> "setup", started |-> FALSE, status |-> "none"]
        /\ result' = "none"
     \/ /\ "spawn" \in Faults
        /\ GoTo("commands")
        /\ command' = NoCommandYet
        /\ result' = "failure"
  /\ UNCHANGED <<threadVars, outside, shutdownVars>>

(* The child: dup2, execvp, then the command; it may close its output      *)
(* before it ends.                                                         *)
CommandRuns ==
  /\ \/ command.state = "setup"
        /\ command' \in {[command EXCEPT !.state = "running", !.started = TRUE]}
             \cup (IF "exec" \in Faults
                   THEN {[command EXCEPT !.state = "ended", !.status = "nonzero"]} ELSE {})
     \/ command.state = "running" /\ command' = [command EXCEPT !.state = "closed"]
     \/ command.state = "closed"
        /\ \E how \in {"zero", "nonzero", "signal"} :
             command' = [command EXCEPT !.state = "ended", !.status = how]
  /\ UNCHANGED <<mainVars, threadVars, outside, shutdownVars, result, ran>>

(* Read until end of file, however long it takes, or until a read fails.   *)
ReadOutput ==
  /\ main = "output"
  /\ \/ command.state \in {"closed", "ended"} /\ UNCHANGED result
     \/ "read" \in Faults /\ result' = "no_output"
  /\ GoTo("waitpid")
  /\ UNCHANGED <<threadVars, outside, shutdownVars, command, ran>>

(* Mutated form, for testing a property: the exit code of a command that a *)
(* signal ended reads 0.                                                   *)
succeededByExitCode(status) == status \in {"zero", "signal"}

(* exitCodeFromStatus gives 0 for nothing but an exit with 0.              *)
succeeded(status) == status = "zero"

(* The probe, like runOperation, calls a command a success when its output *)
(* was read and it exited with 0.                                          *)
verdict ==
  IF result = "no_output" THEN result
  ELSE IF succeeded(command.status) THEN "success" ELSE "failure"

(* waitpid blocks until the command has ended.                             *)
ReapCommand ==
  /\ main = "waitpid"
  /\ command.state = "ended"
  /\ GoTo("commands")
  /\ result' = verdict
  /\ UNCHANGED <<threadVars, outside, shutdownVars, command, ran>>

(* update_api_snapshot and the sleep; a faulted loop returns.              *)
Publish ==
  /\ main = "publish"
  /\ GoTo(IF faulted THEN "stop" ELSE "top")
  /\ UNCHANGED <<threadVars, outside, shutdownVars, commandVars>>
-----------------------------------------------------------------------------
(* Main: the end                                                           *)

(* Mutated form, for testing a property: the thread is joined, not asked.  *)
joinOnly == UNCHANGED shutdownVars

(* ApiThreadGuard::stop asks the thread to end before it joins it.         *)
askThread == RequestShutdown("unknown")

(* The loop has returned: publish, then stop the API thread.               *)
Stop ==
  /\ main = "stop"
  /\ IF ready THEN GoTo("join") /\ askThread
              ELSE GoTo("judge") /\ UNCHANGED shutdownVars
  /\ UNCHANGED <<threadVars, outside, commandVars>>

Join ==
  /\ main = "join"
  /\ api = "ended"
  /\ GoTo("judge")
  /\ UNCHANGED <<threadVars, outside, shutdownVars, commandVars>>

CloseClient == active' = NoClient /\ reads' = 0 /\ arrived' = FALSE

(* A process that ends closes its sockets: every connection is gone.       *)
ExitWith(status) ==
  /\ main' = "exited"
  /\ exit' = status
  /\ queue' = << >> /\ CloseClient
  /\ UNCHANGED <<reason, faulted, threw, apiVars, outside, shutdownVars, commandVars>>

(* Mutated form, for testing a property: how serving ended is not asked.   *)
failedApartFromServing == startup.exception \/ faulted

(* An exception of the API thread, its failure to serve, or a faulted      *)
(* daemon make the exit status.                                            *)
failed == startup.exception \/ served = "error" \/ faulted

Judge ==
  /\ main = "judge"
  /\ ExitWith(IF failed THEN "failure" ELSE "success")
  /\ startupGone' = TRUE
  /\ UNCHANGED startup

(* An early return or an exception: the start-up state was declared after  *)
(* the guard, so it is destroyed before the guard stops and joins.         *)
Unwind ==
  /\ main = "unwind"
  /\ startupGone' = TRUE
  /\ GoTo("guard")
  /\ UNCHANGED <<startup, apiVars, clientVars, outside, shutdownVars, commandVars>>

GuardStops ==
  /\ main = "guard"
  /\ GoTo("unwind_join")
  /\ IF api = "none" THEN UNCHANGED shutdownVars ELSE askThread
  /\ UNCHANGED <<threadVars, outside, commandVars>>

GuardJoins ==
  /\ main = "unwind_join"
  /\ api \in {"none", "ended"}
  /\ ExitWith("failure")
  /\ UNCHANGED startupVars

-----------------------------------------------------------------------------
(* The API thread: serveLocalApiHttpWithMode and the lambda around it      *)

ApiGoesTo(place) == api' = place /\ UNCHANGED served

(* Parse the address, open the socket, bind and listen; each may fail.     *)
OpenListener ==
  /\ api = "opening"
  /\ ApiGoesTo("report") \/ ("listen" \in Faults /\ ApiGoesTo("report_failure"))
  /\ UNCHANGED <<mainVars, startupVars, clientVars, outside, shutdownVars, commandVars>>

(* The start-up observer: set the result and notify under the mutex.       *)
ReportStartup ==
  /\ api \in {"report", "report_failure"}
  /\ startup' = [startup EXCEPT !.reported = TRUE, !.failed = (api = "report_failure")]
  /\ ApiGoesTo(IF api = "report" THEN "serve" ELSE "store_error")
  /\ UNCHANGED <<mainVars, startupGone, clientVars, outside, shutdownVars, commandVars>>

(* An exception before the report, or while a request is served (whose     *)
(* client is closed), leaves serveLocalApiHttp.                            *)
ApiThrows ==
  /\ "api_throws" \in Faults
  /\ api \in {"opening", "reading", "answering"}
  /\ ApiGoesTo("caught")
  /\ queue' = << >> /\ CloseClient
  /\ UNCHANGED <<mainVars, startupVars, outside, shutdownVars, commandVars>>

(* The handler of the lambda keeps the exception and reports if nothing    *)
(* was reported yet.                                                       *)
CatchException ==
  /\ api = "caught"
  /\ startup' = [startup EXCEPT !.exception = TRUE, !.reported = TRUE]
  /\ ApiGoesTo("request")
  /\ UNCHANGED <<mainVars, startupGone, clientVars, outside, shutdownVars, commandVars>>

(* Mutated form, for testing a property: the flag alone is stored.         *)
storeFlagOnly(s) == UNCHANGED signal /\ requested' = TRUE

(* requestShutdown of this thread: the reason first, the flag in a second  *)
(* step, RaiseFlag.                                                        *)
storeReason(s) == signal' = s /\ UNCHANGED requested

RaiseFlag ==
  /\ api \in {"flag_then_stop", "flag_then_end"}
  /\ requested' = TRUE
  /\ ApiGoesTo(IF api = "flag_then_stop" THEN "store" ELSE "ended")
  /\ UNCHANGED <<signal, mainVars, startupVars, clientVars, outside, commandVars>>

(* The top of the serving loop polls the signal handler's flag.            *)
ServePollsSignal ==
  /\ api = "serve"
  /\ pending # "none"
  /\ ApiGoesTo("flag_then_stop")
  /\ storeReason(pending)
  /\ UNCHANGED <<mainVars, startupVars, clientVars, outside, commandVars>>

ServeStops ==
  /\ api = "serve"
  /\ pending = "none" /\ requested
  /\ ApiGoesTo("store")
  /\ UNCHANGED <<mainVars, startupVars, clientVars, outside, shutdownVars, commandVars>>

(* poll or accept fails with an error other than EINTR.                    *)
ServeFails ==
  /\ api = "serve"
  /\ "serve" \in Faults
  /\ ApiGoesTo("store_error")
  /\ UNCHANGED <<mainVars, startupVars, clientVars, outside, shutdownVars, commandVars>>

Accept ==
  /\ api = "serve"
  /\ pending = "none" /\ ~requested
  /\ queue # << >>
  /\ active' = Head(queue) /\ queue' = Tail(queue)
  /\ UNCHANGED <<reads, arrived>>
  /\ ApiGoesTo("reading")
  /\ UNCHANGED <<mainVars, startupVars, outside, shutdownVars, commandVars>>

(* Mutated forms, for testing properties: one read too many, and no limit. *)
mayReadAtLimit(n) == n <= MaxReads
countNoReads(n) == n

mayRead(n) == n < MaxReads
countRead(n) == n + 1

(* A client that sends a little in every second keeps the thread reading   *)
(* until kMaxRequestBytes is reached.                                      *)
ReadMore ==
  /\ api = "reading"
  /\ arrived /\ mayRead(reads)
  /\ reads' = countRead(reads)
  /\ arrived' = FALSE
  /\ UNCHANGED <<mainVars, apiVars, startupVars, queue, active, outside, shutdownVars, commandVars>>

(* What arrived completes the request or closes the connection, the limit  *)
(* is reached, or nothing arrives for kReadPollTimeoutMs.                  *)
ReadEnds ==
  /\ api = "reading"
  /\ ApiGoesTo("answering")
  /\ UNCHANGED <<mainVars, startupVars, clientVars, outside, shutdownVars, commandVars>>

(* One send; an answer fits the socket's buffer.  Then the client is       *)
(* closed.                                                                 *)
Answer ==
  /\ api = "answering"
  /\ ApiGoesTo("serve")
  /\ CloseClient
  /\ UNCHANGED <<mainVars, startupVars, queue, outside, shutdownVars, commandVars>>

(* serveLocalApiHttp has returned and closed its socket; an error asks the *)
(* daemon to stop.                                                         *)
StoreResult ==
  /\ \/ api = "store" /\ served' = "ok" /\ api' = "ended"
     \/ api = "store_error" /\ served' = "error" /\ api' = "request"
  /\ queue' = << >>
  /\ UNCHANGED <<mainVars, startupVars, active, reads, arrived, outside, shutdownVars, commandVars>>

ApiRequestsShutdown ==
  /\ api = "request"
  /\ ApiGoesTo("flag_then_end")
  /\ storeReason("unknown")
  /\ UNCHANGED <<mainVars, startupVars, clientVars, outside, commandVars>>

-----------------------------------------------------------------------------
(* The kernel queues a connection while the socket listens.                *)
Connect(c) ==
  /\ api \in {"report", "serve", "reading", "answering", "flag_then_stop"}
  /\ main # "exited"
  /\ Len(queue) < Backlog
  /\ c # active /\ \A i \in DOMAIN queue : queue[i] # c
  /\ queue' = Append(queue, c)
  /\ UNCHANGED <<mainVars, apiVars, startupVars, active, reads, arrived, outside, shutdownVars,
                 commandVars>>

ClientSends ==
  /\ api = "reading" /\ main # "exited"
  /\ ~arrived
  /\ arrived' = TRUE
  /\ UNCHANGED <<mainVars, apiVars, startupVars, queue, active, reads, outside, shutdownVars,
                 commandVars>>

Main ==
  \/ InstallHandlers \/ Launch \/ AwaitStartup
  \/ LoopTop \/ EnterLifecycle \/ RunCommand \/ ReadOutput \/ ReapCommand \/ EndCommands
  \/ LoopThrows \/ Publish
  \/ Stop \/ Join \/ Judge \/ Unwind \/ GuardStops \/ GuardJoins

ApiThread ==
  \/ OpenListener \/ ReportStartup \/ ApiThrows \/ CatchException
  \/ RaiseFlag \/ ServePollsSignal \/ ServeStops \/ ServeFails
  \/ Accept \/ ReadMore \/ ReadEnds \/ Answer
  \/ StoreResult \/ ApiRequestsShutdown

(* The end of the process ends its threads.                                *)
Running == main # "exited"

Exited == ~Running /\ UNCHANGED vars

Next ==
  \/ Running /\ (Main \/ ApiThread \/ CommandRuns)
  \/ \E s \in Signals : SignalArrives(s)
  \/ ClientSends \/ \E c \in Client : Connect(c)
  \/ Exited

Spec == Init /\ [][Next]_vars

(* The scheduler runs both threads; poll, the sleep and a read that        *)
(* nothing answers have timeouts.  The commands have none: that ip and     *)
(* arping end is assumed of them, not of the daemon.                       *)
FairSpec ==
  /\ Spec
  /\ WF_vars(Running /\ Main) /\ WF_vars(Running /\ ApiThread) /\ WF_vars(Running /\ CommandRuns)

-----------------------------------------------------------------------------
(* Safety                                                                  *)

UsesStartupState == api \in {"report", "report_failure", "caught"}

(* The API thread does not come to lock the start-up mutex, or to notify   *)
(* the condition, after main destroyed them: whichever of the early        *)
(* returns main takes, it waited for the report.  Only an exception of     *)
(* main itself (the loop's) may find the thread still before its own.      *)
StartupStateOutlivesThread ==
  UsesStartupState /\ Running => ~startupGone \/ threw

(* The service manager restarts the daemon when, and only when, something  *)
(* failed: no failure of the API thread, whenever it strikes, is lost, and *)
(* none is made up.                                                        *)
ExitTellsFailure ==
  exit \in {"success", "failure"} =>
    (exit = "failure" <=>
       startup.failed \/ startup.exception \/ served = "error" \/ faulted \/ threw)

(* The reason recorded for a shutdown is a cause it had: a signal that was *)
(* delivered, or, without a name, the API thread.                          *)
ReasonIsTrue ==
  /\ reason \in Signals => reason \in delivered
  /\ reason = "unspecified" => served = "error" \/ startup.exception

(* What DaemonRuntime takes for granted of an external command: success is *)
(* only reported of one that was executed and exited with 0.               *)
SuccessIsReal ==
  result = "success" => command.started /\ command.status = "zero"

-----------------------------------------------------------------------------
(* Liveness                                                                *)

(* A shutdown that was requested, by a signal or a thread, and any other   *)
(* end of the loop end the process, whatever the clients do.               *)
ShutdownEnds ==
  (pending # "none" \/ requested \/ main \in {"stop", "unwind"}) ~> main = "exited"

Waits(c) == c = active \/ \E i \in DOMAIN queue : queue[i] = c

(* Every connection is answered or closed, whatever the other clients do.  *)
ClientsAreServed == \A c \in Client : Waits(c) ~> ~Waits(c)
=============================================================================
