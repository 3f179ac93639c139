------------------------------- MODULE Onboard -------------------------------
(***************************************************************************)
(* The dashboard's onboarding of one host over ssh (web/lib/onboarding):   *)
(* runs of onboard(), one after the other or overlapping, against the      *)
(* host's API token, configuration file and service.                       *)
(*                                                                         *)
(* A run is a sequence of remote commands; it stops at the first failure   *)
(* and undoes nothing, and the operator may start another one at any time. *)
(* A command that runs when the connection is lost, or when the wizard is  *)
(* closed, goes on at the host; the run itself ends with it.  The command  *)
(* of write-config, a chain of shell commands, is cut into its steps.      *)
(***************************************************************************)
EXTENDS FiniteSets

CONSTANTS
  Job,         \* slots for runs: as many runs may be under way at once
  Text,        \* the configurations a form renders or an operator writes
  Cut,         \* what a write that was cut off may leave of them
  Blank,       \* one of these: an empty file
  Nothing,     \* no file; no running daemon
  Valid,       \* the contents --validate-config accepts
  Requests,    \* the requests the wizard sends: [text, overwrite]
  Edits,       \* the configurations an operator writes at the host
  Faults       \* the faults a run of the model admits

Content == Text \cup Cut

FaultKinds ==
  {"command",     \* a remote command exits with an error, its work half done
   "connection",  \* the ssh connection is lost
   "wizard",      \* the operator closes the wizard while a run is under way
   "token",       \* the token's generation fails (a full disk)
   "read",        \* cat of the existing configuration fails: reads as empty
   "edit",        \* an operator, or the API's apply, changes the file
   "daemon"}      \* the daemon ends and is restarted

ASSUME OnboardAssumption ==
  /\ Blank \in Cut /\ Nothing \notin Content \cup Job /\ Text \cap Cut = {}
  /\ Valid \subseteq Content
  /\ Requests \subseteq [text : Text, overwrite : BOOLEAN]
  /\ Edits \subseteq Text
  /\ Faults \subseteq FaultKinds

VARIABLES
  (* the host                                                              *)
  token,       \* api.token: "none", "empty" or "ok"
  file,        \* config.toml
  enabled,     \* the service starts at boot
  service,     \* "down", "starting", "up", or "waiting" for its restart
  running,     \* the configuration the daemon runs with
  (* the runs                                                              *)
  pc,          \* the command a run is at
  request,     \* what the wizard sent
  watch,       \* somebody follows the run, or "closed", or "lost"
  outcome,     \* what the run reported
  (* history, for the properties                                           *)
  byOperator,  \* the file is as an operator wrote it
  author,      \* the run that left a text in it the validator rejects
  lookedAt,    \* the runs that read the file after its last edit, to write it
  calm,        \* since the run started, nothing else happened to the host
  fresh        \* the run was calm and found no daemon up when it enabled it

hostVars    == <<token, file, enabled, service, running>>
runVars     == <<pc, request, watch, outcome>>
historyVars == <<byOperator, author, lookedAt, calm, fresh>>
vars        == <<hostVars, runVars, historyVars>>

InWriteConfig == {"token", "open", "fill", "cat", "write"}

Step ==
  {"idle", "connect", "read", "validate", "enable", "verify", "ended"}
    \cup InWriteConfig

Outcome ==
  {"none", "onboarded", "refused", "failed", "invalid", "inactive", "unreported"}

OnboardTypeOK ==
  /\ token \in {"none", "empty", "ok"}
  /\ file \in Content \cup {Nothing}
  /\ enabled \in BOOLEAN
  /\ service \in {"down", "starting", "up", "waiting"}
  /\ running \in Content \cup {Nothing}
  /\ pc \in [Job -> Step]
  /\ request \in [Job -> [text : Text \cup {Nothing}, overwrite : BOOLEAN]]
  /\ watch \in [Job -> {"open", "closed", "lost"}]
  /\ outcome \in [Job -> Outcome]
  /\ byOperator \in BOOLEAN
  /\ author \in Job \cup {Nothing}
  /\ lookedAt \in SUBSET Job
  /\ calm \in [Job -> BOOLEAN]
  /\ fresh \in [Job -> BOOLEAN]

NoRequest == [text |-> Nothing, overwrite |-> FALSE]

(* A bare host, or one where the package was installed: it seeds a         *)
(* configuration, generates the token and starts the service.              *)
Init ==
  /\ \/ /\ token = "none" /\ file = Nothing
        /\ enabled = FALSE /\ service = "down" /\ running = Nothing
     \/ /\ token = "ok" /\ file \in Edits \cap Valid
        /\ enabled = TRUE /\ service = "up" /\ running = file
  /\ pc = [j \in Job |-> "idle"]
  /\ request = [j \in Job |-> NoRequest]
  /\ watch = [j \in Job |-> "open"]
  /\ outcome = [j \in Job |-> "none"]
  /\ byOperator = enabled
  /\ author = Nothing
  /\ lookedAt = {}
  /\ calm = [j \in Job |-> FALSE]
  /\ fresh = [j \in Job |-> FALSE]

-----------------------------------------------------------------------------
(* The course of a run                                                     *)

Active(j) == pc[j] \notin {"idle", "ended"}

Alone(j) == \A k \in Job \ {j} : ~Active(k)

(* What j does disturbs the others; c says whether j itself stays calm.    *)
CalmOnly(j, c) == calm' = [k \in Job |-> k = j /\ calm[j] /\ c]

(* Whose text the file holds now, if the validator rejects it.             *)
Blame(j) ==
  author' = IF file' \in Valid THEN Nothing ELSE IF file' = file THEN author ELSE j

NobodyCalm == calm' = [k \in Job |-> FALSE]

GoTo(j, step) ==
  /\ pc' = [pc EXCEPT ![j] = step]
  /\ CalmOnly(j, TRUE)
  /\ UNCHANGED outcome

End(j, report) ==
  /\ pc' = [pc EXCEPT ![j] = "ended"]
  /\ outcome' = [outcome EXCEPT ![j] =
       [open |-> report, lost |-> "failed", closed |-> "unreported"][watch[j]]]

(* A command succeeded.  Progress is reported before the next one: where   *)
(* nobody follows the run any more, that throws and the run ends.          *)
Proceed(j, step) ==
  IF watch[j] = "open" THEN GoTo(j, step)
  ELSE End(j, "failed") /\ CalmOnly(j, FALSE)

(* A command failed, or the connection to it.                              *)
Fail(j) ==
  /\ "command" \in Faults
  /\ End(j, "failed")
  /\ CalmOnly(j, FALSE)

(* POST /api/onboard: nothing keeps a second run from the same host.       *)
Start(j) ==
  /\ ~Active(j)
  /\ \E r \in Requests : request' = [request EXCEPT ![j] = r]
  /\ pc' = [pc EXCEPT ![j] = "connect"]
  /\ watch' = [watch EXCEPT ![j] = "open"]
  /\ outcome' = [outcome EXCEPT ![j] = "none"]
  /\ calm' = [k \in Job |-> k = j /\ Alone(j)]
  /\ fresh' = [fresh EXCEPT ![j] = FALSE]
  /\ lookedAt' = lookedAt \ {j}
  /\ author' = IF author = j THEN Nothing ELSE author
  /\ UNCHANGED <<hostVars, byOperator>>

(* connect, detect, install-prereqs and fetch-build-install: what comes    *)
(* later relies only on their success.                                     *)
PrepareHost(j) ==
  /\ pc[j] = "connect"
  /\ Proceed(j, "read") \/ Fail(j)
  /\ UNCHANGED <<hostVars, request, watch, byOperator, author, lookedAt, fresh>>

(* Mutated form, for testing properties: the file is read as the login     *)
(* user, to whom the operator's file shows nothing.                        *)
refusesUnread(existing, r) ==
  /\ existing \notin {Nothing, Blank} \cup Edits
  /\ existing # r.text
  /\ ~r.overwrite

(* An existing configuration that differs is not overwritten unasked.      *)
refuses(existing, r) ==
  /\ existing \notin {Nothing, Blank}
  /\ existing # r.text
  /\ ~r.overwrite

(* A read that fails counts as an empty file.                              *)
ReadConfig(j) ==
  /\ pc[j] = "read"
  /\ \/ /\ refuses(file, request[j])
        /\ End(j, "refused")
        /\ CalmOnly(j, TRUE)
     \/ /\ ~refuses(file, request[j])
        /\ Proceed(j, "token")
     \/ /\ "read" \in Faults
        /\ Proceed(j, "token")
  /\ lookedAt' = lookedAt \cup {j}
  /\ UNCHANGED <<hostVars, request, watch, byOperator, author, fresh>>

(* The chain of write-config: [ -e token ] || generate it; cat > file.     *)
TestToken(j) ==
  /\ pc[j] = "token"
  /\ GoTo(j, IF token = "none" THEN "open" ELSE "cat")
  /\ UNCHANGED <<hostVars, request, watch, byOperator, author, lookedAt, fresh>>

OpenToken(j) ==
  /\ pc[j] = "open"
  /\ token' = "empty"
  /\ GoTo(j, "fill")
  /\ UNCHANGED <<file, enabled, service, running, request, watch,
                 byOperator, author, lookedAt, fresh>>

FillToken(j) ==
  /\ pc[j] = "fill"
  /\ \/ token' = "ok" /\ GoTo(j, "cat")
     \/ /\ "token" \in Faults
        /\ UNCHANGED token
        /\ End(j, "failed")
        /\ CalmOnly(j, FALSE)
  /\ UNCHANGED <<file, enabled, service, running, request, watch,
                 byOperator, author, lookedAt, fresh>>

TruncateConfig(j) ==
  /\ pc[j] = "cat"
  /\ file' = Blank
  /\ byOperator' = FALSE
  /\ Blame(j)
  /\ lookedAt' = lookedAt \ {j}
  /\ GoTo(j, "write")
  /\ UNCHANGED <<token, enabled, service, running, request, watch, fresh>>

(* The text arrives, as far as the connection carried it.  Over a file     *)
(* that another run has written in between, the two get mixed; one that    *)
(* was replaced in between stays as it is.                                 *)
FinishWrite(j) ==
  /\ pc[j] = "write"
  /\ \/ /\ file' = request[j].text
        /\ Proceed(j, "validate")
     \/ /\ file # Blank \/ watch[j] = "lost"
        /\ file' \in Cut
        /\ Proceed(j, "validate")
     \/ /\ byOperator
        /\ UNCHANGED file
        /\ Proceed(j, "validate")
     \/ file' \in Cut /\ Fail(j)
  /\ byOperator' = (byOperator /\ file' = file)
  /\ Blame(j)
  /\ UNCHANGED <<token, enabled, service, running, request, watch,
                 lookedAt, fresh>>

(* Mutated form, for testing properties: the validator's exit code is lost.*)
ValidateUnchecked(j) ==
  /\ pc[j] = "validate"
  /\ Proceed(j, "enable") \/ Fail(j)
  /\ UNCHANGED <<hostVars, request, watch, byOperator, author, lookedAt, fresh>>

(* The host's own binary judges the file, though not the token.            *)
Validate(j) ==
  /\ pc[j] = "validate"
  /\ \/ file \in Valid /\ Proceed(j, "enable")
     \/ file \notin Valid /\ End(j, "invalid") /\ CalmOnly(j, TRUE)
     \/ Fail(j)
  /\ UNCHANGED <<hostVars, request, watch, byOperator, author, lookedAt, fresh>>

(* Mutated forms, for testing properties: a service that waits for its     *)
(* restart is left alone; the state is named as systemd names it.          *)
serviceStartedWhenDown == IF service = "down" THEN "starting" ELSE service
serviceActivating == IF service \in {"down", "waiting"} THEN "activating" ELSE service

(* Enabling starts a service that is not running, and only then.           *)
serviceStarted == IF service \in {"down", "waiting"} THEN "starting" ELSE service

EnableStart(j) ==
  /\ pc[j] = "enable"
  /\ \/ Proceed(j, "verify") /\ enabled' = TRUE /\ service' = serviceStarted
     \/ /\ Fail(j)
        /\ \/ UNCHANGED <<enabled, service>>
           \/ enabled' = TRUE /\ service' \in {service, serviceStarted}
  /\ fresh' = [fresh EXCEPT ![j] = calm[j] /\ service # "up"]
  /\ UNCHANGED <<token, file, running, request, watch, byOperator, author, lookedAt>>

(* is-active: a process that has only just been started counts.            *)
Verify(j) ==
  /\ pc[j] = "verify"
  /\ \/ /\ End(j, IF service \in {"starting", "up"} THEN "onboarded" ELSE "inactive")
        /\ CalmOnly(j, TRUE)
     \/ Fail(j)
  /\ UNCHANGED <<hostVars, request, watch, byOperator, author, lookedAt, fresh>>

-----------------------------------------------------------------------------
(* What happens around a run                                               *)

LoseConnection(j) ==
  /\ "connection" \in Faults
  /\ Active(j) /\ watch[j] # "lost"
  /\ watch' = [watch EXCEPT ![j] = "lost"]
  /\ NobodyCalm
  /\ UNCHANGED <<hostVars, pc, request, outcome, byOperator, author, lookedAt, fresh>>

(* The wizard aborts the stream when it is closed.                         *)
CloseWizard(j) ==
  /\ "wizard" \in Faults
  /\ Active(j) /\ watch[j] = "open"
  /\ watch' = [watch EXCEPT ![j] = "closed"]
  /\ NobodyCalm
  /\ UNCHANGED <<hostVars, pc, request, outcome, byOperator, author, lookedAt, fresh>>

EditFile ==
  /\ "edit" \in Faults
  /\ file' \in Edits
  /\ byOperator' = TRUE
  /\ author' = Nothing
  /\ lookedAt' = {}
  /\ NobodyCalm
  /\ UNCHANGED <<token, enabled, service, running, runVars, fresh>>

(* main: an invalid configuration, or write mode without a token, and the  *)
(* daemon exits; the service manager waits and starts it again.  A text    *)
(* that was cut off has lost the [api] section at its end.                 *)
startable == file \in Valid /\ (file \in Text => token = "ok")

DaemonLaunches ==
  /\ service = "starting"
  /\ IF startable THEN service' = "up" /\ running' = file
     ELSE service' = "waiting" /\ running' = Nothing
  /\ UNCHANGED <<token, file, enabled, runVars, historyVars>>

DaemonRestarts ==
  /\ service = "waiting"
  /\ service' = "starting"
  /\ UNCHANGED <<token, file, enabled, running, runVars, historyVars>>

DaemonEnds ==
  /\ "daemon" \in Faults
  /\ service = "up"
  /\ service' = "waiting"
  /\ running' = Nothing
  /\ NobodyCalm
  /\ UNCHANGED <<token, file, enabled, runVars, byOperator, author, lookedAt, fresh>>

RunStep(j) ==
  \/ PrepareHost(j) \/ ReadConfig(j)
  \/ TestToken(j) \/ OpenToken(j) \/ FillToken(j) \/ TruncateConfig(j) \/ FinishWrite(j)
  \/ Validate(j) \/ EnableStart(j) \/ Verify(j)

Next ==
  \/ \E j \in Job : Start(j) \/ RunStep(j) \/ LoseConnection(j) \/ CloseWizard(j)
  \/ EditFile
  \/ DaemonLaunches \/ DaemonRestarts \/ DaemonEnds

Spec == Init /\ [][Next]_vars

(* The service manager does its part; operators and remote commands, which *)
(* have no timeout, owe nothing.                                           *)
FairSpec == Spec /\ WF_vars(DaemonLaunches) /\ WF_vars(DaemonRestarts)

-----------------------------------------------------------------------------
(* Properties                                                              *)

(* Retry is safe to run again (ssh-onboarding-design.md): whatever earlier *)
(* runs left behind, wherever they were cut off, a run with overwriteConfig*)
(* and a valid configuration that nothing disturbs succeeds and leaves the *)
(* host with its configuration and the service enabled, unless an earlier  *)
(* one left an empty token.                                                *)
CleanRetryRepairs ==
  \A j \in Job :
    pc[j] = "ended" /\ calm[j] /\ request[j].overwrite
      /\ request[j].text \in Valid /\ token = "ok"
    => outcome[j] = "onboarded" /\ file = request[j].text /\ enabled

(* A configuration an operator wrote is replaced, without overwriteConfig, *)
(* only by a run that looked at the file before it was written.            *)
EditsAreKept ==
  \A j \in Job :
    pc[j] = "cat" /\ byOperator /\ j \in lookedAt
    => request[j].overwrite \/ file = request[j].text

(* "Validation gates enablement" (ssh-onboarding-design.md): a run that    *)
(* left a configuration the host's own binary rejects, its own or a mixture*)
(* with another's, has still to write or to validate, or has ended without *)
(* success, whatever other runs and operators do in between.  The service  *)
(* may be enabled meanwhile, by an earlier run or by another one.          *)
InvalidTextIsNoticed ==
  \A j \in Job :
    author = j =>
      \/ pc[j] \in {"write", "validate"}
      \/ pc[j] = "ended" /\ outcome[j] \in {"failed", "invalid", "unreported"}

(* A host reported as onboarded, by an undisturbed run, comes to run, and, *)
(* unless a daemon was up already, with the configuration of that run.     *)
OnboardedNodeRuns ==
  \A j \in Job :
    (pc[j] = "ended" /\ calm[j] /\ outcome[j] = "onboarded" /\ token = "ok")
      ~> (pc[j] # "ended" \/ ~calm[j]
            \/ (service = "up" /\ (fresh[j] => running = request[j].text)))
=============================================================================
