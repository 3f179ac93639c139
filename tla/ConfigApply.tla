---------------------------- MODULE ConfigApply ----------------------------
(***************************************************************************)
(* The configuration file of one host and everyone who touches it: the     *)
(* local API's POST /api/v1/config/apply (api/LocalApi.cpp), the daemon    *)
(* that reads it once, when it starts (main.cpp), the dashboard's editor,  *)
(* scripts that call the API, and the Cockpit page, which replaces the     *)
(* file itself.                                                            *)
(*                                                                         *)
(* The file system: a write is seen at once by every process; what a loss  *)
(* of power leaves is any member of survivors, the contents the directory  *)
(* entry may still lead to.  Torn is a text that was cut off.              *)
(***************************************************************************)
EXTENDS Naturals, FiniteSets, Sequences

CONSTANTS
  Client,          \* clients of the apply endpoint
  Dashboard,       \* those of them that are editors in the dashboard
  Cockpit,         \* open Cockpit pages
  Vip,             \* settings of address and interface that belong together
  HalfVip,         \* an address without an interface, or the reverse
  Torn,            \* a text that was cut off
  None,
  InitialConfig,   \* what the installation or the operator left in the file
  Faults,          \* the faults a run admits
  MaxVersion,      \* bound: versions written, and edits on their way to be
  QueueCapacity    \* bound: connections that wait for the API thread

VipSetting == Vip \cup {HalfVip}

(* What the rest of the file holds is left out.  read_only and token_file  *)
(* are api.read_only and whether api.auth_token_file is set; the API is    *)
(* enabled.                                                                *)
Config == [vip : VipSetting, read_only : BOOLEAN, token_file : BOOLEAN]

Session == Client \cup Cockpit

(* A text of the file: what it says, how often the file had been replaced  *)
(* when it was written, and by whom.                                       *)
Content ==
  [config : Config \cup {Torn}, version : Nat, by : Session \cup {None}]

(* A connection in the backlog; live while its client waits for an answer. *)
Waiting == [by : Client, config : Config, live : BOOLEAN]

(* An admitted apply: the text its backup is a copy of, and the version it *)
(* wrote.  opened is history: which version the file had when the copy     *)
(* began.                                                                  *)
Apply ==
  [by : Client, config : Config, live : BOOLEAN, replaced : Content,
   version : Nat, opened : Nat]

ASSUME ConfigAssumption ==
  /\ Dashboard \subseteq Client
  /\ Client \cap Cockpit = {}
  /\ InitialConfig \in Config
  /\ InitialConfig.vip \in Vip
  /\ HalfVip \notin Vip
  /\ Torn \notin Config
  /\ None \notin Apply \cup Content
  /\ Faults \subseteq {"kill", "power", "disk", "directory"}
  /\ MaxVersion \in Nat /\ QueueCapacity \in Nat

VARIABLES
  file,       \* config.toml: its text, how often it was replaced, and by whom
  survivors,  \* the contents a loss of power may leave in its place
  backup,     \* config.toml.bak
  running,    \* the content the running daemon read when it started, or None
  queue,      \* connections the API thread has not accepted yet
  request,    \* the apply it works on, or None
  step,       \* how far that apply is
  stage,      \* what each session is doing
  form,       \* the configuration each session holds
  acked       \* history: the highest version a client was told is applied

fileVars    == <<file, survivors>>
apiVars     == <<queue, request, step>>
sessionVars == <<stage, form>>
vars        == <<fileVars, backup, running, apiVars, sessionVars, acked>>

-----------------------------------------------------------------------------
(* Configurations                                                          *)

(* Config::validate, and parsing before it.  A text that was cut off may   *)
(* still be a valid, shorter one.                                          *)
validates(config) == config = Torn \/ config.vip # HalfVip

(* Write mode without a token file: the daemon refuses to start.           *)
startupRejected(config) == ~config.read_only /\ ~config.token_file

(* The editor's form: the API never returns the path of the token file.    *)
formFromConfig(config) == [config EXCEPT !.token_file = FALSE]

(* Mutated form, for testing properties: a string without its closing      *)
(* quote is taken as far as it goes.                                       *)
receivedAsFarAsItGoes(config, whole) == IF whole THEN config ELSE Torn

(* parseJsonStringValue of a body that arrived whole, or was cut off by    *)
(* the read timeout.                                                       *)
received(config, whole) == IF whole THEN config ELSE None

-----------------------------------------------------------------------------
(* Contents                                                                *)

Installed == [config |-> InitialConfig, version |-> 0, by |-> None]
TornCopy  == [config |-> Torn, version |-> 0, by |-> None]

(* Mutated form, for testing properties: the temporary file is renamed     *)
(* before it is on the disk.                                               *)
survivorsWithoutSync(content) == survivors \cup {content, TornCopy}

(* After a rename of a synced temporary file the directory leads to the    *)
(* old or to the new content.                                              *)
survivorsAfterRename(content) == survivors \cup {content}

(* Mutated form, for testing properties: nobody syncs the directory.       *)
survivorsWithoutDirectorySync(synced) == survivors

(* fsync of the directory, whose failure is ignored.                       *)
survivorsAfterSync(synced) == IF synced THEN {file} ELSE survivors

ReplaceFile(config, session) ==
  /\ file' = [config |-> config, version |-> file.version + 1, by |-> session]
  /\ survivors' = survivorsAfterRename(file')

-----------------------------------------------------------------------------
Init ==
  /\ file = Installed
  /\ survivors = {Installed}
  /\ backup = None
  /\ running = None
  /\ queue = <<>> /\ request = None /\ step = "idle"
  /\ stage = [s \in Session |-> "closed"]
  /\ form = [s \in Session |-> InitialConfig]
  /\ acked = 0

(* Process and host                                                        *)

ApiGone == queue' = <<>> /\ request' = None /\ step' = "idle"

(* The daemon reads the file once; it may refuse to run with it.           *)
ServiceStart ==
  /\ running = None
  /\ running' = IF startupRejected(file.config) THEN None ELSE file
  /\ UNCHANGED <<fileVars, backup, apiVars, sessionVars, acked>>

(* An orderly stop, for a restart or after a fault of the loop: main joins *)
(* the API thread, which finishes its request but accepts no other.        *)
Stop ==
  /\ running # None
  /\ request = None
  /\ running' = None
  /\ ApiGone
  /\ UNCHANGED <<fileVars, backup, sessionVars, acked>>

Kill ==
  /\ "kill" \in Faults
  /\ running # None
  /\ running' = None
  /\ ApiGone
  /\ UNCHANGED <<fileVars, backup, sessionVars, acked>>

(* Nobody syncs the backup.                                                *)
PowerLoss ==
  /\ "power" \in Faults
  /\ running' = None
  /\ ApiGone
  /\ file' \in survivors
  /\ survivors' = {file'}
  /\ backup' \in {backup} \cup (IF backup = None THEN {} ELSE {TornCopy})
  /\ UNCHANGED <<sessionVars, acked>>

(* The kernel writes the directory back in its own time.                   *)
Writeback ==
  /\ survivors # {file}
  /\ survivors' = {file}
  /\ UNCHANGED <<file, backup, running, apiVars, sessionVars, acked>>

-----------------------------------------------------------------------------
(* Clients of the apply endpoint                                           *)

Move(s, to) == stage' = [stage EXCEPT ![s] = to]

(* A session that ends forgets what it held.                               *)
Leave(s) == Move(s, "closed") /\ form' = [form EXCEPT ![s] = InitialConfig]

(* The editor loads the configuration that runs, not the one in the file.  *)
Load(d) ==
  /\ stage[d] = "closed"
  /\ running # None
  /\ Move(d, "editing")
  /\ form' = [form EXCEPT ![d] = formFromConfig(running.config)]
  /\ UNCHANGED <<fileVars, backup, running, apiVars, acked>>

CloseEditor(d) ==
  /\ stage[d] = "editing"
  /\ Leave(d)
  /\ UNCHANGED <<fileVars, backup, running, apiVars, acked>>

(* Bound: no one starts an edit that could exceed MaxVersion.              *)
MayStartEdit ==
  file.version + Len(queue) + (IF step \in {"copying", "replacing"} THEN 1 ELSE 0)
    + Cardinality({k \in Cockpit : stage[k] # "closed"}) < MaxVersion

Enqueue(c, config) ==
  /\ running # None
  /\ Len(queue) < QueueCapacity
  /\ MayStartEdit
  /\ queue' = Append(queue, [by |-> c, config |-> config, live |-> TRUE])
  /\ Move(c, "waiting")
  /\ UNCHANGED <<fileVars, backup, running, request, step, acked>>

(* Apply in the dashboard: the edited form is first sent for validation    *)
(* and goes on only if it is valid.  The form stays, to be applied again.  *)
SubmitForm(d, config) ==
  /\ stage[d] = "editing"
  /\ validates(config)
  /\ form' = [form EXCEPT ![d] = config]
  /\ Enqueue(d, config)

(* A script posts what it likes.                                           *)
SubmitScript(c, config) ==
  /\ stage[c] = "closed"
  /\ UNCHANGED form
  /\ Enqueue(c, config)

Rest(c) == IF c \in Dashboard THEN "editing" ELSE "closed"

(* The client's timeout, or the end of the connection: nothing is known of *)
(* the request, which the daemon may still carry out.                      *)
GiveUp(c) ==
  /\ stage[c] = "waiting"
  /\ Move(c, Rest(c))
  /\ queue' = [i \in DOMAIN queue |-> [queue[i] EXCEPT !.live = @ /\ queue[i].by # c]]
  /\ request' = IF request = None THEN None
                ELSE [request EXCEPT !.live = @ /\ request.by # c]
  /\ UNCHANGED <<fileVars, backup, running, step, form, acked>>

-----------------------------------------------------------------------------
(* The API thread: one request at a time                                   *)

Answer(r) ==
  stage' = IF r.live THEN [stage EXCEPT ![r.by] = Rest(r.by)] ELSE stage

(* Mutated form, for testing properties: what runs is taken for the file.  *)
replacedConfigFromMemory == running

(* What the backup is a copy of: the file, opened now.                     *)
replacedConfig == file

(* Read, authenticate, validate.  An admitted request goes straight on to  *)
(* copy the file, which empties the old backup first.                      *)
AcceptApply(whole, authorized) ==
  /\ running # None /\ request = None /\ queue # <<>>
  /\ queue' = Tail(queue)
  /\ LET r         == Head(queue)
         candidate == received(r.config, whole)
     IN IF ~running.config.read_only /\ authorized /\ candidate # None /\ validates(candidate)
        THEN /\ request' = [by |-> r.by, live |-> r.live, config |-> candidate,
                            replaced |-> replacedConfig, version |-> 0,
                            opened |-> file.version]
             /\ step' = "copying"
             /\ backup' = TornCopy
             /\ UNCHANGED stage
        ELSE Answer(r) /\ UNCHANGED <<request, step, backup>>
  /\ UNCHANGED <<fileVars, running, form, acked>>

CopyBackup ==
  /\ step = "copying"
  /\ backup' = request.replaced
  /\ step' = "replacing"
  /\ UNCHANGED <<fileVars, running, queue, request, sessionVars, acked>>

(* Write and sync a temporary file that no one else sees, and rename it.   *)
RenameOver ==
  /\ step = "replacing"
  /\ ReplaceFile(request.config, request.by)
  /\ request' = [request EXCEPT !.version = file'.version]
  /\ step' = "syncing"
  /\ UNCHANGED <<backup, running, queue, sessionVars, acked>>

(* An error of the copy, the write, the sync or the rename is answered     *)
(* with status 500.                                                        *)
ApplyFails ==
  /\ "disk" \in Faults
  /\ step \in {"copying", "replacing"}
  /\ step' = "idle" /\ request' = None
  /\ Answer(request)
  /\ UNCHANGED <<fileVars, backup, running, queue, form, acked>>

(* Sync the directory as far as possible, and answer that it is applied.   *)
FinishApply(synced) ==
  /\ step = "syncing"
  /\ synced \/ "directory" \in Faults
  /\ survivors' = survivorsAfterSync(synced)
  /\ step' = "idle" /\ request' = None
  /\ Answer(request)
  /\ acked' = IF request.live /\ acked < request.version THEN request.version ELSE acked
  /\ UNCHANGED <<file, backup, running, queue, form>>

-----------------------------------------------------------------------------
(* The Cockpit page: read the file, change the VIP, validate, replace the  *)
(* file, restart the service.  Every step may fail and end it.  The        *)
(* restart is Stop and ServiceStart, which may follow any step.            *)

ReadFile(k, setting) ==
  /\ stage[k] = "closed"
  /\ MayStartEdit
  /\ Move(k, "validating")
  /\ form' = [form EXCEPT ![k] = [file.config EXCEPT !.vip = setting]]
  /\ UNCHANGED <<fileVars, backup, running, apiVars, acked>>

ValidateCandidate(k) ==
  /\ stage[k] = "validating"
  /\ running # None
  /\ validates(form[k])
  /\ Move(k, "writing")
  /\ UNCHANGED <<fileVars, backup, running, apiVars, form, acked>>

WriteBack(k) ==
  /\ stage[k] = "writing"
  /\ ReplaceFile(form[k], k)
  /\ Leave(k)
  /\ UNCHANGED <<backup, running, apiVars, acked>>

Abandon(k) ==
  /\ stage[k] \in {"validating", "writing"}
  /\ Leave(k)
  /\ UNCHANGED <<fileVars, backup, running, apiVars, acked>>

-----------------------------------------------------------------------------
Host == ServiceStart \/ Stop \/ Kill \/ PowerLoss \/ Writeback

Clients ==
  \/ \E d \in Dashboard :
       \/ Load(d)
       \/ CloseEditor(d)
       \/ \E config \in Config : SubmitForm(d, config)
  \/ \E c \in Client \ Dashboard, config \in Config : SubmitScript(c, config)
  \/ \E c \in Client : GiveUp(c)

ApiThread ==
  \/ \E whole \in BOOLEAN, authorized \in BOOLEAN : AcceptApply(whole, authorized)
  \/ CopyBackup
  \/ RenameOver
  \/ ApplyFails
  \/ \E synced \in BOOLEAN : FinishApply(synced)

CockpitPages ==
  \E k \in Cockpit :
    \/ \E setting \in Vip : ReadFile(k, setting)
    \/ ValidateCandidate(k)
    \/ WriteBack(k)
    \/ Abandon(k)

Next == Host \/ Clients \/ ApiThread \/ CockpitPages

Spec == Init /\ [][Next]_vars

-----------------------------------------------------------------------------
ConfigTypeOK ==
  /\ file \in Content
  /\ survivors \subseteq Content
  /\ backup \in Content \cup {None}
  /\ running \in Content \cup {None}
  /\ queue \in Seq(Waiting)
  /\ request \in Apply \cup {None}
  /\ step \in {"idle", "copying", "replacing", "syncing"}
  /\ (step = "idle") = (request = None)
  /\ stage \in [Session -> {"closed", "editing", "waiting", "validating", "writing"}]
  /\ form \in [Session -> Config]
  /\ acked \in Nat

(* The file holds a whole configuration that passed validation, and so     *)
(* does whatever a loss of power leaves in its place, at every moment of   *)
(* an apply and whatever fails ("a reader never observes a                 *)
(* partially-written config", LocalApi.cpp).                               *)
IsSound(content) == content.config # Torn /\ validates(content.config)

StoredConfigIsSound == IsSound(file) /\ \A content \in survivors : IsSound(content)

(* Once a client was told that its configuration is applied, no crash and  *)
(* no loss of power brings an older one back.                              *)
AckedApplyIsKept == file.version >= acked

(* When an apply replaces the file, the backup is the configuration that   *)
(* is replaced, unless a Cockpit page replaced the file after the copy to  *)
(* the backup began; then it is the whole configuration of that moment.    *)
BackupIsTheReplaced ==
  [][step = "replacing" /\ step' = "syncing" =>
       IF file.version = request.opened
       THEN backup = file
       ELSE /\ file.version > request.opened /\ file.by \in Cockpit
            /\ backup # None /\ IsSound(backup)
            /\ backup.version = request.opened]_vars

(* "Back up the previous config first, so the backup always reflects the   *)
(* config being replaced" (LocalApi.cpp), whoever else writes the file.    *)
BackupReflectsTheReplaced ==
  [][step = "replacing" /\ step' = "syncing" => backup = file]_vars

(* A configuration that a client was told is applied takes effect when the *)
(* service starts again (config-reference.md); so it must start at all.    *)
AckedApplyStarts ==
  file.version = acked /\ acked > 0 => ~startupRejected(file.config)

-----------------------------------------------------------------------------
(* The file as a durable register of valid configurations: its texts       *)
(* without who wrote them.                                                 *)
RegisterValue(content) == [value |-> content.config, number |-> content.version]

ValidConfig == {config \in Config : validates(config)}

Register ==
  INSTANCE DurableRegister WITH
    Value    <- ValidConfig,
    Initial  <- InitialConfig,
    latest   <- RegisterValue(file),
    kept     <- {RegisterValue(content) : content \in survivors},
    promised <- acked

(* Apply, Cockpit page, crash and loss of power together implement the     *)
(* register: every change of the file is one atomic write of a valid       *)
(* configuration, whatever steps it takes and whatever fails among them,   *)
(* and the answer "applied" is a promise the register may give.            *)
FileIsARegister == Register!Spec
=============================================================================
