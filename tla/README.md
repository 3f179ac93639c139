# Verification of easy-failover

easy-failover keeps one virtual IP address (VIP) on the best available host of a
small cluster.  Every host runs the same daemon; the daemons exchange UDP
heartbeats (and, optionally, broadcast beacons), each of them elects an owner from
what it hears, and each adds or removes the VIP on its own interface.  There is no
agreement protocol: every daemon decides alone.  The hard part is what many such
loops do together, under loss, crashes and unequal views, with the VIP left on the
interface when a process dies.

This directory holds TLA+ models of the daemon, of a cluster of daemons, of the threads
of one process, of a health command, of the way a host's configuration is changed and of
the way the dashboard onboards a host; the TLC runs that check them; and TLAPS proofs of
their safety properties.  Paths are relative to the repository; its C++ code is in
`src/src/` when the repository is checked out under `src/`.

## Inventory

| component | state it keeps | operations | correct when |
|---|---|---|---|
| Decision (`core/Election.cpp`, `core/FailoverDecision.cpp`) | none | elect by priority and id; quorum gate; non-preemption; self-fencing | no claim without a quorum of distinct members; no two owners the cluster cannot resolve |
| Daemon loop (`runtime/DaemonRuntime.cpp`) | warm-up flag, local status, peer tables, last send times, `elapsed_ms` | expire, send, receive, discover, lifecycle, publish, sleep | decisions count only fresh peers; a failed heartbeat cycle is followed by no VIP operation; nothing real before the warm-up |
| Lifecycle and VIP (`DaemonRuntime.cpp`, `platform/linux/LinuxVip*.cpp`) | the host's interface | probe, add, announce, remove | operations agree with the interface; an added VIP is announced; a holder without quorum gives it up |
| Heartbeat transport (`heartbeat/`) | the UDP socket's queue | send to every peer, one receive with a timeout | what is counted is recent in real time |
| Discovery (`discovery/`) | peer table, the beacon socket's queue | drain, broadcast, prune | an entry is fresh, also in real time; a node counts once |
| Process (`main.cpp`, `runtime/ShutdownSignal.cpp`, service manager) | shutdown flag and reason, pending signal, start-up state, exit status | start, signal, stop, join, restart, `--release-vip` | a requested shutdown happens, for the reason given; a failed daemon comes back; threads use no dead state |
| External commands (`platform/linux/LinuxNetworkCommandRunner.cpp`) | child process, its output | fork, read, reap | success is only said of a command that ran and exited with 0 |
| Local HTTP API (`api/LocalApi.cpp`) | the config file, its backup, the API thread's start-up state | status, validate, apply with backup and rename, serve | a crash leaves a whole configuration, an acknowledged one is kept, the backup is what was replaced; every client is served; a failing listener stops the daemon |
| Configuration (`config/Config.cpp`) | none | parse, validate | only consistent configurations are accepted, and the daemon starts with what it accepted |
| Health command runner (`platform/linux/LinuxHealthCommandRunner.cpp`, `health/HealthCheck.cpp`) | child process, process group, exec pipe | run with a timeout, terminate the group | bounded time, no child left behind, a true report, no signal to a stranger |
| Dashboard, configuration editor (`web/lib/config`, `web/app/page.tsx`, `web/app/api/nodes/[id]/config`) | the form | load, edit, validate, apply | an apply that is reported as done is done |
| Dashboard, onboarding (`web/lib/onboarding`, `web/app/api/onboard`) | the run; at the host the token, the configuration file and the service | connect, prepare, write, validate, enable, verify | a run cut off anywhere can be repeated; an operator's file is not clobbered; what is reported as onboarded runs and takes part |
| Dashboard, registry (`web/lib/nodes`) | the registry file | read, append | – |
| Cockpit page (`cockpit/app.js`) | the text it read | read, change the VIP, validate, replace, restart | what it writes is valid |
| Packaging, log formatting, host identity, facade | – | – | – |

How they interact: `main` builds the VIP manager once, may start the API thread, and
runs the daemon loop on the main thread.  The loop sends, waits for at most one
heartbeat, exchanges beacons and calls the lifecycle, which probes the interface,
asks the decision layer and calls the VIP manager, whose commands are child processes.
A signal handler and the API
thread reach the loop only through the shutdown flag.  The API thread answers one
request after the other; its apply writes the file that `main` reads once, at the next
start.  The dashboard's editor and scripts go through it, the Cockpit page writes the
same file itself, and so does a run of the onboarding wizard, over ssh.  Daemons reach
each other only through datagrams.  The interface belongs to the host and survives the
process.

What is hard: the order of the steps inside an iteration when any of them can fail
or the process can die; logical against real time; the queue of a socket read once
per interval; links that lose in one direction only; two masters after a partition;
restarts that find the VIP on the interface; threads that end in any order; a child that
ends, hangs or forks just when its deadline passes; for the configuration, three kinds of
writers, a running copy that is older than the stored one, requests given up but still
carried out, and power lost between the steps of an apply; and onboarding runs that
overlap, or leave a remote command behind that nobody follows.  `PROJECT.json` lists each
of these hazards at its line, with the properties that watch it.

## Modules

| module | models |
|---|---|
| `FailoverDecision` | the pure decision, operator by operator |
| `DaemonRuntime` | state and steps of one daemon per node, its process and its host's interface; every answer of the environment is a parameter |
| `Daemon` | `DaemonRuntime` in an open environment: any verified datagram or none, any admitted fault, at any step; the safety and liveness properties of one daemon |
| `Cluster` | several daemons, their heartbeat and discovery sockets, lossy links, crashes, and real time; the properties of the whole |
| `Process` | the threads of one process: main, API thread, signal handler, the external commands and the API's clients |
| `HealthCommand` | one run of a health command: the caller, the child and a process it leaves in its group |
| `ConfigApply` | one host's configuration file, its backup, the running copy, the API thread's apply, and those who edit: dashboard, scripts, Cockpit pages |
| `DurableRegister` | the abstract promise of a stored configuration: atomic writes, and promises that no crash breaks |
| `Onboard` | runs of the onboarding wizard against one host, its operator and its service manager |
| `MCDaemon`, `MCCluster`, `MCProcess`, `MCHealthCommand`, `MCConfigApply`, `MCOnboard` | small instances for TLC |
| `Daemon_proofs`, `DaemonSafety_proofs`, `Cluster_proofs`, `ClusterSafety_proofs`, `Process_proofs`, `HealthCommand_proofs`, `ConfigApply_proofs`, `Onboard_proofs` | theorems about the module of that name |

`Cluster` extends `Daemon` and adds sockets, links and time, so that every action of a
cluster contains one of a daemon; `EveryNodeIsADaemon == Spec` says that the composed
system, its own variables hidden, implements the open specification of `Daemon`: a
safety property of any daemon in any environment holds of every node of a cluster.
`ConfigApply` implements `DurableRegister`: `Register` is an instance of it with a
refinement mapping that forgets who wrote a text and how far an apply has come, and
`FileIsARegister` the statement.  `Process`, `HealthCommand` and `Onboard` stand alone.
What `DaemonRuntime` takes for granted of a process and its commands, that a shutdown
request ends it, that a failure is restarted, that a command which reports success was
carried out, is what `Process` checks.

### Correspondence: the daemon and the cluster

`pc` says where the main thread is.  A step ends where the thread blocks (`asleep`,
`receive`) or runs a command (`lifecycle` probes, `add`, `announce`, `remove`);
everything between is one action.

| action | code |
|---|---|
| `BeginIteration` | top of `runDaemonRuntimeLoop`: shutdown poll, `expirePeers`, schedule, send |
| `CompleteReceive`, `InterruptReceive` | the receive of `runHeartbeatLoopOnce`, the fault on an error, recording the peer, expiring again |
| `ExchangeBeacons` | the discovery block: drain, broadcast, prune |
| `LifecycleIdle`, `ProbeAndDecide` | `runDaemonLifecycleOnce` up to the decision, probe errors included |
| `AddVip`, `AnnounceVip`, `RemoveVip` | one VIP operation each with `recordVipOperation` |
| `EndIteration` | publish, end of the warm-up, sleep, advance of `elapsed_ms` |
| `StopLoop`, `Exit` | the ways out of the loop and of `main` |
| `Signal`, `ApiFailure`, `Kill`, `PowerLoss`, `ServiceStart`, `OperatorStart` | what surrounds the process |
| `ReleaseVip` | `main --release-vip`, a process of its own, at any step of a daemon |

The two tables (`recent`, `discovered`) keep, instead of the time an entry was seen,
its age `elapsed_ms - last_seen`, because the code only ever compares that
difference; ages stop growing where no comparison can tell them apart.  The same
holds for `sinceSend` and `sinceBeacon`.

Abstractions, each of them local: node ids are numbers whose order is the order of
the strings; `selected_master`, reasons and recorded observations are left out,
because nothing reads them back; health is always true, as in the loop; a command
takes effect or not and reports success or not, a success never without effect, and a VIP
that is not there cannot be removed; the
beacon identity of a node is its id; the wire format is the status it carries; a
configured peer id appears once.  The bounded `--max-iterations` mode is not
modelled.  `released` is a history variable: the operator has taken the VIP since the last
probe.  The package stops the service before `--release-vip`; the code does not ask for it.  When the lifecycle sees a shutdown request, the loop still publishes and
sleeps once, which `stopping` stands for.

In `Cluster` real time advances by `Tick`, one unit at a time, only when every
daemon waits; commands take no time.  While one daemon is between two waits the
others do not move: what it does there reads and writes only its own host, and what
it sends arrives at the moment it waits again.  A socket that is full, a link in
`lossy` or a process that is down loses the datagram.  Nothing on a LAN duplicates
or reorders datagrams between two sockets here; delay is time in the queue.

`Discover` is the discovery block of a node in a cluster: `Drained` are the beacons in
its socket, `BeaconReaches` says to whom its own broadcast gets.  The socket is kept as
the last beacon of each sender: a drain takes all that has arrived (its limit of 64 is
never reached by the nodes of one cluster) and observes them in order, so that the last
of a sender decides.  `heardAge` and `beaconAge` are history variables, the real ages of
the heartbeats and beacons behind the entries of the two tables.

### Correspondence: the process

Steps are cut where another thread can see or change what is shared.  The shutdown
state is two atomic stores (`storeReason`, `RaiseFlag`), made by the main thread when it
polls the handler's flag and by the API thread when it fails; the start-up handshake has
its mutex and condition (`startup`), which end (`startupGone`) when main leaves the block
that declares them, on every way out.

| action | code |
|---|---|
| `SignalArrives` | the kernel's delivery and `handleShutdownSignal`; before the handlers are installed it kills |
| `InstallHandlers`, `Launch`, `AwaitStartup` | `main` up to the API thread's report |
| `LoopTop`, `EnterLifecycle`, `Publish` | the loop's polls of the shutdown state and its sleep |
| `RunCommand`, `CommandRuns`, `ReadOutput`, `ReapCommand` | `LinuxNetworkCommandRunner::run` and the child, which may close its output before it ends |
| `Stop`, `Join`, `Judge` | the regular end: ask the thread, join it, exit status |
| `Throw`, `Unwind`, `GuardStops`, `GuardJoins` | the ways out by early return and exception: destructors in their order, then `ApiThreadGuard` |
| `OpenListener`, `ReportStartup` | the listener's start and the callback that reports it |
| `Accept`, `ReadMore`, `ReadEnds`, `Answer` | one request: reads whose timeout starts anew with each byte, until `kMaxRequestBytes` |
| `ServeStops`, `ServeFails`, `ApiThrows`, `CatchException`, `StoreResult`, `ApiRequestsShutdown` | the API thread's ways out |

An iteration of the loop is here up to `MaxCommands` commands that work or fail.

`HealthCommand` is cut at the system calls of `run()` and `terminateProcessGroup`: fork
and the exec pipe, `setpgid` from both sides, the wait and the look at the clock, each
signal to the group and to the leader, the grace period, the reaping.  The deadline may
pass between any two of them.  A process may be stubborn, that is, ignore SIGTERM; the
child before its exec has the daemon's own handler, in which a SIGTERM is lost.  A pid
belongs to the child until it is reaped.  `waitpid` is given the caller's own child, which
nobody else reaps: it fails with `EINTR`, on which the code tries again, and the branches for
its other errors (`LinuxHealthCommandRunner.cpp:58`, `:282-289`) are left out.

### Correspondence: the configuration and onboarding

In `ConfigApply` the steps of an apply are the points where a crash leaves different
files: `AcceptApply` (read, authenticate, validate, open and so truncate the backup),
`CopyBackup`, `RenameOver` (the temporary file, which nobody else sees, is written and
synced before), `FinishApply` (sync the directory, answer); `ApplyFails` is any error in
between.  A configuration is reduced to its VIP settings, `read_only` and whether a
token file is named, and a text that was cut off is `Torn`, which may well be valid.
`survivors` are the contents the directory entry may lead to after a loss of power; a
rename adds the new one, a sync or the kernel's own writeback leaves only that.  The
backup is synced by nobody and may be lost at any power loss.  A process that is killed
leaves the file system as it is.  `queue` is the listener's backlog: connections the
API thread has not accepted.  A client that gives up stops waiting, but its request
stays.  `SubmitForm` and `SubmitScript` send any configuration, `received` says what
arrives when the body is cut.  The validation that precedes an apply from the dashboard
is a guard of `SubmitForm`: it reads nothing but the body that is then sent again.  The
Cockpit page's is a step of its own, since the page replaces a file it read before it.
`cockpit.file().replace` is external and taken as an atomic replacement that becomes durable
in the kernel's time.  `ReadFile` is the page's change as far as it reaches the VIP settings:
the lines of other sections are data the model does not carry (see the observations).  A restart is `Stop` and `ServiceStart`.  Temporary files
left behind by a crash are not modelled; their names are random and nobody reads them.

In `Onboard` a step of a run is one remote command of `onboard()`, in its order; the
command of write-config, a chain of shell commands, is cut further: `TestToken`
(`[ -e token ]`), `OpenToken` and `FillToken` (the redirection creates the file before
`openssl` fills it), `TruncateConfig` and `FinishWrite` (the shell truncates before `cat`
writes).  `connect` to `fetch-build-install` are one step, since what follows relies only
on their success.  A lost connection or a closed wizard does not stop the command that
runs at the host; it ends the run at the next report of progress, whose stream is gone
(`Proceed`), with the texts of stdin perhaps cut off.  Nothing keeps two runs from the
same host: `Job` are slots, each used again any number of times.  `calm` marks a run that
had the host to itself from its start; a run that is not calm may find anything.
`author` is a history variable: the run that left the text in the file, when it is one
that the validator rejects.  The
service manager is systemd with the unit of the package: `enable --now` starts a service
that is down or waits for its restart, `is-active` counts a process that was only just
started, and a daemon that refuses to start is started again later.

## Runs

| run | question | result |
|---|---|---|
| `daemon_safety` | with one of four nodes, which hears two others by heartbeat and one by beacon, a quorum of three and every fault possible at every step: is the counted view fresh, do operations meet the interface they expect, does a failed heartbeat cycle fail closed, does every claim see a quorum, does no iteration complete with an owner that saw none or should have yielded to a better node, does every shutdown request end the process, and does a daemon that stays up let go of a VIP it has no quorum for? | pass |
| `cluster_two_quorum` | two nodes, quorum, any link lossy in any direction, a crash: one owner at most; bounded real age of counted heartbeats; every step a step of `Daemon`; and after the links heal, does the preferred node alone keep the VIP? | pass |
| `cluster_two_no_preempt` | two nodes that hear each other by heartbeat and by beacon, without quorum and preemption, from a dual master: fresh entries in both tables, bounded real age of counted beacons, and one owner in the end? | pass |
| `process_threads` | main, API thread, signal handler, two clients and the commands, each failing wherever it can: does no thread use what another destroyed, does the exit status tell a failure and the recorded reason a cause, is success real, does every shutdown end, is every client served? | pass |
| `health_command` | a command that may hang, fail to start, be signalled, ignore SIGTERM and leave a process behind, with the deadline between any two steps: true report, child reaped, no signal to a reaped pid, a polite group gone, and does `run()` return? | pass |
| `config_apply` | an editor, a script and a Cockpit page, with time-outs, disk errors, kills and power loss: is the stored configuration whole and valid at every moment, is an acknowledged apply kept, is the backup what was replaced unless a page came between, is the file a durable register? | pass |
| `onboard_retry` | overlapping runs of the wizard, cut off anywhere, with operators' edits and restarts of the daemon: does an undisturbed retry repair what is left, is an edit a run could see kept, does a run whose invalid text is in the file always notice, and does a host reported as onboarded come to run? | pass |
| `daemon_warmup_gap` | does a real operation wait for the warm-up? | violated |
| `cluster_three_split_brain` | three nodes, strict majority: one running, warmed-up owner at most? | violated |
| `cluster_onboarded_join` | a node added by the dashboard, on a whole network: one owner in the end? | violated |
| `config_unstartable` | does the daemon start with a configuration it accepted? | violated |
| `config_backup_race` | is the backup always the configuration that an apply replaces? | violated |

### What the violated runs show

* **Warm-up gap.**  The lifecycle receives a copy of the configuration with mutation
  withdrawn, but the VIP manager was built from the original.  The first iteration
  therefore runs a real `ip addr add`, sees that the result was not a dry run, and
  faults with the VIP on the interface.  The unit test of the warm-up uses a fake VIP
  manager and cannot see it.
* **Split brain.**  A quorum is heard, not granted.  Node 2, rejoining, hears node 3
  before node 1, sees two of three and claims, while node 1 hears node 2 and stays.
  The overlap is transient, but both are past their warm-up.
* **One-sided join.**  Onboarding gives the new node the peers of the node whose dashboard
  adds it, and that node itself (`Onboarded` in `MCCluster`); no list of an older node
  changes.  The older node sends the new one nothing and drops its heartbeats, which come
  from no configured peer; the new one hears nobody, and the form's defaults ask for no
  quorum.  Both hold the VIP, for ever, on a network that loses nothing.
* **Unstartable configuration.**  The editor's form never knows the path of the token
  file and sends it blank.  Validation accepts write mode without one, the apply is
  acknowledged, and at the next start `evaluateLocalApiStartup` refuses: the host leaves
  the cluster.  Since the daemon does not start, its API cannot repair the file either.
* **Backup race.**  `LocalApi.cpp:488` says that the backup always reflects the configuration
  that is replaced.  The copy is made first and the rename last, with a write and two syncs
  between; a Cockpit page, which replaces the same file, can come in between.  The backup is
  then the text before the page's, and what the page stored is in neither file.
  `BackupIsTheReplaced` is what does hold, and is proved: if nobody replaced the file since
  the copy began (`opened`), the backup is that file; otherwise it was a page, and the backup
  is the whole text of the version the copy began with.

### Observations without a run of their own

Of the daemon and the cluster:

* A VIP that was added but not announced, because the process ended in between (as the
  warm-up gap makes it), is never announced: the next process probes it as its own, and
  an owner does not announce.  `failover-safety.md:34` says the backend announces after
  adding.
* `failover-safety.md:49` counts "this node plus every peer with a fresh heartbeat", and
  line 85 promises that a node which no longer sees a majority releases the VIP.  The code
  does not keep either promise in two cases, which `SelfFencing` and `OwnersSeeQuorum`
  therefore leave out, in so many words:
  * A holder whose sends fail (interface down, no route) faults before it probes, after
    every restart again, and never reaches the release.  The same holds of receives, probes
    and removals that keep failing.  `SelfFencing` admits all these faults, and speaks of a
    daemon that from some time on stays up.
  * Heartbeat peers and discovered peers are concatenated: with discovery on, a node known
    both ways counts twice.  `daemon_safety` has discovery on and a threshold of three,
    which heartbeats and beacons meet together, but nobody is heard both ways: its two
    heartbeat peers send no beacons (`Segment`).  With `Segment = {1, 2}` and no
    fault TLC finds `ClaimsSeeQuorum`, `OwnersSeeQuorum` and `SelfFencing` violated in that
    run: one peer, heard both ways, makes three members and is enough for ever.
* Without static peers `electionPolicyFromConfig` takes the cluster to have one node
  (`DaemonRuntime.cpp:183`), so that a pool formed by discovery alone has a quorum of one.
* Two nodes with discovery only and without preemption may never form the pool that
  `config-reference.md:282` describes: a first iteration that hears no beacon claims
  during the warm-up, faults because of the gap above, restarts and may do so again.  The
  passing run has heartbeats too.  Three restarted nodes may flap in the same way.
* Without preemption a master yields only if the highest-ranked candidate is itself a
  master.  With a healthy third node on top that is a backup, two lower masters stay.
* `elapsed_ms` counts intervals, not the time spent in `poll`, so a counted entry can be
  older than its timeout in real time; `DetectionBound` and `BeaconBound` are what does
  hold.  For the same reason a beacon is sent less often than every `interval_ms`, and a
  node known by beacons alone may expire.  `DetectionBound` is exact: TLC violates it with
  one unit less.  With more nodes the one receive per interval lets queues fill, and
  what remains is `QueueBound`, which grows with the socket's size.

Of a process:

* A signal handled by the thread that waits in `poll` makes it fail with `EINTR`, which
  the loop treats as a fault: the process ends (`ShutdownStops`) but with a failure status.
* If the loop throws, the start-up mutex and condition are destroyed before the guard joins
  the API thread, which may still come to them after an exception of its own:
  `StartupStateOutlivesThread` excepts `threw`.
* External commands have no timeout, unlike health commands.  One that hangs stops the
  daemon, heartbeats included; `ShutdownEnds` assumes that they end.
* After a timeout, a process of the health command's group that ignores SIGTERM survives
  if the leader ends first, for then no SIGKILL is sent (`GroupIsGone` fails;
  `macos-support.md:175` says the whole group gets SIGTERM then SIGKILL).

Of the configuration:

* An editor that is opened again before the restart shows the configuration that runs, and
  its next apply drops the one that waits; the form also writes no `[discovery]` section, so
  that applying any change turns discovery off.
* A Cockpit page replaces what it read before the validation, and drops an apply in between.
* `setVipInToml` splits the text at lines `[section]` (`app.js:128`), a pattern that a line
  `[[peers]]` does not match: where `[vip]` is the last table before the peers, as in
  `tests/fixtures/config/minimal.toml`, the page replaces the peers' `address` lines too.

Of onboarding:

* A token whose generation failed stays empty: every retry sees that the file exists.
  Validation does not read it, the daemon refuses to start, and `is-active` right after the
  start may still say "active", so that the wizard reports a node that never runs as
  onboarded.  `CleanRetryRepairs` and `OnboardedNodeRuns` except `token # "ok"`; without
  the exception TLC finds both violated.
* A run with leave to overwrite puts its configuration in place before it is validated.  On
  a host whose service is enabled, an invalid one is then the file the next start meets,
  although `ssh-onboarding-design.md:236` says that an invalid configuration never reaches an
  enabled service; the summary "service not enabled" is wrong there.  What validation does
  give is `InvalidTextIsNoticed`: a run that left an invalid text, its own or a mixture with
  another run's, does not report success before it has been replaced.
* `enable --now` does not restart a daemon that is up.  On a host where the package started
  one, the new configuration waits for a restart, while the wizard reports a node that runs
  with it.
* The no-clobber check is one command, the write another: an edit in between is lost, and so
  is one that the read failed to return, since `readConfigCommand` ends in `|| true` and a
  read that failed counts as an empty file (the fault `read`, off in the run).  Without leave
  to overwrite, a write that was cut off makes every later run refuse.
* `sv status` of a service that is down may print "normally up", which `/up/` matches.

### Bounds

A time unit is a heartbeat interval; timeouts of two or three of them let an entry be
fresh, nearly expired, expired on the boundary and beyond it.  `Segment` names the ids
whose beacons the network may carry: all of them, except in `daemon_safety`, where a node
that hears 2 and 3 by heartbeat hears only 4 by beacon; every daemon of a cluster is on its
segment, where the links let its beacons through.  Three or four ids give
`Daemon` a peer that outranks the node, one that ties, and a quorum that needs several
peers; the environment may hear any of them in any order, so more iterations add no new
interleaving.  In `Cluster`, `MaxCrashes` and `MaxLinkChanges` bound only the
disturbances, not the length of a behaviour; one crash and one change of any
directed set of links (starting from any) reach partition, heal, restart and
asymmetric loss.  `InboxCapacity` exceeds what two nodes can queue.  `AgeLimit` lies
above `DetectionBound` and `BeaconBound` where ages are checked and is 0 elsewhere.
`RestartDelay` is what an ended process stays away at least, systemd's `RestartSec` or a
boot; an operator's start in between is not part of a cluster run.  Three-node runs are used to refute only.
The faults `send` to `release` are all switched on in `daemon_safety`; the
cluster runs admit `kill` and `power`; in `Cluster`, sends and receives do not fail and nobody
sends a signal.  The one-sided join needs no fault at all.

In `process_threads` two clients and a backlog of one give a client that is served, one
that waits and one that is turned away; two reads are a request that is whole, cut off or
too long; two commands are one that follows another in an iteration.  In `health_command`
there is one command with one process it leaves behind; every process may be stubborn and
every call fail.

In `ConfigApply`, `MaxVersion` bounds how often the file is replaced and `QueueCapacity`
the backlog: three replacements are an apply, one that changes it and one more that
meets the backup of the second; one waiting connection behind the one that is served
gives every order of two clients.  One page suffices, since pages meet only through the
file.  The fault `directory` (a failing sync of the directory, which the code ignores) is
left off: with it an acknowledged apply may be lost, as its comment "best-effort" admits.
Deadlock is checked: the service can always be started or stopped.

In `onboard_retry` two runs may overlap, and each slot is used again without a bound; the
requests are a good configuration with and without leave to overwrite and a bad one, the
operator writes another good one, and what a cut leaves is empty (valid) or torn (not).

The two-node quorum run should be read with its consequence: with a strict majority
both nodes hear each other whenever one claims, so the lower-ranked one never owns the
VIP, which is what the documentation says of two nodes.

### Fairness

`FairSpec` of `Daemon` assumes weak fairness of each node's main thread together with its
start by the service manager; `FairClusterSpec` assumes it of each daemon and of `Tick`.
The code justifies it: `poll` has a timeout, the sleep is bounded,
and the unit file says `Restart=on-failure`; that commands end is assumed.
Nothing is assumed of signals,
operators, crashes, links or the answers of the environment.  In `TopNodeTakesOver` and
`OneOwnerInTheEnd` the premise `<>[](lossy = {})` says that the links settle; crashes end
because they are bounded.

`Process` assumes that both threads are scheduled and that commands end; a client owes
nothing, since a read that nothing answers times out.  `HealthCommand` assumes that the
caller and the forked copy of it run and that time passes; the command may run or sleep for
ever.  `Onboard` assumes only that the service manager launches and restarts the daemon:
ssh commands have no timeout, and operators owe nothing.  `ConfigApply` has no liveness
property and assumes no fairness.

## Proofs

Each theorem holds for every value of the constants that satisfies the named assumptions.

The daemon, for every set of nodes, every configuration and every set of faults (ids are
numbers, timeouts and intervals positive):

* `TypeCorrect` – `TypeOK` is inductive; lemmas show that expiring, aging, observing
  and merging keep a table a table.
* `OperationsMatch` – an add meets an interface without the VIP, a removal and an
  announcement one with it.  Inductive beside `TypeOK`: once the probe has
  answered, only the daemon itself changes the interface, or power is lost and the process
  with it, or the operator's `--release-vip` takes the VIP away, which `released` remembers
  until the next probe and which the property excepts.
* `HeartbeatFailsClosed` – with real mutation requested, no iteration whose send or
  receive failed goes on to discovery or the lifecycle.
* `DryRunIsDry` – without the permission, or with `--dry-run`, the interface of a running
  daemon changes only when power is lost or the operator releases the VIP.
* `ViewStaysFresh` – `ViewInv` strengthens the property with the part of the iteration
  in which each table has already been expired, and with the fact that without
  discovery its step is never reached and its table stays empty: `ViewIsFresh` alone
  says nothing of `discovery`, from which `lifecycle` is entered.
* `ClaimsNeedQuorum` – every claim is made by a node that hears a quorum of distinct
  members, **if** no node lists itself and, where discovery is on, no heartbeat peer is on
  the segment too (`MembersCountOnce`).  `QuorumInv` says where each table's entries come
  from (`SourcesOK`), so that nobody is in both, and carries the quorum from the decision to
  the add, since the tables do not change in between.  The hypothesis cannot be dropped: a
  node heard both ways counts twice.

* `OwnersNeedQuorum` – under the same premise, no daemon that may act ends an iteration as an
  owner without having seen a quorum in it.  `OwnerInv` carries the
  quorum of the decision through the add to the announcement and to `publish`; an owner
  without one gets to `publish` only by a removal.  This is the safety half of
  self-fencing; `SelfFencing` adds that iterations end.
* `ElectionStaysObeyed` – whoever adds the VIP outranks every healthy peer it counts, and
  without preemption none of them is a master; no owner ends an iteration in which it
  should have yielded.  `ElectionInv` carries the decision to `add`, `announce` and `publish`;
  `WireInv` bounds what a peer can be to the statuses that a message carries.

The cluster, for every number of nodes, every capacity, link behaviour and bound:

* `EveryNodeStaysADaemon` – the refinement: every step of a cluster is a step of `Daemon`
  or leaves its variables alone.  `NetInv` says what the step needs of the sockets: they
  hold only statuses that a daemon of the cluster sent, within the types the open
  environment may deliver.
* `ClusterInheritsSafety` – by it, the view of every node is fresh, operations match the
  interface, heartbeats fail closed and dry runs are dry in every cluster.
* `PoolStaysBounded` – no decision counts a beacon older than `BeaconBound` in real time.
  `PoolInv` bounds the real age of an entry by the iterations its logical age stands for
  (one heartbeat interval and one receive timeout each) and by how far the iteration under
  way has come.
* `ClusterTypesKept` – types of the tables, sockets and ages.
* `ClusterInheritsElection` – `ElectionIsObeyed`, and with `MembersCountOnce` also
  `OwnersSeeQuorum` and `ClaimsSeeQuorum`, in every cluster.
* `QueueStaysBounded` – no decision counts a heartbeat older, in real time, than a full
  queue, one interval per datagram, and the iterations of the timeout allow.  `LineInv`
  bounds the age of each datagram together with the wait it still has, an interval for
  each one before it, since every round receives one; `EntryInv` carries the age at
  reception through the iterations that age the entry.  No premise.
* `DetectionStaysBounded` – the sharper `DetectionBound`, **if** a socket has one sender
  (`OneSender`) and an ended process stays away for an interval at least.
  `SpacingInv` then says that what a node sent last has waited, when it sends again, for an
  interval, so that `LineInv` holds with one interval for a whole queue.  Both premises are needed: a second sender, or a sender that
  restarts at once, adds datagrams faster than one receive per interval takes them, and
  TLC violates the bound with three nodes, whole links and a queue of six, or `RestartDelay` 0.  The
  packaged unit has `RestartSec=2s` and the default interval is one second.
* `OneOwner` – no two hosts carry the VIP, **if** a quorum is everybody
  (`QuorumIsEverybody`), discovery is off, no node lists itself, and no host but the preferred one carries the
  VIP at first.  The argument: a claimant hears everybody (`KnownInv`: what it hears calls
  itself healthy and by its own name), and it outranks all it hears, so only the preferred
  node ever claims (`ClaimantLeads`, `LeadInv`), however old what it heard may be.  With a
  majority short of everybody this fails (`cluster_three_split_brain`); with discovery on
  one peer may make the quorum of two.
* `TwoNodesHaveOneOwner` – the instance in use: two nodes that list each other, with the
  default strict majority, which of two is both.  The cost is that the other never takes
  over.

One process and one health command, for every set of faults, clients and bounds:

* `ThreadTypesKept`, `ReasonStaysTrue`, `ExitStaysTrue`, `StartupStateStays`,
  `SuccessStaysReal` – from one
  invariant of both threads: what the API thread's place says about what it has reported
  and stored, what main's place says about what it has waited for, and what the command's
  state says about its status.  `StartupStateStays` rests on this: main leaves the block
  early only after the report, or by its own exception.
* `RunTypesKept`, `ChildIsReaped`, `SignalsStayOnTarget`, `ReportStaysTrue` – `Inv` ties the
  caller's place to the child's state and to what the outcome will be; no signal names a
  reaped pid.
* `PoliteGroupGoes` – after the SIGTERM to the group nobody who heeds it is left, and nobody
  in the group can start another one.

The configuration, for every set of sessions, settings and faults:

* `ConfigTypesKept`, `StoredConfigStaysSound` – by `StoreInv`: whatever can
  still become the file (the admitted request, the candidate a page has validated) is
  valid, and so is every survivor.
* `BackupStaysTheReplaced` – `BackupInv`: from the copy to the rename the backup is the
  text of the version with which the copy began, and that is the file's unless a page has
  replaced it since.
* `AckedApplyStaysKept` – **if** the directory can be synced; `DurableInv` adds that no
  survivor is older than what was acknowledged, and that the apply being synced is no
  newer than the file.
* `FileStaysARegister` – under the same premise, the refinement of `DurableRegister`: a
  rename and a page's write are its `Write`, a sync its `Flush` or `Promise`, a loss of
  power its `Crash`, and every other step a stutter.

Onboarding, for every number of slots, every set of requests, texts and faults:

* `OnboardTypesKept` – types.
* `RetryStaysRepairing` – by `CalmInv`: what a run that was alone from its start has
  established by each of its steps, whatever it met at first.
* `InvalidTextStaysNoticed` – for every overlap of runs, with no premise that one was alone.
  `NoticedInv` adds that a file which the validator rejects has an author only while it is
  there, so that a validation that passes clears its own run of blame.
* `EditsStayKept` – **if** reads of the file do not fail; `EditsInv` carries what the run
  saw from the read to the write.

Only model-checked: every liveness property (temporal reasoning under fairness is out
of the prover's reach, and so is `ENABLED`): `ShutdownStops`, `SelfFencing`,
`TopNodeTakesOver`, `OneOwnerInTheEnd`, `RunReturns`, `ShutdownEnds`, `ClientsAreServed`
and `OnboardedNodeRuns`.  Every invariant and action property of a passing run is also
proved, under the premises above.

## Not modelled, and the plan

Not modelled, and why: parsing of TOML, HTTP, JSON and the wire formats, and the HMAC of
beacons (pure functions of bytes, abstracted to whether a message is accepted and what it
carries); the formatting of logs and the identity of the host (pure input and output); the
facade `FailoverNode` (the daemon does not use it); the API's read-only endpoints and the
pages that show them (they change no state); the dashboard's registry (read and written in
one synchronous step, and no daemon reads it); the effects of installing packages, the
policies of host keys and the redaction of secrets in onboarding; init systems other than
systemd; the installation scripts beyond the state they leave and the release of the VIP.

What the plan has left: three-node runs that pass, with the premises under which they do
(a complete state space of three nodes with crashes takes longer than a run should);
foreign clusters and duplicate ids on one segment.
