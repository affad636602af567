--------------------------- MODULE ServiceControl ---------------------------
(***************************************************************************)
(* Turning the emulator on, off and over to new settings.                  *)
(*                                                                         *)
(* A request from the web page or the command line runs as a short API     *)
(* process (requestAction): it takes action.lock, commits the settings,    *)
(* publishes action.json and starts a detached worker that inherits the    *)
(* locked descriptor.  The worker (applyAction) drives the init script,    *)
(* procd supervises the daemon, and the daemon (runDaemon) serializes its  *)
(* own instances with daemon.lock and describes itself in runtime.json,    *)
(* which the worker polls.  The API process is killed after 8 s by its     *)
(* caller, init scripts after 12 s by the worker, and anything may crash.  *)
(*                                                                         *)
(* The part of requestAction and runDaemon that concerns managed-ip.json   *)
(* and the address is in module ManagedAddress.                            *)
(***************************************************************************)
EXTENDS Naturals, FiniteSets

CONSTANTS
  Requests,      \* identities of requests: one API process and one worker each
  NoRequest,     \* the id in action.json when there is no such file
  Pids,          \* identities of daemon processes (pid and start time)
  NoPid,         \* "no process"
  Revs,          \* tells settings apart that differ in something else than enabled
  Wants,         \* Wants[v]: which of the Features they have switched on
  NoSettings,    \* the settings a process holds before it has read any
  StablePolls,   \* consecutive ready polls that confirm a daemon (3 in the code)
  MaxFaults      \* bound: crashes, kills and listener failures in a behaviour

ASSUME ConstantsAssumption ==
  /\ NoRequest \notin Requests
  /\ NoPid \notin Pids
  /\ StablePolls \in Nat \ {0}
  /\ MaxFaults \in Nat

Settings == [enabled : BOOLEAN, rev : Revs]

ASSUME NoSettingsAssumption == NoSettings \notin Settings

\* What a daemon announces and listens for, as far as runtime.json tells.
Features == {"mdns", "http"}

ASSUME WantsAssumption == Wants \in [Revs -> SUBSET Features]

Wanted(c) == Wants[c.rev]

VARIABLES
  config,        \* the committed UCI file (replaced by one rename)
  action,        \* action.json: [id, state]
  lockFds,       \* lockFds[r]: the processes holding r's descriptor of action.lock
  api,           \* api[r]: program counter of the API process of r
  kind,          \* kind[r]: the operation asked for
  target,        \* target[r]: the settings r commits (c in requestAction)
  wrk,           \* wrk[r]: program counter of the worker of r
  plan,          \* plan[r]: the settings the worker read (c in applyAction)
  seen,          \* seen[r]: the pid and count of the readiness loop
  script,        \* script[r]: the init script the worker runs, or its outcome
  procd,         \* the supervised instance: [svc, inst]
  bootlink,      \* the rc.d links that start the service at boot
  dpc,           \* dpc[p]: program counter of daemon p
  dcfg,          \* dcfg[p]: the settings daemon p runs with
  up,            \* up[p]: the features that daemon p has up
  termed,        \* daemons that procd has told to terminate
  dlock,         \* the daemon holding daemon.lock
  runtime,       \* runtime.json: [pid, cfg, up]
  faults         \* faults so far

apiVars    == <<api, kind, target>>
workerVars == <<wrk, plan, seen, script>>
procdVars  == <<procd, bootlink>>
daemonVars == <<dpc, dcfg, up, termed, dlock, runtime>>
vars == <<config, action, lockFds, apiVars, workerVars, procdVars, daemonVars, faults>>

Kinds   == {"save", "start", "stop", "restart"}
Cmds    == {"stop", "enable", "start", "disable"}
Roles   == {"api", "worker", "script"}

ApiHasLock   == {"locked", "decided", "committed", "queued", "returning"}
WorkerLives  == Cmds \cup {"begin", "wait", "poll", "exiting"}
DaemonHasLock == {"locked", "configured", "building", "serving", "unwinding", "flushed"}

NoAction  == [id |-> NoRequest, state |-> "none"]
NoRuntime == [pid |-> NoPid, cfg |-> NoSettings, up |-> {}]
NotSeen   == [pid |-> NoPid, n |-> 0]

\* storeAction: action.json is replaced as a whole.
Store(r, s) == action' = [id |-> r, state |-> s]

\* processMatches on the pid and start time that runtime.json names.
Alive(p) == p # NoPid /\ dpc[p] # "dead"

Fault == faults < MaxFaults /\ faults' = faults + 1
------------------------------------------------------------------------------
\* The program is first looked at after a boot: init has started the service
\* if its boot links exist, which follow the enabled option.
Init ==
  /\ config \in Settings
  /\ action = NoAction
  /\ lockFds = [r \in Requests |-> {}]
  /\ api = [r \in Requests |-> "idle"]
  /\ kind = [r \in Requests |-> "save"]
  /\ target = [r \in Requests |-> config]
  /\ wrk = [r \in Requests |-> "none"]
  /\ plan = [r \in Requests |-> NoSettings]
  /\ seen = [r \in Requests |-> NotSeen]
  /\ script = [r \in Requests |-> "none"]
  /\ bootlink = config.enabled
  /\ procd = [svc |-> IF config.enabled THEN "pending" ELSE "absent", inst |-> NoPid]
  /\ dpc = [p \in Pids |-> "dead"]
  /\ dcfg = [p \in Pids |-> NoSettings]
  /\ up = [p \in Pids |-> {}]
  /\ termed = {}
  /\ dlock = NoPid
  /\ runtime = NoRuntime
  /\ faults = 0
------------------------------------------------------------------------------
(* The API process: requestAction.                                         *)

\* Mutant of ApiLock: the lock file is opened but not locked.
ApiLockUnchecked(r) ==
  /\ api[r] = "idle"
  /\ lockFds' = [lockFds EXCEPT ![r] = {"api"}]
  /\ api' = [api EXCEPT ![r] = "locked"]
  /\ UNCHANGED <<config, action, kind, target, workerVars, procdVars, daemonVars, faults>>

\* lockFile succeeds only if no process holds the lock.
ApiLock(r) ==
  /\ api[r] = "idle"
  /\ \A q \in Requests : lockFds[q] = {}
  /\ lockFds' = [lockFds EXCEPT ![r] = {"api"}]
  /\ api' = [api EXCEPT ![r] = "locked"]
  /\ UNCHANGED <<config, action, kind, target, workerVars, procdVars, daemonVars, faults>>

\* "another operation is still running"
ApiBusy(r) ==
  /\ api[r] = "idle"
  /\ \E q \in Requests : lockFds[q] # {}
  /\ api' = [api EXCEPT ![r] = "gone"]
  /\ UNCHANGED <<config, action, lockFds, kind, target, workerVars, procdVars, daemonVars, faults>>

\* The settings an operation asks for, given the ones that are saved.
Asked(k) ==
  {c \in Settings :
     \/ k = "save"
     \/ k = "start"   /\ c = [config EXCEPT !.enabled = TRUE]
     \/ k = "stop"    /\ c = [config EXCEPT !.enabled = FALSE]
     \/ k = "restart" /\ c = config /\ config.enabled}

\* Reads the settings, parses the payload, and checks that the networks and a
\* discovery engine are there if the service is to be on; a refusal is ApiEnds.
ApiDecide(r) ==
  /\ api[r] = "locked"
  /\ \E k \in Kinds : \E c \in Asked(k) :
       /\ kind' = [kind EXCEPT ![r] = k]
       /\ target' = [target EXCEPT ![r] = c]
  /\ api' = [api EXCEPT ![r] = "decided"]
  /\ UNCHANGED <<config, action, lockFds, workerVars, procdVars, daemonVars, faults>>

\* writeSettings, when anything changed: the rename is the commit point, and a
\* failure or a kill before it (ApiEnds) leaves the old file.
ApiCommit(r) ==
  /\ api[r] = "decided"
  /\ config' = target[r]
  /\ api' = [api EXCEPT ![r] = "committed"]
  /\ UNCHANGED <<action, lockFds, kind, target, workerVars, procdVars, daemonVars, faults>>

\* Mutant of ApiQueue: the queued record is not stored.
ApiQueueSilently(r) ==
  /\ api[r] = "committed"
  /\ api' = [api EXCEPT ![r] = "queued"]
  /\ UNCHANGED <<config, action, lockFds, kind, target, workerVars, procdVars, daemonVars, faults>>

ApiQueue(r) ==
  /\ api[r] = "committed"
  /\ Store(r, "queued")
  /\ api' = [api EXCEPT ![r] = "queued"]
  /\ UNCHANGED <<config, lockFds, kind, target, workerVars, procdVars, daemonVars, faults>>

\* Mutant of ApiSpawn: the worker does not inherit the descriptor.
ApiSpawnBare(r) ==
  /\ api[r] = "queued"
  /\ wrk' = [wrk EXCEPT ![r] = "begin"]
  /\ api' = [api EXCEPT ![r] = "returning"]
  /\ UNCHANGED <<config, action, lockFds, kind, target, plan, seen, script, procdVars, daemonVars, faults>>

\* The worker is started with the locked descriptor as its fd 3.
ApiSpawn(r) ==
  /\ api[r] = "queued"
  /\ lockFds' = [lockFds EXCEPT ![r] = @ \cup {"worker"}]
  /\ wrk' = [wrk EXCEPT ![r] = "begin"]
  /\ api' = [api EXCEPT ![r] = "returning"]
  /\ UNCHANGED <<config, action, kind, target, plan, seen, script, procdVars, daemonVars, faults>>

\* "Configuration saved, but worker could not start"
ApiSpawnFails(r) ==
  /\ api[r] = "queued"
  /\ Store(r, "failed")
  /\ api' = [api EXCEPT ![r] = "returning"]
  /\ UNCHANGED <<config, lockFds, kind, target, workerVars, procdVars, daemonVars, faults>>

\* The end of the API process, by returning its answer, by any error return or
\* by the time-out of its caller: each closes its descriptor and undoes nothing.
ApiEnds(r) ==
  /\ api[r] \in ApiHasLock
  /\ lockFds' = [lockFds EXCEPT ![r] = @ \ {"api"}]
  /\ api' = [api EXCEPT ![r] = "gone"]
  /\ UNCHANGED <<config, action, kind, target, workerVars, procdVars, daemonVars, faults>>
------------------------------------------------------------------------------
(* The worker: applyAction.                                                *)

WorkerOutcome(r, s) ==
  /\ Store(r, s)
  /\ wrk' = [wrk EXCEPT ![r] = "exiting"]

\* What follows once the old daemon is out of the way.
AfterStop(c) == IF c.enabled THEN "enable" ELSE "disable"

\* Mutant of WorkerBegin: a save does not stop the service first.
WorkerBeginWithoutStop(r) ==
  /\ wrk[r] = "begin"
  /\ Store(r, "applying")
  /\ plan' = [plan EXCEPT ![r] = config]
  /\ \/ kind[r] \in {"stop", "restart"} /\ wrk' = [wrk EXCEPT ![r] = "stop"]
     \/ kind[r] \in {"start", "save"} /\ wrk' = [wrk EXCEPT ![r] = AfterStop(config)]
  /\ UNCHANGED <<config, lockFds, apiVars, seen, script, procdVars, daemonVars, faults>>

\* The first report and the settings; they are read after the API process has
\* committed them, under the same lock.
WorkerBegin(r) ==
  /\ wrk[r] = "begin"
  /\ \/ /\ Store(r, "applying")
        /\ plan' = [plan EXCEPT ![r] = config]
        /\ \/ kind[r] # "start" /\ wrk' = [wrk EXCEPT ![r] = "stop"]
           \/ kind[r] = "start" /\ wrk' = [wrk EXCEPT ![r] = AfterStop(config)]
     \/ WorkerOutcome(r, "failed") /\ UNCHANGED plan    \* the file cannot be read
  /\ UNCHANGED <<config, lockFds, apiVars, seen, script, procdVars, daemonVars, faults>>

\* Mutant of WorkerRunsScript: descriptor 3 is closed when the script is executed.
WorkerRunsScriptCloexec(r) ==
  /\ wrk[r] \in Cmds
  /\ script[r] = "none"
  /\ script' = [script EXCEPT ![r] = wrk[r]]
  /\ UNCHANGED <<config, action, lockFds, apiVars, wrk, plan, seen, procdVars, daemonVars, faults>>

\* step: the init script is a child process.  Descriptor 3 is not close-on-exec
\* in the worker, so the script has the lock too.
WorkerRunsScript(r) ==
  /\ wrk[r] \in Cmds
  /\ script[r] = "none"
  /\ script' = [script EXCEPT ![r] = wrk[r]]
  /\ lockFds' = [lockFds EXCEPT ![r] = @ \cup {"script"}]
  /\ UNCHANGED <<config, action, apiVars, wrk, plan, seen, procdVars, daemonVars, faults>>

WorkerScriptOk(r) ==
  /\ wrk[r] \in Cmds
  /\ script[r] = "ok"
  /\ script' = [script EXCEPT ![r] = "none"]
  /\ \/ /\ \/ wrk[r] = "stop"   /\ wrk' = [wrk EXCEPT ![r] = "wait"]
           \/ wrk[r] = "enable" /\ wrk' = [wrk EXCEPT ![r] = "start"]
           \/ wrk[r] = "start"  /\ wrk' = [wrk EXCEPT ![r] = "poll"]
        /\ UNCHANGED action
     \/ wrk[r] = "disable" /\ WorkerOutcome(r, "done")
  /\ UNCHANGED <<config, lockFds, apiVars, plan, seen, procdVars, daemonVars, faults>>

\* The script failed, or was killed with its process group after 12 s.
WorkerScriptFailed(r) ==
  /\ wrk[r] \in Cmds
  /\ script[r] = "failed"
  /\ script' = [script EXCEPT ![r] = "none"]
  /\ WorkerOutcome(r, "failed")
  /\ UNCHANGED <<config, lockFds, apiVars, plan, seen, procdVars, daemonVars, faults>>

\* The wait for the old daemon looks at the process that runtime.json names.
WorkerSeesOldGone(r) ==
  /\ wrk[r] = "wait"
  /\ ~ Alive(runtime.pid)
  /\ wrk' = [wrk EXCEPT ![r] = AfterStop(plan[r])]
  /\ UNCHANGED <<config, action, lockFds, apiVars, plan, seen, script, procdVars, daemonVars, faults>>

\* "old daemon did not stop", after 7 s
WorkerStopTimeout(r) ==
  /\ wrk[r] = "wait"
  /\ Alive(runtime.pid)
  /\ WorkerOutcome(r, "failed")
  /\ UNCHANGED <<config, lockFds, apiVars, plan, seen, script, procdVars, daemonVars, faults>>

\* Mutant of Ready: a live daemon will do that runs with the saved settings.
ReadyWithoutFeatures(r) == Alive(runtime.pid) /\ runtime.cfg = plan[r]

\* Only the features that are switched on are asked for.
Ready(r) ==
  Alive(runtime.pid) /\ runtime.cfg = plan[r] /\ Wanted(plan[r]) \subseteq runtime.up

\* One round of the readiness loop.
WorkerPoll(r) ==
  /\ wrk[r] = "poll"
  /\ LET n == IF seen[r].pid = runtime.pid THEN seen[r].n + 1 ELSE 1
     IN \/ /\ Ready(r) /\ n >= StablePolls
           /\ WorkerOutcome(r, "done")
           /\ UNCHANGED seen
        \/ /\ Ready(r) /\ n < StablePolls
           /\ seen' = [seen EXCEPT ![r] = [pid |-> runtime.pid, n |-> n]]
           /\ UNCHANGED <<action, wrk>>
        \/ /\ ~ Ready(r)
           /\ seen' = [seen EXCEPT ![r] = [pid |-> seen[r].pid, n |-> 0]]
           /\ UNCHANGED <<action, wrk>>
  /\ UNCHANGED <<config, lockFds, apiVars, plan, script, procdVars, daemonVars, faults>>

\* Mutant of WorkerPollTimeout: the readiness loop has no deadline.
WorkerPollForever(r) == wrk[r] = "poll" /\ UNCHANGED vars

\* "service readiness was not confirmed", after 15 s
WorkerPollTimeout(r) ==
  /\ wrk[r] = "poll"
  /\ WorkerOutcome(r, "failed")
  /\ UNCHANGED <<config, lockFds, apiVars, plan, seen, script, procdVars, daemonVars, faults>>

WorkerGone(r) ==
  /\ wrk' = [wrk EXCEPT ![r] = "dead"]
  /\ seen' = [seen EXCEPT ![r] = NotSeen]
  /\ lockFds' = [lockFds EXCEPT ![r] = @ \ {"worker"}]
  /\ UNCHANGED <<config, action, apiVars, plan, script, procdVars, daemonVars>>

WorkerExits(r) ==
  /\ wrk[r] = "exiting"
  /\ WorkerGone(r)
  /\ UNCHANGED faults

\* A killed worker leaves its report as it is and its script running.
WorkerKilled(r) ==
  /\ wrk[r] \in WorkerLives
  /\ Fault
  /\ WorkerGone(r)
------------------------------------------------------------------------------
(* The init script and procd.                                              *)

ScriptDone(r, outcome) ==
  /\ script' = [script EXCEPT ![r] = outcome]
  /\ lockFds' = [lockFds EXCEPT ![r] = @ \ {"script"}]
  /\ UNCHANGED <<config, action, apiVars, wrk, plan, seen, dpc, dcfg, up, dlock, runtime, faults>>

\* The script of r has its effect; it may still be killed before it can exit.
ScriptTakesEffect(r, cmd) ==
  /\ script[r] = cmd
  /\ \E outcome \in {"ok", "failed"} : ScriptDone(r, outcome)

\* stop: procd forgets the instance and sends its process SIGTERM.
ScriptStops(r) ==
  /\ ScriptTakesEffect(r, "stop")
  /\ termed' = termed \cup ({procd.inst} \ {NoPid})
  /\ procd' = [svc |-> "absent", inst |-> NoPid]
  /\ UNCHANGED bootlink

\* enable: the links are made only if the settings say enabled, else removed.
ScriptEnables(r) ==
  /\ ScriptTakesEffect(r, "enable")
  /\ bootlink' = config.enabled
  /\ UNCHANGED <<procd, termed>>

\* start: nothing if the settings say disabled, else procd gets an instance; an
\* instance that procd already supervises is left alone.
ScriptStarts(r) ==
  /\ ScriptTakesEffect(r, "start")
  /\ procd' = IF config.enabled /\ procd.svc = "absent"
              THEN [svc |-> "pending", inst |-> procd.inst] ELSE procd
  /\ UNCHANGED <<bootlink, termed>>

ScriptDisables(r) ==
  /\ ScriptTakesEffect(r, "disable")
  /\ bootlink' = FALSE
  /\ UNCHANGED <<procd, termed>>

ScriptFails(r) ==
  /\ script[r] \in Cmds
  /\ ScriptDone(r, "failed")
  /\ UNCHANGED <<procdVars, termed>>

\* procd starts the instance, at first or after its respawn delay.
ProcdSpawns(p) ==
  /\ procd.svc = "pending"
  /\ dpc[p] = "dead"
  /\ runtime.pid # p
  /\ \A r \in Requests : seen[r].pid # p
  /\ procd' = [svc |-> "up", inst |-> p]
  /\ dpc' = [dpc EXCEPT ![p] = "boot"]
  /\ UNCHANGED <<config, action, lockFds, apiVars, workerVars, bootlink, dcfg, up, termed,
                 dlock, runtime, faults>>
------------------------------------------------------------------------------
(* The daemon: runDaemon.                                                  *)

DaemonAt(p, from, to) == dpc[p] = from /\ dpc' = [dpc EXCEPT ![p] = to]

OutsideDaemon == <<config, action, lockFds, apiVars, workerVars, procdVars>>

\* Mutant of DaemonGone: the instance is registered without respawn.
DaemonGoneForGood(p) ==
  /\ dpc' = [dpc EXCEPT ![p] = "dead"]
  /\ dcfg' = [dcfg EXCEPT ![p] = NoSettings]
  /\ up' = [up EXCEPT ![p] = {}]
  /\ termed' = termed \ {p}
  /\ dlock' = IF dlock = p THEN NoPid ELSE dlock
  /\ procd' = IF procd.inst = p THEN [svc |-> "absent", inst |-> NoPid] ELSE procd
  /\ UNCHANGED <<config, action, lockFds, apiVars, workerVars, bootlink, runtime>>

\* The end of process p: the kernel drops its flock, procd respawns the process
\* it supervises.
DaemonGone(p) ==
  /\ dpc' = [dpc EXCEPT ![p] = "dead"]
  /\ dcfg' = [dcfg EXCEPT ![p] = NoSettings]
  /\ up' = [up EXCEPT ![p] = {}]
  /\ termed' = termed \ {p}
  /\ dlock' = IF dlock = p THEN NoPid ELSE dlock
  /\ procd' = IF procd.inst = p THEN [svc |-> "pending", inst |-> NoPid] ELSE procd
  /\ UNCHANGED <<config, action, lockFds, apiVars, workerVars, bootlink, runtime>>

\* Mutant of DaemonLocks: the daemon starts without exclusive lock.
DaemonLocksUnchecked(p) ==
  /\ DaemonAt(p, "boot", "locked")
  /\ dlock' = p
  /\ UNCHANGED <<OutsideDaemon, dcfg, up, termed, runtime, faults>>

DaemonLocks(p) ==
  /\ DaemonAt(p, "boot", "locked")
  /\ dlock = NoPid
  /\ dlock' = p
  /\ UNCHANGED <<OutsideDaemon, dcfg, up, termed, runtime, faults>>

\* Another instance still has daemon.lock: exit with an error.
DaemonRefused(p) ==
  /\ dpc[p] = "boot"
  /\ dlock # NoPid
  /\ DaemonGone(p)
  /\ UNCHANGED faults

\* The settings are read once; what follows them (resolve, chooseEngine,
\* prepareAddress) may fail, which is DaemonGivesUp.
DaemonConfigures(p) ==
  /\ DaemonAt(p, "locked", "configured")
  /\ config.enabled
  /\ dcfg' = [dcfg EXCEPT ![p] = config]
  /\ UNCHANGED <<OutsideDaemon, up, termed, dlock, runtime, faults>>

DaemonDisabled(p) ==
  /\ dpc[p] = "locked"
  /\ ~ config.enabled
  /\ DaemonGone(p)
  /\ UNCHANGED faults

DaemonGivesUp(p) ==
  /\ dpc[p] \in {"locked", "configured"}
  /\ Fault
  /\ DaemonGone(p)

\* The first flush of runtime.json names the new process before anything works.
DaemonIntroduces(p) ==
  /\ DaemonAt(p, "configured", "building")
  /\ runtime' = [pid |-> p, cfg |-> dcfg[p], up |-> {}]
  /\ UNCHANGED <<OutsideDaemon, dcfg, up, termed, dlock, faults>>

\* The engine and the listener are there, each if the settings ask for it; the
\* flush before the main loop says so.
DaemonReady(p) ==
  /\ DaemonAt(p, "building", "serving")
  /\ up' = [up EXCEPT ![p] = Wanted(dcfg[p])]
  /\ runtime' = [pid |-> p, cfg |-> dcfg[p], up |-> Wanted(dcfg[p])]
  /\ UNCHANGED <<OutsideDaemon, dcfg, termed, dlock, faults>>

\* The engine or a listener cannot be made; the deferred calls run.
DaemonBuildFails(p) ==
  /\ DaemonAt(p, "building", "unwinding")
  /\ Fault
  /\ UNCHANGED <<OutsideDaemon, dcfg, up, termed, dlock, runtime>>

\* The health listener dies; only runtime.json will tell, the daemon goes on.
HealthListenerFails(p) ==
  /\ dpc[p] = "serving" /\ "http" \in up[p]
  /\ Fault
  /\ up' = [up EXCEPT ![p] = @ \ {"http"}]
  /\ UNCHANGED <<OutsideDaemon, dpc, dcfg, termed, dlock, runtime>>

\* Mutant of DaemonHeartbeat: the flush writes what was up when the daemon was ready.
DaemonHeartbeatAsStarted(p) ==
  /\ dpc[p] = "serving"
  /\ runtime' = [pid |-> p, cfg |-> dcfg[p], up |-> Wanted(dcfg[p])]
  /\ UNCHANGED <<OutsideDaemon, dpc, dcfg, up, termed, dlock, faults>>

\* The flush of every second.
DaemonHeartbeat(p) ==
  /\ dpc[p] = "serving"
  /\ runtime' = [pid |-> p, cfg |-> dcfg[p], up |-> up[p]]
  /\ UNCHANGED <<OutsideDaemon, dpc, dcfg, up, termed, dlock, faults>>

\* Mutant of DaemonTerminates: daemon.lock is released before the last flush.
DaemonTerminatesUnlocked(p) ==
  /\ DaemonAt(p, "serving", "unwinding")
  /\ p \in termed
  /\ dlock' = NoPid
  /\ UNCHANGED <<OutsideDaemon, dcfg, up, termed, runtime, faults>>

\* The main loop sees the context that SIGTERM cancelled.
DaemonTerminates(p) ==
  /\ DaemonAt(p, "serving", "unwinding")
  /\ p \in termed
  /\ UNCHANGED <<OutsideDaemon, dcfg, up, termed, dlock, runtime, faults>>

\* The engine stopped by itself, or the networks are not the chosen ones any more.
DaemonLeavesLoop(p) ==
  /\ DaemonAt(p, "serving", "unwinding")
  /\ Fault
  /\ UNCHANGED <<OutsideDaemon, dcfg, up, termed, dlock, runtime>>

\* The deferred "Service stopped" flush, still under daemon.lock.
DaemonLastFlush(p) ==
  /\ DaemonAt(p, "unwinding", "flushed")
  /\ up' = [up EXCEPT ![p] = {}]
  /\ runtime' = [pid |-> p, cfg |-> dcfg[p], up |-> {}]
  /\ UNCHANGED <<OutsideDaemon, dcfg, termed, dlock, faults>>

DaemonExits(p) ==
  /\ dpc[p] = "flushed"
  /\ DaemonGone(p)
  /\ UNCHANGED faults

\* SIGTERM before the handler is installed, or SIGKILL after term_timeout.
DaemonKilled(p) ==
  /\ dpc[p] # "dead"
  /\ p \in termed
  /\ DaemonGone(p)
  /\ UNCHANGED faults

DaemonCrashes(p) ==
  /\ dpc[p] # "dead"
  /\ Fault
  /\ DaemonGone(p)
------------------------------------------------------------------------------
\* The router reboots: StateDir is on a RAM disk, the settings and the boot
\* links are not, and the init script starts the service if both say so.
Reboot ==
  /\ Fault
  /\ action' = NoAction
  /\ lockFds' = [r \in Requests |-> {}]
  /\ api' = [r \in Requests |-> IF api[r] = "idle" THEN "idle" ELSE "gone"]
  /\ wrk' = [r \in Requests |-> IF wrk[r] = "none" THEN "none" ELSE "dead"]
  /\ seen' = [r \in Requests |-> NotSeen]
  /\ script' = [r \in Requests |-> "none"]
  /\ procd' = [svc |-> IF bootlink /\ config.enabled THEN "pending" ELSE "absent",
               inst |-> NoPid]
  /\ dpc' = [p \in Pids |-> "dead"]
  /\ dcfg' = [p \in Pids |-> NoSettings]
  /\ up' = [p \in Pids |-> {}]
  /\ termed' = {}
  /\ dlock' = NoPid
  /\ runtime' = NoRuntime
  /\ UNCHANGED <<config, kind, target, plan, bootlink>>

ApiStep(r) == \/ ApiLock(r) \/ ApiBusy(r) \/ ApiDecide(r) \/ ApiCommit(r) \/ ApiQueue(r)
              \/ ApiSpawn(r) \/ ApiSpawnFails(r) \/ ApiEnds(r)

WorkerStep(r) == \/ WorkerBegin(r) \/ WorkerRunsScript(r) \/ WorkerScriptOk(r)
                 \/ WorkerScriptFailed(r) \/ WorkerSeesOldGone(r) \/ WorkerStopTimeout(r)
                 \/ WorkerPoll(r) \/ WorkerPollTimeout(r) \/ WorkerExits(r)

ScriptStep(r) == \/ ScriptStops(r) \/ ScriptEnables(r) \/ ScriptStarts(r)
                 \/ ScriptDisables(r) \/ ScriptFails(r)

DaemonStep(p) == \/ DaemonLocks(p) \/ DaemonRefused(p) \/ DaemonConfigures(p)
                 \/ DaemonDisabled(p) \/ DaemonIntroduces(p) \/ DaemonReady(p)
                 \/ DaemonTerminates(p) \/ DaemonLastFlush(p) \/ DaemonExits(p)
                 \/ DaemonKilled(p)

FaultStep == \/ Reboot
             \/ \E r \in Requests : WorkerKilled(r)
             \/ \E p \in Pids : \/ DaemonGivesUp(p) \/ DaemonBuildFails(p)
                                \/ HealthListenerFails(p) \/ DaemonLeavesLoop(p)
                                \/ DaemonCrashes(p)

Next == \/ \E r \in Requests : ApiStep(r) \/ WorkerStep(r) \/ ScriptStep(r)
        \/ \E p \in Pids : ProcdSpawns(p) \/ DaemonStep(p) \/ DaemonHeartbeat(p)
        \/ FaultStep

Spec == Init /\ [][Next]_vars
------------------------------------------------------------------------------
(* Fairness.  The API process and the init scripts are killed by a timer if    *)
(* they do not end, the worker's loops have deadlines, procd starts what is    *)
(* pending and kills what does not terminate; a process that can take a step   *)
(* is scheduled, and the ticker of a daemon's flush fires.  Nothing is assumed *)
(* of faults.                                                                  *)
Fairness ==
  /\ \A r \in Requests : /\ WF_vars(ApiStep(r))
                         /\ WF_vars(WorkerStep(r))
                         /\ WF_vars(WorkerPollTimeout(r))
                         /\ WF_vars(ScriptStep(r))
  /\ \A p \in Pids : WF_vars(DaemonStep(p)) /\ WF_vars(DaemonHeartbeat(p))
  /\ WF_vars(\E p \in Pids : ProcdSpawns(p))

FairSpec == Spec /\ Fairness
------------------------------------------------------------------------------
(* Properties                                                              *)

\* Every variable has its type.
TypeOK ==
  /\ config \in Settings
  /\ action \in [id : Requests \cup {NoRequest},
                 state : {"none", "queued", "applying", "done", "failed"}]
  /\ lockFds \in [Requests -> SUBSET Roles]
  /\ api \in [Requests -> ApiHasLock \cup {"idle", "gone"}]
  /\ kind \in [Requests -> Kinds]
  /\ target \in [Requests -> Settings]
  /\ wrk \in [Requests -> WorkerLives \cup {"none", "dead"}]
  /\ plan \in [Requests -> Settings \cup {NoSettings}]
  /\ seen \in [Requests -> [pid : Pids \cup {NoPid}, n : 0..(StablePolls - 1)]]
  /\ script \in [Requests -> Cmds \cup {"none", "ok", "failed"}]
  /\ procd \in [svc : {"absent", "pending", "up"}, inst : Pids \cup {NoPid}]
  /\ bootlink \in BOOLEAN
  /\ dpc \in [Pids -> DaemonHasLock \cup {"dead", "boot"}]
  /\ dcfg \in [Pids -> Settings \cup {NoSettings}]
  /\ up \in [Pids -> SUBSET Features]
  /\ termed \in SUBSET Pids
  /\ dlock \in Pids \cup {NoPid}
  /\ runtime \in [pid : Pids \cup {NoPid}, cfg : Settings \cup {NoSettings},
                  up : SUBSET Features]
  /\ faults \in 0..MaxFaults

\* Some process of request r is between taking action.lock and being done with
\* the service: its API process, its worker or an init script it started.
Busy(r) == api[r] \in ApiHasLock \/ wrk[r] \in WorkerLives \/ script[r] \in Cmds

\* One operation at a time, whichever of its processes is killed: the lock
\* passes from the API process to its worker and to the worker's scripts
\* without a gap (actions.go: ExtraFiles and the inherited descriptor).
OneOperation == \A q, r \in Requests : Busy(q) /\ Busy(r) => q = r

\* A worker applies exactly the settings that its own request committed, and
\* they are still the saved ones while it does, though it rereads the file.
AppliesWhatItSaved ==
  \A r \in Requests :
    wrk[r] \in WorkerLives /\ plan[r] # NoSettings => plan[r] = target[r] /\ config = plan[r]

\* While a worker lives, action.json is the record of its own request: the page
\* that polls an action id is never shown another operation's progress.
ReportIsCurrent == \A r \in Requests : wrk[r] \in WorkerLives => action.id = r

\* At most one daemon is past daemon.lock, however often procd starts another
\* while an old one is still terminating.
OneDaemon == \A p, q \in Pids : dpc[p] \in DaemonHasLock /\ dpc[q] \in DaemonHasLock => p = q

\* runtime.json describes the daemon that serves: the "Service stopped" flush of
\* an earlier daemon never lands on top of it.
RuntimeIsCurrent ==
  \A p \in Pids : dpc[p] = "serving" => runtime.pid = p /\ runtime.cfg = dcfg[p]

\* "Service stopped" is final: procd supervises nothing, no boot link is left and
\* every daemon still alive has been told to terminate.
StoppedIsFinal ==
  \A r \in Requests :
    (wrk[r] = "exiting" /\ action.state = "done" /\ ~ plan[r].enabled) =>
      /\ procd.svc = "absent"
      /\ ~ bootlink
      /\ \A p \in Pids : dpc[p] # "dead" => p \in termed

\* What a daemon that is reported as running is certain to be doing: with a feature
\* switched on it has had every one of them up and has not said that it has stopped;
\* with none it may still be building, or be cleaning up after its last flush.
Serves(p) ==
  /\ dlock = p /\ dcfg[p] = config
  /\ \/ dpc[p] \in {"serving", "unwinding"}
     \/ Wanted(config) = {} /\ dpc[p] \in {"building", "flushed"}

\* "Service is running with the saved settings" is reported only in a state in
\* which the daemon that holds daemon.lock serves, in that sense, the settings now
\* in the file, and the boot links are there.  A feature that was up may have
\* failed since: runtime.json is as old as the last flush.
DoneIsServed ==
  [][ (action'.state = "done" /\ action # action' /\ config.enabled) =>
        bootlink /\ \E p \in Pids : Serves(p) ]_vars

\* The lock stands for a single owner, which alone reports and commits.
HolderOf(fds) == IF \E r \in Requests : fds[r] # {}
                 THEN CHOOSE r \in Requests : fds[r] # {} ELSE NoRequest
LockHolder == HolderOf(lockFds)

SO == INSTANCE SingleOperation WITH owner <- LockHolder, report <- action

\* The processes, descriptors and files implement one operation at a time.
ImplementsSingleOperation == SO!Spec

\* No operation keeps the service for ever: action.lock is free again after the
\* deadlines, whatever was killed and whatever the scripts did.
LockIsReleased ==
  \A r \in Requests : lockFds[r] # {} ~> lockFds[r] = {}

\* A confirmed service comes back: once the settings in the file have been
\* confirmed as running and nothing else is requested, a daemon serves them
\* again after any crash, failure to start or overlap with an old daemon.
ServiceRecovers ==
  (action.state = "done" /\ plan[action.id] = config /\ config.enabled) ~>
    \/ \E p \in Pids : dpc[p] = "serving" /\ dcfg[p] = config
    \/ action.state # "done"
    \/ \E r \in Requests : lockFds[r] # {}

\* A listener that died is not claimed for ever: while the daemon serves on without
\* it, runtime.json comes to say so, so that a later operation is not confirmed on
\* the strength of it (actions.go:211; daemon.go:691).
FailureIsTold ==
  \A p \in Pids :
    (dpc[p] = "serving" /\ Wanted(dcfg[p]) # up[p]) ~>
      \/ dpc[p] # "serving"
      \/ runtime.pid = p /\ runtime.up = up[p]
==============================================================================
