------------------------ MODULE ServiceControlProofs ------------------------
(* Proofs about ServiceControl for any number of requests, daemon processes, *)
(* revisions of the settings and faults.                                     *)
EXTENDS ServiceControl, TLAPS

------------------------------------------------------------------------------
(* Frames: what the two halves of the system leave alone.                  *)

DaemonSide(p) == \/ ProcdSpawns(p) \/ DaemonStep(p) \/ DaemonHeartbeat(p)
                 \/ DaemonGivesUp(p) \/ DaemonBuildFails(p) \/ HealthListenerFails(p)
                 \/ DaemonLeavesLoop(p) \/ DaemonCrashes(p)

RequestSide(r) == ApiStep(r) \/ WorkerStep(r) \/ ScriptStep(r) \/ WorkerKilled(r)

\* Every step is one of a request, one of a daemon, or the reboot.
LEMMA StepCases ==
  ASSUME [Next]_vars
  PROVE  \/ \E r \in Requests : RequestSide(r)
         \/ \E p \in Pids : DaemonSide(p)
         \/ Reboot
         \/ UNCHANGED vars
  BY DEF Next, RequestSide, DaemonSide, FaultStep

\* procd and the daemons touch nothing of the requests.
LEMMA DaemonFrame ==
  ASSUME NEW p \in Pids, DaemonSide(p)
  PROVE  UNCHANGED <<config, action, lockFds, api, kind, target, wrk, plan, script, bootlink>>
<1> USE DEF apiVars, workerVars, procdVars, OutsideDaemon, DaemonGone
<1>1. CASE ProcdSpawns(p)
  BY <1>1 DEF ProcdSpawns
<1>2. CASE DaemonLocks(p) \/ DaemonRefused(p) \/ DaemonConfigures(p) \/ DaemonDisabled(p)
  BY <1>2 DEF DaemonLocks, DaemonRefused, DaemonConfigures, DaemonDisabled
<1>3. CASE DaemonIntroduces(p) \/ DaemonReady(p) \/ DaemonTerminates(p) \/ DaemonLastFlush(p)
  BY <1>3 DEF DaemonIntroduces, DaemonReady, DaemonTerminates, DaemonLastFlush
<1>4. CASE DaemonExits(p) \/ DaemonKilled(p) \/ DaemonHeartbeat(p)
  BY <1>4 DEF DaemonExits, DaemonKilled, DaemonHeartbeat
<1>5. CASE DaemonGivesUp(p) \/ DaemonBuildFails(p) \/ HealthListenerFails(p)
  BY <1>5 DEF DaemonGivesUp, DaemonBuildFails, HealthListenerFails
<1>6. CASE DaemonLeavesLoop(p) \/ DaemonCrashes(p)
  BY <1>6 DEF DaemonLeavesLoop, DaemonCrashes
<1>7. QED
  BY <1>1, <1>2, <1>3, <1>4, <1>5, <1>6 DEF DaemonSide, DaemonStep

\* No step of a request changes a daemon or what it has written.
LEMMA RequestFrame ==
  ASSUME NEW r \in Requests, RequestSide(r)
  PROVE  UNCHANGED <<dpc, dcfg, up, dlock, runtime>>
<1> USE DEF daemonVars
<1>1. CASE ApiStep(r)
  BY <1>1 DEF ApiStep, ApiLock, ApiBusy, ApiDecide, ApiCommit, ApiQueue, ApiSpawn,
              ApiSpawnFails, ApiEnds
<1>2. CASE WorkerStep(r)
  BY <1>2 DEF WorkerStep, WorkerBegin, WorkerRunsScript, WorkerScriptOk, WorkerScriptFailed,
              WorkerSeesOldGone, WorkerStopTimeout, WorkerPoll, WorkerPollTimeout,
              WorkerExits, WorkerGone
<1>3. CASE ScriptStep(r)
  BY <1>3 DEF ScriptStep, ScriptStops, ScriptEnables, ScriptStarts, ScriptDisables,
              ScriptFails, ScriptTakesEffect, ScriptDone
<1>4. CASE WorkerKilled(r)
  BY <1>4 DEF WorkerKilled, WorkerGone
<1>5. QED
  BY <1>1, <1>2, <1>3, <1>4 DEF RequestSide
------------------------------------------------------------------------------
(* Types.                                                                  *)

\* A daemon that has read its settings knows which features they ask for.
ConfiguredInv ==
  \A p \in Pids : dpc[p] \in {"configured", "building", "serving", "unwinding", "flushed"} =>
    dcfg[p] \in Settings

\* Every step leaves each daemon past its start with settings.
LEMMA ConfiguredInvStep == TypeOK /\ ConfiguredInv /\ [Next]_vars => ConfiguredInv'
<1> SUFFICES ASSUME TypeOK, ConfiguredInv, [Next]_vars PROVE ConfiguredInv'
  OBVIOUS
<1> USE DEF TypeOK, ConfiguredInv, DaemonHasLock
<1>1. ASSUME NEW r \in Requests, RequestSide(r) PROVE ConfiguredInv'
  BY <1>1, RequestFrame
<1>2. ASSUME NEW p \in Pids, DaemonSide(p) PROVE ConfiguredInv'
  <2> USE DEF DaemonAt, OutsideDaemon, DaemonGone
  <2>1. CASE ProcdSpawns(p) \/ DaemonLocks(p) \/ DaemonConfigures(p)
    BY <2>1 DEF ProcdSpawns, DaemonLocks, DaemonConfigures
  <2>2. CASE DaemonIntroduces(p) \/ DaemonReady(p) \/ DaemonBuildFails(p)
    BY <2>2 DEF DaemonIntroduces, DaemonReady, DaemonBuildFails
  <2>3. CASE DaemonHeartbeat(p) \/ HealthListenerFails(p)
    BY <2>3 DEF DaemonHeartbeat, HealthListenerFails
  <2>4. CASE DaemonTerminates(p) \/ DaemonLeavesLoop(p) \/ DaemonLastFlush(p)
    BY <2>4 DEF DaemonTerminates, DaemonLeavesLoop, DaemonLastFlush
  <2>5. CASE DaemonGone(p)
    BY <2>5
  <2>6. QED
    BY <1>2, <2>1, <2>2, <2>3, <2>4, <2>5
       DEF DaemonSide, DaemonStep, DaemonRefused, DaemonDisabled, DaemonGivesUp, DaemonExits,
           DaemonKilled, DaemonCrashes
<1>3. CASE Reboot
  BY <1>3 DEF Reboot
<1>4. CASE UNCHANGED vars
  BY <1>4 DEF vars, daemonVars
<1>5. QED
  BY <1>1, <1>2, <1>3, <1>4, StepCases

\* Every variable stays in its type, whatever process moves, dies or is killed.
LEMMA TypeCorrect == Spec => []TypeOK
<1> USE ConstantsAssumption DEF Settings, Roles, ApiHasLock, WorkerLives, DaemonHasLock, Kinds, Cmds
<1>1. Init => TypeOK /\ ConfiguredInv
  <2> SUFFICES ASSUME Init PROVE TypeOK /\ ConfiguredInv
    OBVIOUS
  <2> USE DEF Init
  <2>1. ConfiguredInv
    BY DEF ConfiguredInv
  <2>2. /\ config \in Settings /\ action.state = "none" /\ action.id = NoRequest
        /\ target \in [Requests -> Settings] /\ procd.inst = NoPid
    BY DEF NoAction
  <2>3. /\ runtime \in [pid : Pids \cup {NoPid}, cfg : Settings \cup {NoSettings},
                        up : SUBSET Features]
        /\ seen \in [Requests -> [pid : Pids \cup {NoPid}, n : 0..(StablePolls - 1)]]
    BY DEF NoRuntime, NotSeen
  <2>4. QED
    BY <2>1, <2>2, <2>3 DEF TypeOK, NoAction
<1>2. TypeOK /\ ConfiguredInv /\ [Next]_vars => TypeOK'
  <2> SUFFICES ASSUME TypeOK, ConfiguredInv, [Next]_vars PROVE TypeOK'
    OBVIOUS
  <2> USE DEF TypeOK, apiVars, workerVars, procdVars, daemonVars, vars, OutsideDaemon, Fault,
         Store, Asked, AfterStop, WorkerOutcome, WorkerGone, ScriptTakesEffect, ScriptDone, DaemonAt, DaemonGone,
         NoAction, NoRuntime, NotSeen
  <2>1. ASSUME NEW r \in Requests, ApiLock(r) PROVE TypeOK'
    BY <2>1 DEF ApiLock
  <2>2. ASSUME NEW r \in Requests, ApiBusy(r) PROVE TypeOK'
    BY <2>2 DEF ApiBusy
  <2>3. ASSUME NEW r \in Requests, ApiDecide(r) PROVE TypeOK'
    BY <2>3 DEF ApiDecide
  <2>4. ASSUME NEW r \in Requests, ApiCommit(r) PROVE TypeOK'
    BY <2>4 DEF ApiCommit
  <2>5. ASSUME NEW r \in Requests, ApiQueue(r) PROVE TypeOK'
    BY <2>5 DEF ApiQueue
  <2>6. ASSUME NEW r \in Requests, ApiSpawn(r) PROVE TypeOK'
    BY <2>6 DEF ApiSpawn
  <2>7. ASSUME NEW r \in Requests, ApiSpawnFails(r) PROVE TypeOK'
    BY <2>7 DEF ApiSpawnFails
  <2>8. ASSUME NEW r \in Requests, ApiEnds(r) PROVE TypeOK'
    BY <2>8 DEF ApiEnds
  <2>9. ASSUME NEW r \in Requests, WorkerBegin(r) PROVE TypeOK'
    <3>1. wrk' \in [Requests -> WorkerLives \cup {"none", "dead"}]
      <4>1. \E s \in WorkerLives : wrk' = [wrk EXCEPT ![r] = s]
        BY <2>9 DEF WorkerBegin
      <4>2. QED
        BY <4>1
    <3>2. action' \in [id : Requests \cup {NoRequest},
                      state : {"none", "queued", "applying", "done", "failed"}]
      BY <2>9 DEF WorkerBegin
    <3>3. plan' \in [Requests -> Settings \cup {NoSettings}]
      BY <2>9 DEF WorkerBegin
    <3>4. QED
      BY <2>9, <3>1, <3>2, <3>3 DEF WorkerBegin
  <2>10. ASSUME NEW r \in Requests, WorkerRunsScript(r) PROVE TypeOK'
    BY <2>10 DEF WorkerRunsScript
  <2>11. ASSUME NEW r \in Requests, WorkerScriptOk(r) PROVE TypeOK'
    <3>1. wrk' \in [Requests -> WorkerLives \cup {"none", "dead"}]
      <4>1. \E s \in WorkerLives : wrk' = [wrk EXCEPT ![r] = s]
        BY <2>11 DEF WorkerScriptOk
      <4>2. QED
        BY <4>1
    <3>2. action' \in [id : Requests \cup {NoRequest},
                      state : {"none", "queued", "applying", "done", "failed"}]
      BY <2>11 DEF WorkerScriptOk
    <3>3. script' \in [Requests -> Cmds \cup {"none", "ok", "failed"}]
      BY <2>11 DEF WorkerScriptOk
    <3>4. QED
      BY <2>11, <3>1, <3>2, <3>3 DEF WorkerScriptOk
  <2>12. ASSUME NEW r \in Requests, WorkerScriptFailed(r) PROVE TypeOK'
    BY <2>12 DEF WorkerScriptFailed
  <2>13. ASSUME NEW r \in Requests, WorkerSeesOldGone(r) PROVE TypeOK'
    BY <2>13 DEF WorkerSeesOldGone
  <2>14. ASSUME NEW r \in Requests, WorkerStopTimeout(r) PROVE TypeOK'
    BY <2>14 DEF WorkerStopTimeout
  <2>15. ASSUME NEW r \in Requests, WorkerPoll(r) PROVE TypeOK'
    <3> DEFINE n == IF seen[r].pid = runtime.pid THEN seen[r].n + 1 ELSE 1
    <3>1. n \in Nat
      OBVIOUS
    <3>2. seen' \in [Requests -> [pid : Pids \cup {NoPid}, n : 0..(StablePolls - 1)]]
      <4>1. CASE UNCHANGED seen
        BY <4>1
      <4>2. CASE n < StablePolls /\ seen' = [seen EXCEPT ![r] = [pid |-> runtime.pid, n |-> n]]
        <5>1. [pid |-> runtime.pid, n |-> n] \in [pid : Pids \cup {NoPid}, n : 0..(StablePolls - 1)]
          BY <3>1, <4>2
        <5>2. QED
          BY <4>2, <5>1
      <4>3. CASE seen' = [seen EXCEPT ![r] = [pid |-> seen[r].pid, n |-> 0]]
        BY <4>3
      <4>4. QED
        BY <2>15, <4>1, <4>2, <4>3 DEF WorkerPoll
    <3>3. action' \in [id : Requests \cup {NoRequest},
                      state : {"none", "queued", "applying", "done", "failed"}]
      BY <2>15 DEF WorkerPoll
    <3>4. wrk' \in [Requests -> WorkerLives \cup {"none", "dead"}]
      <4>1. UNCHANGED wrk \/ wrk' = [wrk EXCEPT ![r] = "exiting"]
        <5> HIDE DEF TypeOK
        <5>1. QED
          BY <2>15, Zenon DEF WorkerPoll
      <4>2. wrk \in [Requests -> WorkerLives \cup {"none", "dead"}]
        BY DEF TypeOK
      <4> HIDE DEF TypeOK
      <4>3. QED
        BY <4>1, <4>2
    <3>5. QED
      BY <2>15, <3>2, <3>3, <3>4 DEF WorkerPoll
  <2>16. ASSUME NEW r \in Requests, WorkerPollTimeout(r) PROVE TypeOK'
    BY <2>16 DEF WorkerPollTimeout
  <2>17. ASSUME NEW r \in Requests, WorkerExits(r) PROVE TypeOK'
    BY <2>17 DEF WorkerExits
  <2>18. ASSUME NEW r \in Requests, WorkerKilled(r) PROVE TypeOK'
    BY <2>18 DEF WorkerKilled
  <2>19. ASSUME NEW r \in Requests, ScriptStops(r) PROVE TypeOK'
    BY <2>19 DEF ScriptStops
  <2>20. ASSUME NEW r \in Requests, ScriptEnables(r) PROVE TypeOK'
    BY <2>20 DEF ScriptEnables
  <2>21. ASSUME NEW r \in Requests, ScriptStarts(r) PROVE TypeOK'
    BY <2>21 DEF ScriptStarts
  <2>22. ASSUME NEW r \in Requests, ScriptDisables(r) PROVE TypeOK'
    <3>1. bootlink' \in BOOLEAN
      BY <2>22, Zenon DEF ScriptDisables
    <3>2. QED
      BY <2>22, <3>1 DEF ScriptDisables
  <2>23. ASSUME NEW r \in Requests, ScriptFails(r) PROVE TypeOK'
    BY <2>23 DEF ScriptFails
  <2>24. ASSUME NEW p \in Pids, ProcdSpawns(p) PROVE TypeOK'
    BY <2>24 DEF ProcdSpawns
  <2>25. ASSUME NEW p \in Pids, DaemonLocks(p) PROVE TypeOK'
    BY <2>25 DEF DaemonLocks
  <2>26. ASSUME NEW p \in Pids, DaemonRefused(p) PROVE TypeOK'
    BY <2>26 DEF DaemonRefused
  <2>27. ASSUME NEW p \in Pids, DaemonConfigures(p) PROVE TypeOK'
    BY <2>27 DEF DaemonConfigures
  <2>28. ASSUME NEW p \in Pids, DaemonDisabled(p) PROVE TypeOK'
    BY <2>28 DEF DaemonDisabled
  <2>29. ASSUME NEW p \in Pids, DaemonGivesUp(p) PROVE TypeOK'
    BY <2>29 DEF DaemonGivesUp
  <2>30. ASSUME NEW p \in Pids, DaemonIntroduces(p) PROVE TypeOK'
    BY <2>30 DEF DaemonIntroduces
  <2>31. ASSUME NEW p \in Pids, DaemonReady(p) PROVE TypeOK'
    <3>1. Wanted(dcfg[p]) \in SUBSET Features
      BY <2>31, WantsAssumption DEF DaemonReady, ConfiguredInv, Wanted
    <3> HIDE DEF Wanted
    <3>2. QED
      BY <2>31, <3>1 DEF DaemonReady
  <2>32. ASSUME NEW p \in Pids, DaemonBuildFails(p) PROVE TypeOK'
    BY <2>32 DEF DaemonBuildFails
  <2>33. ASSUME NEW p \in Pids, HealthListenerFails(p) PROVE TypeOK'
    BY <2>33 DEF HealthListenerFails
  <2>34. ASSUME NEW p \in Pids, DaemonHeartbeat(p) PROVE TypeOK'
    BY <2>34 DEF DaemonHeartbeat
  <2>35. ASSUME NEW p \in Pids, DaemonTerminates(p) PROVE TypeOK'
    BY <2>35 DEF DaemonTerminates
  <2>36. ASSUME NEW p \in Pids, DaemonLeavesLoop(p) PROVE TypeOK'
    BY <2>36 DEF DaemonLeavesLoop
  <2>37. ASSUME NEW p \in Pids, DaemonLastFlush(p) PROVE TypeOK'
    BY <2>37 DEF DaemonLastFlush
  <2>38. ASSUME NEW p \in Pids, DaemonExits(p) PROVE TypeOK'
    BY <2>38 DEF DaemonExits
  <2>39. ASSUME NEW p \in Pids, DaemonKilled(p) PROVE TypeOK'
    BY <2>39 DEF DaemonKilled
  <2>40. ASSUME NEW p \in Pids, DaemonCrashes(p) PROVE TypeOK'
    BY <2>40 DEF DaemonCrashes
  <2>41. CASE Reboot
    BY <2>41 DEF Reboot
  <2>42. CASE UNCHANGED vars
    BY <2>42
  <2> QED
    BY <2>1, <2>2, <2>3, <2>4, <2>5, <2>6, <2>7, <2>8, <2>9, <2>10, <2>11, <2>12, <2>13, <2>14, <2>15, <2>16, <2>17, <2>18, <2>19, <2>20, <2>21, <2>22, <2>23, <2>24, <2>25, <2>26, <2>27, <2>28, <2>29, <2>30, <2>31, <2>32, <2>33, <2>34, <2>35, <2>36, <2>37, <2>38, <2>39, <2>40, <2>41, <2>42 DEF Next, ApiStep, WorkerStep, ScriptStep, DaemonStep, FaultStep
<1> QED
  BY <1>1, <1>2, ConfiguredInvStep, PTL DEF Spec
------------------------------------------------------------------------------
(* Daemons.                                                                *)

Introduced == {"building", "serving", "unwinding", "flushed"}

DaemonInv ==
  /\ \A p \in Pids : dpc[p] \in DaemonHasLock => dlock = p
  /\ \A p \in Pids : dpc[p] \in Introduced => runtime.pid = p /\ runtime.cfg = dcfg[p]

\* Every step keeps daemon.lock with the one daemon past it, and runtime.json with
\* that daemon from its first flush to its end.
LEMMA DaemonInvStep == TypeOK /\ DaemonInv /\ [Next]_vars => DaemonInv'
<1> SUFFICES ASSUME TypeOK, DaemonInv, [Next]_vars PROVE DaemonInv'
  OBVIOUS
<1> USE ConstantsAssumption DEF TypeOK, DaemonInv, DaemonHasLock, Introduced
<1>1. ASSUME NEW r \in Requests, RequestSide(r) PROVE DaemonInv'
  BY <1>1, RequestFrame
<1>2. ASSUME NEW p \in Pids, DaemonSide(p) PROVE DaemonInv'
  <2> USE DEF DaemonAt, OutsideDaemon, DaemonGone
  <2>1. CASE ProcdSpawns(p)
    BY <2>1 DEF ProcdSpawns
  <2>2. CASE DaemonLocks(p)
    BY <2>2 DEF DaemonLocks
  <2>3. CASE DaemonConfigures(p)
    BY <2>3 DEF DaemonConfigures
  <2>4. CASE DaemonIntroduces(p)
    BY <2>4 DEF DaemonIntroduces
  <2>5. CASE DaemonReady(p)
    BY <2>5 DEF DaemonReady
  <2>6. CASE DaemonHeartbeat(p)
    BY <2>6 DEF DaemonHeartbeat
  <2>7. CASE HealthListenerFails(p)
    BY <2>7 DEF HealthListenerFails
  <2>8. CASE DaemonBuildFails(p) \/ DaemonTerminates(p) \/ DaemonLeavesLoop(p)
    BY <2>8 DEF DaemonBuildFails, DaemonTerminates, DaemonLeavesLoop
  <2>9. CASE DaemonLastFlush(p)
    BY <2>9 DEF DaemonLastFlush
  <2>10. CASE DaemonGone(p)
    BY <2>10
  <2>11. QED
    BY <1>2, <2>1, <2>2, <2>3, <2>4, <2>5, <2>6, <2>7, <2>8, <2>9, <2>10
       DEF DaemonSide, DaemonStep, DaemonRefused, DaemonDisabled, DaemonGivesUp, DaemonExits,
           DaemonKilled, DaemonCrashes
<1>3. CASE Reboot
  BY <1>3 DEF Reboot
<1>4. CASE UNCHANGED vars
  BY <1>4 DEF vars, daemonVars
<1>5. QED
  BY <1>1, <1>2, <1>3, <1>4, StepCases

\* The daemon past daemon.lock holds it and, from its first flush, is in runtime.json.
LEMMA DaemonInvariant == Spec => []DaemonInv
<1>1. Init => DaemonInv
  BY DEF Init, DaemonInv, DaemonHasLock, Introduced
<1>2. QED
  BY <1>1, DaemonInvStep, TypeCorrect, PTL DEF Spec

\* However often procd starts a daemon while an older one is terminating, only
\* one is past daemon.lock.
THEOREM DaemonMutualExclusion == Spec => []OneDaemon
<1>1. DaemonInv => OneDaemon
  BY DEF DaemonInv, OneDaemon
<1>2. QED
  BY <1>1, DaemonInvariant, PTL

\* runtime.json always describes the daemon that serves.
THEOREM RuntimeDescribesServer == Spec => []RuntimeIsCurrent
<1>1. DaemonInv => RuntimeIsCurrent
  BY DEF DaemonInv, RuntimeIsCurrent, Introduced
<1>2. QED
  BY <1>1, DaemonInvariant, PTL
------------------------------------------------------------------------------
(* The lock: the descriptors of action.lock are open exactly in the          *)
(* processes that work for a request, and in those of one request only.      *)

LockInv ==
  /\ \A r \in Requests : "api" \in lockFds[r] <=> api[r] \in ApiHasLock
  /\ \A r \in Requests : "worker" \in lockFds[r] <=> wrk[r] \in WorkerLives
  /\ \A r \in Requests : "script" \in lockFds[r] <=> script[r] \in Cmds
  /\ \A q, r \in Requests : lockFds[q] # {} /\ lockFds[r] # {} => q = r

\* Steps that open or close no descriptor and end or begin no process.
SameHolders == /\ UNCHANGED lockFds
               /\ \A q \in Requests :
                    /\ api'[q] \in ApiHasLock <=> api[q] \in ApiHasLock
                    /\ wrk'[q] \in WorkerLives <=> wrk[q] \in WorkerLives
                    /\ script'[q] \in Cmds <=> script[q] \in Cmds

\* These steps of requestAction open and close no descriptor of action.lock.
LEMMA ApiKeepsHolders ==
  ASSUME TypeOK, NEW r \in Requests,
         ApiBusy(r) \/ ApiDecide(r) \/ ApiCommit(r) \/ ApiQueue(r) \/ ApiSpawnFails(r)
  PROVE  SameHolders
<1>1. /\ UNCHANGED <<lockFds, wrk, script>>
      /\ \/ api[r] = "idle" /\ api' = [api EXCEPT ![r] = "gone"]
         \/ /\ api[r] \in ApiHasLock
            /\ \E s \in ApiHasLock : api' = [api EXCEPT ![r] = s]
  BY DEF ApiBusy, ApiDecide, ApiCommit, ApiQueue, ApiSpawnFails, workerVars, ApiHasLock
<1>2. QED
  BY <1>1 DEF SameHolders, TypeOK, ApiHasLock

\* These steps of applyAction open and close no descriptor of action.lock.
LEMMA WorkerKeepsHolders ==
  ASSUME TypeOK, NEW r \in Requests,
         \/ WorkerBegin(r) \/ WorkerScriptOk(r) \/ WorkerScriptFailed(r) \/ WorkerSeesOldGone(r)
         \/ WorkerStopTimeout(r) \/ WorkerPoll(r) \/ WorkerPollTimeout(r)
  PROVE  SameHolders
<1>1. /\ UNCHANGED <<lockFds, api>>
      /\ wrk[r] \in WorkerLives
      /\ UNCHANGED wrk \/ \E s \in WorkerLives : wrk' = [wrk EXCEPT ![r] = s]
      /\ \/ UNCHANGED script
         \/ script[r] \in {"ok", "failed"} /\ script' = [script EXCEPT ![r] = "none"]
  <2> USE DEF WorkerOutcome, apiVars, WorkerLives, Cmds
  <2>1. CASE WorkerBegin(r)
    BY <2>1 DEF WorkerBegin, AfterStop
  <2>2. CASE WorkerScriptOk(r)
    BY <2>2 DEF WorkerScriptOk
  <2>3. CASE WorkerScriptFailed(r)
    BY <2>3 DEF WorkerScriptFailed
  <2>4. CASE WorkerSeesOldGone(r)
    BY <2>4 DEF WorkerSeesOldGone, AfterStop
  <2>5. CASE WorkerStopTimeout(r) \/ WorkerPollTimeout(r)
    BY <2>5 DEF WorkerStopTimeout, WorkerPollTimeout
  <2>6. CASE WorkerPoll(r)
    BY <2>6 DEF WorkerPoll
  <2>7. QED
    BY <2>1, <2>2, <2>3, <2>4, <2>5, <2>6
<1>2. \A q \in Requests : wrk'[q] \in WorkerLives <=> wrk[q] \in WorkerLives
  BY <1>1 DEF TypeOK
<1>3. \A q \in Requests : script'[q] \in Cmds <=> script[q] \in Cmds
  BY <1>1 DEF TypeOK, Cmds
<1>4. QED
  BY <1>1, <1>2, <1>3 DEF SameHolders

\* Every step keeps the descriptors of action.lock with the live processes of one request.
LEMMA LockInvStep == TypeOK /\ LockInv /\ [Next]_vars => LockInv'
<1> SUFFICES ASSUME TypeOK, LockInv, [Next]_vars PROVE LockInv'
  OBVIOUS
<1>1. CASE SameHolders
  BY <1>1 DEF SameHolders, LockInv
<1>2. ASSUME NEW r \in Requests, RequestSide(r) PROVE LockInv'
  \* One descriptor of r is opened or closed; nothing else changes hands.
  <2> DEFINE Others == \A q \in Requests \ {r} :
                         /\ lockFds'[q] = lockFds[q] /\ api'[q] = api[q]
                         /\ wrk'[q] = wrk[q] /\ script'[q] = script[q]
             Own == /\ "api" \in lockFds'[r] <=> api'[r] \in ApiHasLock
                    /\ "worker" \in lockFds'[r] <=> wrk'[r] \in WorkerLives
                    /\ "script" \in lockFds'[r] <=> script'[r] \in Cmds
             Entitled == lockFds'[r] # {} => \A q \in Requests \ {r} : lockFds[q] = {}
  <2>1. ASSUME Others, Own, Entitled PROVE LockInv'
    BY <2>1 DEF LockInv
  <2> HIDE DEF Others, Own, Entitled
  <2> USE DEF TypeOK, Roles
  <2>2. CASE ApiLock(r)
    <3>1. Others /\ Entitled
      BY <2>2 DEF ApiLock, workerVars, Others, Entitled
    <3>2. Own
      BY <2>2 DEF ApiLock, workerVars, LockInv, Own, ApiHasLock
    <3>3. QED
      BY <2>1, <3>1, <3>2
  <2>3. CASE ApiSpawn(r)
    <3>1. "api" \in lockFds[r]
      BY <2>3 DEF ApiSpawn, LockInv, ApiHasLock
    <3>2. Others /\ Entitled
      BY <2>3, <3>1 DEF ApiSpawn, LockInv, Others, Entitled
    <3>3. Own
      BY <2>3, <3>1 DEF ApiSpawn, LockInv, Own, ApiHasLock, WorkerLives
    <3>4. QED
      BY <2>1, <3>2, <3>3
  <2>4. CASE WorkerRunsScript(r)
    <3>1. "worker" \in lockFds[r]
      BY <2>4 DEF WorkerRunsScript, LockInv, WorkerLives
    <3>2. Others /\ Entitled
      BY <2>4, <3>1 DEF WorkerRunsScript, apiVars, LockInv, Others, Entitled
    <3>3. Own
      BY <2>4, <3>1 DEF WorkerRunsScript, apiVars, LockInv, Own
    <3>4. QED
      BY <2>1, <3>2, <3>3
  <2>5. CASE ApiEnds(r)
    <3>1. Others /\ Entitled
      BY <2>5 DEF ApiEnds, workerVars, LockInv, Others, Entitled
    <3>2. Own
      BY <2>5 DEF ApiEnds, workerVars, LockInv, Own, ApiHasLock
    <3>3. QED
      BY <2>1, <3>1, <3>2
  <2>6. CASE WorkerGone(r)
    <3>1. Others
      BY <2>6 DEF WorkerGone, apiVars, Others
    <3>2. Entitled
      BY <2>6 DEF WorkerGone, LockInv, Entitled
    <3>3. Own
      BY <2>6 DEF WorkerGone, apiVars, LockInv, Own, WorkerLives, Cmds
    <3>4. QED
      BY <2>1, <3>1, <3>2, <3>3
  <2>7. CASE ScriptStep(r)
    <3>1. /\ script[r] \in Cmds
          /\ \E s \in {"ok", "failed"} : ScriptDone(r, s)
      BY <2>7 DEF ScriptStep, ScriptStops, ScriptEnables, ScriptStarts, ScriptDisables,
                  ScriptFails, ScriptTakesEffect, Cmds
    <3>2. Others /\ Entitled
      BY <3>1 DEF ScriptDone, apiVars, LockInv, Others, Entitled
    <3>3. Own
      BY <3>1 DEF ScriptDone, apiVars, LockInv, Own, Cmds
    <3>4. QED
      BY <2>1, <3>2, <3>3
  <2>8. QED
    BY <1>1, <1>2, <2>2, <2>3, <2>4, <2>5, <2>6, <2>7, ApiKeepsHolders, WorkerKeepsHolders
       DEF RequestSide, ApiStep, WorkerStep, WorkerExits, WorkerKilled
<1>3. ASSUME NEW p \in Pids, DaemonSide(p) PROVE LockInv'
  BY <1>1, <1>3, DaemonFrame DEF SameHolders
<1>4. CASE Reboot
  BY <1>4 DEF Reboot, LockInv, TypeOK, ApiHasLock, WorkerLives, Cmds
<1>5. CASE UNCHANGED vars
  BY <1>1, <1>5 DEF vars, apiVars, workerVars, SameHolders
<1>6. QED
  BY <1>2, <1>3, <1>4, <1>5, StepCases

\* All descriptors of action.lock belong to live processes of one request.
LEMMA LockInvariant == Spec => []LockInv
<1>1. Init => LockInv
  BY DEF Init, LockInv, ApiHasLock, WorkerLives, Cmds
<1>2. QED
  BY <1>1, LockInvStep, TypeCorrect, PTL DEF Spec

\* One operation at a time, whichever of its processes is killed.
THEOREM OperationsExclude == Spec => []OneOperation
<1>1. LockInv => OneOperation
  BY DEF LockInv, OneOperation, Busy
<1>2. QED
  BY <1>1, LockInvariant, PTL
------------------------------------------------------------------------------
(* What an operation knows: its settings are the saved ones from its commit   *)
(* on, and the report is its own from the moment it is queued.                *)

BeforeReport == {"idle", "locked", "decided", "committed"}
BeforeWorker == BeforeReport \cup {"queued"}
Committed    == {"committed", "queued", "returning"}
AtWork       == WorkerLives \ {"exiting"}

OperationOk(r) ==
  /\ api[r] \in BeforeWorker => wrk[r] = "none"
  /\ wrk[r] = "none" => plan[r] = NoSettings
  /\ plan[r] \in {NoSettings, target[r]}
  /\ api[r] \in BeforeReport => action.id # r
  /\ wrk[r] \in WorkerLives => action.id = r
  /\ api[r] = "queued" \/ wrk[r] \in AtWork => action.id = r /\ action.state \in SO!Unfinished
  /\ api[r] \in Committed \/ wrk[r] \in WorkerLives => config = target[r]

OperationInv == \A r \in Requests : OperationOk(r)

\* While one request is busy no other one is.
LEMMA Alone ==
  ASSUME LockInv, NEW r \in Requests, Busy(r), NEW q \in Requests \ {r}
  PROVE  ~ Busy(q)
  BY DEF LockInv, Busy

\* What a step of r does to another request, given what it may change.
LEMMA OthersKeep ==
  ASSUME NEW r \in Requests, NEW q \in Requests \ {r}, OperationOk(q),
         api'[q] = api[q], wrk'[q] = wrk[q], plan'[q] = plan[q], target'[q] = target[q],
         action' = action \/ action'.id = r,
         UNCHANGED <<action, config>> \/ ~ Busy(q)
  PROVE  OperationOk(q)'
  BY DEF OperationOk, Busy, BeforeReport, BeforeWorker, Committed, AtWork, ApiHasLock, WorkerLives, Cmds

\* A step of requestAction keeps what an operation in its state has committed and reported.
LEMMA ApiStepKeepsOperations ==
  ASSUME TypeOK, LockInv, OperationInv, NEW r \in Requests, ApiStep(r)
  PROVE  OperationInv'
<1> USE DEF TypeOK, Store, workerVars, apiVars
<1>1. ASSUME NEW q \in Requests \ {r} PROVE OperationOk(q)'
  <2>1. /\ api'[q] = api[q] /\ wrk'[q] = wrk[q] /\ plan'[q] = plan[q] /\ target'[q] = target[q]
        /\ action' = action \/ action'.id = r
    <3>1. CASE ApiLock(r) \/ ApiBusy(r) \/ ApiEnds(r)
      BY <3>1 DEF ApiLock, ApiBusy, ApiEnds
    <3>2. CASE ApiDecide(r) \/ ApiCommit(r)
      BY <3>2 DEF ApiDecide, ApiCommit
    <3>3. CASE ApiQueue(r) \/ ApiSpawn(r) \/ ApiSpawnFails(r)
      BY <3>3 DEF ApiQueue, ApiSpawn, ApiSpawnFails
    <3>4. QED
      BY <3>1, <3>2, <3>3 DEF ApiStep
  <2>2. UNCHANGED <<action, config>> \/ Busy(r)
    BY DEF ApiStep, ApiLock, ApiBusy, ApiEnds, ApiDecide, ApiCommit, ApiQueue, ApiSpawn,
           ApiSpawnFails, Busy, ApiHasLock
  <2>3. QED
    BY <2>1, <2>2, Alone, OthersKeep DEF OperationInv
<1>2. OperationOk(r)'
  <2> USE DEF OperationInv, OperationOk, BeforeReport, BeforeWorker, Committed, AtWork, ApiHasLock,
              SO!Unfinished
  <2>1. CASE ApiLock(r) \/ ApiBusy(r) \/ ApiEnds(r)
    BY <2>1 DEF ApiLock, ApiBusy, ApiEnds
  <2>2. CASE ApiDecide(r)
    BY <2>2 DEF ApiDecide, WorkerLives, Cmds
  <2>3. CASE ApiCommit(r)
    BY <2>3 DEF ApiCommit
  <2>4. CASE ApiQueue(r)
    BY <2>4 DEF ApiQueue
  <2>5. CASE ApiSpawn(r)
    BY <2>5 DEF ApiSpawn
  <2>6. CASE ApiSpawnFails(r)
    BY <2>6 DEF ApiSpawnFails, WorkerLives, Cmds
  <2>7. QED
    BY <2>1, <2>2, <2>3, <2>4, <2>5, <2>6 DEF ApiStep
<1>3. QED
  BY <1>1, <1>2 DEF OperationInv

\* A step of applyAction, or its death, keeps what the operation has committed and reported.
LEMMA WorkerStepKeepsOperations ==
  ASSUME TypeOK, LockInv, OperationInv, NEW r \in Requests, WorkerStep(r) \/ WorkerKilled(r)
  PROVE  OperationInv'
<1> USE DEF TypeOK, Store, WorkerOutcome, WorkerGone, apiVars
<1>1. /\ UNCHANGED <<api, target, config>>
      /\ wrk[r] \in WorkerLives
      /\ \E s \in WorkerLives \cup {"dead"} : wrk' = [wrk EXCEPT ![r] = s]
      /\ action' = action \/ \E s \in {"applying", "done", "failed"} : action' = [id |-> r, state |-> s]
      /\ UNCHANGED plan \/ plan' = [plan EXCEPT ![r] = config]
      /\ wrk'[r] \in AtWork => action' = action \/ action'.state = "applying"
  <2> USE DEF WorkerLives, Cmds, AtWork
  <2>1. CASE WorkerBegin(r)
    BY <2>1 DEF WorkerBegin, AfterStop
  <2>2. CASE WorkerRunsScript(r)
    BY <2>2 DEF WorkerRunsScript
  <2>3. CASE WorkerScriptOk(r)
    BY <2>3 DEF WorkerScriptOk
  <2>4. CASE WorkerScriptFailed(r)
    BY <2>4 DEF WorkerScriptFailed
  <2>5. CASE WorkerSeesOldGone(r)
    BY <2>5 DEF WorkerSeesOldGone, AfterStop
  <2>6. CASE WorkerStopTimeout(r) \/ WorkerPollTimeout(r)
    BY <2>6 DEF WorkerStopTimeout, WorkerPollTimeout
  <2>7. CASE WorkerPoll(r)
    BY <2>7 DEF WorkerPoll
  <2>8. CASE WorkerExits(r) \/ WorkerKilled(r)
    BY <2>8 DEF WorkerExits, WorkerKilled
  <2>9. QED
    BY <2>1, <2>2, <2>3, <2>4, <2>5, <2>6, <2>7, <2>8 DEF WorkerStep
<1>2. wrk[r] = "exiting" => UNCHANGED action /\ wrk'[r] = "dead"
  BY DEF WorkerStep, WorkerBegin, WorkerRunsScript, WorkerScriptOk, WorkerScriptFailed,
         WorkerSeesOldGone, WorkerStopTimeout, WorkerPoll, WorkerPollTimeout, WorkerExits,
         WorkerKilled, Cmds
<1>3. Busy(r)
  BY <1>1 DEF Busy
<1>4. ASSUME NEW q \in Requests \ {r} PROVE OperationOk(q)'
  <2>1. /\ api'[q] = api[q] /\ wrk'[q] = wrk[q] /\ plan'[q] = plan[q] /\ target'[q] = target[q]
        /\ action' = action \/ action'.id = r
    BY <1>1
  <2>2. QED
    BY <1>3, <2>1, Alone, OthersKeep DEF OperationInv
<1>5. OperationOk(r)'
  BY <1>1, <1>2 DEF OperationInv, OperationOk, BeforeReport, BeforeWorker, Committed, AtWork, WorkerLives,
                    Cmds, SO!Unfinished
<1>6. QED
  BY <1>4, <1>5 DEF OperationInv

\* Every step keeps what each operation has committed and reported.
LEMMA OperationInvStep == TypeOK /\ LockInv /\ OperationInv /\ [Next]_vars => OperationInv'
<1> SUFFICES ASSUME TypeOK, LockInv, OperationInv, [Next]_vars PROVE OperationInv'
  OBVIOUS
<1>1. CASE UNCHANGED <<config, action, api, target, wrk, plan>>
  BY <1>1 DEF OperationInv, OperationOk
<1>2. ASSUME NEW r \in Requests, ScriptStep(r) PROVE OperationInv'
  BY <1>1, <1>2 DEF ScriptStep, ScriptStops, ScriptEnables, ScriptStarts, ScriptDisables,
                    ScriptFails, ScriptTakesEffect, ScriptDone, apiVars
<1>3. ASSUME NEW p \in Pids, DaemonSide(p) PROVE OperationInv'
  BY <1>1, <1>3, DaemonFrame
<1>4. CASE Reboot
  BY <1>4, ConstantsAssumption
     DEF Reboot, NoAction, OperationInv, OperationOk, BeforeReport, BeforeWorker, Committed,
         AtWork, WorkerLives, Cmds, TypeOK
<1>5. CASE UNCHANGED vars
  BY <1>1, <1>5 DEF vars, apiVars, workerVars
<1>6. QED
  BY <1>2, <1>3, <1>4, <1>5, StepCases, ApiStepKeepsOperations, WorkerStepKeepsOperations
     DEF RequestSide

\* What an operation in its state has committed and reported is in the files.
LEMMA OperationInvariant == Spec => []OperationInv
<1>1. Init => OperationInv
  BY ConstantsAssumption
     DEF Init, NoAction, OperationInv, OperationOk, BeforeReport, BeforeWorker, Committed,
         AtWork, WorkerLives, Cmds
<1>2. QED
  BY <1>1, OperationInvStep, TypeCorrect, LockInvariant, PTL DEF Spec

\* The report on disk is the living worker's own.
THEOREM ReportBelongsToWorker == Spec => []ReportIsCurrent
<1>1. OperationInv => ReportIsCurrent
  BY DEF OperationInv, OperationOk, ReportIsCurrent
<1>2. QED
  BY <1>1, OperationInvariant, PTL

\* A worker applies what its request committed, and nobody changes it meanwhile.
THEOREM WorkerAppliesCommitted == Spec => []AppliesWhatItSaved
<1>1. OperationInv => AppliesWhatItSaved
  BY DEF OperationInv, OperationOk, AppliesWhatItSaved
<1>2. QED
  BY <1>1, OperationInvariant, PTL
------------------------------------------------------------------------------
(* Refinement of SingleOperation.                                          *)

\* The holder is the one request with an open descriptor.
LEMMA HolderIsUnique ==
  ASSUME NEW fds, NEW r \in Requests, fds[r] # {},
         \A q, s \in Requests : fds[q] # {} /\ fds[s] # {} => q = s
  PROVE  HolderOf(fds) = r
  BY DEF HolderOf

\* Without an open descriptor nobody holds action.lock.
LEMMA NobodyHolds ==
  ASSUME NEW fds, \A q \in Requests : fds[q] = {}
  PROVE  HolderOf(fds) = NoRequest
  BY DEF HolderOf

\* A process of r that closes its descriptor keeps the lock with r or frees it.
LEMMA ClosingReleases ==
  ASSUME LockInv, LockInv', NEW r \in Requests, lockFds[r] # {},
         \A q \in Requests \ {r} : lockFds'[q] = lockFds[q],
         UNCHANGED <<config, action>>
  PROVE  SO!Release(r) \/ UNCHANGED SO!vars
<1>1. LockHolder = r
  BY HolderIsUnique DEF LockHolder, LockInv
<1>2. CASE lockFds'[r] # {}
  <2>1. LockHolder' = r
    BY <1>2, HolderIsUnique DEF LockHolder, LockInv
  <2>2. QED
    BY <1>1, <2>1 DEF SO!vars
<1>3. CASE lockFds'[r] = {}
  <2>1. \A q \in Requests : lockFds'[q] = {}
    BY <1>3 DEF LockInv
  <2>2. LockHolder' = NoRequest
    BY <2>1, NobodyHolds DEF LockHolder
  <2>3. QED
    BY <1>1, <2>2 DEF SO!Release
<1>4. QED
  BY <1>2, <1>3

\* A step of requestAction acquires, commits, reports or releases, or changes nothing abstract.
LEMMA ApiStepRefines ==
  ASSUME TypeOK, LockInv, LockInv', OperationInv, NEW r \in Requests, ApiStep(r)
  PROVE  [SO!Next]_(SO!vars)
<1> USE DEF workerVars, apiVars
<1>1. api[r] # "idle" /\ api[r] # "gone" => lockFds[r] # {}
  BY DEF TypeOK, LockInv, ApiHasLock
<1>2. lockFds[r] # {} => LockHolder = r
  BY HolderIsUnique DEF LockHolder, LockInv
<1>3. CASE ApiLock(r)
  <2>1. LockHolder = NoRequest
    BY <1>3, NobodyHolds DEF ApiLock, LockHolder
  <2>2. lockFds'[r] # {}
    BY <1>3 DEF ApiLock, TypeOK
  <2>3. LockHolder' = r
    BY <2>2, HolderIsUnique DEF LockHolder, LockInv
  <2>4. SO!Acquire(r)
    BY <1>3, <2>1, <2>3 DEF SO!Acquire, ApiLock
  <2>5. QED
    BY <2>4 DEF SO!Next
<1>4. CASE ApiBusy(r) \/ ApiDecide(r) \/ ApiSpawn(r)
  <2>1. UNCHANGED <<config, action>>
    BY <1>4 DEF ApiBusy, ApiDecide, ApiSpawn
  <2>2. UNCHANGED LockHolder
    <3>1. CASE ApiBusy(r) \/ ApiDecide(r)
      BY <3>1 DEF ApiBusy, ApiDecide, LockHolder
    <3>2. CASE ApiSpawn(r)
      <4>1. lockFds[r] # {} /\ lockFds'[r] # {}
        BY <1>1, <3>2 DEF ApiSpawn, TypeOK
      <4>2. LockHolder' = r
        BY <4>1, HolderIsUnique DEF LockHolder, LockInv
      <4>3. QED
        BY <1>2, <4>1, <4>2
    <3>3. QED
      BY <1>4, <3>1, <3>2
  <2>3. QED
    BY <2>1, <2>2 DEF SO!vars
<1>5. CASE ApiCommit(r)
  <2>1. LockHolder = r /\ UNCHANGED LockHolder
    BY <1>1, <1>2, <1>5 DEF ApiCommit, LockHolder
  <2>2. action.id # r /\ config' \in Settings /\ UNCHANGED action
    BY <1>5 DEF ApiCommit, OperationInv, OperationOk, BeforeReport, TypeOK
  <2>3. SO!Commit(r)
    BY <2>1, <2>2 DEF SO!Commit
  <2>4. QED
    BY <2>3 DEF SO!Next
<1>6. CASE ApiQueue(r) \/ ApiSpawnFails(r)
  <2>1. LockHolder = r /\ UNCHANGED <<LockHolder, config>>
    BY <1>1, <1>2, <1>6 DEF ApiQueue, ApiSpawnFails, LockHolder
  <2>2. ~ (action.id = r /\ action.state \in SO!Finished)
    BY <1>6 DEF ApiQueue, ApiSpawnFails, OperationInv, OperationOk, BeforeReport, SO!Finished, SO!Unfinished
  <2>3. \E s \in SO!Unfinished \cup SO!Finished : action' = [id |-> r, state |-> s]
    BY <1>6 DEF ApiQueue, ApiSpawnFails, Store, SO!Finished, SO!Unfinished
  <2>4. SO!Report(r)
    BY <2>1, <2>2, <2>3 DEF SO!Report
  <2>5. QED
    BY <2>4 DEF SO!Next
<1>7. CASE ApiEnds(r)
  <2>1. lockFds[r] # {} /\ (\A q \in Requests \ {r} : lockFds'[q] = lockFds[q]) /\ UNCHANGED <<config, action>>
    BY <1>1, <1>7 DEF ApiEnds, ApiHasLock, TypeOK
  <2>2. QED
    BY <2>1, ClosingReleases DEF SO!Next
<1>8. QED
  BY <1>3, <1>4, <1>5, <1>6, <1>7 DEF ApiStep

\* A step of applyAction, or its death, reports or releases, or changes nothing abstract.
LEMMA WorkerStepRefines ==
  ASSUME TypeOK, LockInv, LockInv', OperationInv, NEW r \in Requests, WorkerStep(r) \/ WorkerKilled(r)
  PROVE  [SO!Next]_(SO!vars)
<1> USE DEF apiVars
<1>1. lockFds[r] # {}
  BY DEF LockInv, WorkerLives, Cmds, WorkerStep, WorkerBegin, WorkerRunsScript, WorkerScriptOk,
         WorkerScriptFailed, WorkerSeesOldGone, WorkerStopTimeout, WorkerPoll,
         WorkerPollTimeout, WorkerExits, WorkerKilled
<1>2. LockHolder = r
  BY <1>1, HolderIsUnique DEF LockHolder, LockInv
<1>3. CASE WorkerGone(r)
  <2>1. (\A q \in Requests \ {r} : lockFds'[q] = lockFds[q]) /\ UNCHANGED <<config, action>>
    BY <1>3 DEF WorkerGone, TypeOK
  <2>2. QED
    BY <1>1, <2>1, ClosingReleases DEF SO!Next
<1>4. CASE WorkerRunsScript(r)
  <2>1. lockFds'[r] # {} /\ UNCHANGED <<config, action>>
    BY <1>4 DEF WorkerRunsScript, TypeOK
  <2>2. LockHolder' = r
    BY <2>1, HolderIsUnique DEF LockHolder, LockInv
  <2>3. QED
    BY <1>2, <2>1, <2>2 DEF SO!vars
<1>5. CASE /\ wrk[r] \in AtWork
           /\ \E s \in {"applying", "done", "failed"} : action' = [id |-> r, state |-> s]
           /\ UNCHANGED <<lockFds, config>>
  <2>1. ~ (action.id = r /\ action.state \in SO!Finished)
    BY <1>5 DEF OperationInv, OperationOk, SO!Finished, SO!Unfinished
  <2>2. UNCHANGED LockHolder
    BY <1>5 DEF LockHolder
  <2>3. SO!Report(r)
    BY <1>2, <1>5, <2>1, <2>2 DEF SO!Report, SO!Finished, SO!Unfinished
  <2>4. QED
    BY <2>3 DEF SO!Next
<1>6. CASE UNCHANGED <<lockFds, config, action>>
  BY <1>6 DEF LockHolder, SO!vars
<1>7. QED
  <2> USE DEF WorkerOutcome, Store, AtWork, WorkerLives, Cmds
  <2>1. CASE WorkerBegin(r)
    BY <2>1, <1>5 DEF WorkerBegin
  <2>2. CASE WorkerScriptOk(r)
    BY <2>2, <1>5, <1>6 DEF WorkerScriptOk
  <2>3. CASE WorkerScriptFailed(r) \/ WorkerStopTimeout(r) \/ WorkerPollTimeout(r)
    BY <2>3, <1>5 DEF WorkerScriptFailed, WorkerStopTimeout, WorkerPollTimeout
  <2>4. CASE WorkerSeesOldGone(r)
    BY <2>4, <1>6 DEF WorkerSeesOldGone
  <2>5. CASE WorkerPoll(r)
    BY <2>5, <1>5, <1>6 DEF WorkerPoll
  <2>6. QED
    BY <1>3, <1>4, <2>1, <2>2, <2>3, <2>4, <2>5 DEF WorkerStep, WorkerExits, WorkerKilled

\* Every step of the processes is a step of one operation at a time, or a stutter.
LEMMA StepRefines ==
  TypeOK /\ LockInv /\ LockInv' /\ OperationInv /\ [Next]_vars => [SO!Next]_(SO!vars)
<1> SUFFICES ASSUME TypeOK, LockInv, LockInv', OperationInv, [Next]_vars
             PROVE  [SO!Next]_(SO!vars)
  OBVIOUS
<1>1. ASSUME NEW r \in Requests, ScriptStep(r) PROVE [SO!Next]_(SO!vars)
  <2>1. /\ script[r] \in Cmds
        /\ \E s \in {"ok", "failed"} : ScriptDone(r, s)
    BY <1>1 DEF ScriptStep, ScriptStops, ScriptEnables, ScriptStarts, ScriptDisables,
                ScriptFails, ScriptTakesEffect, Cmds
  <2>2. lockFds[r] # {}
    BY <2>1 DEF LockInv
  <2>3. (\A q \in Requests \ {r} : lockFds'[q] = lockFds[q]) /\ UNCHANGED <<config, action>>
    BY <2>1 DEF ScriptDone, TypeOK
  <2>4. QED
    BY <2>2, <2>3, ClosingReleases DEF SO!Next
<1>2. ASSUME NEW p \in Pids, DaemonSide(p) PROVE [SO!Next]_(SO!vars)
  BY <1>2, DaemonFrame DEF LockHolder, SO!vars
<1>3. CASE Reboot
  <2>1. LockHolder' = NoRequest
    <3>1. \A q \in Requests : lockFds'[q] = {}
      BY <1>3 DEF Reboot
    <3>2. QED
      BY <3>1, NobodyHolds DEF LockHolder
  <2>2. SO!Forget
    BY <1>3, <2>1 DEF Reboot, SO!Forget, SO!NoReport, NoAction
  <2>3. QED
    BY <2>2 DEF SO!Next
<1>4. CASE UNCHANGED vars
  BY <1>4 DEF vars, LockHolder, SO!vars
<1>5. QED
  BY <1>1, <1>2, <1>3, <1>4, StepCases, ApiStepRefines, WorkerStepRefines DEF RequestSide

\* The API processes, workers, scripts, descriptors and files together behave
\* as one operation at a time that commits before it reports and reports its
\* outcome once.
THEOREM Refinement == Spec => ImplementsSingleOperation
<1>1. Init => SO!Init
  <2>1. ASSUME Init PROVE LockHolder = NoRequest
    <3>1. \A q \in Requests : lockFds[q] = {}
      BY <2>1 DEF Init
    <3>2. QED
      BY <3>1, NobodyHolds DEF LockHolder
  <2>2. QED
    BY <2>1 DEF Init, SO!Init, SO!NoReport, NoAction
<1>2. QED
  BY <1>1, StepRefines, TypeCorrect, LockInvariant, OperationInvariant, PTL
     DEF Spec, ImplementsSingleOperation, SO!Spec
------------------------------------------------------------------------------
(* The course of a worker: what it has decided and which script it runs.    *)

\* The program counters between the worker's first report and its last.
UnderWay == Cmds \cup {"wait", "poll"}

CourseOk(r) ==
  /\ kind[r] = "start" => target[r].enabled
  /\ wrk[r] \notin Cmds \cup {"dead"} => script[r] = "none"
  /\ wrk[r] \in Cmds => script[r] \in {wrk[r], "none", "ok", "failed"}
  /\ wrk[r] \in UnderWay => plan[r] \in Settings
  /\ wrk[r] \in {"enable", "start", "poll"} => plan[r].enabled
  /\ wrk[r] = "disable" => ~ plan[r].enabled

CourseInv == \A r \in Requests : CourseOk(r)

(* What the scripts of a worker have achieved, which the other processes      *)
(* cannot undo: the instance that procd has given up, and the boot links.     *)

SupervisionInv ==
  /\ procd.svc # "up" => procd.inst = NoPid
  /\ \A p \in Pids : dpc[p] # "dead" => p \in termed \/ procd.inst = p

Quiet == procd.svc = "absent" /\ \A p \in Pids : dpc[p] # "dead" => p \in termed

Stopped(r) == wrk[r] = "exiting" /\ action.state = "done" /\ ~ plan[r].enabled

EffectOk(r) ==
  /\ \/ wrk[r] = "stop" /\ script[r] = "ok"
     \/ wrk[r] \in {"wait", "disable"}
     \/ Stopped(r)
     => Quiet
  /\ (wrk[r] = "disable" /\ script[r] = "ok") \/ Stopped(r) => ~ bootlink
  /\ (wrk[r] = "enable" /\ script[r] = "ok") \/ wrk[r] \in {"start", "poll"} => bootlink

EffectInv == \A r \in Requests : EffectOk(r)

\* The live process that runtime.json names has introduced itself there, and is
\* past its start if the file says that anything is up.
RuntimeInv ==
  \A p \in Pids : runtime.pid = p /\ dpc[p] # "dead" =>
    /\ dpc[p] \in Introduced
    /\ runtime.up # {} => dpc[p] \in {"serving", "unwinding"}
------------------------------------------------------------------------------
\* What an operation does keeps the course of its own worker and of no other.
LEMMA CourseInvStep == TypeOK /\ LockInv /\ OperationInv /\ CourseInv /\ [Next]_vars => CourseInv'
<1> SUFFICES ASSUME TypeOK, LockInv, OperationInv, CourseInv, [Next]_vars PROVE CourseInv'
  OBVIOUS
<1> USE DEF TypeOK
<1>1. CASE UNCHANGED <<kind, target, wrk, script, plan>>
  BY <1>1 DEF CourseInv, CourseOk
<1>2. ASSUME NEW r \in Requests, ApiStep(r) PROVE CourseInv'
  <2> USE DEF CourseInv, CourseOk, UnderWay, Cmds, workerVars
  <2>1. CASE ApiLock(r) \/ ApiBusy(r) \/ ApiCommit(r) \/ ApiQueue(r) \/ ApiSpawnFails(r) \/ ApiEnds(r)
    BY <1>1, <2>1 DEF ApiLock, ApiBusy, ApiCommit, ApiQueue, ApiSpawnFails, ApiEnds
  <2>2. CASE ApiDecide(r)
    <3>1. kind'[r] = "start" => target'[r].enabled
      BY <2>2 DEF ApiDecide, Asked, Settings, Kinds
    <3>2. QED
      BY <2>2, <3>1 DEF ApiDecide
  <2>3. CASE ApiSpawn(r)
    <3>1. wrk[r] = "none"
      BY <2>3 DEF ApiSpawn, OperationInv, OperationOk, BeforeWorker
    <3>2. QED
      BY <2>3, <3>1 DEF ApiSpawn
  <2>4. QED
    BY <1>2, <2>1, <2>2, <2>3 DEF ApiStep
<1>3. ASSUME NEW r \in Requests, WorkerStep(r) \/ WorkerKilled(r) PROVE CourseInv'
  <2> USE DEF WorkerOutcome, WorkerGone, apiVars
  <2>1. ASSUME CourseOk(r)', \A q \in Requests \ {r} : wrk'[q] = wrk[q] /\ script'[q] = script[q]
                                                       /\ plan'[q] = plan[q],
               UNCHANGED <<kind, target>>
        PROVE  CourseInv'
    BY <2>1 DEF CourseInv, CourseOk
  <2> USE DEF CourseInv, CourseOk, UnderWay, Cmds
  <2>2. CASE WorkerBegin(r)
    <3>1. kind[r] = "start" => config.enabled
      BY <2>2 DEF WorkerBegin, OperationInv, OperationOk, WorkerLives
    <3>2. CourseOk(r)'
      BY <2>2, <3>1 DEF WorkerBegin, AfterStop
    <3>3. QED
      BY <2>1, <2>2, <3>2 DEF WorkerBegin
  <2>3. CASE WorkerRunsScript(r)
    BY <2>1, <2>3 DEF WorkerRunsScript
  <2>4. CASE WorkerScriptOk(r)
    BY <2>1, <2>4 DEF WorkerScriptOk
  <2>5. CASE WorkerScriptFailed(r)
    BY <2>1, <2>5 DEF WorkerScriptFailed
  <2>6. CASE WorkerSeesOldGone(r)
    BY <2>1, <2>6 DEF WorkerSeesOldGone, AfterStop
  <2>7. CASE WorkerStopTimeout(r) \/ WorkerPollTimeout(r)
    BY <2>1, <2>7 DEF WorkerStopTimeout, WorkerPollTimeout
  <2>8. CASE WorkerPoll(r)
    BY <2>1, <2>8 DEF WorkerPoll
  <2>9. CASE WorkerExits(r) \/ WorkerKilled(r)
    BY <2>1, <2>9 DEF WorkerExits, WorkerKilled
  <2>10. QED
    BY <1>3, <2>2, <2>3, <2>4, <2>5, <2>6, <2>7, <2>8, <2>9 DEF WorkerStep
<1>4. ASSUME NEW r \in Requests, ScriptStep(r) PROVE CourseInv'
  <2>1. /\ script[r] \in Cmds
        /\ \E s \in {"ok", "failed"} : ScriptDone(r, s)
    BY <1>4 DEF ScriptStep, ScriptStops, ScriptEnables, ScriptStarts, ScriptDisables,
                ScriptFails, ScriptTakesEffect, Cmds
  <2>2. QED
    BY <2>1 DEF ScriptDone, apiVars, CourseInv, CourseOk, UnderWay, Cmds
<1>5. ASSUME NEW p \in Pids, DaemonSide(p) PROVE CourseInv'
  BY <1>1, <1>5, DaemonFrame
<1>6. CASE Reboot
  BY <1>6 DEF Reboot, CourseInv, CourseOk, UnderWay, Cmds
<1>7. CASE UNCHANGED vars
  BY <1>1, <1>7 DEF vars, apiVars, workerVars
<1>8. QED
  BY <1>2, <1>3, <1>4, <1>5, <1>6, <1>7, StepCases DEF RequestSide

\* procd knows its instance while that runs, and has told every other daemon to end.
LEMMA SupervisionInvStep == TypeOK /\ SupervisionInv /\ [Next]_vars => SupervisionInv'
<1> SUFFICES ASSUME TypeOK, SupervisionInv, [Next]_vars PROVE SupervisionInv'
  OBVIOUS
<1> USE ConstantsAssumption DEF TypeOK, SupervisionInv
<1>1. CASE UNCHANGED <<procd, termed, dpc>>
  BY <1>1
<1>2. ASSUME NEW r \in Requests, ScriptStep(r) PROVE SupervisionInv'
  <2> USE DEF procdVars, ScriptTakesEffect, ScriptDone
  <2>1. CASE ScriptStops(r)
    BY <2>1 DEF ScriptStops
  <2>2. CASE ScriptStarts(r)
    BY <2>2 DEF ScriptStarts
  <2>3. QED
    BY <1>2, <1>1, <2>1, <2>2 DEF ScriptStep, ScriptEnables, ScriptDisables, ScriptFails
<1>3. ASSUME NEW r \in Requests, ApiStep(r) \/ WorkerStep(r) \/ WorkerKilled(r) PROVE SupervisionInv'
  <2> USE DEF procdVars, daemonVars
  <2>1. CASE ApiStep(r)
    BY <1>1, <2>1 DEF ApiStep, ApiLock, ApiBusy, ApiDecide, ApiCommit, ApiQueue, ApiSpawn,
                ApiSpawnFails, ApiEnds
  <2>2. CASE WorkerStep(r) \/ WorkerKilled(r)
    BY <1>1, <2>2 DEF WorkerStep, WorkerBegin, WorkerRunsScript, WorkerScriptOk, WorkerScriptFailed,
                WorkerSeesOldGone, WorkerStopTimeout, WorkerPoll, WorkerPollTimeout,
                WorkerExits, WorkerKilled, WorkerGone
  <2>3. QED
    BY <1>3, <2>1, <2>2
<1>4. ASSUME NEW p \in Pids, DaemonSide(p) PROVE SupervisionInv'
  <2>1. CASE ProcdSpawns(p)
    BY <2>1 DEF ProcdSpawns
  <2>2. CASE DaemonGone(p)
    BY <2>2 DEF DaemonGone
  <2>3. CASE /\ UNCHANGED <<procd, termed>> /\ dpc[p] # "dead"
             /\ \A q \in Pids \ {p} : dpc'[q] = dpc[q]
    BY <2>3
  <2>4. QED
    BY <1>4, <2>1, <2>2, <2>3
       DEF DaemonSide, DaemonStep, DaemonAt, OutsideDaemon, procdVars, DaemonLocks, DaemonRefused,
           DaemonConfigures, DaemonDisabled, DaemonIntroduces, DaemonReady, DaemonTerminates,
           DaemonLastFlush, DaemonExits, DaemonKilled, DaemonHeartbeat, DaemonGivesUp,
           DaemonBuildFails, HealthListenerFails, DaemonLeavesLoop, DaemonCrashes
<1>5. CASE Reboot
  BY <1>5 DEF Reboot
<1>6. CASE UNCHANGED vars
  BY <1>1, <1>6 DEF vars, procdVars, daemonVars
<1>7. QED
  BY <1>2, <1>3, <1>4, <1>5, <1>6, StepCases DEF RequestSide

\* No daemon but the one that introduces itself gets into runtime.json.
LEMMA RuntimeInvStep == TypeOK /\ DaemonInv /\ RuntimeInv /\ [Next]_vars => RuntimeInv'
<1> SUFFICES ASSUME TypeOK, DaemonInv, RuntimeInv, [Next]_vars PROVE RuntimeInv'
  OBVIOUS
<1> USE ConstantsAssumption DEF TypeOK, DaemonInv, RuntimeInv, DaemonHasLock, Introduced
<1>1. ASSUME NEW r \in Requests, RequestSide(r) PROVE RuntimeInv'
  BY <1>1, RequestFrame
<1>2. ASSUME NEW p \in Pids, DaemonSide(p) PROVE RuntimeInv'
  <2> USE DEF DaemonAt, OutsideDaemon, DaemonGone
  <2>1. CASE ProcdSpawns(p)
    BY <2>1 DEF ProcdSpawns
  <2>2. CASE DaemonLocks(p) \/ DaemonConfigures(p)
    BY <2>2 DEF DaemonLocks, DaemonConfigures
  <2>3. CASE DaemonIntroduces(p)
    BY <2>3 DEF DaemonIntroduces
  <2>4. CASE DaemonReady(p)
    BY <2>4 DEF DaemonReady
  <2>5. CASE DaemonHeartbeat(p) \/ HealthListenerFails(p)
    BY <2>5 DEF DaemonHeartbeat, HealthListenerFails
  <2>6. CASE DaemonBuildFails(p)
    BY <2>6 DEF DaemonBuildFails
  <2>7. CASE DaemonTerminates(p) \/ DaemonLeavesLoop(p)
    BY <2>7 DEF DaemonTerminates, DaemonLeavesLoop
  <2>8. CASE DaemonLastFlush(p)
    BY <2>8 DEF DaemonLastFlush
  <2>9. CASE DaemonGone(p)
    BY <2>9
  <2>10. QED
    BY <1>2, <2>1, <2>2, <2>3, <2>4, <2>5, <2>6, <2>7, <2>8, <2>9
       DEF DaemonSide, DaemonStep, DaemonRefused, DaemonDisabled, DaemonGivesUp, DaemonExits,
           DaemonKilled, DaemonCrashes
<1>3. CASE Reboot
  BY <1>3 DEF Reboot, NoRuntime
<1>4. CASE UNCHANGED vars
  BY <1>4 DEF vars, daemonVars
<1>5. QED
  BY <1>1, <1>2, <1>3, <1>4, StepCases

\* What a worker has achieved stays: nothing but its own scripts touches procd's
\* instance and the boot links while it lives.
LEMMA EffectInvStep ==
  TypeOK /\ LockInv /\ OperationInv /\ CourseInv /\ SupervisionInv /\ EffectInv /\ [Next]_vars
    => EffectInv'
<1> SUFFICES ASSUME TypeOK, LockInv, OperationInv, CourseInv, SupervisionInv, EffectInv, [Next]_vars
             PROVE  EffectInv'
  OBVIOUS
<1> USE DEF TypeOK
<1>1. CASE UNCHANGED <<procd, bootlink, termed, dpc, action, wrk, plan, script>>
  BY <1>1 DEF EffectInv, EffectOk, Quiet, Stopped
\* A step of a busy request concerns no other one.
<1>2. ASSUME NEW r \in Requests, Busy(r), EffectOk(r)',
             \A q \in Requests \ {r} : wrk'[q] = wrk[q]
      PROVE  EffectInv'
  <2>1. ASSUME NEW q \in Requests \ {r} PROVE wrk'[q] \notin WorkerLives
    BY <1>2, Alone DEF Busy
  <2>2. QED
    BY <1>2, <2>1 DEF EffectInv, EffectOk, Stopped, WorkerLives, Cmds
<1>3. ASSUME NEW r \in Requests, ApiStep(r) PROVE EffectInv'
  <2> USE DEF workerVars, procdVars, daemonVars
  <2>1. CASE ApiLock(r) \/ ApiBusy(r) \/ ApiDecide(r) \/ ApiCommit(r) \/ ApiEnds(r)
    BY <1>1, <2>1 DEF ApiLock, ApiBusy, ApiDecide, ApiCommit, ApiEnds
  <2>2. CASE ApiQueue(r) \/ ApiSpawn(r) \/ ApiSpawnFails(r)
    <3>1. wrk[r] = "none" /\ Busy(r)
      BY <2>2 DEF ApiQueue, ApiSpawn, ApiSpawnFails, OperationInv, OperationOk, BeforeWorker,
                  BeforeReport, Busy, ApiHasLock
    <3>2. wrk'[r] \in {"none", "begin"} /\ \A q \in Requests \ {r} : wrk'[q] = wrk[q]
      BY <2>2, <3>1 DEF ApiQueue, ApiSpawn, ApiSpawnFails
    <3>3. EffectOk(r)'
      BY <3>2 DEF EffectOk, Stopped
    <3>4. QED
      BY <1>2, <3>1, <3>2, <3>3
  <2>3. QED
    BY <1>3, <2>1, <2>2 DEF ApiStep
<1>4. ASSUME NEW r \in Requests, WorkerStep(r) \/ WorkerKilled(r) PROVE EffectInv'
  <2> USE DEF WorkerOutcome, WorkerGone, Store, procdVars, daemonVars
  <2>1. wrk[r] \in WorkerLives
    BY <1>4 DEF WorkerStep, WorkerBegin, WorkerRunsScript, WorkerScriptOk, WorkerScriptFailed,
                WorkerSeesOldGone, WorkerStopTimeout, WorkerPoll, WorkerPollTimeout,
                WorkerExits, WorkerKilled, WorkerLives, Cmds
  <2>2. CourseOk(r) /\ EffectOk(r)
    BY DEF CourseInv, EffectInv
  <2>3. ASSUME EffectOk(r)', \A q \in Requests \ {r} : wrk'[q] = wrk[q] PROVE EffectInv'
    BY <1>2, <2>1, <2>3 DEF Busy
  <2> USE DEF CourseOk, EffectOk, Quiet, Stopped, Cmds, UnderWay
  <2>4. CASE WorkerBegin(r)
    <3>1. kind[r] = "start" => config.enabled
      BY <2>2, <2>4 DEF WorkerBegin, OperationInv, OperationOk, WorkerLives
    <3>2. EffectOk(r)'
      BY <2>2, <2>4, <3>1 DEF WorkerBegin, AfterStop
    <3>3. QED
      BY <2>3, <2>4, <3>2 DEF WorkerBegin
  <2>5. CASE WorkerRunsScript(r)
    BY <2>2, <2>3, <2>5 DEF WorkerRunsScript
  <2>6. CASE WorkerScriptOk(r)
    <3>1. EffectOk(r)'
      BY <2>2, <2>6 DEF WorkerScriptOk
    <3>2. QED
      BY <2>3, <2>6, <3>1 DEF WorkerScriptOk
  <2>7. CASE WorkerScriptFailed(r)
    BY <2>2, <2>3, <2>7 DEF WorkerScriptFailed
  <2>8. CASE WorkerSeesOldGone(r)
    BY <2>2, <2>3, <2>8 DEF WorkerSeesOldGone, AfterStop
  <2>9. CASE WorkerStopTimeout(r) \/ WorkerPollTimeout(r)
    BY <2>2, <2>3, <2>9 DEF WorkerStopTimeout, WorkerPollTimeout
  <2>10. CASE WorkerPoll(r)
    <3>1. EffectOk(r)'
      BY <2>2, <2>10 DEF WorkerPoll
    <3>2. QED
      BY <2>3, <2>10, <3>1 DEF WorkerPoll
  <2>11. CASE WorkerExits(r) \/ WorkerKilled(r)
    BY <2>2, <2>3, <2>11 DEF WorkerExits, WorkerKilled
  <2>12. QED
    BY <1>4, <2>4, <2>5, <2>6, <2>7, <2>8, <2>9, <2>10, <2>11 DEF WorkerStep
<1>5. ASSUME NEW r \in Requests, ScriptStep(r) PROVE EffectInv'
  <2>1. /\ script[r] \in Cmds
        /\ \E s \in {"ok", "failed"} : ScriptDone(r, s)
    BY <1>5 DEF ScriptStep, ScriptStops, ScriptEnables, ScriptStarts, ScriptDisables,
                ScriptFails, ScriptTakesEffect, Cmds
  <2>2. Busy(r) /\ UNCHANGED <<wrk, action, plan, dpc, config>> /\ script'[r] \in {"ok", "failed"}
    BY <2>1 DEF Busy, ScriptDone
  <2>3. CourseOk(r) /\ EffectOk(r)
    BY DEF CourseInv, EffectInv
  <2>4. wrk[r] \in WorkerLives => wrk[r] = script[r]
    BY <2>1, <2>3 DEF CourseOk, Cmds, WorkerLives
  <2> USE DEF CourseOk, EffectOk, Quiet, Stopped, Cmds, WorkerLives, UnderWay, procdVars, ScriptTakesEffect
  <2>5. CASE ScriptStops(r)
    <3>1. Quiet'
      BY <2>2, <2>5, ConstantsAssumption DEF ScriptStops, SupervisionInv
    <3>2. EffectOk(r)'
      BY <2>2, <2>3, <2>4, <2>5, <3>1 DEF ScriptStops
    <3>3. QED
      BY <1>2, <2>2, <3>2
  <2>6. CASE ScriptEnables(r)
    <3>1. wrk[r] = "enable" => config.enabled
      BY <2>3, NoSettingsAssumption DEF OperationInv, OperationOk
    <3>2. EffectOk(r)'
      BY <2>2, <2>3, <2>4, <2>6, <3>1 DEF ScriptEnables, ScriptDone
    <3>3. QED
      BY <1>2, <2>2, <3>2
  <2>7. CASE ScriptStarts(r)
    <3>1. EffectOk(r)'
      BY <2>2, <2>3, <2>4, <2>7 DEF ScriptStarts
    <3>2. QED
      BY <1>2, <2>2, <3>1
  <2>8. CASE ScriptDisables(r)
    <3>1. EffectOk(r)'
      BY <2>2, <2>3, <2>4, <2>8 DEF ScriptDisables
    <3>2. QED
      BY <1>2, <2>2, <3>1
  <2>9. CASE ScriptFails(r)
    <3>1. EffectOk(r)'
      BY <2>2, <2>3, <2>4, <2>9 DEF ScriptFails, ScriptDone
    <3>2. QED
      BY <1>2, <2>2, <3>1
  <2>10. QED
    BY <1>5, <2>5, <2>6, <2>7, <2>8, <2>9 DEF ScriptStep
<1>6. ASSUME NEW p \in Pids, DaemonSide(p) PROVE EffectInv'
  <2>1. UNCHANGED <<bootlink, action, wrk, plan, script>>
    BY <1>6, DaemonFrame
  <2>2. Quiet => Quiet'
    <3> USE ConstantsAssumption DEF Quiet
    <3>1. CASE ProcdSpawns(p)
      BY <3>1 DEF ProcdSpawns
    <3>2. CASE DaemonGone(p)
      BY <3>2 DEF DaemonGone, SupervisionInv
    <3>3. CASE /\ UNCHANGED <<procd, termed>> /\ dpc[p] # "dead"
               /\ \A q \in Pids \ {p} : dpc'[q] = dpc[q]
      BY <3>3
    <3>4. QED
      BY <1>6, <3>1, <3>2, <3>3
         DEF DaemonSide, DaemonStep, DaemonAt, OutsideDaemon, procdVars, DaemonLocks, DaemonRefused,
             DaemonConfigures, DaemonDisabled, DaemonIntroduces, DaemonReady, DaemonTerminates,
             DaemonLastFlush, DaemonExits, DaemonKilled, DaemonHeartbeat, DaemonGivesUp,
             DaemonBuildFails, HealthListenerFails, DaemonLeavesLoop, DaemonCrashes
  <2>3. QED
    BY <2>1, <2>2 DEF EffectInv, EffectOk, Stopped
<1>7. CASE Reboot
  BY <1>7 DEF Reboot, EffectInv, EffectOk, Stopped
<1>8. CASE UNCHANGED vars
  BY <1>1, <1>8 DEF vars, procdVars, daemonVars, workerVars
<1>9. QED
  BY <1>3, <1>4, <1>5, <1>6, <1>7, <1>8, StepCases DEF RequestSide

\* What workers have decided and achieved, and what runtime.json says, in every state.
LEMMA EffectInvariant == Spec => [](CourseInv /\ SupervisionInv /\ EffectInv /\ RuntimeInv)
<1>1. Init => CourseInv /\ SupervisionInv /\ EffectInv /\ RuntimeInv
  BY ConstantsAssumption
     DEF Init, CourseInv, CourseOk, SupervisionInv, EffectInv, EffectOk, RuntimeInv, Stopped,
         UnderWay, Cmds
<1>2. QED
  BY <1>1, CourseInvStep, SupervisionInvStep, EffectInvStep, RuntimeInvStep, TypeCorrect,
     LockInvariant, OperationInvariant, DaemonInvariant, PTL DEF Spec

\* "Service stopped" is final: no instance, no boot link, no daemon that is not ending.
THEOREM StoppedStaysStopped == Spec => []StoppedIsFinal
<1>1. EffectInv => StoppedIsFinal
  BY DEF EffectInv, EffectOk, Stopped, Quiet, StoppedIsFinal
<1>2. QED
  BY <1>1, EffectInvariant, PTL

\* The readiness loop says "running with the saved settings" only of a daemon
\* that holds daemon.lock and runs with them.
THEOREM RunningIsServed == Spec => DoneIsServed
<1> DEFINE P == action'.state = "done" /\ action # action' /\ config.enabled
                  => bootlink /\ \E p \in Pids : Serves(p)
<1>1. ASSUME TypeOK, DaemonInv, OperationInv, CourseInv, EffectInv, RuntimeInv, [Next]_vars
      PROVE  [P]_vars
  <2> SUFFICES ASSUME action'.state = "done", action # action', config.enabled
               PROVE  bootlink /\ \E p \in Pids : Serves(p)
    OBVIOUS
  <2> USE DEF Store, TypeOK
  <2>1. PICK r \in Requests : WorkerScriptOk(r) \/ WorkerPoll(r)
    <3>1. ASSUME NEW r \in Requests, ApiStep(r) PROVE FALSE
      BY <3>1 DEF ApiStep, ApiLock, ApiBusy, ApiDecide, ApiCommit, ApiQueue, ApiSpawn,
                  ApiSpawnFails, ApiEnds
    <3>2. ASSUME NEW r \in Requests, WorkerStep(r) \/ WorkerKilled(r)
          PROVE  WorkerScriptOk(r) \/ WorkerPoll(r)
      BY <3>2 DEF WorkerStep, WorkerBegin, WorkerRunsScript, WorkerScriptFailed, WorkerSeesOldGone,
                  WorkerStopTimeout, WorkerPollTimeout, WorkerExits, WorkerKilled, WorkerGone,
                  WorkerOutcome
    <3>3. ASSUME NEW r \in Requests, ScriptStep(r) PROVE FALSE
      BY <3>3 DEF ScriptStep, ScriptStops, ScriptEnables, ScriptStarts, ScriptDisables,
                  ScriptFails, ScriptTakesEffect, ScriptDone
    <3>4. ASSUME NEW p \in Pids, DaemonSide(p) PROVE FALSE
      BY <3>4, DaemonFrame
    <3>5. CASE Reboot
      BY <3>5 DEF Reboot, NoAction
    <3>6. CASE UNCHANGED vars
      BY <3>6 DEF vars
    <3>7. QED
      BY <1>1, <3>1, <3>2, <3>3, <3>4, <3>5, <3>6, StepCases DEF RequestSide
  <2>2. CourseOk(r) /\ EffectOk(r) /\ OperationOk(r)
    BY <1>1 DEF CourseInv, EffectInv, OperationInv
  <2>3. wrk[r] \in {"disable", "poll"}
    BY <2>1 DEF WorkerScriptOk, WorkerPoll
  <2>4. plan[r] = config
    BY <2>2, <2>3, NoSettingsAssumption
       DEF CourseOk, OperationOk, UnderWay, WorkerLives, Cmds
  <2>5. WorkerPoll(r) /\ wrk[r] = "poll"
    BY <2>1, <2>2, <2>3, <2>4 DEF CourseOk, WorkerScriptOk, WorkerPoll
  <2>6. Ready(r)
    BY <2>5 DEF WorkerPoll
  <2>7. bootlink
    BY <2>2, <2>5 DEF EffectOk
  <2>8. Serves(runtime.pid) /\ runtime.pid \in Pids
    <3>1. runtime.pid \in Pids /\ dpc[runtime.pid] # "dead" /\ runtime.cfg = config
      BY <1>1, <2>4, <2>6 DEF Ready, Alive
    <3>2. dpc[runtime.pid] \in Introduced /\ dlock = runtime.pid /\ dcfg[runtime.pid] = config
      BY <1>1, <3>1 DEF RuntimeInv, DaemonInv, Introduced, DaemonHasLock
    <3>3. CASE runtime.up # {}
      BY <1>1, <3>1, <3>2, <3>3 DEF RuntimeInv, Serves
    <3>4. CASE runtime.up = {}
      <4>1. Wanted(config) = {}
        BY <2>4, <2>6, <3>4 DEF Ready
      <4>2. QED
        BY <3>1, <3>2, <4>1 DEF Serves, Introduced
    <3>5. QED
      BY <3>3, <3>4
  <2>9. QED
    BY <2>7, <2>8
<1>2. QED
  BY <1>1, TypeCorrect, DaemonInvariant, OperationInvariant, EffectInvariant, PTL
     DEF Spec, DoneIsServed
==============================================================================
