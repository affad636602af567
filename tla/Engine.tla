------------------------------- MODULE Engine -------------------------------
(***************************************************************************)
(* The goroutines of the discovery engine from buildEngine to the return   *)
(* of runDaemon: one read loop per mDNS socket, the announcer, and the     *)
(* main goroutine, which watches the context and, on its way out, closes   *)
(* the sockets and waits for the others.  Any of them can fail and so stop *)
(* the engine; a read loop also sends on the sockets of the others.        *)
(* What datagrams say, and who answers them, is in module Discovery; the   *)
(* life of the daemon's process around this is in ServiceControl.          *)
(***************************************************************************)
EXTENDS Naturals

CONSTANTS
  Eps,              \* endpoints, one mDNS socket each
  Axiom,            \* the one on the RayNet side
  MaxFaults         \* bound: failing system calls and network changes

ASSUME EngineConstants == Axiom \in Eps /\ MaxFaults \in Nat

VARIABLES
  main,             \* program counter of runDaemon
  result,           \* what it returns: "none" so far, "nil" or "error"
  asked,            \* SIGTERM has arrived (the outer context)
  cancelled,        \* the context of the engine is done
  conn,             \* conn[e]: the socket of e
  reader,           \* reader[e]: program counter of the read loop of e
  relayTo,          \* relayTo[e]: endpoints it has still to relay its datagram to
  announcer,        \* program counter of the announcer
  announceTo,       \* endpoints it has still to announce on
  failed,           \* engine.fail has been called (Runtime.Error)
  faults            \* faults so far

mainVars     == <<main, result, asked, conn>>
readerVars   == <<reader, relayTo>>
announceVars == <<announcer, announceTo>>
vars == <<mainVars, readerVars, announceVars, cancelled, failed, faults>>

Fault == faults < MaxFaults /\ faults' = faults + 1

\* engine.fail: the error is recorded and the context cancelled.
Fail == failed' = TRUE /\ cancelled' = TRUE

\* A send on e fails: its socket is closed, or the system call fails.
SendFails(e) == (conn[e] = "closed" /\ UNCHANGED faults) \/ Fault

Init ==
  /\ main = "build" /\ result = "none"
  /\ asked = FALSE /\ cancelled = FALSE
  /\ conn = [e \in Eps |-> "none"]
  /\ reader = [e \in Eps |-> "none"] /\ relayTo = [e \in Eps |-> {}]
  /\ announcer = "none" /\ announceTo = {}
  /\ failed = FALSE
  /\ faults = 0
------------------------------------------------------------------------------
(* The main goroutine.                                                     *)

\* SIGTERM cancels the outer context and with it the engine's.
Terminate ==
  /\ main # "returned"
  /\ ~ asked
  /\ asked' = TRUE
  /\ cancelled' = TRUE
  /\ UNCHANGED <<main, result, conn, readerVars, announceVars, failed, faults>>

BuildOpens(e) ==
  /\ main = "build"
  /\ conn[e] = "none"
  /\ conn' = [conn EXCEPT ![e] = "open"]
  /\ UNCHANGED <<main, result, asked, readerVars, announceVars, cancelled, failed, faults>>

\* A socket cannot be opened: what has been opened is closed again.
BuildFails ==
  /\ main = "build"
  /\ Fault
  /\ main' = "close"
  /\ result' = "error"
  /\ cancelled' = TRUE
  /\ UNCHANGED <<asked, conn, readerVars, announceVars, failed>>

\* engine.start: the announcer begins with an announcement.
Starts ==
  /\ main = "build"
  /\ \A e \in Eps : conn[e] = "open"
  /\ main' = "loop"
  /\ reader' = [e \in Eps |-> "reading"]
  /\ announcer' = "announcing"
  /\ announceTo' = Eps
  /\ UNCHANGED <<result, asked, conn, relayTo, cancelled, failed, faults>>

\* Mutant of MainStops: the engine's context is not told from the outer one.
MainStopsAlarmed ==
  /\ main = "loop"
  /\ cancelled
  /\ main' = "close"
  /\ result' \in IF asked THEN {"nil", "error"} ELSE {"error"}
  /\ UNCHANGED <<asked, conn, readerVars, announceVars, cancelled, failed, faults>>

\* The main loop sees one of the two contexts done, whichever select takes.
MainStops ==
  /\ main = "loop"
  /\ cancelled
  /\ main' = "close"
  /\ result' = IF asked THEN "nil" ELSE "error"
  /\ UNCHANGED <<asked, conn, readerVars, announceVars, cancelled, failed, faults>>

\* No health listener, or networks or discovery have changed: cancel and return.
MainGivesUp ==
  /\ main = "loop"
  /\ Fault
  /\ main' = "close"
  /\ result' = "error"
  /\ cancelled' = TRUE
  /\ UNCHANGED <<asked, conn, readerVars, announceVars, failed>>

\* engine.close: a goodbye, of which the outcome does not matter, and Close.
CloseEndpoint(e) ==
  /\ main = "close"
  /\ conn[e] = "open"
  /\ conn' = [conn EXCEPT ![e] = "closed"]
  /\ UNCHANGED <<main, result, asked, readerVars, announceVars, cancelled, failed, faults>>

\* Mutant of AllClosed: the sockets are to be closed after the wait.
NoneClosed == TRUE

AllClosed == \A e \in Eps : conn[e] # "open"

Waits ==
  /\ main = "close"
  /\ AllClosed
  /\ main' = "wait"
  /\ UNCHANGED <<result, asked, conn, readerVars, announceVars, cancelled, failed, faults>>

\* Mutant of AllDone: the announcer is not in the wait group.
ReadersDone == \A e \in Eps : reader[e] \in {"none", "done"}

\* wg.Wait: every goroutine that was started has ended.
AllDone ==
  /\ \A e \in Eps : reader[e] \in {"none", "done"}
  /\ announcer \in {"none", "done"}

\* The last flush and the other deferred calls follow.
Returns ==
  /\ main = "wait"
  /\ AllDone
  /\ main' = "returned"
  /\ UNCHANGED <<result, asked, conn, readerVars, announceVars, cancelled, failed, faults>>
------------------------------------------------------------------------------
(* A read loop.                                                            *)

\* What comes from the RayNet side goes to all others, and theirs goes there.
Opposite(e) == IF e = Axiom THEN Eps \ {Axiom} ELSE {Axiom}

\* A datagram, which may have to be relayed; the context is not looked at.
Reads(e) ==
  /\ reader[e] = "reading"
  /\ conn[e] = "open"
  /\ reader' = [reader EXCEPT ![e] = "handling"]
  /\ \E T \in {{}, Opposite(e)} : relayTo' = [relayTo EXCEPT ![e] = T]
  /\ UNCHANGED <<mainVars, announceVars, cancelled, failed, faults>>

Relays(e, t) ==
  /\ reader[e] = "handling"
  /\ t \in relayTo[e]
  /\ conn[t] = "open"
  /\ relayTo' = [relayTo EXCEPT ![e] = relayTo[e] \ {t}]
  /\ UNCHANGED <<mainVars, reader, announceVars, cancelled, failed, faults>>

RelayFails(e, t) ==
  /\ reader[e] = "handling"
  /\ t \in relayTo[e]
  /\ SendFails(t)
  /\ Fail
  /\ reader' = [reader EXCEPT ![e] = "done"]
  /\ relayTo' = [relayTo EXCEPT ![e] = {}]
  /\ UNCHANGED <<mainVars, announceVars>>

ReadsOn(e) ==
  /\ reader[e] = "handling"
  /\ relayTo[e] = {}
  /\ reader' = [reader EXCEPT ![e] = "reading"]
  /\ UNCHANGED <<mainVars, relayTo, announceVars, cancelled, failed, faults>>

\* The read times out or fails: the context is done.
ReaderStops(e) ==
  /\ reader[e] = "reading"
  /\ cancelled
  /\ reader' = [reader EXCEPT ![e] = "done"]
  /\ UNCHANGED <<mainVars, relayTo, announceVars, cancelled, failed, faults>>

\* Mutant of ReaderFails: the error is recorded, the context left alone.
ReaderFailsQuietly(e) ==
  /\ reader[e] = "reading"
  /\ ~ cancelled
  /\ SendFails(e)
  /\ failed' = TRUE
  /\ reader' = [reader EXCEPT ![e] = "done"]
  /\ UNCHANGED <<mainVars, relayTo, announceVars, cancelled>>

\* The read fails, not by a time-out, while the context is not done.
ReaderFails(e) ==
  /\ reader[e] = "reading"
  /\ ~ cancelled
  /\ SendFails(e)
  /\ Fail
  /\ reader' = [reader EXCEPT ![e] = "done"]
  /\ UNCHANGED <<mainVars, relayTo, announceVars>>
------------------------------------------------------------------------------
(* The announcer.                                                          *)

\* A timer; with the context done as well, select may take either.
Timer ==
  /\ announcer = "waiting"
  /\ announcer' = "announcing"
  /\ \E T \in {{}, Eps} : announceTo' = T
  /\ UNCHANGED <<mainVars, readerVars, cancelled, failed, faults>>

Announces(e) ==
  /\ announcer = "announcing"
  /\ e \in announceTo
  /\ conn[e] = "open"
  /\ announceTo' = announceTo \ {e}
  /\ UNCHANGED <<mainVars, readerVars, announcer, cancelled, failed, faults>>

AnnounceFails(e) ==
  /\ announcer = "announcing"
  /\ e \in announceTo
  /\ SendFails(e)
  /\ Fail
  /\ announcer' = "waiting"
  /\ announceTo' = {}
  /\ UNCHANGED <<mainVars, readerVars>>

Announced ==
  /\ announcer = "announcing"
  /\ announceTo = {}
  /\ announcer' = "waiting"
  /\ UNCHANGED <<mainVars, readerVars, announceTo, cancelled, failed, faults>>

AnnouncerStops ==
  /\ announcer = "waiting"
  /\ cancelled
  /\ announcer' = "done"
  /\ UNCHANGED <<mainVars, readerVars, announceTo, cancelled, failed, faults>>
------------------------------------------------------------------------------
MainStep == \/ \E e \in Eps : BuildOpens(e) \/ CloseEndpoint(e)
            \/ Starts \/ MainStops \/ Waits \/ Returns

ReaderStep(e) == \/ \E t \in Eps : Relays(e, t) \/ RelayFails(e, t)
                 \/ ReadsOn(e) \/ ReaderStops(e)

AnnouncerStep == \/ \E e \in Eps : Announces(e) \/ AnnounceFails(e)
                 \/ Announced

Next == \/ MainStep \/ Terminate \/ BuildFails \/ MainGivesUp
        \/ \E e \in Eps : Reads(e) \/ ReaderStep(e) \/ ReaderFails(e)
        \/ AnnouncerStep \/ Timer \/ AnnouncerStops

Spec == Init /\ [][Next]_vars

\* Sends and reads have deadlines of a second, and select takes every ready case
\* sooner or later.  Datagrams, timers, signals and faults are not promised.
Fairness ==
  /\ WF_vars(MainStep)
  /\ \A e \in Eps : WF_vars(ReaderStep(e))
  /\ WF_vars(AnnouncerStep) /\ SF_vars(AnnouncerStops)

FairSpec == Spec /\ Fairness
------------------------------------------------------------------------------
(* Properties                                                              *)

TypeOK ==
  /\ main \in {"build", "loop", "close", "wait", "returned"}
  /\ result \in {"none", "nil", "error"}
  /\ asked \in BOOLEAN /\ cancelled \in BOOLEAN /\ failed \in BOOLEAN
  /\ conn \in [Eps -> {"none", "open", "closed"}]
  /\ reader \in [Eps -> {"none", "reading", "handling", "done"}]
  /\ relayTo \in [Eps -> SUBSET Eps]
  /\ announcer \in {"none", "waiting", "announcing", "done"}
  /\ announceTo \in SUBSET Eps
  /\ faults \in 0..MaxFaults

\* When runDaemon goes on to its last flush of runtime.json, no goroutine of the
\* engine is left that could still change what it says, and no socket is held.
NothingOutlivesMain ==
  main = "returned" =>
    /\ \A e \in Eps : conn[e] # "open" /\ reader[e] \in {"none", "done"}
    /\ announcer \in {"none", "done"}

\* A stop that was asked for is no failure: without a fault runDaemon returns no
\* error, and no failure of the engine is recorded while it is in service.
NoFalseAlarm ==
  result = "error" \/ (failed /\ main \in {"build", "loop"}) => faults > 0

\* An engine that is to stop does stop, and runDaemon returns, however many
\* datagrams and timers keep the goroutines busy.
EngineStops == cancelled ~> main = "returned"

\* A failure of any goroutine ends the daemon, so that procd can replace it.
FailureEndsDaemon == failed ~> main = "returned"
==============================================================================
