--------------------------- MODULE ManagedAddress ---------------------------
(***************************************************************************)
(* The one change the emulator makes to the network: with manage_ip on,    *)
(* the daemon adds the RayNet address if it is absent (prepareAddress),    *)
(* records in managed-ip.json that it did, and may remove it on exit (the  *)
(* closure that prepareAddress returns).  Switching to observe-only        *)
(* removes the record (requestAction, or the next daemon), which makes the *)
(* address the owner's.  The file, the kernel's addresses, the daemon, the *)
(* request and the owner of the router all move independently.             *)
(*                                                                         *)
(* Every "ip addr" command may fail, and may be killed at its limit of 3 s *)
(* after it has had its effect; the caller sees an error in both cases.    *)
(*                                                                         *)
(* Daemons exclude each other (ServiceControl, OneDaemon), so there is one *)
(* daemon here.  An address is a pair of interface and CIDR.               *)
(***************************************************************************)
EXTENDS Naturals

CONSTANTS
  Addrs,            \* addresses the settings may name
  NoAddr,           \* no address: no record, nothing owned
  MaxSaves,         \* bound: requests in a behaviour
  MaxOwnerSteps,    \* bound: changes the owner makes himself in a behaviour
  MaxFaults         \* bound: crashes and failing commands in a behaviour

ASSUME AddressConstants ==
  /\ NoAddr \notin Addrs
  /\ MaxSaves \in Nat /\ MaxOwnerSteps \in Nat /\ MaxFaults \in Nat

Settings == [enabled : BOOLEAN, manage : BOOLEAN, remove : BOOLEAN, want : Addrs]

VARIABLES
  config,           \* the committed settings
  marker,           \* managed-ip.json: the address recorded as added, or NoAddr
  who,              \* who[a]: is a absent, or whose is it: the user's, the
                    \* emulator's, or added by it and kept since it was given up
  dpc,              \* program counter of the daemon
  dcfg,             \* the settings it read
  owned,            \* the address it holds itself to own (captured by cleanup)
  term,             \* it has been told to terminate
  api,              \* the request under way
  kind,             \* and whether it is a start, which stops no daemon first
  saves, ownerSteps, faults,    \* counters of the bounds
  past              \* history: past[a]: "foreign", the emulator has never added a,
                    \* "added", or "disputed" (see Disputes)

vars == <<config, marker, who, dpc, dcfg, owned, term, api, kind, saves, ownerSteps, faults, past>>

Preparing == {"read", "drop", "forget", "probe", "add", "record", "undo"}
Cleaning  == {"exit", "delete", "unmark"}

\* In these states the addresses and the record disagree.
Between == {"forget", "record", "undo", "unmark"}

\* In these the daemon acts on the record it read, or writes the one it decided on.
Committed == {"drop", "record", "undo", "delete"}

\* The address that the daemon is about to change, or to record or forget.
AtStake == IF dpc \in {"record", "undo"} THEN dcfg.want ELSE owned

\* History: an address that the emulator has added is disputed from the moment on
\* that its record and the kernel were set apart in a way no program could repair:
\* a daemon died between the two, a command had its effect and was reported as
\* failed, the undo failed, the owner removed the address, or the record was
\* removed while the daemon was acting on it.  A new record settles it.
Disputes(a) == past' = [past EXCEPT ![a] = IF @ = "foreign" THEN @ ELSE "disputed"]

Fault == faults < MaxFaults /\ faults' = faults + 1

daemonVars == <<dpc, dcfg, owned, term>>
apiVars    == <<config, api, kind, saves, ownerSteps>>

Init ==
  /\ config \in {c \in Settings : c.remove => c.manage}
  /\ marker = NoAddr
  /\ who \in [Addrs -> {"absent", "user"}]
  /\ dpc = "off"
  /\ dcfg = config
  /\ owned = NoAddr
  /\ term = FALSE
  /\ api = "idle"
  /\ kind = "save"
  /\ saves = 0
  /\ ownerSteps = 0
  /\ faults = 0
  /\ past = [a \in Addrs |-> "foreign"]
------------------------------------------------------------------------------
(* The request: requestAction and the worker, as far as addresses go.       *)

\* resolve: without address management the address has to be there.
Resolves(c) == c.manage \/ who[c.want] # "absent"

\* What is given up stays as it is, and is the owner's from now on.
GiveUp == [a \in Addrs |-> IF who[a] = "emulator" THEN "kept" ELSE who[a]]

\* Settings are committed before anything else is touched.
Save ==
  /\ api = "idle"
  /\ saves < MaxSaves
  /\ kind' \in {"save", "start"}
  /\ \E c \in {s \in Settings : s.remove => s.manage} :
       /\ kind' = "start" => c = [config EXCEPT !.enabled = TRUE]
       /\ c.enabled => Resolves(c)
       /\ config' = c
       /\ api' = IF c # config THEN "changed" ELSE "stop"
  /\ saves' = saves + 1
  /\ UNCHANGED <<marker, who, daemonVars, ownerSteps, faults, past>>

\* Observe-only: the record is removed before the old daemon is stopped.
Relinquish ==
  /\ api = "changed"
  /\ \/ /\ ~ config.manage
        /\ marker' = NoAddr
        /\ who' = GiveUp
        /\ IF dpc \in Committed THEN Disputes(AtStake) ELSE UNCHANGED past
     \/ config.manage /\ UNCHANGED <<marker, who, past>>
  /\ api' = "stop"
  /\ UNCHANGED <<config, kind, saves, ownerSteps, daemonVars, faults>>

\* The request is killed before it has removed the record or started a worker.
RequestDies ==
  /\ api \in {"changed", "stop"}
  /\ Fault
  /\ api' = "idle"
  /\ UNCHANGED <<config, kind, saves, ownerSteps, marker, who, daemonVars, past>>

WorkerStops ==
  /\ api = "stop"
  /\ kind = "save"
  /\ api' = "wait"
  /\ term' = (dpc # "off")
  /\ UNCHANGED <<config, kind, saves, ownerSteps, marker, who, dpc, dcfg, owned, faults, past>>

\* A start leaves the daemon that is there alone, whatever it has read.
WorkerSkipsStop ==
  /\ api = "stop"
  /\ kind = "start"
  /\ api' = "idle"
  /\ UNCHANGED <<config, kind, saves, ownerSteps, marker, who, daemonVars, faults, past>>

\* The old daemon is gone; procd may start a daemon again.
WorkerStarts ==
  /\ api = "wait"
  /\ dpc = "off"
  /\ api' = "idle"
  /\ UNCHANGED <<config, kind, saves, ownerSteps, marker, who, daemonVars, faults, past>>
------------------------------------------------------------------------------
(* The daemon: prepareAddress step by step, and its cleanup.                *)

\* runCommand reports an error for "ip addr del": there is no such address, the
\* command fails, or it is killed at its limit after it had its effect.
DeleteFails(a) ==
  \/ who[a] = "absent" /\ UNCHANGED <<who, past, faults>>
  \/ Fault /\ UNCHANGED <<who, past>>
  \/ Fault /\ who' = [who EXCEPT ![a] = "absent"] /\ Disputes(a)

\* The same for "ip addr add", which fails on an address that is there already.
AddFails(a) ==
  \/ who[a] # "absent" /\ UNCHANGED <<who, past, faults>>
  \/ Fault /\ UNCHANGED <<who, past>>
  \/ /\ who[a] = "absent"
     /\ Fault
     /\ who' = [who EXCEPT ![a] = "emulator"]
     /\ past' = [past EXCEPT ![a] = "disputed"]

Goes(from, to) == dpc = from /\ dpc' = to

Ends == dpc' = "off" /\ owned' = NoAddr /\ term' = FALSE /\ UNCHANGED dcfg

DaemonStarts ==
  /\ Goes("off", "read")
  /\ api # "wait"
  /\ config.enabled /\ Resolves(config)
  /\ dcfg' = config
  /\ UNCHANGED <<apiVars, marker, who, owned, term, faults, past>>

\* Observe-only: whatever was recorded is given up.
DaemonObserves ==
  /\ Goes("read", "run")
  /\ ~ dcfg.manage
  /\ marker' = NoAddr
  /\ who' = GiveUp
  /\ UNCHANGED <<apiVars, dcfg, owned, term, faults, past>>

\* Mutant of DaemonReadsMarker: only an address it adds itself is its own.
DaemonIgnoresMarker ==
  /\ Goes("read", "probe")
  /\ dcfg.manage
  /\ UNCHANGED <<apiVars, marker, who, dcfg, owned, term, faults, past>>

DaemonReadsMarker ==
  /\ dpc = "read"
  /\ dcfg.manage
  /\ owned' = marker
  /\ dpc' = IF marker \in {NoAddr, dcfg.want} THEN "probe" ELSE "drop"
  /\ UNCHANGED <<apiVars, marker, who, dcfg, term, faults, past>>

\* "ip addr del" of an address recorded for other settings.
DaemonDropsPrevious ==
  /\ Goes("drop", "forget")
  /\ who[owned] # "absent"
  /\ who' = [who EXCEPT ![owned] = "absent"]
  /\ UNCHANGED <<apiVars, marker, dcfg, owned, term, faults, past>>

\* "cannot remove previous package-owned address"
DaemonCannotDrop ==
  /\ dpc = "drop"
  /\ DeleteFails(owned)
  /\ Ends
  /\ UNCHANGED <<apiVars, marker>>

\* Mutant of DaemonForgetsPrevious: the old record is left in place.
DaemonKeepsRecord ==
  /\ Goes("forget", "probe")
  /\ owned' = NoAddr
  /\ UNCHANGED <<apiVars, marker, who, dcfg, term, faults, past>>

DaemonForgetsPrevious ==
  /\ Goes("forget", "probe")
  /\ marker' = NoAddr
  /\ owned' = NoAddr
  /\ UNCHANGED <<apiVars, who, dcfg, term, faults, past>>

\* Mutant of DaemonProbes: an address that is there already is recorded too.
DaemonClaims ==
  /\ dpc = "probe"
  /\ dpc' = IF who[dcfg.want] = "absent" THEN "add" ELSE "record"
  /\ UNCHANGED <<apiVars, marker, who, dcfg, owned, term, faults, past>>

DaemonProbes ==
  /\ dpc = "probe"
  /\ dpc' = IF who[dcfg.want] = "absent" THEN "add" ELSE "run"
  /\ UNCHANGED <<apiVars, marker, who, dcfg, owned, term, faults, past>>

\* InterfaceByName: the interface has gone since resolve.
DaemonCannotProbe ==
  /\ dpc = "probe"
  /\ Fault
  /\ Ends
  /\ UNCHANGED <<apiVars, marker, who, past>>

DaemonAdds ==
  /\ Goes("add", "record")
  /\ who[dcfg.want] = "absent"
  /\ who' = [who EXCEPT ![dcfg.want] = "emulator"]
  /\ past' = [past EXCEPT ![dcfg.want] = IF @ = "foreign" THEN "added" ELSE @]
  /\ UNCHANGED <<apiVars, marker, dcfg, owned, term, faults>>

\* "cannot add explicitly managed address"
DaemonCannotAdd ==
  /\ dpc = "add"
  /\ AddFails(dcfg.want)
  /\ Ends
  /\ UNCHANGED <<apiVars, marker>>

DaemonRecords ==
  /\ Goes("record", "run")
  /\ marker' = dcfg.want
  /\ owned' = dcfg.want
  /\ past' = IF who[dcfg.want] = "emulator" THEN [past EXCEPT ![dcfg.want] = "added"] ELSE past
  /\ UNCHANGED <<apiVars, who, dcfg, term, faults>>

\* The record cannot be written: the address is taken back.
DaemonCannotRecord ==
  /\ Goes("record", "undo")
  /\ Fault
  /\ UNCHANGED <<apiVars, marker, who, dcfg, owned, term, past>>

\* Mutant of DaemonUndoes: nobody tries to take the address back.
DaemonGivesIn ==
  /\ dpc = "undo"
  /\ Ends
  /\ UNCHANGED <<apiVars, marker, who, faults, past>>

\* The result of this "ip addr del" is not looked at.
DaemonUndoes ==
  /\ dpc = "undo"
  /\ \/ who' = [who EXCEPT ![dcfg.want] = "absent"] /\ UNCHANGED <<past, faults>>
     \/ Fault /\ UNCHANGED who /\ Disputes(dcfg.want)
  /\ Ends
  /\ UNCHANGED <<apiVars, marker>>

\* SIGTERM, which is only looked at here, or any error of the running daemon.
DaemonLeaves ==
  /\ Goes("run", "exit")
  /\ UNCHANGED <<apiVars, marker, who, dcfg, owned, term, faults, past>>

\* Mutant of MayClean: captured ownership alone decides.
MayCleanCaptured == dcfg.manage /\ dcfg.remove /\ owned = dcfg.want

\* Cleanup acts only on what it owned and on a record that still says so.
MayClean == dcfg.manage /\ dcfg.remove /\ owned = dcfg.want /\ marker = owned

DaemonChecksRecord ==
  /\ Goes("exit", "delete")
  /\ MayClean
  /\ UNCHANGED <<apiVars, marker, who, dcfg, owned, term, faults, past>>

DaemonSkipsCleanup ==
  /\ dpc = "exit"
  /\ ~ MayClean
  /\ Ends
  /\ UNCHANGED <<apiVars, marker, who, faults, past>>

DaemonDeletes ==
  /\ Goes("delete", "unmark")
  /\ who[owned] # "absent"
  /\ who' = [who EXCEPT ![owned] = "absent"]
  /\ UNCHANGED <<apiVars, marker, dcfg, owned, term, faults, past>>

\* The record stays.
DaemonCannotDelete ==
  /\ dpc = "delete"
  /\ DeleteFails(owned)
  /\ Ends
  /\ UNCHANGED <<apiVars, marker>>

DaemonUnmarks ==
  /\ dpc = "unmark"
  /\ marker' = NoAddr
  /\ Ends
  /\ UNCHANGED <<apiVars, who, faults, past>>

\* SIGKILL after term_timeout, or a crash.
DaemonDies ==
  /\ dpc # "off"
  /\ Fault
  /\ Ends
  /\ IF dpc \in Between THEN Disputes(AtStake) ELSE UNCHANGED past
  /\ UNCHANGED <<apiVars, marker, who>>
------------------------------------------------------------------------------
(* The owner of the router.                                                *)

OwnerMoves == ownerSteps < MaxOwnerSteps /\ ownerSteps' = ownerSteps + 1

OwnerAdds(a) ==
  /\ who[a] = "absent"
  /\ who' = [who EXCEPT ![a] = "user"]
  /\ OwnerMoves
  /\ UNCHANGED <<config, api, kind, saves, marker, daemonVars, faults, past>>

OwnerRemoves(a) ==
  /\ who[a] # "absent"
  /\ who' = [who EXCEPT ![a] = "absent"]
  /\ IF who[a] = "emulator" THEN Disputes(a) ELSE UNCHANGED past
  /\ OwnerMoves
  /\ UNCHANGED <<config, api, kind, saves, marker, daemonVars, faults>>

DaemonStep ==
  \/ DaemonStarts \/ DaemonObserves \/ DaemonReadsMarker \/ DaemonDropsPrevious
  \/ DaemonCannotDrop \/ DaemonForgetsPrevious \/ DaemonProbes \/ DaemonAdds
  \/ DaemonCannotAdd \/ DaemonRecords \/ DaemonUndoes \/ DaemonChecksRecord
  \/ DaemonSkipsCleanup \/ DaemonDeletes \/ DaemonCannotDelete \/ DaemonUnmarks

\* Steps that nothing forces to happen.
DaemonAccident == DaemonLeaves \/ DaemonCannotProbe \/ DaemonCannotRecord \/ DaemonDies

OwnerStep == \E a \in Addrs : OwnerAdds(a) \/ OwnerRemoves(a)

Next == \/ Save \/ Relinquish \/ RequestDies \/ WorkerStops
        \/ WorkerSkipsStop \/ WorkerStarts
        \/ DaemonStep \/ DaemonAccident
        \/ OwnerStep

Spec == Init /\ [][Next]_vars
------------------------------------------------------------------------------
(* Properties                                                              *)

TypeOK ==
  /\ config \in Settings /\ dcfg \in Settings
  /\ marker \in Addrs \cup {NoAddr} /\ owned \in Addrs \cup {NoAddr}
  /\ who \in [Addrs -> {"absent", "user", "emulator", "kept"}]
  /\ dpc \in Preparing \cup Cleaning \cup {"off", "run"}
  /\ term \in BOOLEAN
  /\ past \in [Addrs -> {"foreign", "added", "disputed"}]
  /\ api \in {"idle", "changed", "stop", "wait"} /\ kind \in {"save", "start"}
  /\ saves \in 0..MaxSaves /\ ownerSteps \in 0..MaxOwnerSteps /\ faults \in 0..MaxFaults

\* An address of the owner's is removed by nobody else (docs/networking.md:38-39).
\* This does not hold: the record of an address that the owner has removed makes the
\* daemon take one that he then configures for its own.
PreexistingAddressKept ==
  [][ \A a \in Addrs : who[a] = "user" /\ who'[a] # "user" => OwnerRemoves(a) ]_vars

\* It holds of every address that is not disputed, and so of all that the emulator has
\* never added itself, whatever matched the settings, crashed, failed or overlapped.
ConfiguredAddressKept ==
  [][ \A a \in Addrs :
        who[a] = "user" /\ who'[a] # "user" /\ past[a] # "disputed" => OwnerRemoves(a) ]_vars

\* After a switch to observe-only nothing removes the address any more but its
\* owner: ownership is given up before the old daemon is stopped (daemon.go:735).
\* This does not hold of a daemon that is acting on the record at that moment.
RelinquishedAddressKept ==
  [][ \A a \in Addrs : who[a] = "kept" /\ who'[a] # "kept" => OwnerRemoves(a) ]_vars

\* It holds whenever the record was removed at any other point of the daemon's course:
\* the cleanup rereads the record, and a starting daemon cannot have claimed it yet.
GivenUpAddressKept ==
  [][ \A a \in Addrs :
        who[a] = "kept" /\ who'[a] # "kept" /\ past[a] # "disputed" => OwnerRemoves(a) ]_vars

\* The record and the kernel agree on whose an address is: what the emulator has added
\* is on record, so that a later daemon can find and remove it, and the record names
\* nothing of the owner's; except for an address that is in dispute.
RecordMatchesKernel ==
  dpc \notin Between =>
    \A a \in Addrs : past[a] # "disputed" => (who[a] = "emulator" <=> marker = a)

\* A daemon that is to remove its address on stop and ends by itself leaves no
\* address of the emulator's behind, even if an earlier daemon had added it.
CleanExitRemovesAddress ==
  [][ (DaemonSkipsCleanup \/ DaemonUnmarks) /\ dcfg.remove /\ past[dcfg.want] # "disputed" =>
        who'[dcfg.want] # "emulator" ]_vars

\* The steps of the daemon up to its main loop and of its cleanup are bounded by
\* command time-outs, procd starts it again, and the worker stops a daemon that
\* it has told to.
Fairness == /\ WF_vars(DaemonStep) /\ WF_vars(DaemonLeaves /\ term)
            /\ WF_vars(Relinquish) /\ WF_vars(WorkerStops)
            /\ WF_vars(WorkerSkipsStop) /\ WF_vars(WorkerStarts)

FairSpec == Spec /\ Fairness

\* With address management on, the daemon gets to its main loop whatever record
\* an earlier one left, unless that names an address in dispute: a record of an
\* address that is gone stops every daemon with other settings.
ManagedDaemonRuns ==
  (config.enabled /\ config.manage) ~>
     \/ dpc = "run" \/ ~ config.enabled \/ ~ config.manage
     \/ marker # NoAddr /\ past[marker] = "disputed"
==============================================================================
