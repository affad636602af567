---------------------------- MODULE SettingsStore ----------------------------
(***************************************************************************)
(* How a request writes the settings (writeSettings, atomicWrite).         *)
(*                                                                         *)
(* The new file is made by uci in a staging directory, read back and       *)
(* compared with what was asked for; then the old contents are put under   *)
(* .previous and the new ones under the settings' name, each through a     *)
(* temporary file that is written, synced and renamed, with a sync of the  *)
(* directory.  The process may be killed at any step (its caller's 8 s),   *)
(* and the power may fail: what a renamed name refers to afterwards is     *)
(* uncertain until the directory has reached the flash.  The error of the  *)
(* sync of the directory is ignored; one that succeeds is taken to have    *)
(* done its work.                                                          *)
(*                                                                         *)
(* action.lock keeps writers apart (ServiceControl), so one is enough.     *)
(***************************************************************************)
EXTENDS Naturals

CONSTANTS
  Settings,      \* contents that settingsFrom reads and validates
  Garbled,       \* any other contents
  NoFile,        \* a name that does not exist
  MaxFaults      \* bound: kills, power failures, failed syncs and lost requests

ASSUME StoreAssumption ==
  /\ Garbled \notin Settings
  /\ NoFile \notin Settings \cup {Garbled}
  /\ MaxFaults \in Nat

VARIABLES
  now,           \* now[n]: the contents that processes find under name n
  maybe,         \* maybe[n]: the contents that a power failure may leave there
  wpc,           \* what the writing process is at
  dest,          \* the name that atomicWrite is called for
  target,        \* the settings to be saved
  old,           \* the contents read at the start
  staged,        \* what uci has made of them in the staging directory
  tmp,           \* the temporary file: [data, synced]
  sound,         \* history: the last sync of the directory has succeeded
  faults

writer     == <<wpc, dest, target, old, staged, tmp>>
storeVars  == <<now, maybe, writer, sound>>

Names    == {"file", "previous"}
Contents == Settings \cup {Garbled}
CanFail  == {"stage", "verify", "write", "sync", "rename"}
Phases   == CanFail \cup {"settle", "done"}

Fault == faults < MaxFaults /\ faults' = faults + 1

StoreInit ==
  /\ \E c \in Settings : now = [n \in Names |-> IF n = "file" THEN c ELSE NoFile]
  /\ maybe = [n \in Names |-> {now[n]}]
  /\ wpc = "idle"
  /\ dest = "previous"
  /\ target = NoFile /\ old = NoFile /\ staged = NoFile
  /\ tmp = [data |-> NoFile, synced |-> FALSE]
  /\ sound = TRUE
  /\ faults = 0

\* validateSettings has passed; the file is read and copied to the stage.
StoreBegins(c) ==
  /\ wpc = "idle"
  /\ wpc' = "stage"
  /\ target' = c
  /\ old' = now["file"]
  /\ UNCHANGED <<now, maybe, dest, staged, tmp, sound>>

\* uci batch, in a directory of its own.
StoreStages ==
  /\ wpc = "stage"
  /\ wpc' = "verify"
  /\ staged' \in {target, Garbled}
  /\ UNCHANGED <<now, maybe, dest, target, old, tmp, sound>>

\* Mutant of StoreVerifies: what uci made is not compared with what was asked for.
StoreVerifiesNothing ==
  /\ wpc = "verify"
  /\ wpc' = "write" /\ dest' = "previous"
  /\ UNCHANGED <<now, maybe, target, old, staged, tmp, sound>>

\* "UCI round-trip verification failed" is one of the failures of StoreStops.
StoreVerifies ==
  /\ wpc = "verify"
  /\ staged = target
  /\ wpc' = "write" /\ dest' = "previous"
  /\ UNCHANGED <<now, maybe, target, old, staged, tmp, sound>>

StoreWrites ==
  /\ wpc = "write"
  /\ wpc' = "sync"
  /\ tmp' = [data |-> IF dest = "previous" THEN old ELSE staged, synced |-> FALSE]
  /\ UNCHANGED <<now, maybe, dest, target, old, staged, sound>>

StoreSyncs ==
  /\ wpc = "sync"
  /\ wpc' = "rename"
  /\ tmp' = [tmp EXCEPT !.synced = TRUE]
  /\ UNCHANGED <<now, maybe, dest, target, old, staged, sound>>

\* A file that is not on the flash when its name is may be found empty.
StoreRenames ==
  /\ wpc = "rename"
  /\ wpc' = "settle"
  /\ now' = [now EXCEPT ![dest] = tmp.data]
  /\ maybe' = [maybe EXCEPT ![dest] =
                 @ \cup {tmp.data} \cup IF tmp.synced THEN {} ELSE {Garbled}]
  /\ UNCHANGED <<dest, target, old, staged, tmp, sound>>

\* After a name's directory: the settings' own name, or the end.
Proceeds ==
  \/ dest = "previous" /\ wpc' = "write" /\ dest' = "file"
  \/ dest = "file" /\ wpc' = "done" /\ UNCHANGED dest

\* The sync of the directory, which holds both names.
StoreSettles ==
  /\ wpc = "settle"
  /\ maybe' = [n \in Names |-> {now[n]}]
  /\ sound' = TRUE
  /\ Proceeds
  /\ UNCHANGED <<now, target, old, staged, tmp>>

\* The directory cannot be opened or its sync fails: atomicWrite goes on.
StoreSettlesNothing ==
  /\ wpc = "settle"
  /\ Fault
  /\ sound' = FALSE
  /\ Proceeds
  /\ UNCHANGED <<now, maybe, target, old, staged, tmp>>

\* writeSettings returns without an error.
StoreReturns ==
  /\ wpc = "done"
  /\ wpc' = "idle"
  /\ UNCHANGED <<now, maybe, dest, target, old, staged, tmp, sound>>

\* An error return of a step that may fail, or a kill.
StoreStops ==
  /\ \/ wpc \in CanFail /\ UNCHANGED faults
     \/ wpc \in Phases /\ Fault
  /\ wpc' = "idle"
  /\ UNCHANGED <<now, maybe, dest, target, old, staged, tmp, sound>>

\* The kernel writes a directory entry back in its own time.
Writeback ==
  /\ \E n \in Names : maybe' = [maybe EXCEPT ![n] = {now[n]}]
  /\ UNCHANGED <<now, writer, sound>>

PowerLoss ==
  /\ Fault
  /\ \E f \in maybe["file"], p \in maybe["previous"] :
       /\ now' = [n \in Names |-> IF n = "file" THEN f ELSE p]
       /\ maybe' = [n \in Names |-> {now'[n]}]
  /\ wpc' = "idle"
  /\ sound' = TRUE
  /\ UNCHANGED <<dest, target, old, staged, tmp>>

StoreWorks == \/ StoreStages \/ StoreVerifies \/ StoreWrites \/ StoreSyncs
              \/ StoreRenames \/ StoreSettles

StoreNext ==
  \/ \E c \in Settings : StoreBegins(c) /\ UNCHANGED faults
  \/ (StoreWorks \/ StoreReturns \/ Writeback) /\ UNCHANGED faults
  \/ StoreSettlesNothing
  \/ StoreStops
  \/ PowerLoss

StoreSpec == StoreInit /\ [][StoreNext]_<<storeVars, faults>>
------------------------------------------------------------------------------
\* Every variable has its type.
StoreTypeOK ==
  /\ now \in [Names -> Contents \cup {NoFile}]
  /\ maybe \in [Names -> SUBSET (Contents \cup {NoFile})]
  /\ wpc \in Phases \cup {"idle"}
  /\ dest \in Names
  /\ target \in Settings \cup {NoFile}
  /\ old \in Contents \cup {NoFile}
  /\ staged \in Contents \cup {NoFile}
  /\ tmp \in [data : Contents \cup {NoFile}, synced : BOOLEAN]
  /\ sound \in BOOLEAN
  /\ faults \in 0..MaxFaults

SF == INSTANCE SettingsFile WITH
        file    <- now["file"],
        backup  <- now["previous"],
        durable <- maybe["file"] \X maybe["previous"],
        asked   <- IF wpc = "idle" THEN NoFile ELSE target,
        sound   <- sound

\* A save is atomic whatever it is interrupted by, and permanent unless the flash
\* fails: the steps of writeSettings on two names, a stage and temporary files
\* implement SettingsFile.
ImplementsSettingsFile == SF!Spec
==============================================================================
