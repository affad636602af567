--------------------------- MODULE SettingsProofs ---------------------------
(***************************************************************************)
(* Proofs about SettingsStore and SettingsPage.                            *)
(*                                                                         *)
(* The store: types, and that writeSettings implements SettingsFile, with  *)
(* any number of kills, power failures and failed syncs.  The argument is  *)
(* the order of the steps: the settings' own name is renamed only while    *)
(* the copy of what it replaces is in place, and on the flash if the last  *)
(* sync has succeeded (CopyIsSafe), and a request returns only when the    *)
(* new contents are (DoneIsSafe).                                          *)
(*                                                                         *)
(* The page: types, that what was confirmed stays, that a draft is the     *)
(* user's, and that the page's requests use the store as SettingsFile has  *)
(* it.  The argument for what was confirmed: every set of settings that    *)
(* can still get to the file agrees with it, which are those that the      *)
(* flash may hold, those being written, those being posted, those of a     *)
(* post that was given up, and those on the page or on their way to it as  *)
(* long as they can be posted.                                             *)
(***************************************************************************)
EXTENDS SettingsPage, TLAPS

svars == <<storeVars, faults>>

USE DEF Names

\* Whatever a power failure may leave is one complete set of settings.
FlashIsComplete ==
  /\ now["file"] \in Settings
  /\ \A n \in Names : now[n] \in maybe[n]
  /\ maybe["file"] \subseteq Settings
  /\ maybe["previous"] \subseteq Settings \cup {NoFile}

\* The name that the file at hand will get, while it has contents.
Preparing == {"write", "sync", "rename", "settle"}

\* What the request holds is what it read and what it was asked for.
HoldsItsData ==
  /\ wpc \in Phases => target \in Settings
  /\ wpc \in Preparing => staged = target
  /\ wpc \in {"stage", "verify"} => old = now["file"]
  /\ wpc \in {"write", "sync", "rename"} => old = now["file"]
  /\ wpc \in {"sync", "rename"} => tmp.data = IF dest = "previous" THEN old ELSE staged
  /\ wpc = "rename" => tmp.synced

Settled == \A n \in Names : maybe[n] = {now[n]}

CopyIsSafe ==
  wpc \in {"write", "sync", "rename"} /\ dest = "file" =>
    now["previous"] = now["file"] /\ (sound => Settled)

CopyIsMade == wpc = "settle" /\ dest = "previous" => now["previous"] = now["file"] /\ old = now["file"]

DoneIsSafe ==
  /\ wpc = "settle" /\ dest = "file" => now["file"] = target
  /\ wpc = "done" => now["file"] = target /\ (sound => Settled)

StoreInv ==
  /\ StoreTypeOK
  /\ FlashIsComplete
  /\ HoldsItsData
  /\ CopyIsSafe
  /\ CopyIsMade
  /\ DoneIsSafe
------------------------------------------------------------------------------
LEMMA InitHolds == ASSUME StoreInit PROVE StoreInv
  <1> USE StoreAssumption DEF StoreInit, Contents
  <1>1. PICK c \in Settings : now = [n \in Names |-> IF n = "file" THEN c ELSE NoFile]
    BY DEF StoreInit
  <1>2. /\ now["file"] = c /\ now["previous"] = NoFile
        /\ maybe["file"] = {c} /\ maybe["previous"] = {NoFile}
    BY <1>1
  <1>3. now \in [Names -> Contents \cup {NoFile}] /\ maybe \in [Names -> SUBSET (Contents \cup {NoFile})]
    BY <1>1
  <1>4. StoreTypeOK
    BY <1>3 DEF StoreTypeOK
  <1>5. QED
    BY <1>2, <1>4 DEF StoreInv, FlashIsComplete, HoldsItsData, CopyIsSafe, CopyIsMade, DoneIsSafe,
                      Preparing, Phases, CanFail

LEMMA StepHolds == ASSUME StoreInv, [StoreNext]_svars PROVE StoreInv'
  <1> USE StoreAssumption
  <1> USE DEF StoreInv, StoreTypeOK, FlashIsComplete, HoldsItsData, CopyIsSafe, CopyIsMade,
              DoneIsSafe, Settled, Preparing, Phases, CanFail, Contents
  <1>1. ASSUME NEW c \in Settings, StoreBegins(c), UNCHANGED faults PROVE StoreInv'
    BY <1>1 DEF StoreBegins
  <1>2. ASSUME StoreStages, UNCHANGED faults PROVE StoreInv'
    BY <1>2 DEF StoreStages
  <1>3. ASSUME StoreVerifies, UNCHANGED faults PROVE StoreInv'
    BY <1>3 DEF StoreVerifies
  <1>4. ASSUME StoreWrites, UNCHANGED faults PROVE StoreInv'
    BY <1>4 DEF StoreWrites
  <1>5. ASSUME StoreSyncs, UNCHANGED faults PROVE StoreInv'
    BY <1>5 DEF StoreSyncs
  <1>6. ASSUME StoreRenames, UNCHANGED faults PROVE StoreInv'
    <2>1. CASE dest = "previous"
      BY <1>6, <2>1 DEF StoreRenames
    <2>2. CASE dest = "file"
      BY <1>6, <2>2 DEF StoreRenames
    <2>3. QED
      BY <2>1, <2>2
  <1>7. ASSUME StoreSettles, UNCHANGED faults PROVE StoreInv'
    BY <1>7 DEF StoreSettles, Proceeds
  <1>7a. ASSUME StoreSettlesNothing PROVE StoreInv'
    <2>1. /\ wpc = "settle" /\ sound' = FALSE /\ faults' \in 0..MaxFaults
          /\ UNCHANGED <<now, maybe, target, old, staged, tmp>>
      BY <1>7a DEF StoreSettlesNothing, Fault
    <2>2. CASE dest = "previous"
      <3>1. wpc' = "write" /\ dest' = "file"
        BY <1>7a, <2>2 DEF StoreSettlesNothing, Proceeds
      <3>2. QED
        BY <2>1, <2>2, <3>1
    <2>3. CASE dest = "file"
      <3>1. wpc' = "done" /\ dest' = dest
        BY <1>7a, <2>3 DEF StoreSettlesNothing, Proceeds
      <3>2. QED
        BY <2>1, <2>3, <3>1
    <2>4. QED
      BY <2>2, <2>3
  <1>8. ASSUME StoreReturns, UNCHANGED faults PROVE StoreInv'
    BY <1>8 DEF StoreReturns
  <1>9. ASSUME StoreStops PROVE StoreInv'
    BY <1>9 DEF StoreStops, Fault
  <1>10. ASSUME Writeback, UNCHANGED faults PROVE StoreInv'
    <2>1. PICK n \in Names : maybe' = [maybe EXCEPT ![n] = {now[n]}]
      BY <1>10 DEF Writeback
    <2>2. UNCHANGED <<now, writer, sound>>
      BY <1>10 DEF Writeback
    <2>3. QED
      BY <2>1, <2>2, <1>10 DEF writer
  <1>11. ASSUME PowerLoss PROVE StoreInv'
    <2>1. PICK f \in maybe["file"], p \in maybe["previous"] :
            /\ now' = [n \in Names |-> IF n = "file" THEN f ELSE p]
            /\ maybe' = [n \in Names |-> {now'[n]}]
      BY <1>11 DEF PowerLoss
    <2>2. /\ now'["file"] = f /\ now'["previous"] = p
          /\ maybe'["file"] = {f} /\ maybe'["previous"] = {p}
      BY <2>1
    <2>3. f \in Settings /\ p \in Settings \cup {NoFile}
      OBVIOUS
    <2>4. /\ now' \in [Names -> Contents \cup {NoFile}]
          /\ maybe' \in [Names -> SUBSET (Contents \cup {NoFile})]
      BY <2>1, <2>3
    <2>5. QED
      BY <2>2, <2>3, <2>4, <1>11 DEF PowerLoss, Fault
  <1>12. ASSUME UNCHANGED svars PROVE StoreInv'
    BY <1>12 DEF svars, storeVars, writer
  <1>13. QED
    BY <1>1, <1>2, <1>3, <1>4, <1>5, <1>6, <1>7, <1>8, <1>9, <1>10, <1>11, <1>12, <1>7a
       DEF StoreNext, StoreWorks

\* The invariant of the store: types and the order of its steps.
THEOREM StoreInvariant == StoreSpec => []StoreInv
  <1>1. StoreInit => StoreInv
    BY InitHolds
  <1>2. StoreInv /\ [StoreNext]_svars => StoreInv'
    BY StepHolds
  <1>3. QED
    BY <1>1, <1>2, PTL DEF StoreSpec, svars

\* Every variable of the store has its type.
THEOREM TypeCorrect == StoreSpec => []StoreTypeOK
  <1>1. StoreInv => StoreTypeOK
    BY DEF StoreInv
  <1>2. QED
    BY <1>1, StoreInvariant, PTL

\* Whatever a writing process is interrupted by, and whatever a power failure
\* leaves, the settings file is one complete set of settings.
THEOREM SettingsAreComplete == StoreSpec => []FlashIsComplete
  <1>1. StoreInv => FlashIsComplete
    BY DEF StoreInv
  <1>2. QED
    BY <1>1, StoreInvariant, PTL
------------------------------------------------------------------------------
(* Refinement.  The barred variables of SettingsFile.                      *)

File    == now["file"]
Backup  == now["previous"]
Durable == maybe["file"] \X maybe["previous"]
Asked   == IF wpc = "idle" THEN NoFile ELSE target

LEMMA InitImplements == ASSUME StoreInit PROVE SF!Init
  <1>1. PICK c \in Settings : now = [n \in Names |-> IF n = "file" THEN c ELSE NoFile]
    BY DEF StoreInit
  <1>2. /\ now["file"] = c /\ now["previous"] = NoFile
        /\ maybe["file"] = {c} /\ maybe["previous"] = {NoFile}
    BY <1>1 DEF StoreInit
  <1>3. {c} \X {NoFile} = {<<c, NoFile>>}
    OBVIOUS
  <1>4. QED
    BY <1>2, <1>3 DEF StoreInit, SF!Init

\* A step that leaves file, backup and request alone may only settle the flash.
LEMMA Settling ==
  ASSUME StoreInv, Asked' = Asked, now' = now,
         \A n \in Names : maybe'[n] \subseteq maybe[n] /\ now[n] \in maybe'[n],
         sound' \in BOOLEAN, sound' => sound \/ \A n \in Names : maybe'[n] = {now[n]}
  PROVE  SF!Settle
  <1>1. Durable' \subseteq Durable
    BY DEF Durable
  <1>2. <<File, Backup>> \in Durable'
    BY DEF Durable, File, Backup
  <1>3. (\A n \in Names : maybe'[n] = {now[n]}) => Durable' = {<<File, Backup>>}
    BY DEF Durable, File, Backup
  <1>4. QED
    BY <1>1, <1>2, <1>3 DEF SF!Settle, Durable, File, Backup, Asked

LEMMA StepImplements == ASSUME StoreInv, [StoreNext]_svars PROVE [SF!Next]_SF!vars
  <1> USE StoreAssumption
  <1> USE DEF Phases, CanFail
  <1>1. ASSUME NEW c \in Settings, StoreBegins(c) PROVE SF!Next
    <2>1. SF!Ask(c)
      BY <1>1 DEF SF!Ask, StoreBegins
    <2>2. QED
      BY <2>1 DEF SF!Next
  <1>2. ASSUME StoreStages \/ StoreVerifies \/ StoreWrites \/ StoreSyncs PROVE UNCHANGED SF!vars
    BY <1>2 DEF SF!vars, StoreStages, StoreVerifies, StoreWrites, StoreSyncs
  <1>3. ASSUME StoreRenames PROVE SF!Next
    <2> USE DEF StoreInv, StoreTypeOK, FlashIsComplete, HoldsItsData
    <2>1. CASE dest = "previous"
      <3>1. tmp.data = File /\ tmp.synced
        BY <1>3, <2>1 DEF StoreRenames, File
      <3>2. /\ now'["previous"] = File /\ now'["file"] = File
            /\ maybe'["file"] = maybe["file"] /\ maybe'["previous"] = maybe["previous"] \cup {File}
        BY <1>3, <2>1, <3>1 DEF StoreRenames, File
      <3>3. Durable' = Durable \cup {<<d[1], File>> : d \in Durable}
        <4>1. ASSUME NEW x \in Durable' PROVE x \in Durable \cup {<<d[1], File>> : d \in Durable}
          <5>1. PICK f \in maybe["file"], p \in maybe["previous"] \cup {File} : x = <<f, p>>
            BY <4>1, <3>2 DEF Durable
          <5>2. CASE p \in maybe["previous"]
            BY <5>1, <5>2 DEF Durable
          <5>3. CASE p = File
            <6>1. <<f, now["previous"]>> \in Durable
              BY <5>1 DEF Durable
            <6>2. x = <<<<f, now["previous"]>>[1], File>>
              BY <5>1, <5>3
            <6>3. QED
              BY <6>1, <6>2
          <5>4. QED
            BY <5>1, <5>2, <5>3
        <4>2. ASSUME NEW x \in Durable \cup {<<d[1], File>> : d \in Durable} PROVE x \in Durable'
          BY <4>2, <3>2 DEF Durable
        <4>3. QED
          BY <4>1, <4>2
      <3>4. Asked' = Asked /\ Asked # NoFile
        BY <1>3 DEF StoreRenames, Asked
      <3>5. SF!Copy
        BY <1>3, <3>2, <3>3, <3>4 DEF SF!Copy, StoreRenames, File, Backup, Durable, Asked
      <3>6. QED
        BY <3>5 DEF SF!Next
    <2>2. CASE dest = "file"
      <3>1. tmp.data = target /\ tmp.synced
        BY <1>3, <2>2 DEF StoreRenames, Preparing
      <3>2. Backup = File /\ (sound => Settled)
        BY <1>3, <2>2 DEF StoreRenames, CopyIsSafe, File, Backup
      <3>3. /\ now'["file"] = target /\ now'["previous"] = Backup
            /\ maybe'["file"] = maybe["file"] \cup {target} /\ maybe'["previous"] = maybe["previous"]
        BY <1>3, <2>2, <3>1 DEF StoreRenames, Backup
      <3>4. sound => Durable = {<<File, File>>}
        BY <3>2 DEF Durable, Settled, File, Backup
      <3>5. Durable' = Durable \cup {<<target, d[2]>> : d \in Durable}
        <4>1. ASSUME NEW x \in Durable' PROVE x \in Durable \cup {<<target, d[2]>> : d \in Durable}
          <5>1. PICK f \in maybe["file"] \cup {target}, p \in maybe["previous"] : x = <<f, p>>
            BY <4>1, <3>3 DEF Durable
          <5>2. CASE f \in maybe["file"]
            BY <5>1, <5>2 DEF Durable
          <5>3. CASE f = target
            <6>1. <<now["file"], p>> \in Durable
              BY <5>1 DEF Durable
            <6>2. x = <<target, <<now["file"], p>>[2]>>
              BY <5>1, <5>3
            <6>3. QED
              BY <6>1, <6>2
          <5>4. QED
            BY <5>1, <5>2, <5>3
        <4>2. ASSUME NEW x \in Durable \cup {<<target, d[2]>> : d \in Durable} PROVE x \in Durable'
          BY <4>2, <3>3 DEF Durable
        <4>3. QED
          BY <4>1, <4>2
      <3>6. Asked' = Asked /\ Asked = target /\ Asked # NoFile
        BY <1>3 DEF StoreRenames, Asked
      <3>7. SF!Replace
        BY <1>3, <3>2, <3>3, <3>4, <3>5, <3>6
           DEF SF!Replace, StoreRenames, File, Backup, Durable, Asked
      <3>8. QED
        BY <3>7 DEF SF!Next
    <2>3. QED
      BY <2>1, <2>2
  <1>4. ASSUME StoreSettles PROVE SF!Next
    <2>1. Asked' = Asked
      BY <1>4 DEF StoreSettles, Proceeds, Asked
    <2>2. \A n \in Names : maybe'[n] \subseteq maybe[n] /\ now[n] \in maybe'[n]
      BY <1>4 DEF StoreSettles, StoreInv, FlashIsComplete
    <2>3. SF!Settle
      BY <2>1, <2>2, <1>4, Settling DEF StoreSettles
    <2>4. QED
      BY <2>3 DEF SF!Next
  <1>4a. ASSUME StoreSettlesNothing PROVE SF!Next
    <2>1. Asked' = Asked
      BY <1>4a DEF StoreSettlesNothing, Proceeds, Asked
    <2>2. \A n \in Names : maybe'[n] \subseteq maybe[n] /\ now[n] \in maybe'[n]
      BY <1>4a DEF StoreSettlesNothing, StoreInv, FlashIsComplete
    <2>3. SF!Settle
      BY <2>1, <2>2, <1>4a, Settling DEF StoreSettlesNothing
    <2>4. QED
      BY <2>3 DEF SF!Next
  <1>5. ASSUME StoreReturns PROVE SF!Next
    <2>1. File = target /\ (sound => Settled)
      BY <1>5 DEF StoreReturns, StoreInv, DoneIsSafe, File
    <2>2. sound => Durable = {<<File, Backup>>}
      BY <2>1 DEF Durable, Settled, File, Backup
    <2>3. SF!Confirm
      BY <1>5, <2>1, <2>2 DEF SF!Confirm, StoreReturns, File, Backup, Durable
    <2>4. QED
      BY <2>3 DEF SF!Next
  <1>6. ASSUME StoreStops PROVE SF!Next
    BY <1>6 DEF SF!Next, SF!GiveUp, StoreStops
  <1>7. ASSUME Writeback PROVE SF!Next
    <2>1. PICK n \in Names : maybe' = [maybe EXCEPT ![n] = {now[n]}]
      BY <1>7 DEF Writeback
    <2>2. \A m \in Names : maybe'[m] \subseteq maybe[m] /\ now[m] \in maybe'[m]
      BY <2>1 DEF StoreInv, StoreTypeOK, FlashIsComplete
    <2>3. now' = now /\ Asked' = Asked
      BY <1>7 DEF Writeback, writer, Asked
    <2>4. SF!Settle
      BY <2>2, <2>3, <1>7, Settling DEF Writeback, StoreInv, StoreTypeOK
    <2>5. QED
      BY <2>4 DEF SF!Next
  <1>8. ASSUME PowerLoss PROVE SF!Next
    <2>1. PICK f \in maybe["file"], p \in maybe["previous"] :
            /\ now' = [n \in Names |-> IF n = "file" THEN f ELSE p]
            /\ maybe' = [n \in Names |-> {now'[n]}]
      BY <1>8 DEF PowerLoss
    <2>2. File' = f /\ Backup' = p /\ maybe'["file"] = {f} /\ maybe'["previous"] = {p}
      BY <2>1 DEF File, Backup
    <2>3. <<File', Backup'>> \in Durable
      BY <2>2 DEF Durable
    <2>4. Durable' = {<<File', Backup'>>}
      BY <2>2 DEF Durable
    <2>5. SF!PowerLoss
      BY <2>3, <2>4, <1>8 DEF SF!PowerLoss, PowerLoss, File, Backup, Durable
    <2>6. QED
      BY <2>5 DEF SF!Next
  <1>9. ASSUME UNCHANGED svars PROVE UNCHANGED SF!vars
    BY <1>9 DEF SF!vars, svars, storeVars, writer
  <1>10. QED
    BY <1>1, <1>2, <1>3, <1>4, <1>5, <1>6, <1>7, <1>8, <1>9, <1>4a DEF StoreNext, StoreWorks

\* A save is atomic, and permanent unless a sync fails: the steps of writeSettings,
\* interrupted at any of them by a kill or a power failure, implement the abstract
\* settings file.
THEOREM StoreImplementsFile == StoreSpec => ImplementsSettingsFile
  <1>1. StoreInit => SF!Init
    BY InitImplements
  <1>2. StoreInv /\ [StoreNext]_svars => [SF!Next]_SF!vars
    BY StepImplements
  <1>3. QED
    BY <1>1, <1>2, StoreInvariant, PTL DEF StoreSpec, svars, ImplementsSettingsFile, SF!Spec

-----------------------------------------------------------------------------
(* The page.                                                               *)

HIDE DEF Names

\* A request and the writing process that works for it.
RequestInv ==
  /\ req.pc = "writing" =>
       /\ wpc \in Phases
       /\ CASE req.kind = "save"  -> target = req.data
            [] req.kind = "start" -> target["enabled"] = TRUE
            [] req.kind = "stop"  -> target["enabled"] = FALSE
            [] OTHER              -> TRUE
  /\ req.pc = "ok" => wpc = "idle"
  /\ req.pc = "ok" /\ req.sure =>
       /\ maybe["file"] = {now["file"]}
       /\ CASE req.kind = "save"  -> now["file"] = req.data
            [] req.kind = "start" -> now["file"]["enabled"] = TRUE
            [] req.kind = "stop"  -> now["file"]["enabled"] = FALSE
            [] OTHER              -> TRUE
  /\ req.pc \in {"sent", "writing"} => req.sure
  /\ Busy /\ req.kind = "save" => req.data \in Settings
  /\ poll.pc = "read" => poll.cfg \in Settings
  /\ Busy => stray = {}
  /\ \A a \in stray : a.kind = "save" => a.data \in Settings

\* Before a write has ended no status counts as one that was begun after it.
CatchUpInv ==
  Busy => /\ ~ tried
          /\ poll.pc # "idle" /\ poll.current => ~ poll.after

\* The page is not waiting, or has seen a status request begun after the write.
CaughtUp == ~ pend \/ tried

AgreeInv ==
  /\ \A c \in maybe["file"] : Agrees(c)
  /\ wpc \in Phases => Agrees(target)
  /\ Busy /\ req.kind = "save" => Agrees(req.data)
  /\ Busy /\ req.kind \in {"start", "stop"} => confirmed["enabled"] = NoFile
  /\ \A a \in stray : /\ a.kind = "save" => Agrees(a.data)
                      /\ a.kind \in {"start", "stop"} => confirmed["enabled"] = NoFile
  /\ poll.pc = "read" /\ poll.current /\ (CaughtUp \/ poll.after) => Agrees(poll.cfg)
  /\ valid /\ CaughtUp => Agrees(saved)

\* The form is what was posted until the user edits it.
DraftInv == Busy /\ req.kind = "save" /\ ~ late => form = req.data

PageInv == StoreInv /\ PageTypeOK /\ RequestInv /\ CatchUpInv /\ DraftInv
------------------------------------------------------------------------------
\* A request for on or off writes complete settings.
LEMMA WantedIsComplete ==
  ASSUME StoreInv, NEW kind \in Powers \cup {"save"}, NEW data, kind = "save" => data \in Settings
  PROVE  Wanted(kind, data) \in Settings
  <1>1. now["file"] \in [Fields -> BOOLEAN]
    BY PageAssumption DEF StoreInv, FlashIsComplete
  <1>2. \A b \in BOOLEAN : [now["file"] EXCEPT !["enabled"] = b] \in Settings
    BY <1>1, PageAssumption
  <1>3. kind \in {"save", "start", "stop", "restart"}
    BY DEF Powers
  <1>4. QED
    BY <1>1, <1>2, <1>3, PageAssumption DEF Wanted

LEMMA StoreSteps ==
  ASSUME StoreInv, PageTypeOK, RequestInv, [Next]_pvars
  PROVE  [StoreNext]_svars \/ UNCHANGED storeVars
  <1>1. CASE User
    BY <1>1 DEF User, Edit, Discard, Save, Action, Posts
  <1>2. CASE Takes
    <2>1. req.kind \in Powers \cup {"save"} /\ (req.kind = "save" => req.data \in Settings)
      BY <1>2 DEF Takes, Busy, PageTypeOK, RequestInv
    <2>2. Wanted(req.kind, req.data) \in Settings
      BY <2>1, WantedIsComplete
    <2>3. QED
      BY <1>2, <2>2 DEF Takes, StoreNext
  <1>2a. CASE TakesLate
    <2>1. PICK a \in stray : \/ StoreBegins(Wanted(a.kind, a.data)) /\ UNCHANGED faults
                            \/ UNCHANGED storeVars
      BY <1>2a DEF TakesLate
    <2>2. a.kind \in Powers \cup {"save"} /\ (a.kind = "save" => a.data \in Settings)
      BY DEF PageTypeOK, RequestInv
    <2>3. Wanted(a.kind, a.data) \in Settings
      BY <2>2, WantedIsComplete
    <2>4. QED
      BY <2>1, <2>3 DEF StoreNext
  <1>3. CASE Writes \/ Written \/ Kernel
    BY <1>3 DEF Writes, Written, Kernel, StoreNext
  <1>4. CASE WritesUnsynced \/ WriteStops \/ RouterLosesPower
    BY <1>4 DEF WritesUnsynced, WriteStops, RouterLosesPower, StoreNext
  <1>5. CASE Refuses \/ Page \/ StopsWaiting \/ PollFails
    BY <1>5 DEF Refuses, Page, Confirms, ConfirmsNothing, PollStarts, PollReads, PollAnswers,
                StopsWaiting, PollFails
  <1>6. CASE UNCHANGED pvars
    BY <1>6 DEF pvars
  <1>7. QED
    BY <1>1, <1>2, <1>2a, <1>3, <1>4, <1>5, <1>6 DEF Next, Router

LEMMA FaultsType == ASSUME StoreInv, PageTypeOK, [Next]_pvars PROVE faults' \in 0..MaxFaults
  <1>1. faults \in 0..MaxFaults /\ MaxFaults \in Nat
    BY StoreAssumption DEF PageTypeOK, StoreTypeOK
  <1>2. UNCHANGED faults \/ Fault
    BY DEF Next, User, Edit, Discard, Save, Action, Posts, Router, Takes, TakesLate, Writes,
           WritesUnsynced, StoreSettlesNothing, Written, WriteStops, StoreStops, Refuses, Kernel, RouterLosesPower, PowerLoss, Page, Confirms, ConfirmsNothing,
           PollStarts, PollReads, PollAnswers, StopsWaiting, PollFails, pvars, history
  <1>3. QED
    BY <1>1, <1>2 DEF Fault

LEMMA StoreInvStep ==
  ASSUME StoreInv, PageTypeOK, RequestInv, [Next]_pvars
  PROVE  StoreInv'
  <1>1. CASE [StoreNext]_svars
    BY <1>1, StepHolds
  <1>2. CASE UNCHANGED storeVars
    BY <1>2, FaultsType
       DEF storeVars, writer, StoreInv, StoreTypeOK, FlashIsComplete, HoldsItsData, CopyIsSafe,
           CopyIsMade, DoneIsSafe, Settled
  <1>3. QED
    BY <1>1, <1>2, StoreSteps
------------------------------------------------------------------------------
\* The types.
Request == [pc : {"none", "sent", "writing", "ok", "error"},
            kind : Powers \cup {"save"}, data : Settings \cup {NoFile}, sure : BOOLEAN]
Poll    == [pc : {"idle", "sent", "read"}, current : BOOLEAN,
            cfg : Settings \cup {NoFile}, after : BOOLEAN]

Post    == [kind : Powers \cup {"save"}, data : Settings \cup {NoFile}]

LEMMA RequestType ==
  ASSUME NEW r \in Request
  PROVE  /\ \A a \in {"none", "sent", "writing", "ok", "error"} :
               [r EXCEPT !.pc = a] \in Request /\ [r EXCEPT !.pc = a].pc = a
                 /\ [r EXCEPT !.pc = a].kind = r.kind /\ [r EXCEPT !.pc = a].data = r.data
                 /\ [r EXCEPT !.pc = a].sure = r.sure
         /\ \A a \in {"ok", "error"}, b \in BOOLEAN : [r EXCEPT !.pc = a, !.sure = b] \in Request
  BY DEF Request

LEMMA PollType ==
  /\ NoPoll \in Poll
  /\ \A b \in BOOLEAN : [pc |-> "sent", current |-> TRUE, cfg |-> NoFile, after |-> b] \in Poll
  /\ \A q \in Poll :
       /\ [q EXCEPT !.current = FALSE] \in Poll
       /\ \A b \in BOOLEAN : [q EXCEPT !.after = b] \in Poll
       /\ \A c \in Settings : [q EXCEPT !.pc = "read", !.cfg = c] \in Poll
  BY DEF Poll, NoPoll

LEMMA RefreshedType == ASSUME poll \in Poll PROVE Refreshed \in Poll
  <1>1. (wpc = "idle") \in BOOLEAN
    OBVIOUS
  <1>2. QED
    BY <1>1, PollType DEF Refreshed

LEMMA TypeStep ==
  ASSUME StoreInv, PageTypeOK, RequestInv, [Next]_pvars
  PROVE  PageTypeOK'
  <1> DEFINE T == /\ form \in Settings /\ saved \in Settings
                  /\ valid \in BOOLEAN /\ pend \in BOOLEAN
                  /\ req \in Request /\ poll \in Poll
                  /\ posts \in 0..MaxPosts /\ edits \in 0..MaxEdits
                  /\ late \in BOOLEAN
                  /\ stray \subseteq Post
                  /\ tried \in BOOLEAN
                  /\ confirmed \in [Fields -> BOOLEAN \cup {NoFile}]
  <1>1. T
    BY DEF PageTypeOK, Request, Poll, Post
  <1>2. MaxPosts \in Nat /\ MaxEdits \in Nat /\ Settings = [Fields -> BOOLEAN] /\ "enabled" \in Fields
    BY PageAssumption
  <1>3. StoreTypeOK'
    BY StoreInvStep DEF StoreInv
  <1>4. now["file"] \in Settings
    BY DEF StoreInv, FlashIsComplete
  <1> SUFFICES T'
    BY <1>3 DEF PageTypeOK, Request, Poll, Post
  <1> HIDE DEF T
  <1>5. CASE Edit
    <2>1. PICK f \in Fields \ {"enabled"} : form' = [form EXCEPT ![f] = ~ @]
      BY <1>5 DEF Edit
    <2>2. form \in [Fields -> BOOLEAN]
      BY <1>1, <1>2 DEF T
    <2>3. form' \in [Fields -> BOOLEAN]
      BY <2>1, <2>2
    <2>4. late' \in BOOLEAN
      BY <1>5 DEF Edit, Busy
    <2>5. edits' \in 0..MaxEdits
      BY <1>1, <1>2, <1>5 DEF T, Edit
    <2>6. QED
      BY <1>1, <1>2, <1>5, <2>3, <2>4, <2>5 DEF T, Edit
  <1>6. CASE Discard
    BY <1>1, <1>2, <1>6 DEF T, Discard
  <1>7. ASSUME NEW kind \in Powers \cup {"save"}, NEW data \in Settings \cup {NoFile},
               Posts(kind, data), confirmed' \in [Fields -> BOOLEAN \cup {NoFile}]
        PROVE  T'
    <2>1. req' \in Request
      BY <1>7 DEF Posts, Request
    <2>2. poll' \in Poll
      BY <1>1, <1>7, PollType DEF T, Posts
    <2>3. posts' \in 0..MaxPosts
      BY <1>1, <1>2, <1>7 DEF T, Posts
    <2>4. QED
      BY <1>1, <1>7, <2>1, <2>2, <2>3 DEF T, Posts
  <1>8. CASE Save
    <2>1. confirmed' \in [Fields -> BOOLEAN \cup {NoFile}]
      BY <1>1, <1>8 DEF T, Save
    <2>2. QED
      BY <1>1, <1>7, <1>8, <2>1 DEF T, Save
  <1>9. CASE Action
    <2>1. PICK k \in Powers :
            /\ Posts(k, NoFile)
            /\ confirmed' = IF k = "restart" THEN confirmed
                                             ELSE [confirmed EXCEPT !["enabled"] = NoFile]
      BY <1>9 DEF Action
    <2>2. confirmed' \in [Fields -> BOOLEAN \cup {NoFile}]
      BY <1>1, <2>1 DEF T
    <2>3. QED
      BY <1>7, <2>1, <2>2
  <1>10. CASE Takes
    <2>1. req' \in Request
      <3>1. OnFlash \in BOOLEAN
        BY DEF OnFlash
      <3>2. \/ req' = [req EXCEPT !.pc = "writing"]
            \/ req' = [req EXCEPT !.pc = "ok", !.sure = OnFlash]
        BY <1>10 DEF Takes
      <3>3. req \in Request
        BY <1>1 DEF T
      <3>4. CASE req' = [req EXCEPT !.pc = "writing"]
        BY <3>3, <3>4, RequestType, Zenon
      <3>5. CASE req' = [req EXCEPT !.pc = "ok", !.sure = OnFlash]
        BY <3>1, <3>3, <3>5, RequestType, Zenon
      <3>6. QED
        BY <3>2, <3>4, <3>5
    <2>2. QED
      BY <1>1, <1>10, <2>1 DEF T, Takes, history
  <1>10a. CASE TakesLate
    BY <1>1, <1>10a DEF T, TakesLate, history
  <1>11. CASE Writes \/ WritesUnsynced \/ Kernel
    BY <1>1, <1>11 DEF T, Writes, WritesUnsynced, Kernel, pageVars, history
  <1>12. CASE Written \/ WriteStops
    <2>1. req' \in Request
      <3>1. PICK a \in {"ok", "error"} : Answer(a)
        BY <1>12 DEF Written, WriteStops
      <3>2. (a = "ok" => OnFlash) \in BOOLEAN
        OBVIOUS
      <3>3. req' = req \/ \E b \in BOOLEAN : req' = [req EXCEPT !.pc = a, !.sure = b]
        BY <3>1, <3>2 DEF Answer
      <3>4. req \in Request
        BY <1>1 DEF T
      <3>5. CASE req' = req
        BY <3>4, <3>5
      <3>6. ASSUME NEW b \in BOOLEAN, req' = [req EXCEPT !.pc = a, !.sure = b] PROVE req' \in Request
        BY <3>4, <3>6, RequestType, Zenon
      <3>7. QED
        BY <3>3, <3>5, <3>6
    <2>2. QED
      BY <1>1, <1>12, <2>1 DEF T, Written, WriteStops, history
  <1>13. CASE Refuses
    <2>1. req' \in Request
      BY <1>1, <1>13, RequestType DEF T, Refuses
    <2>2. QED
      BY <1>1, <1>13, <2>1 DEF T, Refuses, history
  <1>14. CASE RouterLosesPower
    <2>1. req' \in Request /\ poll' \in Poll
      BY <1>1, <1>14, RequestType, PollType DEF T, RouterLosesPower
    <2>2. valid' \in BOOLEAN /\ tried' \in BOOLEAN
      BY <1>14 DEF RouterLosesPower
    <2>3. QED
      BY <1>1, <1>14, <2>1, <2>2 DEF T, RouterLosesPower
  <1>15. CASE Confirms
    <2>1. req' \in Request /\ poll' \in Poll
      <3>1. NoReq \in Request
        BY DEF NoReq, Request
      <3>2. QED
        BY <1>1, <1>15, <3>1, RefreshedType DEF T, Confirms
    <2>2. confirmed' \in [Fields -> BOOLEAN \cup {NoFile}]
      <3>1. CASE req.kind = "save"
        <4>1. req.data \in [Fields -> BOOLEAN]
          BY <1>2, <1>15, <3>1 DEF RequestInv, Confirms, Busy
        <4>2. req.data \in [Fields -> BOOLEAN \cup {NoFile}]
          BY <4>1
        <4>3. QED
          BY <1>1, <1>15, <3>1, <4>2 DEF T, Confirms
      <3>2. CASE req.kind # "save"
        <4>1. (req.kind = "start") \in BOOLEAN
          OBVIOUS
        <4>2. \A b \in BOOLEAN : [confirmed EXCEPT !["enabled"] = b] \in [Fields -> BOOLEAN \cup {NoFile}]
          BY <1>1 DEF T
        <4>3. \/ confirmed' = confirmed
              \/ confirmed' = [confirmed EXCEPT !["enabled"] = req.kind = "start"]
          BY <1>15, <3>2 DEF Confirms
        <4>4. QED
          BY <1>1, <4>1, <4>2, <4>3 DEF T
      <3>3. QED
        BY <3>1, <3>2
    <2>3. form' \in Settings /\ saved' \in Settings
      BY <1>1, <1>15 DEF T, Confirms, FormAfterSave, RequestInv, Busy
    <2>4. QED
      BY <1>1, <1>15, <2>1, <2>2, <2>3 DEF T, Confirms
  <1>16. CASE ConfirmsNothing
    <2>1. req' \in Request /\ poll' \in Poll
      <3>1. NoReq \in Request
        BY DEF NoReq, Request
      <3>2. QED
        BY <1>1, <1>16, <3>1, RefreshedType DEF T, ConfirmsNothing
    <2>2. stray' \subseteq Post
      <3>1. [kind |-> req.kind, data |-> req.data] \in Post
        BY <1>1 DEF T, Request, Post
      <3>2. QED
        BY <1>1, <1>16, <3>1 DEF T, ConfirmsNothing
    <2>3. QED
      BY <1>1, <1>16, <2>1, <2>2 DEF T, ConfirmsNothing
  <1>17. CASE StopsWaiting
    BY <1>1, <1>17 DEF T, StopsWaiting, history
  <1>18. CASE PollStarts
    <2>1. WritesEnded \in BOOLEAN
      BY DEF WritesEnded, Busy
    <2>2. poll' \in Poll
      BY <1>1, <1>18, <2>1, RefreshedType, PollType DEF T, PollStarts
    <2>3. QED
      BY <1>1, <1>18, <2>2 DEF T, PollStarts, history
  <1>19. CASE PollReads
    <2>1. poll' \in Poll
      BY <1>1, <1>4, <1>19, PollType DEF T, PollReads
    <2>2. QED
      BY <1>1, <1>19, <2>1 DEF T, PollReads, history
  <1>20. CASE PollAnswers
    <2>1. poll' \in Poll
      BY <1>20, PollType DEF PollAnswers
    <2>2. tried' \in BOOLEAN /\ valid' \in BOOLEAN
      BY <1>1, <1>20 DEF T, PollAnswers
    <2>3. form' \in Settings /\ saved' \in Settings
      BY <1>1, <1>20 DEF T, PollAnswers, RequestInv
    <2>4. QED
      BY <1>1, <1>20, <2>1, <2>2, <2>3 DEF T, PollAnswers
  <1>21. CASE PollFails
    <2>1. poll' \in Poll /\ valid' \in BOOLEAN /\ tried' \in BOOLEAN
      BY <1>21, PollType DEF PollFails
    <2>2. QED
      BY <1>1, <1>21, <2>1 DEF T, PollFails
  <1>22. CASE UNCHANGED pvars
    BY <1>1, <1>22 DEF T, pvars, pageVars, history
  <1>23. QED
    BY <1>5, <1>6, <1>8, <1>9, <1>10, <1>10a, <1>11, <1>12, <1>13, <1>14, <1>15, <1>16, <1>17, <1>18,
       <1>19, <1>20, <1>21, <1>22 DEF Next, User, Router, Page
------------------------------------------------------------------------------
\* The request, its process and the status request.
LEMMA RequestStep ==
  ASSUME StoreInv, PageTypeOK, RequestInv, [Next]_pvars
  PROVE  RequestInv'
  <1>1. /\ req \in Request /\ poll \in Poll
        /\ form \in Settings /\ now["file"] \in Settings
    BY DEF PageTypeOK, Request, Poll, StoreInv, FlashIsComplete
  <1> DEFINE Wrote(r, c) == CASE r.kind = "save"  -> c = r.data
                             [] r.kind = "start" -> c["enabled"] = TRUE
                             [] r.kind = "stop"  -> c["enabled"] = FALSE
                             [] OTHER            -> TRUE
  <1>2. CASE Edit \/ Discard
    BY <1>2 DEF Edit, Discard, storeVars, writer, RequestInv, Busy
  <1>3. CASE Save
    BY <1>1, <1>3 DEF Save, Posts, RequestInv, Busy, Poll
  <1>4. CASE Action
    BY <1>1, <1>4 DEF Action, Posts, RequestInv, Busy, Powers, Poll
  <1>5. CASE Takes
    <2> DEFINE W == Wanted(req.kind, req.data)
    <2>1. Wrote(req, W)
      <3>1. now["file"] \in [Fields -> BOOLEAN] /\ "enabled" \in Fields
        BY <1>1, PageAssumption
      <3>2. \A b \in BOOLEAN : [now["file"] EXCEPT !["enabled"] = b]["enabled"] = b
        BY <3>1
      <3>3. QED
        BY <3>2 DEF Wanted
    <2>2. req'.kind = req.kind /\ req'.data = req.data /\ req.pc = "sent" /\ poll' = poll /\ stray' = stray
      BY <1>1, <1>5 DEF Takes, Request
    <2>3. CASE StoreBegins(W) /\ req' = [req EXCEPT !.pc = "writing"]
      <3>1. req'.pc = "writing" /\ req'.sure
        BY <1>1, <1>5, <2>3 DEF Takes, Request, RequestInv
      <3>2. wpc' = "stage" /\ target' = W
        BY <2>3 DEF StoreBegins
      <3>3. QED
        BY <2>1, <2>2, <3>1, <3>2 DEF RequestInv, Busy, Phases, CanFail
    <2>4. CASE W = now["file"] /\ wpc = "idle" /\ UNCHANGED storeVars
              /\ req' = [req EXCEPT !.pc = "ok", !.sure = OnFlash]
      <3>1. req'.pc = "ok" /\ (req'.sure <=> maybe["file"] = {now["file"]})
        BY <1>1, <2>4 DEF Request, OnFlash
      <3>2. wpc' = "idle" /\ maybe' = maybe /\ now' = now
        BY <2>4 DEF storeVars, writer
      <3>3. QED
        BY <2>1, <2>2, <2>4, <3>1, <3>2 DEF RequestInv, Busy
    <2>5. QED
      BY <1>5, <2>3, <2>4 DEF Takes
  <1>5a. CASE TakesLate
    <2>1. ~ Busy
      BY <1>5a DEF TakesLate, RequestInv
    <2>2. UNCHANGED <<req, poll>> /\ stray' = {}
      BY <1>5a DEF TakesLate
    <2>3. QED
      BY <2>1, <2>2 DEF RequestInv, Busy
  <1>6. CASE Writes \/ WritesUnsynced
    <2>1. /\ wpc \in Phases /\ wpc' \in Phases /\ target' = target
          /\ req' = req /\ poll' = poll /\ stray' = stray
      BY <1>6 DEF Writes, WritesUnsynced, StoreWorks, StoreStages, StoreVerifies, StoreWrites, StoreSyncs,
                  StoreRenames, StoreSettles, StoreSettlesNothing, Proceeds, Phases, CanFail, pageVars
    <2>2. QED
      BY <2>1 DEF RequestInv, Busy, Phases, CanFail
  <1>7. CASE Written
    <2>1. /\ wpc = "done" /\ wpc' = "idle" /\ now' = now /\ maybe' = maybe /\ poll' = poll
          /\ now["file"] = target /\ stray' = stray
      BY <1>7 DEF Written, StoreReturns, StoreInv, DoneIsSafe
    <2>2. PICK a \in {"ok", "error"} : Answer(a)
      BY <1>7 DEF Written
    <2>3. QED
      BY <1>1, <2>1, <2>2 DEF Answer, OnFlash, RequestInv, Busy, Request
  <1>8. CASE WriteStops
    <2>1. wpc # "idle" /\ now' = now /\ maybe' = maybe /\ poll' = poll /\ stray' = stray
      BY <1>8 DEF WriteStops, StoreStops, Phases, CanFail
    <2>2. QED
      BY <1>1, <1>8, <2>1 DEF WriteStops, Answer, RequestInv, Busy, Request
  <1>9. CASE Refuses
    BY <1>1, <1>9 DEF Refuses, storeVars, writer, RequestInv, Busy, Request
  <1>10. CASE Kernel
    <2>1. PICK n \in Names : maybe' = [maybe EXCEPT ![n] = {now[n]}]
      BY <1>10 DEF Kernel, Writeback
    <2>2. maybe'["file"] = maybe["file"] \/ maybe'["file"] = {now["file"]}
      BY <2>1 DEF StoreInv, StoreTypeOK
    <2>3. QED
      BY <1>10, <2>2 DEF Kernel, Writeback, writer, pageVars, RequestInv, Busy
  <1>11. CASE RouterLosesPower
    <2>1. PICK f \in maybe["file"], p \in maybe["previous"] :
            /\ now' = [n \in Names |-> IF n = "file" THEN f ELSE p]
            /\ maybe' = [n \in Names |-> {now'[n]}]
      BY <1>11 DEF RouterLosesPower, PowerLoss
    <2>2. now'["file"] = f /\ maybe'["file"] = {f} /\ wpc' = "idle"
      BY <1>11, <2>1 DEF RouterLosesPower, PowerLoss, Names
    <2>3. /\ req'.pc \notin {"sent", "writing"} /\ req'.kind = req.kind /\ req'.data = req.data /\ req'.sure = req.sure
          /\ req'.pc = "ok" => req.pc = "ok"
          /\ req'.pc # "none" => req.pc # "none"
      BY <1>1, <1>11 DEF RouterLosesPower, Request
    <2>4. poll'.pc = "read" => poll.pc = "read" /\ poll'.cfg = poll.cfg
      BY <1>1, <1>11 DEF RouterLosesPower, NoPoll
    <2>5. QED
      BY <1>11, <2>2, <2>3, <2>4 DEF RouterLosesPower, RequestInv, Busy
  <1>12. CASE Confirms \/ ConfirmsNothing
    <2>1. req' = NoReq /\ poll' = Refreshed
      BY <1>12 DEF Confirms, ConfirmsNothing
    <2>2. poll'.pc = "read" => poll.pc = "read" /\ poll'.cfg = poll.cfg
      BY <2>1 DEF Refreshed
    <2>3. \A a \in stray' : a.kind = "save" => a.data \in Settings
      BY <1>12 DEF Confirms, ConfirmsNothing, RequestInv, Busy
    <2>4. UNCHANGED storeVars
      BY <1>12 DEF Confirms, ConfirmsNothing
    <2>5. QED
      BY <2>1, <2>2, <2>3, <2>4 DEF RequestInv, Busy, NoReq, storeVars, writer
  <1>13. CASE StopsWaiting
    BY <1>13 DEF StopsWaiting, storeVars, writer, RequestInv, Busy
  <1>14. CASE PollStarts
    <2>1. poll'.pc = "sent"
      BY <1>1, <1>14 DEF PollStarts, Refreshed
    <2>2. QED
      BY <1>14, <2>1 DEF PollStarts, storeVars, writer, RequestInv, Busy
  <1>15. CASE PollReads
    BY <1>1, <1>15 DEF PollReads, storeVars, writer, RequestInv, Busy, Poll
  <1>16. CASE PollAnswers \/ PollFails
    BY <1>16 DEF PollAnswers, PollFails, NoPoll, storeVars, writer, RequestInv, Busy
  <1>17. CASE UNCHANGED pvars
    BY <1>17 DEF pvars, pageVars, storeVars, writer, RequestInv, Busy
  <1>18. QED
    BY <1>2, <1>3, <1>4, <1>5, <1>5a, <1>6, <1>7, <1>8, <1>9, <1>10, <1>11, <1>12, <1>13, <1>14, <1>15,
       <1>16, <1>17 DEF Next, User, Router, Page
------------------------------------------------------------------------------
LEMMA CatchUpStep ==
  ASSUME PageTypeOK, CatchUpInv, [Next]_pvars
  PROVE  CatchUpInv'
  <1>1. req \in Request /\ poll \in Poll
    BY DEF PageTypeOK, Request, Poll
  <1>2. CASE Edit \/ Discard \/ StopsWaiting \/ TakesLate \/ Writes \/ WritesUnsynced \/ Kernel
    BY <1>2 DEF Edit, Discard, StopsWaiting, TakesLate, Writes, WritesUnsynced, Kernel, pageVars, history, CatchUpInv, Busy
  <1>3. CASE Save \/ Action
    BY <1>1, <1>3 DEF Save, Action, Posts, CatchUpInv, Busy, Poll
  <1>4. CASE Takes \/ Refuses
    <2>1. /\ req.pc # "none"
          /\ UNCHANGED <<poll, tried>>
      BY <1>4 DEF Takes, Refuses, history
    <2>2. QED
      BY <2>1 DEF CatchUpInv, Busy
  <1>5. CASE Written \/ WriteStops
    <2>1. UNCHANGED <<poll, tried>>
      BY <1>5 DEF Written, WriteStops, history
    <2>2. req'.pc # "none" => req.pc # "none"
      BY <1>5 DEF Written, WriteStops, Answer
    <2>3. QED
      BY <2>1, <2>2 DEF CatchUpInv, Busy
  <1>6. CASE RouterLosesPower
    <2>1. req'.pc # "none" => req.pc # "none"
      BY <1>6 DEF RouterLosesPower
    <2>2. poll' = NoPoll \/ poll' = poll
      BY <1>6 DEF RouterLosesPower
    <2>3. tried' = (tried \/ (poll.pc = "sent" /\ poll.current /\ poll.after))
      BY <1>6 DEF RouterLosesPower
    <2>4. Busy => ~ (poll.pc = "sent" /\ poll.current /\ poll.after)
      BY DEF CatchUpInv
    <2>5. Busy => ~ tried'
      BY <2>3, <2>4 DEF CatchUpInv
    <2>6. Busy' => Busy
      BY <2>1 DEF Busy
    <2>7. QED
      BY <2>2, <2>5, <2>6 DEF CatchUpInv, NoPoll
  <1>7. CASE Confirms \/ ConfirmsNothing
    BY <1>7 DEF Confirms, ConfirmsNothing, NoReq, CatchUpInv, Busy
  <1>8. CASE PollStarts
    BY <1>8 DEF PollStarts, Refreshed, WritesEnded, CatchUpInv, Busy, history
  <1>9. CASE PollReads
    BY <1>1, <1>9 DEF PollReads, CatchUpInv, Busy, Poll, history
  <1>10. CASE PollAnswers \/ PollFails
    <2>1. /\ req' = req /\ poll' = NoPoll /\ poll.pc # "idle"
          /\ tried' = (tried \/ (poll.current /\ poll.after))
      BY <1>10 DEF PollAnswers, PollFails
    <2>2. QED
      BY <2>1 DEF CatchUpInv, Busy, NoPoll
  <1>11. CASE UNCHANGED pvars
    BY <1>11 DEF pvars, pageVars, history, CatchUpInv, Busy
  <1>12. QED
    BY <1>2, <1>3, <1>4, <1>5, <1>6, <1>7, <1>8, <1>9, <1>10, <1>11 DEF Next, User, Router, Page

LEMMA DraftStep ==
  ASSUME PageTypeOK, DraftInv, [Next]_pvars
  PROVE  DraftInv'
  <1>1. req \in Request
    BY DEF PageTypeOK, Request
  <1>2. CASE Edit
    BY <1>2 DEF Edit, DraftInv, Busy
  <1>3. CASE Discard \/ StopsWaiting \/ TakesLate \/ Writes \/ WritesUnsynced \/ Kernel
    BY <1>3 DEF Discard, StopsWaiting, TakesLate, Writes, WritesUnsynced, Kernel, pageVars, DraftInv, Busy
  <1>4. CASE Save \/ Action
    BY <1>4 DEF Save, Action, Posts, DraftInv, Busy, Powers
  <1>5. CASE Takes \/ Refuses \/ Written \/ WriteStops \/ RouterLosesPower
    <2>1. /\ req'.pc # "none" => req.pc # "none"
          /\ req'.kind = req.kind /\ req'.data = req.data
      BY <1>1, <1>5 DEF Takes, Refuses, Written, WriteStops, Answer, RouterLosesPower, Request
    <2>2. UNCHANGED <<form, late>>
      BY <1>5 DEF Takes, Refuses, Written, WriteStops, RouterLosesPower, history
    <2>3. QED
      BY <2>1, <2>2 DEF DraftInv, Busy
  <1>6. CASE Confirms \/ ConfirmsNothing
    BY <1>6 DEF Confirms, ConfirmsNothing, NoReq, DraftInv, Busy
  <1>7. CASE PollStarts \/ PollReads \/ PollFails
    BY <1>7 DEF PollStarts, PollReads, PollFails, DraftInv, Busy, history
  <1>8. CASE PollAnswers
    BY <1>8 DEF PollAnswers, DraftInv, Busy
  <1>9. CASE UNCHANGED pvars
    BY <1>9 DEF pvars, pageVars, history, DraftInv, Busy
  <1>10. QED
    BY <1>2, <1>3, <1>4, <1>5, <1>6, <1>7, <1>8, <1>9 DEF Next, User, Router, Page
------------------------------------------------------------------------------
(* What was confirmed.                                                     *)

\* The steps that leave alone what was confirmed, and the page.
LEMMA AgreeSame ==
  ASSUME AgreeInv, confirmed' = confirmed,
         maybe'["file"] \subseteq maybe["file"] \cup (IF wpc \in Phases THEN {target} ELSE {}),
         wpc' \in Phases => wpc \in Phases /\ target' = target,
         req'.pc # "none" => req.pc # "none" /\ req'.kind = req.kind /\ req'.data = req.data,
         \A a \in stray' : \/ a \in stray
                           \/ req.pc # "none" /\ a.kind = req.kind /\ a.data = req.data,
         poll' = poll \/ poll'.pc # "read",
         UNCHANGED <<saved, pend>>,
         \/ tried' = tried /\ (valid' => valid)
         \/ ~ valid' /\ poll'.pc # "read"
  PROVE  AgreeInv'
  <1>1. \A c : Agrees(c) => Agrees(c)'
    BY DEF Agrees
  <1>2. \A c \in maybe'["file"] : Agrees(c)'
    BY <1>1 DEF AgreeInv
  <1>3. wpc' \in Phases => Agrees(target)'
    BY <1>1 DEF AgreeInv, Agrees
  <1>4. /\ Busy' /\ req'.kind = "save" => Agrees(req.data)'
        /\ Busy' /\ req'.kind \in {"start", "stop"} => confirmed'["enabled"] = NoFile
    BY <1>1 DEF AgreeInv, Agrees, Busy
  <1>5. poll'.pc = "read" /\ poll'.current /\ (CaughtUp' \/ poll'.after) => Agrees(poll.cfg)'
    BY <1>1 DEF AgreeInv, Agrees, CaughtUp
  <1>6. valid' /\ CaughtUp' => Agrees(saved)'
    BY <1>1 DEF AgreeInv, Agrees, CaughtUp
  <1>7. \A a \in stray' : /\ a.kind = "save" => Agrees(a.data)'
                          /\ a.kind \in {"start", "stop"} => confirmed'["enabled"] = NoFile
    BY DEF AgreeInv, Agrees, Busy
  <1>8. QED
    BY <1>2, <1>3, <1>4, <1>5, <1>6, <1>7 DEF AgreeInv, Agrees

\* A step of the store leaves what its request wants or what it had.
LEMMA StoreKeeps ==
  ASSUME StoreInv, StoreWorks \/ StoreSettlesNothing \/ StoreReturns \/ StoreStops \/ Writeback
  PROVE  /\ maybe'["file"] \subseteq maybe["file"] \cup (IF wpc \in Phases THEN {target} ELSE {})
         /\ wpc' \in Phases => wpc \in Phases /\ target' = target
  <1> USE DEF StoreInv, StoreTypeOK, FlashIsComplete, HoldsItsData, Names, Phases, CanFail
  <1>1. CASE StoreStages \/ StoreVerifies \/ StoreWrites \/ StoreSyncs \/ StoreReturns \/ StoreStops
    BY <1>1 DEF StoreStages, StoreVerifies, StoreWrites, StoreSyncs, StoreReturns, StoreStops
  <1>2. CASE StoreRenames
    <2>1. tmp.synced /\ (dest = "file" => tmp.data = target)
      BY <1>2 DEF StoreRenames, Preparing
    <2>2. maybe'["file"] \subseteq maybe["file"] \cup {target}
      BY <1>2, <2>1 DEF StoreRenames
    <2>3. QED
      BY <1>2, <2>2 DEF StoreRenames
  <1>3. CASE StoreSettles \/ StoreSettlesNothing
    BY <1>3 DEF StoreSettles, StoreSettlesNothing
  <1>4. CASE Writeback
    BY <1>4 DEF Writeback, writer
  <1>5. QED
    BY <1>1, <1>2, <1>3, <1>4 DEF StoreWorks

LEMMA AgreeStep ==
  ASSUME PageInv, AgreeInv, [Next]_pvars
  PROVE  AgreeInv'
  <1>1. /\ req \in Request /\ poll \in Poll
        /\ confirmed \in [Fields -> BOOLEAN \cup {NoFile}]
        /\ now["file"] \in maybe["file"] /\ now["file"] \in [Fields -> BOOLEAN]
        /\ "enabled" \in Fields
    BY PageAssumption DEF PageInv, PageTypeOK, Request, Poll, StoreInv, FlashIsComplete, Names
  <1>2. CASE Edit \/ Discard
    BY <1>2, AgreeSame DEF Edit, Discard, storeVars, writer
  <1>3. ASSUME NEW kind \in Powers \cup {"save"}, NEW data, Posts(kind, data),
               \A f \in Fields : confirmed'[f] \in {NoFile, confirmed[f]},
               kind = "save" => Agrees(data)',
               kind \in {"start", "stop"} => confirmed'["enabled"] = NoFile
        PROVE  AgreeInv'
    <2>1. /\ ~ pend /\ valid /\ pend' = pend /\ saved' = saved
          /\ req'.kind = kind /\ req'.data = data /\ ~ poll'.current
          /\ maybe' = maybe /\ wpc' = wpc /\ target' = target /\ stray' = {}
      BY <1>1, <1>3 DEF Posts, storeVars, writer, Poll
    <2>2. \A c : Agrees(c) => \A f \in Fields : confirmed'[f] \in {NoFile, c[f]}
      BY <1>3 DEF Agrees
    <2>3. QED
      BY <1>3, <2>1, <2>2 DEF AgreeInv, Agrees, CaughtUp
  <1>4. CASE Save
    <2>1. /\ Posts("save", form)
          /\ confirmed' = [f \in Fields |-> IF form[f] # saved[f] THEN NoFile ELSE confirmed[f]]
      BY <1>4 DEF Save
    <2>2. Agrees(saved)
      BY <2>1 DEF Posts, AgreeInv, CaughtUp
    <2>3. \A f \in Fields : confirmed'[f] \in {NoFile, form[f]}
      BY <2>1, <2>2 DEF Agrees
    <2>4. form' = form
      BY <2>1 DEF Posts
    <2>5. Agrees(form)'
      BY <2>3, <2>4 DEF Agrees
    <2>6. \A f \in Fields : confirmed'[f] \in {NoFile, confirmed[f]}
      BY <2>1
    <2>7. QED
      <3> DEFINE data == form
      <3>1. Agrees(data)'
        BY <2>5
      <3>2. QED
        BY <1>3, <2>1, <2>4, <2>5, <2>6 DEF Agrees, Powers
  <1>5. CASE Action
    <2>1. PICK k \in Powers :
            /\ Posts(k, NoFile)
            /\ confirmed' = IF k = "restart" THEN confirmed
                                             ELSE [confirmed EXCEPT !["enabled"] = NoFile]
      BY <1>5 DEF Action
    <2>2. /\ \A f \in Fields : confirmed'[f] \in {NoFile, confirmed[f]}
          /\ k \in {"start", "stop"} => confirmed'["enabled"] = NoFile
          /\ k # "save"
      BY <1>1, <2>1 DEF Powers
    <2>3. QED
      BY <1>3, <2>1, <2>2
  <1>6. ASSUME NEW kind \in Powers \cup {"save"}, NEW data,
               kind = "save" => Agrees(data),
               kind \in {"start", "stop"} => confirmed["enabled"] = NoFile
        PROVE  Agrees(Wanted(kind, data))
    <2>1. Agrees(now["file"])
      BY <1>1 DEF AgreeInv
    <2>2. \A b \in BOOLEAN : confirmed["enabled"] = NoFile => Agrees([now["file"] EXCEPT !["enabled"] = b])
      BY <1>1, <2>1 DEF Agrees
    <2>3. kind \in {"save", "start", "stop", "restart"}
      BY DEF Powers
    <2>4. QED
      BY <1>6, <2>1, <2>2, <2>3 DEF Wanted
  <1>6a. CASE Takes
    <2> DEFINE W == Wanted(req.kind, req.data)
    <2>1. Agrees(W)
      <3>1. Busy
        BY <1>6a DEF Takes, Busy
      <3>2. req.kind \in Powers \cup {"save"}
        BY <1>1 DEF Request
      <3>3. QED
        BY <1>6, <3>1, <3>2 DEF AgreeInv
    <2>2. StoreBegins(W) \/ (wpc = "idle" /\ UNCHANGED storeVars)
      BY <1>6a DEF Takes
    <2>3. /\ req.pc # "none"
          /\ UNCHANGED <<poll, valid, pend, tried, saved, confirmed, stray>>
      BY <1>6a DEF Takes, history
    <2>4. req'.kind = req.kind /\ req'.data = req.data
      BY <1>1, <1>6a DEF Takes, Request
    <2> HIDE DEF W
    <2>5. maybe' = maybe /\ (wpc' \in Phases => target' = W)
      <3>1. CASE StoreBegins(W)
        BY <3>1 DEF StoreBegins
      <3>2. CASE wpc = "idle" /\ UNCHANGED storeVars
        BY <3>2 DEF storeVars, writer, Phases, CanFail
      <3>3. QED
        BY <2>2, <3>1, <3>2
    <2>6. QED
      BY <2>1, <2>3, <2>4, <2>5 DEF AgreeInv, Agrees, Busy, CaughtUp
  <1>6b. CASE TakesLate
    <2>1. PICK a \in stray : /\ \/ StoreBegins(Wanted(a.kind, a.data))
                                \/ UNCHANGED storeVars
                             /\ stray' = {}
      BY <1>6b DEF TakesLate
    <2> DEFINE W == Wanted(a.kind, a.data)
    <2>2. Agrees(W)
      <3>1. a.kind \in Powers \cup {"save"}
        BY DEF PageInv, PageTypeOK
      <3>2. QED
        BY <1>6, <3>1 DEF AgreeInv
    <2>3. UNCHANGED <<req, poll, valid, pend, tried, saved, confirmed>>
      BY <1>6b DEF TakesLate, history
    <2>4. StoreBegins(W) \/ (maybe' = maybe /\ wpc' = wpc /\ target' = target)
      BY <2>1 DEF storeVars, writer
    <2> HIDE DEF W
    <2>5. /\ maybe' = maybe
          /\ wpc' \in Phases => target' = W \/ (wpc \in Phases /\ target' = target)
      BY <2>4 DEF StoreBegins
    <2>6. QED
      BY <2>1, <2>2, <2>3, <2>5 DEF AgreeInv, Agrees, Busy, CaughtUp
  <1>7. CASE Writes \/ WritesUnsynced \/ Kernel
    <2>1. StoreWorks \/ StoreSettlesNothing \/ Writeback
      BY <1>7 DEF Writes, WritesUnsynced, Kernel
    <2>2. UNCHANGED <<pageVars, history>>
      BY <1>7 DEF Writes, WritesUnsynced, Kernel
    <2>3. QED
      BY <2>1, <2>2, StoreKeeps, AgreeSame DEF PageInv, pageVars, history
  <1>8. CASE Written \/ WriteStops
    <2>1. StoreReturns \/ StoreStops
      BY <1>8 DEF Written, WriteStops
    <2>2. UNCHANGED <<poll, valid, pend, tried, saved, confirmed, stray>>
      BY <1>8 DEF Written, WriteStops, history
    <2>3. req'.pc # "none" => req.pc # "none" /\ req'.kind = req.kind /\ req'.data = req.data
      BY <1>1, <1>8 DEF Written, WriteStops, Answer, Request
    <2>4. QED
      BY <2>1, <2>2, <2>3, StoreKeeps, AgreeSame DEF PageInv
  <1>9. CASE Refuses
    BY <1>1, <1>9, AgreeSame DEF Refuses, storeVars, writer, history, Request
  <1>10. CASE RouterLosesPower
    <2>1. maybe'["file"] \subseteq maybe["file"] /\ wpc' = "idle"
      <3>1. PICK f \in maybe["file"], p \in maybe["previous"] :
              /\ now' = [n \in Names |-> IF n = "file" THEN f ELSE p]
              /\ maybe' = [n \in Names |-> {now'[n]}]
        BY <1>10 DEF RouterLosesPower, PowerLoss
      <3>2. maybe'["file"] = {f}
        BY <3>1 DEF Names
      <3>3. QED
        BY <1>10, <3>2 DEF RouterLosesPower, PowerLoss
    <2>2. req'.pc # "none" => req.pc # "none" /\ req'.kind = req.kind /\ req'.data = req.data
      BY <1>1, <1>10 DEF RouterLosesPower, Request
    <2>3. poll' = poll \/ poll'.pc # "read"
      BY <1>10 DEF RouterLosesPower, NoPoll
    <2>4. \/ tried' = tried /\ (valid' => valid)
          \/ ~ valid' /\ poll'.pc # "read"
      <3>1. CASE poll.pc = "sent" /\ poll.current
        BY <1>10, <3>1 DEF RouterLosesPower, NoPoll
      <3>2. CASE ~ (poll.pc = "sent" /\ poll.current)
        <4>1. tried \in BOOLEAN
          BY DEF PageInv, PageTypeOK
        <4>2. QED
          BY <1>10, <3>2, <4>1 DEF RouterLosesPower
      <3>3. QED
        BY <3>1, <3>2
    <2>5. UNCHANGED <<saved, pend, confirmed>> /\ stray' = {}
      BY <1>10 DEF RouterLosesPower
    <2>6. QED
      BY <2>1, <2>2, <2>3, <2>4, <2>5, AgreeSame DEF Phases, CanFail
  <1>11. CASE Confirms
    <2>1. ~ tried /\ (poll.pc # "idle" /\ poll.current => ~ poll.after)
      BY <1>11 DEF Confirms, PageInv, CatchUpInv, Busy
    <2>2. req.pc = "ok" /\ wpc = "idle" /\ Busy
      BY <1>11 DEF Confirms, PageInv, RequestInv, Busy
    <2>3. /\ wpc' = wpc /\ maybe' = maybe /\ target' = target /\ req' = NoReq
          /\ pend' /\ tried' = tried /\ poll' = Refreshed /\ stray' = {}
      BY <1>11, <2>2 DEF Confirms, storeVars, writer, PageInv, RequestInv
    <2>4. ~ CaughtUp'
      BY <2>1, <2>3 DEF CaughtUp
    <2>5. ~ (poll'.pc = "read" /\ poll'.current /\ poll'.after)
      BY <2>1, <2>3 DEF Refreshed
    <2>6. \A c \in maybe["file"] : \A f \in Fields : confirmed'[f] \in {NoFile, c[f]}
      <3>1. CASE confirmed' = confirmed
        BY <3>1 DEF AgreeInv, Agrees
      <3>2. CASE req.kind = "save" /\ req.sure /\ confirmed' = req.data
        <4>1. \A c \in maybe["file"] : c = req.data
          BY <2>2, <3>2 DEF PageInv, RequestInv
        <4>2. QED
          BY <3>2, <4>1
      <3>3. CASE /\ req.kind \in {"start", "stop"} /\ req.sure
                 /\ confirmed' = [confirmed EXCEPT !["enabled"] = req.kind = "start"]
        <4>1. \A c \in maybe["file"] : c = now["file"]
          BY <2>2, <3>3 DEF PageInv, RequestInv
        <4>2. now["file"]["enabled"] = (req.kind = "start")
          BY <2>2, <3>3 DEF PageInv, RequestInv
        <4>3. Agrees(now["file"])
          BY <1>1 DEF AgreeInv
        <4>4. \A f \in Fields : confirmed'[f] \in {NoFile, now["file"][f]}
          <5>1. confirmed'["enabled"] = now["file"]["enabled"]
            BY <1>1, <3>3, <4>2
          <5>2. \A f \in Fields \ {"enabled"} : confirmed'[f] = confirmed[f]
            BY <1>1, <3>3
          <5>3. QED
            BY <4>3, <5>1, <5>2 DEF Agrees
        <4>5. QED
          BY <4>1, <4>4
      <3>4. QED
        BY <1>1, <1>11, <3>1, <3>2, <3>3 DEF Confirms, Request, Powers
    <2>7. QED
      BY <2>2, <2>3, <2>4, <2>5, <2>6 DEF AgreeInv, Agrees, Busy, NoReq, Phases, CanFail, CaughtUp
  <1>12. CASE ConfirmsNothing
    <2>1. poll' = poll \/ poll'.pc # "read"
      BY <1>12 DEF ConfirmsNothing, Refreshed
    <2>2. QED
      BY <1>12, <2>1, AgreeSame DEF ConfirmsNothing, storeVars, writer, NoReq
  <1>13. CASE StopsWaiting
    <2>1. CaughtUp
      BY <1>13 DEF StopsWaiting, CaughtUp
    <2>2. QED
      BY <1>13, <2>1 DEF StopsWaiting, AgreeInv, Agrees, Busy, storeVars, writer, history
  <1>14. CASE PollStarts
    <2>1. poll'.pc # "read"
      BY <1>1, <1>14 DEF PollStarts, Refreshed
    <2>2. QED
      BY <1>14, <2>1, AgreeSame DEF PollStarts, storeVars, writer, history
  <1>15. CASE PollReads
    <2>1. poll'.cfg = now["file"]
      BY <1>1, <1>15 DEF PollReads, Poll
    <2>2. Agrees(now["file"])
      BY <1>1 DEF AgreeInv
    <2>3. QED
      BY <1>15, <2>1, <2>2 DEF PollReads, AgreeInv, Agrees, Busy, CaughtUp, storeVars, writer, history
  <1>16. CASE PollAnswers
    <2>1. poll.pc = "read" /\ poll' = NoPoll /\ tried' = (tried \/ (poll.current /\ poll.after))
      BY <1>16 DEF PollAnswers
    <2>2. UNCHANGED <<now, maybe, wpc, target, pend, req, confirmed, stray>>
      BY <1>16 DEF PollAnswers, storeVars, writer
    <2>3. poll'.pc # "read"
      BY <2>1 DEF NoPoll
    <2>4. valid' /\ CaughtUp' => Agrees(saved')
      <3>1. CASE poll.current
        <4>1. saved' = poll.cfg
          BY <1>16, <3>1 DEF PollAnswers
        <4>2. CaughtUp' => CaughtUp \/ poll.after
          BY <2>1, <2>2 DEF CaughtUp
        <4>3. QED
          BY <2>1, <3>1, <4>1, <4>2 DEF AgreeInv
      <3>2. CASE ~ poll.current
        <4>1. saved' = saved /\ valid' = valid
          BY <1>16, <3>2 DEF PollAnswers
        <4>2. CaughtUp' => CaughtUp
          BY <2>1, <2>2, <3>2 DEF CaughtUp
        <4>3. QED
          BY <4>1, <4>2 DEF AgreeInv
      <3>3. QED
        BY <3>1, <3>2
    <2>5. QED
      BY <2>2, <2>3, <2>4 DEF AgreeInv, Agrees, Busy
  <1>17. CASE PollFails
    <2>1. poll'.pc # "read"
      BY <1>17 DEF PollFails, NoPoll
    <2>2. \/ tried' = tried /\ (valid' => valid)
          \/ ~ valid' /\ poll'.pc # "read"
      <3>1. CASE poll.current
        BY <1>17, <2>1, <3>1 DEF PollFails
      <3>2. CASE ~ poll.current
        <4>1. tried \in BOOLEAN
          BY DEF PageInv, PageTypeOK
        <4>2. QED
          BY <1>17, <3>2, <4>1 DEF PollFails
      <3>3. QED
        BY <3>1, <3>2
    <2>3. QED
      BY <1>17, <2>1, <2>2, AgreeSame DEF PollFails, storeVars, writer
  <1>18. CASE UNCHANGED pvars
    BY <1>18, AgreeSame DEF pvars, pageVars, history, storeVars, writer
  <1>19. QED
    BY <1>2, <1>4, <1>5, <1>6a, <1>6b, <1>7, <1>8, <1>9, <1>10, <1>11, <1>12, <1>13, <1>14, <1>15, <1>16,
       <1>17, <1>18 DEF Next, User, Router, Page
------------------------------------------------------------------------------
LEMMA PageInitHolds ==
  ASSUME PageInit
  PROVE  PageInv /\ AgreeInv
  <1>1. StoreInv /\ wpc = "idle"
    BY InitHolds DEF PageInit, StoreInit
  <1>2. form \in Settings
    BY PageAssumption DEF PageInit
  <1>3. PageTypeOK
    <2>1. confirmed \in [Fields -> BOOLEAN \cup {NoFile}]
      BY DEF PageInit, Nothing
    <2>2. NoReq \in Request /\ NoPoll \in Poll
      BY DEF NoReq, NoPoll, Request, Poll
    <2>3. posts \in 0..MaxPosts /\ edits \in 0..MaxEdits
      BY PageAssumption DEF PageInit
    <2>4. form \in Settings /\ saved \in Settings
      BY <1>2 DEF PageInit
    <2>5. StoreTypeOK
      BY <1>1 DEF StoreInv
    <2>6. QED
      BY <2>1, <2>2, <2>3, <2>4, <2>5 DEF PageInit, PageTypeOK, Request, Poll, Post
  <1>4. RequestInv /\ CatchUpInv /\ DraftInv
    BY DEF PageInit, RequestInv, CatchUpInv, DraftInv, NoReq, NoPoll, Busy
  <1>5. \A c : Agrees(c)
    BY DEF PageInit, Nothing, Agrees
  <1>6. AgreeInv
    BY <1>1, <1>5 DEF AgreeInv, PageInit, NoReq, NoPoll, Busy
  <1>7. QED
    BY <1>1, <1>3, <1>4, <1>6 DEF PageInv

\* The page's variables have their types, requests and store are in step, and no
\* status counts too early, whatever the user does.
THEOREM PageInvariant == Spec => []PageInv
  <1>1. PageInit => PageInv
    BY PageInitHolds
  <1>2. PageInv /\ [Next]_pvars => PageInv'
    BY StoreInvStep, TypeStep, RequestStep, CatchUpStep, DraftStep DEF PageInv
  <1>3. QED
    BY <1>1, <1>2, PTL DEF Spec

\* Every variable has its type.
THEOREM PageTypeCorrect == Spec => []PageTypeOK
  <1>1. PageInv => PageTypeOK
    BY DEF PageInv
  <1>2. QED
    BY <1>1, PageInvariant, PTL

\* What the page has told the user stays, for any number of fields, requests, edits
\* and faults, until the user asks for something else.
THEOREM ConfirmedSettingsStay == Spec => []ConfirmedStays
  <1>1. PageInit => AgreeInv
    BY PageInitHolds
  <1>2. PageInv /\ AgreeInv /\ [Next]_pvars => AgreeInv'
    BY AgreeStep
  <1>3. PageInv /\ AgreeInv => ConfirmedStays
    BY DEF PageInv, StoreInv, FlashIsComplete, Names, AgreeInv, ConfirmedStays
  <1>4. QED
    BY <1>1, <1>2, <1>3, PageInvariant, PTL DEF Spec

\* A draft is changed by the user alone.
THEOREM DraftIsProtected == Spec => DraftIsTheUsers
  <1>1. ASSUME PageInv, [Next]_pvars, Dirty, form' # form
        PROVE  edits' # edits
    <2>1. edits \in Nat
      BY <1>1, PageAssumption DEF PageInv, PageTypeOK
    <2>2. ~ Confirms
      BY <1>1 DEF Confirms, FormAfterSave, PageInv, DraftInv, Busy
    <2>3. ~ PollAnswers
      BY <1>1 DEF PollAnswers
    <2>4. Edit \/ Discard
      BY <1>1, <2>2, <2>3
         DEF Next, User, Save, Action, Posts, Router, Takes, TakesLate, Writes, WritesUnsynced, Written, WriteStops, Refuses,
             Kernel, RouterLosesPower, Page, ConfirmsNothing, PollStarts, PollReads, StopsWaiting,
             PollFails, pageVars, pvars
    <2>5. edits' = edits + 1
      BY <2>4 DEF Edit, Discard
    <2>6. QED
      BY <2>1, <2>5
  <1>2. PageInv /\ [Next]_pvars => [Dirty /\ form' # form => edits' # edits]_pvars
    BY <1>1
  <1>3. QED
    BY <1>2, PageInvariant, PTL DEF Spec, DraftIsTheUsers

\* The page's requests, interrupted anywhere, use the settings file as
\* SettingsFile has it.
THEOREM PageImplementsFile == Spec => ImplementsSettingsFile
  <1>1. PageInit => SF!Init
    BY InitImplements DEF PageInit
  <1>2. PageInv /\ [Next]_pvars => [SF!Next]_SF!vars
    <2>1. ASSUME PageInv, [Next]_pvars PROVE [SF!Next]_SF!vars
      <3>1. CASE [StoreNext]_svars
        BY <2>1, <3>1, StepImplements DEF PageInv
      <3>2. CASE UNCHANGED storeVars
        BY <3>2 DEF SF!vars, storeVars, writer
      <3>3. QED
        BY <2>1, <3>1, <3>2, StoreSteps DEF PageInv
    <2>2. QED
      BY <2>1
  <1>3. QED
    BY <1>1, <1>2, PageInvariant, PTL DEF Spec, ImplementsSettingsFile, SF!Spec
=============================================================================
