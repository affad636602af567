---------------------------- MODULE SettingsFile ----------------------------
(***************************************************************************)
(* What a save promises about the settings on the flash: at any moment,    *)
(* power failures included, the file is one complete set of settings that  *)
(* somebody asked for; it is replaced only after a copy of what it         *)
(* replaces is safe; and a save that has been confirmed is permanent.  The *)
(* last two are promised as long as the flash does what it is told to.     *)
(* SettingsStore is how writeSettings does it.                             *)
(***************************************************************************)
CONSTANTS
  Settings,      \* the settings that pass validation
  NoFile         \* "no backup yet" and "nothing asked for"

VARIABLES
  file,          \* the settings file
  backup,        \* the copy of what it replaced last
  durable,       \* the pairs of both that a power failure may leave
  asked,         \* the settings being saved, or NoFile
  sound          \* no sync has failed since everything was last on the flash

vars == <<file, backup, durable, asked, sound>>

Init == /\ file \in Settings
        /\ backup \in Settings \cup {NoFile}
        /\ durable = {<<file, backup>>}
        /\ asked = NoFile
        /\ sound = TRUE

Ask(c) == /\ asked = NoFile
          /\ asked' = c
          /\ UNCHANGED <<file, backup, durable, sound>>

Copy == /\ asked # NoFile
        /\ backup' = file
        /\ durable' = durable \cup {<<d[1], file>> : d \in durable}
        /\ UNCHANGED <<file, asked, sound>>

\* The copy is safe, and so is the file it is a copy of.
Replace == /\ asked # NoFile
           /\ backup = file
           /\ sound => durable = {<<file, file>>}
           /\ file' = asked
           /\ durable' = durable \cup {<<asked, d[2]>> : d \in durable}
           /\ UNCHANGED <<backup, asked, sound>>

\* Something reaches the flash, or fails to.
Settle == /\ durable' \subseteq durable
          /\ <<file, backup>> \in durable'
          /\ sound' \in BOOLEAN
          /\ sound' => sound \/ durable' = {<<file, backup>>}
          /\ UNCHANGED <<file, backup, asked>>

Confirm == /\ asked = file
           /\ sound => durable = {<<file, backup>>}
           /\ asked' = NoFile
           /\ UNCHANGED <<file, backup, durable, sound>>

\* An error or a kill, before or after the replacement; nothing was confirmed.
GiveUp == /\ asked' = NoFile
          /\ UNCHANGED <<file, backup, durable, sound>>

PowerLoss == /\ <<file', backup'>> \in durable
             /\ durable' = {<<file', backup'>>}
             /\ asked' = NoFile
             /\ sound' = TRUE

Next == \/ \E c \in Settings : Ask(c)
        \/ Copy \/ Replace \/ Settle \/ Confirm \/ GiveUp \/ PowerLoss

Spec == Init /\ [][Next]_vars
=============================================================================
