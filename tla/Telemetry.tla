------------------------------ MODULE Telemetry ------------------------------
(***************************************************************************)
(* The status dashboard's collector: rounds of read-only commands, the     *)
(* view made of them and the snapshot that the public page reads.          *)
(*                                                                         *)
(* A round starts one goroutine per probe.  They share a semaphore of      *)
(* Slots; the modem's commands are serialized as well, by a lock that is   *)
(* taken inside the slot.  The round has a deadline at which waiting       *)
(* probes give up, but a command that has its slot is not part of it: it   *)
(* ends by its own limit.  One IPsec tunnel stands for what is observed:   *)
(* it goes up and down, and two of the probes read it, one through         *)
(* RutOS's API and one through strongSwan's list of associations.          *)
(* Time is discrete; it passes only when nothing can be done at once.      *)
(***************************************************************************)
EXTENDS Naturals, FiniteSets

CONSTANTS
  Modem,         \* the probes that ask the modem (gsmctl)
  Plain,         \* the other probes
  Swan, Api,     \* the two of these that observe the tunnel
  Slots,         \* commands at a time (4)
  RoundTime,     \* deadline of a round (14 s)
  CommandTime,   \* limit of a command with the grace of its kill (2.5 s + 1 s)
  ViewTime,      \* bound: radio and public-address commands between two views
  PauseTime      \* pause after a round (15 s)

Probes    == Modem \cup Plain
Observers == {Swan, Api}

\* Commands that can still be due, one after another, when a round ends.
Backlog == IF Cardinality(Modem) < Slots THEN Cardinality(Modem) ELSE Slots

\* How long a round takes at most.
RoundBound == RoundTime + (IF Backlog = 0 THEN 1 ELSE Backlog) * CommandTime

\* How old a snapshot becomes before the next one replaces it.
AgeBound == ViewTime + PauseTime + RoundBound + ViewTime

\* How long ago what a snapshot says was observed.
Horizon == AgeBound + RoundBound

ASSUME ProbesAssumption ==
  /\ IsFiniteSet(Modem) /\ IsFiniteSet(Plain)
  /\ Modem \cap Plain = {}
  /\ Swan \in Plain /\ Api \in Plain /\ Swan # Api

ASSUME TimesAssumption ==
  /\ {RoundTime, ViewTime} \subseteq Nat
  /\ {Slots, CommandTime, PauseTime} \subseteq Nat \ {0}

VARIABLES
  at,        \* what the goroutine of each probe is at
  raw,       \* what the tunnel's probes left in the round's map; "none": no entry
  locked,    \* probe that holds the modem lock; {} if none
  left,      \* time until the limit of each running command
  phase,     \* what the collector's loop is at
  due,       \* time until the deadline of that phase
  made,      \* state of the tunnel in the view that is being made
  madeAge,   \* time since the probes of that view had ended (Observed)
  shown,     \* state of the tunnel in the snapshot
  age,       \* time since the snapshot's Observed, or since the start
  stopped,   \* the collector's context is cancelled
  up,        \* the tunnel is up
  sinceUp,   \* time since it was last up,
  sinceDown  \* and since it was last down; both stop at Horizon + 1

round == <<at, raw, locked, left>>
view  == <<made, madeAge, shown, age>>
world == <<up, sinceUp, sinceDown>>
vars  == <<round, phase, due, view, stopped, world>>

Readings == {"none", "error", "up", "down"}
States   == {"nothing", "connected", "disconnected"}

\* Every variable has its type.
TypeOK ==
  /\ at \in [Probes -> {"waiting", "modem", "running", "done"}]
  /\ raw \in [Observers -> Readings]
  /\ locked \in SUBSET Modem /\ Cardinality(locked) <= 1
  /\ left \in [Probes -> 0..CommandTime]
  /\ phase \in {"round", "view", "pause", "ended"}
  /\ due \in Nat
  /\ {made, shown} \subseteq States
  /\ {madeAge, age, sinceUp, sinceDown} \subseteq Nat
  /\ {stopped, up} \subseteq BOOLEAN

Holding == {p \in Probes : at[p] \in {"modem", "running"}}

\* ctx.Err() of a round: its time has passed or the server is stopping.
Over == stopped \/ due = 0

Init ==
  /\ at = [p \in Probes |-> "waiting"]
  /\ raw = [p \in Observers |-> "none"]
  /\ locked = {}
  /\ left = [p \in Probes |-> 0]
  /\ phase = "round" /\ due = RoundTime
  /\ made = "nothing" /\ madeAge = 0
  /\ shown = "nothing" /\ age = 0
  /\ stopped = FALSE
  /\ up \in BOOLEAN
  /\ sinceUp = IF up THEN 0 ELSE Horizon + 1
  /\ sinceDown = IF up THEN Horizon + 1 ELSE 0

-----------------------------------------------------------------------------
\* One round (probeAll).

\* Mutant of AfterSlot: the context is not looked at again.
StartsAnyway(p) == IF p \in Modem THEN "modem" ELSE "running"

\* A goroutine that has its slot looks at the context before it goes on.
AfterSlot(p) ==
  CASE Over -> "done"
    [] ~Over /\ p \in Modem -> "modem"
    [] ~Over /\ p \in Plain -> "running"

TakesSlot(p) ==
  /\ phase = "round" /\ at[p] = "waiting"
  /\ Cardinality(Holding) < Slots
  /\ at' = [at EXCEPT ![p] = AfterSlot(p)]
  /\ left' = IF AfterSlot(p) = "running" THEN [left EXCEPT ![p] = CommandTime] ELSE left
  /\ UNCHANGED <<raw, locked, phase, due, view, stopped, world>>

\* The deadline, or the end of the server, ends a wait for a slot.
GivesUp(p) ==
  /\ phase = "round" /\ at[p] = "waiting" /\ Over
  /\ at' = [at EXCEPT ![p] = "done"]
  /\ UNCHANGED <<raw, locked, left, phase, due, view, stopped, world>>

\* The lock is not given up for a deadline, and nothing is looked at after it.
TakesModem(p) ==
  /\ at[p] = "modem" /\ locked = {}
  /\ locked' = {p}
  /\ at' = [at EXCEPT ![p] = "running"]
  /\ left' = [left EXCEPT ![p] = CommandTime]
  /\ UNCHANGED <<raw, phase, due, view, stopped, world>>

\* Lock and slot are given back however the command ends: it fails or is killed,
\* or it has read the tunnel (the modem's commands read something else).
Outcomes == {"error", IF up THEN "up" ELSE "down"}

Ends(p) == \E r \in Outcomes :
  /\ at[p] = "running"
  /\ at' = [at EXCEPT ![p] = "done"]
  /\ raw' = IF p \in Observers THEN [raw EXCEPT ![p] = r] ELSE raw
  /\ locked' = locked \ {p}
  /\ left' = [left EXCEPT ![p] = 0]
  /\ UNCHANGED <<phase, due, view, stopped, world>>

-----------------------------------------------------------------------------
\* The view (collectRouter) and the snapshot.

Seen == {"up", "down"}

\* State of the tunnel by the list of associations: one the API names and the
\* list does not is disconnected.  A probe that left no entry has an empty
\* list and no error.
SwanSays ==
  CASE raw[Swan] = "up" -> "connected"
    [] raw[Swan] # "up" /\ raw[Api] \in Seen -> "disconnected"
    [] raw[Swan] # "up" /\ raw[Api] \notin Seen -> "nothing"

ApiSays ==
  CASE raw[Api] = "up" -> "connected"
    [] raw[Api] = "down" -> "disconnected"
    [] raw[Api] \notin Seen -> "nothing"

Observation == IF raw[Swan] = "error" THEN ApiSays ELSE SwanSays

\* Mutant of NextRoundsMap: the probes write to a map that is kept.
KeptMap == raw

NextRoundsMap == [p \in Observers |-> "none"]

RoundEnds ==
  /\ phase = "round" /\ \A p \in Probes : at[p] = "done"
  /\ phase' = IF stopped THEN "ended" ELSE "view"
  /\ due' = IF stopped THEN 0 ELSE ViewTime
  /\ made' = Observation /\ madeAge' = 0
  /\ UNCHANGED <<round, shown, age, stopped, world>>

\* Radios and public addresses have been asked; the view becomes the snapshot.
\* Nothing exceeds the limits of validateRouterView.
Replaces ==
  /\ phase = "view"
  /\ phase' = "pause" /\ due' = PauseTime
  /\ shown' = made /\ age' = madeAge
  /\ UNCHANGED <<round, made, madeAge, stopped, world>>

\* A round begins with a map and goroutines of its own.
RoundStarts ==
  /\ phase = "pause" /\ due = 0 /\ ~stopped
  /\ phase' = "round" /\ due' = RoundTime
  /\ at' = [p \in Probes |-> "waiting"]
  /\ raw' = NextRoundsMap
  /\ UNCHANGED <<locked, left, view, stopped, world>>

LoopEnds ==
  /\ phase = "pause" /\ stopped
  /\ phase' = "ended" /\ due' = 0
  /\ UNCHANGED <<round, view, stopped, world>>

-----------------------------------------------------------------------------
\* The world: the server is stopped, the tunnel changes, time passes.

Stop ==
  /\ ~stopped /\ stopped' = TRUE
  /\ UNCHANGED <<round, phase, due, view, world>>

TunnelChanges ==
  /\ up' = ~up
  /\ sinceUp' = IF up THEN sinceUp ELSE 0
  /\ sinceDown' = IF up THEN 0 ELSE sinceDown
  /\ UNCHANGED <<round, phase, due, view, stopped>>

\* Somebody can go on at once, or has come to a limit.
Urgent ==
  \/ /\ phase = "round"
     /\ \/ \E p \in Probes : at[p] = "waiting" /\ (Cardinality(Holding) < Slots \/ Over)
        \/ \E p \in Probes : at[p] = "modem" /\ locked = {}
        \/ \E p \in Probes : at[p] = "running" /\ left[p] = 0
        \/ \A p \in Probes : at[p] = "done"
  \/ phase = "view" /\ due = 0
  \/ phase = "pause" /\ (due = 0 \/ stopped)

Older(n) == IF n > Horizon THEN n ELSE n + 1

Tick ==
  /\ ~Urgent
  /\ due' = IF due = 0 THEN 0 ELSE due - 1
  /\ left' = [p \in Probes |-> IF at[p] = "running" THEN left[p] - 1 ELSE left[p]]
  /\ madeAge' = IF phase = "view" THEN madeAge + 1 ELSE 0
  /\ age' = IF phase = "ended" THEN age ELSE Older(age)
  /\ sinceUp' = IF up THEN 0 ELSE Older(sinceUp)
  /\ sinceDown' = IF up THEN Older(sinceDown) ELSE 0
  /\ UNCHANGED <<at, raw, locked, phase, made, shown, stopped, up>>

Collector ==
  \/ \E p \in Probes : TakesSlot(p) \/ GivesUp(p) \/ TakesModem(p) \/ Ends(p)
  \/ RoundEnds \/ Replaces \/ RoundStarts \/ LoopEnds

Next == Collector \/ Stop \/ TunnelChanges \/ Tick

Spec == Init /\ [][Next]_vars

-----------------------------------------------------------------------------
(* Properties                                                              *)

\* While the collector runs, the page has its first snapshot within AgeBound and
\* later none that old: commands that outlive the deadline of their round, the
\* modem's queue in front, delay the next snapshot by no more than Backlog of
\* them.  With the code's times AgeBound is 43 s and twice the time of the radio
\* and public-address commands; the page calls a snapshot stale after 45 s
\* (dashboardHandler), which a healthy collector may come to.
SnapshotIsRecent == phase # "ended" => age < AgeBound

\* A tunnel that the page shows as connected was up within the time that the
\* snapshot and the round it was made in can take.  Whatever was killed,
\* failed, skipped or contradicted, no reading of an earlier round is in it.
ConnectedWasUp == phase # "ended" /\ shown = "connected" => sinceUp < Horizon

\* And a tunnel it shows as disconnected was down within that time.  This is
\* what "Missing observations are never invented" (telemetry_collect.go:3) and
\* docs/public-status.md:57 promise.  It does not hold: a probe that was
\* skipped has no entry, which reads as an empty list without an error.
DisconnectedWasDown == phase # "ended" /\ shown = "disconnected" => sinceDown < Horizon
=============================================================================
