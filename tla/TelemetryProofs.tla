--------------------------- MODULE TelemetryProofs ---------------------------
(***************************************************************************)
(* Proofs about Telemetry for any probes, slots and times.  A round is     *)
(* followed by a clock, the time e since it began.  Before its deadline e  *)
(* and what is left of it are the deadline (RoundClock).  After it nothing *)
(* starts, and what is bounded is the work ahead: each command on its own, *)
(* and those of the modem one after another, as many as hold a slot.       *)
(***************************************************************************)
EXTENDS Telemetry, FiniteSetTheorems, TLAPS

\* The probes of the modem that hold a slot, and the time they need one by one.
Queue  == {p \in Modem : at[p] \in {"modem", "running"}}
Demand == Cardinality(Queue) * CommandTime

Types ==
  /\ at \in [Probes -> {"waiting", "modem", "running", "done"}]
  /\ raw \in [Observers -> Readings]
  /\ locked \subseteq Modem
  /\ left \in [Probes -> 0..CommandTime]
  /\ phase \in {"round", "view", "pause", "ended"}
  /\ due \in Nat
  /\ age \in Nat /\ madeAge \in Nat /\ sinceUp \in Nat

\* Who holds the modem, and how many hold a slot.
SlotInv ==
  /\ \A p, q \in locked : p = q
  /\ \A p \in Modem : at[p] = "running" <=> p \in locked
  /\ \A p \in Plain : at[p] # "modem"
  /\ Cardinality(Holding) <= Slots
  /\ phase # "round" => \A p \in Probes : at[p] = "done"

RoundClock(e) ==
  /\ due > 0 => e + due <= RoundTime
  /\ due = 0 =>
       /\ e < RoundBound
       /\ \A p \in Plain : at[p] = "running" => e + left[p] < RoundBound
       /\ \A p \in locked : e + left[p] + Demand < RoundBound + CommandTime
       /\ locked = {} => e + Demand < RoundBound

\* Of a reading or a snapshot no more than the times of its making have passed.
RoundAge(e) ==
  /\ RoundClock(e)
  /\ age <= ViewTime + PauseTime + e
  /\ \A o \in Observers : raw[o] = "up" => sinceUp <= e

ViewAge ==
  /\ madeAge + due <= ViewTime
  /\ age + due < ViewTime + PauseTime + RoundBound + ViewTime
  /\ made = "connected" => sinceUp < madeAge + RoundBound

ShownAge == phase # "ended" /\ shown = "connected" => sinceUp < age + RoundBound

AgeInv ==
  /\ phase = "round" => \E e \in Nat : RoundAge(e)
  /\ phase = "view" => ViewAge
  /\ phase = "pause" => age + due <= ViewTime + PauseTime
  /\ ShownAge

UpInv == up => sinceUp = 0

Inv == Types /\ SlotInv /\ AgeInv /\ UpInv
------------------------------------------------------------------------------
(* Numbers and sets.                                                        *)

LEMMA ProductStep ==
  ASSUME NEW n \in Nat, NEW c \in Nat
  PROVE  n * c \in Nat /\ (n + 1) * c = n * c + c
  OBVIOUS

LEMMA ProductMonotone ==
  ASSUME NEW m \in Nat, NEW n \in Nat, NEW c \in Nat, m <= n
  PROVE  m * c <= n * c
  OBVIOUS

LEMMA ProbesFinite == IsFiniteSet(Probes)
  BY ProbesAssumption, FS_Union DEF Probes

LEMMA BacklogNat == Backlog \in Nat /\ Backlog <= Cardinality(Modem) /\ Backlog <= Slots
  BY ProbesAssumption, TimesAssumption, FS_CardinalityType DEF Backlog

\* The work behind the deadline: what the bound of a round allows for it.
LEMMA BoundSplits ==
  /\ RoundBound \in Nat /\ RoundTime \in Nat /\ CommandTime \in Nat
  /\ RoundTime + CommandTime <= RoundBound
  /\ Backlog * CommandTime \in Nat
  /\ RoundTime + Backlog * CommandTime <= RoundBound
  /\ CommandTime > 0
<1> DEFINE n == IF Backlog = 0 THEN 1 ELSE Backlog
<1>1. n \in Nat /\ n >= 1 /\ Backlog <= n
  BY BacklogNat
<1>2. /\ n * CommandTime \in Nat /\ CommandTime \in Nat /\ RoundTime \in Nat
      /\ Backlog * CommandTime \in Nat
  BY <1>1, TimesAssumption, ProductStep, BacklogNat
<1>3. Backlog * CommandTime <= n * CommandTime
  BY <1>1, <1>2, BacklogNat, ProductMonotone
<1>4. 1 * CommandTime <= n * CommandTime
  BY <1>1, <1>2, ProductMonotone
<1>5. RoundBound = RoundTime + n * CommandTime
  BY DEF RoundBound
<1> HIDE DEF n
<1>6. QED
  BY <1>2, <1>3, <1>4, <1>5, TimesAssumption

\* Everyone in the modem's queue holds a slot.
LEMMA QueueBounded ==
  ASSUME Types, SlotInv
  PROVE  /\ IsFiniteSet(Queue) /\ Cardinality(Queue) \in Nat
         /\ Demand \in Nat /\ Demand <= Backlog * CommandTime
<1>1. IsFiniteSet(Holding) /\ Queue \subseteq Holding
  BY ProbesFinite, FS_Subset DEF Holding, Queue, Probes
<1>2. IsFiniteSet(Queue) /\ Cardinality(Queue) \in Nat /\ Cardinality(Queue) <= Cardinality(Holding)
  BY <1>1, FS_Subset, FS_CardinalityType
<1>3. Cardinality(Queue) <= Cardinality(Modem)
  BY ProbesAssumption, FS_Subset DEF Queue
<1>4. Cardinality(Holding) \in Nat /\ Cardinality(Modem) \in Nat /\ Slots \in Nat /\ CommandTime \in Nat
  BY <1>1, ProbesAssumption, TimesAssumption, FS_CardinalityType
<1>5. Cardinality(Queue) <= Backlog
  BY <1>2, <1>3, <1>4 DEF SlotInv, Backlog
<1>6. QED
  BY <1>2, <1>4, <1>5, BacklogNat, ProductMonotone, ProductStep DEF Demand

\* If nobody is in the queue, it needs no time; if somebody is, at least one command's.
LEMMA DemandOfEmpty == Queue = {} => Demand = 0
  BY FS_EmptySet, TimesAssumption DEF Demand

LEMMA DemandWithout ==
  ASSUME Types, SlotInv, NEW p \in Queue, Queue' = Queue \ {p}
  PROVE  Demand' + CommandTime = Demand /\ Demand' \in Nat
<1>1. IsFiniteSet(Queue) /\ Cardinality(Queue) \in Nat
  BY QueueBounded
<1>2. Cardinality(Queue') = Cardinality(Queue) - 1 /\ Cardinality(Queue') \in Nat
  BY <1>1, FS_RemoveElement, FS_CardinalityType
<1>3. CommandTime \in Nat
  BY TimesAssumption
<1>4. QED
  BY <1>1, <1>2, <1>3, ProductStep DEF Demand

LEMMA DemandOfMember ==
  ASSUME Types, SlotInv, NEW p \in Queue
  PROVE  CommandTime <= Demand
<1>1. IsFiniteSet(Queue) /\ Cardinality(Queue) \in Nat /\ CommandTime \in Nat
  BY QueueBounded, TimesAssumption
<1>2. Cardinality(Queue) >= 1
  BY <1>1, FS_EmptySet
<1>3. 1 * CommandTime <= Cardinality(Queue) * CommandTime
  BY <1>1, <1>2, ProductMonotone
<1>4. QED
  BY <1>1, <1>3 DEF Demand
------------------------------------------------------------------------------
(* Types, slots and the modem's lock.                                       *)

LEMMA InitInv == Init => Inv
<1> SUFFICES ASSUME Init PROVE Inv
  OBVIOUS
<1>1. Types
  BY TimesAssumption, BoundSplits, BacklogNat DEF Init, Types, Readings, Horizon, AgeBound
<1>2. Holding = {} /\ Queue = {}
  BY DEF Init, Holding, Queue, Probes
<1>3. SlotInv
  BY <1>2, FS_EmptySet, TimesAssumption DEF Init, SlotInv, Probes
<1>4. RoundClock(0)
  BY <1>2, DemandOfEmpty, BoundSplits DEF Init, RoundClock, Probes
<1>5. RoundAge(0)
  BY <1>4, TimesAssumption DEF Init, RoundAge
<1>6. AgeInv
  BY <1>5 DEF Init, AgeInv, ShownAge
<1>7. QED
  BY <1>1, <1>3, <1>6 DEF Inv, Init, UpInv

\* A command runs during a round only, and does not pass its limit.
LEMMA TickMoves ==
  ASSUME Types, SlotInv, Tick
  PROVE  /\ \A p \in Probes : at[p] = "running" => phase = "round" /\ left[p] > 0
         /\ left' \in [Probes -> 0..CommandTime]
         /\ \A p \in Probes : at[p] = "running" => left'[p] + 1 = left[p]
         /\ due' \in Nat /\ (due > 0 => due' = due - 1) /\ (due = 0 => due' = 0)
         /\ sinceUp' \in Nat /\ sinceUp' <= sinceUp + 1 /\ (up' => sinceUp' = 0)
<1>1. ~ Urgent
  BY DEF Tick
<1>2. ASSUME NEW p \in Probes, at[p] = "running" PROVE phase = "round" /\ left[p] > 0
  BY <1>1, <1>2 DEF Urgent, SlotInv, Types
<1>3. left' = [p \in Probes |-> IF at[p] = "running" THEN left[p] - 1 ELSE left[p]]
  BY DEF Tick
<1>4. left' \in [Probes -> 0..CommandTime]
  BY <1>2, <1>3, TimesAssumption DEF Types
<1>5. \A p \in Probes : at[p] = "running" => left'[p] + 1 = left[p]
  BY <1>2, <1>3, TimesAssumption DEF Types
<1>6. due' \in Nat /\ (due > 0 => due' = due - 1) /\ (due = 0 => due' = 0)
  BY DEF Tick, Types
<1>7. sinceUp' \in Nat /\ sinceUp' <= sinceUp + 1
  BY DEF Tick, Types, Older
<1>8. up' => sinceUp' = 0
  BY DEF Tick
<1>9. QED
  BY <1>2, <1>4, <1>5, <1>6, <1>7, <1>8

LEMMA TypesStep == Types /\ SlotInv /\ [Next]_vars => Types'
<1> SUFFICES ASSUME Types, SlotInv, [Next]_vars PROVE Types'
  OBVIOUS
<1> USE TimesAssumption DEF Types
<1>1. ASSUME NEW p \in Probes, TakesSlot(p) PROVE Types'
  BY <1>1 DEF TakesSlot, AfterSlot, view, world, Probes
<1>2. ASSUME NEW p \in Probes, GivesUp(p) PROVE Types'
  BY <1>2 DEF GivesUp, view, world
<1>3. ASSUME NEW p \in Probes, TakesModem(p) PROVE Types'
  BY <1>3 DEF TakesModem, view, world, SlotInv, Probes
<1>4. ASSUME NEW p \in Probes, Ends(p) PROVE Types'
  BY <1>4 DEF Ends, Outcomes, Readings, view, world
<1>5. CASE RoundEnds \/ Replaces \/ RoundStarts \/ LoopEnds
  BY <1>5 DEF RoundEnds, Replaces, RoundStarts, LoopEnds, NextRoundsMap, Readings, round, view, world
<1>6. CASE Stop \/ TunnelChanges
  BY <1>6 DEF Stop, TunnelChanges, round, view, world
<1>7. CASE Tick
  <2>1. left' \in [Probes -> 0..CommandTime] /\ due' \in Nat /\ sinceUp' \in Nat
    BY <1>7, TickMoves
  <2>2. UNCHANGED <<at, raw, locked, phase>> /\ age' \in Nat /\ madeAge' \in Nat
    BY <1>7 DEF Tick, Older
  <2>3. QED
    BY <2>1, <2>2
<1>8. CASE UNCHANGED vars
  BY <1>8 DEF vars, round, view, world
<1>9. QED
  BY <1>1, <1>2, <1>3, <1>4, <1>5, <1>6, <1>7, <1>8 DEF Next, Collector

\* Whoever gets a slot leaves at most Slots of them taken.
LEMMA HoldingBounded ==
  ASSUME Types, SlotInv, [Next]_vars
  PROVE  Cardinality(Holding)' <= Slots
<1>1. IsFiniteSet(Holding) /\ Cardinality(Holding) \in Nat /\ Slots \in Nat
  BY ProbesFinite, FS_Subset, FS_CardinalityType, TimesAssumption DEF Holding
<1>2. CASE Holding' \subseteq Holding
  <2>1. Cardinality(Holding') \in Nat /\ Cardinality(Holding') <= Cardinality(Holding)
    BY <1>1, <1>2, FS_Subset, FS_CardinalityType
  <2>2. QED
    BY <1>1, <2>1 DEF SlotInv
<1>3. ASSUME NEW p \in Probes, TakesSlot(p) PROVE Cardinality(Holding)' <= Slots
  <2>1. Holding' \subseteq Holding \cup {p} /\ Cardinality(Holding) < Slots
    BY <1>3 DEF TakesSlot, Holding, Types
  <2>2. IsFiniteSet(Holding \cup {p}) /\ Cardinality(Holding \cup {p}) <= Cardinality(Holding) + 1
    BY <1>1, FS_AddElement
  <2>3. /\ Cardinality(Holding') \in Nat /\ Cardinality(Holding \cup {p}) \in Nat
        /\ Cardinality(Holding') <= Cardinality(Holding \cup {p})
    BY <2>1, <2>2, FS_Subset, FS_CardinalityType
  <2>4. QED
    BY <1>1, <2>1, <2>2, <2>3
<1>4. ASSUME NEW p \in Probes, GivesUp(p) \/ TakesModem(p) \/ Ends(p) PROVE Holding' \subseteq Holding
  BY <1>4 DEF GivesUp, TakesModem, Ends, Holding, Types
<1>5. CASE \/ RoundEnds \/ Replaces \/ RoundStarts \/ LoopEnds \/ Stop \/ TunnelChanges \/ Tick
           \/ UNCHANGED vars
  <2>1. ASSUME RoundStarts PROVE Holding' \subseteq Holding
    BY <2>1 DEF RoundStarts, Holding
  <2>2. ASSUME ~ RoundStarts PROVE Holding' \subseteq Holding
    BY <1>5, <2>2
    DEF RoundEnds, Replaces, LoopEnds, Stop, TunnelChanges, Tick, vars, round, Holding
  <2>3. Holding' \subseteq Holding
    BY <2>1, <2>2
  <2>4. QED
    BY <1>2, <2>3
<1>6. QED
  BY <1>2, <1>3, <1>4, <1>5 DEF Next, Collector

LEMMA SlotStep == Types /\ SlotInv /\ [Next]_vars => SlotInv'
<1> SUFFICES ASSUME Types, SlotInv, [Next]_vars PROVE SlotInv'
  OBVIOUS
<1> DEFINE LockPart == /\ \A p, q \in locked : p = q
                       /\ \A p \in Modem : at[p] = "running" <=> p \in locked
                       /\ \A p \in Plain : at[p] # "modem"
                       /\ phase # "round" => \A p \in Probes : at[p] = "done"
<1>1. LockPart
  BY DEF SlotInv
<1>2. ASSUME NEW p \in Probes, TakesSlot(p) PROVE LockPart'
  BY <1>1, <1>2, ProbesAssumption DEF TakesSlot, AfterSlot, Types, Probes
<1>3. ASSUME NEW p \in Probes, GivesUp(p) PROVE LockPart'
  BY <1>1, <1>3 DEF GivesUp, Types, Probes
<1>4. ASSUME NEW p \in Probes, TakesModem(p) PROVE LockPart'
  <2>1. p \in Modem /\ phase = "round"
    BY <1>1, <1>4 DEF TakesModem, Probes
  <2>2. QED
    BY <1>1, <1>4, <2>1, ProbesAssumption DEF TakesModem, Types, Probes
<1>5. ASSUME NEW p \in Probes, Ends(p) PROVE LockPart'
  <2>1. phase = "round"
    BY <1>1, <1>5 DEF Ends
  <2>2. QED
    BY <1>1, <1>5, <2>1 DEF Ends, Types, Probes
<1>6. ASSUME RoundEnds \/ Replaces \/ LoopEnds PROVE LockPart'
  BY <1>1, <1>6 DEF RoundEnds, Replaces, LoopEnds, round
<1>7. ASSUME RoundStarts PROVE LockPart'
  BY <1>1, <1>7 DEF RoundStarts, Types, Probes
<1>8. ASSUME Stop \/ TunnelChanges \/ Tick \/ UNCHANGED vars PROVE LockPart'
  BY <1>1, <1>8 DEF Stop, TunnelChanges, Tick, vars, round
<1>9. LockPart'
  BY <1>2, <1>3, <1>4, <1>5, <1>6, <1>7, <1>8 DEF Next, Collector
<1>10. QED
  BY <1>9, HoldingBounded DEF SlotInv

LEMMA UpStep == Types /\ SlotInv /\ UpInv /\ [Next]_vars => UpInv'
<1> SUFFICES ASSUME Types, SlotInv, UpInv, [Next]_vars PROVE UpInv'
  OBVIOUS
<1>1. CASE Tick
  BY <1>1, TickMoves DEF UpInv
<1>2. CASE TunnelChanges
  BY <1>2 DEF TunnelChanges, UpInv
<1>3. CASE ~ Tick /\ ~ TunnelChanges
  BY <1>3 DEF Next, Collector, TakesSlot, GivesUp, TakesModem, Ends, RoundEnds, Replaces, RoundStarts,
              LoopEnds, Stop, vars, world, UpInv
<1>4. QED
  BY <1>1, <1>2, <1>3
------------------------------------------------------------------------------
(* The clock of a round.                                                    *)

\* What starts has been begun before the deadline, or is not begun at all.
LEMMA ClockAtSlot ==
  ASSUME Types, NEW e \in Nat, RoundClock(e),
         NEW p \in Probes, TakesSlot(p) \/ GivesUp(p)
  PROVE  RoundClock(e)'
<1>1. due' = due /\ locked' = locked
  BY DEF TakesSlot, GivesUp
<1>2. CASE due = 0
  <2>1. at[p] = "waiting" /\ at' = [at EXCEPT ![p] = "done"] /\ left' = left
    BY <1>2 DEF TakesSlot, GivesUp, AfterSlot, Over
  <2>2. Queue' = Queue
    BY <2>1 DEF Queue, Types, Probes
  <2>3. \A q \in Plain : at'[q] = "running" => at[q] = "running"
    BY <2>1 DEF Types, Probes
  <2>4. QED
    BY <1>1, <1>2, <2>1, <2>2, <2>3 DEF RoundClock, Demand
<1>3. CASE due # 0
  BY <1>1, <1>3 DEF RoundClock, Types
<1>4. QED
  BY <1>2, <1>3

LEMMA ClockAtModem ==
  ASSUME Types, SlotInv, NEW e \in Nat, RoundClock(e), NEW p \in Probes, TakesModem(p)
  PROVE  RoundClock(e)'
<1>1. /\ p \in Modem /\ at[p] = "modem" /\ locked = {} /\ locked' = {p} /\ due' = due
      /\ at' = [at EXCEPT ![p] = "running"] /\ left' = [left EXCEPT ![p] = CommandTime]
  BY DEF TakesModem, SlotInv, Probes
<1>2. Queue' = Queue
  BY <1>1 DEF Queue, Types, Probes
<1>3. left'[p] = CommandTime
  BY <1>1 DEF Types
<1>4. \A q \in Plain : at'[q] = at[q] /\ left'[q] = left[q]
  BY <1>1, ProbesAssumption DEF Types, Probes
<1>5. Demand \in Nat /\ RoundBound \in Nat /\ CommandTime \in Nat
  BY QueueBounded, BoundSplits
<1>6. QED
  BY <1>1, <1>2, <1>3, <1>4, <1>5 DEF RoundClock, Demand

LEMMA ClockAtEnd ==
  ASSUME Types, SlotInv, NEW e \in Nat, RoundClock(e), NEW p \in Probes, Ends(p)
  PROVE  RoundClock(e)'
<1>1. /\ at[p] = "running" /\ at' = [at EXCEPT ![p] = "done"] /\ locked' = locked \ {p}
      /\ left' = [left EXCEPT ![p] = 0] /\ due' = due
  BY DEF Ends
<1>2. \A q \in Probes \ {p} : at'[q] = at[q] /\ left'[q] = left[q]
  BY <1>1 DEF Types
<1>3. at'[p] = "done"
  BY <1>1 DEF Types
<1>4. \A q \in Plain : at'[q] = "running" => at[q] = "running" /\ left'[q] = left[q]
  BY <1>2, <1>3 DEF Probes
<1>5. Demand \in Nat /\ RoundBound \in Nat /\ CommandTime \in Nat
  BY QueueBounded, BoundSplits
<1>6. CASE p \in Plain
  <2>1. locked' = locked /\ Queue' = Queue /\ \A q \in locked : left'[q] = left[q]
    BY <1>1, <1>2, <1>6, ProbesAssumption DEF Types, Probes, Queue
  <2>2. QED
    BY <1>1, <1>4, <2>1 DEF RoundClock, Demand
<1>7. CASE p \in Modem
  <2>1. p \in Queue /\ Queue' = Queue \ {p}
    BY <1>1, <1>2, <1>3, <1>7 DEF Queue, Probes
  <2>2. Demand' + CommandTime = Demand /\ Demand' \in Nat
    BY <2>1, DemandWithout
  <2>3. p \in locked /\ locked' = {}
    BY <1>1, <1>7 DEF SlotInv
  <2>4. left[p] \in Nat
    BY TimesAssumption DEF Types
  <2>5. due = 0 => e + Demand' < RoundBound
    BY <1>5, <2>2, <2>3, <2>4 DEF RoundClock
  <2>6. QED
    BY <1>1, <1>4, <2>3, <2>5 DEF RoundClock
<1>8. QED
  BY <1>6, <1>7 DEF Probes

\* While time passes somebody works, and the work ahead becomes less.
LEMMA ClockTicks ==
  ASSUME Types, SlotInv, NEW e \in Nat, RoundClock(e), phase = "round", Tick
  PROVE  e + 1 \in Nat /\ RoundClock(e + 1)'
<1>1. /\ \A p \in Probes : at[p] = "running" => left[p] > 0 /\ left'[p] + 1 = left[p]
      /\ left' \in [Probes -> 0..CommandTime]
      /\ due' \in Nat /\ (due > 0 => due' = due - 1) /\ (due = 0 => due' = 0)
  BY TickMoves
<1>2. at' = at /\ locked' = locked /\ ~ Urgent
  BY DEF Tick
<1>3. Queue' = Queue /\ Demand' = Demand
  BY <1>2 DEF Queue, Demand
<1>4. /\ Demand \in Nat /\ Demand <= Backlog * CommandTime /\ Backlog * CommandTime \in Nat
      /\ RoundBound \in Nat /\ RoundTime \in Nat /\ CommandTime \in Nat /\ CommandTime > 0
      /\ RoundTime + CommandTime <= RoundBound /\ RoundTime + Backlog * CommandTime <= RoundBound
  BY QueueBounded, BoundSplits
<1>5. due \in Nat
  BY DEF Types
<1>6. \A p \in Probes : left[p] \in Nat /\ left[p] <= CommandTime /\ left'[p] \in Nat
  BY <1>1, TimesAssumption DEF Types
<1>7. locked = {} => Demand = 0
  <2>1. SUFFICES ASSUME locked = {} PROVE Queue = {}
    BY DemandOfEmpty
  <2>2. \A p \in Modem : at[p] # "modem" /\ at[p] # "running"
    BY <1>2, <2>1 DEF Urgent, SlotInv, Probes
  <2>3. QED
    BY <2>2 DEF Queue
<1>8. \A p \in locked : p \in Probes /\ at[p] = "running"
  BY DEF SlotInv, Types, Probes
<1>9. due # 0 => /\ e + due <= RoundTime
                 /\ due' = due - 1 /\ due' \in Nat
  <2>1. due # 0 => due > 0
    BY <1>5
  <2>2. due > 0 => e + due <= RoundTime
    BY DEF RoundClock
  <2>3. QED
    BY <1>1, <2>1, <2>2
<1>10. CASE due # 0 /\ due # 1
  <2>1. e + due <= RoundTime /\ due' = due - 1 /\ due' \in Nat
    BY <1>9, <1>10
  <2>2. due' # 0
    BY <1>5, <1>10, <2>1
  <2>3. RoundTime \in Nat
    BY BoundSplits
  <2>4. e + 1 + due' <= RoundTime
    BY <1>5, <2>1, <2>3
  <2>5. QED
    BY <2>2, <2>4 DEF RoundClock
<1>11. CASE due = 1
  <2>1. due' = 0 /\ e + 1 <= RoundTime
    BY <1>4, <1>9, <1>11
  <2>2. e + 1 < RoundBound
    BY <1>4, <2>1
  <2>3. ASSUME NEW p \in Plain, at[p] = "running" PROVE e + 1 + left'[p] < RoundBound
    BY <1>1, <1>4, <1>6, <2>1, <2>3 DEF Probes
  <2>4. ASSUME NEW p \in locked PROVE e + 1 + left'[p] + Demand < RoundBound + CommandTime
    BY <1>1, <1>4, <1>6, <1>8, <2>1
  <2>5. locked = {} => e + 1 + Demand < RoundBound
    BY <1>4, <1>7, <2>2
  <2>6. QED
    BY <1>2, <1>3, <2>1, <2>2, <2>3, <2>4, <2>5 DEF RoundClock
<1>12. CASE due = 0
  <2>1. due' = 0
    BY <1>1, <1>12
  <2>2. ASSUME NEW p \in Plain, at[p] = "running"
        PROVE  e + 1 + left'[p] < RoundBound /\ e + 1 < RoundBound
    <3>1. e + left[p] < RoundBound
      BY <1>12, <2>2 DEF RoundClock
    <3>2. left[p] > 0 /\ left'[p] + 1 = left[p] /\ left[p] \in Nat /\ left'[p] \in Nat
      BY <1>1, <1>6, <2>2 DEF Probes
    <3>3. QED
      BY <1>4, <3>1, <3>2
  <2>3. ASSUME NEW p \in locked
        PROVE  e + 1 + left'[p] + Demand < RoundBound + CommandTime /\ e + 1 < RoundBound
    <3>1. e + left[p] + Demand < RoundBound + CommandTime
      BY <1>12 DEF RoundClock
    <3>2. left[p] > 0 /\ left'[p] + 1 = left[p] /\ left[p] \in Nat /\ left'[p] \in Nat
      BY <1>1, <1>6, <1>8
    <3>3. CommandTime <= Demand
      BY <1>8, DemandOfMember DEF Queue, Types
    <3>4. QED
      BY <1>4, <3>1, <3>2, <3>3
  <2>4. \E p \in Probes : at[p] = "running"
    <3>1. PICK p \in Probes : at[p] # "done"
      BY <1>2 DEF Urgent
    <3>2. at[p] # "waiting"
      BY <1>2, <1>12 DEF Urgent, Over
    <3>3. CASE at[p] = "modem"
      <4>1. PICK q \in locked : TRUE
        BY <1>2, <3>3 DEF Urgent
      <4>2. QED
        BY <1>8, <4>1
    <3>4. QED
      BY <3>1, <3>2, <3>3 DEF Types
  <2>5. e + 1 < RoundBound
    <3>1. PICK p \in Probes : at[p] = "running"
      BY <2>4
    <3>2. CASE p \in Plain
      BY <2>2, <3>1, <3>2
    <3>3. CASE p \in Modem
      BY <2>3, <3>1, <3>3 DEF SlotInv
    <3>4. QED
      BY <3>2, <3>3 DEF Probes
  <2>6. locked = {} => e + 1 + Demand < RoundBound
    BY <1>7, <2>5, <1>4
  <2>7. QED
    BY <1>2, <1>3, <2>1, <2>2, <2>3, <2>5, <2>6 DEF RoundClock
<1>13. QED
  BY <1>5, <1>10, <1>11, <1>12
------------------------------------------------------------------------------
(* The age of a snapshot and of what it says.                               *)

LEMMA TimesNat ==
  /\ ViewTime \in Nat /\ PauseTime \in Nat /\ RoundBound \in Nat /\ RoundTime \in Nat
  /\ RoundTime < RoundBound
  /\ AgeBound \in Nat /\ AgeBound = ViewTime + PauseTime + RoundBound + ViewTime
  /\ Horizon \in Nat /\ Horizon = AgeBound + RoundBound
<1>1. /\ ViewTime \in Nat /\ PauseTime \in Nat /\ RoundBound \in Nat /\ RoundTime \in Nat
      /\ RoundTime < RoundBound
  BY TimesAssumption, BoundSplits
<1>2. AgeBound \in Nat /\ AgeBound = ViewTime + PauseTime + RoundBound + ViewTime
  BY <1>1 DEF AgeBound
<1>3. QED
  BY <1>1, <1>2 DEF Horizon

LEMMA ClockBounded ==
  ASSUME Types, NEW e \in Nat, RoundClock(e)
  PROVE  e < RoundBound
<1>1. due \in Nat
  BY DEF Types
<1>2. CASE due = 0
  BY <1>2 DEF RoundClock
<1>3. CASE due > 0
  <2>1. e + due <= RoundTime
    BY <1>3 DEF RoundClock
  <2>2. QED
    BY <1>1, <2>1, TimesNat
<1>4. QED
  BY <1>1, <1>2, <1>3

LEMMA AgeBounded ==
  ASSUME Types, AgeInv
  PROVE  /\ phase # "ended" => age < AgeBound
         /\ phase # "ended" /\ shown = "connected" => sinceUp < Horizon
<1>1. age \in Nat /\ due \in Nat /\ sinceUp \in Nat
  BY DEF Types
<1>2. ASSUME phase = "round" PROVE age < AgeBound
  <2>1. PICK e \in Nat : RoundAge(e)
    BY <1>2 DEF AgeInv
  <2>2. e < RoundBound /\ age <= ViewTime + PauseTime + e
    BY <2>1, ClockBounded DEF RoundAge
  <2>3. QED
    BY <1>1, <2>2, TimesNat
<1>3. ASSUME phase = "view" PROVE age < AgeBound
  BY <1>1, <1>3, TimesNat DEF AgeInv, ViewAge
<1>4. ASSUME phase = "pause" PROVE age < AgeBound
  BY <1>1, <1>4, TimesNat DEF AgeInv
<1>5. phase # "ended" => age < AgeBound
  BY <1>2, <1>3, <1>4 DEF Types
<1>6. phase # "ended" /\ shown = "connected" => sinceUp < age + RoundBound
  BY DEF AgeInv, ShownAge
<1>7. QED
  BY <1>1, <1>5, <1>6, TimesNat

\* A step of a probe: only its own reading is new, and that is of this moment.
LEMMA AgeAtProbe ==
  ASSUME Types, SlotInv, AgeInv, UpInv,
         NEW p \in Probes, TakesSlot(p) \/ GivesUp(p) \/ TakesModem(p) \/ Ends(p)
  PROVE  AgeInv'
<1>1. /\ phase' = phase /\ age' = age /\ shown' = shown /\ sinceUp' = sinceUp
  BY DEF TakesSlot, GivesUp, TakesModem, Ends, view, world
<1>2. phase = "round"
  BY DEF TakesSlot, GivesUp, TakesModem, Ends, SlotInv
<1>3. PICK e \in Nat : RoundAge(e)
  BY <1>2 DEF AgeInv
<1>4. RoundClock(e)'
  BY <1>3, ClockAtSlot, ClockAtModem, ClockAtEnd DEF RoundAge
<1>5. \A o \in Observers : raw'[o] = "up" => raw[o] = "up" \/ up
  <2>1. CASE TakesSlot(p) \/ GivesUp(p) \/ TakesModem(p)
    BY <2>1 DEF TakesSlot, GivesUp, TakesModem
  <2>2. CASE Ends(p)
    BY <2>2 DEF Ends, Outcomes, Types
  <2>3. QED
    BY <2>1, <2>2
<1>6. \A o \in Observers : raw'[o] = "up" => sinceUp <= e
  BY <1>3, <1>5 DEF RoundAge, UpInv
<1>7. RoundAge(e)'
  BY <1>1, <1>3, <1>4, <1>6 DEF RoundAge
<1>8. QED
  BY <1>1, <1>2, <1>7 DEF AgeInv, ShownAge

LEMMA AgeAtView ==
  ASSUME Types, SlotInv, AgeInv, RoundEnds \/ Replaces
  PROVE  AgeInv'
<1>1. age \in Nat /\ due \in Nat /\ sinceUp \in Nat /\ madeAge \in Nat
  BY DEF Types
<1>2. CASE RoundEnds
  <2>1. /\ phase' \in {"view", "ended"} /\ (phase' = "view" => due' = ViewTime)
        /\ made' = Observation /\ madeAge' = 0
        /\ age' = age /\ shown' = shown /\ sinceUp' = sinceUp
    BY <1>2 DEF RoundEnds, world
  <2>2. PICK e \in Nat : RoundAge(e)
    BY <1>2 DEF RoundEnds, AgeInv
  <2>3. e < RoundBound /\ age <= ViewTime + PauseTime + e
    BY <2>2, ClockBounded DEF RoundAge
  <2>4. made' = "connected" => sinceUp <= e
    <3>1. Swan \in Observers /\ Api \in Observers
      BY DEF Observers
    <3>2. made' = "connected" => raw[Swan] = "up" \/ raw[Api] = "up"
      BY <2>1 DEF Observation, SwanSays, ApiSays, Seen
    <3>3. QED
      BY <2>2, <3>1, <3>2 DEF RoundAge
  <2>5. made' = "connected" => sinceUp < 0 + RoundBound
    BY <1>1, <2>3, <2>4, TimesNat
  <2>6. age + ViewTime < ViewTime + PauseTime + RoundBound + ViewTime
    BY <1>1, <2>3, TimesNat
  <2>7. phase' = "view" => ViewAge'
    BY <2>1, <2>5, <2>6, TimesNat DEF ViewAge
  <2>8. ShownAge'
    BY <1>2, <2>1 DEF RoundEnds, AgeInv, ShownAge
  <2>9. QED
    BY <2>1, <2>7, <2>8 DEF AgeInv
<1>3. CASE Replaces
  <2>1. /\ phase' = "pause" /\ due' = PauseTime /\ shown' = made /\ age' = madeAge
        /\ sinceUp' = sinceUp /\ phase = "view"
    BY <1>3 DEF Replaces, world
  <2>2. madeAge + due <= ViewTime /\ (made = "connected" => sinceUp < madeAge + RoundBound)
    BY <2>1 DEF AgeInv, ViewAge
  <2>3. madeAge + PauseTime <= ViewTime + PauseTime
    BY <1>1, <2>2, TimesNat
  <2>4. QED
    BY <2>1, <2>2, <2>3 DEF AgeInv, ShownAge
<1>4. QED
  BY <1>2, <1>3

LEMMA AgeAtStart ==
  ASSUME Types, SlotInv, AgeInv, RoundStarts
  PROVE  AgeInv'
<1>1. /\ phase = "pause" /\ due = 0 /\ phase' = "round" /\ due' = RoundTime
      /\ at' = [p \in Probes |-> "waiting"] /\ raw' = NextRoundsMap
      /\ locked' = locked /\ age' = age /\ shown' = shown /\ sinceUp' = sinceUp
  BY DEF RoundStarts, view, world
<1>2. locked' = {}
  BY <1>1 DEF SlotInv, Types, Probes
<1>3. Queue' = {}
  BY <1>1 DEF Queue, Probes
<1>4. Demand' = 0
  BY <1>3, FS_EmptySet, TimesAssumption DEF Demand
<1>5. RoundClock(0)'
  BY <1>1, <1>2, <1>4, TimesNat DEF RoundClock, Probes
<1>6. age <= ViewTime + PauseTime + 0
  BY <1>1, TimesNat DEF AgeInv, Types
<1>7. \A o \in Observers : raw'[o] # "up"
  BY <1>1 DEF NextRoundsMap
<1>8. RoundAge(0)'
  BY <1>1, <1>5, <1>6, <1>7 DEF RoundAge
<1>9. QED
  BY <1>1, <1>8 DEF AgeInv, ShownAge

\* While the collector runs, the clocks of a snapshot and of its tunnel go together.
LEMMA AgeTicks ==
  ASSUME Types, SlotInv, AgeInv, Tick
  PROVE  AgeInv'
<1>1. /\ phase' = phase /\ raw' = raw /\ made' = made /\ shown' = shown /\ ~ Urgent
  BY DEF Tick
<1>2. /\ age \in Nat /\ due \in Nat /\ sinceUp \in Nat /\ madeAge \in Nat
      /\ phase \in {"round", "view", "pause", "ended"}
  BY DEF Types
<1>3. /\ due' \in Nat /\ (due > 0 => due' = due - 1)
      /\ sinceUp' \in Nat /\ sinceUp' <= sinceUp + 1
  BY TickMoves
<1>4. phase # "ended" => age' = age + 1
  <2>1. phase # "ended" => age < AgeBound
    BY AgeBounded
  <2>2. phase # "ended" => ~ (age > Horizon)
    BY <1>2, <2>1, TimesNat
  <2>3. QED
    BY <2>2 DEF Tick, Older
<1>5. ShownAge'
  <2>1. phase # "ended" /\ shown = "connected" => sinceUp' < age + 1 + RoundBound
    BY <1>2, <1>3, TimesNat DEF AgeInv, ShownAge
  <2>2. QED
    BY <1>1, <1>4, <2>1 DEF ShownAge
<1>6. CASE phase = "round"
  <2>1. PICK e \in Nat : RoundAge(e)
    BY <1>6 DEF AgeInv
  <2>2. e + 1 \in Nat /\ RoundClock(e + 1)'
    BY <1>6, <2>1, ClockTicks DEF RoundAge
  <2>3. age + 1 <= ViewTime + PauseTime + (e + 1)
    BY <1>2, <2>1, TimesNat DEF RoundAge
  <2>4. \A o \in Observers : raw'[o] = "up" => sinceUp' <= e + 1
    BY <1>1, <1>2, <1>3, <2>1 DEF RoundAge
  <2>5. RoundAge(e + 1)'
    BY <1>4, <1>6, <2>2, <2>3, <2>4 DEF RoundAge
  <2>6. QED
    BY <1>1, <1>5, <1>6, <2>2, <2>5 DEF AgeInv
<1>7. CASE phase = "view"
  <2>1. due > 0
    BY <1>1, <1>2, <1>7 DEF Urgent
  <2>2. madeAge' = madeAge + 1 /\ age' = age + 1 /\ due' = due - 1
    BY <1>3, <1>4, <1>7, <2>1 DEF Tick
  <2>3. ViewAge
    BY <1>7 DEF AgeInv
  <2>4. madeAge' + due' <= ViewTime
    BY <1>2, <2>1, <2>2, <2>3, TimesNat DEF ViewAge
  <2>5. age' + due' < ViewTime + PauseTime + RoundBound + ViewTime
    BY <1>2, <2>1, <2>2, <2>3, TimesNat DEF ViewAge
  <2>6. made = "connected" => sinceUp' < madeAge' + RoundBound
    BY <1>2, <1>3, <2>2, <2>3, TimesNat DEF ViewAge
  <2>7. ViewAge'
    BY <1>1, <2>4, <2>5, <2>6 DEF ViewAge
  <2>8. QED
    BY <1>1, <1>5, <1>7, <2>7 DEF AgeInv
<1>8. CASE phase = "pause"
  <2>1. due > 0
    BY <1>1, <1>2, <1>8 DEF Urgent
  <2>2. age' = age + 1 /\ due' = due - 1
    BY <1>3, <1>4, <1>8, <2>1
  <2>3. age' + due' <= ViewTime + PauseTime
    BY <1>2, <1>8, <2>1, <2>2, TimesNat DEF AgeInv
  <2>4. QED
    BY <1>1, <1>5, <1>8, <2>3 DEF AgeInv
<1>9. CASE phase = "ended"
  BY <1>1, <1>5, <1>9 DEF AgeInv
<1>10. QED
  BY <1>2, <1>6, <1>7, <1>8, <1>9

LEMMA AgeStep == Inv /\ [Next]_vars => AgeInv'
<1> SUFFICES ASSUME Inv, [Next]_vars PROVE AgeInv'
  OBVIOUS
<1>1. Types /\ SlotInv /\ AgeInv /\ UpInv
  BY DEF Inv
<1>2. ASSUME NEW p \in Probes, TakesSlot(p) \/ GivesUp(p) \/ TakesModem(p) \/ Ends(p) PROVE AgeInv'
  BY <1>1, <1>2, AgeAtProbe
<1>3. CASE RoundEnds \/ Replaces
  BY <1>1, <1>3, AgeAtView
<1>4. CASE RoundStarts
  BY <1>1, <1>4, AgeAtStart
<1>5. CASE LoopEnds
  BY <1>5 DEF LoopEnds, AgeInv, ShownAge
<1>6. CASE Stop \/ UNCHANGED vars
  <2>1. UNCHANGED <<round, phase, due, view, world>>
    BY <1>6 DEF Stop, vars
  <2>2. UNCHANGED <<at, raw, locked, left, phase, due, made, madeAge, shown, age, sinceUp>>
    BY <2>1 DEF round, view, world
  <2>3. \A e \in Nat : RoundAge(e)' <=> RoundAge(e)
    BY <2>2 DEF RoundAge, RoundClock, Demand, Queue
  <2>4. QED
    BY <1>1, <2>2, <2>3 DEF AgeInv, ShownAge, ViewAge
<1>7. CASE TunnelChanges
  <2>1. UNCHANGED <<round, phase, due, view>> /\ (sinceUp' = sinceUp \/ sinceUp' = 0)
    BY <1>7 DEF TunnelChanges
  <2>2. /\ UNCHANGED <<at, raw, locked, left, phase, due, made, madeAge, shown, age>>
        /\ \A n \in Nat : (sinceUp <= n => sinceUp' <= n) /\ (sinceUp < n => sinceUp' < n)
    BY <1>1, <2>1 DEF round, view, Types
  <2>3. \A e \in Nat : RoundAge(e) => RoundAge(e)'
    BY <2>2 DEF RoundAge, RoundClock, Demand, Queue
  <2>4. madeAge + RoundBound \in Nat /\ age + RoundBound \in Nat
    BY <1>1, TimesNat DEF Types
  <2>5. QED
    BY <1>1, <2>2, <2>3, <2>4 DEF AgeInv, ShownAge, ViewAge
<1>8. CASE Tick
  BY <1>1, <1>8, AgeTicks
<1>9. QED
  BY <1>2, <1>3, <1>4, <1>5, <1>6, <1>7, <1>8 DEF Next, Collector

LEMMA StepInv == Inv /\ [Next]_vars => Inv'
  BY TypesStep, SlotStep, UpStep, AgeStep DEF Inv
------------------------------------------------------------------------------
(* The other types.                                                         *)

RestTypes ==
  /\ made \in States /\ shown \in States
  /\ sinceDown \in Nat
  /\ stopped \in BOOLEAN /\ up \in BOOLEAN

LEMMA HorizonNat == Horizon \in Nat
  BY TimesAssumption, BoundSplits, BacklogNat DEF Horizon, AgeBound

LEMMA RestInit == Init => RestTypes
<1> SUFFICES ASSUME Init PROVE RestTypes
  OBVIOUS
<1>1. Horizon + 1 \in Nat
  BY HorizonNat
<1>2. sinceDown \in {0, Horizon + 1}
  BY DEF Init
<1>3. sinceDown \in Nat
  BY <1>1, <1>2
<1>4. stopped \in BOOLEAN /\ up \in BOOLEAN
  BY Zenon DEF Init
<1>5. made \in States /\ shown \in States
  BY DEF Init, States
<1>6. QED
  BY <1>3, <1>4, <1>5 DEF RestTypes

LEMMA RestStep == RestTypes /\ [Next]_vars => RestTypes'
<1> SUFFICES ASSUME RestTypes, [Next]_vars PROVE RestTypes'
  OBVIOUS
<1>1. ASSUME NEW p \in Probes, TakesSlot(p) \/ GivesUp(p) \/ TakesModem(p) \/ Ends(p) PROVE RestTypes'
  BY <1>1 DEF TakesSlot, GivesUp, TakesModem, Ends, view, world, RestTypes
<1>2. CASE RoundEnds
  <2>1. Observation \in States
    <3>1. ApiSays \in States
      BY DEF ApiSays, States, Seen
    <3>2. SwanSays \in States
      BY DEF SwanSays, States
    <3>3. QED
      BY <3>1, <3>2 DEF Observation
  <2>2. QED
    BY <1>2, <2>1 DEF RoundEnds, world, RestTypes
<1>3. CASE Replaces \/ RoundStarts \/ LoopEnds
  BY <1>3 DEF Replaces, RoundStarts, LoopEnds, view, world, RestTypes
<1>4. CASE Stop
  BY <1>4 DEF Stop, view, world, RestTypes
<1>5. CASE TunnelChanges
  <2>1. up' \in BOOLEAN
    BY <1>5, Zenon DEF TunnelChanges
  <2>2. sinceDown' \in Nat
    BY <1>5 DEF TunnelChanges, RestTypes
  <2>3. QED
    BY <1>5, <2>1, <2>2 DEF TunnelChanges, view, RestTypes
<1>6. CASE Tick
  BY <1>6 DEF Tick, Older, RestTypes
<1>7. CASE UNCHANGED vars
  BY <1>7 DEF vars, view, world, RestTypes
<1>8. QED
  BY <1>1, <1>2, <1>3, <1>4, <1>5, <1>6, <1>7 DEF Next, Collector

\* Every variable has its type; in particular one probe at most has the modem.
THEOREM TypeCorrect == Spec => []TypeOK
<1>1. Inv /\ RestTypes => TypeOK
  <2> SUFFICES ASSUME Inv, RestTypes PROVE TypeOK
    OBVIOUS
  <2>1. Cardinality(locked) <= 1
    <3>1. CASE locked = {}
      BY <3>1, FS_EmptySet
    <3>2. CASE locked # {}
      <4>1. PICK p \in locked : locked = {p}
        BY <3>2 DEF Inv, SlotInv
      <4>2. QED
        BY <4>1, FS_Singleton
    <3>3. QED
      BY <3>1, <3>2
  <2>2. QED
    BY <2>1 DEF Inv, Types, RestTypes, TypeOK
<1>2. QED
  BY <1>1, InitInv, StepInv, RestInit, RestStep, PTL DEF Spec

\* While the collector runs, the page's snapshot is never as old as AgeBound,
\* whichever commands of a round (probeAll) outlive its deadline.
THEOREM SnapshotsAreRecent == Spec => []SnapshotIsRecent
<1>1. Inv => SnapshotIsRecent
  BY AgeBounded DEF Inv, SnapshotIsRecent
<1>2. QED
  BY <1>1, InitInv, StepInv, PTL DEF Spec

\* A tunnel that the page shows as connected was up within the time that the
\* snapshot and its round can take: no reading of an earlier round is in it.
THEOREM ShownTunnelWasUp == Spec => []ConnectedWasUp
<1>1. Inv => ConnectedWasUp
  BY AgeBounded DEF Inv, ConnectedWasUp
<1>2. QED
  BY <1>1, InitInv, StepInv, PTL DEF Spec
==============================================================================
