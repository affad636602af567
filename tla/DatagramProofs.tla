--------------------------- MODULE DatagramProofs ---------------------------
(***************************************************************************)
(* Proofs about what becomes of a datagram: its admission (Ingress), and   *)
(* what is learned from it, detected and relayed (Discovery).              *)
(*                                                                         *)
(* Admission: whatever the network sends and whatever the table forgets,   *)
(* the engine does not get stuck with what the MFD has taken back.  While  *)
(* it believes the other word, the present one has not been handled since  *)
(* it was first said, so its entry is older than that (StuckIsOld), and    *)
(* once it is old enough the next repetition is handled.  What a flood     *)
(* costs follows from where the window begins (WindowInv).                 *)
(*                                                                         *)
(* Discovery: every cache that the records of a datagram lead to, one      *)
(* after another, is Sound, by induction over the records (InductionUpTo); *)
(* and the host of the last SRV record is known then, whatever was evicted *)
(* for the others.  No service is known for longer than what was said of   *)
(* it last (SaidInv), and what is left of an announcement is left of the   *)
(* detection and of the name of its host (AnnounceInv).                    *)
(***************************************************************************)
EXTENDS Ingress, Discovery, FiniteSetTheorems, WellFoundedInduction, TLAPS

Types ==
  /\ table \subseteq Datagrams
  /\ age \in [Datagrams -> 0..Old]
  /\ believed \in Words /\ word \in Words
  /\ first \in 0..Repeat /\ span \in 0..Repeat

StuckIsOld ==
  believed # word => span < Repeat /\ (word \in table => age[word] >= first)

BeliefInv == Types /\ StuckIsOld

LEMMA AtMostNat == ASSUME NEW n \in Nat, NEW m \in Nat
                   PROVE  AtMost(n, m) \in 0..m /\ (n <= m => AtMost(n, m) = n)
                          /\ (n > m => AtMost(n, m) = m)
  BY DEF AtMost

\* Making room never adds to the table.
LEMMA RoomShrinks == ASSUME NEW r \in Room PROVE r \subseteq table
  BY DEF Room

LEMMA BeliefInit == IngressInit => BeliefInv
  BY IngressAssumption DEF IngressInit, BeliefInv, Types, StuckIsOld, Words, Datagrams

LEMMA RememberTypes ==
  ASSUME Types, NEW d \in Datagrams, Remember(d)
  PROVE  /\ table' \subseteq table \cup {d}
         /\ age' \in [Datagrams -> 0..Old]
         /\ age'[d] = 0
         /\ \A e \in Datagrams \ {d} : age'[e] = age[e]
  <1>1. PICK r \in Room : table' = r \cup {d}
    BY DEF Remember
  <1>2. table' \subseteq table \cup {d}
    BY <1>1, RoomShrinks
  <1>3. 0 \in 0..Old
    BY IngressAssumption
  <1>4. QED
    BY <1>2, <1>3 DEF Remember, Types

\* A datagram that is no word of the MFD, or is not parsed.
LEMMA OtherStep ==
  ASSUME BeliefInv, NEW d \in Arriving, Receives(d), ~ (d \in Words /\ Admitted)
  PROVE  BeliefInv'
  <1>1. UNCHANGED <<word, first, span>>
    BY DEF Receives
  <1>2. CASE UNCHANGED <<table, age, believed>>
    BY <1>1, <1>2 DEF BeliefInv, Types, StuckIsOld
  <1>3. CASE Admitted /\ d # "junk" /\ Handle(d)
    <2>1. d \in Datagrams /\ d \notin Words
      BY <1>3 DEF Arriving
    <2>2. Remember(d) /\ believed' = believed
      BY <1>3, <2>1 DEF Handle
    <2>3. /\ table' \subseteq table \cup {d}
          /\ age' \in [Datagrams -> 0..Old]
          /\ \A e \in Datagrams \ {d} : age'[e] = age[e]
      BY <2>1, <2>2, RememberTypes DEF BeliefInv
    <2>4. Types'
      BY <1>1, <2>1, <2>2, <2>3 DEF BeliefInv, Types
    <2>5. StuckIsOld'
      BY <1>1, <2>1, <2>2, <2>3 DEF BeliefInv, Types, StuckIsOld, Datagrams
    <2>6. QED
      BY <2>4, <2>5 DEF BeliefInv
  <1>4. QED
    BY <1>2, <1>3 DEF Receives, Skip

\* A word of the MFD that is parsed.
LEMMA WordStep ==
  ASSUME BeliefInv, NEW d \in Words, Receives(d), Admitted
  PROVE  BeliefInv'
  <1>1. d \in Datagrams /\ d # "junk"
    BY DEF Words, Datagrams
  <1>2. word' = d /\ first' = (IF d = word THEN first ELSE 0) /\ span' = first'
    BY DEF Receives
  <1>3. first' \in 0..Repeat
    BY <1>2, IngressAssumption DEF BeliefInv, Types
  <1>4. CASE Known(d) /\ Skip(d)
    <2>1. UNCHANGED <<table, age, believed>>
      BY <1>4 DEF Skip
    <2>2. Types'
      BY <1>2, <1>3, <2>1 DEF BeliefInv, Types
    <2>3. age[d] \in 0..Old /\ age[d] < Repeat /\ d \in table
      BY <1>1, <1>4 DEF Known, BeliefInv, Types
    <2>4. ASSUME believed # d PROVE first' <= age[d]
      <3>1. CASE d = word
        BY <1>2, <2>3, <2>4, <3>1 DEF BeliefInv, StuckIsOld, Types
      <3>2. CASE d # word
        BY <1>2, <2>3, <3>2
      <3>3. QED
        BY <3>1, <3>2
    <2>5. StuckIsOld'
      BY <1>2, <1>3, <2>1, <2>3, <2>4, IngressAssumption DEF StuckIsOld
    <2>6. QED
      BY <2>2, <2>5 DEF BeliefInv
  <1>5. CASE Handle(d)
    <2>1. Remember(d) /\ believed' = d
      BY <1>5 DEF Handle
    <2>2. table' \subseteq Datagrams /\ age' \in [Datagrams -> 0..Old]
      BY <1>1, <2>1, RememberTypes DEF BeliefInv, Types
    <2>3. QED
      BY <1>2, <1>3, <2>1, <2>2 DEF BeliefInv, Types, StuckIsOld
  <1>6. QED
    BY <1>1, <1>4, <1>5 DEF Receives

LEMMA TickStep == ASSUME BeliefInv, IngressTick PROVE BeliefInv'
  <1>1. /\ age' = [d \in Datagrams |-> AtMost(age[d] + 1, Old)]
        /\ first' = AtMost(first + 1, Repeat)
        /\ UNCHANGED <<table, believed, word, span>>
    BY DEF IngressTick
  <1>2. first \in Nat /\ first' \in 0..Repeat
    BY <1>1, AtMostNat, IngressAssumption DEF BeliefInv, Types
  <1>3. \A d \in Datagrams : age[d] \in Nat /\ age'[d] \in 0..Old
    BY <1>1, AtMostNat, IngressAssumption DEF BeliefInv, Types
  <1>4. Types'
    BY <1>1, <1>2, <1>3 DEF BeliefInv, Types
  <1>5. ASSUME NEW d \in Datagrams, age[d] >= first PROVE age'[d] >= first'
    BY <1>1, <1>2, <1>3, <1>5, IngressAssumption DEF AtMost
  <1>6. word \in Datagrams
    BY DEF BeliefInv, Types, Datagrams
  <1>7. StuckIsOld'
    BY <1>1, <1>5, <1>6 DEF BeliefInv, StuckIsOld
  <1>8. QED
    BY <1>4, <1>7 DEF BeliefInv

LEMMA BeliefStep == BeliefInv /\ [IngressNext]_ingressVars => BeliefInv'
  <1> SUFFICES ASSUME BeliefInv, [IngressNext]_ingressVars PROVE BeliefInv'
    OBVIOUS
  <1>1. CASE IngressTick
    BY <1>1, TickStep
  <1>2. ASSUME NEW d \in Arriving, Receives(d) PROVE BeliefInv'
    <2>1. CASE d \in Words /\ Admitted
      BY <1>2, <2>1, WordStep
    <2>2. CASE ~ (d \in Words /\ Admitted)
      BY <1>2, <2>2, OtherStep
    <2>3. QED
      BY <2>1, <2>2
  <1>3. CASE UNCHANGED ingressVars
    BY <1>3 DEF ingressVars, history, BeliefInv, Types, StuckIsOld
  <1>4. QED
    BY <1>1, <1>2, <1>3 DEF IngressNext

\* A word of the MFD that is repeated at least 900 ms after it was first said, with
\* nothing else in between, is believed, for every limit, table and network.
THEOREM RepeatedWordIsBelieved == IngressSpec => []BeliefCatchesUp
  <1>1. BeliefInv => BeliefCatchesUp
    BY IngressAssumption DEF BeliefInv, Types, StuckIsOld, BeliefCatchesUp
  <1>2. QED
    BY <1>1, BeliefInit, BeliefStep, PTL DEF IngressSpec
------------------------------------------------------------------------------
(* The window: what was parsed since it began is no more than count and     *)
(* Limit, and what was parsed before that within the length of a window     *)
(* belongs to one earlier window.  All that is in count has arrived.        *)

WindowTypes ==
  /\ since \in 0..(Window + 1) /\ count \in 0..(Limit + 1)
  /\ parsed \in [Recent -> Nat] /\ arrived \in [Recent -> Nat]

WindowInv ==
  /\ WindowTypes
  /\ \A t \in Recent : t <= since => parsed[t] <= count /\ parsed[t] <= Limit
  /\ \A t \in Recent : parsed[t] <= count + Limit /\ parsed[t] <= 2 * Limit
  /\ \A t \in Recent : t >= since => arrived[t] >= count
  /\ WindowEnded => parsed[0] = 0

LEMMA WindowInit == IngressInit => WindowInv
  BY IngressAssumption DEF IngressInit, WindowInv, WindowTypes, Recent, WindowEnded

\* What a datagram adds to the histories.
LEMMA HistoryGrows ==
  ASSUME WindowTypes, NEW d \in Arriving, Receives(d)
  PROVE  /\ arrived' \in [Recent -> Nat] /\ parsed' \in [Recent -> Nat]
         /\ \A t \in Recent : arrived'[t] = IF arrived[t] < Limit THEN arrived[t] + 1 ELSE Limit + 1
         /\ \A t \in Recent : parsed'[t] <= parsed[t] + 1
         /\ ~ Admitted => parsed' = parsed
  <1>1. /\ arrived' = [t \in Recent |-> AtMost(arrived[t] + 1, Limit + 1)]
        /\ parsed' = IF Admitted THEN [t \in Recent |-> AtMost(parsed[t] + 1, 2 * Limit + 1)]
                     ELSE parsed
    BY DEF Receives
  <1>2. ASSUME NEW n \in Nat PROVE AtMost(n + 1, Limit + 1) = IF n < Limit THEN n + 1 ELSE Limit + 1
    BY IngressAssumption DEF AtMost
  <1>3. ASSUME NEW n \in Nat
        PROVE AtMost(n + 1, 2 * Limit + 1) \in Nat /\ AtMost(n + 1, 2 * Limit + 1) <= n + 1
    BY IngressAssumption DEF AtMost
  <1>4. arrived \in [Recent -> Nat] /\ parsed \in [Recent -> Nat]
    BY DEF WindowTypes
  <1>5. CASE Admitted
    BY <1>1, <1>2, <1>3, <1>4, <1>5, IngressAssumption
  <1>6. CASE ~ Admitted
    BY <1>1, <1>2, <1>4, <1>6, IngressAssumption
  <1>7. QED
    BY <1>5, <1>6

\* The first datagram after a window begins another one, and has it for itself.
LEMMA WindowBegins ==
  ASSUME WindowInv, NEW d \in Arriving, Receives(d), WindowEnded
  PROVE  WindowInv'
  <1>1. since' = 0 /\ count' = 1
    BY DEF Receives, Counted
  <1>2. WindowTypes
    BY DEF WindowInv
  <1>3. /\ arrived' \in [Recent -> Nat] /\ parsed' \in [Recent -> Nat]
        /\ \A t \in Recent : arrived'[t] = IF arrived[t] < Limit THEN arrived[t] + 1 ELSE Limit + 1
        /\ \A t \in Recent : parsed'[t] <= parsed[t] + 1
    BY <1>2, HistoryGrows
  <1>4. ASSUME NEW t \in Recent
        PROVE  /\ parsed[t] \in Nat /\ parsed[t] <= Limit /\ parsed'[t] \in Nat
               /\ parsed'[t] <= Limit + 1 /\ arrived'[t] >= 1
               /\ t <= 0 => parsed'[t] <= 1
    <2>1. since = Window + 1 /\ t \in Nat /\ t <= Window
      BY <1>2, IngressAssumption DEF WindowTypes, WindowEnded, Recent
    <2>2. parsed[t] \in Nat /\ parsed[t] <= Limit /\ parsed'[t] \in Nat /\ arrived[t] \in Nat
      BY <1>2, <1>3, <2>1, IngressAssumption DEF WindowInv, WindowTypes
    <2>3. t <= 0 => parsed[t] = 0
      BY <2>1 DEF WindowInv
    <2>4. QED
      BY <1>3, <2>2, <2>3, IngressAssumption
  <1>5. WindowTypes'
    BY <1>1, <1>3, IngressAssumption DEF WindowTypes
  <1>6. ~ WindowEnded'
    BY <1>1, IngressAssumption DEF WindowEnded
  <1>7. QED
    BY <1>1, <1>4, <1>5, <1>6, IngressAssumption DEF WindowInv, Recent

LEMMA WindowGoesOn ==
  ASSUME WindowInv, NEW d \in Arriving, Receives(d), ~ WindowEnded
  PROVE  WindowInv'
  <1>1. since' = since
    BY DEF Receives
  <1>2. WindowTypes
    BY DEF WindowInv
  <1>3. /\ count' = IF count < Limit + 1 THEN count + 1 ELSE Limit + 1
        /\ Admitted <=> count < Limit
    BY <1>2, IngressAssumption DEF Receives, Admitted, Counted, AtMost, WindowTypes
  <1>4. /\ arrived' \in [Recent -> Nat] /\ parsed' \in [Recent -> Nat]
        /\ \A t \in Recent : arrived'[t] = IF arrived[t] < Limit THEN arrived[t] + 1 ELSE Limit + 1
        /\ \A t \in Recent : parsed'[t] <= parsed[t] + 1
        /\ ~ Admitted => parsed' = parsed
    BY <1>2, HistoryGrows
  <1>5. WindowTypes'
    BY <1>1, <1>2, <1>3, <1>4, IngressAssumption DEF WindowTypes
  <1>6. ~ WindowEnded'
    BY <1>1 DEF WindowEnded
  <1>7. ASSUME NEW t \in Recent
        PROVE  /\ t <= since' => parsed'[t] <= count' /\ parsed'[t] <= Limit
               /\ parsed'[t] <= count' + Limit /\ parsed'[t] <= 2 * Limit
               /\ t >= since' => arrived'[t] >= count'
    <2>1. /\ since \in Nat /\ count \in Nat /\ count <= Limit + 1
          /\ parsed[t] \in Nat /\ parsed'[t] \in Nat /\ arrived[t] \in Nat /\ Limit \in Nat
      BY <1>2, <1>4, IngressAssumption DEF WindowTypes
    <2>2. /\ t <= since => parsed[t] <= count /\ parsed[t] <= Limit
          /\ parsed[t] <= count + Limit /\ parsed[t] <= 2 * Limit
          /\ t >= since => arrived[t] >= count
      BY DEF WindowInv
    <2>3. CASE Admitted
      BY <1>1, <1>3, <1>4, <2>1, <2>2, <2>3
    <2>4. CASE ~ Admitted
      BY <1>1, <1>3, <1>4, <2>1, <2>2, <2>4
    <2>5. QED
      BY <2>3, <2>4
  <1>8. QED
    BY <1>5, <1>6, <1>7 DEF WindowInv

LEMMA WindowAges ==
  ASSUME WindowInv, IngressTick
  PROVE  WindowInv'
  <1>1. /\ count' = count
        /\ since' = IF since <= Window THEN since + 1 ELSE Window + 1
    BY IngressAssumption DEF IngressTick, AtMost, WindowInv, WindowTypes
  <1>2. /\ arrived' = [t \in Recent |-> IF t = 0 THEN 0 ELSE arrived[t - 1]]
        /\ parsed' = [t \in Recent |-> IF t = 0 THEN 0 ELSE parsed[t - 1]]
    BY DEF IngressTick, Shift
  <1>3. ASSUME NEW t \in Recent, t # 0
        PROVE  t - 1 \in Recent /\ parsed'[t] = parsed[t - 1] /\ arrived'[t] = arrived[t - 1]
    BY <1>2, <1>3, IngressAssumption DEF Recent
  <1>4. 0 \in Recent /\ parsed'[0] = 0 /\ arrived'[0] = 0
    BY <1>2, IngressAssumption DEF Recent
  <1>5. parsed' \in [Recent -> Nat] /\ arrived' \in [Recent -> Nat]
    BY <1>2, <1>3 DEF WindowInv, WindowTypes
  <1>6. WindowTypes'
    BY <1>1, <1>5, IngressAssumption DEF WindowInv, WindowTypes
  <1>7. ASSUME NEW t \in Recent
        PROVE  /\ t <= since' => parsed'[t] <= count /\ parsed'[t] <= Limit
               /\ parsed'[t] <= count + Limit /\ parsed'[t] <= 2 * Limit
               /\ t >= since' => arrived'[t] >= count
    <2>1. t \in Nat /\ t <= Window /\ since \in Nat /\ count \in Nat /\ Limit \in Nat
      BY IngressAssumption DEF WindowInv, WindowTypes, Recent
    <2>2. CASE t = 0
      BY <1>1, <1>4, <2>1, <2>2, IngressAssumption
    <2>3. CASE t # 0
      <3>1. /\ t - 1 <= since => parsed[t - 1] <= count /\ parsed[t - 1] <= Limit
            /\ parsed[t - 1] <= count + Limit /\ parsed[t - 1] <= 2 * Limit
            /\ t - 1 >= since => arrived[t - 1] >= count
        BY <1>3, <2>3 DEF WindowInv
      <3>2. QED
        BY <1>1, <1>3, <2>1, <2>3, <3>1, IngressAssumption
    <2>4. QED
      BY <2>2, <2>3
  <1>8. QED
    BY <1>1, <1>4, <1>6, <1>7 DEF WindowInv

LEMMA WindowStep == WindowInv /\ [IngressNext]_ingressVars => WindowInv'
  <1> SUFFICES ASSUME WindowInv, [IngressNext]_ingressVars PROVE WindowInv'
    OBVIOUS
  <1>1. CASE IngressTick
    BY <1>1, WindowAges
  <1>2. ASSUME NEW d \in Arriving, Receives(d) PROVE WindowInv'
    BY <1>2, WindowBegins, WindowGoesOn
  <1>3. CASE UNCHANGED ingressVars
    BY <1>3 DEF ingressVars, history, WindowInv, WindowTypes, WindowEnded
  <1>4. QED
    BY <1>1, <1>2, <1>3 DEF IngressNext

\* Whatever arrives and whenever windows begin, no interval of the length of a window
\* sees more than twice the limit parsed.
THEOREM FloodCostsTwiceTheLimit == IngressSpec => []FloodIsBounded
  <1>1. WindowInv => FloodIsBounded
    BY IngressAssumption DEF WindowInv, WindowTypes, FloodIsBounded, Recent
  <1>2. QED
    BY <1>1, WindowInit, WindowStep, PTL DEF IngressSpec

\* The datagram that is one too many is in a window that has all of count.
LEMMA LossStep ==
  ASSUME WindowInv, WindowInv', NoNeedlessLoss, [IngressNext]_ingressVars
  PROVE  NoNeedlessLoss'
  <1>1. CASE IngressTick
    BY <1>1 DEF IngressTick, NoNeedlessLoss
  <1>2. ASSUME NEW d \in Arriving, Receives(d), ~ Admitted PROVE arrived'[Window] > Limit
    <2>1. since' \in Nat /\ since' <= Window /\ count' > Limit
      BY <1>2, IngressAssumption
      DEF Receives, Admitted, Counted, WindowEnded, AtMost, WindowInv, WindowTypes
    <2>2. Window \in Recent /\ Window >= since'
      BY <2>1, IngressAssumption DEF Recent
    <2>3. arrived'[Window] >= count'
      BY <2>2 DEF WindowInv, Recent
    <2>4. count' \in Nat /\ arrived'[Window] \in Nat
      BY <2>2 DEF WindowInv, WindowTypes
    <2>5. QED
      BY <2>1, <2>3, <2>4, IngressAssumption
  <1>3. ASSUME NEW d \in Arriving, Receives(d) PROVE NoNeedlessLoss'
    <2>1. oneTooMany' = ~ Admitted
      BY <1>3 DEF Receives
    <2>2. QED
      BY <1>2, <1>3, <2>1, Zenon DEF NoNeedlessLoss
  <1>4. CASE UNCHANGED ingressVars
    BY <1>4 DEF ingressVars, history, NoNeedlessLoss
  <1>5. QED
    BY <1>1, <1>3, <1>4 DEF IngressNext

\* A datagram is dropped for the limit only if more than the limit have come.
THEOREM LossNeedsAFlood == IngressSpec => []NoNeedlessLoss
  <1>1. IngressInit => NoNeedlessLoss
    BY DEF IngressInit, NoNeedlessLoss
  <1>2. QED
    BY <1>1, WindowInit, WindowStep, LossStep, PTL DEF IngressSpec
------------------------------------------------------------------------------
(* Types, and the limit of the table: room is made before an entry comes.   *)

TableInv ==
  /\ IsFiniteSet(table) /\ Cardinality(table) <= MaxSeen
  /\ arrived \in [Recent -> 0..(Limit + 1)] /\ parsed \in [Recent -> 0..(2 * Limit + 1)]
  /\ oneTooMany \in BOOLEAN

LEMMA RoomIsThere ==
  ASSUME IsFiniteSet(table), Cardinality(table) <= MaxSeen, NEW r \in Room
  PROVE  IsFiniteSet(r) /\ Cardinality(r) + 1 <= MaxSeen /\ Cardinality(r) \in Nat
<1> DEFINE kept == IF Cardinality(table) >= MaxSeen THEN {d \in table : age[d] < Old} ELSE table
<1>1. r \in IF Cardinality(kept) >= MaxSeen THEN {kept \ {d} : d \in kept} ELSE {kept}
  BY DEF Room
<1>2. /\ IsFiniteSet(kept) /\ Cardinality(kept) \in Nat /\ Cardinality(table) \in Nat
      /\ Cardinality(kept) <= Cardinality(table)
  <2>1. kept \subseteq table
    OBVIOUS
  <2> HIDE DEF kept
  <2>2. QED
    BY <2>1, FS_Subset, FS_CardinalityType
<1> HIDE DEF kept
<1>3. CASE Cardinality(kept) >= MaxSeen
  <2>1. PICK d \in kept : r = kept \ {d}
    BY <1>1, <1>3
  <2>2. IsFiniteSet(r) /\ Cardinality(r) = Cardinality(kept) - 1
    BY <1>2, <2>1, FS_RemoveElement
  <2>3. Cardinality(r) \in Nat
    BY <2>2, FS_CardinalityType
  <2>4. QED
    BY <1>2, <2>2, <2>3, IngressAssumption
<1>4. CASE ~ (Cardinality(kept) >= MaxSeen)
  <2>1. r = kept
    BY <1>1, <1>4
  <2>2. Cardinality(kept) + 1 <= MaxSeen
    BY <1>2, <1>4, IngressAssumption
  <2>3. QED
    BY <1>2, <2>1, <2>2
<1>5. QED
  BY <1>3, <1>4

LEMMA TableInit == IngressInit => TableInv
<1> SUFFICES ASSUME IngressInit PROVE TableInv
  OBVIOUS
<1>1. table = {} /\ IsFiniteSet({}) /\ Cardinality({}) = 0
  BY FS_EmptySet DEF IngressInit
<1>2. 0 <= MaxSeen /\ 0 \in 0..(Limit + 1) /\ 0 \in 0..(2 * Limit + 1)
  BY IngressAssumption
<1>3. arrived = [t \in Recent |-> 0] /\ parsed = [t \in Recent |-> 0] /\ oneTooMany = FALSE
  BY DEF IngressInit
<1>4. QED
  BY <1>1, <1>2, <1>3 DEF TableInv

LEMMA TableStep == TableInv /\ [IngressNext]_ingressVars => TableInv'
<1> SUFFICES ASSUME TableInv, [IngressNext]_ingressVars PROVE TableInv'
  OBVIOUS
<1> DEFINE Entries == IsFiniteSet(table) /\ Cardinality(table) <= MaxSeen
           Counts == /\ arrived \in [Recent -> 0..(Limit + 1)] /\ parsed \in [Recent -> 0..(2 * Limit + 1)]
                     /\ oneTooMany \in BOOLEAN
<1>1. ASSUME NEW d \in Arriving, Receives(d) PROVE Entries'
  <2>1. CASE table' = table
    BY <2>1 DEF TableInv
  <2>2. CASE Remember(d)
    <3>1. PICK r \in Room : table' = r \cup {d}
      BY <2>2 DEF Remember
    <3>2. IsFiniteSet(r) /\ Cardinality(r) + 1 <= MaxSeen /\ Cardinality(r) \in Nat
      BY RoomIsThere DEF TableInv
    <3>3. IsFiniteSet(r \cup {d}) /\ Cardinality(r \cup {d}) \in {Cardinality(r), Cardinality(r) + 1}
      BY <3>2, FS_AddElement
    <3>4. QED
      BY <3>1, <3>2, <3>3, IngressAssumption
  <2>3. QED
    BY <1>1, <2>1, <2>2 DEF Receives, Skip, Handle
<1>2. ASSUME NEW d \in Arriving, Receives(d) PROVE Counts'
  <2>1. /\ arrived' = [t \in Recent |-> AtMost(arrived[t] + 1, Limit + 1)]
        /\ parsed' = IF Admitted THEN [t \in Recent |-> AtMost(parsed[t] + 1, 2 * Limit + 1)] ELSE parsed
        /\ oneTooMany' = ~ Admitted
    BY <1>2 DEF Receives
  <2>2. Limit + 1 \in Nat /\ 2 * Limit + 1 \in Nat
    BY IngressAssumption
  <2>3. \A t \in Recent : arrived[t] + 1 \in Nat /\ parsed[t] + 1 \in Nat
    BY IngressAssumption DEF TableInv
  <2>4. \A t \in Recent : /\ AtMost(arrived[t] + 1, Limit + 1) \in 0..(Limit + 1)
                          /\ AtMost(parsed[t] + 1, 2 * Limit + 1) \in 0..(2 * Limit + 1)
    BY <2>2, <2>3, AtMostNat
  <2>5. arrived' \in [Recent -> 0..(Limit + 1)] /\ parsed' \in [Recent -> 0..(2 * Limit + 1)]
    BY <2>1, <2>4 DEF TableInv
  <2>6. oneTooMany' \in BOOLEAN
    BY <2>1, Zenon DEF Admitted
  <2>7. QED
    BY <2>5, <2>6
<1>3. CASE IngressTick
  <2>1. /\ table' = table /\ oneTooMany' = FALSE
        /\ arrived' = [t \in Recent |-> IF t = 0 THEN 0 ELSE arrived[t - 1]]
        /\ parsed' = [t \in Recent |-> IF t = 0 THEN 0 ELSE parsed[t - 1]]
    BY <1>3 DEF IngressTick, Shift
  <2>2. \A t \in Recent : t # 0 => t - 1 \in Recent
    BY IngressAssumption DEF Recent
  <2>3. 0 \in 0..(Limit + 1) /\ 0 \in 0..(2 * Limit + 1)
    BY IngressAssumption
  <2>4. QED
    BY <2>1, <2>2, <2>3 DEF TableInv
<1>4. CASE UNCHANGED ingressVars
  BY <1>4 DEF ingressVars, history, TableInv
<1>5. QED
  BY <1>1, <1>2, <1>3, <1>4 DEF IngressNext, TableInv

\* Every variable of the admission has its type, and seenPackets never has more
\* entries than its limit, even when none of them is old.
THEOREM IngressTypeCorrect == IngressSpec => []IngressTypeOK
<1>1. BeliefInv /\ WindowInv /\ TableInv => IngressTypeOK
  BY DEF BeliefInv, Types, WindowInv, WindowTypes, TableInv, IngressTypeOK
<1>2. QED
  BY <1>1, BeliefInit, BeliefStep, WindowInit, WindowStep, TableInit, TableStep, PTL DEF IngressSpec
------------------------------------------------------------------------------
(* Discovery: numbers.                                                      *)

LEMMA LeastNumber ==
  ASSUME NEW T, T \subseteq Nat, T # {}
  PROVE  \E m \in T : \A n \in T : m <= n
<1> DEFINE R == {pair \in Nat \X Nat : pair[1] < pair[2]}
<1>1. OpToRel(<, Nat) = R
  BY DEF OpToRel
<1>2. IsWellFoundedOn(R, Nat)
  BY <1>1, NatLessThanWellFounded, Zenon
<1> HIDE DEF R
<1>3. PICK m \in T : \A n \in T : ~ (<<n, m>> \in R)
  BY <1>2, WFMin, Zenon
<1>4. \A n \in T : <<n, m>> \in R <=> n < m
  BY DEF R
<1>5. \A n \in T : ~ (n < m)
  BY <1>3, <1>4, Zenon
<1>6. \A n \in T : n \in Nat /\ m \in Nat
  OBVIOUS
<1>7. \A n \in T : m <= n
  BY <1>5, <1>6
<1>8. QED
  BY <1>7

LEMMA InductionUpTo ==
  ASSUME NEW n \in Nat, NEW S, 0 \in S, \A k \in 1..n : k - 1 \in S => k \in S
  PROVE  \A k \in 0..n : k \in S
<1> DEFINE T == {k \in 0..n : k \notin S}
<1>1. SUFFICES ASSUME T # {} PROVE FALSE
  OBVIOUS
<1>2. PICK m \in T : \A k \in T : m <= k
  <2>1. T \subseteq Nat
    OBVIOUS
  <2> HIDE DEF T
  <2>2. QED
    BY <1>1, <2>1, LeastNumber
<1>3. m \in 1..n /\ m - 1 \in 0..n
  BY <1>2
<1>4. m - 1 \in S
  BY <1>2, <1>3
<1>5. QED
  BY <1>2, <1>3, <1>4

------------------------------------------------------------------------------
(* Learning.                                                                *)

LEMMA PacketParts ==
  ASSUME NEW p \in Packets
  PROVE  /\ p.ptr \in Seq(MFDs) /\ p.srv \in Seq(MFDs)
         /\ p.ttl \in Nat /\ p.attl \in Nat
         /\ p.addr \in [MFDHosts -> IPs \cup {Nothing}]
         /\ Range(p.ptr) \subseteq MFDs /\ Range(p.srv) \subseteq MFDs /\ Services(p) \subseteq MFDs
<1>1. /\ p.ptr \in Lists /\ p.srv \in Lists /\ p.ttl \in TTLs /\ p.attl \in TTLs
      /\ p.addr \in [MFDHosts -> IPs \cup {Nothing}]
  BY DEF Packets
<1>2. /\ p.ptr \in Seq(MFDs) /\ p.srv \in Seq(MFDs)
      /\ p.ttl \in Nat /\ p.attl \in Nat
  BY <1>1, DiscoveryConstants
<1>3. \A s \in Seq(MFDs) : Range(s) \subseteq MFDs
  BY DEF Range
<1>4. QED
  BY <1>1, <1>2, <1>3 DEF Services

\* The records that names are learned from, the printer's at the ends.
LEMMA NamingIs ==
  ASSUME NEW p \in Packets
  PROVE  /\ Len(Naming(p)) \in Nat /\ Len(Naming(p)) >= 2
         /\ \A k \in 1..Len(Naming(p)) :
              /\ Naming(p)[k].type \in {"PTR", "SRV"}
              /\ Naming(p)[k].about \in Instances
         /\ Naming(p)[Len(Naming(p))] = [type |-> "SRV", about |-> Printer]
         /\ p.srv # << >> =>
              Naming(p)[Len(Naming(p)) - 1] = [type |-> "SRV", about |-> p.srv[Len(p.srv)]]
<1> DEFINE ptr == Append(p.ptr, Printer)
           srv == Append(p.srv, Printer)
           n == Len(p.ptr)
           m == Len(p.srv)
<1>1. p.ptr \in Seq(MFDs) /\ p.srv \in Seq(MFDs)
  BY PacketParts
<1>2. /\ n \in Nat /\ m \in Nat /\ Len(ptr) = n + 1 /\ Len(srv) = m + 1
      /\ \A k \in 1..(n + 1) : ptr[k] \in Instances
      /\ \A k \in 1..(m + 1) : srv[k] \in Instances
      /\ srv[m + 1] = Printer /\ (m > 0 => srv[m] = p.srv[m])
  BY <1>1 DEF Instances
<1> DEFINE Listed(a, b) == [k \in 1..(a + b) |->
                              IF k <= a THEN [type |-> "PTR", about |-> ptr[k]]
                              ELSE [type |-> "SRV", about |-> srv[k - a]]]
<1>3. Naming(p) = Listed(Len(ptr), Len(srv))
  BY DEF Naming
<1> HIDE DEF ptr, srv, n, m
<1>4. (n + 1) + (m + 1) = n + m + 2
  BY <1>2
<1>5. Naming(p) = [k \in 1..(n + m + 2) |->
                     IF k <= n + 1 THEN [type |-> "PTR", about |-> ptr[k]]
                     ELSE [type |-> "SRV", about |-> srv[k - (n + 1)]]]
  BY <1>2, <1>3, <1>4
<1>6. Len(Naming(p)) = n + m + 2
  BY <1>2, <1>5
<1>7. \A k \in 1..(n + m + 2) : 
         /\ Naming(p)[k].type \in {"PTR", "SRV"}
         /\ Naming(p)[k].about \in Instances
  BY <1>2, <1>5
<1>8. Naming(p)[n + m + 2] = [type |-> "SRV", about |-> Printer]
  BY <1>2, <1>5
<1>9. m > 0 => Naming(p)[n + m + 1] = [type |-> "SRV", about |-> p.srv[m]]
  BY <1>2, <1>5
<1>10. p.srv # << >> => m > 0
  BY <1>1, <1>2 DEF m
<1>11. n + m + 2 \in Nat /\ n + m + 2 >= 2
  BY <1>2
<1>12. p.srv # << >> => Naming(p)[Len(Naming(p)) - 1] = [type |-> "SRV", about |-> p.srv[Len(p.srv)]]
  <2> SUFFICES ASSUME p.srv # << >>
               PROVE  Naming(p)[Len(Naming(p)) - 1] = [type |-> "SRV", about |-> p.srv[Len(p.srv)]]
    OBVIOUS
  <2>1. Naming(p)[n + m + 1] = [type |-> "SRV", about |-> p.srv[m]]
    BY <1>9, <1>10
  <2>2. Len(Naming(p)) - 1 = n + m + 1
    BY <1>2, <1>6
  <2>3. QED
    BY <2>1, <2>2 DEF m
<1>13. QED
  BY <1>6, <1>7, <1>8, <1>11, <1>12

LEMMA CachesFollow ==
  ASSUME NEW p \in Packets, NEW c
  PROVE  /\ Caches(p, c)[0] = {c}
         /\ \A k \in 1..Len(Naming(p)) :
              Caches(p, c)[k] = UNION {LearnFrom(Naming(p)[k], p.ttl, d) : d \in Caches(p, c)[k - 1]}
<1> DEFINE N == Len(Naming(p))
           More(k, D) == UNION {LearnFrom(Naming(p)[k], p.ttl, d) : d \in D}
           Follows(f, n) == f = [k \in 0..n |-> IF k = 0 THEN {c} ELSE More(k, f[k - 1])]
           S == {n \in Nat : \E f : Follows(f, n)}
<1>1. N \in Nat
  BY NamingIs
<1> HIDE DEF N, More
<1>2. 0 \in S
  <2>1. Follows([k \in 0..0 |-> {c}], 0)
    OBVIOUS
  <2>2. QED
    BY <2>1
<1>3. ASSUME NEW n \in 1..N, n - 1 \in S PROVE n \in S
  <2>1. PICK f : Follows(f, n - 1)
    BY <1>3
  <2> DEFINE g == [k \in 0..n |-> IF k = n THEN More(n, f[n - 1]) ELSE f[k]]
  <2>2. \A k \in 0..n : k # 0 => g[k - 1] = f[k - 1]
    BY <1>1
  <2>3. \A k \in 0..n : g[k] = IF k = 0 THEN {c} ELSE More(k, g[k - 1])
    <3> SUFFICES ASSUME NEW k \in 0..n PROVE g[k] = IF k = 0 THEN {c} ELSE More(k, g[k - 1])
      OBVIOUS
    <3>1. CASE k = n
      BY <1>1, <2>2, <3>1
    <3>2. CASE k # n
      <4>1. k \in 0..(n - 1) /\ g[k] = f[k]
        BY <1>1, <3>2
      <4>2. f[k] = IF k = 0 THEN {c} ELSE More(k, f[k - 1])
        BY <2>1, <4>1
      <4>3. QED
        BY <2>2, <4>1, <4>2
    <3>3. QED
      BY <3>1, <3>2
  <2>4. Follows(g, n)
    BY <2>3
  <2>5. \E h : Follows(h, n)
    BY <2>4
  <2> HIDE DEF Follows
  <2>6. QED
    BY <1>1, <2>5
<1>4. N \in S
  <2>1. \A k \in 1..N : k - 1 \in S => k \in S
    BY <1>3
  <2> HIDE DEF S
  <2>2. QED
    BY <1>1, <1>2, <2>1, InductionUpTo
<1>5. PICK f : Follows(f, N)
  BY <1>4
<1>6. Follows(Caches(p, c), N)
  BY <1>5 DEF Caches, N, More
<1>7. Caches(p, c)[0] = {c} /\ \A k \in 1..N : Caches(p, c)[k] = More(k, Caches(p, c)[k - 1])
  <2> HIDE DEF S
  <2>1. Caches(p, c)[0] = {c}
    BY <1>1, <1>6
  <2>2. \A k \in 1..N : k \in 0..N /\ k # 0
    BY <1>1
  <2>3. \A k \in 1..N : Caches(p, c)[k] = More(k, Caches(p, c)[k - 1])
    BY <1>6, <2>2
  <2>4. QED
    BY <2>1, <2>3
<1>8. QED
  BY <1>7 DEF N, More
------------------------------------------------------------------------------
(* What a cache holds: names of MFDs only, and no more than its limit, with  *)
(* lifetimes that were cut.                                                 *)

Sound(c) ==
  /\ DOMAIN c \subseteq MFDs \cup MFDHosts
  /\ IsFiniteSet(DOMAIN c) /\ Cardinality(DOMAIN c) <= MaxNames
  /\ \A n \in DOMAIN c : c[n] \in Lifetimes

LEMMA LifetimesAre ==
  /\ Lifetimes \subseteq Int /\ 0..MaxTTL \subseteq Lifetimes /\ -1 \in Lifetimes
  /\ \A t \in Lifetimes : Older(t) \in Lifetimes /\ (t >= 0 => t \in 0..MaxTTL)
  /\ \A t, u \in Lifetimes : Later(t, u) \in Lifetimes
  /\ \A t \in Nat : Cut(t) \in 0..MaxTTL
BY DiscoveryConstants DEF Lifetimes, Older, Later, Cut

\* The printer is in no cache: its names differ from those of MFDs.
LEMMA PrinterApart ==
  ASSUME NEW c, Sound(c)
  PROVE  /\ Printer \notin DOMAIN c /\ HostOf[Printer] \notin DOMAIN c
         /\ Printer \notin MFDs
         /\ \A i \in Instances : i \in MFDs \/ i = Printer
         /\ \A i \in MFDs : HostOf[i] \in MFDHosts
<1>1. Printer \in Instances /\ HostOf[Printer] \in Hosts
  BY DEF Instances, Hosts
<1>2. MFDHosts \subseteq Hosts /\ MFDs \subseteq Instances
  BY DEF Instances, Hosts, MFDHosts
<1>3. Printer \notin MFDHosts /\ HostOf[Printer] \notin MFDs
  BY <1>1, <1>2, DiscoveryConstants
<1>4. Printer \notin MFDs /\ HostOf[Printer] \notin MFDHosts
  BY DiscoveryConstants
<1>5. \A i \in Instances : i \in MFDs \/ i = Printer
  BY DEF Instances
<1>6. \A i \in MFDs : HostOf[i] \in MFDHosts
  BY DEF MFDHosts
<1>7. QED
  BY <1>3, <1>4, <1>5, <1>6 DEF Sound

LEMMA WithoutSound ==
  ASSUME NEW c, Sound(c), NEW S
  PROVE  /\ Sound(Without(c, S))
         /\ DOMAIN Without(c, S) = DOMAIN c \ S
         /\ \A n \in DOMAIN c \ S : Without(c, S)[n] = c[n]
<1>1. /\ DOMAIN Without(c, S) = DOMAIN c \ S
      /\ \A n \in DOMAIN c \ S : Without(c, S)[n] = c[n]
  BY DEF Without, Restrict
<1>2. /\ IsFiniteSet(DOMAIN c \ S) /\ Cardinality(DOMAIN c \ S) <= Cardinality(DOMAIN c)
      /\ Cardinality(DOMAIN c) \in Nat /\ Cardinality(DOMAIN c \ S) \in Nat
  BY FS_Subset, FS_CardinalityType DEF Sound
<1>3. Cardinality(DOMAIN c \ S) <= MaxNames
  BY <1>2, DiscoveryConstants DEF Sound
<1>4. QED
  BY <1>1, <1>2, <1>3 DEF Sound

\* Learning a name makes room for it first.
LEMMA AddSound ==
  ASSUME NEW c, Sound(c), NEW n \in MFDs \cup MFDHosts, NEW t \in Nat, NEW d \in AddTTL(c, n, t)
  PROVE  Sound(d) /\ (t > 0 => n \in DOMAIN d /\ d[n] = Cut(t))
<1>1. CASE t = 0
  <2>1. d = Without(c, {n})
    BY <1>1 DEF AddTTL
  <2>2. Sound(d)
    BY <2>1, WithoutSound, Zenon
  <2>3. ~ (t > 0)
    BY <1>1
  <2>4. QED
    BY <2>2, <2>3
<1>2. CASE t # 0
  <2> DEFINE kept == IF Cardinality(DOMAIN c) >= MaxNames
                     THEN Without(c, {k \in DOMAIN c : c[k] < 0}) ELSE c
             room == IF Cardinality(DOMAIN kept) >= MaxNames
                     THEN {Without(kept, {k}) : k \in DOMAIN kept} ELSE {kept}
  <2>1. PICK r \in room : d = Updated(r, [k \in {n} |-> Cut(t)])
    BY <1>2 DEF AddTTL
  <2>2. Sound(kept)
    BY WithoutSound
  <2> HIDE DEF kept
  <2>3. MaxNames \in Nat /\ Cardinality(DOMAIN kept) \in Nat
    BY <2>2, DiscoveryConstants, FS_CardinalityType DEF Sound
  <2>4. Sound(r) /\ Cardinality(DOMAIN r) < MaxNames
    <3>1. CASE Cardinality(DOMAIN kept) >= MaxNames
      <4>1. PICK k \in DOMAIN kept : r = Without(kept, {k})
        BY <3>1
      <4>2. Sound(r) /\ DOMAIN r = DOMAIN kept \ {k}
        BY <2>2, <4>1, WithoutSound
      <4>3. Cardinality(DOMAIN r) = Cardinality(DOMAIN kept) - 1
        BY <2>2, <4>2, FS_RemoveElement DEF Sound
      <4>4. QED
        BY <2>2, <2>3, <4>2, <4>3 DEF Sound
    <3>2. CASE ~ (Cardinality(DOMAIN kept) >= MaxNames)
      BY <2>2, <2>3, <3>2
    <3>3. QED
      BY <3>1, <3>2
  <2> HIDE DEF room
  <2>5. /\ DOMAIN d = DOMAIN r \cup {n}
        /\ d[n] = Cut(t)
    BY <2>1 DEF Updated
  <2>6. /\ IsFiniteSet(DOMAIN d) /\ Cardinality(DOMAIN d) <= Cardinality(DOMAIN r) + 1
    <3> DEFINE D == DOMAIN r
    <3>1. IsFiniteSet(D) /\ Cardinality(D) \in Nat
      BY <2>4, FS_CardinalityType DEF Sound
    <3> HIDE DEF D
    <3>2. IsFiniteSet(D \cup {n}) /\ Cardinality(D \cup {n}) <= Cardinality(D) + 1
      <4>1. IsFiniteSet(D \cup {n})
        BY <3>1, FS_AddElement, Zenon
      <4>2. Cardinality(D \cup {n}) \in {Cardinality(D), Cardinality(D) + 1}
        BY <3>1, FS_AddElement
      <4>3. QED
        BY <3>1, <4>1, <4>2
    <3>3. QED
      BY <2>5, <3>2 DEF D
  <2>7. Cardinality(DOMAIN d) \in Nat /\ Cardinality(DOMAIN r) \in Nat
    BY <2>4, <2>6, FS_CardinalityType DEF Sound
  <2>8. Cardinality(DOMAIN d) <= MaxNames
    BY <2>3, <2>4, <2>6, <2>7
  <2>9. \A k \in DOMAIN d : d[k] \in Lifetimes
    <3>1. Cut(t) \in Lifetimes
      BY LifetimesAre
    <3>2. \A k \in DOMAIN r : k # n => d[k] = r[k]
      BY <2>1 DEF Updated
    <3>3. QED
      BY <2>4, <2>5, <3>1, <3>2 DEF Sound
  <2>10. QED
    BY <2>4, <2>5, <2>6, <2>8, <2>9 DEF Sound
<1>3. QED
  BY <1>1, <1>2

\* One record adds the name of an MFD or of its host, or nothing.
LEMMA LearnFromSound ==
  ASSUME NEW c, Sound(c), NEW t \in Nat, NEW r, r.type \in {"PTR", "SRV"}, r.about \in Instances,
         NEW d \in LearnFrom(r, t, c)
  PROVE  /\ Sound(d)
         /\ r.about = Printer => d = c
         /\ r.type = "SRV" /\ r.about \in MFDs /\ t > 0 =>
              HostOf[r.about] \in DOMAIN d /\ d[HostOf[r.about]] = Cut(t)
<1>1. CASE r.about = Printer
  <2>1. ~ AllowedInstance(r.about) /\ ~ Has(c, r.about) /\ r.about \notin MFDs
    BY <1>1, PrinterApart DEF AllowedInstance, Has
  <2>2. d = c
    BY <2>1 DEF LearnFrom
  <2>3. QED
    BY <2>1, <2>2
<1>2. CASE r.about \in MFDs
  <2>1. AllowedInstance(r.about) /\ r.about # Printer /\ HostOf[r.about] \in MFDHosts
    BY <1>2, PrinterApart DEF AllowedInstance
  <2>2. CASE r.type = "PTR"
    <3>1. d \in AddTTL(c, r.about, t)
      BY <2>1, <2>2 DEF LearnFrom
    <3>2. QED
      BY <1>2, <2>1, <2>2, <3>1, AddSound
  <2>3. CASE r.type = "SRV"
    <3>1. d \in AddTTL(c, HostOf[r.about], t)
      BY <2>1, <2>3 DEF LearnFrom
    <3>2. QED
      BY <2>1, <2>3, <3>1, AddSound
  <2>4. QED
    BY <2>2, <2>3
<1>3. QED
  BY <1>1, <1>2, PrinterApart

LEMMA CachesSound ==
  ASSUME NEW p \in Packets, NEW c, Sound(c)
  PROVE  \A k \in 0..Len(Naming(p)) : \A d \in Caches(p, c)[k] : Sound(d)
<1> DEFINE S == {k \in Nat : \A d \in Caches(p, c)[k] : Sound(d)}
<1>1. Len(Naming(p)) \in Nat /\ p.ttl \in Nat
  BY NamingIs, PacketParts
<1>2. 0 \in S
  BY CachesFollow
<1>3. ASSUME NEW k \in 1..Len(Naming(p)), k - 1 \in S PROVE k \in S
  <2>1. SUFFICES ASSUME NEW d \in Caches(p, c)[k] PROVE Sound(d)
    BY <1>1
  <2>2. PICK b \in Caches(p, c)[k - 1] : d \in LearnFrom(Naming(p)[k], p.ttl, b)
    BY <2>1, CachesFollow
  <2>3. Sound(b)
    BY <1>3, <2>2
  <2>4. Naming(p)[k].type \in {"PTR", "SRV"} /\ Naming(p)[k].about \in Instances
    BY NamingIs
  <2>5. QED
    BY <1>1, <2>2, <2>3, <2>4, LearnFromSound
<1>4. \A k \in 1..Len(Naming(p)) : k - 1 \in S => k \in S
  BY <1>3
<1>5. \A k \in 0..Len(Naming(p)) : k \in S
  <2> HIDE DEF S
  <2>1. QED
    BY <1>1, <1>2, <1>4, InductionUpTo
<1>6. QED
  BY <1>5

\* The host that the last SRV record of an MFD names is known afterwards: what
\* follows it is the printer's, for which no room is made.
LEMMA LastHostKnown ==
  ASSUME NEW p \in Packets, NEW c, Sound(c), NEW d \in Learn(p, c)
  PROVE  /\ Sound(d)
         /\ p.srv # << >> /\ p.ttl > 0 =>
              /\ Has(d, HostOf[p.srv[Len(p.srv)]])
              /\ d[HostOf[p.srv[Len(p.srv)]]] = Cut(p.ttl)
<1> DEFINE n == Len(Naming(p))
           last == p.srv[Len(p.srv)]
<1>1. n \in Nat /\ n >= 2 /\ p.ttl \in Nat /\ n \in 1..n /\ n - 1 \in 1..n /\ n - 1 \in 0..n /\ n \in 0..n
  <2>1. n \in Nat /\ n >= 2
    BY NamingIs
  <2> HIDE DEF n
  <2>2. n \in 1..n /\ n - 1 \in 1..n /\ n - 1 \in 0..n /\ n \in 0..n
    BY <2>1
  <2>3. QED
    BY <2>1, <2>2, PacketParts
<1>2. PICK e \in Caches(p, c)[n] : d = LookUp(e, Addressed(p))
  BY DEF Learn
<1>3. Sound(e)
  BY <1>1, CachesSound
<1>4. Sound(d)
  BY <1>2, <1>3, WithoutSound DEF LookUp
<1>5. ASSUME p.srv # << >>, p.ttl > 0
      PROVE  Has(d, HostOf[last]) /\ d[HostOf[last]] = Cut(p.ttl)
  <2>1. last \in MFDs /\ last # Printer
    BY <1>5, PacketParts, DiscoveryConstants
  <2>2. /\ Naming(p)[n] = [type |-> "SRV", about |-> Printer]
        /\ Naming(p)[n - 1] = [type |-> "SRV", about |-> last]
    BY <1>5, NamingIs
  <2>3. PICK b \in Caches(p, c)[n - 1] : e \in LearnFrom(Naming(p)[n], p.ttl, b)
    BY <1>1, <1>2, CachesFollow
  <2>4. PICK a \in Caches(p, c)[n - 1 - 1] : b \in LearnFrom(Naming(p)[n - 1], p.ttl, a)
    BY <1>1, <2>3, CachesFollow
  <2>5. Sound(a) /\ Sound(b)
    <3>1. n - 1 - 1 \in 0..n
      BY <1>1
    <3>2. QED
      BY <1>1, <2>3, <2>4, <3>1, CachesSound
  <2>6. HostOf[last] \in DOMAIN b /\ b[HostOf[last]] = Cut(p.ttl)
    <3>1. /\ Naming(p)[n - 1].type = "SRV" /\ Naming(p)[n - 1].about = last
          /\ last \in Instances
      BY <2>1, <2>2 DEF Instances
    <3>2. QED
      BY <1>1, <1>5, <2>1, <2>4, <2>5, <3>1, LearnFromSound
  <2>7. e = b
    <3>1. Naming(p)[n].type = "SRV" /\ Naming(p)[n].about = Printer /\ Printer \in Instances
      BY <2>2 DEF Instances
    <3>2. QED
      BY <1>1, <2>3, <2>5, <3>1, LearnFromSound
  <2>8. Cut(p.ttl) \in Nat
    BY <1>1, DiscoveryConstants DEF Cut
  <2>9. HostOf[last] \notin {k \in Addressed(p) \cap DOMAIN e : e[k] < 0}
    BY <2>6, <2>7, <2>8
  <2>10. HostOf[last] \in DOMAIN d /\ d[HostOf[last]] = Cut(p.ttl)
    <3> DEFINE gone == {k \in Addressed(p) \cap DOMAIN e : e[k] < 0}
    <3>1. d = Without(e, gone)
      BY <1>2 DEF LookUp
    <3>2. HostOf[last] \in DOMAIN e \ gone
      BY <2>6, <2>7, <2>9
    <3> HIDE DEF gone, last
    <3>3. DOMAIN d = DOMAIN e \ gone /\ d[HostOf[last]] = e[HostOf[last]]
      <4>1. /\ DOMAIN Without(e, gone) = DOMAIN e \ gone
            /\ \A k \in DOMAIN e \ gone : Without(e, gone)[k] = e[k]
        BY <1>3, WithoutSound, Zenon
      <4>2. QED
        BY <3>1, <3>2, <4>1, Zenon
    <3>4. QED
      BY <2>6, <2>7, <3>2, <3>3
  <2>11. QED
    BY <2>8, <2>10 DEF Has
<1>6. QED
  BY <1>4, <1>5
------------------------------------------------------------------------------
(* The tables.                                                              *)

ObsInv ==
  /\ DOMAIN obs \subseteq MFDs
  /\ \A i \in DOMAIN obs : obs[i] \in [host : MFDHosts \cup {Nothing}, left : Lifetimes]
  /\ Cardinality(DOMAIN obs) <= MaxObs

HostsInv ==
  /\ DOMAIN hosts \subseteq MFDHosts
  /\ \A h \in DOMAIN hosts : hosts[h] \in [ip : IPs, left : Lifetimes]
  /\ Cardinality(DOMAIN hosts) <= MaxHosts

\* No service is known for longer than the network says it is there.
SaidInv ==
  /\ said \in [MFDs -> Lifetimes]
  /\ \A i \in DOMAIN obs : obs[i].left <= said[i]
  /\ axiom.left \in Int
  /\ axiom.left > 0 => axiom.inst \in MFDs /\ axiom.left <= said[axiom.inst]

\* What is left of an announcement is left of the detection and of its host's name.
AnnounceInv ==
  /\ announced \in 0..MaxTTL /\ announced <= axiom.left
  /\ announced > 0 => axiom.host \in DOMAIN names /\ names[axiom.host] >= announced

DiscoveryInv ==
  /\ Sound(names)
  /\ ObsInv /\ HostsInv /\ SaidInv
  /\ axiom \in [inst : MFDs \cup {Nothing}, host : MFDHosts \cup {Nothing},
                ip : IPs \cup {Nothing}, left : 0..MaxTTL]
  /\ AnnounceInv

LEMMA CutBounds ==
  ASSUME NEW t \in Nat
  PROVE  Cut(t) \in 0..MaxTTL /\ Cut(t) \in Nat /\ (t > 0 => Cut(t) > 0)
  BY DiscoveryConstants DEF Cut

\* What a table is cut to.
LEMMA FittingIs ==
  ASSUME NEW f, NEW limit \in Nat \ {0}, NEW g \in Fitting(f, limit)
  PROVE  /\ DOMAIN g \subseteq DOMAIN f
         /\ \A k \in DOMAIN g : g[k] = f[k]
         /\ Cardinality(DOMAIN g) <= limit
         /\ DOMAIN f # {} => DOMAIN g # {}
         /\ Cardinality(DOMAIN f) <= limit => g = f
<1>1. CASE Cardinality(DOMAIN f) <= limit
  BY <1>1 DEF Fitting
<1>2. CASE ~ (Cardinality(DOMAIN f) <= limit)
  <2>1. PICK S \in SUBSET DOMAIN f : Cardinality(S) = limit /\ g = Restrict(f, S)
    BY <1>2 DEF Fitting
  <2>2. DOMAIN g = S /\ \A k \in S : g[k] = f[k]
    BY <2>1 DEF Restrict
  <2>3. S # {}
    BY <2>1, FS_EmptySet
  <2>4. QED
    BY <1>2, <2>1, <2>2, <2>3
<1>3. QED
  BY <1>1, <1>2

\* A datagram leaves services that it announces or that were known before.
LEMMA ObsAfterIs ==
  ASSUME DiscoveryInv, NEW p \in Packets
  PROVE  /\ DOMAIN ObsAfter(p) \subseteq MFDs
         /\ \A i \in DOMAIN ObsAfter(p) : ObsAfter(p)[i] \in [host : MFDHosts \cup {Nothing}, left : 0..MaxTTL]
         /\ \A i \in DOMAIN ObsAfter(p) :
              \/ p.ttl # 0 /\ i \in Services(p) /\ ObsAfter(p)[i].left = Cut(p.ttl)
              \/ /\ i \notin Services(p) /\ i \in DOMAIN obs /\ ObsAfter(p)[i] = obs[i]
         /\ p.ttl # 0 => DOMAIN ObsAfter(p) = Services(p) \cup DOMAIN Alive(obs)
         /\ p.ttl # 0 => \A i \in Range(p.srv) : ObsAfter(p)[i].host = HostOf[i]
<1>1. Services(p) \subseteq MFDs /\ Range(p.srv) \subseteq Services(p) /\ p.ttl \in Nat
  BY PacketParts DEF Services
<1>2. /\ DOMAIN Alive(obs) \subseteq DOMAIN obs
      /\ \A i \in DOMAIN Alive(obs) : Alive(obs)[i] = obs[i]
  BY DEF Alive, Without, Restrict
<1>3. /\ \A i \in DOMAIN obs : i \in MFDs /\ obs[i] \in [host : MFDHosts \cup {Nothing}, left : Lifetimes]
      /\ \A i \in DOMAIN Alive(obs) : obs[i] \in [host : MFDHosts \cup {Nothing}, left : 0..MaxTTL]
  <2>1. \A i \in DOMAIN obs : i \in MFDs /\ obs[i] \in [host : MFDHosts \cup {Nothing}, left : Lifetimes]
    BY DEF DiscoveryInv, ObsInv
  <2>2. \A i \in DOMAIN Alive(obs) : i \in DOMAIN obs /\ ~ (obs[i].left < 0)
    BY DEF Alive, Without, Restrict
  <2>3. \A i \in DOMAIN Alive(obs) : obs[i].left \in 0..MaxTTL
    <3>1. \A i \in DOMAIN Alive(obs) : obs[i].left \in Lifetimes /\ ~ (obs[i].left < 0)
      BY <2>1, <2>2
    <3>2. QED
      BY <3>1, DiscoveryConstants DEF Lifetimes
  <2>4. QED
    BY <2>1, <2>2, <2>3
<1>4. CASE p.ttl = 0
  <2>1. ObsAfter(p) = Without(Alive(obs), Services(p))
    BY <1>4 DEF ObsAfter
  <2>2. /\ DOMAIN ObsAfter(p) = DOMAIN Alive(obs) \ Services(p)
        /\ \A i \in DOMAIN ObsAfter(p) : ObsAfter(p)[i] = Alive(obs)[i]
    BY <2>1 DEF Without, Restrict
  <2>3. QED
    BY <1>2, <1>3, <1>4, <2>2
<1>5. CASE p.ttl # 0
  <2> DEFINE host(i) == IF i \in Range(p.srv) THEN HostOf[i]
                        ELSE IF i \in DOMAIN Alive(obs) THEN obs[i].host ELSE Nothing
  <2>1. ObsAfter(p) = Updated(Alive(obs), [i \in Services(p) |-> [host |-> host(i), left |-> Cut(p.ttl)]])
    BY <1>5 DEF ObsAfter
  <2>2. \A i \in Services(p) : host(i) \in MFDHosts \cup {Nothing}
    BY <1>1, <1>2, <1>3 DEF MFDHosts
  <2>3. \A i \in Range(p.srv) : host(i) = HostOf[i]
    OBVIOUS
  <2> HIDE DEF host
  <2>4. /\ DOMAIN ObsAfter(p) = Services(p) \cup DOMAIN Alive(obs)
        /\ \A i \in Services(p) : ObsAfter(p)[i] = [host |-> host(i), left |-> Cut(p.ttl)]
        /\ \A i \in DOMAIN Alive(obs) \ Services(p) : ObsAfter(p)[i] = Alive(obs)[i]
    BY <2>1 DEF Updated
  <2>5. Cut(p.ttl) \in 0..MaxTTL
    BY <1>1, CutBounds
  <2>6. /\ \A i \in Services(p) : /\ ObsAfter(p)[i] \in [host : MFDHosts \cup {Nothing}, left : 0..MaxTTL]
                                  /\ ObsAfter(p)[i].left = Cut(p.ttl) /\ ObsAfter(p)[i].host = host(i)
    BY <2>2, <2>4, <2>5
  <2>7. \A i \in DOMAIN Alive(obs) \ Services(p) : i \in DOMAIN obs /\ ObsAfter(p)[i] = obs[i]
    BY <1>2, <2>4
  <2>8. QED
    BY <1>1, <1>3, <1>5, <2>3, <2>4, <2>6, <2>7
<1>6. QED
  BY <1>4, <1>5

LEMMA HostsAfterIs ==
  ASSUME DiscoveryInv, NEW p \in Packets, NEW located, located \subseteq Addressed(p)
  PROVE  /\ DOMAIN HostsAfter(p, located) \subseteq MFDHosts
         /\ \A h \in DOMAIN HostsAfter(p, located) : HostsAfter(p, located)[h] \in [ip : IPs, left : 0..MaxTTL]
         /\ p.attl # 0 => /\ DOMAIN HostsAfter(p, located) = DOMAIN Alive(hosts) \cup located
                          /\ \A h \in located : HostsAfter(p, located)[h].left = Cut(p.attl)
<1>1. p.attl \in Nat /\ p.addr \in [MFDHosts -> IPs \cup {Nothing}]
  BY PacketParts
<1>2. /\ DOMAIN Alive(hosts) \subseteq MFDHosts
      /\ \A h \in DOMAIN Alive(hosts) : Alive(hosts)[h] \in [ip : IPs, left : 0..MaxTTL]
  <2>1. \A h \in DOMAIN hosts : h \in MFDHosts /\ hosts[h] \in [ip : IPs, left : Lifetimes]
    BY DEF DiscoveryInv, HostsInv
  <2>2. \A h \in DOMAIN Alive(hosts) :
          h \in DOMAIN hosts /\ Alive(hosts)[h] = hosts[h] /\ ~ (hosts[h].left < 0)
    BY DEF Alive, Without, Restrict
  <2>3. \A h \in DOMAIN Alive(hosts) : hosts[h].left \in 0..MaxTTL
    <3>1. \A h \in DOMAIN Alive(hosts) : hosts[h].left \in Lifetimes /\ ~ (hosts[h].left < 0)
      BY <2>1, <2>2
    <3>2. QED
      BY <3>1, DiscoveryConstants DEF Lifetimes
  <2>4. QED
    BY <2>1, <2>2, <2>3
<1>3. CASE p.attl = 0
  <2>1. HostsAfter(p, located) = Without(Alive(hosts), located)
    BY <1>3 DEF HostsAfter
  <2>2. /\ DOMAIN HostsAfter(p, located) = DOMAIN Alive(hosts) \ located
        /\ \A h \in DOMAIN HostsAfter(p, located) : HostsAfter(p, located)[h] = Alive(hosts)[h]
    BY <2>1 DEF Without, Restrict
  <2>3. QED
    BY <1>2, <1>3, <2>2
<1>4. CASE p.attl # 0
  <2>1. HostsAfter(p, located) =
          Updated(Alive(hosts), [h \in located |-> [ip |-> p.addr[h], left |-> Cut(p.attl)]])
    BY <1>4 DEF HostsAfter
  <2>2. /\ DOMAIN HostsAfter(p, located) = DOMAIN Alive(hosts) \cup located
        /\ \A h \in located : HostsAfter(p, located)[h] = [ip |-> p.addr[h], left |-> Cut(p.attl)]
        /\ \A h \in DOMAIN Alive(hosts) \ located : HostsAfter(p, located)[h] = Alive(hosts)[h]
    BY <2>1 DEF Updated
  <2>3. \A h \in located : h \in MFDHosts /\ p.addr[h] \in IPs
    BY <1>1 DEF Addressed
  <2>4. Cut(p.attl) \in 0..MaxTTL
    BY <1>1, CutBounds
  <2>5. \A h \in located : /\ HostsAfter(p, located)[h] \in [ip : IPs, left : 0..MaxTTL]
                           /\ HostsAfter(p, located)[h].left = Cut(p.attl)
    BY <2>2, <2>3, <2>4
  <2>6. QED
    BY <1>2, <1>4, <2>2, <2>3, <2>5
<1>5. QED
  BY <1>3, <1>4
------------------------------------------------------------------------------
(* The steps.                                                               *)

LEMMA LearnTwiceIs ==
  ASSUME Sound(names), NEW p \in Packets, NEW learned \in LearnTwice(p)
  PROVE  /\ Sound(learned.names)
         /\ learned.located \subseteq Addressed(p)
         /\ p.srv # << >> /\ p.ttl > 0 /\ HostOf[p.srv[Len(p.srv)]] \in Addressed(p) =>
              /\ HostOf[p.srv[Len(p.srv)]] \in learned.located
              /\ HostOf[p.srv[Len(p.srv)]] \in DOMAIN learned.names
              /\ learned.names[HostOf[p.srv[Len(p.srv)]]] = Cut(p.ttl)
<1>1. PICK c \in Learn(p, names) :
        \E d \in Learn(p, c) : learned = [located |-> Located(p, c), names |-> d]
  BY DEF LearnTwice
<1>2. PICK d \in Learn(p, c) : learned = [located |-> Located(p, c), names |-> d]
  BY <1>1
<1>3. Sound(c)
  BY LastHostKnown
<1>4. Sound(d)
  BY <1>3, LastHostKnown
<1>5. p.srv # << >> /\ p.ttl > 0 => Has(c, HostOf[p.srv[Len(p.srv)]])
  BY LastHostKnown
<1>6. p.srv # << >> /\ p.ttl > 0 => /\ HostOf[p.srv[Len(p.srv)]] \in DOMAIN d
                                    /\ d[HostOf[p.srv[Len(p.srv)]]] = Cut(p.ttl)
  BY <1>3, LastHostKnown DEF Has
<1>7. learned.located = Located(p, c) /\ learned.names = d
  BY <1>2
<1>8. Located(p, c) \subseteq Addressed(p)
  BY DEF Located
<1>9. p.srv # << >> /\ p.ttl > 0 /\ HostOf[p.srv[Len(p.srv)]] \in Addressed(p) =>
        HostOf[p.srv[Len(p.srv)]] \in Located(p, c)
  BY <1>5 DEF Located
<1>10. QED
  BY <1>4, <1>6, <1>7, <1>8, <1>9

\* The shown detection is one of the services that are left with an address.
LEMMA ObserveIs ==
  ASSUME DiscoveryInv, NEW p \in Packets, NEW located, located \subseteq Addressed(p), Observe(p, located)
  PROVE  /\ \/ axiom' = axiom /\ ~ Withdraws(p)
            \/ axiom' = [axiom EXCEPT !.left = 0]
            \/ \E i \in DOMAIN obs' : obs'[i].host \in DOMAIN hosts' /\ axiom' = Sighting(i, obs', hosts')
         /\ obs' \in Fitting(ObsAfter(p), MaxObs)
         /\ hosts' \in Fitting(HostsAfter(p, located), MaxHosts)
         /\ (\E i \in Touched(p, located, ObsAfter(p)) : i \in DOMAIN obs' /\ obs'[i].host \in DOMAIN hosts') =>
              \E i \in Touched(p, located, ObsAfter(p)) :
                i \in DOMAIN obs' /\ obs'[i].host \in DOMAIN hosts' /\ axiom' = Sighting(i, obs', hosts')
<1> DEFINE seen(o, h) == {i \in Touched(p, located, ObsAfter(p)) : i \in DOMAIN o /\ o[i].host \in DOMAIN h}
<1>1. PICK o \in Fitting(ObsAfter(p), MaxObs), h \in Fitting(HostsAfter(p, located), MaxHosts) :
        /\ obs' = o /\ hosts' = h
        /\ \/ seen(o, h) = {} /\ axiom' = IF Withdraws(p) THEN [axiom EXCEPT !.left = 0] ELSE axiom
           \/ \E i \in seen(o, h) : axiom' = Sighting(i, o, h)
  BY DEF Observe
<1>2. CASE seen(o, h) = {} /\ axiom' = IF Withdraws(p) THEN [axiom EXCEPT !.left = 0] ELSE axiom
  BY <1>1, <1>2
<1>3. CASE \E i \in seen(o, h) : axiom' = Sighting(i, o, h)
  BY <1>1, <1>3
<1>4. QED
  BY <1>1, <1>2, <1>3

LEMMA TablesAtReceive ==
  ASSUME DiscoveryInv, NEW p \in Packets, Receive(p)
  PROVE  /\ Sound(names)' /\ ObsInv' /\ HostsInv'
         /\ \A i \in DOMAIN obs' : obs'[i].left \in 0..MaxTTL
         /\ \A h \in DOMAIN hosts' : hosts'[h].left \in 0..MaxTTL
         /\ said' \in [MFDs -> Lifetimes]
         /\ \A i \in DOMAIN obs' : obs'[i].left <= said'[i]
<1>1. PICK learned \in LearnTwice(p) :
        /\ names' = learned.names
        /\ Observe(p, learned.located)
        /\ said' = [i \in MFDs |-> IF i \notin Services(p) THEN said[i]
                                   ELSE IF p.ttl = 0 THEN -1 ELSE Later(said[i], Cut(p.ttl))]
  BY DEF Receive
<1>2. Sound(learned.names) /\ learned.located \subseteq Addressed(p)
  BY LearnTwiceIs DEF DiscoveryInv
<1>3. obs' \in Fitting(ObsAfter(p), MaxObs) /\ hosts' \in Fitting(HostsAfter(p, learned.located), MaxHosts)
  BY <1>1, <1>2, ObserveIs
<1>4. MaxObs \in Nat \ {0} /\ MaxHosts \in Nat \ {0}
  BY DiscoveryConstants
<1>5. /\ DOMAIN obs' \subseteq DOMAIN ObsAfter(p) /\ Cardinality(DOMAIN obs') <= MaxObs
      /\ \A i \in DOMAIN obs' : obs'[i] = ObsAfter(p)[i]
  BY <1>3, <1>4, FittingIs, Zenon
<1>6. /\ DOMAIN hosts' \subseteq DOMAIN HostsAfter(p, learned.located) /\ Cardinality(DOMAIN hosts') <= MaxHosts
      /\ \A h \in DOMAIN hosts' : hosts'[h] = HostsAfter(p, learned.located)[h]
  BY <1>3, <1>4, FittingIs, Zenon
<1>7. /\ DOMAIN ObsAfter(p) \subseteq MFDs
      /\ \A i \in DOMAIN ObsAfter(p) : ObsAfter(p)[i] \in [host : MFDHosts \cup {Nothing}, left : 0..MaxTTL]
  BY ObsAfterIs, Zenon
<1>8. /\ DOMAIN HostsAfter(p, learned.located) \subseteq MFDHosts
      /\ \A h \in DOMAIN HostsAfter(p, learned.located) :
           HostsAfter(p, learned.located)[h] \in [ip : IPs, left : 0..MaxTTL]
  BY <1>2, HostsAfterIs, Zenon
<1>9. ObsInv' /\ \A i \in DOMAIN obs' : obs'[i].left \in 0..MaxTTL
  <2>1. \A i \in DOMAIN obs' : i \in MFDs /\ obs'[i] \in [host : MFDHosts \cup {Nothing}, left : 0..MaxTTL]
    BY <1>5, <1>7
  <2>2. QED
    BY <1>5, <2>1, LifetimesAre DEF ObsInv
<1>10. HostsInv' /\ \A h \in DOMAIN hosts' : hosts'[h].left \in 0..MaxTTL
  <2>1. \A h \in DOMAIN hosts' : h \in MFDHosts /\ hosts'[h] \in [ip : IPs, left : 0..MaxTTL]
    BY <1>6, <1>8
  <2>2. QED
    BY <1>6, <2>1, LifetimesAre DEF HostsInv
<1>11. p.ttl \in Nat /\ Cut(p.ttl) \in Nat /\ said \in [MFDs -> Lifetimes]
  BY PacketParts, CutBounds DEF DiscoveryInv, SaidInv
<1>12. said' \in [MFDs -> Lifetimes]
  <2>1. -1 \in Lifetimes /\ \A i \in MFDs : Later(said[i], Cut(p.ttl)) \in Lifetimes
    BY <1>11, LifetimesAre
  <2>2. QED
    BY <1>1, <1>11, <2>1
<1>13. ASSUME NEW i \in DOMAIN obs' PROVE obs'[i].left <= said'[i]
  <2>1. i \in DOMAIN ObsAfter(p) /\ obs'[i] = ObsAfter(p)[i] /\ i \in MFDs
    BY <1>13, <1>5, <1>7
  <2>2. CASE p.ttl # 0 /\ i \in Services(p) /\ ObsAfter(p)[i].left = Cut(p.ttl)
    <3>1. said'[i] = Later(said[i], Cut(p.ttl)) /\ said[i] \in Int
      BY <1>1, <1>11, <2>1, <2>2, LifetimesAre
    <3>2. QED
      BY <1>11, <2>1, <2>2, <3>1 DEF Later
  <2>3. CASE i \notin Services(p) /\ i \in DOMAIN obs /\ ObsAfter(p)[i] = obs[i]
    <3>1. said'[i] = said[i]
      BY <1>1, <2>1, <2>3
    <3>2. QED
      BY <2>1, <2>3, <3>1 DEF DiscoveryInv, SaidInv
  <2>4. QED
    BY <2>1, <2>2, <2>3, ObsAfterIs
<1>14. QED
  BY <1>1, <1>2, <1>9, <1>10, <1>12, <1>13

\* A detection that stays is not withdrawn, a new one is of a service that is known.
LEMMA DetectionAtReceive ==
  ASSUME DiscoveryInv, NEW p \in Packets, Receive(p)
  PROVE  /\ axiom' \in [inst : MFDs \cup {Nothing}, host : MFDHosts \cup {Nothing},
                        ip : IPs \cup {Nothing}, left : 0..MaxTTL]
         /\ axiom'.left > 0 => axiom'.inst \in MFDs /\ axiom'.left <= said'[axiom'.inst]
<1>1. PICK learned \in LearnTwice(p) :
        /\ names' = learned.names
        /\ Observe(p, learned.located)
        /\ said' = [i \in MFDs |-> IF i \notin Services(p) THEN said[i]
                                   ELSE IF p.ttl = 0 THEN -1 ELSE Later(said[i], Cut(p.ttl))]
  BY DEF Receive
<1>2. learned.located \subseteq Addressed(p)
  BY LearnTwiceIs DEF DiscoveryInv
<1>3. axiom \in [inst : MFDs \cup {Nothing}, host : MFDHosts \cup {Nothing},
                 ip : IPs \cup {Nothing}, left : 0..MaxTTL]
  BY DEF DiscoveryInv
<1>4. p.ttl \in Nat /\ Cut(p.ttl) \in Nat /\ said \in [MFDs -> Lifetimes]
  BY PacketParts, CutBounds DEF DiscoveryInv, SaidInv
<1>5. CASE axiom' = axiom /\ ~ Withdraws(p)
  <2>1. SUFFICES ASSUME axiom.left > 0 PROVE axiom.inst \in MFDs /\ axiom.left <= said'[axiom.inst]
    BY <1>3, <1>5
  <2>2. axiom.inst \in MFDs /\ axiom.left <= said[axiom.inst]
    BY <2>1 DEF DiscoveryInv, SaidInv
  <2>3. axiom.inst \in Services(p) => p.ttl # 0
    BY <1>5 DEF Withdraws
  <2>4. said'[axiom.inst] = said[axiom.inst] \/ said'[axiom.inst] = Later(said[axiom.inst], Cut(p.ttl))
    BY <1>1, <2>2, <2>3
  <2>5. axiom.left \in Int /\ said[axiom.inst] \in Int
    BY <1>3, <1>4, <2>2, LifetimesAre
  <2>6. QED
    BY <1>4, <2>2, <2>4, <2>5 DEF Later
<1>6. CASE axiom' = [axiom EXCEPT !.left = 0]
  <2>1. 0 \in 0..MaxTTL
    BY DiscoveryConstants
  <2>2. QED
    BY <1>3, <1>6, <2>1
<1>7. CASE \E i \in DOMAIN obs' : obs'[i].host \in DOMAIN hosts' /\ axiom' = Sighting(i, obs', hosts')
  <2>1. PICK i \in DOMAIN obs' : obs'[i].host \in DOMAIN hosts' /\ axiom' = Sighting(i, obs', hosts')
    BY <1>7
  <2>2. /\ i \in MFDs /\ obs'[i].left \in 0..MaxTTL /\ obs'[i].host \in MFDHosts
        /\ obs'[i].left <= said'[i] /\ said'[i] \in Int
        /\ hosts'[obs'[i].host].left \in 0..MaxTTL /\ hosts'[obs'[i].host].ip \in IPs
    BY <2>1, TablesAtReceive, LifetimesAre DEF ObsInv, HostsInv
  <2>3. axiom' = [inst |-> i, host |-> obs'[i].host, ip |-> hosts'[obs'[i].host].ip,
                  left |-> Lesser(obs'[i].left, hosts'[obs'[i].host].left)]
    BY <2>1 DEF Sighting
  <2>4. /\ Lesser(obs'[i].left, hosts'[obs'[i].host].left) \in 0..MaxTTL
        /\ Lesser(obs'[i].left, hosts'[obs'[i].host].left) <= said'[i]
    BY <2>2 DEF Lesser
  <2>5. QED
    BY <2>2, <2>3, <2>4
<1>8. QED
  BY <1>1, <1>2, <1>5, <1>6, <1>7, ObserveIs

\* An announcement is detected for the lesser of its lifetimes, and the host of it
\* that is shown is known for at least as long.
LEMMA AnnouncedAtReceive ==
  ASSUME DiscoveryInv, NEW p \in Packets, Receive(p), Announces(p)
  PROVE  /\ axiom'.left = announced' /\ announced' \in 0..MaxTTL
         /\ axiom'.host \in DOMAIN names' /\ names'[axiom'.host] >= announced'
<1>1. PICK learned \in LearnTwice(p) : names' = learned.names /\ Observe(p, learned.located)
  BY DEF Receive
<1> DEFINE L == learned.located
           last == p.srv[Len(p.srv)]
<1>2. /\ p.ttl \in Nat /\ p.ttl # 0 /\ p.ttl > 0 /\ p.attl \in Nat /\ p.attl # 0 /\ p.attl > 0
      /\ p.srv \in Seq(MFDs)
  BY PacketParts DEF Announces
<1>3. p.srv # << >> /\ last \in Services(p)
  <2>1. p.srv # << >>
    BY DEF Announces, Range
  <2>2. last \in Range(p.srv)
    BY <1>2, <2>1 DEF Range
  <2>3. QED
    BY <2>1, <2>2 DEF Services
<1>4. L \subseteq Addressed(p) /\ HostOf[last] \in L
  BY <1>2, <1>3, LearnTwiceIs DEF DiscoveryInv, Announces
<1>5. HostOf[last] \in DOMAIN names' /\ names'[HostOf[last]] = Cut(p.ttl)
  BY <1>1, <1>2, <1>3, LearnTwiceIs DEF DiscoveryInv, Announces
<1> HIDE DEF last
<1>6. \A i \in Services(p) : i \in Range(p.srv) /\ HostOf[i] = HostOf[last]
  BY <1>3 DEF Announces
<1>7. /\ obs' \in Fitting(ObsAfter(p), MaxObs)
      /\ hosts' \in Fitting(HostsAfter(p, L), MaxHosts)
  BY <1>1, <1>4, ObserveIs
<1> HIDE DEF L
<1>8. MaxObs \in Nat \ {0} /\ MaxHosts \in Nat \ {0}
  BY DiscoveryConstants
<1>9. DOMAIN ObsAfter(p) = Services(p)
  BY <1>2, ObsAfterIs DEF Announces
<1>10. \A i \in DOMAIN obs' : /\ i \in Services(p) /\ obs'[i] = ObsAfter(p)[i]
                             /\ obs'[i].left = Cut(p.ttl) /\ obs'[i].host = HostOf[last]
  <2>1. DOMAIN obs' \subseteq DOMAIN ObsAfter(p) /\ \A i \in DOMAIN obs' : obs'[i] = ObsAfter(p)[i]
    BY <1>7, <1>8, FittingIs, Zenon
  <2>2. \A i \in Services(p) : ObsAfter(p)[i].left = Cut(p.ttl)
    BY <1>9, ObsAfterIs
  <2>3. \A i \in Services(p) : ObsAfter(p)[i].host = HostOf[last]
    BY <1>2, <1>6, ObsAfterIs
  <2>4. QED
    BY <1>9, <2>1, <2>2, <2>3
<1>11. hosts' = HostsAfter(p, L)
  <2>1. DOMAIN HostsAfter(p, L) \subseteq DOMAIN Alive(hosts) \cup Addressed(p)
    <3>1. DOMAIN HostsAfter(p, L) = DOMAIN Alive(hosts) \cup L
      BY <1>2, <1>4, HostsAfterIs, Zenon
    <3>2. QED
      BY <1>4, <3>1
  <2>2. IsFiniteSet(DOMAIN Alive(hosts) \cup Addressed(p))
    <3>1. IsFiniteSet(MFDHosts)
      <4> DEFINE f == [i \in MFDs |-> HostOf[i]]
      <4>1. f \in Surjection(MFDs, MFDHosts)
        BY DEF MFDHosts, Surjection
      <4>2. QED
        BY <4>1, DiscoveryConstants, FS_Surjection
    <3>2. DOMAIN Alive(hosts) \cup Addressed(p) \subseteq MFDHosts
      BY DEF Alive, Without, Restrict, Addressed, DiscoveryInv, HostsInv
    <3>3. QED
      BY <3>1, <3>2, FS_Subset
  <2>3. /\ Cardinality(DOMAIN HostsAfter(p, L)) <= Cardinality(DOMAIN Alive(hosts) \cup Addressed(p))
        /\ Cardinality(DOMAIN HostsAfter(p, L)) \in Nat
        /\ Cardinality(DOMAIN Alive(hosts) \cup Addressed(p)) \in Nat
    BY <2>1, <2>2, FS_Subset, FS_CardinalityType
  <2>4. Cardinality(DOMAIN HostsAfter(p, L)) <= MaxHosts
    BY <1>8, <2>3 DEF Announces
  <2>5. QED
    BY <1>7, <1>8, <2>4, FittingIs
<1>12. HostOf[last] \in DOMAIN hosts' /\ hosts'[HostOf[last]].left = Cut(p.attl)
  <2>1. /\ DOMAIN HostsAfter(p, L) = DOMAIN Alive(hosts) \cup L
        /\ \A h \in L : HostsAfter(p, L)[h].left = Cut(p.attl)
    BY <1>2, <1>4, HostsAfterIs, Zenon
  <2>2. QED
    BY <1>4, <1>11, <2>1
<1>13. PICK i \in DOMAIN obs' : TRUE
  BY <1>3, <1>7, <1>8, <1>9, FittingIs
<1>14. i \in Touched(p, L, ObsAfter(p))
  BY <1>2, <1>9, <1>10 DEF Touched
<1>15. PICK j \in DOMAIN obs' : axiom' = Sighting(j, obs', hosts')
  BY <1>1, <1>4, <1>10, <1>12, <1>13, <1>14, ObserveIs DEF L
<1>16. axiom'.left = Lesser(Cut(p.ttl), Cut(p.attl)) /\ axiom'.host = HostOf[last]
  BY <1>10, <1>12, <1>15 DEF Sighting
<1>17. announced' = Lesser(Cut(p.ttl), Cut(p.attl))
  BY DEF Receive
<1>18. Cut(p.ttl) \in 0..MaxTTL /\ Cut(p.attl) \in 0..MaxTTL
  BY <1>2, CutBounds
<1>19. /\ Lesser(Cut(p.ttl), Cut(p.attl)) \in 0..MaxTTL
       /\ Cut(p.ttl) >= Lesser(Cut(p.ttl), Cut(p.attl))
  BY <1>18 DEF Lesser
<1>20. QED
  BY <1>5, <1>16, <1>17, <1>19

LEMMA DiscoveryInvInit == Init => DiscoveryInv
<1> SUFFICES ASSUME Init PROVE DiscoveryInv
  OBVIOUS
<1>1. DOMAIN names = {} /\ DOMAIN obs = {} /\ DOMAIN hosts = {}
  BY DEF Init
<1>2. Sound(names) /\ ObsInv /\ HostsInv
  BY <1>1, FS_EmptySet, DiscoveryConstants DEF Sound, ObsInv, HostsInv
<1>3. SaidInv
  BY <1>1, LifetimesAre DEF Init, SaidInv
<1>4. axiom \in [inst : MFDs \cup {Nothing}, host : MFDHosts \cup {Nothing},
                 ip : IPs \cup {Nothing}, left : 0..MaxTTL]
  BY DiscoveryConstants DEF Init
<1>5. AnnounceInv
  <2>1. announced = 0 /\ axiom.left = 0
    BY DEF Init
  <2>2. QED
    BY <2>1, DiscoveryConstants DEF AnnounceInv
<1>6. QED
  BY <1>2, <1>3, <1>4, <1>5 DEF DiscoveryInv

LEMMA DiscoveryInvTick == DiscoveryInv /\ Tick => DiscoveryInv'
<1> SUFFICES ASSUME DiscoveryInv, Tick PROVE DiscoveryInv'
  OBVIOUS
<1>1. /\ DOMAIN names' = DOMAIN names /\ DOMAIN obs' = DOMAIN obs /\ DOMAIN hosts' = DOMAIN hosts
  BY DEF Tick
<1>2. Sound(names)'
  <2>1. \A n \in DOMAIN names : names'[n] \in Lifetimes
    BY LifetimesAre DEF Tick, DiscoveryInv, Sound
  <2>2. QED
    BY <1>1, <2>1 DEF DiscoveryInv, Sound
<1>3. \A i \in DOMAIN obs' : /\ obs'[i] = [obs[i] EXCEPT !.left = Older(obs[i].left)]
                             /\ i \in MFDs /\ obs[i] \in [host : MFDHosts \cup {Nothing}, left : Lifetimes]
                             /\ obs[i].left <= said[i] /\ said[i] \in Lifetimes
  BY <1>1 DEF Tick, DiscoveryInv, ObsInv, SaidInv
<1>4. \A t \in Lifetimes : Older(t) \in Lifetimes
  BY LifetimesAre
<1>5. ObsInv'
  <2>1. \A i \in DOMAIN obs' : obs'[i] \in [host : MFDHosts \cup {Nothing}, left : Lifetimes]
    BY <1>3, <1>4
  <2>2. QED
    BY <1>1, <2>1 DEF DiscoveryInv, ObsInv
<1>6. \A h \in DOMAIN hosts' : /\ hosts'[h] = [hosts[h] EXCEPT !.left = Older(hosts[h].left)]
                               /\ h \in MFDHosts /\ hosts[h] \in [ip : IPs, left : Lifetimes]
  BY <1>1 DEF Tick, DiscoveryInv, HostsInv
<1>7. HostsInv'
  <2>1. \A h \in DOMAIN hosts' : hosts'[h] \in [ip : IPs, left : Lifetimes]
    BY <1>4, <1>6
  <2>2. QED
    BY <1>1, <2>1 DEF DiscoveryInv, HostsInv
<1>8. said' = [i \in MFDs |-> Older(said[i])] /\ said \in [MFDs -> Lifetimes]
  BY DEF Tick, DiscoveryInv, SaidInv
<1>9. \A a, b \in Int : a <= b => Older(a) <= Older(b)
  BY DEF Older, Later
<1>10. \A i \in DOMAIN obs' : /\ obs'[i].left = Older(obs[i].left) /\ obs[i].left \in Int
                              /\ said'[i] = Older(said[i]) /\ said[i] \in Int
                              /\ obs[i].left <= said[i]
  BY <1>3, <1>8, LifetimesAre
<1>11. \A i \in DOMAIN obs' : obs'[i].left <= said'[i]
  BY <1>9, <1>10
<1>12. /\ axiom' = [axiom EXCEPT !.left = Later(axiom.left - 1, 0)]
       /\ axiom \in [inst : MFDs \cup {Nothing}, host : MFDHosts \cup {Nothing},
                     ip : IPs \cup {Nothing}, left : 0..MaxTTL]
  BY DEF Tick, DiscoveryInv
<1>13. /\ axiom' \in [inst : MFDs \cup {Nothing}, host : MFDHosts \cup {Nothing},
                      ip : IPs \cup {Nothing}, left : 0..MaxTTL]
       /\ axiom'.inst = axiom.inst /\ axiom'.left = Later(axiom.left - 1, 0)
       /\ axiom.left \in Int
  <2>1. axiom.left \in 0..MaxTTL
    BY <1>12
  <2>2. Later(axiom.left - 1, 0) \in 0..MaxTTL
    BY <2>1, DiscoveryConstants DEF Later
  <2>3. QED
    BY <1>12, <2>1, <2>2
<1>14. axiom'.left > 0 => axiom'.inst \in MFDs /\ axiom'.left <= said'[axiom'.inst]
  <2>1. SUFFICES ASSUME axiom'.left > 0 PROVE axiom.inst \in MFDs /\ axiom'.left <= said'[axiom.inst]
    BY <1>13
  <2>2. axiom.left > 0 /\ axiom'.left = axiom.left - 1
    BY <1>13, <2>1 DEF Later
  <2>3. axiom.inst \in MFDs /\ axiom.left <= said[axiom.inst]
    BY <2>2 DEF DiscoveryInv, SaidInv
  <2>4. said'[axiom.inst] = Older(said[axiom.inst]) /\ said[axiom.inst] \in Int
    BY <1>8, <2>3, LifetimesAre
  <2>5. QED
    BY <1>13, <2>2, <2>3, <2>4 DEF Older, Later
<1>15. said' \in [MFDs -> Lifetimes]
  BY <1>4, <1>8
<1>16. SaidInv'
  BY <1>11, <1>13, <1>14, <1>15 DEF SaidInv
<1>17. AnnounceInv'
  <2>1. announced' = Later(announced - 1, 0) /\ announced \in 0..MaxTTL /\ announced <= axiom.left
    BY DEF Tick, DiscoveryInv, AnnounceInv
  <2>2. announced' \in 0..MaxTTL /\ announced' <= axiom'.left
    BY <1>13, <2>1, DiscoveryConstants DEF Later
  <2>3. ASSUME announced' > 0
        PROVE  axiom'.host \in DOMAIN names' /\ names'[axiom'.host] >= announced'
    <3>1. announced > 0 /\ announced' = announced - 1
      BY <2>1, <2>3 DEF Later
    <3>2. axiom.host \in DOMAIN names /\ names[axiom.host] >= announced
      BY <3>1 DEF DiscoveryInv, AnnounceInv
    <3>3. names[axiom.host] \in Int
      BY <3>2, LifetimesAre DEF DiscoveryInv, Sound
    <3>4. axiom'.host = axiom.host /\ names'[axiom.host] = Older(names[axiom.host])
      BY <1>12, <3>2 DEF Tick
    <3>5. Older(names[axiom.host]) >= announced'
      BY <2>1, <3>1, <3>2, <3>3 DEF Older, Later
    <3>6. QED
      BY <1>1, <3>2, <3>4, <3>5
  <2>4. QED
    BY <2>2, <2>3 DEF AnnounceInv
<1>18. QED
  BY <1>1, <1>2, <1>5, <1>7, <1>13, <1>16, <1>17 DEF DiscoveryInv

LEMMA DiscoveryInvStep == DiscoveryInv /\ [Next]_vars => DiscoveryInv'
<1> SUFFICES ASSUME DiscoveryInv, [Next]_vars PROVE DiscoveryInv'
  OBVIOUS
<1>1. ASSUME NEW p \in Packets, Receive(p) PROVE DiscoveryInv'
  <2>1. ~ Announces(p) => announced' = 0
    BY <1>1 DEF Receive
  <2>2. Announces(p) => AnnounceInv'
    BY <1>1, AnnouncedAtReceive DEF AnnounceInv
  <2>3. /\ Sound(names)' /\ ObsInv' /\ HostsInv'
        /\ said' \in [MFDs -> Lifetimes]
        /\ \A i \in DOMAIN obs' : obs'[i].left <= said'[i]
    BY <1>1, TablesAtReceive
  <2>4. /\ axiom' \in [inst : MFDs \cup {Nothing}, host : MFDHosts \cup {Nothing},
                       ip : IPs \cup {Nothing}, left : 0..MaxTTL]
        /\ axiom'.left > 0 => axiom'.inst \in MFDs /\ axiom'.left <= said'[axiom'.inst]
    BY <1>1, DetectionAtReceive
  <2>5. axiom'.left \in Int
    BY <2>4
  <2>6. SaidInv'
    BY <2>3, <2>4, <2>5 DEF SaidInv
  <2>7. AnnounceInv'
    BY <2>1, <2>2, <2>4, DiscoveryConstants DEF AnnounceInv
  <2>8. QED
    BY <2>3, <2>4, <2>6, <2>7 DEF DiscoveryInv
<1>2. ASSUME NEW n \in DOMAIN names, Query(n) PROVE DiscoveryInv'
  <2>1. names' = Without(names, {n}) /\ UNCHANGED <<obs, hosts, axiom, said, announced>>
    BY <1>2 DEF Query
  <2>2. Sound(names')
    BY <2>1, WithoutSound DEF DiscoveryInv
  <2>3. /\ DOMAIN names' = DOMAIN names \ {n}
        /\ \A k \in DOMAIN names \ {n} : names'[k] = names[k]
    BY <2>1 DEF Without, Restrict
  <2>4. names[n] < 0 /\ names[n] \in Int
    BY <1>2, LifetimesAre DEF Query, DiscoveryInv, Sound
  <2>5. announced > 0 => names[axiom.host] >= announced /\ axiom.host \in DOMAIN names /\ announced \in Int
    BY DEF DiscoveryInv, AnnounceInv
  <2>6. announced > 0 => axiom.host # n
    BY <2>4, <2>5
  <2>7. AnnounceInv'
    BY <2>1, <2>3, <2>5, <2>6 DEF DiscoveryInv, AnnounceInv
  <2>8. QED
    BY <2>1, <2>2, <2>7 DEF DiscoveryInv, Sound, ObsInv, HostsInv, SaidInv
<1>3. CASE Tick
  BY <1>3, DiscoveryInvTick
<1>4. CASE UNCHANGED vars
  BY <1>4 DEF vars, DiscoveryInv, Sound, ObsInv, HostsInv, SaidInv, AnnounceInv
<1>5. QED
  BY <1>1, <1>2, <1>3, <1>4 DEF Next
------------------------------------------------------------------------------
(* Types.                                                                   *)

HistoryTypes == saidAt \in [MFDHosts -> [IPs -> Lifetimes]]

LEMMA HistoryInit == Init => HistoryTypes
<1> SUFFICES ASSUME Init PROVE HistoryTypes
  OBVIOUS
<1>1. saidAt = [h \in MFDHosts |-> [a \in IPs |-> -1]]
  BY DEF Init
<1>2. QED
  BY <1>1, LifetimesAre DEF HistoryTypes

LEMMA HistoryStep == HistoryTypes /\ [Next]_vars => HistoryTypes'
<1> SUFFICES ASSUME HistoryTypes, [Next]_vars PROVE HistoryTypes'
  OBVIOUS
<1>1. ASSUME NEW p \in Packets, Receive(p) PROVE HistoryTypes'
  <2>1. saidAt' = [h \in MFDHosts |-> [a \in IPs |->
                    IF p.addr[h] # a THEN saidAt[h][a]
                    ELSE IF p.attl = 0 THEN -1 ELSE Later(saidAt[h][a], Cut(p.attl))]]
    BY <1>1 DEF Receive
  <2>2. \A h \in MFDHosts, a \in IPs : saidAt[h][a] \in Lifetimes
    BY DEF HistoryTypes
  <2>3. -1 \in Lifetimes /\ \A h \in MFDHosts, a \in IPs : Later(saidAt[h][a], Cut(p.attl)) \in Lifetimes
    BY <2>2, PacketParts, LifetimesAre
  <2>4. saidAt' \in [MFDHosts -> [IPs -> Lifetimes]]
    BY <2>1, <2>2, <2>3
  <2>5. QED
    BY <2>4 DEF HistoryTypes
<1>2. ASSUME NEW n \in DOMAIN names, Query(n) PROVE HistoryTypes'
  BY <1>2 DEF Query, HistoryTypes
<1>3. CASE Tick
  <2>1. saidAt' = [h \in MFDHosts |-> [a \in IPs |-> Older(saidAt[h][a])]]
    BY <1>3 DEF Tick
  <2>2. \A h \in MFDHosts, a \in IPs : Older(saidAt[h][a]) \in Lifetimes
    BY LifetimesAre DEF HistoryTypes
  <2>3. QED
    BY <2>1, <2>2 DEF HistoryTypes
<1>4. CASE UNCHANGED vars
  BY <1>4 DEF vars, HistoryTypes
<1>5. QED
  BY <1>1, <1>2, <1>3, <1>4 DEF Next

\* Every variable of the discovery has its type: the tables hold services, hosts
\* and addresses of MFDs only, each with a lifetime that was cut.
THEOREM DiscoveryTypeCorrect == Spec => []TypeOK
<1>1. DiscoveryInv /\ HistoryTypes => TypeOK
  <2> SUFFICES ASSUME DiscoveryInv, HistoryTypes PROVE TypeOK
    OBVIOUS
  <2>1. DOMAIN names \subseteq MFDs \cup MFDHosts /\ Range(names) \subseteq Lifetimes
    BY DEF DiscoveryInv, Sound, Range
  <2>2. QED
    BY <2>1 DEF DiscoveryInv, ObsInv, HostsInv, SaidInv, AnnounceInv, HistoryTypes, TypeOK
<1>2. QED
  BY <1>1, DiscoveryInvInit, DiscoveryInvStep, HistoryInit, HistoryStep, PTL DEF Spec

\* "Bound all learned state": no table is above its limit after a datagram,
\* whatever it was before (addTTL, observe).
THEOREM TablesStayBounded == Spec => []LearnedStateIsBounded
<1>1. DiscoveryInv => LearnedStateIsBounded
  BY DEF DiscoveryInv, Sound, ObsInv, HostsInv, LearnedStateIsBounded
<1>2. QED
  BY <1>1, DiscoveryInvInit, DiscoveryInvStep, PTL DEF Spec

\* The cache never has a name of the printer (responseRelevant), and the relay
\* lets none of its records through (filterDNS).
THEOREM NothingOfOthersLeaks == Spec => []NothingLeaks
<1>1. ASSUME Sound(names) PROVE NothingLeaks
  <2>1. Printer \notin DOMAIN names /\ HostOf[Printer] \notin DOMAIN names
    BY <1>1, PrinterApart
  <2>2. ASSUME NEW p \in Packets, NEW r \in Forwarded(p, names)
        PROVE  r.about \notin {Printer, HostOf[Printer]}
    <3>1. /\ Printer \notin MFDs /\ HostOf[Printer] \notin MFDs
          /\ Printer \notin MFDHosts /\ HostOf[Printer] \notin MFDHosts
      BY DiscoveryConstants DEF Instances, Hosts, MFDHosts
    <3>2. r \in Records(p) /\ Allow(p, names, r)
      BY DEF Forwarded
    <3>3. CASE r.about \in MFDs
      BY <3>1, <3>3
    <3>4. CASE Has(names, r.about)
      BY <2>1, <3>4 DEF Has
    <3>5. CASE r.about \in PacketHosts(p)
      BY <3>1, <3>5, PacketParts DEF PacketHosts, AllowedInstance, MFDHosts
    <3>6. QED
      BY <3>2, <3>3, <3>4, <3>5 DEF Allow, AllowedInstance
  <2>3. QED
    BY <2>1, <2>2 DEF NothingLeaks
<1>2. DiscoveryInv => NothingLeaks
  BY <1>1 DEF DiscoveryInv
<1>3. QED
  BY <1>2, DiscoveryInvInit, DiscoveryInvStep, PTL DEF Spec

\* The MFD is shown as detected no longer than the service in question is announced
\* (observe): a goodbye ends it, and the address cannot prolong it.
THEOREM DetectionFollowsAnnouncement == Spec => []DetectionIsAnnounced
<1>1. DiscoveryInv => DetectionIsAnnounced
  BY DEF DiscoveryInv, SaidInv, Detected, DetectionIsAnnounced
<1>2. QED
  BY <1>1, DiscoveryInvInit, DiscoveryInvStep, PTL DEF Spec

\* An announcement of the services of the MFD with the address of their host is
\* detected at once (responseRelevant, observe), even when the tables are full, and
\* for as long as it is valid if no datagram follows.
THEOREM AnnouncementsAreDetected == Spec => []AnnouncementIsDetected
<1>1. DiscoveryInv => AnnouncementIsDetected
  BY DEF DiscoveryInv, SaidInv, AnnounceInv, AnnouncementIsDetected, Detected
<1>2. QED
  BY <1>1, DiscoveryInvInit, DiscoveryInvStep, PTL DEF Spec

\* For that long the name of the host that is shown is in the cache, so that the
\* phones can look it up (addTTL, has): learning a datagram twice, with evictions,
\* ends with it, and it does not expire before the detection does.
THEOREM AnnouncedHostStaysKnown == Spec => []AnnouncedHostIsKnown
<1>1. DiscoveryInv => AnnouncedHostIsKnown
  <2>1. DiscoveryInv => (axiom.host \in DOMAIN names => names[axiom.host] \in Int)
    BY LifetimesAre DEF DiscoveryInv, Sound
  <2>2. QED
    BY <2>1 DEF DiscoveryInv, AnnounceInv, AnnouncedHostIsKnown, Has
<1>2. QED
  BY <1>1, DiscoveryInvInit, DiscoveryInvStep, PTL DEF Spec
==============================================================================
