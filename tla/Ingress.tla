------------------------------ MODULE Ingress ------------------------------
(***************************************************************************)
(* Which datagrams of a socket the engine handles: readLoop up to the      *)
(* place where Discovery starts.                                           *)
(*                                                                         *)
(* A datagram is dropped when the socket has had its share of the present  *)
(* window of about a second, or when the same bytes were handled less than *)
(* 900 ms ago, which a table of limited size remembers.  An MFD repeats    *)
(* its announcements after a second and takes them back with a goodbye, so *)
(* what matters is that the engine does not get stuck with an old one.     *)
(* Time is discrete.  The emulator's own datagrams are skipped first and   *)
(* leave no trace; they are not modelled, nor are the replies.             *)
(***************************************************************************)
EXTENDS Naturals, FiniteSets

CONSTANTS
  Noise,         \* datagrams of others
  Window,        \* length of the window (1 s); it is restarted when older
  Limit,         \* datagrams that are parsed in a window (100)
  Repeat,        \* age below which the same bytes are a repetition (900 ms)
  Old,           \* age from which an entry makes room first (1 s)
  MaxSeen        \* limit of the table (256)

ASSUME IngressAssumption ==
  /\ Noise \cap {"hello", "bye", "junk"} = {}
  /\ Window \in Nat /\ Limit \in Nat \ {0}
  /\ Repeat \in Nat \ {0} /\ Old \in Nat /\ Repeat <= Old
  /\ MaxSeen \in Nat \ {0}

Words     == {"hello", "bye"}            \* announcement and goodbye of the MFD
Datagrams == Words \cup Noise
Arriving  == Datagrams \cup {"junk"}     \* not DNS, or a response from another port
Recent    == 0..Window

VARIABLES
  since,         \* age of the window, up to Window + 1
  count,         \* datagrams in it, up to Limit + 1
  table,         \* the digests in seenPackets
  age,           \* their ages, up to Old
  believed,      \* the word of the MFD that was handled last
  word,          \* history: its last word that was not one too many
  first,         \* history: time since that began to be its word, up to Repeat
  span,          \* history: the same when the word was last received
  arrived,       \* history: how many arrived in the last t units of time, at
                 \* arrived[0] those of this instant, up to Limit + 1
  parsed,        \* history: how many of those were parsed, up to 2 * Limit + 1
  oneTooMany     \* history: the last datagram was dropped for the limit

history     == <<word, first, span, arrived, parsed, oneTooMany>>
ingressVars == <<since, count, table, age, believed, history>>

AtMost(n, m) == IF n < m THEN n ELSE m

IngressInit ==
  /\ since = 0 /\ count = 0
  /\ table = {} /\ age = [d \in Datagrams |-> Old]
  /\ believed = "bye" /\ word = "bye"
  /\ first = 0 /\ span = 0
  /\ arrived = [t \in Recent |-> 0] /\ parsed = arrived
  /\ oneTooMany = FALSE
------------------------------------------------------------------------------
(* The window.                                                             *)

WindowEnded == since > Window

Counted == IF WindowEnded THEN 1 ELSE AtMost(count + 1, Limit + 1)

\* Mutant of Admitted: one more than the limit.
AdmittedOneMore == Counted <= Limit + 1 /\ (WindowEnded \/ count <= Limit)

Admitted == Counted <= Limit
------------------------------------------------------------------------------
(* The table.                                                              *)

Known(d) == d \in table /\ age[d] < Repeat

\* At the limit old entries go, and if that is not enough any one entry.
Room ==
  LET kept == IF Cardinality(table) >= MaxSeen THEN {d \in table : age[d] < Old} ELSE table
  IN  IF Cardinality(kept) >= MaxSeen THEN {kept \ {d} : d \in kept} ELSE {kept}

Remember(d) ==
  /\ \E r \in Room : table' = r \cup {d}
  /\ age' = [age EXCEPT ![d] = 0]

\* Mutant of Skip: a repetition renews its entry.
SkipAndRenew(d) == age' = [age EXCEPT ![d] = 0] /\ UNCHANGED <<table, believed>>

Skip(d) == UNCHANGED <<table, age, believed>>

\* observe and what comes after it, for a word of the MFD.
Handle(d) ==
  /\ Remember(d)
  /\ believed' = IF d \in Words THEN d ELSE believed
------------------------------------------------------------------------------
Receives(d) ==
  /\ since' = IF WindowEnded THEN 0 ELSE since
  /\ count' = Counted
  /\ \/ ~ Admitted /\ UNCHANGED <<table, age, believed>>
     \/ Admitted /\ d = "junk" /\ UNCHANGED <<table, age, believed>>
     \/ Admitted /\ d # "junk" /\ Known(d) /\ Skip(d)
     \/ Admitted /\ d # "junk" /\ ~ Known(d) /\ Handle(d)
  /\ IF d \in Words /\ Admitted
     THEN /\ word' = d
          /\ first' = IF d = word THEN first ELSE 0
          /\ span' = first'
     ELSE UNCHANGED <<word, first, span>>
  /\ arrived' = [t \in Recent |-> AtMost(arrived[t] + 1, Limit + 1)]
  /\ parsed' = IF Admitted THEN [t \in Recent |-> AtMost(parsed[t] + 1, 2 * Limit + 1)] ELSE parsed
  /\ oneTooMany' = ~ Admitted

Shift(f) == [t \in Recent |-> IF t = 0 THEN 0 ELSE f[t - 1]]

IngressTick ==
  /\ since' = AtMost(since + 1, Window + 1)
  /\ age' = [d \in Datagrams |-> AtMost(age[d] + 1, Old)]
  /\ first' = AtMost(first + 1, Repeat)
  /\ arrived' = Shift(arrived) /\ parsed' = Shift(parsed)
  /\ oneTooMany' = FALSE
  /\ UNCHANGED <<count, table, believed, word, span>>

IngressNext == IngressTick \/ \E d \in Arriving : Receives(d)

IngressSpec == IngressInit /\ [][IngressNext]_ingressVars
------------------------------------------------------------------------------
(* Properties                                                              *)

\* Every variable has its type, and the table its limit.
IngressTypeOK ==
  /\ since \in 0..(Window + 1) /\ count \in 0..(Limit + 1)
  /\ table \subseteq Datagrams /\ Cardinality(table) <= MaxSeen
  /\ age \in [Datagrams -> 0..Old]
  /\ believed \in Words /\ word \in Words
  /\ first \in 0..Repeat /\ span \in 0..Repeat
  /\ arrived \in [Recent -> 0..(Limit + 1)]
  /\ parsed \in [Recent -> 0..(2 * Limit + 1)]
  /\ oneTooMany \in BOOLEAN

\* A flood costs no more than the parsing of twice the limit in any interval of
\* the length of a window, although windows begin when datagrams come.
FloodIsBounded == \A t \in Recent : parsed[t] <= 2 * Limit

\* A datagram is lost to the limit only if more than the limit came within the
\* length of one window, its own sender's or others'.
NoNeedlessLoss == oneTooMany => arrived[Window] > Limit

\* The engine is not stuck with what the MFD has taken back: a word that it has
\* said twice, at least 900 ms apart and nothing else in between, is believed,
\* whatever else fills the table.
BeliefCatchesUp == span >= Repeat => believed = word
==============================================================================
