----------------------------- MODULE Discovery -----------------------------
(***************************************************************************)
(* What the discovery engine learns from multicast DNS on the RayNet side: *)
(* the names it will relay follow-ups for (nameCache), the services and    *)
(* addresses of the MFD (engine.obs, engine.hosts) and the detection shown *)
(* as "Axiom / MFD" (Runtime.Axiom), driven by datagrams of an MFD with    *)
(* several services that may share a host, and by the passing of time.     *)
(*                                                                         *)
(* One read loop owns the RayNet socket and is the only writer, so a       *)
(* datagram is one step.  Every datagram also carries the records of an    *)
(* unrelated service (a printer), as mixed Bonjour datagrams do.  Instants *)
(* are lifetimes: Tick ages all of them, and below 0 one is over.          *)
(* Not distinguished: the three MFD service types and the ports; TXT       *)
(* records, which are filtered like SRV; records about the emulator.       *)
(***************************************************************************)
EXTENDS Integers, FiniteSets, Sequences, Functions

CONSTANTS
  MFDs,             \* service instances of MFDs
  Printer,          \* an instance of a service that is not Raymarine's
  HostOf,           \* HostOf[i]: the host that the SRV record of i names
  IPs,              \* addresses of hosts
  Nothing,          \* no instance, host or address
  TTLs,             \* lifetimes in records; 0 is a goodbye
  MaxTTL,           \* what lifetimes are cut to (900 seconds)
  Lists,            \* the sequences of instances that datagrams list
  MaxNames,         \* limit of nameCache (1024)
  MaxObs, MaxHosts  \* limits of engine.obs (256) and engine.hosts (512)

Instances == MFDs \cup {Printer}
Hosts     == {HostOf[i] : i \in Instances}
MFDHosts  == {HostOf[i] : i \in MFDs}

\* The name of an instance ends with its service type, that of a host does not.
ASSUME DiscoveryConstants ==
  /\ IsFiniteSet(MFDs) /\ Printer \notin MFDs /\ Nothing \notin Instances \cup Hosts \cup IPs
  /\ DOMAIN HostOf = Instances
  /\ HostOf[Printer] \notin MFDHosts /\ Instances \cap Hosts = {}
  /\ TTLs \subseteq Nat /\ 0 \in TTLs /\ MaxTTL \in Nat \ {0}
  /\ Lists \subseteq Seq(MFDs)
  /\ MaxNames \in Nat \ {0} /\ MaxObs \in Nat \ {0} /\ MaxHosts \in Nat \ {0}

VARIABLES
  names,            \* nameCache.expires: what is left of each name
  obs,              \* engine.obs: instance -> host and lifetime
  hosts,            \* engine.hosts: host -> address and lifetime
  axiom,            \* Runtime.Axiom: instance, host, address, lifetime
  said,             \* history: what is left of what the network says of an
                    \* instance (-1: nothing, or goodbye)
  saidAt,           \* history: the same of an address of a host
  announced         \* history: what is left of the announcement in the last
                    \* datagram (0: it was none, see Announces, or it is over)

vars == <<names, obs, hosts, axiom, said, saidAt, announced>>

Without(f, S) == Restrict(f, DOMAIN f \ S)

\* The entries of g, and those of f for what g has none of.
Updated(f, g) == [k \in DOMAIN f \cup DOMAIN g |-> IF k \in DOMAIN g THEN g[k] ELSE f[k]]

\* The restrictions of f that a loop "delete one until it fits" may leave.
Fitting(f, limit) ==
  IF Cardinality(DOMAIN f) <= limit THEN {f}
  ELSE {Restrict(f, S) : S \in {T \in SUBSET DOMAIN f : Cardinality(T) = limit}}

Init ==
  /\ names = << >> /\ obs = << >> /\ hosts = << >>
  /\ axiom = [inst |-> Nothing, host |-> Nothing, ip |-> Nothing, left |-> 0]
  /\ said = [i \in MFDs |-> -1]
  /\ saidAt = [h \in MFDHosts |-> [a \in IPs |-> -1]]
  /\ announced = 0
------------------------------------------------------------------------------
(* The name cache.                                                         *)

Cut(t) == IF t > MaxTTL THEN MaxTTL ELSE t

Has(c, n) == n \in DOMAIN c /\ c[n] >= 0

\* Mutant of AddTTL: a name that is there already is not renewed.
AddOnce(c, n, t) ==
  IF t = 0 THEN {Without(c, {n})}
  ELSE LET kept == IF Cardinality(DOMAIN c) >= MaxNames
                   THEN Without(c, {k \in DOMAIN c : c[k] < 0}) ELSE c
           room == IF Cardinality(DOMAIN kept) >= MaxNames
                   THEN {Without(kept, {k}) : k \in DOMAIN kept} ELSE {kept}
       IN  IF n \in DOMAIN c THEN {c} ELSE {Updated(r, [k \in {n} |-> Cut(t)]) : r \in room}

\* nameCache.addTTL: the caches it may leave.  At the limit expired names go,
\* and if that is not enough any one name, even the one to be added.
AddTTL(c, n, t) ==
  IF t = 0 THEN {Without(c, {n})}
  ELSE LET kept == IF Cardinality(DOMAIN c) >= MaxNames
                   THEN Without(c, {k \in DOMAIN c : c[k] < 0}) ELSE c
           room == IF Cardinality(DOMAIN kept) >= MaxNames
                   THEN {Without(kept, {k}) : k \in DOMAIN kept} ELSE {kept}
       IN  {Updated(r, [k \in {n} |-> Cut(t)]) : r \in room}

\* A datagram: the instances its PTR and its SRV records are about, in order,
\* with one lifetime, and the addresses in its A records, with another one.
Packets ==
  {p \in [ptr : Lists, srv : Lists, ttl : TTLs,
          addr : [MFDHosts -> IPs \cup {Nothing}], attl : TTLs] :
     /\ p.ptr = << >> /\ p.srv = << >> => p.ttl = 0
     /\ Range(p.addr) = {Nothing} => p.attl = 0}

Services(p) == Range(p.ptr) \cup Range(p.srv)

\* Mutant of AllowedInstance: every instance in a relevant datagram is learned.
AnyInstance(i) == i \in Instances

AllowedInstance(i) == i \in MFDs

\* The records of p that name an instance or a host, in the order in which
\* responseRelevant looks at them: the PTR records and then the SRV records.
Naming(p) ==
  LET ptr == Append(p.ptr, Printer)
      srv == Append(p.srv, Printer)
  IN  [k \in 1..(Len(ptr) + Len(srv)) |->
         IF k <= Len(ptr) THEN [type |-> "PTR", about |-> ptr[k]]
         ELSE [type |-> "SRV", about |-> srv[k - Len(ptr)]]]

\* The caches that one of them, with lifetime t, may leave.
LearnFrom(r, t, c) ==
  CASE r.type = "PTR" /\ AllowedInstance(r.about) -> AddTTL(c, r.about, t)
    [] r.type = "SRV" /\ (AllowedInstance(r.about) \/ Has(c, r.about)) -> AddTTL(c, HostOf[r.about], t)
    [] OTHER -> {c}

\* The caches that may be left after each of them.
Caches(p, c) ==
  LET r == Naming(p)
      left[k \in 0..Len(r)] ==
        IF k = 0 THEN {c} ELSE UNION {LearnFrom(r[k], p.ttl, d) : d \in left[k - 1]}
  IN  left

\* has: a name that is looked up and found expired is deleted.
LookUp(c, S) == Without(c, {n \in S \cap DOMAIN c : c[n] < 0})

\* The hosts that have an A record in p.
Addressed(p) == {h \in MFDHosts : p.addr[h] # Nothing}

\* responseRelevant: names are learned, and those of the A records looked up.
Learn(p, c) == {LookUp(d, Addressed(p)) : d \in Caches(p, c)[Len(Naming(p))]}

\* The hosts that get an address: those the cache knows, having learned from p.
Located(p, c) == {h \in Addressed(p) : Has(c, h)}

\* Its result: whether any record is about a permitted or a known name.
Relevant(p, located) == Services(p) # {} \/ located # {}
------------------------------------------------------------------------------
(* engine.observe                                                          *)

Alive(f) == Without(f, {k \in DOMAIN f : f[k].left < 0})

\* A goodbye for the instance or the address that is shown.
Withdraws(p) ==
  \/ p.ttl = 0 /\ axiom.inst \in Services(p)
  \/ \E h \in Addressed(p) : p.attl = 0 /\ p.addr[h] = axiom.ip

ObsAfter(p) ==
  IF p.ttl = 0 THEN Without(Alive(obs), Services(p))
  ELSE LET host(i) == IF i \in Range(p.srv) THEN HostOf[i]
                      ELSE IF i \in DOMAIN Alive(obs) THEN obs[i].host ELSE Nothing
       IN  Updated(Alive(obs), [i \in Services(p) |-> [host |-> host(i), left |-> Cut(p.ttl)]])

HostsAfter(p, located) ==
  IF p.attl = 0 THEN Without(Alive(hosts), located)
  ELSE Updated(Alive(hosts), [h \in located |-> [ip |-> p.addr[h], left |-> Cut(p.attl)]])

Touched(p, located, o) ==
  {i \in DOMAIN o : \/ p.ttl # 0 /\ i \in Services(p)
                    \/ p.attl # 0 /\ o[i].host \in located}

Lesser(a, b) == IF a < b THEN a ELSE b

\* Mutant of Sighting: the lifetime of the address counts for the service too.
SightingByHost(i, o, h) ==
  [inst |-> i, host |-> o[i].host, ip |-> h[o[i].host].ip, left |-> h[o[i].host].left]

Sighting(i, o, h) ==
  [inst |-> i, host |-> o[i].host, ip |-> h[o[i].host].ip,
   left |-> Lesser(o[i].left, h[o[i].host].left)]

\* Of several touched services the last one in map order, which is any, is shown.
Observe(p, located) ==
  \E o \in Fitting(ObsAfter(p), MaxObs), h \in Fitting(HostsAfter(p, located), MaxHosts) :
    LET seen == {i \in Touched(p, located, ObsAfter(p)) : i \in DOMAIN o /\ o[i].host \in DOMAIN h}
    IN  /\ obs' = o
        /\ hosts' = h
        /\ \/ seen = {} /\ axiom' = IF Withdraws(p) THEN [axiom EXCEPT !.left = 0] ELSE axiom
           \/ \E i \in seen : axiom' = Sighting(i, o, h)
------------------------------------------------------------------------------
(* filterDNS                                                               *)

Records(p) ==
       {[type |-> "PTR", about |-> i] : i \in Range(p.ptr) \cup {Printer}}
  \cup {[type |-> "SRV", about |-> i] : i \in Range(p.srv) \cup {Printer}}
  \cup {[type |-> "A", about |-> h] : h \in Addressed(p) \cup {HostOf[Printer]}}

PacketHosts(p) == {HostOf[i] : i \in {j \in Range(p.srv) \cup {Printer} : AllowedInstance(j)}}

Allow(p, c, r) ==
  \/ r.type = "PTR" /\ r.about \in MFDs
  \/ r.type = "SRV" /\ (AllowedInstance(r.about) \/ Has(c, r.about))
  \/ r.type = "A" /\ (Has(c, r.about) \/ r.about \in PacketHosts(p))

\* The records of p that reach the phones, given the cache that learned from it.
Forwarded(p, c) == {r \in Records(p) : Allow(p, c, r)}
------------------------------------------------------------------------------
Later(a, b) == IF a < b THEN b ELSE a

\* Mutant of LearnTwice: observe runs before the datagram is learned from.
LearnLate(p) ==
  UNION {{[located |-> Located(p, names), names |-> d] : d \in Learn(p, c)} : c \in Learn(p, names)}

\* responseRelevant, for its answer and what observe will find in the cache, and
\* then filterDNS, which learns a second time.
LearnTwice(p) ==
  UNION {{[located |-> Located(p, c), names |-> d] : d \in Learn(p, c)} : c \in Learn(p, names)}

\* History: p announces on one host, with its address, what is known of the MFD.
Announces(p) ==
  /\ p.ttl > 0 /\ p.attl > 0
  /\ Services(p) # {} /\ Services(p) = Range(p.srv) /\ DOMAIN Alive(obs) \subseteq Services(p)
  /\ \A i, j \in Services(p) : HostOf[i] = HostOf[j]
  /\ \A i \in Services(p) : HostOf[i] \in Addressed(p)
  /\ Cardinality(DOMAIN Alive(hosts) \cup Addressed(p)) <= MaxHosts

\* A response on the RayNet socket of a relaying engine: readLoop.
Receive(p) ==
  \E learned \in LearnTwice(p) :
    /\ names' = learned.names
    /\ Relevant(p, learned.located)
    /\ Observe(p, learned.located)
    /\ said' = [i \in MFDs |-> IF i \notin Services(p) THEN said[i]
                               ELSE IF p.ttl = 0 THEN -1 ELSE Later(said[i], Cut(p.ttl))]
    /\ saidAt' = [h \in MFDHosts |-> [a \in IPs |->
                    IF p.addr[h] # a THEN saidAt[h][a]
                    ELSE IF p.attl = 0 THEN -1 ELSE Later(saidAt[h][a], Cut(p.attl))]]
    /\ announced' = IF Announces(p) THEN Lesser(Cut(p.ttl), Cut(p.attl)) ELSE 0

\* A query from a phone: an expired name is dropped when it is looked up.
Query(n) ==
  /\ n \in DOMAIN names /\ names[n] < 0
  /\ names' = Without(names, {n})
  /\ UNCHANGED <<obs, hosts, axiom, said, saidAt, announced>>

Older(t) == Later(t - 1, -1)

Tick ==
  /\ names' = [n \in DOMAIN names |-> Older(names[n])]
  /\ obs' = [i \in DOMAIN obs |-> [obs[i] EXCEPT !.left = Older(obs[i].left)]]
  /\ hosts' = [h \in DOMAIN hosts |-> [hosts[h] EXCEPT !.left = Older(hosts[h].left)]]
  /\ axiom' = [axiom EXCEPT !.left = Later(axiom.left - 1, 0)]
  /\ said' = [i \in MFDs |-> Older(said[i])]
  /\ saidAt' = [h \in MFDHosts |-> [a \in IPs |-> Older(saidAt[h][a])]]
  /\ announced' = Later(announced - 1, 0)

Next == \/ \E p \in Packets : Receive(p)
        \/ \E n \in DOMAIN names : Query(n)
        \/ Tick

Spec == Init /\ [][Next]_vars
------------------------------------------------------------------------------
(* Properties                                                              *)

Lifetimes == -1..MaxTTL

\* Every variable has its type.
TypeOK ==
  /\ DOMAIN names \subseteq MFDs \cup MFDHosts \cup {Printer, HostOf[Printer]}
  /\ Range(names) \subseteq Lifetimes
  /\ DOMAIN obs \subseteq MFDs
  /\ \A i \in DOMAIN obs : obs[i] \in [host : MFDHosts \cup {Nothing}, left : Lifetimes]
  /\ DOMAIN hosts \subseteq MFDHosts
  /\ \A h \in DOMAIN hosts : hosts[h] \in [ip : IPs, left : Lifetimes]
  /\ axiom \in [inst : MFDs \cup {Nothing}, host : MFDHosts \cup {Nothing},
                ip : IPs \cup {Nothing}, left : 0..MaxTTL]
  /\ said \in [MFDs -> Lifetimes]
  /\ saidAt \in [MFDHosts -> [IPs -> Lifetimes]]
  /\ announced \in 0..MaxTTL

\* currentStatus: the page shows the MFD as detected.
Detected == axiom.left > 0

\* "Bound all learned state; multicast traffic must not grow memory indefinitely"
\* (observe), and addTTL for the names: after a datagram no table is above its limit,
\* whatever was in it, was expired or is announced.
LearnedStateIsBounded ==
  /\ Cardinality(DOMAIN names) <= MaxNames
  /\ Cardinality(DOMAIN obs) <= MaxObs
  /\ Cardinality(DOMAIN hosts) <= MaxHosts

\* Names of other services are never learned from a mixed datagram, and none of
\* their records gets through the relay, whatever the cache knows by then.
NothingLeaks ==
  /\ {Printer, HostOf[Printer]} \cap DOMAIN names = {}
  /\ \A p \in Packets : \A r \in Forwarded(p, names) : r.about \notin {Printer, HostOf[Printer]}

\* The MFD is not shown as detected any longer than one of its announcements is
\* valid, and never after its goodbye.
DetectionIsAnnounced == Detected => axiom.left <= said[axiom.inst]

\* With the address of a host it is not the same: this does not hold, see the README.
DetectedAddressIsAnnounced == Detected => axiom.left <= saidAt[axiom.host][axiom.ip]

\* An announcement of the services of the MFD, all on one host as its are, with the
\* address of this host is detected at once, even when the tables are full, and for
\* as long as it is valid if nothing else arrives.
AnnouncementIsDetected == announced > 0 => Detected

\* For that long the phones can look up the host of the MFD that is shown: its name
\* is in the cache, whatever was evicted while the datagram was learned from, twice,
\* and no expiry takes it out before the detection ends (responseRelevant, addTTL).
AnnouncedHostIsKnown == announced > 0 => Has(names, axiom.host)

\* The page says that no current service advertisement has been detected only if
\* there is none: no service on a host with a known address.  This does not hold
\* either: the goodbye of the service that is shown ends the detection.
DetectionIsComplete ==
  ~ Detected =>
    ~ \E i \in DOMAIN obs :
        /\ obs[i].left > 0 /\ said[i] > 0
        /\ obs[i].host \in DOMAIN hosts
        /\ hosts[obs[i].host].left > 0 /\ saidAt[obs[i].host][hosts[obs[i].host].ip] > 0

\* A host is known, so that follow-up lookups for it are relayed, as long as a
\* service on it is announced and not withdrawn.  Nor does this: services share
\* hosts, and the goodbye of one makes the cache forget the host of all.
LearnedHostRetained ==
  \A i \in DOMAIN obs : obs[i].left >= 0 /\ obs[i].host # Nothing => Has(names, obs[i].host)
==============================================================================
