---------------------------- MODULE NetworkChoice ----------------------------
(***************************************************************************)
(* Which networks the emulator joins and which discovery engine it uses:   *)
(* resolve and chooseEngine, asked by a request before it commits, by the  *)
(* daemon when it starts and every 10 s while it runs, each time of a      *)
(* system that changes at any moment: links go down and come up, addresses *)
(* are added (one of them by the daemon itself) and removed, and another   *)
(* mDNS reflector (Avahi) is started, stopped or configured.               *)
(*                                                                         *)
(* The service is on; the processes of a request and procd are one step    *)
(* here (they are in ServiceControl), and the ownership of the managed     *)
(* address is in ManagedAddress.  Prefix lengths are not distinguished.    *)
(***************************************************************************)
EXTENDS Naturals, FiniteSets

CONSTANTS
  Ifs,              \* interfaces
  Lan,              \* the one with the name br-lan
  LinksOf,          \* LinksOf[i]: the states interface i may change to
  Reflectors,       \* the states Avahi may change to
  IPs,              \* addresses
  PrivateIPs,       \* those for private networks (RFC 1918); 198.18.0.1 is not one
  Choices,          \* the settings that may be saved
  MaxChanges        \* bound: changes of the system and of the settings

Automatic == "auto"

Links == [there : BOOLEAN, up : BOOLEAN, addrs : SUBSET IPs, route : BOOLEAN]
Avahi == [running : BOOLEAN, readable : BOOLEAN, reflects : BOOLEAN, covers : SUBSET Ifs]
Modes == {"direct", "disabled", "avahi", "builtin"}

\* ip is the RayNet address, which may be any unicast address, a private one too;
\* apps = {} stands for the automatic choice of the app network.
Settings == [ip : IPs, raynet : Ifs \cup {Automatic}, apps : SUBSET Ifs, manage : BOOLEAN,
             discovery : {Automatic, "builtin", "avahi", "disabled"}]

ASSUME NetworkConstants ==
  /\ Lan \in Ifs /\ Automatic \notin Ifs
  /\ LinksOf \in [Ifs -> SUBSET Links]
  /\ Reflectors \subseteq Avahi
  /\ Choices \subseteq {c \in Settings : c.manage => c.raynet # Automatic}
  /\ PrivateIPs \subseteq IPs
  /\ MaxChanges \in Nat

VARIABLES
  net,              \* net[i]: the link of interface i
  avahi,            \* the avahi-daemon and what its configuration says
  config,           \* the saved settings
  req,              \* a request: its settings and the networks it has resolved
  dpc,              \* program counter of the daemon
  dcfg,             \* the settings it read
  sel,              \* the networks it has chosen: [raynet, apps]
  mode,             \* and the engine
  look,             \* the networks its check has resolved
  term,             \* it has been told to terminate
  changes,          \* changes so far
  since             \* history: changes when the daemon read the settings

daemonVars == <<dpc, dcfg, sel, mode, look, term, since>>
vars == <<net, avahi, config, req, daemonVars, changes>>

Networks == [raynet : Ifs, apps : SUBSET Ifs]
------------------------------------------------------------------------------
(* resolve                                                                 *)

\* Mutant of Private: any address will do.
AnyAddress(l) == l.addrs # {}

Private(l) == l.addrs \cap PrivateIPs # {}

RayNets(c, n) ==
  IF c.raynet = Automatic THEN {i \in Ifs : n[i].there /\ c.ip \in n[i].addrs}
  ELSE {i \in {c.raynet} : n[i].there /\ (c.ip \in n[i].addrs \/ c.manage)}

\* Mutant of Suitable: the default route is not looked at.
SuitableOrUplink(n) == {i \in Ifs : n[i].there /\ n[i].up /\ Private(n[i])}

Suitable(n) == {i \in Ifs : n[i].there /\ n[i].up /\ ~ n[i].route /\ Private(n[i])}

\* The automatic choice prefers br-lan, and takes it anyway if it is RayNet.
AppNets(c, n, ray) ==
  IF c.apps # {} THEN c.apps
  ELSE IF Lan = ray \/ Lan \in Suitable(n) THEN {Lan}
  ELSE Suitable(n)

\* The networks of settings c on system n: one choice, or none if it is an error.
Resolve(c, n) ==
  {r \in {[raynet |-> i, apps |-> AppNets(c, n, i)] : i \in RayNets(c, n)} :
     /\ RayNets(c, n) = {r.raynet}
     /\ n[r.raynet].up
     /\ r.apps # {} /\ (c.apps = {} => Cardinality(r.apps) = 1)
     /\ \A i \in r.apps : /\ n[i].there /\ n[i].up
                          /\ n[i].addrs # {} \/ i = r.raynet}
------------------------------------------------------------------------------
(* chooseEngine                                                            *)

Eligible(r, a) ==
  /\ a.running /\ a.readable /\ a.reflects
  /\ {r.raynet} \cup r.apps \subseteq a.covers

\* Mutant of Overlaps: an Avahi whose configuration cannot be read does not count.
OverlapsVisibly(a) == a.running /\ a.readable /\ a.reflects

Overlaps(a) == a.running /\ (a.readable => a.reflects)

\* The engine for networks r next to Avahi a: one, or none if it is an error.
ChooseEngine(c, r, a) ==
  {m \in Modes :
     IF r.apps \subseteq {r.raynet} THEN m = "direct"
     ELSE \/ c.discovery = "disabled" /\ m = "disabled"
          \/ c.discovery \in {"avahi", Automatic} /\ Eligible(r, a) /\ m = "avahi"
          \/ c.discovery = "builtin" /\ ~ Overlaps(a) /\ m = "builtin"
          \/ c.discovery = Automatic /\ ~ Eligible(r, a) /\ ~ Overlaps(a) /\ m = "builtin"}

Runnable(c) == \E r \in Resolve(c, net) : ChooseEngine(c, r, avahi) # {}
------------------------------------------------------------------------------
NoRequest == [asked |-> {}, found |-> {}]

\* What sel and look hold while nothing has been resolved.
Unresolved == [raynet |-> Lan, apps |-> {}]

Init ==
  /\ net \in {n \in [Ifs -> Links] : \A i \in Ifs : n[i] \in LinksOf[i]}
  /\ avahi \in Reflectors
  /\ config \in Choices
  /\ req = NoRequest
  /\ dpc = "off" /\ dcfg = config
  /\ sel = Unresolved /\ mode = "disabled" /\ look = Unresolved
  /\ term = FALSE
  /\ changes = 0 /\ since = 0

Change == changes < MaxChanges /\ changes' = changes + 1

LinkChanges(i) ==
  /\ Change
  /\ \E l \in LinksOf[i] \ {net[i]} : net' = [net EXCEPT ![i] = l]
  /\ UNCHANGED <<avahi, config, req, daemonVars>>

AvahiChanges ==
  /\ Change
  /\ avahi' \in Reflectors \ {avahi}
  /\ UNCHANGED <<net, config, req, daemonVars>>

\* A request resolves its settings on a snapshot of the system ...
RequestResolves(c) ==
  /\ req = NoRequest
  /\ Resolve(c, net) # {}
  /\ req' = [asked |-> {c}, found |-> Resolve(c, net)]
  /\ UNCHANGED <<net, avahi, config, daemonVars, changes>>

\* ... and looks for Avahi later; if there is an engine the settings are saved
\* and a running daemon is stopped.
RequestCommits ==
  /\ req # NoRequest
  /\ Change
  /\ \E c \in req.asked : \E r \in req.found :
       /\ ChooseEngine(c, r, avahi) # {}
       /\ config' = c
  /\ req' = NoRequest
  /\ term' = (dpc # "off")
  /\ UNCHANGED <<net, avahi, dpc, dcfg, sel, mode, look, since>>

RequestRefused ==
  /\ req # NoRequest
  /\ \A c \in req.asked : \A r \in req.found : ChooseEngine(c, r, avahi) = {}
  /\ req' = NoRequest
  /\ UNCHANGED <<net, avahi, config, daemonVars, changes>>
------------------------------------------------------------------------------
(* The daemon.  An error ends it, and procd starts it again.               *)

Outside == <<net, avahi, config, req, changes>>

Goes(from, to) == dpc = from /\ dpc' = to

Exits ==
  /\ dpc' = "off" /\ dcfg' = config
  /\ sel' = Unresolved /\ mode' = "disabled" /\ look' = Unresolved
  /\ term' = FALSE /\ since' = 0

DaemonResolves ==
  /\ Goes("off", "resolved")
  /\ dcfg' = config
  /\ sel' \in Resolve(config, net)
  /\ since' = changes
  /\ UNCHANGED <<Outside, mode, look, term>>

DaemonChooses ==
  /\ dpc = "resolved"
  /\ \/ /\ mode' \in ChooseEngine(dcfg, sel, avahi)
        /\ dpc' = "chosen"
        /\ UNCHANGED <<dcfg, sel, look, term, since>>
     \/ ChooseEngine(dcfg, sel, avahi) = {} /\ Exits
  /\ UNCHANGED Outside

\* Mutant of DaemonPrepares: the address is taken to be there.
DaemonPreparesNothing ==
  /\ dpc = "chosen"
  /\ dpc' = "prepared"
  /\ UNCHANGED <<Outside, dcfg, sel, mode, look, term, since>>

\* prepareAddress adds the RayNet address if it is absent and managed.
DaemonPrepares ==
  /\ dpc = "chosen"
  /\ \/ dcfg.manage /\ ~ net[sel.raynet].there /\ Exits /\ UNCHANGED net
     \/ /\ dcfg.manage => net[sel.raynet].there
        /\ dpc' = "prepared"
        /\ net' = IF dcfg.manage
                  THEN [net EXCEPT ![sel.raynet].addrs = @ \cup {dcfg.ip}] ELSE net
        /\ UNCHANGED <<dcfg, sel, mode, look, term, since>>
  /\ UNCHANGED <<avahi, config, req, changes>>

\* What buildEngine needs of the interfaces it opens a socket on.
Usable ==
  /\ net[sel.raynet].there /\ dcfg.ip \in net[sel.raynet].addrs
  /\ \A i \in sel.apps : net[i].there /\ net[i].addrs # {}

DaemonBuilds ==
  /\ dpc = "prepared"
  /\ \/ Usable /\ dpc' = "run" /\ UNCHANGED <<dcfg, sel, mode, look, term, since>>
     \/ ~ Usable /\ Exits
  /\ UNCHANGED Outside

\* Every 10 s: a snapshot of the interfaces first ...
CheckResolves ==
  /\ dpc = "run"
  /\ \/ /\ look' \in Resolve(dcfg, net)
        /\ dpc' = "check"
        /\ UNCHANGED <<dcfg, sel, mode, term, since>>
     \/ Resolve(dcfg, net) = {} /\ Exits
  /\ UNCHANGED Outside

\* Mutant of Same: only the networks are compared.
SameNetworks == look = sel

Same == look = sel /\ mode \in ChooseEngine(dcfg, look, avahi)

\* ... and a look at Avahi; with any difference the daemon ends to be restarted.
CheckCompares ==
  /\ dpc = "check"
  /\ \/ Same /\ dpc' = "run" /\ look' = Unresolved /\ UNCHANGED <<dcfg, sel, mode, term, since>>
     \/ ~ Same /\ Exits
  /\ UNCHANGED Outside

DaemonTerminates ==
  /\ term
  /\ Exits
  /\ UNCHANGED Outside

DaemonDies ==
  /\ dpc # "off"
  /\ Change
  /\ Exits
  /\ UNCHANGED <<net, avahi, config, req>>

DaemonStep == \/ DaemonResolves \/ DaemonChooses \/ DaemonPrepares \/ DaemonBuilds
              \/ CheckResolves \/ CheckCompares

Next == \/ \E i \in Ifs : LinkChanges(i)
        \/ AvahiChanges
        \/ \E c \in Choices : RequestResolves(c)
        \/ RequestCommits \/ RequestRefused
        \/ DaemonStep \/ DaemonTerminates \/ DaemonDies

Spec == Init /\ [][Next]_vars

\* procd starts the daemon again, its start is bounded by time-outs, the check is
\* driven by a ticker and a snapshot of the interfaces succeeds in the end.
FairSpec == Spec /\ WF_vars(DaemonStep) /\ WF_vars(DaemonTerminates)
------------------------------------------------------------------------------
(* Properties                                                              *)

InService == dpc \in {"run", "check"}

TypeOK ==
  /\ net \in [Ifs -> Links] /\ avahi \in Reflectors
  /\ config \in Choices /\ dcfg \in Choices
  /\ req \in [asked : SUBSET Choices, found : SUBSET Networks]
  /\ dpc \in {"off", "resolved", "chosen", "prepared", "run", "check"}
  /\ sel \in Networks /\ look \in Networks /\ mode \in Modes
  /\ term \in BOOLEAN
  /\ changes \in 0..MaxChanges /\ since \in 0..MaxChanges

\* An app network that was chosen automatically is never one with a default route,
\* unless it carries RayNet itself, and it has a private address; whatever has
\* happened between the request and the daemon's own choice.
AutoAvoidsUplinks ==
  [][ DaemonResolves /\ config.apps = {} =>
        \A i \in sel'.apps \ {sel'.raynet} : ~ net[i].route /\ Private(net[i]) ]_vars

\* Two reflectors never stay side by side: a daemon that relays itself gives way
\* to an Avahi that reflects, even to one whose configuration it cannot read.
NoDoubleReflection ==
  LET Doubled == InService /\ mode = "builtin" /\ avahi.running /\ avahi.reflects
  IN  Doubled ~> ~ Doubled

\* A daemon that runs on networks or with an engine that it would not choose now
\* does not keep them.
SelectionFollows ==
  LET Stale == /\ InService
               /\ ~ \E r \in Resolve(dcfg, net) :
                      sel = r /\ mode \in ChooseEngine(dcfg, r, avahi)
  IN  Stale ~> ~ Stale

\* What a request is allowed to save can be run: while the saved settings pass the
\* request's test the daemon gets to its main loop, through buildEngine's tests.
RunnableRuns == Runnable(config) ~> (dpc = "run" \/ ~ Runnable(config))

\* The RayNet address that a daemon with settings c adds to the interface of r makes
\* this interface a second candidate for the automatic app network: the address is
\* private, and neither br-lan nor that interface itself is the app network.
AddsRival(c, r, n) ==
  /\ c.manage /\ c.apps = {} /\ c.ip \in PrivateIPs
  /\ Lan \notin r.apps /\ r.raynet \notin r.apps /\ ~ n[r.raynet].route

\* The daemon leaves its main loop although it has not been told to and nothing has
\* changed since it started, other than by itself.
EndsUnchanged == InService /\ dpc' = "off" /\ ~ term /\ changes' = since

\* The check ends a daemon only when something has changed since it started: what
\* it changes itself, its own address, is no reason to, except in the one case in
\* which it makes the choice ambiguous.
NoNeedlessRestart == [][ EndsUnchanged => AddsRival(dcfg, sel, net) ]_vars

\* "Re-resolve after link/address or external-reflector changes, including boot
\* delays" (the comment on the check): without one the daemon stays.  This does not
\* hold in the excepted case.
RestartsFollowChanges == [][ ~ EndsUnchanged ]_vars
==============================================================================
