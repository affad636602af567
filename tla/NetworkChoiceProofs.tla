------------------------- MODULE NetworkChoiceProofs -------------------------
(* Proofs about NetworkChoice for any interfaces, states of interfaces and   *)
(* of Avahi, settings, and number of changes.                                *)
EXTENDS NetworkChoice, TLAPS

\* What resolve finds are networks of the system.
LEMMA ResolveType ==
  ASSUME NEW c \in Choices, NEW n \in [Ifs -> Links]
  PROVE  Resolve(c, n) \subseteq Networks
<1>1. c \in Settings
  BY NetworkConstants
<1>2. RayNets(c, n) \subseteq Ifs
  BY <1>1 DEF RayNets, Settings
<1>3. ASSUME NEW i \in Ifs PROVE AppNets(c, n, i) \subseteq Ifs
  BY <1>1, NetworkConstants DEF AppNets, Suitable, Settings
<1>4. QED
  BY <1>2, <1>3 DEF Resolve, Networks

\* resolve has one answer at most.
LEMMA ResolveUnique ==
  ASSUME NEW c, NEW n, NEW r \in Resolve(c, n), NEW s \in Resolve(c, n)
  PROVE  r = s
<1>1. PICK i \in RayNets(c, n) : r = [raynet |-> i, apps |-> AppNets(c, n, i)]
  BY DEF Resolve
<1>2. PICK j \in RayNets(c, n) : s = [raynet |-> j, apps |-> AppNets(c, n, j)]
  BY DEF Resolve
<1>3. RayNets(c, n) = {r.raynet}
  BY DEF Resolve
<1>4. i = r.raynet
  BY <1>1
<1>5. i = j
  BY <1>3, <1>4
<1>6. QED
  BY <1>1, <1>2, <1>5

\* A step of the specification is one of its actions, or changes nothing.
LEMMA StepCases ==
  ASSUME [Next]_vars
  PROVE  \/ AvahiChanges \/ RequestCommits \/ RequestRefused
         \/ DaemonResolves \/ DaemonChooses \/ DaemonPrepares \/ DaemonBuilds
         \/ CheckResolves \/ CheckCompares \/ DaemonTerminates \/ DaemonDies
         \/ \E i \in Ifs : LinkChanges(i)
         \/ \E c \in Choices : RequestResolves(c)
         \/ UNCHANGED vars
BY DEF Next, DaemonStep

\* The end of the daemon leaves its variables in their types.
LEMMA ExitsType ==
  ASSUME TypeOK, Exits
  PROVE  /\ dpc' \in {"off", "resolved", "chosen", "prepared", "run", "check"}
         /\ dcfg' \in Choices /\ sel' \in Networks /\ look' \in Networks
         /\ mode' \in Modes /\ term' \in BOOLEAN /\ since' \in 0..MaxChanges
<1>1. Unresolved \in Networks
  BY NetworkConstants DEF Unresolved, Networks
<1>2. sel' \in Networks /\ look' \in Networks
  BY <1>1 DEF Exits
<1>3. mode' \in Modes
  BY DEF Exits, Modes
<1>4. since' \in 0..MaxChanges
  BY NetworkConstants DEF Exits
<1>5. dpc' = "off" /\ dcfg' \in Choices /\ term' = FALSE
  BY DEF Exits, TypeOK
<1>6. QED
  BY <1>2, <1>3, <1>4, <1>5

\* Every variable stays in its type.
LEMMA TypeCorrect == Spec => []TypeOK
<1> USE NetworkConstants
<1>1. Init => TypeOK
  <2> SUFFICES ASSUME Init PROVE TypeOK
    OBVIOUS
  <2>1. net \in [Ifs -> Links]
    BY DEF Init
  <2>2. Unresolved \in Networks
    BY DEF Unresolved, Networks
  <2>3. NoRequest \in [asked : SUBSET Choices, found : SUBSET Networks]
    BY DEF NoRequest
  <2>4. term \in BOOLEAN
    BY Zenon DEF Init
  <2>5. QED
    BY <2>1, <2>2, <2>3, <2>4 DEF Init, TypeOK, Modes
<1>2. TypeOK /\ [Next]_vars => TypeOK'
  <2> SUFFICES ASSUME TypeOK, [Next]_vars PROVE TypeOK'
    OBVIOUS
  <2>1. Change => changes' \in 0..MaxChanges
    BY DEF Change, TypeOK
  <2>2. NoRequest \in [asked : SUBSET Choices, found : SUBSET Networks]
    BY DEF NoRequest
  <2>3. ASSUME NEW c \in Choices PROVE Resolve(c, net) \subseteq Networks
    BY ResolveType DEF TypeOK
  <2>4. Unresolved \in Networks
    BY DEF Unresolved, Networks
  <2>6. CASE AvahiChanges
    BY <2>1, <2>6 DEF AvahiChanges, TypeOK, daemonVars
  <2>7. CASE RequestCommits
    <3>1. config' \in Choices
      BY <2>7 DEF RequestCommits, TypeOK
    <3>2. req' \in [asked : SUBSET Choices, found : SUBSET Networks]
      BY <2>2, <2>7 DEF RequestCommits
    <3>3. term' \in BOOLEAN
      BY <2>7, Zenon DEF RequestCommits
    <3>4. QED
      BY <2>1, <2>7, <3>1, <3>2, <3>3 DEF RequestCommits, TypeOK
  <2>8. CASE RequestRefused
    BY <2>2, <2>8 DEF RequestRefused, TypeOK, daemonVars
  <2>9. CASE DaemonResolves
    <3>1. dcfg' \in Choices /\ sel' \in Networks
      BY <2>3, <2>9 DEF DaemonResolves, TypeOK
    <3>2. QED
      BY <2>9, <3>1 DEF DaemonResolves, TypeOK, Outside, Goes
  <2>10. CASE DaemonChooses
    <3>1. ChooseEngine(dcfg, sel, avahi) \subseteq Modes
      BY DEF ChooseEngine
    <3>2. QED
      BY <2>10, <3>1, ExitsType DEF DaemonChooses, TypeOK, Outside
  <2>11. CASE DaemonPrepares
    <3>1. sel.raynet \in Ifs
      BY DEF Networks, TypeOK
    <3>2. [net EXCEPT ![sel.raynet].addrs = @ \cup {dcfg.ip}] \in [Ifs -> Links]
      <4>1. dcfg.ip \in IPs
        BY DEF Settings, TypeOK
      <4>2. QED
        BY <3>1, <4>1 DEF Links, TypeOK
    <3>3. QED
      BY <2>11, <3>2, ExitsType DEF DaemonPrepares, TypeOK
  <2>12. CASE DaemonBuilds
    BY <2>12, ExitsType DEF DaemonBuilds, TypeOK, Outside
  <2>13. CASE CheckResolves
    BY <2>3, <2>13, ExitsType DEF CheckResolves, TypeOK, Outside
  <2>14. CASE CheckCompares
    BY <2>4, <2>14, ExitsType DEF CheckCompares, TypeOK, Outside
  <2>15. CASE DaemonTerminates
    BY <2>15, ExitsType DEF DaemonTerminates, TypeOK, Outside
  <2>16. CASE DaemonDies
    BY <2>1, <2>16, ExitsType DEF DaemonDies, TypeOK
  <2>17. ASSUME NEW i \in Ifs, LinkChanges(i) PROVE TypeOK'
    <3>1. net' \in [Ifs -> Links]
      BY <2>17 DEF LinkChanges, TypeOK
    <3>2. QED
      BY <2>1, <2>17, <3>1 DEF LinkChanges, TypeOK, daemonVars
  <2>18. ASSUME NEW c \in Choices, RequestResolves(c) PROVE TypeOK'
    BY <2>3, <2>18 DEF RequestResolves, TypeOK, daemonVars
  <2>19. CASE UNCHANGED vars
    BY <2>19 DEF vars, daemonVars, TypeOK
  <2>20. QED
    BY <2>6, <2>7, <2>8, <2>9, <2>10, <2>11, <2>12, <2>13, <2>14, <2>15, <2>16, <2>17,
       <2>18, <2>19, StepCases
<1>3. QED
  BY <1>1, <1>2, PTL DEF Spec

------------------------------------------------------------------------------
\* "Never automatically choose a WAN/default-route interface": no automatic choice
\* of an app network takes one, unless it is the RayNet interface.
THEOREM UplinksAvoided == Spec => AutoAvoidsUplinks
<1>1. ASSUME DaemonResolves, config.apps = {}, NEW i \in sel'.apps \ {sel'.raynet}
      PROVE  ~ net[i].route /\ Private(net[i])
  <2>1. sel' \in Resolve(config, net)
    BY <1>1 DEF DaemonResolves
  <2>2. sel'.apps = AppNets(config, net, sel'.raynet)
    BY <2>1 DEF Resolve
  <2>3. i \in Suitable(net)
    BY <1>1, <2>2 DEF AppNets
  <2>4. QED
    BY <2>3 DEF Suitable
<1>2. [Next]_vars => [DaemonResolves /\ config.apps = {} =>
        \A i \in sel'.apps \ {sel'.raynet} : ~ net[i].route /\ Private(net[i])]_vars
  BY <1>1
<1>3. QED
  BY <1>2, PTL DEF Spec, AutoAvoidsUplinks
------------------------------------------------------------------------------
\* The address that the daemon adds to its RayNet interface changes nothing in
\* what resolve finds, unless it makes this interface a rival of the app network:
\* the interface is a manual choice, and no other one becomes suitable.
LEMMA AddedAddressKeepsChoice ==
  ASSUME NEW c \in Choices, c.manage, NEW n \in [Ifs -> Links],
         NEW r \in Resolve(c, n), ~ AddsRival(c, r, n)
  PROVE  r \in Resolve(c, [n EXCEPT ![r.raynet].addrs = @ \cup {c.ip}])
<1> DEFINE m == [n EXCEPT ![r.raynet].addrs = @ \cup {c.ip}]
<1>1. c \in Settings /\ c.raynet # Automatic
  BY NetworkConstants
<1>2. RayNets(c, n) = {r.raynet} /\ r = [raynet |-> r.raynet, apps |-> AppNets(c, n, r.raynet)]
  BY DEF Resolve
<1>3. r.raynet = c.raynet /\ r.raynet \in Ifs /\ n[r.raynet].there
  BY <1>1, <1>2 DEF RayNets, Settings
<1>4. ASSUME NEW i \in Ifs
      PROVE  /\ m[i].there = n[i].there /\ m[i].up = n[i].up /\ m[i].route = n[i].route
             /\ m[i].addrs = IF i = r.raynet THEN n[i].addrs \cup {c.ip} ELSE n[i].addrs
  BY <1>3 DEF Links
<1>5. RayNets(c, m) = {r.raynet}
  <2>1. m[r.raynet].there
    BY <1>3, <1>4
  <2>2. QED
    BY <1>1, <1>3, <2>1 DEF RayNets
<1>6. Suitable(n) \subseteq Suitable(m) /\ Suitable(m) \subseteq Suitable(n) \cup {r.raynet}
  <2>1. \A i \in Ifs : Private(n[i]) => Private(m[i])
    BY <1>4 DEF Private
  <2>2. \A i \in Ifs \ {r.raynet} : Private(m[i]) => Private(n[i])
    BY <1>4 DEF Private
  <2>3. QED
    BY <1>4, <2>1, <2>2 DEF Suitable
<1>7. AppNets(c, m, r.raynet) = AppNets(c, n, r.raynet)
  <2>1. CASE c.apps # {}
    BY <2>1 DEF AppNets
  <2>2. CASE c.apps = {} /\ Lan \in r.apps
    <3>1. Lan = r.raynet \/ Lan \in Suitable(n)
      BY <1>2, <2>2 DEF AppNets
    <3>2. QED
      BY <1>6, <2>2, <3>1 DEF AppNets
  <2>3. CASE c.apps = {} /\ Lan \notin r.apps
    <3>1. Lan # r.raynet /\ Lan \notin Suitable(n) /\ r.apps = Suitable(n)
      BY <1>2, <2>3 DEF AppNets
    <3>2. CASE r.raynet \in r.apps
      <4>1. Suitable(m) = Suitable(n)
        BY <1>6, <3>1, <3>2
      <4>2. QED
        BY <2>3, <4>1 DEF AppNets
    <3>3. CASE r.raynet \notin r.apps
      <4>1. n[r.raynet].route \/ c.ip \notin PrivateIPs
        BY <2>3, <3>3 DEF AddsRival
      <4>2. r.raynet \notin Suitable(m)
        <5>1. CASE n[r.raynet].route
          BY <1>3, <1>4, <5>1 DEF Suitable
        <5>2. CASE c.ip \notin PrivateIPs
          <6>1. Private(m[r.raynet]) => Private(n[r.raynet])
            BY <1>3, <1>4, <5>2 DEF Private
          <6>2. QED
            BY <1>3, <1>4, <3>1, <3>3, <6>1 DEF Suitable
        <5>3. QED
          BY <4>1, <5>1, <5>2
      <4>3. Suitable(m) = Suitable(n)
        BY <1>6, <4>2
      <4>4. QED
        BY <2>3, <4>3 DEF AppNets
    <3>4. QED
      BY <3>2, <3>3
  <2>4. QED
    BY <2>1, <2>2, <2>3
<1>8. r.apps \subseteq Ifs
  BY ResolveType DEF Networks
<1>9. \A i \in r.apps : m[i].there /\ m[i].up /\ (m[i].addrs # {} \/ i = r.raynet)
  <2>1. \A i \in r.apps : n[i].there /\ n[i].up /\ (n[i].addrs # {} \/ i = r.raynet)
    BY DEF Resolve
  <2>2. QED
    BY <1>4, <1>8, <2>1
<1>10. m[r.raynet].up /\ r.apps # {} /\ (c.apps = {} => Cardinality(r.apps) = 1)
  <2>1. n[r.raynet].up /\ r.apps # {} /\ (c.apps = {} => Cardinality(r.apps) = 1)
    BY DEF Resolve
  <2>2. QED
    BY <1>3, <1>4, <2>1
<1> HIDE DEF m
<1>11. r \in {[raynet |-> i, apps |-> AppNets(c, m, i)] : i \in RayNets(c, m)}
  BY <1>2, <1>5, <1>7
<1>12. r \in Resolve(c, m)
  BY <1>5, <1>9, <1>10, <1>11 DEF Resolve
<1>13. QED
  BY <1>12 DEF m

\* While nothing has changed since the daemon read its settings, what it has chosen
\* is what it would choose now, unless its own address makes a rival.
ChoiceStands ==
  /\ since \in Nat /\ changes \in Nat /\ since <= changes
  /\ dpc # "off" /\ since = changes => sel \in Resolve(dcfg, net) \/ AddsRival(dcfg, sel, net)
  /\ dpc \notin {"off", "resolved"} /\ since = changes => mode \in ChooseEngine(dcfg, sel, avahi)
  /\ dpc = "check" /\ since = changes => look = sel \/ AddsRival(dcfg, sel, net)

\* A change of the system, of the settings or of the daemon's luck is counted.
LEMMA ChangeCounts ==
  ASSUME ChoiceStands, Change, since' = since \/ (since' = 0 /\ dpc' = "off")
  PROVE  ChoiceStands'
<1>1. changes' \in Nat /\ since' \in Nat /\ since' <= changes'
  BY DEF ChoiceStands, Change
<1>2. dpc' = "off" \/ since' # changes'
  BY DEF ChoiceStands, Change
<1>3. QED
  BY <1>1, <1>2 DEF ChoiceStands

\* So does the end of the daemon keep ChoiceStands.
LEMMA ExitStands ==
  ASSUME ChoiceStands, Exits, changes' = changes
  PROVE  ChoiceStands'
BY DEF ChoiceStands, Exits

\* The choice stands as long as nothing changes; the daemon's own address included.
LEMMA ChoiceCorrect == Spec => []ChoiceStands
<1>1. Init => ChoiceStands
  BY DEF Init, ChoiceStands
<1>2. TypeOK /\ ChoiceStands /\ [Next]_vars => ChoiceStands'
  <2> SUFFICES ASSUME TypeOK, ChoiceStands, [Next]_vars PROVE ChoiceStands'
    OBVIOUS
  <2>1. CASE AvahiChanges
    BY <2>1, ChangeCounts DEF AvahiChanges, daemonVars
  <2>2. CASE RequestCommits
    BY <2>2, ChangeCounts DEF RequestCommits
  <2>3. CASE RequestRefused
    BY <2>3 DEF RequestRefused, daemonVars, ChoiceStands
  <2>4. CASE DaemonResolves
    BY <2>4 DEF DaemonResolves, Outside, Goes, ChoiceStands
  <2>5. CASE DaemonChooses
    BY <2>5, ExitStands DEF DaemonChooses, Outside, ChoiceStands
  <2>6. CASE DaemonPrepares
    <3>1. CASE Exits
      BY <2>6, <3>1, ExitStands DEF DaemonPrepares
    <3>2. CASE ~ Exits
      <4>1. /\ dpc = "chosen" /\ dpc' = "prepared"
            /\ UNCHANGED <<dcfg, sel, mode, look, since, avahi, changes>>
            /\ net' = IF dcfg.manage
                      THEN [net EXCEPT ![sel.raynet].addrs = @ \cup {dcfg.ip}] ELSE net
        BY <2>6, <3>2 DEF DaemonPrepares
      <4>2. AddsRival(dcfg, sel, net') <=> AddsRival(dcfg, sel, net)
        <5>1. sel.raynet \in Ifs
          BY DEF Networks, TypeOK
        <5>2. net'[sel.raynet].route = net[sel.raynet].route
          BY <4>1, <5>1 DEF Links, TypeOK
        <5>3. QED
          BY <5>2 DEF AddsRival
      <4>3. since = changes => sel \in Resolve(dcfg, net') \/ AddsRival(dcfg, sel, net')
        BY <4>1, <4>2, AddedAddressKeepsChoice DEF ChoiceStands, TypeOK
      <4>4. QED
        BY <4>1, <4>3 DEF ChoiceStands
    <3>3. QED
      BY <3>1, <3>2
  <2>7. CASE DaemonBuilds
    BY <2>7, ExitStands DEF DaemonBuilds, Outside, ChoiceStands
  <2>8. CASE CheckResolves
    <3>1. CASE Exits
      BY <2>8, <3>1, ExitStands DEF CheckResolves, Outside
    <3>2. CASE ~ Exits
      <4>1. /\ dpc = "run" /\ dpc' = "check" /\ look' \in Resolve(dcfg, net)
            /\ UNCHANGED <<dcfg, sel, mode, since, net, avahi, changes>>
        BY <2>8, <3>2 DEF CheckResolves, Outside
      <4>2. sel \in Resolve(dcfg, net) => look' = sel
        BY <4>1, ResolveUnique
      <4>3. QED
        BY <4>1, <4>2 DEF ChoiceStands
    <3>3. QED
      BY <3>1, <3>2
  <2>9. CASE CheckCompares
    BY <2>9, ExitStands DEF CheckCompares, Outside, ChoiceStands
  <2>10. CASE DaemonTerminates
    BY <2>10, ExitStands DEF DaemonTerminates, Outside
  <2>11. CASE DaemonDies
    BY <2>11, ChangeCounts DEF DaemonDies, Exits
  <2>12. ASSUME NEW i \in Ifs, LinkChanges(i) PROVE ChoiceStands'
    BY <2>12, ChangeCounts DEF LinkChanges, daemonVars
  <2>13. ASSUME NEW c \in Choices, RequestResolves(c) PROVE ChoiceStands'
    BY <2>13 DEF RequestResolves, daemonVars, ChoiceStands
  <2>14. CASE UNCHANGED vars
    BY <2>14 DEF vars, daemonVars, ChoiceStands
  <2>15. QED
    BY <2>1, <2>2, <2>3, <2>4, <2>5, <2>6, <2>7, <2>8, <2>9, <2>10, <2>11, <2>12,
       <2>13, <2>14, StepCases
<1>3. QED
  BY <1>1, <1>2, TypeCorrect, PTL DEF Spec

\* The daemon's periodic check ends it only if it has been told to, or the system or
\* the settings have changed since it started, or the address that it adds makes its
\* own interface a rival of the app network; for any RayNet address and any settings.
THEOREM ChoiceIsStable == Spec => NoNeedlessRestart
<1>1. ChoiceStands /\ [Next]_vars => [EndsUnchanged => AddsRival(dcfg, sel, net)]_vars
  <2> SUFFICES ASSUME ChoiceStands, Next, InService, dpc' = "off", ~ term,
                      ~ AddsRival(dcfg, sel, net)
               PROVE  changes' # since
    BY DEF EndsUnchanged
  <2>1. ASSUME since = changes, changes' = changes PROVE FALSE
    <3>1. /\ sel \in Resolve(dcfg, net)
          /\ mode \in ChooseEngine(dcfg, sel, avahi)
          /\ dpc = "check" => look = sel
      BY <2>1 DEF ChoiceStands, InService
    <3>2. ~ CheckResolves
      BY <3>1 DEF CheckResolves
    <3>3. ~ CheckCompares
      BY <3>1 DEF CheckCompares, Same
    <3>4. dpc' # dpc
      BY DEF InService
    <3>5. ~ DaemonTerminates
      BY DEF DaemonTerminates
    <3>6. CheckResolves \/ CheckCompares \/ DaemonTerminates
      BY <2>1, <3>4 DEF Next, DaemonStep, LinkChanges, AvahiChanges, Change,
         RequestResolves, RequestCommits, RequestRefused, DaemonDies, daemonVars,
         DaemonResolves, DaemonChooses, DaemonPrepares, DaemonBuilds, Goes, InService,
         ChoiceStands
    <3>7. QED
      BY <3>2, <3>3, <3>5, <3>6
  <2>2. changes' = changes \/ changes' = changes + 1
    BY DEF Next, DaemonStep, LinkChanges, AvahiChanges, Change, RequestResolves,
       RequestCommits, RequestRefused, DaemonDies, Outside, DaemonResolves,
       DaemonChooses, DaemonPrepares, DaemonBuilds, CheckResolves, CheckCompares,
       DaemonTerminates
  <2>3. QED
    BY <2>1, <2>2 DEF ChoiceStands
<1>2. QED
  BY <1>1, ChoiceCorrect, PTL DEF Spec, NoNeedlessRestart
==============================================================================
