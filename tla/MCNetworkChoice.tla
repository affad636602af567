-------------------------- MODULE MCNetworkChoice --------------------------
(* NetworkChoice with br-lan and two other interfaces, in the states that  *)
(* resolve tells apart.                                                    *)
EXTENDS NetworkChoice

CONSTANTS lan, e1, e2, ray, home, other

\* 198.18.0.1; a private address that may be RayNet's; and one that is not.
IPsVal        == {ray, home, other}
PrivateIPsVal == {home, other}

Link(up, addrs, route) == [there |-> TRUE, up |-> up, addrs |-> addrs, route |-> route]
Gone == [there |-> FALSE, up |-> FALSE, addrs |-> {}, route |-> FALSE]

LinksVal ==
  [i \in {lan, e1, e2} |->
     IF i = lan THEN {Gone, Link(TRUE, {other}, FALSE), Link(TRUE, {ray, other}, TRUE)}
     ELSE IF i = e1 THEN {Gone, Link(TRUE, {}, FALSE), Link(TRUE, {ray}, FALSE),
                          Link(TRUE, {home}, FALSE)}
     ELSE {Link(FALSE, {other}, FALSE), Link(TRUE, {other}, FALSE), Link(TRUE, {other}, TRUE)}]

Config(readable, reflects, covers) ==
  [running |-> TRUE, readable |-> readable, reflects |-> reflects, covers |-> covers]

ReflectorsVal ==
  {[running |-> FALSE, readable |-> FALSE, reflects |-> FALSE, covers |-> {}],
   Config(TRUE, FALSE, {}), Config(FALSE, TRUE, {lan, e1, e2}),
   Config(TRUE, TRUE, {lan, e1, e2}), Config(TRUE, TRUE, {lan, e2})}

Choice(ip, raynet, apps, manage, discovery) ==
  [ip |-> ip, raynet |-> raynet, apps |-> apps, manage |-> manage, discovery |-> discovery]

ChoicesVal ==
  {Choice(ray, Automatic, {}, FALSE, Automatic), Choice(ray, e1, {}, TRUE, "builtin"),
   Choice(home, e1, {}, TRUE, "builtin"), Choice(ray, e1, {e2, lan}, FALSE, "avahi"),
   Choice(ray, Automatic, {e2}, FALSE, "disabled")}
==============================================================================
