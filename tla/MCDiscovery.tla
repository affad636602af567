---------------------------- MODULE MCDiscovery ----------------------------
(* Discovery with two services of one MFD on one host, and a printer.      *)
EXTENDS Discovery, TLC

CONSTANTS m1, m2, printer, h, ph, a1, a2

MFDsVal   == {m1, m2}
HostOfVal == (m1 :> h) @@ (m2 :> h) @@ (printer :> ph)
\* The order of the instances in a datagram, PTR before SRV, matters at the limits.
ListsVal  == {<< >>, <<m2>>, <<m1, m2>>}

==============================================================================
