----------------------------- MODULE MCRouting -----------------------------
(* Small instances of Routing. *)
EXTENDS RoutingInvariant

Unicast(d, dv, g) == [dst |-> d, type |-> "unicast", hops |-> {[dev |-> dv, gw |-> g]}]

Lan     == Unicast("lan", 1, FALSE)
PubGw   == Unicast("pub", 1, TRUE)
Gateway == Unicast("default", 1, TRUE)

\* A route the classifier must keep and one it must refuse although it is not
\* the default; one it must keep and the default through the physical gateway.
MCRoutes        == {Lan, PubGw}
MCRoutesDefault == {Lan, Gateway}
MCRoutesLan     == {Lan}

Conf(m, st, fs) ==
    [tun |-> 7, vpn |-> 51820, safe |-> 51821, base |-> 10000, mode |-> m,
     strict |-> st, families |-> fs, tunnel |-> {}, sources |-> {}]

\* One priority block and one pair of tables, as System uses them.
MCConfigsFixed == {Conf("exclude", FALSE, {4}), Conf("include", TRUE, {4})}
MCConfigSingle == {Conf("exclude", FALSE, {4})}

\* Ownership changes: overlapping priority blocks (the guard of one meets a
\* user rule of the other), other tables, another TUN, other families, a policy
\* family the TUN does not carry.
Moved ==
    [Conf("include", FALSE, {4, 6}) EXCEPT
       !.base = 9996, !.vpn = 60, !.safe = 61, !.tun = 8,
       !.sources = {[family |-> 4, dst |-> "lan"]}]
HalfCarried == [Conf("exclude", TRUE, {4, 6}) EXCEPT !.tunnel = {4}]
MCConfigsMoved == {Moved, HalfCarried}
=============================================================================
