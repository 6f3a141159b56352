--------------------------- MODULE RoutingPolicy ---------------------------
(***************************************************************************)
(* The pure part of package routing: what a validated Config compiles to    *)
(* (routing/compiler.go), which main-table routes may be replayed into the  *)
(* safe table (routing/safe.go), how a rule looks when netlink lists it     *)
(* (routing/manager.go), and, as the external reference for all of them,    *)
(* the walk of rules and tables by which Linux routes a packet.             *)
(*                                                                          *)
(* Data abstraction: fwmarks are the three classes the validated selectors  *)
(* tell apart (the application mark, the user mark, neither), destinations  *)
(* are the three prefixes the classifier tells apart (a private one, a      *)
(* public one narrower than the default, the default).                      *)
(***************************************************************************)
EXTENDS Integers, FiniteSets

CONSTANTS
    Family,        \* the IP families of the host: 4, 6 or both
    Config,        \* the validated configurations callers may apply
    NoConfig,      \* the nil *DesiredState
    MainRoute      \* the routes that may appear in the main table

MainTable  == 254
NoTable    == 0
KernelPrio == 32766                \* the kernel's own "lookup main" rule
Span       == 32                   \* DefaultPrioritySpan

Prefix == {"default", "lan", "pub"}
Mark   == {"app", "user", "plain"}

\* A route of one family.  hops is the set of next hops, a singleton for a
\* route that is not multipath; dev is a link index, gw tells whether the hop
\* goes through a gateway.
Hop   == [dev : Nat, gw : BOOLEAN]
Route == [dst : Prefix, type : {"unicast", "unsupported"}, hops : SUBSET Hop]

Rule == [family : Family, prio : Nat, action : {"lookup", "unreachable"},
         table : Nat, sel : {"all", "app", "user"}]

Packet == [family : Family, mark : Mark, dst : {"lan", "pub", "inet"}]

\* What Config.validate() accepts, in this abstraction.  An empty tunnel set
\* means every policy family.
ValidConfig(c) ==
    /\ c.tun \in Nat \ {0}
    /\ c.vpn \in Nat \ {0, 253, MainTable, 255}
    /\ c.safe \in Nat \ {0, 253, MainTable, 255}
    /\ c.vpn # c.safe
    /\ c.base \in Nat \ {0}
    /\ c.base + Span =< KernelPrio
    /\ c.mode \in {"exclude", "include"}
    /\ c.strict \in BOOLEAN
    /\ c.families \in (SUBSET Family) \ {{}}
    /\ c.tunnel \in SUBSET c.families
    /\ c.sources \subseteq
         [family : IF c.tunnel = {} THEN c.families ELSE c.tunnel, dst : Prefix]

ASSUME FamilyAssumption == Family \subseteq {4, 6}

ASSUME ConfigAssumption == NoConfig \notin Config /\ \A c \in Config : ValidConfig(c)

ASSUME MainRouteAssumption == MainRoute \subseteq Route

----------------------------------------------------------------------------
(* Compilation. *)

effectiveTunnelFamilies(c) == IF c.tunnel = {} THEN c.families ELSE c.tunnel

MkRule(f, p, a, t, s) ==
    [family |-> f, prio |-> p, action |-> a, table |-> t, sel |-> s]

transitionGuard(c, f) == MkRule(f, c.base + 2, "unreachable", NoTable, "all")

transitionGuards(cs) ==
    UNION {{transitionGuard(c, f) : f \in c.families} : c \in cs}

\* Mutant: no unreachable rule behind the application's lookup of main.
MutAppRules(c, f) == {MkRule(f, c.base, "lookup", MainTable, "app")}

AppRules(c, f) ==
    {MkRule(f, c.base, "lookup", MainTable, "app"),
     MkRule(f, c.base + 1, "unreachable", NoTable, "app")}

\* The rules from ruleOffsetUserFirst on, one priority after the other.
UserRules(c, f) ==
    LET at(i, a, t, s) == MkRule(f, c.base + 3 + i, a, t, s) IN
    IF f \notin effectiveTunnelFamilies(c)
      THEN {at(0, "unreachable", NoTable, "all")}
    ELSE IF c.mode = "exclude" /\ c.strict
      THEN {at(0, "unreachable", NoTable, "user"),
            at(1, "lookup", c.vpn, "all"),
            at(2, "unreachable", NoTable, "all")}
    ELSE IF c.mode = "exclude"
      THEN {at(0, "lookup", MainTable, "user"),
            at(1, "unreachable", NoTable, "user"),
            at(2, "lookup", c.safe, "all"),
            at(3, "lookup", c.vpn, "all"),
            at(4, "unreachable", NoTable, "all")}
    ELSE IF c.strict
      THEN {at(0, "lookup", c.vpn, "user"),
            at(1, "unreachable", NoTable, "user"),
            at(2, "unreachable", NoTable, "all")}
    ELSE {at(0, "lookup", c.safe, "all"),
          at(1, "lookup", c.vpn, "user"),
          at(2, "unreachable", NoTable, "user"),
          at(3, "lookup", MainTable, "all")}

compileRules(c, f) == AppRules(c, f) \cup UserRules(c, f)

DesiredRules(c) == UNION {compileRules(c, f) : f \in c.families}

\* privateOrLocalPrefix on the three abstract prefixes.
privateOrLocalPrefix(p) == p = "lan"

ClassifySafeRoute(r, tun) ==
    IF r.type # "unicast" THEN "ignored"
    ELSE IF /\ r.dst # "default"
            /\ \A h \in r.hops :
                 h.dev # tun /\ (h.gw => privateOrLocalPrefix(r.dst))
      THEN "safe"
      ELSE "unsafe"

SafeRoutes(c, mainRoutes) ==
    {r \in mainRoutes : ClassifySafeRoute(r, c.tun) = "safe"}

TunRoute(c, dst) ==
    [dst |-> dst, type |-> "unicast", hops |-> {[dev |-> c.tun, gw |-> FALSE]}]

\* The VPN table of one family: the default, and the specific source routes.
VPNRoutes(c, f) ==
    IF f \in effectiveTunnelFamilies(c)
      THEN {TunRoute(c, d) :
              d \in {"default"} \cup {s.dst : s \in {x \in c.sources : x.family = f}}}
      ELSE {}

routeDependsOnGateway(r) == \E h \in r.hops : h.gw

----------------------------------------------------------------------------
(* Ownership: which rules and tables belong to a set of configurations. *)

\* The netlink dependency reports neither the action of a rule nor a table
\* below 256.
listedRule(r) ==
    [r EXCEPT !.action = "lookup", !.table = IF @ < 256 THEN NoTable ELSE @]

\* A rule as held by the manager (an element of applied.Rules).
keepRule(r, keep) == \E k \in keep : r = k \/ r = listedRule(k)

\* A kernel rule, which deleteOwnedRules only sees through ListRules.
keepListed(r, keep) == keepRule(listedRule(r), keep)

InSpan(r, base) == base =< r.prio /\ r.prio < base + Span

ownedRuleScopes(cs) ==
    UNION {[base : {c.base}, family : c.families] : c \in cs}

ownedTableTargets(cs) ==
    UNION {[table : {c.vpn, c.safe}, family : c.families] : c \in cs}

sameRulePriorityAsGuard(r, guards) ==
    \E g \in guards : r.family = g.family /\ r.prio = g.prio

----------------------------------------------------------------------------
(* Linux: the walk over rules and tables.  rs is the set of policy rules,   *)
(* tb[t][f] the routes of table t, mn[f] those of main.  The walk takes the *)
(* first rule by priority that matches and decides; a lookup that finds no  *)
(* route falls through.  Two deciding rules of one priority are ordered by  *)
(* insertion, which the model leaves open: Verdicts is the set of verdicts  *)
(* either can give.                                                         *)

Covers(r, p) == r.dst = "default" \/ r.dst = p.dst

Best(rts, p) ==
    LET hit == {r \in rts : Covers(r, p)}
    IN  {r \in hit : r.dst # "default" \/ \A q \in hit : q.dst = "default"}

RouteVerdicts(rts, p, tuns) ==
    UNION {IF r.type # "unicast" THEN {"blocked"}
           ELSE {IF h.dev \in tuns THEN "tun" ELSE "direct" : h \in r.hops}
             : r \in Best(rts, p)}

TableRoutes(t, f, tb, mn) ==
    IF t = MainTable THEN mn[f]
    ELSE IF t \in DOMAIN tb THEN tb[t][f] ELSE {}

Matches(rule, p) ==
    /\ rule.family = p.family
    /\ rule.sel = "all" \/ rule.sel = p.mark

Decides(rule, p, tb, mn) ==
    /\ Matches(rule, p)
    /\ \/ rule.action = "unreachable"
       \/ \E r \in TableRoutes(rule.table, p.family, tb, mn) : Covers(r, p)

RuleVerdicts(rule, p, tb, mn, tuns) ==
    IF rule.action = "unreachable" THEN {"blocked"}
    ELSE RouteVerdicts(TableRoutes(rule.table, p.family, tb, mn), p, tuns)

Verdicts(p, rs, tb, mn, tuns) ==
    LET all   == rs \cup {MkRule(p.family, KernelPrio, "lookup", MainTable, "all")}
        hit   == {r \in all : Decides(r, p, tb, mn)}
        first == {r \in hit : \A q \in hit : r.prio =< q.prio}
    IN  UNION {RuleVerdicts(r, p, tb, mn, tuns) : r \in first}

----------------------------------------------------------------------------
(* The policy itself, stated without rules: what mode and strictness        *)
(* promise about a packet.                                                  *)

\* Some main table could offer a safe route to the packet's destination.
SafeDst(c, p) ==
    \E r \in MainRoute : ClassifySafeRoute(r, c.tun) = "safe" /\ r.dst = p.dst

\* The packet may leave the host outside the tunnel.
MayGoDirect(c, p) ==
    \/ p.family \notin c.families
    \/ p.mark = "app"
    \/ /\ p.family \in effectiveTunnelFamilies(c)
       /\ ~c.strict
       /\ \/ SafeDst(c, p)
          \/ p.mark = "user" /\ c.mode = "exclude"
          \/ p.mark # "user" /\ c.mode = "include"

=============================================================================
