-------------------------- MODULE RoutingInvariant --------------------------
(***************************************************************************)
(* The inductive invariant behind Routing!FailClosed, for managers whose    *)
(* configurations share one priority block (System always uses the block of *)
(* routing.DefaultConfig).  RoutingSafety proves it inductive; a run of     *)
(* MCRouting checks it on an instance.  Then the ones behind OwnedExactly   *)
(* (proved in RoutingProofs) and SafeTableCurrent (in RoutingSafety).       *)
(***************************************************************************)
EXTENDS Routing

\* All configurations use one priority block.
OneBlock == \A c, d \in Config : c.base = d.base

\* Phases of applyDesired from the moment all guards are in place.
Guarded == {"obsolete", "flush", "vpn", "safe", "delRules", "addRules"}

PhasesOf(o) ==
    CASE o = "none" -> {"idle"}
      [] o = "apply" -> {"link", "snapshot", "guard", "unguard"} \cup Guarded
      [] o = "refresh" -> {"guard", "snapshot", "flush", "safe", "unguard"}
      [] o = "begin" -> {"guard"}
      [] o = "rollback" -> {"delRules", "flush"}

\* A call works on a configuration, loops over what its phase computed, and
\* Refresh and beginRouteChange work on the applied one.
CallInv ==
    /\ pc \in PhasesOf(op)
    /\ op # "none" => cfg \in Config /\ todo \subseteq Work(op, pc, cfg, snap)
    /\ op \in {"refresh", "begin"} => cfg = applied
    /\ op = "rollback" => duty = {} /\ torn = "torn"
    /\ op = "apply" /\ pc \in Guarded \cup {"unguard"} => cfg \in duty
    /\ op = "refresh" /\ pc = "unguard" => torn # "torn"

\* Every rule in the kernel is one the compiler or the guard produced.
Compiled(r) == \E c \in Config : \E f \in c.families :
                 r \in compileRules(c, f) \/ r = transitionGuard(c, f)

RulesInv == \A r \in rules : Compiled(r)

\* The guards are in place from the end of the guard phase to the unguard phase.
GuardInv ==
    /\ op = "apply" /\ pc = "guard" =>
         \A g \in transitionGuards(configs(cfg)) : g \in rules \/ g \in todo
    /\ op = "apply" /\ pc \in Guarded => transitionGuards(configs(cfg)) \subseteq rules
    /\ op = "refresh" /\ pc = "guard" =>
         \A g \in transitionGuards({cfg}) : g \in rules \/ g \in todo
    /\ op = "refresh" /\ pc \in {"snapshot", "flush", "safe"} =>
         transitionGuards({cfg}) \subseteq rules

\* The tables hold nothing that leads outside the tunnel but safe routes.
SafeOnly(c, f) ==
    \A r \in table[c.safe][f] : r \in MainRoute /\ ClassifySafeRoute(r, c.tun) = "safe"
TunOnly(c, f) ==
    \A r \in table[c.vpn][f] : r.type = "unicast" /\ \A h \in r.hops : h.dev \in TunLinks

\* The rules of family f are those of c, and possibly the guard.
OnlyRulesOf(c, f) ==
    \A r \in rules : r.family = f => r \in compileRules(c, f) \/ r = transitionGuard(c, f)

\* How far applyDesired has rebuilt family f.
BuildInv ==
    op = "apply" => \A f \in cfg.families :
      /\ pc = "flush" => \A t \in {cfg.vpn, cfg.safe} :
                           [table |-> t, family |-> f] \in todo \/ table[t][f] = {}
      /\ pc \in {"vpn", "safe", "delRules", "addRules", "unguard"} =>
           SafeOnly(cfg, f) /\ TunOnly(cfg, f)
      /\ pc = "delRules" => \/ [base |-> cfg.base, family |-> f] \in todo
                            \/ \A r \in rules : r.family = f => r = transitionGuard(cfg, f)
      /\ pc \in {"addRules", "unguard"} => OnlyRulesOf(cfg, f)
      /\ pc = "addRules" => \A r \in compileRules(cfg, f) : r \in rules \/ r \in todo
      /\ pc = "unguard" => compileRules(cfg, f) \subseteq rules

\* The kernel enforces c in family f.
Enforces(c, f) ==
    /\ compileRules(c, f) \subseteq rules
    /\ OnlyRulesOf(c, f)
    /\ SafeOnly(c, f) /\ TunOnly(c, f)

\* Unless a failed call says otherwise, the applied policy is in the kernel.
AppliedInv ==
    applied # NoConfig /\ torn = "whole" =>
      /\ applied \in duty
      /\ \/ op = "apply" /\ pc \in Guarded \cup {"unguard"}
         \/ \A f \in applied.families : Enforces(applied, f)

\* Every family is behind a guard, or enforced, or outside the policy.
Protected(f) ==
    \/ \E c \in Config : transitionGuard(c, f) \in rules
    \/ \E c \in duty : f \notin c.families \/ Enforces(c, f)

ProtectedInv ==
    duty # {} /\ torn \notin {"bared", "stray"} => \A f \in Family : Protected(f)

\* What holds between any two adapter calls of package routing, whatever fails,
\* changes or crashes: types, call structure, guards, tables and protection.
IInv == TypeOK /\ CallInv /\ RulesInv /\ GuardInv /\ BuildInv /\ AppliedInv /\ ProtectedInv
----------------------------------------------------------------------------
(* The invariant behind OwnedExactly.                                       *)

\* Two priority blocks are the same or do not overlap.  A rule of another block
\* at the priority of a guard would look like the guard when it is listed.
ApartBlocks ==
    \A c, d \in Config :
        c.base = d.base \/ c.base + Span =< d.base \/ d.base + Span =< c.base

\* The configurations that may have state in the kernel: what failed calls left,
\* the applied one, and the one that a call has begun to install or remove.
Own == IF applied = NoConfig THEN {} ELSE {applied}

Holders == litter \cup Own \cup (IF pc \in {"idle", "link", "snapshot"} THEN {} ELSE {cfg})

Made(cs) == (UNION {DesiredRules(c) : c \in cs}) \cup transitionGuards(cs)

\* The tables, per family, that are not empty, and the rules in scopes of cs.
Full == {x \in [table : Tables, family : Family] : table[x.table][x.family] # {}}

Inside(r, s) == r.family = s.family /\ InSpan(r, s.base)

Scoped(cs) == {r \in rules : \E s \in ownedRuleScopes(cs) : Inside(r, s)}

\* Everything in the kernel has a holder, and an Apply sweeps what failed calls left.
HolderInv ==
    /\ rules \subseteq Made(Holders)
    /\ Full \subseteq ownedTableTargets(Holders)
    /\ op = "apply" /\ torn # "stray" => \A l \in litter : Swept(l, configs(cfg))

\* What the loops of Apply and Rollback have swept stays swept.
SweepInv ==
    /\ op = "apply" =>
         /\ pc = "flush" => Full \cap ownedTableTargets(configs(cfg)) \subseteq todo
         /\ pc \in {"vpn", "safe", "delRules", "addRules", "unguard"} =>
              Full \cap ownedTableTargets(configs(cfg)) \subseteq ownedTableTargets({cfg})
         /\ pc = "delRules" =>
              \A s \in ownedRuleScopes(configs(cfg)) \ todo, r \in rules :
                Inside(r, s) => r \in transitionGuards(configs(cfg))
         /\ pc = "addRules" =>
              /\ Scoped(configs(cfg)) \subseteq
                   DesiredRules(cfg) \cup transitionGuards(configs(cfg))
              /\ DesiredRules(cfg) \subseteq rules \cup todo
         /\ pc = "unguard" =>
              /\ Scoped(configs(cfg)) \subseteq DesiredRules(cfg) \cup todo
              /\ DesiredRules(cfg) \subseteq rules
    /\ op = "rollback" /\ ~failed =>
         /\ pc = "delRules" =>
              \A s \in ownedRuleScopes(configs(cfg)) \ todo, r \in rules : ~Inside(r, s)
         /\ pc = "flush" => /\ Scoped(configs(cfg)) = {}
                            /\ Full \cap ownedTableTargets(configs(cfg)) \subseteq todo

\* Unless a failed call says otherwise the rules are the applied ones, and guards.
ExactInv ==
    applied # NoConfig /\ torn = "whole" =>
      \/ op = "apply" /\ pc \in Guarded \cup {"unguard"}
      \/ /\ DesiredRules(applied) \subseteq rules
         /\ rules \subseteq DesiredRules(applied) \cup transitionGuards(Holders)

\* What is in the kernel between any two adapter calls belongs to a configuration
\* that is applied, being changed, or that a failed call has left.
OwnInv == HolderInv /\ SweepInv /\ ExactInv
----------------------------------------------------------------------------
(* The invariant behind SafeTableCurrent.                                   *)

\* A change of main has still to reach the tables: its event waits, or the
\* subscription is down, or the monitor remembers it.  The refresh that the
\* monitor runs forgets what was pending when it returns.
Told ==
    \/ events > 0 \/ sub # "live"
    \/ ~(op = "refresh" /\ owner = "monitor") /\ (pending \/ monPc # "select")

\* What the monitor is doing, and that it remembers a change while unsubscribed.
MonitorInv ==
    /\ sub = "none" => pending \/ monPc = "exit"
    /\ monPc \in {"begin", "refresh"} => pending
    /\ monPc = "refresh" => sub # "none"
    /\ op \in {"none", "apply", "rollback"} => owner = "caller"
    /\ op = "begin" => owner = "monitor" /\ monPc = "begin"
    /\ op = "refresh" /\ owner = "monitor" => monPc = "refresh"

Current(c, f) == table[c.safe][f] = SafeRoutes(c, main[f])

\* The phases that use snapshotMain's result.
HasSnapshot ==
    \/ op = "apply" /\ pc \in {"guard"} \cup Guarded
    \/ op = "refresh" /\ pc \in {"flush", "safe"}

\* How far the call has brought family f of its safe table up to date.
BroughtUp(f) ==
    /\ pc = "snapshot" => f \in todo \/ snap[f] = main[f]
    /\ HasSnapshot => snap[f] = main[f]
    /\ pc = "flush" /\ ~(op = "refresh" /\ failed) =>
         [table |-> cfg.safe, family |-> f] \in todo \/ table[cfg.safe][f] = {}
    /\ pc = "vpn" => table[cfg.safe][f] = {}
    /\ pc = "safe" =>
         /\ table[cfg.safe][f] \subseteq SafeRoutes(cfg, main[f])
         /\ \A r \in SafeRoutes(cfg, main[f]) :
              r \in table[cfg.safe][f] \/ [family |-> f, route |-> r] \in todo
    /\ pc \in {"delRules", "addRules", "unguard"} => Current(cfg, f)

\* Unless a change is still to come, Apply and Refresh work on what main holds.
WorkInv ==
    op \in {"apply", "refresh"} /\ ~Told => \A f \in cfg.families : BroughtUp(f)

\* The applied state that the monitor looks after and that no failed call touched.
Tended ==
    /\ applied # NoConfig /\ applied \notin litter /\ torn = "whole" /\ ~closed
    /\ op = "none" \/ (op = "apply" /\ pc \in {"link", "snapshot", "guard"})

\* Unless a change is still to come, the applied safe table is what main holds.
TendedInv ==
    Tended /\ ~Told => applied.strict \/ \A f \in applied.families : Current(applied, f)

\* No change of main is lost between the kernel, the monitor and the tables.
CurrentInv == MonitorInv /\ WorkInv /\ TendedInv
=============================================================================
