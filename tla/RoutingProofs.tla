--------------------------- MODULE RoutingProofs ---------------------------
(***************************************************************************)
(* Proofs about Routing: facts about the compiler of policies; TypeOK,     *)
(* which is inductive together with RoutingInvariant!CallInv, the shape of *)
(* a call in progress; the promises of Close, by an invariant of their     *)
(* own; and ownership of rules and tables, by RoutingInvariant!OwnInv.     *)
(***************************************************************************)
EXTENDS RoutingInvariant, TLAPS

----------------------------------------------------------------------------
(* Facts about the compiler. *)

\* The fields of a validated configuration.
LEMMA ConfigFields ==
    ASSUME NEW c \in Config
    PROVE  /\ c.tun \in Nat /\ c.vpn \in Nat /\ c.safe \in Nat /\ c.base \in Nat
           /\ c.vpn # MainTable /\ c.safe # MainTable /\ c.vpn # c.safe
           /\ c.base + 32 =< KernelPrio
           /\ c.families \subseteq Family /\ c.strict \in BOOLEAN
           /\ c.mode \in {"exclude", "include"}
           /\ effectiveTunnelFamilies(c) \subseteq c.families
           /\ c # NoConfig
  <1>1. ValidConfig(c) /\ c # NoConfig
    BY ConfigAssumption
  <1>2. c.strict \in BOOLEAN /\ c.mode \in {"exclude", "include"} /\ c.vpn # c.safe
    BY <1>1, Zenon DEF ValidConfig
  <1>3. /\ c.tun \in Nat /\ c.vpn \in Nat /\ c.safe \in Nat /\ c.base \in Nat
        /\ c.vpn # MainTable /\ c.safe # MainTable
        /\ c.base + 32 =< KernelPrio
    BY <1>1, SMT DEF ValidConfig, Span
  <1>4. c.families \subseteq Family /\ effectiveTunnelFamilies(c) \subseteq c.families
    BY <1>1, SMT DEF ValidConfig, effectiveTunnelFamilies
  <1>. QED
    BY <1>1, <1>2, <1>3, <1>4, Zenon

\* Every rule compileRules emits belongs to the family it was asked for, lies
\* in the block at or after the base, and leaves the guard's slot free; what
\* lies before the guard's slot only matches the application mark.
LEMMA CompiledShape ==
    ASSUME NEW c \in Config, NEW f, NEW r \in compileRules(c, f)
    PROVE  /\ r.family = f
           /\ r.prio \in Nat /\ c.base =< r.prio /\ r.prio < c.base + Span
           /\ r.prio # c.base + 2
           /\ r.prio < c.base + 2 => r.sel = "app"
           /\ r.prio > c.base + 2 => r.sel \in {"all", "user"}
  <1>. c.base \in Nat
    BY ConfigFields
  <1>1. CASE r \in AppRules(c, f)
    BY <1>1 DEF AppRules, MkRule, Span
  <1>2. CASE r \in UserRules(c, f)
    BY <1>2 DEF UserRules, MkRule, Span
  <1>. QED
    BY <1>1, <1>2 DEF compileRules

\* Where exclude mode sends a packet without the user mark.
LEMMA ExcludeLookups ==
    ASSUME NEW c \in Config, NEW f \in effectiveTunnelFamilies(c), NEW r \in UserRules(c, f),
           c.mode = "exclude", ~c.strict, r.action # "unreachable", r.sel # "user"
    PROVE  r.action = "lookup" /\ r.table \in {c.vpn, c.safe}
  BY DEF UserRules, MkRule

\* What compileRules produces are rules.
LEMMA CompiledType ==
    ASSUME NEW c \in Config, NEW f \in c.families
    PROVE  compileRules(c, f) \subseteq Rule
  <1>. /\ c.base \in Nat /\ c.vpn \in Nat /\ c.safe \in Nat
       /\ f \in Family
    BY ConfigFields
  <1>1. AppRules(c, f) \subseteq Rule
    BY DEF AppRules, MkRule, Rule, MainTable, NoTable
  <1>2. UserRules(c, f) \subseteq Rule
    BY DEF UserRules, MkRule, Rule, MainTable, NoTable
  <1>. QED
    BY <1>1, <1>2 DEF compileRules

\* transitionGuard produces a rule, and never one of the compiled ones.
LEMMA GuardType ==
    ASSUME NEW c \in Config, NEW f \in c.families
    PROVE  /\ transitionGuard(c, f) \in Rule
           /\ transitionGuard(c, f) \notin compileRules(c, f)
  BY ConfigFields, CompiledShape DEF transitionGuard, MkRule, Rule, NoTable

\* No guard is among the rules its configuration wants.
LEMMA GuardNotDesired ==
    ASSUME NEW c \in Config, NEW f \in c.families
    PROVE  transitionGuard(c, f) \notin DesiredRules(c)
  <1>1. c.base \in Nat /\ transitionGuard(c, f).prio = c.base + 2
    BY ConfigFields DEF transitionGuard, MkRule
  <1>. QED
    BY <1>1, CompiledShape DEF DesiredRules

\* More configurations own more.
LEMMA OwnMore ==
    ASSUME NEW cs, NEW ds, cs \subseteq ds
    PROVE  /\ Made(cs) \subseteq Made(ds)
           /\ transitionGuards(cs) \subseteq transitionGuards(ds)
           /\ ownedTableTargets(cs) \subseteq ownedTableTargets(ds)
           /\ ownedRuleScopes(cs) \subseteq ownedRuleScopes(ds)
  <1>1. transitionGuards(cs) \subseteq transitionGuards(ds)
    BY Zenon DEF transitionGuards
  <1>2. ownedTableTargets(cs) \subseteq ownedTableTargets(ds)
    BY Zenon DEF ownedTableTargets
  <1>3. ownedRuleScopes(cs) \subseteq ownedRuleScopes(ds)
    BY Zenon DEF ownedRuleScopes
  <1>4. Made(cs) \subseteq Made(ds)
    BY <1>1, Zenon DEF Made
  <1>. QED
    BY <1>1, <1>2, <1>3, <1>4

\* What is owned by several is owned by one of them.
LEMMA OwnedByOne ==
    ASSUME NEW cs
    PROVE  /\ \A r \in Made(cs) : \E c \in cs : r \in Made({c})
           /\ \A x \in ownedTableTargets(cs) : \E c \in cs : x \in ownedTableTargets({c})
  <1>1. ASSUME NEW r \in Made(cs) PROVE \E c \in cs : r \in Made({c})
    <2>1. CASE r \in transitionGuards(cs)
      <3>1. PICK c \in cs : r \in {transitionGuard(c, f) : f \in c.families}
        BY <2>1, Zenon DEF transitionGuards
      <3>2. r \in transitionGuards({c})
        BY <3>1 DEF transitionGuards
      <3>3. r \in Made({c})
        BY <3>2 DEF Made
      <3>. QED
        BY <3>3
    <2>2. CASE r \in UNION {DesiredRules(c) : c \in cs}
      <3>1. PICK c \in cs : r \in DesiredRules(c)
        BY <2>2, Zenon
      <3>2. r \in UNION {DesiredRules(d) : d \in {c}}
        BY <3>1
      <3>3. r \in Made({c})
        BY <3>2 DEF Made
      <3>. QED
        BY <3>3
    <2>3. r \in transitionGuards(cs) \/ r \in UNION {DesiredRules(c) : c \in cs}
      BY DEF Made
    <2>. QED
      BY <2>1, <2>2, <2>3, Zenon
  <1>2. ASSUME NEW x \in ownedTableTargets(cs) PROVE \E c \in cs : x \in ownedTableTargets({c})
    BY <1>2, Zenon DEF ownedTableTargets
  <1>. QED
    BY <1>1, <1>2, Zenon

\* A rule that a configuration makes lies in one of its scopes.
LEMMA MadeInside ==
    ASSUME NEW c \in Config, NEW r \in Made({c})
    PROVE  /\ r \in Rule
           /\ \E f \in c.families : r \in compileRules(c, f) \/ r = transitionGuard(c, f)
           /\ \E s \in ownedRuleScopes({c}) : Inside(r, s)
  <1>1. PICK f \in c.families : r \in compileRules(c, f) \/ r = transitionGuard(c, f)
    <2>1. CASE r \in transitionGuards({c})
      BY <2>1 DEF transitionGuards
    <2>2. CASE r \in UNION {DesiredRules(d) : d \in {c}}
      <3>1. r \in DesiredRules(c)
        BY <2>2
      <3>. QED
        BY <3>1, Zenon DEF DesiredRules
    <2>3. r \in transitionGuards({c}) \/ r \in UNION {DesiredRules(d) : d \in {c}}
      BY DEF Made
    <2>. QED
      BY <2>1, <2>2, <2>3, Zenon
  <1>2. r \in Rule
    BY <1>1, CompiledType, GuardType, Zenon
  <1>3. r.family = f /\ InSpan(r, c.base)
    <2>1. c.base \in Nat
      BY ConfigFields
    <2>2. CASE r \in compileRules(c, f)
      BY <2>1, <2>2, CompiledShape DEF InSpan
    <2>3. CASE r = transitionGuard(c, f)
      BY <2>1, <2>3, SMTT(30) DEF InSpan, transitionGuard, MkRule, Span
    <2>. QED
      BY <1>1, <2>2, <2>3
  <1>4. [base |-> c.base, family |-> f] \in ownedRuleScopes({c})
    BY DEF ownedRuleScopes
  <1>. QED
    BY <1>1, <1>2, <1>3, <1>4, Zenon DEF Inside

\* Among rules of blocks that are apart the sweep spares nothing but guards.
LEMMA KeptAreGuards ==
    ASSUME ApartBlocks, NEW cs \in SUBSET Config, NEW d \in Config, NEW r \in Made({d}),
           keepListed(r, transitionGuards(cs))
    PROVE  r \in transitionGuards(cs)
  <1>1. PICK k \in transitionGuards(cs) :
          listedRule(r) = k \/ listedRule(r) = listedRule(k)
    BY Zenon DEF keepListed, keepRule
  <1>11. PICK e \in cs : \E h \in e.families : k = transitionGuard(e, h)
    BY Zenon DEF transitionGuards
  <1>2. PICK g \in e.families : k = transitionGuard(e, g)
    BY <1>11
  <1>3. r \in Rule /\ \E f \in d.families : r \in compileRules(d, f) \/ r = transitionGuard(d, f)
    BY MadeInside, Zenon
  <1>4. PICK f \in d.families : r \in compileRules(d, f) \/ r = transitionGuard(d, f)
    BY <1>3, Zenon
  <1>5. k \in Rule /\ k.prio = e.base + 2 /\ k.family = g
    BY <1>2, GuardType, Zenon DEF transitionGuard, MkRule
  <1>6. r.prio = e.base + 2 /\ r.family = g
    <2>1. /\ listedRule(r).prio = r.prio /\ listedRule(k).prio = k.prio
          /\ listedRule(r).family = r.family /\ listedRule(k).family = k.family
      BY <1>3, <1>5 DEF listedRule, Rule
    <2>. QED
      BY <1>1, <1>5, <2>1, Zenon
  <1>7. r.family = f
    BY <1>4, CompiledShape DEF transitionGuard, MkRule
  <1>8. /\ d.base =< r.prio /\ r.prio < d.base + Span
        /\ r.prio = d.base + 2 => r = transitionGuard(d, f)
    <2>1. d.base \in Nat
      BY ConfigFields
    <2>2. CASE r \in compileRules(d, f)
      BY <2>2, CompiledShape, Zenon
    <2>3. CASE r = transitionGuard(d, f)
      BY <2>1, <2>3, SMTT(30) DEF transitionGuard, MkRule, Span
    <2>. QED
      BY <1>4, <2>2, <2>3, Zenon
  <1>9. d.base = e.base
    <2>1. d.base \in Nat /\ e.base \in Nat
      BY ConfigFields
    <2>2. d.base = e.base \/ d.base + Span =< e.base \/ e.base + Span =< d.base
      BY DEF ApartBlocks
    <2>. QED
      BY <1>6, <1>8, <2>1, <2>2, SMTT(30) DEF Span
  <1>10. r = k
    BY <1>2, <1>6, <1>7, <1>8, <1>9, Zenon DEF transitionGuard
  <1>. QED
    BY <1>10

----------------------------------------------------------------------------
(* Facts about the kernel's walk. *)

\* The rule that decides a packet's verdict matches it, and nothing that
\* decides comes before it.
LEMMA Decider ==
    ASSUME NEW p \in Packet, NEW v \in Verdict(p)
    PROVE  \E r \in rules \cup {MkRule(p.family, KernelPrio, "lookup", MainTable, "all")} :
             /\ v \in RuleVerdicts(r, p, table, main, TunLinks)
             /\ Matches(r, p)
             /\ \A q \in rules : Decides(q, p, table, main) => r.prio =< q.prio
  BY DEF Verdict, Verdicts, Decides

\* A rule that answers unreachable decides every packet it matches.
LEMMA UnreachableDecides ==
    ASSUME NEW r, NEW p, Matches(r, p), r.action = "unreachable"
    PROVE  /\ Decides(r, p, table, main)
           /\ RuleVerdicts(r, p, table, main, TunLinks) = {"blocked"}
  BY DEF Decides, RuleVerdicts

\* A verdict of a table comes from one of its routes that cover the packet.
LEMMA RouteDecides ==
    ASSUME NEW rts, NEW p, "direct" \in RouteVerdicts(rts, p, TunLinks)
    PROVE  \E r \in rts : /\ Covers(r, p)
                          /\ r.type = "unicast"
                          /\ \E h \in r.hops : h.dev \notin TunLinks
  <1>1. PICK r \in Best(rts, p) :
          "direct" \in IF r.type # "unicast" THEN {"blocked"}
                       ELSE {IF h.dev \in TunLinks THEN "tun" ELSE "direct" : h \in r.hops}
    BY DEF RouteVerdicts
  <1>2. r \in rts /\ Covers(r, p)
    BY DEF Best
  <1>3. r.type = "unicast"
    BY <1>1
  <1>4. PICK h \in r.hops : "direct" = IF h.dev \in TunLinks THEN "tun" ELSE "direct"
    BY <1>1, <1>3
  <1>. QED
    BY <1>2, <1>3, <1>4

\* A lookup in an owned table finds what the manager wrote there, never main.
LEMMA OwnedTable ==
    ASSUME TypeOK, NEW c \in Config, NEW f
    PROVE  /\ TableRoutes(c.safe, f, table, main) = table[c.safe][f]
           /\ TableRoutes(c.vpn, f, table, main) = table[c.vpn][f]
  <1>1. c.safe \in Tables /\ c.vpn \in Tables
    BY DEF Tables
  <1>2. DOMAIN table = Tables
    BY DEF TypeOK
  <1>. QED
    BY <1>1, <1>2, ConfigFields DEF TableRoutes

\* A rule that looks up the VPN table never sends a packet outside the tunnel.
LEMMA VPNLookup ==
    ASSUME TypeOK, NEW c \in Config, NEW p, TunOnly(c, p.family),
           NEW r, r.action = "lookup", r.table = c.vpn
    PROVE  "direct" \notin RuleVerdicts(r, p, table, main, TunLinks)
  <1>1. RuleVerdicts(r, p, table, main, TunLinks) =
          RouteVerdicts(table[c.vpn][p.family], p, TunLinks)
    BY OwnedTable DEF RuleVerdicts
  <1>2. \A x \in table[c.vpn][p.family] : \A h \in x.hops : h.dev \in TunLinks
    BY DEF TunOnly
  <1>. QED
    BY <1>1, <1>2, RouteDecides

\* A rule that looks up the safe table sends only safe destinations outside.
LEMMA SafeLookup ==
    ASSUME TypeOK, NEW c \in Config, NEW p, SafeOnly(c, p.family),
           NEW r, r.action = "lookup", r.table = c.safe,
           "direct" \in RuleVerdicts(r, p, table, main, TunLinks)
    PROVE  SafeDst(c, p)
  <1>1. "direct" \in RouteVerdicts(table[c.safe][p.family], p, TunLinks)
    BY OwnedTable DEF RuleVerdicts
  <1>2. PICK x \in table[c.safe][p.family] : Covers(x, p)
    BY <1>1, RouteDecides
  <1>3. x \in MainRoute /\ ClassifySafeRoute(x, c.tun) = "safe"
    BY DEF SafeOnly
  <1>4. x.dst = p.dst
    BY <1>2, <1>3 DEF Covers, ClassifySafeRoute
  <1>. QED
    BY <1>3, <1>4 DEF SafeDst

\* Behind a transition guard nothing but application traffic leaves directly,
\* whatever else is in the block.
LEMMA GuardBlocks ==
    ASSUME OneBlock, RulesInv, NEW c \in Config, NEW p \in Packet,
           transitionGuard(c, p.family) \in rules, p.mark # "app"
    PROVE  "direct" \notin Verdict(p)
  <1>. SUFFICES ASSUME "direct" \in Verdict(p) PROVE FALSE
    OBVIOUS
  <1>. DEFINE g == transitionGuard(c, p.family)
  <1>1. PICK r \in rules \cup {MkRule(p.family, KernelPrio, "lookup", MainTable, "all")} :
             /\ "direct" \in RuleVerdicts(r, p, table, main, TunLinks)
             /\ Matches(r, p)
             /\ \A q \in rules : Decides(q, p, table, main) => r.prio =< q.prio
    BY Decider
  <1>2. Matches(g, p) /\ g.action = "unreachable" /\ g.prio = c.base + 2
    BY DEF Matches, transitionGuard, MkRule
  <1>3. r.prio =< c.base + 2
    BY <1>1, <1>2, UnreachableDecides
  <1>4. r \in rules
    <2>1. c.base + 2 < KernelPrio
      BY ConfigFields DEF KernelPrio
    <2>2. MkRule(p.family, KernelPrio, "lookup", MainTable, "all").prio = KernelPrio
      BY DEF MkRule
    <2>. QED
      BY <1>1, <1>3, <2>1, <2>2, ConfigFields DEF KernelPrio
  <1>5. PICK d \in Config, e \in Family : r \in compileRules(d, e) \/ r = transitionGuard(d, e)
    BY <1>4, ConfigFields DEF RulesInv, Compiled
  <1>6. d.base = c.base
    BY DEF OneBlock
  <1>7. CASE r = transitionGuard(d, e)
    <2>1. r.action = "unreachable"
      BY <1>7 DEF transitionGuard, MkRule
    <2>. QED
      BY <2>1, <1>1, UnreachableDecides
  <1>8. CASE r \in compileRules(d, e)
    <2>1. r.sel = "app"
      BY <1>8, <1>3, <1>6, CompiledShape, ConfigFields
    <2>. QED
      BY <2>1, <1>1 DEF Matches
  <1>. QED
    BY <1>5, <1>7, <1>8

\* Where the kernel enforces c, a packet leaves outside the tunnel only if the
\* mode and the strictness of c allow it.
LEMMA EnforcedPolicy ==
    ASSUME TypeOK, NEW c \in Config, NEW p \in Packet, p.family \in c.families,
           Enforces(c, p.family), "direct" \in Verdict(p)
    PROVE  MayGoDirect(c, p)
  <1>. SUFFICES ASSUME p.mark # "app" PROVE MayGoDirect(c, p)
    BY DEF MayGoDirect
  <1>. DEFINE f == p.family
              last == MkRule(f, KernelPrio, "lookup", MainTable, "all")
  <1>1. PICK r \in rules \cup {last} :
             /\ "direct" \in RuleVerdicts(r, p, table, main, TunLinks)
             /\ Matches(r, p)
             /\ \A q \in rules : Decides(q, p, table, main) => r.prio =< q.prio
    BY Decider
  <1>2. r.action # "unreachable"
    BY <1>1, UnreachableDecides
  <1>3. r \in compileRules(c, f) \/ r = last
    <2>1. r.family = f
      BY <1>1 DEF Matches
    <2>2. transitionGuard(c, f).action = "unreachable"
      BY DEF transitionGuard, MkRule
    <2>. QED
      BY <1>1, <1>2, <2>1, <2>2 DEF Enforces, OnlyRulesOf
  <1>4. ASSUME NEW i \in Nat, i < 32, NEW s \in {"all", p.mark},
               MkRule(f, c.base + i, "unreachable", NoTable, s) \in compileRules(c, f)
        PROVE  r \in compileRules(c, f) /\ r.prio =< c.base + i
    <2>. DEFINE u == MkRule(f, c.base + i, "unreachable", NoTable, s)
    <2>1. u \in rules
      BY <1>4 DEF Enforces
    <2>2. Matches(u, p) /\ u.action = "unreachable" /\ u.prio = c.base + i
      BY DEF Matches, MkRule
    <2>3. r.prio =< c.base + i
      BY <1>1, <2>1, <2>2, UnreachableDecides
    <2>4. last.prio = KernelPrio
      BY DEF MkRule
    <2>5. r # last
      BY <2>3, <2>4, <1>4, ConfigFields DEF KernelPrio
    <2>. QED
      BY <1>3, <2>3, <2>5
  <1>5. r \in AppRules(c, f) => FALSE
    BY <1>1 DEF AppRules, MkRule, Matches
  <1>. USE ConfigFields DEF NoTable
  <1>6. CASE f \notin effectiveTunnelFamilies(c)
    <2>1. MkRule(f, c.base + 3, "unreachable", NoTable, "all") \in compileRules(c, f)
      BY <1>6 DEF compileRules, UserRules, MkRule
    <2>2. r \in UserRules(c, f)
      BY <2>1, <1>4, <1>5 DEF compileRules
    <2>. QED
      BY <2>2, <1>6, <1>2 DEF UserRules, MkRule
  <1>7. CASE f \in effectiveTunnelFamilies(c) /\ c.mode = "exclude" /\ c.strict
    <2>1. MkRule(f, c.base + 5, "unreachable", NoTable, "all") \in compileRules(c, f)
      BY <1>7 DEF compileRules, UserRules, MkRule
    <2>2. r \in UserRules(c, f)
      BY <2>1, <1>4, <1>5 DEF compileRules
    <2>3. r.action = "lookup" /\ r.table = c.vpn
      BY <2>2, <1>7, <1>2 DEF UserRules, MkRule
    <2>. QED
      BY <2>3, <1>1, VPNLookup DEF Enforces
  <1>8. CASE f \in effectiveTunnelFamilies(c) /\ c.mode = "exclude" /\ ~c.strict
    <2>. SUFFICES ASSUME p.mark # "user" PROVE SafeDst(c, p)
      BY <1>8 DEF MayGoDirect
    <2>1. MkRule(f, c.base + 7, "unreachable", NoTable, "all") \in compileRules(c, f)
      BY <1>8 DEF compileRules, UserRules, MkRule
    <2>2. r \in UserRules(c, f)
      BY <2>1, <1>4, <1>5 DEF compileRules
    <2>3. r.sel # "user"
      BY <1>1 DEF Matches
    <2>4. r.action = "lookup" /\ r.table \in {c.vpn, c.safe}
      BY <2>2, <2>3, <1>8, <1>2, ExcludeLookups, Zenon
    <2>. QED
      BY <2>4, <1>1, VPNLookup, SafeLookup, Zenon DEF Enforces
  <1>9. CASE f \in effectiveTunnelFamilies(c) /\ c.mode = "include" /\ c.strict
    <2>1. MkRule(f, c.base + 5, "unreachable", NoTable, "all") \in compileRules(c, f)
      BY <1>9 DEF compileRules, UserRules, MkRule
    <2>2. r \in UserRules(c, f)
      BY <2>1, <1>4, <1>5 DEF compileRules
    <2>3. r.action = "lookup" /\ r.table = c.vpn
      BY <2>2, <1>9, <1>2 DEF UserRules, MkRule
    <2>. QED
      BY <2>3, <1>1, VPNLookup DEF Enforces
  <1>10. CASE f \in effectiveTunnelFamilies(c) /\ c.mode = "include" /\ ~c.strict
    <2>. SUFFICES ASSUME p.mark = "user" PROVE SafeDst(c, p)
      BY <1>10 DEF MayGoDirect
    <2>1. MkRule(f, c.base + 5, "unreachable", NoTable, "user") \in compileRules(c, f)
      BY <1>10, SMTT(30) DEF compileRules, UserRules, MkRule
    <2>2. r \in UserRules(c, f) /\ r.prio =< c.base + 5
      BY <2>1, <1>4, <1>5 DEF compileRules
    <2>4. r.action = "lookup" /\ r.table \in {c.vpn, c.safe}
      BY <2>2, <1>10, <1>2 DEF UserRules, MkRule
    <2>. QED
      BY <2>4, <1>1, VPNLookup, SafeLookup DEF Enforces
  <1>. QED
    BY <1>6, <1>7, <1>8, <1>9, <1>10

\* FailClosed follows from the inductive invariant.
LEMMA InvImpliesFailClosed ==
    ASSUME OneBlock, IInv
    PROVE  FailClosed
  <1>. SUFFICES ASSUME torn \notin {"bared", "stray"}, duty # {},
                       NEW p \in Packet, "direct" \in Verdict(p)
                PROVE  \E c \in duty : MayGoDirect(c, p)
    BY DEF FailClosed, NoLeak
  <1>1. duty \subseteq Config /\ p.family \in Family
    BY DEF IInv, TypeOK, Packet
  <1>2. Protected(p.family)
    BY <1>1 DEF IInv, ProtectedInv
  <1>3. CASE p.mark = "app"
    BY <1>3 DEF MayGoDirect
  <1>4. CASE p.mark # "app" /\ \E c \in Config : transitionGuard(c, p.family) \in rules
    BY <1>4, GuardBlocks DEF IInv
  <1>5. CASE \E c \in duty : p.family \notin c.families \/ Enforces(c, p.family)
    BY <1>5, <1>1, EnforcedPolicy DEF IInv, MayGoDirect
  <1>. QED
    BY <1>2, <1>3, <1>4, <1>5 DEF Protected

----------------------------------------------------------------------------
(* What the loops range over. *)

\* The list `configs' of Apply and Rollback holds valid configurations.
LEMMA ConfigsOf ==
    ASSUME TypeOK, NEW c \in Config
    PROVE  configs(c) \subseteq Config /\ c \in configs(c)
  BY DEF configs, TypeOK

\* Transition guards are rules.
LEMMA GuardsAreRules ==
    ASSUME NEW cs \in SUBSET Config
    PROVE  transitionGuards(cs) \subseteq Rule
  BY GuardType DEF transitionGuards

\* The guard and addRules loops go over rules.
LEMMA RuleWork ==
    ASSUME TypeOK, NEW c \in Config, NEW o, NEW rts
    PROVE  Work(o, "guard", c, rts) \subseteq Rule /\ Work(o, "addRules", c, rts) \subseteq Rule
  <1>1. Work(o, "guard", c, rts) \subseteq Rule
    BY ConfigsOf, GuardsAreRules DEF Work
  <1>2. Work(o, "addRules", c, rts) \subseteq Rule
    BY CompiledType DEF Work, DesiredRules
  <1>. QED
    BY <1>1, <1>2

\* The flush loop goes over owned tables.
LEMMA FlushWork ==
    ASSUME TypeOK, NEW c \in Config, NEW o, NEW rts, NEW t \in Work(o, "flush", c, rts)
    PROVE  t.table \in Tables /\ t.family \in Family
  <1>1. CASE o = "refresh"
    BY <1>1, ConfigFields DEF Work, Tables
  <1>2. CASE o # "refresh"
    <2>1. PICK d \in configs(c) : t \in [table : {d.vpn, d.safe}, family : d.families]
      BY <1>2 DEF Work, ownedTableTargets
    <2>. QED
      BY <2>1, ConfigsOf, ConfigFields DEF Tables
  <1>. QED
    BY <1>1, <1>2

\* Every route of the VPN loop is a unicast route over the TUN.
LEMMA VPNWork ==
    ASSUME NEW c \in Config, NEW o, NEW rts, NEW x \in Work(o, "vpn", c, rts)
    PROVE  /\ x.family \in Family
           /\ x.route \in Route
           /\ x.route.type = "unicast" /\ \A h \in x.route.hops : h.dev = c.tun
  <1>1. PICK f \in c.families : x.family = f /\ x.route \in VPNRoutes(c, f)
    BY DEF Work
  <1>2. ValidConfig(c)
    BY ConfigAssumption
  <1>3. PICK d : /\ d \in {"default"} \cup {s.dst : s \in {y \in c.sources : y.family = f}}
                 /\ x.route = TunRoute(c, d)
    BY <1>1 DEF VPNRoutes
  <1>4. d \in Prefix
    BY <1>2, <1>3 DEF ValidConfig, Prefix
  <1>. QED
    BY <1>1, <1>3, <1>4, ConfigFields DEF TunRoute, Route, Hop

\* Every route of the safe loop comes from main and was classified safe.
LEMMA SafeWork ==
    ASSUME NEW c \in Config, NEW o, NEW rts \in [Family -> SUBSET MainRoute],
           NEW x \in Work(o, "safe", c, rts)
    PROVE  /\ x.family \in Family
           /\ x.route \in Route
           /\ x.route \in MainRoute /\ ClassifySafeRoute(x.route, c.tun) = "safe"
  <1>1. PICK f \in c.families : x.family = f /\ x.route \in SafeRoutes(c, rts[f])
    BY DEF Work
  <1>. QED
    BY <1>1, ConfigFields, MainRouteAssumption DEF SafeRoutes

----------------------------------------------------------------------------
(* Types and the shape of a call. *)

\* TypeOK without the kernel, the closers and the budget.
CallTypes ==
    /\ applied \in Config \cup {NoConfig}
    /\ op \in {"none", "apply", "refresh", "begin", "rollback"}
    /\ owner \in {"caller", "monitor"}
    /\ pc \in {"idle", "link", "guard", "snapshot", "obsolete", "flush", "vpn", "safe",
               "delRules", "addRules", "unguard"}
    /\ cfg \in Config \cup {NoConfig}
    /\ snap \in [Family -> SUBSET MainRoute]
    /\ failed \in BOOLEAN
    /\ monPc \in {"select", "begin", "refresh", "exit"}
    /\ pending \in BOOLEAN /\ timer \in BOOLEAN
    /\ sub \in {"live", "closed", "none"}
    /\ events \in Nat
    /\ duty \subseteq Config
    /\ torn \in {"whole", "torn", "bared", "stray"}
    /\ litter \subseteq Config

OtherTypes ==
    /\ rules \subseteq Rule
    /\ table \in [Tables -> [Family -> SUBSET Route]]
    /\ main \in [Family -> SUBSET MainRoute]
    /\ links \subseteq TunLinks
    /\ closed \in BOOLEAN /\ adapterOpen \in BOOLEAN
    /\ closePc \in [Closer -> {"open", "waitMonitor", "waitDone", "done"}]
    /\ budget \in [{"call", "fail", "change", "crash"} -> Nat]

\* TypeOK splits into what a call changes and the rest.
LEMMA TypeParts == TypeOK <=> CallTypes /\ OtherTypes
  BY DEF TypeOK, CallTypes, OtherTypes

\* Spending keeps the bounds natural numbers.
LEMMA SpendTypes ==
    ASSUME OtherTypes, NEW b \in {"call", "fail", "change", "crash"}, Spend(b)
    PROVE  budget' \in [{"call", "fail", "change", "crash"} -> Nat]
  BY DEF OtherTypes, Spend

\* The return of an operation keeps types and call structure.
LEMMA FinishTypes ==
    ASSUME CallTypes, CallInv, op # "none", NEW ok \in BOOLEAN, Finish(ok)
    PROVE  CallTypes' /\ CallInv'
  <1>1. cfg \in Config
    BY DEF CallInv
  <1>2. /\ op' = "none" /\ owner' = "caller" /\ pc' = "idle" /\ cfg' = NoConfig
        /\ snap' = NoRoutes /\ failed' = FALSE
    BY DEF Finish
  <1>3. applied' \in Config \cup {NoConfig}
    BY <1>1 DEF Finish, CallTypes
  <1>4. duty' \subseteq Config /\ torn' \in {"whole", "torn", "bared", "stray"}
    BY <1>1, Zenon DEF Finish, Record, CallTypes, history
  <1>5. configs(cfg) \subseteq Config
    BY <1>1 DEF configs, CallTypes
  <1>6. litter' \subseteq Config
    BY <1>1, <1>5 DEF Finish, Record, CallTypes, history
  <1>7. /\ monPc' \in {"select", "begin", "refresh", "exit"}
        /\ pending' \in BOOLEAN /\ timer' \in BOOLEAN
        /\ sub' \in {"live", "closed", "none"} /\ events' \in Nat
    BY Zenon DEF Finish, CallTypes
  <1>8. NoRoutes \in [Family -> SUBSET MainRoute]
    BY DEF NoRoutes
  <1>9. CallTypes'
    BY <1>2, <1>3, <1>4, <1>6, <1>7, <1>8, Zenon DEF CallTypes
  <1>10. CallInv'
    BY <1>2 DEF CallInv, PhasesOf
  <1>. QED
    BY <1>9, <1>10

\* The start of an operation keeps types and call structure.
LEMMA StartTypes ==
    ASSUME CallTypes, NEW c \in Config,
           NEW o \in {"apply", "refresh", "begin", "rollback"},
           NEW w \in {"caller", "monitor"}, NEW p \in {"link", "guard", "delRules"},
           Start(o, w, p, c)
    PROVE  /\ op' = o /\ pc' = p /\ cfg' = c
           /\ op' \in {"none", "apply", "refresh", "begin", "rollback"}
           /\ owner' \in {"caller", "monitor"}
           /\ pc' \in {"link", "guard", "delRules"}
           /\ cfg' \in Config
           /\ snap' \in [Family -> SUBSET MainRoute]
           /\ failed' \in BOOLEAN
           /\ todo' = Work(o, p, c, NoRoutes)
  BY Zenon DEF Start, NoRoutes

\* A step inside a loop.
LEMMA LoopKeepsCallInv ==
    ASSUME CallInv, UNCHANGED <<op, pc, cfg, applied, duty, torn>>,
           todo' \subseteq todo, snap' = snap \/ pc = "snapshot"
    PROVE  CallInv'
  <1>1. ASSUME op # "none"
        PROVE  cfg' \in Config /\ todo' \subseteq Work(op, pc, cfg, snap)'
    <2>1. todo' \subseteq Work(op, pc, cfg, snap)
      BY <1>1 DEF CallInv
    <2>2. CASE snap' = snap
      <3>1. Work(op, pc, cfg, snap)' = Work(op, pc, cfg, snap)
        BY <2>2 DEF Work, ObsoleteRules, configs
      <3>. QED
        BY <1>1, <2>1, <3>1 DEF CallInv
    <2>3. CASE pc = "snapshot"
      BY <1>1, <2>1, <2>3 DEF CallInv, Work
    <2>. QED
      BY <2>2, <2>3
  <1>. QED
    BY <1>1, Zenon DEF CallInv, PhasesOf

\* Going on to the next loop keeps types and call structure.
LEMMA EndPhaseTypes ==
    ASSUME CallTypes, CallInv, EndPhase
    PROVE  CallTypes' /\ CallInv'
  <1>1. op # "none" /\ cfg \in Config
    BY DEF EndPhase, CallInv, PhasesOf
  <1>2. CASE NextPhase(op, pc) = "idle" \/ (op = "refresh" /\ failed)
    BY <1>1, <1>2, FinishTypes, Zenon DEF EndPhase, CallTypes
  <1>3. CASE ~(NextPhase(op, pc) = "idle" \/ (op = "refresh" /\ failed))
    <2>1. /\ pc' = NextPhase(op, pc)
          /\ todo' = Work(op, NextPhase(op, pc), cfg, snap)
          /\ duty' = IF op = "apply" /\ pc = "guard" THEN duty \cup {cfg} ELSE duty
          /\ torn' = IF op = "refresh" /\ pc = "safe" /\ torn = "torn"
                       THEN "bared" ELSE torn
          /\ UNCHANGED <<op, owner, cfg, snap, failed, applied, litter, monitor>>
      BY <1>3 DEF EndPhase
    <2>2. pc' \in PhasesOf(op) /\ pc' # "idle"
      BY <1>1, <1>3, <2>1 DEF CallInv, CallTypes, NextPhase, PhasesOf, Guarded
    <2>3. pc' \in {"idle", "link", "guard", "snapshot", "obsolete", "flush", "vpn", "safe",
                   "delRules", "addRules", "unguard"}
      BY <1>1, <2>2 DEF CallTypes, PhasesOf, Guarded
    <2>4. duty' \subseteq Config /\ torn' \in {"whole", "torn", "bared", "stray"}
      BY <1>1, <2>1 DEF CallTypes
    <2>5. CallTypes'
      BY <2>1, <2>3, <2>4 DEF CallTypes, monitor
    <2>6. todo' \subseteq Work(op, pc, cfg, snap)'
      BY <2>1 DEF Work, ObsoleteRules, configs
    <2>7. pc' \in PhasesOf(op)'
      BY <2>1, <2>2, Zenon DEF PhasesOf, Guarded
    <2>8. op = "rollback" => duty' = {} /\ torn' = "torn"
      BY <2>1 DEF CallInv
    <2>9. op = "apply" /\ pc' \in Guarded \cup {"unguard"} => cfg \in duty'
      BY <2>1, <1>1 DEF CallInv, NextPhase, PhasesOf, Guarded
    <2>10. op = "refresh" /\ pc' = "unguard" => torn' # "torn"
      BY <2>1, <1>1 DEF CallInv, NextPhase, PhasesOf, CallTypes
    <2>. QED
      BY <2>1, <2>5, <2>6, <2>7, <2>8, <2>9, <2>10, <1>1 DEF CallInv, Guarded
  <1>. QED
    BY <1>2, <1>3

\* Every successful adapter call keeps types and call structure.
LEMMA CallStepTypes ==
    ASSUME TypeOK, CallInv, CallStep
    PROVE  TypeOK' /\ CallInv'
  <1>. CallTypes /\ OtherTypes
    BY TypeParts
  <1>. SUFFICES CallTypes' /\ OtherTypes' /\ CallInv'
    BY DEF TypeOK, CallTypes, OtherTypes
  <1>1. CASE EndPhase
    BY <1>1, EndPhaseTypes DEF EndPhase, OtherTypes, kernel, closing, Tables, TunLinks
  <1>2. ASSUME NEW x, Did(x), snap' = snap \/ pc = "snapshot",
               snap' \in [Family -> SUBSET MainRoute]
        PROVE  CallTypes' /\ CallInv' /\ UNCHANGED <<closing, budget>>
    <2>1. CallInv'
      BY <1>2, LoopKeepsCallInv DEF Did, history
    <2>2. CallTypes'
      BY <1>2 DEF Did, CallTypes, monitor, history
    <2>. QED
      BY <1>2, <2>1, <2>2 DEF Did
  <1>3. ASSUME NEW x \in todo
        PROVE  /\ pc # "idle" => cfg \in Config
               /\ pc # "idle" => x \in Work(op, pc, cfg, snap)
    BY DEF CallInv, PhasesOf
  <1>4. CASE LinkByIndex
    BY <1>4, <1>2 DEF LinkByIndex, kernel, closing, OtherTypes, CallTypes
  <1>5. CASE ListMain
    <2>1. PICK f \in todo : Did(f) /\ snap' = [snap EXCEPT ![f] = main[f]]
      BY <1>5, Zenon DEF ListMain
    <2>2. f \in Family
      BY <1>3, <1>5, ConfigFields DEF ListMain, Work
    <2>3. snap' \in [Family -> SUBSET MainRoute]
      BY <2>1, <2>2 DEF CallTypes, OtherTypes
    <2>. QED
      BY <1>5, <2>1, <2>3, <1>2 DEF ListMain, kernel, closing, OtherTypes
  <1>6. CASE AddRule
    <2>1. PICK r \in todo : Did(r) /\ rules' = rules \cup {r}
      BY <1>6 DEF AddRule
    <2>2. r \in Rule
      BY <1>3, <1>6, RuleWork DEF AddRule
    <2>. QED
      BY <1>6, <2>1, <2>2, <1>2 DEF AddRule, closing, OtherTypes, CallTypes
  <1>7. CASE DeleteRule
    BY <1>7, <1>2 DEF DeleteRule, closing, OtherTypes, CallTypes
  <1>8. CASE flushTableFamily
    <2>1. PICK t \in todo : Did(t) /\ table' = [table EXCEPT ![t.table][t.family] = {}]
      BY <1>8, Zenon DEF flushTableFamily
    <2>2. table' \in [Tables -> [Family -> SUBSET Route]]
      BY <2>1, Zenon DEF OtherTypes
    <2>. QED
      BY <1>8, <2>1, <2>2, <1>2 DEF flushTableFamily, closing, OtherTypes, CallTypes
  <1>9. CASE ReplaceRoute
    <2>. DEFINE t == IF pc = "vpn" THEN cfg.vpn ELSE cfg.safe
    <2>1. PICK x \in todo :
            Did(x) /\ table' = [table EXCEPT ![t][x.family] = @ \cup {x.route}]
      BY <1>9, Zenon DEF ReplaceRoute
    <2>2. x.route \in Route /\ x.family \in Family
      BY <1>3, <1>9, VPNWork, SafeWork DEF ReplaceRoute, CallTypes
    <2>3. t \in Tables
      BY <1>3, <1>9 DEF ReplaceRoute, Tables
    <2>4. table[t][x.family] \cup {x.route} \in SUBSET Route
      BY <2>2, <2>3, SMTT(30) DEF OtherTypes
    <2>5. [table[t] EXCEPT ![x.family] = @ \cup {x.route}] \in [Family -> SUBSET Route]
      BY <2>3, <2>4, Zenon DEF OtherTypes
    <2>6. table' \in [Tables -> [Family -> SUBSET Route]]
      BY <2>1, <2>5, Zenon DEF OtherTypes
    <2>. QED
      BY <1>9, <2>1, <2>6, <1>2, Zenon DEF ReplaceRoute, closing, OtherTypes, CallTypes
  <1>10. CASE deleteOwnedRules
    BY <1>10, <1>2 DEF deleteOwnedRules, closing, OtherTypes, CallTypes
  <1>. QED
    BY <1>1, <1>4, <1>5, <1>6, <1>7, <1>8, <1>9, <1>10 DEF CallStep

\* Every failed adapter call keeps types and call structure.
LEMMA FailureTypes ==
    ASSUME TypeOK, CallInv, AdapterFails
    PROVE  TypeOK' /\ CallInv'
  <1>. CallTypes /\ OtherTypes
    BY TypeParts
  <1>. SUFFICES CallTypes' /\ OtherTypes' /\ CallInv'
    BY DEF TypeOK, CallTypes, OtherTypes
  <1>1. op # "none" /\ cfg \in Config
    BY DEF AdapterFails, CallInv, PhasesOf
  <1>2. budget' \in [{"call", "fail", "change", "crash"} -> Nat]
    BY SpendTypes DEF AdapterFails, OtherTypes
  <1>3. PICK x \in todo :
          /\ PartialEffect(x)
          /\ IF GoesOn
               THEN /\ todo' = todo \ {x} /\ failed' = TRUE
                    /\ UNCHANGED <<op, owner, pc, cfg, snap, applied, monitor, history>>
               ELSE Finish(FALSE)
    BY Zenon DEF AdapterFails
  <1>4. CallTypes' /\ CallInv'
    <2>1. CASE GoesOn
      BY <1>3, <2>1, LoopKeepsCallInv DEF CallTypes, monitor, history
    <2>2. CASE ~GoesOn
      BY <1>1, <1>3, <2>2, FinishTypes, Zenon
    <2>. QED
      BY <2>1, <2>2
  <1>5. main' = main /\ links' = links /\ rules' \subseteq Rule
    <2>1. CASE pc = "flush"
      BY <1>3, <2>1 DEF PartialEffect, OtherTypes
    <2>2. CASE pc = "delRules"
      BY <1>3, <2>2 DEF PartialEffect, OtherTypes, OwnedRules
    <2>3. CASE pc \notin {"flush", "delRules"}
      BY <1>3, <2>3 DEF PartialEffect, OtherTypes, kernel
    <2>. QED
      BY <2>1, <2>2, <2>3
  <1>6. table' \in [Tables -> [Family -> SUBSET Route]]
    <2>1. CASE pc = "flush"
      <3>1. x.table \in Tables /\ x.family \in Family
        BY <1>1, <2>1, FlushWork DEF CallInv
      <3>2. PICK left \in SUBSET table[x.table][x.family] :
              table' = [table EXCEPT ![x.table][x.family] = left]
        BY <1>3, <2>1 DEF PartialEffect
      <3>3. left \in SUBSET Route
        BY <3>1 DEF OtherTypes
      <3>. QED
        BY <3>1, <3>2, <3>3 DEF OtherTypes
    <2>2. CASE pc # "flush"
      BY <1>3, <2>2 DEF PartialEffect, OtherTypes, kernel
    <2>. QED
      BY <2>1, <2>2
  <1>. QED
    BY <1>2, <1>4, <1>5, <1>6 DEF AdapterFails, closing, OtherTypes

\* The actions that start an operation.
LEMMA CallsTypes ==
    ASSUME TypeOK, CallInv,
           \/ \E c \in Config : Apply(c) \/ Rollback(c)
           \/ Refresh
    PROVE  TypeOK' /\ CallInv'
  <1>. CallTypes /\ OtherTypes
    BY TypeParts
  <1>. SUFFICES CallTypes' /\ OtherTypes' /\ CallInv'
    BY DEF TypeOK, CallTypes, OtherTypes
  <1>0. OtherTypes'
    BY SpendTypes DEF OtherTypes, Apply, Rollback, Refresh, kernel, closing
  <1>1. ASSUME NEW c \in Config, Apply(c)
        PROVE  CallTypes' /\ CallInv'
    <2>1. Start("apply", "caller", "link", c)
      BY <1>1 DEF Apply
    <2>2. CallTypes'
      BY <1>1, <2>1, StartTypes DEF Apply, CallTypes, monitor
    <2>3. op' = "apply" /\ pc' = "link" /\ cfg' = c /\ todo' = {c.tun}
      BY <2>1 DEF Start, Work
    <2>. QED
      BY <2>2, <2>3, <1>1 DEF CallInv, PhasesOf, Guarded, Work
  <1>2. ASSUME NEW c \in Config, Rollback(c)
        PROVE  CallTypes' /\ CallInv'
    <2>1. Start("rollback", "caller", "delRules", c)
      BY <1>2 DEF Rollback
    <2>2. CallTypes'
      BY <1>2, <2>1, StartTypes DEF Rollback, CallTypes, monitor
    <2>3. /\ op' = "rollback" /\ pc' = "delRules" /\ cfg' = c
          /\ todo' = ownedRuleScopes(configs(c)) /\ duty' = {} /\ torn' = "torn"
      BY <1>2, <2>1 DEF Rollback, Start, Work
    <2>4. applied' = applied
      BY <1>2 DEF Rollback
    <2>. QED
      BY <2>2, <2>3, <2>4, <1>2 DEF CallInv, PhasesOf, Work, configs
  <1>3. ASSUME Refresh
        PROVE  CallTypes' /\ CallInv'
    <2>1. Start("refresh", "caller", "guard", applied) /\ applied \in Config
      BY <1>3 DEF Refresh, CallTypes
    <2>2. CallTypes'
      BY <1>3, <2>1, StartTypes, SMTT(30) DEF Refresh, CallTypes, monitor, history
    <2>3. /\ op' = "refresh" /\ pc' = "guard" /\ cfg' = applied
          /\ todo' = transitionGuards({applied}) /\ applied' = applied
      BY <1>3, <2>1 DEF Refresh, Start, Work
    <2>. QED
      BY <2>1, <2>2, <2>3 DEF CallInv, PhasesOf, Work
  <1>. QED
    BY <1>0, <1>1, <1>2, <1>3

\* Every step of the route monitor keeps types and call structure.
LEMMA MonitorTypes ==
    ASSUME TypeOK, CallInv, MonStep
    PROVE  TypeOK' /\ CallInv'
  <1>. CallTypes /\ OtherTypes
    BY TypeParts
  <1>. SUFFICES CallTypes' /\ OtherTypes' /\ CallInv'
    BY DEF TypeOK, CallTypes, OtherTypes
  <1>1. ASSUME UNCHANGED <<applied, call, history>>
        PROVE  CallInv'
    BY <1>1, LoopKeepsCallInv DEF call, history
  <1>2. ASSUME NEW o \in {"begin", "refresh"}, Start(o, "monitor", "guard", applied),
               ~Quiet, UNCHANGED <<applied, monitor, history>>
        PROVE  CallTypes' /\ CallInv'
    <2>1. applied \in Config
      BY <1>2 DEF Quiet, CallTypes
    <2>2. CallTypes'
      BY <1>2, <2>1, StartTypes, SMTT(30) DEF CallTypes, monitor, history
    <2>3. /\ op' = o /\ pc' = "guard" /\ cfg' = applied
          /\ todo' = transitionGuards({applied}) /\ applied' = applied
      BY <1>2, <2>1 DEF Start, Work
    <2>. QED
      BY <2>1, <2>2, <2>3 DEF CallInv, PhasesOf, Work
  <1>3. OtherTypes'
    <2>1. UNCHANGED <<kernel, closing>>
      BY DEF MonStep, MonEvent, MonChannelClosed, beginRouteChange, MonTimer,
             refreshAfterRouteChange, MonStop
    <2>2. budget' = budget \/ Spend("fail")
      BY DEF MonStep, MonEvent, MonChannelClosed, beginRouteChange, MonTimer,
             refreshAfterRouteChange, MonStop
    <2>. QED
      BY <2>1, <2>2, SpendTypes DEF OtherTypes, kernel, closing
  <1>4. CASE MonEvent
    <2>1. CallInv'
      BY <1>1, <1>4 DEF MonEvent
    <2>. QED
      BY <1>3, <2>1, <1>4 DEF MonEvent, CallTypes, call, history
  <1>5. CASE MonChannelClosed
    <2>1. CallInv'
      BY <1>1, <1>5 DEF MonChannelClosed
    <2>. QED
      BY <1>3, <2>1, <1>5 DEF MonChannelClosed, CallTypes, call, history
  <1>6. CASE MonTimer
    <2>1. CallInv'
      BY <1>1, <1>6 DEF MonTimer
    <2>2. /\ monPc' \in {"select", "begin", "refresh", "exit"}
          /\ sub' \in {"live", "closed", "none"}
      BY <1>6, Zenon DEF MonTimer, CallTypes
    <2>3. timer' \in BOOLEAN /\ UNCHANGED <<applied, call, history, pending, events>>
      BY <1>6, Zenon DEF MonTimer, CallTypes
    <2>4. CallTypes'
      BY <2>2, <2>3 DEF CallTypes, call, history
    <2>. QED
      BY <1>3, <2>1, <2>4
  <1>7. CASE MonStop
    <2>1. CallInv'
      BY <1>1, <1>7 DEF MonStop
    <2>2. /\ monPc' = "exit" /\ sub' = "none" /\ timer' \in BOOLEAN
          /\ UNCHANGED <<applied, call, history, pending>>
      BY <1>7, Zenon DEF MonStop
    <2>3. events' \in Nat
      BY <1>7 DEF MonStop
    <2>4. CallTypes'
      BY <2>2, <2>3 DEF CallTypes, call, history
    <2>. QED
      BY <1>3, <2>1, <2>4
  <1>8. CASE beginRouteChange
    <2>1. CASE Quiet
      <3>1. CallInv'
        BY <1>1, <1>8, <2>1 DEF beginRouteChange
      <3>. QED
        BY <1>3, <3>1, <1>8, <2>1 DEF beginRouteChange, CallTypes, call, history
    <2>2. CASE ~Quiet
      <3>1. /\ Start("begin", "monitor", "guard", applied)
            /\ UNCHANGED <<applied, monitor, history>>
        BY <1>8, <2>2 DEF beginRouteChange, monitor
      <3>. QED
        BY <1>2, <1>3, <2>2, <3>1
    <2>. QED
      BY <2>1, <2>2
  <1>9. CASE refreshAfterRouteChange
    <2>1. CASE Quiet
      <3>1. CallInv'
        BY <1>1, <1>9, <2>1 DEF refreshAfterRouteChange
      <3>. QED
        BY <1>3, <3>1, <1>9, <2>1, ZenonT(30) DEF refreshAfterRouteChange, CallTypes, call, history
    <2>2. CASE ~Quiet
      <3>1. /\ Start("refresh", "monitor", "guard", applied)
            /\ UNCHANGED <<applied, monitor, history>>
        BY <1>9, <2>2 DEF refreshAfterRouteChange, monitor
      <3>. QED
        BY <1>2, <1>3, <2>2, <3>1
    <2>. QED
      BY <2>1, <2>2
  <1>. QED
    BY <1>3, <1>4, <1>5, <1>6, <1>7, <1>8, <1>9 DEF MonStep

\* Close and the environment keep types and call structure.
LEMMA EnvironmentTypes ==
    ASSUME TypeOK, CallInv,
           \/ \E c \in Closer : CloseBegin(c) \/ CloseAdapter(c) \/ CloseReturn(c)
           \/ \E f \in Family, r \in MainRoute : RouteChange(f, r)
           \/ \E d \in TunLinks : LinkLost(d)
           \/ SubscriptionFails
    PROVE  TypeOK' /\ CallInv'
  <1>. CallTypes /\ OtherTypes
    BY TypeParts
  <1>. SUFFICES CallTypes' /\ OtherTypes' /\ CallInv'
    BY Zenon DEF TypeOK, CallTypes, OtherTypes
  <1>1. UNCHANGED <<applied, call, history, monPc, pending, timer>>
    BY Zenon DEF CloseBegin, CloseAdapter, CloseReturn, RouteChange, LinkLost, SubscriptionFails,
           monitor
  <1>2. CallInv'
    BY <1>1, LoopKeepsCallInv DEF call, history
  <1>3. sub' \in {"live", "closed", "none"} /\ events' \in Nat
    <2>1. sub' \in {sub, "closed"} /\ events' \in {events, events + 1}
      BY Zenon DEF CloseBegin, CloseAdapter, CloseReturn, RouteChange, LinkLost,
                   SubscriptionFails, monitor, Notify
    <2>2. sub \in {"live", "closed", "none"} /\ events \in Nat
      BY DEF CallTypes
    <2>. QED
      BY <2>1, <2>2
  <1>4. CallTypes'
    BY <1>1, <1>3, SMTT(30) DEF call, history, CallTypes
  <1>5. ASSUME NEW c \in Closer, CloseBegin(c) \/ CloseAdapter(c) \/ CloseReturn(c)
        PROVE  OtherTypes'
    BY <1>5, Zenon DEF CloseBegin, CloseAdapter, CloseReturn, OtherTypes, kernel
  <1>6. ASSUME NEW f \in Family, NEW r \in MainRoute, RouteChange(f, r)
        PROVE  OtherTypes'
    BY <1>6, SpendTypes, Zenon DEF RouteChange, OtherTypes, closing
  <1>7. ASSUME NEW d \in TunLinks, LinkLost(d)
        PROVE  OtherTypes'
    BY <1>7, SpendTypes, Zenon DEF LinkLost, OtherTypes, closing
  <1>8. ASSUME SubscriptionFails
        PROVE  OtherTypes'
    BY <1>8, SpendTypes DEF SubscriptionFails, OtherTypes, closing, kernel
  <1>. QED
    BY <1>2, <1>4, <1>5, <1>6, <1>7, <1>8

\* A restart keeps types and call structure.
LEMMA CrashTypes ==
    ASSUME TypeOK, CallInv, Crash
    PROVE  TypeOK' /\ CallInv'
  <1>. CallTypes /\ OtherTypes
    BY TypeParts
  <1>. SUFFICES CallTypes' /\ OtherTypes' /\ CallInv'
    BY DEF TypeOK, CallTypes, OtherTypes
  <1>1. OtherTypes'
    BY SpendTypes, Zenon DEF Crash, OtherTypes, kernel
  <1>2. litter' \subseteq Config
    BY DEF Crash, configs, CallTypes
  <1>3. CallTypes'
    BY <1>2, Zenon DEF Crash, CallTypes, NoRoutes
  <1>4. CallInv'
    BY DEF Crash, CallInv, PhasesOf
  <1>. QED
    BY <1>1, <1>3, <1>4

\* TypeOK together with CallInv is inductive.
LEMMA TypeInduction ==
    TypeOK /\ CallInv /\ [Next]_vars => TypeOK' /\ CallInv'
  <1>. SUFFICES ASSUME TypeOK, CallInv, [Next]_vars PROVE TypeOK' /\ CallInv'
    OBVIOUS
  <1>1. CASE UNCHANGED vars
    <2>1. CallInv'
      BY <1>1, LoopKeepsCallInv DEF vars, call, history
    <2>2. UNCHANGED <<rules, table, main, links, applied, op, owner, pc, cfg, snap, failed>>
      BY <1>1, Zenon DEF vars, kernel, call
    <2>3. UNCHANGED <<closed, adapterOpen, closePc, monPc, pending, sub, events, timer,
                      duty, torn, litter, budget>>
      BY <1>1, Zenon DEF vars, closing, monitor, history
    <2>6. CallTypes
      BY TypeParts
    <2>4. CallTypes'
      BY <2>2, <2>3, <2>6 DEF CallTypes
    <2>5. OtherTypes'
      BY <2>2, <2>3, TypeParts, Zenon DEF OtherTypes
    <2>. QED
      BY <2>1, <2>4, <2>5, Zenon DEF TypeOK, CallTypes, OtherTypes
  <1>. QED
    BY <1>1, CallStepTypes, FailureTypes, CallsTypes, MonitorTypes, EnvironmentTypes,
       CrashTypes DEF Next

\* newManager establishes TypeOK and CallInv.
LEMMA InitTypes == Init => TypeOK /\ CallInv
  <1>. SUFFICES ASSUME Init PROVE TypeOK /\ CallInv
    OBVIOUS
  <1>1. budget \in [{"call", "fail", "change", "crash"} -> Nat]
    <2>1. budget = [call |-> MaxCalls, fail |-> MaxFails,
                    change |-> MaxChanges, crash |-> MaxCrashes]
      BY Zenon DEF Init
    <2>2. /\ budget.call \in Nat /\ budget.fail \in Nat
          /\ budget.change \in Nat /\ budget.crash \in Nat
      BY <2>1, BoundAssumption
    <2>3. budget = [k \in {"call", "fail", "change", "crash"} |-> budget[k]]
      BY <2>1, Zenon
    <2>. QED
      BY <2>2, <2>3
  <1>2. table \in [Tables -> [Family -> SUBSET Route]]
    BY DEF Init, NoRoutes
  <1>3. OtherTypes
    BY <1>1, <1>2, Zenon DEF Init, OtherTypes
  <1>4. CallTypes
    BY Zenon DEF Init, CallTypes, NoRoutes
  <1>5. CallInv
    BY DEF Init, CallInv, PhasesOf
  <1>. QED
    BY <1>3, <1>4, <1>5, TypeParts

\* In every behaviour of the manager each variable has its type: a call always
\* works on a validated configuration, the owned tables hold routes only, the
\* kernel's rules are rules of the host's families, and no counter underflows.
THEOREM TypeCorrect == Spec => []TypeOK
  BY InitTypes, TypeInduction, PTL DEF Spec

----------------------------------------------------------------------------
(* Close. *)

\* A closed manager is idle, the monitor ends only then, and the adapter goes
\* after it and before any Close returns.
CloseInv ==
    /\ closed => pc = "idle"
    /\ monPc = "exit" => closed
    /\ ~adapterOpen => monPc = "exit"
    /\ CloseWaits

\* A call that is in progress keeps CloseInv, for the manager is not closed.
LEMMA CallKeepsClose ==
    ASSUME CloseInv, pc # "idle", UNCHANGED closing, monPc' \in {monPc, "select"}
    PROVE  CloseInv'
  BY DEF CloseInv, CloseWaits, closing

\* A call that returns leaves the monitor where it was or in its select.
LEMMA FinishMonitor ==
    ASSUME NEW ok, Finish(ok)
    PROVE  monPc' \in {monPc, "select"}
  BY Zenon DEF Finish

\* A step of a goroutine inside Close keeps CloseInv.
LEMMA CloserKeepsClose ==
    ASSUME TypeOK, CloseInv, NEW c \in Closer,
           CloseBegin(c) \/ CloseAdapter(c) \/ CloseReturn(c)
    PROVE  CloseInv'
  <1>. closePc \in [Closer -> {"open", "waitMonitor", "waitDone", "done"}]
    BY DEF TypeOK
  <1>1. CASE CloseBegin(c)
    <2>1. \A d \in Closer : closePc'[d] = "done" => closePc[d] = "done"
      BY <1>1 DEF CloseBegin
    <2>. QED
      BY <1>1, <2>1 DEF CloseBegin, CloseInv, CloseWaits, monitor, call
  <1>2. CASE CloseAdapter(c)
    BY <1>2 DEF CloseAdapter, CloseInv, CloseWaits, monitor, call
  <1>3. CASE CloseReturn(c)
    BY <1>3 DEF CloseReturn, CloseInv, CloseWaits, monitor, call
  <1>. QED
    BY <1>1, <1>2, <1>3

\* CloseInv is inductive.
LEMMA CloseInduction ==
    TypeOK /\ CloseInv /\ [Next]_vars => CloseInv'
  <1>. SUFFICES ASSUME TypeOK, CloseInv, [Next]_vars PROVE CloseInv'
    OBVIOUS
  <1>1. CASE UNCHANGED vars
    BY <1>1 DEF vars, CloseInv, CloseWaits, closing, monitor, call
  <1>2. CASE EndPhase
    <2>1. pc # "idle" /\ UNCHANGED closing
      BY <1>2 DEF EndPhase
    <2>2. monPc' \in {monPc, "select"}
      BY <1>2, FinishMonitor, Zenon DEF EndPhase, monitor
    <2>. QED
      BY <2>1, <2>2, CallKeepsClose
  <1>3. CASE \/ LinkByIndex \/ ListMain \/ AddRule \/ DeleteRule \/ flushTableFamily
             \/ ReplaceRoute \/ deleteOwnedRules
    <2>1. pc # "idle"
      BY <1>3, Zenon DEF LinkByIndex, ListMain, AddRule, DeleteRule, flushTableFamily,
                  ReplaceRoute, deleteOwnedRules
    <2>2. \E x : Did(x)
      BY <1>3, Zenon DEF LinkByIndex, ListMain, AddRule, DeleteRule, flushTableFamily,
                         ReplaceRoute, deleteOwnedRules
    <2>. QED
      BY <2>1, <2>2, CallKeepsClose DEF Did, monitor
  <1>4. CASE AdapterFails
    <2>1. pc # "idle" /\ UNCHANGED closing
      BY <1>4 DEF AdapterFails
    <2>2. monPc' \in {monPc, "select"}
      BY <1>4, FinishMonitor, Zenon DEF AdapterFails, monitor
    <2>. QED
      BY <2>1, <2>2, CallKeepsClose
  <1>5. CASE \/ \E c \in Config : Apply(c) \/ Rollback(c)
             \/ Refresh
    <2>1. ~closed /\ UNCHANGED <<closing, monitor>>
      BY <1>5, Zenon DEF Apply, Rollback, Refresh
    <2>. QED
      BY <2>1 DEF CloseInv, CloseWaits, closing, monitor
  <1>6. CASE \E c \in Closer : CloseBegin(c) \/ CloseAdapter(c) \/ CloseReturn(c)
    BY <1>6, CloserKeepsClose
  <1>7. CASE MonStep
    <2>1. UNCHANGED closing /\ (closed => pc' = pc)
      BY <1>7, Zenon DEF MonStep, MonEvent, MonChannelClosed, beginRouteChange, MonTimer,
                  refreshAfterRouteChange, MonStop, Quiet, call
    <2>2. monPc # "exit" /\ (monPc' = "exit" => closed)
      BY <1>7, Zenon DEF MonStep, MonEvent, MonChannelClosed, beginRouteChange, MonTimer,
                  refreshAfterRouteChange, MonStop, CloseInv
    <2>. QED
      BY <2>1, <2>2 DEF CloseInv, CloseWaits, closing
  <1>8. CASE \/ \E f \in Family, r \in MainRoute : RouteChange(f, r)
             \/ \E d \in TunLinks : LinkLost(d)
             \/ SubscriptionFails
    <2>1. UNCHANGED <<pc, closing, monPc>>
      BY <1>8, Zenon DEF RouteChange, LinkLost, SubscriptionFails, call
    <2>. QED
      BY <2>1 DEF CloseInv, CloseWaits, closing
  <1>9. CASE Crash
    BY <1>9 DEF Crash, CloseInv, CloseWaits
  <1>. QED
    BY <1>1, <1>2, <1>3, <1>4, <1>5, <1>6, <1>7, <1>8, <1>9 DEF Next, CallStep

\* Types and CloseInv hold in every behaviour.
LEMMA CloseInvariant == Spec => [](TypeOK /\ CloseInv)
  <1>1. Init => TypeOK /\ CallInv /\ CloseInv
    BY InitTypes DEF Init, CloseInv, CloseWaits
  <1>2. TypeOK /\ CallInv /\ CloseInv /\ [Next]_vars => (TypeOK /\ CallInv /\ CloseInv)'
    BY TypeInduction, CloseInduction
  <1>. QED
    BY <1>1, <1>2, PTL DEF Spec

\* Manager.Close closes the adapter only when no Apply, Refresh, Rollback or
\* monitor step can still use it, whatever the number of closers and calls.
THEOREM AdapterClosedLast == Spec => []AdapterNotUsedAfterClose
  <1>1. CloseInv => AdapterNotUsedAfterClose
    BY DEF CloseInv, AdapterNotUsedAfterClose
  <1>. QED
    BY <1>1, CloseInvariant, PTL

\* No Close returns before the adapter is closed: a concurrent Close waits for
\* the one that does the work.
THEOREM CloseWaitsHolds == Spec => []CloseWaits
  <1>1. CloseInv => CloseWaits
    BY DEF CloseInv
  <1>. QED
    BY <1>1, CloseInvariant, PTL

\* From the moment Close has set closed no operation starts, not even one that
\* beginRouteChange or refreshAfterRouteChange had been decided on.
THEOREM NoCallAfterCloseHolds == Spec => NoCallAfterClose
  <1>1. CloseInv' => [closed /\ closed' /\ pc = "idle" => pc' = "idle"]_vars
    BY DEF CloseInv
  <1>. QED
    BY <1>1, CloseInvariant, PTL DEF NoCallAfterClose
----------------------------------------------------------------------------
(* Ownership: OwnInv is inductive for priority blocks that are apart. *)

\* The configurations that own something.
LEMMA OwnersAre ==
    ASSUME TypeOK, CallInv
    PROVE  /\ litter \subseteq Config /\ Own \subseteq Config /\ Holders \subseteq Config
           /\ litter \cup Own \subseteq Holders
           /\ op = "none" <=> pc = "idle"
           /\ op # "none" => /\ cfg \in Config /\ configs(cfg) = {cfg} \cup Own
                             /\ configs(cfg) \subseteq Config
           /\ op \in {"refresh", "begin"} => cfg = applied /\ Own = {cfg}
           /\ pc \notin {"idle", "link", "snapshot"} => Holders = litter \cup configs(cfg)
           /\ pc \in {"idle", "link", "snapshot"} => Holders = litter \cup Own
  <1>1. litter \subseteq Config /\ Own \subseteq Config
    BY DEF TypeOK, Own
  <1>2. op = "none" <=> pc = "idle"
    BY DEF TypeOK, CallInv, PhasesOf, Guarded
  <1>3. op # "none" => cfg \in Config
    BY DEF CallInv
  <1>4. configs(cfg) = {cfg} \cup Own
    BY Zenon DEF configs, Own
  <1>5. op \in {"refresh", "begin"} => cfg = applied /\ Own = {cfg}
    BY <1>3, ConfigFields DEF CallInv, Own
  <1>. QED
    BY <1>1, <1>2, <1>3, <1>4, <1>5 DEF Holders

\* A step that changes nothing of a call and fills no table.
LEMMA OwnStays ==
    ASSUME OwnInv, UNCHANGED <<rules, applied, op, pc, cfg, failed, torn, litter>>,
           todo' = todo \/ pc \in {"idle", "link", "snapshot"}, Full' \subseteq Full
    PROVE  OwnInv'
  <1>1. Holders' = Holders /\ configs(cfg)' = configs(cfg)
    BY Zenon DEF Holders, Own, configs
  <1>2. \A cs : Scoped(cs)' = Scoped(cs)
    BY Zenon DEF Scoped, Inside
  <1>3. HolderInv'
    BY <1>1 DEF OwnInv, HolderInv
  <1>4. SweepInv'
    BY <1>1, <1>2, Zenon DEF OwnInv, SweepInv
  <1>5. ExactInv'
    BY <1>1 DEF OwnInv, ExactInv
  <1>. QED
    BY <1>3, <1>4, <1>5 DEF OwnInv

\* An operation begins: nothing has changed in the kernel.
LEMMA StartOwns ==
    ASSUME TypeOK, CallInv, OwnInv, NEW o, NEW w, NEW p, NEW c \in Config, Start(o, w, p, c),
           UNCHANGED <<rules, table, applied, litter>>,
           \/ o = "apply" /\ p = "link"
              /\ torn' = (IF \A l \in litter : Swept(l, configs(c)) THEN torn ELSE "stray")
           \/ o \in {"refresh", "begin"} /\ p = "guard" /\ c = applied /\ torn' = torn
           \/ o = "rollback" /\ p = "delRules" /\ torn' = "torn"
    PROVE  OwnInv'
  <1>1. op' = o /\ pc' = p /\ cfg' = c /\ pc = "idle" /\ todo' = Work(o, p, c, NoRoutes)
    BY Zenon DEF Start
  <1>2. Holders \subseteq Holders' /\ configs(cfg)' = configs(c) /\ Full' = Full
    BY <1>1, Zenon DEF Holders, Own, configs, Full
  <1>3. HolderInv'
    <2>1. rules' \subseteq Made(Holders') /\ Full' \subseteq ownedTableTargets(Holders')
      BY <1>2, OwnMore, Zenon DEF OwnInv, HolderInv
    <2>2. (op = "apply" /\ torn # "stray" => \A l \in litter : Swept(l, configs(cfg)))'
      BY <1>1, <1>2 DEF Swept
    <2>. QED
      BY <2>1, <2>2, Zenon DEF HolderInv, Made
  <1>4. SweepInv'
    <2>1. o = "rollback" => todo' = ownedRuleScopes(configs(c))
      BY <1>1 DEF Work
    <2>. QED
      BY <1>1, <1>2, <2>1, Zenon DEF SweepInv
  <1>5. ExactInv'
    <2>. SUFFICES ASSUME applied # NoConfig, torn' = "whole"
                  PROVE  /\ DesiredRules(applied) \subseteq rules
                         /\ rules \subseteq DesiredRules(applied) \cup transitionGuards(Holders')
      BY Zenon DEF ExactInv
    <2>1. torn = "whole"
      OBVIOUS
    <2>2. /\ DesiredRules(applied) \subseteq rules
          /\ rules \subseteq DesiredRules(applied) \cup transitionGuards(Holders)
      BY <1>1, <2>1 DEF OwnInv, ExactInv, Guarded
    <2>3. transitionGuards(Holders) \subseteq transitionGuards(Holders')
      BY <1>2, OwnMore, Zenon
    <2>. QED
      BY <2>2, <2>3
  <1>. QED
    BY <1>3, <1>4, <1>5 DEF OwnInv

\* A restart leaves what was owned to failed calls.
LEMMA CrashOwns ==
    ASSUME TypeOK, CallInv, OwnInv, Crash
    PROVE  OwnInv'
  <1>1. /\ op' = "none" /\ pc' = "idle" /\ applied' = NoConfig /\ rules' = rules /\ table' = table
        /\ litter' = (litter \cup configs(cfg)) \ {NoConfig}
    BY Zenon DEF Crash, kernel
  <1>2. Holders' = litter' /\ Full' = Full
    BY <1>1, Zenon DEF Holders, Own, Full
  <1>3. Holders \subseteq litter'
    <2>1. Holders \subseteq litter \cup configs(cfg)
      BY OwnersAre DEF configs, Own
    <2>2. NoConfig \notin Holders
      BY OwnersAre, ConfigAssumption
    <2>. QED
      BY <1>1, <2>1, <2>2
  <1>4. HolderInv'
    <2>1. rules' \subseteq Made(Holders') /\ Full' \subseteq ownedTableTargets(Holders')
      BY <1>1, <1>2, <1>3, OwnMore, Zenon DEF OwnInv, HolderInv
    <2>. QED
      BY <1>1, <2>1, Zenon DEF HolderInv, Made
  <1>5. SweepInv' /\ ExactInv'
    BY <1>1 DEF SweepInv, ExactInv
  <1>. QED
    BY <1>4, <1>5 DEF OwnInv

----------------------------------------------------------------------------
(* An operation ends. *)

\* What lies in the kernel belongs to something swept or stays with a failed call.
LEMMA SweptOrLeft ==
    ASSUME TypeOK, CallInv, HolderInv, pc \notin {"idle", "link", "snapshot"}
    PROVE  /\ \A r \in rules : \/ r \in Scoped(configs(cfg))
                               \/ \E l \in litter : ~Swept(l, configs(cfg)) /\ r \in Made({l})
           /\ \A x \in Full : \/ x \in ownedTableTargets(configs(cfg))
                              \/ \E l \in litter : /\ ~Swept(l, configs(cfg))
                                                   /\ x \in ownedTableTargets({l})
  <1>0. /\ Holders = litter \cup configs(cfg) /\ Holders \subseteq Config
        /\ configs(cfg) \subseteq Config
    BY OwnersAre
  <1>1. ASSUME NEW c \in Holders, c \in litter => Swept(c, configs(cfg))
        PROVE  /\ ownedRuleScopes({c}) \subseteq ownedRuleScopes(configs(cfg))
               /\ ownedTableTargets({c}) \subseteq ownedTableTargets(configs(cfg))
    <2>1. CASE c \in litter
      BY <1>1, <2>1, Zenon DEF Swept
    <2>2. CASE c \in configs(cfg)
      <3>1. {c} \subseteq configs(cfg)
        BY <2>2
      <3>. QED
        BY <3>1, OwnMore, Zenon
    <2>. QED
      BY <1>0, <1>1, <2>1, <2>2
  <1>2. ASSUME NEW r \in rules
        PROVE  \/ r \in Scoped(configs(cfg))
               \/ \E l \in litter : ~Swept(l, configs(cfg)) /\ r \in Made({l})
    <2>1. PICK c \in Holders : r \in Made({c})
      BY OwnedByOne, Zenon DEF HolderInv
    <2>2. CASE c \in litter /\ ~Swept(c, configs(cfg))
      BY <2>1, <2>2, Zenon
    <2>3. CASE c \in litter => Swept(c, configs(cfg))
      <3>1. \E s \in ownedRuleScopes({c}) : Inside(r, s)
        BY <1>0, <2>1, MadeInside, Zenon
      <3>. QED
        BY <1>1, <2>3, <3>1, Zenon DEF Scoped
    <2>. QED
      BY <2>2, <2>3, Zenon
  <1>3. ASSUME NEW x \in Full
        PROVE  \/ x \in ownedTableTargets(configs(cfg))
               \/ \E l \in litter : ~Swept(l, configs(cfg)) /\ x \in ownedTableTargets({l})
    <2>1. PICK c \in Holders : x \in ownedTableTargets({c})
      BY OwnedByOne, Zenon DEF HolderInv
    <2>. QED
      BY <1>1, <2>1, Zenon
  <1>. QED
    BY <1>2, <1>3, Zenon

\* A successful Apply owns exactly its rules and tables.
LEMMA ApplyEndsOwned ==
    ASSUME TypeOK, CallInv, OwnInv, op = "apply", pc = "unguard", todo = {}, Finish(TRUE),
           UNCHANGED <<rules, table>>
    PROVE  OwnInv'
  <1>1. /\ op' = "none" /\ pc' = "idle" /\ applied' = cfg
        /\ torn' = (IF torn = "stray" THEN torn ELSE "whole")
        /\ litter' = {l \in litter : ~Swept(l, configs(cfg))}
    BY DEF Finish, Record
  <1>2. cfg \in Config /\ cfg # NoConfig
    BY ConfigFields DEF CallInv
  <1>3. Holders' = litter' \cup {cfg} /\ Full' = Full
    BY <1>1, <1>2, Zenon DEF Holders, Own, Full
  <1>4. /\ Scoped(configs(cfg)) \subseteq DesiredRules(cfg) /\ DesiredRules(cfg) \subseteq rules
        /\ Full \cap ownedTableTargets(configs(cfg)) \subseteq ownedTableTargets({cfg})
    BY DEF OwnInv, SweepInv
  <1>5. HolderInv'
    <2>1. ASSUME NEW r \in rules PROVE r \in Made(Holders')
      <3>1. CASE r \in Scoped(configs(cfg))
        <4>1. r \in Made({cfg})
          BY <1>4, <3>1, Zenon DEF Made
        <4>2. {cfg} \subseteq Holders'
          BY <1>3
        <4>. QED
          BY <4>1, <4>2, OwnMore, Zenon
      <3>2. CASE \E l \in litter : ~Swept(l, configs(cfg)) /\ r \in Made({l})
        <4>1. PICK l \in litter' : r \in Made({l})
          BY <1>1, <3>2, Zenon
        <4>2. {l} \subseteq Holders'
          BY <1>3
        <4>. QED
          BY <4>1, <4>2, OwnMore, Zenon
      <3>. QED
        BY <3>1, <3>2, SweptOrLeft, Zenon DEF OwnInv
    <2>2. ASSUME NEW x \in Full PROVE x \in ownedTableTargets(Holders')
      <3>1. CASE x \in ownedTableTargets(configs(cfg))
        <4>1. x \in ownedTableTargets({cfg}) /\ {cfg} \subseteq Holders'
          BY <1>3, <1>4, <3>1
        <4>. QED
          BY <4>1, OwnMore, Zenon
      <3>2. CASE \E l \in litter : ~Swept(l, configs(cfg)) /\ x \in ownedTableTargets({l})
        <4>1. PICK l \in litter' : x \in ownedTableTargets({l})
          BY <1>1, <3>2, Zenon
        <4>2. {l} \subseteq Holders'
          BY <1>3
        <4>. QED
          BY <4>1, <4>2, OwnMore, Zenon
      <3>. QED
        BY <3>1, <3>2, SweptOrLeft, Zenon DEF OwnInv
    <2>. QED
      BY <1>1, <1>3, <2>1, <2>2 DEF HolderInv, Made
  <1>6. ExactInv'
    <2>. SUFFICES ASSUME torn # "stray" PROVE rules \subseteq DesiredRules(cfg)
      BY <1>1, <1>4 DEF ExactInv
    <2>1. \A l \in litter : Swept(l, configs(cfg))
      BY DEF OwnInv, HolderInv
    <2>2. rules \subseteq Scoped(configs(cfg))
      BY <2>1, SweptOrLeft, Zenon DEF OwnInv
    <2>. QED
      BY <1>4, <2>2
  <1>7. SweepInv'
    BY <1>1 DEF SweepInv
  <1>. QED
    BY <1>5, <1>6, <1>7 DEF OwnInv

\* A successful Rollback leaves nothing but what failed calls left elsewhere.
LEMMA RollbackEndsOwned ==
    ASSUME TypeOK, CallInv, OwnInv, op = "rollback", pc = "flush", todo = {}, ~failed,
           Finish(TRUE), UNCHANGED <<rules, table>>
    PROVE  OwnInv'
  <1>1. /\ op' = "none" /\ pc' = "idle" /\ applied' = NoConfig
        /\ litter' = {l \in litter : ~Swept(l, configs(cfg))}
    BY DEF Finish, Record
  <1>2. Holders' = litter' /\ Full' = Full
    BY <1>1, Zenon DEF Holders, Own, Full
  <1>3. Scoped(configs(cfg)) = {} /\ Full \cap ownedTableTargets(configs(cfg)) = {}
    BY DEF OwnInv, SweepInv
  <1>4. HolderInv'
    <2>1. ASSUME NEW r \in rules PROVE r \in Made(Holders')
      <3>1. PICK l \in litter' : r \in Made({l})
        BY <1>1, <1>3, SweptOrLeft, Zenon DEF OwnInv
      <3>2. {l} \subseteq Holders'
        BY <1>2
      <3>. QED
        BY <3>1, <3>2, OwnMore, Zenon
    <2>2. ASSUME NEW x \in Full PROVE x \in ownedTableTargets(Holders')
      <3>0. x \notin ownedTableTargets(configs(cfg))
        BY <1>3
      <3>1. PICK l \in litter' : x \in ownedTableTargets({l})
        BY <1>1, <3>0, SweptOrLeft, Zenon DEF OwnInv
      <3>2. {l} \subseteq Holders'
        BY <1>2
      <3>. QED
        BY <3>1, <3>2, OwnMore, Zenon
    <2>. QED
      BY <1>1, <1>2, <2>1, <2>2 DEF HolderInv, Made
  <1>5. SweepInv' /\ ExactInv'
    BY <1>1 DEF SweepInv, ExactInv
  <1>. QED
    BY <1>4, <1>5 DEF OwnInv

\* Any other return leaves what the call may have touched to failed calls.
LEMMA OthersEndOwned ==
    ASSUME TypeOK, CallInv, OwnInv, op # "none", NEW ok \in BOOLEAN, Finish(ok),
           op \in {"apply", "rollback"} => ~ok,
           rules' \subseteq rules, rules' = rules \/ pc = "delRules", Full' \subseteq Full
    PROVE  OwnInv'
  <1>1. op' = "none" /\ pc' = "idle" /\ applied' = applied
    BY DEF Finish
  <1>2. Holders \subseteq Holders'
    <2>0. Holders' = litter' \cup Own
      BY <1>1 DEF Holders, Own
    <2>1. CASE op = "apply"
      <3>1. litter' = IF pc \in {"link", "snapshot"} THEN litter ELSE litter \cup configs(cfg)
        BY <2>1, Zenon DEF Finish, Record
      <3>. QED
        BY <2>0, <3>1, OwnersAre
    <2>2. CASE op = "rollback" \/ (op = "refresh" /\ ~ok)
      <3>1. litter' = litter \cup configs(cfg)
        BY <2>2 DEF Finish, Record
      <3>. QED
        BY <2>0, <3>1, OwnersAre
    <2>3. CASE op = "refresh" /\ ok
      <3>1. litter' = litter \/ litter' = litter \ {cfg}
        BY <2>3 DEF Finish, Record
      <3>. QED
        BY <2>0, <2>3, <3>1, OwnersAre
    <2>4. CASE op = "begin"
      <3>1. litter' = litter
        BY <2>4 DEF Finish, Record, history
      <3>. QED
        BY <2>0, <2>4, <3>1, OwnersAre
    <2>. QED
      BY <2>1, <2>2, <2>3, <2>4 DEF TypeOK
  <1>3. HolderInv'
    <2>1. rules' \subseteq Made(Holders') /\ Full' \subseteq ownedTableTargets(Holders')
      BY <1>2, OwnMore, Zenon DEF OwnInv, HolderInv
    <2>. QED
      BY <1>1, <2>1, Zenon DEF HolderInv, Made
  <1>4. SweepInv'
    BY <1>1 DEF SweepInv
  <1>5. ExactInv'
    <2>. SUFFICES ASSUME applied # NoConfig, torn' = "whole"
                  PROVE  /\ DesiredRules(applied) \subseteq rules'
                         /\ rules' \subseteq DesiredRules(applied) \cup transitionGuards(Holders')
      BY <1>1 DEF ExactInv
    <2>1. torn = "whole" /\ (op = "apply" => pc \in {"link", "snapshot", "guard"})
      <3>1. CASE op = "apply"
        BY <3>1 DEF Finish, Record
      <3>2. CASE op # "apply"
        <4>1. torn' = torn
          BY <3>2 DEF Finish, Record, history
        <4>. QED
          BY <3>2, <4>1
      <3>. QED
        BY <3>1, <3>2
    <2>2. pc # "delRules" /\ ~(op = "apply" /\ pc \in Guarded \cup {"unguard"})
      <3>1. op # "rollback"
        BY <2>1 DEF CallInv
      <3>. QED
        BY <2>1, <3>1 DEF CallInv, PhasesOf, TypeOK, Guarded
    <2>3. /\ DesiredRules(applied) \subseteq rules
          /\ rules \subseteq DesiredRules(applied) \cup transitionGuards(Holders)
      BY <2>1, <2>2 DEF OwnInv, ExactInv
    <2>4. transitionGuards(Holders) \subseteq transitionGuards(Holders')
      BY <1>2, OwnMore, Zenon
    <2>. QED
      BY <2>2, <2>3, <2>4
  <1>. QED
    BY <1>3, <1>4, <1>5 DEF OwnInv

\* The next loop begins where the last one has ended.
LEMMA EndPhaseOwns ==
    ASSUME TypeOK, CallInv, OwnInv, EndPhase
    PROVE  OwnInv'
  <1>0. /\ pc # "idle" /\ op # "none" /\ todo = {} /\ cfg \in Config
        /\ rules' = rules /\ table' = table /\ Full' = Full
    BY OwnersAre, Zenon DEF EndPhase, kernel, Full
  <1>1. CASE NextPhase(op, pc) = "idle" \/ (op = "refresh" /\ failed)
    <2>1. Finish(~failed) /\ (~failed) \in BOOLEAN
      BY <1>1, Zenon DEF EndPhase
    <2>2. op \in {"apply", "rollback", "refresh", "begin"}
      BY <1>0 DEF TypeOK
    <2>3. op = "apply" => pc = "unguard"
      BY <1>1 DEF NextPhase, CallInv, PhasesOf, Guarded
    <2>4. op = "rollback" => pc = "flush"
      BY <1>1 DEF NextPhase, CallInv, PhasesOf
    <2>5. failed \in BOOLEAN
      BY DEF TypeOK
    <2>6. CASE op = "apply" /\ ~failed
      <3>1. Finish(TRUE)
        BY <2>1, <2>5, <2>6, Zenon
      <3>. QED
        BY <1>0, <2>3, <2>6, <3>1, ApplyEndsOwned
    <2>7. CASE op = "rollback" /\ ~failed
      <3>1. Finish(TRUE)
        BY <2>1, <2>5, <2>7, Zenon
      <3>. QED
        BY <1>0, <2>4, <2>7, <3>1, RollbackEndsOwned
    <2>8. CASE ~(op \in {"apply", "rollback"} /\ ~failed)
      BY <1>0, <2>1, <2>8, OthersEndOwned, Zenon
    <2>. QED
      BY <2>6, <2>7, <2>8
  <1>2. CASE ~(NextPhase(op, pc) = "idle" \/ (op = "refresh" /\ failed))
    <2>1. /\ pc' = NextPhase(op, pc) /\ todo' = Work(op, NextPhase(op, pc), cfg, snap)
          /\ UNCHANGED <<op, cfg, failed, applied, litter>>
          /\ torn' = (IF op = "refresh" /\ pc = "safe" /\ torn = "torn" THEN "bared" ELSE torn)
      BY <1>2, Zenon DEF EndPhase
    <2>2. configs(cfg)' = configs(cfg) /\ \A cs : Scoped(cs)' = Scoped(cs)
      BY <1>0, <2>1, Zenon DEF configs, Scoped, Inside
    <2>3. Holders \subseteq Holders'
      <3>1. Own' = Own
        BY <2>1 DEF Own
      <3>2. CASE op = "apply"
        <4>1. pc \notin {"link", "snapshot"} => pc' \notin {"idle", "link", "snapshot"}
          BY <1>0, <1>2, <2>1, <3>2 DEF NextPhase, CallInv, PhasesOf, Guarded
        <4>. QED
          BY <1>0, <2>1, <3>1, <4>1 DEF Holders
      <3>3. CASE op \in {"refresh", "begin"}
        BY <2>1, <3>1, <3>3, OwnersAre DEF Holders
      <3>4. CASE op = "rollback"
        <4>1. pc' = "flush"
          BY <1>2, <2>1, <3>4 DEF NextPhase
        <4>. QED
          BY <2>1, <3>1, <4>1 DEF Holders
      <3>. QED
        BY <1>0, <3>2, <3>3, <3>4 DEF TypeOK
    <2>4. HolderInv'
      <3>1. rules' \subseteq Made(Holders') /\ Full' \subseteq ownedTableTargets(Holders')
        BY <1>0, <2>3, OwnMore, Zenon DEF OwnInv, HolderInv
      <3>2. (op = "apply" /\ torn # "stray" => \A l \in litter : Swept(l, configs(cfg)))'
        BY <2>1, <2>2, Zenon DEF OwnInv, HolderInv, Swept
      <3>. QED
        BY <3>1, <3>2, Zenon DEF HolderInv, Made
    <2>5. SweepInv'
      <3>1. CASE op = "apply"
        <4>1. pc' = "flush" => todo' = ownedTableTargets(configs(cfg))
          BY <2>1, <3>1 DEF Work
        <4>2. pc' = "delRules" => todo' = ownedRuleScopes(configs(cfg))
          BY <2>1, <3>1 DEF Work
        <4>3. pc' = "addRules" => pc = "delRules" /\ todo' = DesiredRules(cfg)
          BY <2>1, <3>1, Zenon DEF Work, NextPhase, CallInv, PhasesOf, Guarded
        <4>4. pc' = "unguard" =>
                pc = "addRules" /\ todo' = transitionGuards(configs(cfg)) \ DesiredRules(cfg)
          BY <2>1, <3>1, Zenon DEF Work, NextPhase, CallInv, PhasesOf, Guarded
        <4>5. pc' \in {"vpn", "safe", "delRules", "addRules", "unguard"} =>
                pc \in {"flush", "vpn", "safe", "delRules", "addRules"}
          BY <2>1, <3>1 DEF NextPhase, CallInv, PhasesOf, Guarded
        <4>6. pc' \in {"vpn", "safe", "delRules", "addRules", "unguard"} =>
                Full \cap ownedTableTargets(configs(cfg)) \subseteq ownedTableTargets({cfg})
          BY <1>0, <3>1, <4>5, Zenon DEF OwnInv, SweepInv
        <4>7. pc' = "addRules" => Scoped(configs(cfg)) \subseteq transitionGuards(configs(cfg))
          BY <1>0, <3>1, <4>3, Zenon DEF OwnInv, SweepInv, Scoped
        <4>8. pc' = "unguard" =>
                /\ Scoped(configs(cfg)) \subseteq
                     DesiredRules(cfg) \cup transitionGuards(configs(cfg))
                /\ DesiredRules(cfg) \subseteq rules
          BY <1>0, <3>1, <4>4, Zenon DEF OwnInv, SweepInv
        <4>9. UNCHANGED <<op, cfg, rules, Full>> /\ op' # "rollback"
          BY <1>0, <2>1, <3>1
        <4>. QED
          BY <2>2, <4>1, <4>2, <4>3, <4>4, <4>6, <4>7, <4>8, <4>9, Zenon DEF SweepInv
      <3>2. CASE op = "rollback"
        <4>1. pc = "delRules" /\ pc' = "flush" /\ todo' = ownedTableTargets(configs(cfg))
          BY <1>2, <2>1, <3>2 DEF NextPhase, Work
        <4>2. ~failed => Scoped(configs(cfg)) = {}
          BY <1>0, <3>2, <4>1, Zenon DEF OwnInv, SweepInv, Scoped
        <4>. QED
          BY <2>1, <2>2, <3>2, <4>1, <4>2, Zenon DEF SweepInv
      <3>3. CASE op \notin {"apply", "rollback"}
        BY <2>1, <3>3, Zenon DEF SweepInv
      <3>. QED
        BY <3>1, <3>2, <3>3
    <2>6. ExactInv'
      <3>. SUFFICES ASSUME applied # NoConfig, torn = "whole",
                           ~(op = "apply" /\ pc' \in Guarded \cup {"unguard"})
                    PROVE  /\ DesiredRules(applied) \subseteq rules
                           /\ rules \subseteq DesiredRules(applied) \cup transitionGuards(Holders')
        BY <1>0, <2>1 DEF ExactInv
      <3>1. ~(op = "apply" /\ pc \in Guarded \cup {"unguard"})
        BY <1>2, <2>1 DEF NextPhase, Guarded
      <3>2. /\ DesiredRules(applied) \subseteq rules
            /\ rules \subseteq DesiredRules(applied) \cup transitionGuards(Holders)
        BY <3>1 DEF OwnInv, ExactInv
      <3>3. transitionGuards(Holders) \subseteq transitionGuards(Holders')
        BY <2>3, OwnMore, Zenon
      <3>. QED
        BY <3>2, <3>3
    <2>. QED
      BY <2>4, <2>5, <2>6 DEF OwnInv
  <1>. QED
    BY <1>1, <1>2

----------------------------------------------------------------------------
(* An operation in one of its loops. *)

\* What the loops leave alone.
InsideLoop == UNCHANGED <<op, pc, cfg, applied, torn, litter>>

\* A step of a loop that keeps to what the call owns.
LEMMA LoopHolds ==
    ASSUME HolderInv, InsideLoop, rules' \subseteq rules \cup Made(Holders),
           Full' \subseteq Full \cup ownedTableTargets(Holders)
    PROVE  HolderInv' /\ Holders' = Holders /\ configs(cfg)' = configs(cfg)
  <1>1. Holders' = Holders /\ configs(cfg)' = configs(cfg)
    BY Zenon DEF InsideLoop, Holders, Own, configs
  <1>2. rules' \subseteq Made(Holders) /\ Full' \subseteq ownedTableTargets(Holders)
    BY DEF HolderInv
  <1>. QED
    BY <1>1, <1>2 DEF HolderInv, InsideLoop, Swept

\* A rule is added: a guard, or a rule of the configuration.
LEMMA AddRuleOwns ==
    ASSUME TypeOK, CallInv, OwnInv, InsideLoop, pc \in {"guard", "addRules"}, NEW r \in todo,
           rules' = rules \cup {r}, table' = table, todo' = todo \ {r}, failed' = failed
    PROVE  OwnInv'
  <1>0. /\ cfg \in Config /\ cfg \in configs(cfg) /\ op # "none"
        /\ Holders = litter \cup configs(cfg) /\ Full' = Full
    BY OwnersAre, Zenon DEF Full, configs
  <1>1. r \in Work(op, pc, cfg, snap)
    BY <1>0 DEF CallInv
  <1>2. CASE pc = "guard"
    <2>1. op \in {"apply", "refresh", "begin"}
      BY <1>2 DEF CallInv, PhasesOf, TypeOK
    <2>2. r \in transitionGuards(Holders)
      <3>1. r \in transitionGuards(configs(cfg)) \/ r \in transitionGuards({cfg})
        BY <1>1, <1>2 DEF Work
      <3>2. configs(cfg) \subseteq Holders /\ {cfg} \subseteq Holders
        BY <1>0
      <3>. QED
        BY <3>1, <3>2, OwnMore, Zenon
    <2>3. HolderInv' /\ Holders' = Holders
      <3>1. r \in Made(Holders)
        BY <2>2, Zenon DEF Made
      <3>2. rules' \subseteq rules \cup Made(Holders)
        BY <3>1
      <3>. QED
        BY <1>0, <3>2, LoopHolds DEF OwnInv
    <2>4. SweepInv'
      BY <1>2, <2>1, Zenon DEF SweepInv, InsideLoop
    <2>5. ExactInv'
      BY <1>2, <2>2, <2>3 DEF OwnInv, ExactInv, InsideLoop, Guarded
    <2>. QED
      BY <2>3, <2>4, <2>5 DEF OwnInv
  <1>3. CASE pc = "addRules"
    <2>1. op = "apply"
      BY <1>3 DEF CallInv, PhasesOf, TypeOK
    <2>2. r \in DesiredRules(cfg)
      BY <1>1, <1>3 DEF Work
    <2>3. r \in Made(Holders)
      BY <1>0, <2>2, Zenon DEF Made
    <2>4. HolderInv' /\ configs(cfg)' = configs(cfg)
      BY <1>0, <2>3, LoopHolds DEF OwnInv
    <2>5. SweepInv'
      <3>1. /\ Scoped(configs(cfg)) \subseteq DesiredRules(cfg) \cup transitionGuards(configs(cfg))
            /\ DesiredRules(cfg) \subseteq rules \cup todo
            /\ Full \cap ownedTableTargets(configs(cfg)) \subseteq ownedTableTargets({cfg})
        BY <1>3, <2>1, Zenon DEF OwnInv, SweepInv
      <3>2. Scoped(configs(cfg))' \subseteq Scoped(configs(cfg)) \cup {r}
        BY <2>4, Zenon DEF Scoped, Inside
      <3>. QED
        BY <1>0, <1>3, <2>1, <2>2, <2>4, <3>1, <3>2, Zenon DEF SweepInv, InsideLoop
    <2>6. ExactInv'
      BY <1>3, <2>1 DEF ExactInv, InsideLoop, Guarded
    <2>. QED
      BY <2>4, <2>5, <2>6 DEF OwnInv
  <1>. QED
    BY <1>2, <1>3

\* A rule is deleted: one in the way of a guard, or a guard.
LEMMA DeleteRuleOwns ==
    ASSUME TypeOK, CallInv, OwnInv, InsideLoop, pc \in {"obsolete", "unguard"}, NEW r \in todo,
           rules' = rules \ {r}, table' = table, todo' = todo \ {r}, failed' = failed
    PROVE  OwnInv'
  <1>0. cfg \in Config /\ op \in {"apply", "refresh"} /\ Full' = Full
    BY DEF CallInv, PhasesOf, TypeOK, Full
  <1>1. r \in Work(op, pc, cfg, snap)
    BY <1>0 DEF CallInv
  <1>2. HolderInv' /\ Holders' = Holders /\ configs(cfg)' = configs(cfg)
    BY <1>0, LoopHolds DEF OwnInv
  <1>3. CASE op = "apply"
    <2>1. SweepInv'
      <3>1. CASE pc = "unguard"
        <4>1. r \notin DesiredRules(cfg)
          BY <1>1, <1>3, <3>1 DEF Work
        <4>2. /\ Scoped(configs(cfg)) \subseteq DesiredRules(cfg) \cup todo
              /\ DesiredRules(cfg) \subseteq rules
              /\ Full \cap ownedTableTargets(configs(cfg)) \subseteq ownedTableTargets({cfg})
          BY <1>3, <3>1, Zenon DEF OwnInv, SweepInv
        <4>3. Scoped(configs(cfg))' \subseteq Scoped(configs(cfg)) \ {r}
          BY <1>2, Zenon DEF Scoped, Inside
        <4>. QED
          BY <1>0, <1>2, <1>3, <3>1, <4>1, <4>2, <4>3, Zenon DEF SweepInv, InsideLoop
      <3>2. CASE pc = "obsolete"
        BY <1>3, <3>2 DEF SweepInv, InsideLoop
      <3>. QED
        BY <3>1, <3>2
    <2>2. ExactInv'
      BY <1>3 DEF ExactInv, InsideLoop, Guarded
    <2>. QED
      BY <1>2, <2>1, <2>2 DEF OwnInv
  <1>4. CASE op = "refresh"
    <2>1. SweepInv'
      BY <1>4 DEF SweepInv, InsideLoop
    <2>2. ExactInv'
      <3>1. pc = "unguard" /\ cfg = applied
        BY <1>4 DEF CallInv, PhasesOf
      <3>2. PICK f \in cfg.families : r = transitionGuard(cfg, f)
        BY <1>1, <1>4, <3>1 DEF Work, transitionGuards
      <3>3. r \notin DesiredRules(applied)
        BY <1>0, <3>1, <3>2, GuardNotDesired, Zenon
      <3>. QED
        BY <1>2, <1>4, <3>3, Zenon DEF OwnInv, ExactInv, InsideLoop
    <2>. QED
      BY <1>2, <2>1, <2>2 DEF OwnInv
  <1>. QED
    BY <1>0, <1>3, <1>4

\* What flush loops over are targets.
LEMMA FlushTargets ==
    ASSUME TypeOK, CallInv, pc = "flush", NEW t \in todo
    PROVE  /\ t.table \in Tables /\ t.family \in Family
           /\ t = [table |-> t.table, family |-> t.family]
  <1>1. cfg \in Config /\ t \in Work(op, "flush", cfg, snap)
    BY DEF CallInv, PhasesOf
  <1>2. CASE op = "refresh"
    <2>1. t \in [table : {cfg.safe}, family : cfg.families]
      BY <1>1, <1>2 DEF Work
    <2>. QED
      BY <1>1, <2>1, FlushWork, Zenon
  <1>3. CASE op # "refresh"
    <2>1. PICK d \in configs(cfg) : t \in [table : {d.vpn, d.safe}, family : d.families]
      BY <1>1, <1>3 DEF Work, ownedTableTargets
    <2>. QED
      BY <1>1, <2>1, FlushWork, Zenon
  <1>. QED
    BY <1>2, <1>3

\* The emptiness of the tables when one table changes in one family.
LEMMA FullNext ==
    ASSUME TypeOK, NEW a \in Tables, NEW b \in Family, NEW v,
           table' = [table EXCEPT ![a][b] = v]
    PROVE  /\ v = {} => Full' = Full \ {[table |-> a, family |-> b]}
           /\ v \subseteq table[a][b] => Full' \subseteq Full
           /\ Full' \subseteq Full \cup {[table |-> a, family |-> b]}
  <1>1. table \in [Tables -> [Family -> SUBSET Route]]
    BY DEF TypeOK
  <1>2. ASSUME NEW t \in Tables, NEW f \in Family
        PROVE  table'[t][f] = IF t = a /\ f = b THEN v ELSE table[t][f]
    BY <1>1
  <1>3. ASSUME NEW x \in [table : Tables, family : Family]
        PROVE  /\ x.table \in Tables /\ x.family \in Family
               /\ x.table = a /\ x.family = b <=> x = [table |-> a, family |-> b]
    OBVIOUS
  <1>4. ASSUME NEW x \in [table : Tables, family : Family]
        PROVE  x \in Full' <=> IF x = [table |-> a, family |-> b] THEN v # {} ELSE x \in Full
    BY <1>2, <1>3 DEF Full
  <1>5. \A x \in Full' \cup Full : x \in [table : Tables, family : Family]
    BY DEF Full
  <1>6. v \subseteq table[a][b] /\ v # {} => [table |-> a, family |-> b] \in Full
    BY DEF Full
  <1>. QED
    BY <1>4, <1>5, <1>6

\* A table is flushed for one family, or the flush goes on after a failure.
LEMMA FlushOwns ==
    ASSUME TypeOK, CallInv, OwnInv, InsideLoop, pc = "flush", NEW x \in todo,
           rules' = rules, Full' \subseteq Full, todo' = todo \ {x},
           \/ failed' = failed /\ x \notin Full'
           \/ failed' = TRUE /\ op # "apply"
    PROVE  OwnInv'
  <1>1. HolderInv' /\ Holders' = Holders /\ configs(cfg)' = configs(cfg)
    BY LoopHolds DEF OwnInv
  <1>2. \A cs : Scoped(cs)' = Scoped(cs)
    BY Zenon DEF Scoped, Inside
  <1>3. UNCHANGED <<op, pc, cfg>>
    BY DEF InsideLoop
  <1>4. op = "apply" =>
          /\ failed' = failed /\ x \notin Full'
          /\ Full \cap ownedTableTargets(configs(cfg)) \subseteq todo
    BY Zenon DEF OwnInv, SweepInv
  <1>5. op = "rollback" /\ ~failed' =>
          /\ x \notin Full' /\ Scoped(configs(cfg)) = {}
          /\ Full \cap ownedTableTargets(configs(cfg)) \subseteq todo
    BY Zenon DEF OwnInv, SweepInv
  <1>6. SweepInv'
    BY <1>1, <1>2, <1>3, <1>4, <1>5, Zenon DEF SweepInv
  <1>7. ExactInv'
    BY <1>1 DEF OwnInv, ExactInv, InsideLoop
  <1>. QED
    BY <1>1, <1>6, <1>7 DEF OwnInv

\* A route is written to a table of the configuration.
LEMMA ReplaceOwns ==
    ASSUME TypeOK, CallInv, OwnInv, InsideLoop, pc \in {"vpn", "safe"}, rules' = rules,
           NEW y \in ownedTableTargets({cfg}), Full' \subseteq Full \cup {y}
    PROVE  OwnInv'
  <1>0. /\ op \in {"apply", "refresh"} /\ cfg \in Holders
        /\ UNCHANGED <<op, pc, cfg>>
    BY DEF CallInv, PhasesOf, TypeOK, InsideLoop, Holders
  <1>1. y \in ownedTableTargets(Holders)
    <2>1. {cfg} \subseteq Holders
      BY <1>0
    <2>. QED
      BY <2>1, OwnMore, Zenon
  <1>2. HolderInv' /\ Holders' = Holders /\ configs(cfg)' = configs(cfg)
    BY <1>1, LoopHolds DEF OwnInv
  <1>3. SweepInv'
    <2>1. op = "apply" =>
            Full \cap ownedTableTargets(configs(cfg)) \subseteq ownedTableTargets({cfg})
      BY Zenon DEF OwnInv, SweepInv
    <2>. QED
      BY <1>0, <1>2, <2>1, Zenon DEF SweepInv
  <1>4. ExactInv'
    BY <1>2 DEF OwnInv, ExactInv, InsideLoop
  <1>. QED
    BY <1>2, <1>3, <1>4 DEF OwnInv

\* The rules of a scope are deleted, or Rollback goes on after a failure.
LEMMA SweepOwns ==
    ASSUME ApartBlocks, TypeOK, CallInv, OwnInv, InsideLoop, pc = "delRules", NEW s \in todo,
           table' = table, todo' = todo \ {s}, rules' \subseteq rules,
           \/ failed' = failed /\ rules' = rules \ OwnedRules(s)
           \/ failed' = TRUE /\ op # "apply"
    PROVE  OwnInv'
  <1>0. /\ op \in {"apply", "rollback"} /\ op # "none" /\ UNCHANGED <<op, pc, cfg>>
        /\ configs(cfg) \subseteq Config /\ Holders \subseteq Config
    BY OwnersAre DEF CallInv, PhasesOf, TypeOK, InsideLoop
  <1>1. Full' = Full
    BY DEF Full
  <1>2. HolderInv' /\ configs(cfg)' = configs(cfg)
    BY <1>1, LoopHolds DEF OwnInv
  <1>3. CASE op = "apply"
    <2>1. /\ Full \cap ownedTableTargets(configs(cfg)) \subseteq ownedTableTargets({cfg})
          /\ \A q \in ownedRuleScopes(configs(cfg)) \ todo, r \in rules :
               Inside(r, q) => r \in transitionGuards(configs(cfg))
      BY <1>3, Zenon DEF OwnInv, SweepInv
    <2>2. ASSUME NEW r \in rules', Inside(r, s)
          PROVE  r \in transitionGuards(configs(cfg))
      <3>1. keepListed(r, transitionGuards(configs(cfg)))
        BY <1>3, <2>2, Zenon DEF OwnedRules, Inside
      <3>2. PICK d \in Holders : r \in Made({d})
        BY OwnedByOne, Zenon DEF OwnInv, HolderInv
      <3>. QED
        BY <1>0, <3>1, <3>2, KeptAreGuards, Zenon
    <2>3. \A q \in ownedRuleScopes(configs(cfg)) \ todo', r \in rules' :
            Inside(r, q) => r \in transitionGuards(configs(cfg))
      BY <2>1, <2>2
    <2>4. SweepInv'
      BY <1>0, <1>1, <1>2, <1>3, <2>1, <2>3, Zenon DEF SweepInv
    <2>5. ExactInv'
      BY <1>0, <1>3 DEF ExactInv, Guarded
    <2>. QED
      BY <1>2, <2>4, <2>5 DEF OwnInv
  <1>4. CASE op = "rollback"
    <2>1. ~failed' =>
            \A q \in ownedRuleScopes(configs(cfg)) \ todo', r \in rules' : ~Inside(r, q)
      <3>. SUFFICES ASSUME ~failed', NEW q \in ownedRuleScopes(configs(cfg)) \ todo',
                           NEW r \in rules', Inside(r, q)
                    PROVE  FALSE
        OBVIOUS
      <3>1. ~failed /\ rules' = rules \ OwnedRules(s)
        OBVIOUS
      <3>2. q = s
        BY <1>4, <3>1, Zenon DEF OwnInv, SweepInv
      <3>. QED
        BY <1>4, <3>1, <3>2, Zenon DEF OwnedRules, Inside, keepListed, keepRule
    <2>2. SweepInv'
      BY <1>0, <1>2, <1>4, <2>1, Zenon DEF SweepInv
    <2>3. ExactInv'
      BY <1>4 DEF ExactInv, CallInv, InsideLoop
    <2>. QED
      BY <1>2, <2>2, <2>3 DEF OwnInv
  <1>. QED
    BY <1>0, <1>3, <1>4

----------------------------------------------------------------------------
(* Every step. *)

\* Adapter calls that succeed.
LEMMA CallStepOwns ==
    ASSUME ApartBlocks, TypeOK, CallInv, OwnInv, CallStep
    PROVE  OwnInv'
  <1>1. CASE EndPhase
    BY <1>1, EndPhaseOwns
  <1>2. ASSUME NEW x, Did(x)
        PROVE  InsideLoop /\ x \in todo /\ todo' = todo \ {x} /\ failed' = failed
    BY <1>2, Zenon DEF Did, IsNext, InsideLoop, history
  <1>3. CASE LinkByIndex \/ ListMain
    <2>1. /\ pc \in {"link", "snapshot"} /\ InsideLoop /\ failed' = failed
          /\ rules' = rules /\ table' = table
      BY <1>2, <1>3, Zenon DEF LinkByIndex, ListMain, kernel
    <2>2. Full' = Full
      BY <2>1 DEF Full
    <2>. QED
      BY <2>1, <2>2, OwnStays DEF InsideLoop
  <1>4. CASE AddRule
    <2>1. PICK r \in todo : Did(r) /\ rules' = rules \cup {r}
      BY <1>4 DEF AddRule
    <2>. QED
      BY <1>2, <1>4, <2>1, AddRuleOwns, Zenon DEF AddRule
  <1>5. CASE DeleteRule
    <2>1. PICK r \in todo : Did(r) /\ rules' = rules \ {r}
      BY <1>5 DEF DeleteRule
    <2>. QED
      BY <1>2, <1>5, <2>1, DeleteRuleOwns, Zenon DEF DeleteRule
  <1>6. CASE flushTableFamily
    <2>1. PICK t \in todo : Did(t) /\ table' = [table EXCEPT ![t.table][t.family] = {}]
      BY <1>6, Zenon DEF flushTableFamily
    <2>2. pc = "flush" /\ rules' = rules
      BY <1>6 DEF flushTableFamily
    <2>3. /\ t.table \in Tables /\ t.family \in Family
          /\ t = [table |-> t.table, family |-> t.family]
      BY <2>2, FlushTargets
    <2>4. Full' = Full \ {t}
      BY <2>1, <2>3, FullNext, Zenon
    <2>5. Full' \subseteq Full /\ t \notin Full'
      BY <2>4
    <2>. QED
      BY <1>2, <2>1, <2>2, <2>5, FlushOwns, Zenon
  <1>7. CASE ReplaceRoute
    <2>. DEFINE to == IF pc = "vpn" THEN cfg.vpn ELSE cfg.safe
    <2>1. PICK x \in todo :
            Did(x) /\ table' = [table EXCEPT ![to][x.family] = @ \cup {x.route}]
      BY <1>7, Zenon DEF ReplaceRoute
    <2>2. pc \in {"vpn", "safe"} /\ rules' = rules /\ cfg \in Config
      BY <1>7 DEF ReplaceRoute, CallInv, PhasesOf
    <2>3. x.family \in cfg.families /\ x.family \in Family
      <3>1. x \in Work(op, pc, cfg, snap)
        BY <2>2 DEF CallInv, PhasesOf
      <3>2. x.family \in cfg.families
        BY <2>2, <3>1 DEF Work
      <3>. QED
        BY <2>2, <3>2, ConfigFields
    <2>4. to \in Tables
      BY <2>2 DEF Tables
    <2>5. [table |-> to, family |-> x.family] \in ownedTableTargets({cfg})
      BY <2>2, <2>3 DEF ownedTableTargets
    <2>6. PICK v : table' = [table EXCEPT ![to][x.family] = v]
      BY <2>1, Zenon
    <2>. HIDE DEF to
    <2>7. Full' \subseteq Full \cup {[table |-> to, family |-> x.family]}
      BY <2>3, <2>4, <2>6, FullNext, Zenon
    <2>. QED
      BY <1>2, <2>1, <2>2, <2>5, <2>7, ReplaceOwns
  <1>8. CASE deleteOwnedRules
    <2>1. PICK s \in todo : Did(s) /\ rules' = rules \ OwnedRules(s)
      BY <1>8 DEF deleteOwnedRules
    <2>2. rules' \subseteq rules /\ pc = "delRules" /\ table' = table
      BY <1>8, <2>1 DEF deleteOwnedRules
    <2>. QED
      BY <1>2, <2>1, <2>2, SweepOwns, Zenon
  <1>. QED
    BY <1>1, <1>3, <1>4, <1>5, <1>6, <1>7, <1>8 DEF CallStep

\* Adapter calls that fail.
LEMMA FailureOwns ==
    ASSUME ApartBlocks, TypeOK, CallInv, OwnInv, AdapterFails
    PROVE  OwnInv'
  <1>0. pc # "idle" /\ op # "none"
    BY OwnersAre DEF AdapterFails
  <1>1. PICK x \in todo :
          /\ PartialEffect(x)
          /\ IF GoesOn
               THEN /\ todo' = todo \ {x} /\ failed' = TRUE
                    /\ UNCHANGED <<op, owner, pc, cfg, snap, applied, monitor, history>>
               ELSE Finish(FALSE)
    BY Zenon DEF AdapterFails
  <1>2. /\ rules' \subseteq rules /\ Full' \subseteq Full
        /\ pc = "flush" => rules' = rules
        /\ pc = "delRules" => table' = table
        /\ pc # "delRules" => rules' = rules
    <2>1. CASE pc = "flush"
      <3>1. PICK left \in SUBSET table[x.table][x.family] :
              table' = [table EXCEPT ![x.table][x.family] = left]
        BY <1>1, <2>1 DEF PartialEffect
      <3>2. rules' = rules
        BY <1>1, <2>1 DEF PartialEffect
      <3>3. x.table \in Tables /\ x.family \in Family
        BY <2>1, FlushTargets
      <3>4. Full' \subseteq Full
        BY <3>1, <3>3, FullNext, Zenon
      <3>. QED
        BY <2>1, <3>2, <3>4
    <2>2. CASE pc = "delRules"
      <3>1. PICK left \in SUBSET OwnedRules(x) : rules' = (rules \ OwnedRules(x)) \cup left
        BY <1>1, <2>2 DEF PartialEffect
      <3>2. table' = table /\ OwnedRules(x) \subseteq rules
        BY <1>1, <2>2 DEF PartialEffect, OwnedRules
      <3>3. Full' = Full
        BY <3>2 DEF Full
      <3>. QED
        BY <2>2, <3>1, <3>2, <3>3
    <2>3. CASE pc \notin {"flush", "delRules"}
      <3>1. rules' = rules /\ table' = table
        BY <1>1, <2>3 DEF PartialEffect, kernel
      <3>2. Full' = Full
        BY <3>1 DEF Full
      <3>. QED
        BY <2>3, <3>1, <3>2
    <2>. QED
      BY <2>1, <2>2, <2>3
  <1>3. CASE GoesOn
    <2>1. InsideLoop /\ todo' = todo \ {x} /\ failed' = TRUE
      BY <1>1, <1>3, Zenon DEF InsideLoop, history
    <2>2. op # "apply" /\ pc \in {"flush", "delRules"}
      BY <1>3 DEF GoesOn, CallInv, PhasesOf
    <2>3. CASE pc = "flush"
      BY <1>2, <2>1, <2>2, <2>3, FlushOwns, Zenon
    <2>4. CASE pc = "delRules"
      BY <1>2, <2>1, <2>2, <2>4, SweepOwns, Zenon
    <2>. QED
      BY <2>2, <2>3, <2>4
  <1>4. CASE ~GoesOn
    <2>1. Finish(FALSE)
      BY <1>1, <1>4, Zenon
    <2>. QED
      BY <1>0, <1>2, <2>1, OthersEndOwned, Zenon
  <1>. QED
    BY <1>3, <1>4

\* Calls of the manager.
LEMMA CallsOwn ==
    ASSUME TypeOK, CallInv, OwnInv,
           \/ \E c \in Config : Apply(c) \/ Rollback(c)
           \/ Refresh
    PROVE  OwnInv'
  <1>1. ASSUME NEW c \in Config, Apply(c) PROVE OwnInv'
    <2>1. /\ Start("apply", "caller", "link", c) /\ UNCHANGED <<rules, table, applied, litter>>
          /\ torn' = IF \A l \in litter : Swept(l, configs(c)) THEN torn ELSE "stray"
      BY <1>1, Zenon DEF Apply, kernel
    <2>. QED
      BY <2>1, StartOwns, Zenon
  <1>2. ASSUME NEW c \in Config, Rollback(c) PROVE OwnInv'
    <2>1. /\ Start("rollback", "caller", "delRules", c)
          /\ UNCHANGED <<rules, table, applied, litter>> /\ torn' = "torn"
      BY <1>2, Zenon DEF Rollback, kernel
    <2>. QED
      BY <2>1, StartOwns, Zenon
  <1>3. CASE Refresh
    <2>1. /\ Start("refresh", "caller", "guard", applied)
          /\ UNCHANGED <<rules, table, applied, litter>> /\ torn' = torn
      BY <1>3, Zenon DEF Refresh, kernel, history
    <2>2. applied \in Config
      BY <1>3 DEF Refresh, TypeOK
    <2>. QED
      BY <2>1, <2>2, StartOwns, Zenon
  <1>. QED
    BY <1>1, <1>2, <1>3, Zenon

\* The monitor.
LEMMA MonitorOwns ==
    ASSUME TypeOK, CallInv, OwnInv, MonStep
    PROVE  OwnInv'
  <1>1. /\ UNCHANGED <<rules, table, applied, torn, litter>>
        /\ \/ UNCHANGED call
           \/ /\ ~Quiet
              /\ \E o \in {"refresh", "begin"} : Start(o, "monitor", "guard", applied)
    BY Zenon DEF MonStep, MonEvent, MonChannelClosed, beginRouteChange, MonTimer,
                 refreshAfterRouteChange, MonStop, kernel, history
  <1>2. CASE UNCHANGED call
    <2>1. UNCHANGED <<op, pc, cfg, todo, failed>> /\ Full' = Full
      BY <1>1, <1>2 DEF call, Full
    <2>. QED
      BY <1>1, <2>1, OwnStays
  <1>3. ASSUME ~Quiet, NEW o \in {"refresh", "begin"}, Start(o, "monitor", "guard", applied)
        PROVE  OwnInv'
    <2>1. applied \in Config
      BY <1>3 DEF Quiet, TypeOK
    <2>. QED
      BY <1>1, <1>3, <2>1, StartOwns, Zenon
  <1>. QED
    BY <1>1, <1>2, <1>3, Zenon

\* Close and the environment.
LEMMA EnvironmentOwns ==
    ASSUME TypeOK, CallInv, OwnInv,
           \/ \E c \in Closer : CloseBegin(c) \/ CloseAdapter(c) \/ CloseReturn(c)
           \/ \E f \in Family, r \in MainRoute : RouteChange(f, r)
           \/ \E d \in TunLinks : LinkLost(d)
           \/ SubscriptionFails
    PROVE  OwnInv'
  <1>1. UNCHANGED <<rules, applied, call, torn, litter>>
    BY Zenon DEF CloseBegin, CloseAdapter, CloseReturn, RouteChange, LinkLost,
                 SubscriptionFails, kernel, history
  <1>2. Full' \subseteq Full
    <2>1. ASSUME NEW d \in TunLinks, LinkLost(d) PROVE Full' \subseteq Full
      <3>1. table' = [t \in Tables |-> [f \in Family |-> table[t][f] \ Over(d, table[t][f])]]
        BY <2>1, Zenon DEF LinkLost
      <3>. QED
        BY <3>1, Zenon DEF Full
    <2>2. CASE ~\E d \in TunLinks : LinkLost(d)
      <3>1. table' = table
        BY <2>2, Zenon DEF CloseBegin, CloseAdapter, CloseReturn, RouteChange,
                           SubscriptionFails, kernel
      <3>. QED
        BY <3>1, Zenon DEF Full
    <2>. QED
      BY <2>1, <2>2
  <1>3. UNCHANGED <<op, pc, cfg, todo, failed>>
    BY <1>1 DEF call
  <1>. QED
    BY <1>1, <1>2, <1>3, OwnStays

\* OwnInv is inductive.
LEMMA OwnInduction ==
    ASSUME ApartBlocks
    PROVE  TypeOK /\ CallInv /\ OwnInv /\ [Next]_vars => OwnInv'
  <1>. SUFFICES ASSUME TypeOK, CallInv, OwnInv, [Next]_vars PROVE OwnInv'
    OBVIOUS
  <1>1. CASE UNCHANGED vars
    <2>1. UNCHANGED <<rules, table, applied, op, pc, cfg, todo, failed, torn, litter>>
      BY <1>1 DEF vars, kernel, call, history
    <2>2. Full' = Full
      BY <2>1 DEF Full
    <2>. QED
      BY <2>1, <2>2, OwnStays
  <1>. QED
    BY <1>1, CallStepOwns, FailureOwns, CallsOwn, MonitorOwns, EnvironmentOwns, CrashOwns, Zenon
    DEF Next

\* OwnInv holds at the start.
LEMMA InitOwn == Init => OwnInv
  <1>. SUFFICES ASSUME Init PROVE OwnInv
    OBVIOUS
  <1>1. rules = {} /\ op = "none" /\ applied = NoConfig
    BY DEF Init
  <1>2. Full = {}
    BY DEF Init, Full, NoRoutes
  <1>. QED
    BY <1>1, <1>2, Zenon DEF OwnInv, HolderInv, SweepInv, ExactInv

\* When no call has failed the kernel holds the rules of the applied configuration,
\* at most its guards besides, and routes in its tables only; after Rollback it holds
\* nothing: Apply sweeps what it replaces, for priority blocks that are apart.
THEOREM OwnedExactlyHolds ==
    ASSUME ApartBlocks
    PROVE  Spec => []OwnedExactly
  <1>1. Init => TypeOK /\ CallInv /\ OwnInv
    BY InitTypes, InitOwn
  <1>2. TypeOK /\ CallInv /\ OwnInv /\ [Next]_vars => (TypeOK /\ CallInv /\ OwnInv)'
    BY TypeInduction, OwnInduction
  <1>3. TypeOK /\ CallInv /\ OwnInv => OwnedExactly
    <2>. SUFFICES ASSUME TypeOK, CallInv, OwnInv, pc = "idle", torn = "whole", litter = {}
                  PROVE  /\ UNION {DesiredRules(c) : c \in Own} \subseteq rules
                         /\ rules \subseteq (UNION {DesiredRules(c) : c \in Own})
                                              \cup transitionGuards(Own)
                         /\ \A t \in Tables, f \in Family :
                              table[t][f] # {} =>
                                [table |-> t, family |-> f] \in ownedTableTargets(Own)
      BY Zenon DEF OwnedExactly, Own
    <2>1. Holders = Own /\ op = "none"
      BY OwnersAre
    <2>2. rules \subseteq Made(Own) /\ Full \subseteq ownedTableTargets(Own)
      BY <2>1 DEF OwnInv, HolderInv
    <2>3. UNION {DesiredRules(c) : c \in Own} \subseteq rules
      <3>1. applied # NoConfig => DesiredRules(applied) \subseteq rules
        BY <2>1 DEF OwnInv, ExactInv
      <3>. QED
        BY <3>1, Zenon DEF Own
    <2>4. ASSUME NEW t \in Tables, NEW f \in Family, table[t][f] # {}
          PROVE  [table |-> t, family |-> f] \in ownedTableTargets(Own)
      <3>1. [table |-> t, family |-> f] \in Full
        BY <2>4, Zenon DEF Full
      <3>. QED
        BY <2>2, <3>1
    <2>. QED
      BY <2>2, <2>3, <2>4, Zenon DEF Made
  <1>. QED
    BY <1>1, <1>2, <1>3, PTL DEF Spec
=============================================================================
