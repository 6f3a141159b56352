--------------------------- MODULE RoutingSafety ---------------------------
(***************************************************************************)
(* Routing!FailClosed holds in every reachable state of a manager whose     *)
(* configurations share one priority block: RoutingInvariant!IInv is        *)
(* inductive.  SafeTableCurrent holds for every set of configurations:      *)
(* RoutingInvariant!CurrentInv is inductive.                                *)
(***************************************************************************)
EXTENDS RoutingProofs

----------------------------------------------------------------------------
(* What a step of the kernel does to Enforces and Protected. *)

\* No table gains a route of family f.
Shrinks(f) == \A t \in Tables : table'[t][f] \subseteq table[t][f]

\* In one priority block all configurations have the same guard.
LEMMA SharedGuard ==
    ASSUME OneBlock, NEW c \in Config, NEW d \in Config, NEW f
    PROVE  transitionGuard(c, f) = transitionGuard(d, f)
  BY DEF OneBlock, transitionGuard

\* A compiled rule is never a guard.
LEMMA GuardNotCompiled ==
    ASSUME OneBlock, NEW c \in Config, NEW d \in Config, NEW f, NEW g,
           transitionGuard(d, f) \in compileRules(c, g)
    PROVE  FALSE
  <1>1. transitionGuard(d, f).prio = c.base + 2
    BY DEF OneBlock, transitionGuard, MkRule
  <1>. QED
    BY <1>1, CompiledShape

\* Every element of transitionGuards is the guard of a configuration.
LEMMA GuardsOf ==
    ASSUME NEW cs, NEW g \in transitionGuards(cs)
    PROVE  \E c \in cs : \E f \in c.families : g = transitionGuard(c, f)
  BY DEF transitionGuards

\* The guard of a configuration's family is among its guards.
LEMMA GuardIn ==
    ASSUME NEW cs, NEW c \in cs, NEW f \in c.families
    PROVE  transitionGuard(c, f) \in transitionGuards(cs)
  BY DEF transitionGuards

\* The tables of a configuration are owned tables.
LEMMA TablesOf ==
    ASSUME NEW c \in Config
    PROVE  c.vpn \in Tables /\ c.safe \in Tables
  BY DEF Tables

\* A policy stays enforced while its rules stay and tables only shrink.
LEMMA EnforcesKept ==
    ASSUME NEW c \in Config, NEW f, Enforces(c, f),
           compileRules(c, f) \subseteq rules',
           \A r \in rules' : r.family = f => r \in rules \/ r = transitionGuard(c, f),
           Shrinks(f)
    PROVE  Enforces(c, f)'
  <1>1. OnlyRulesOf(c, f)'
    BY DEF Enforces, OnlyRulesOf
  <1>2. SafeOnly(c, f)' /\ TunOnly(c, f)'
    BY TablesOf DEF Enforces, SafeOnly, TunOnly, Shrinks
  <1>. QED
    BY <1>1, <1>2 DEF Enforces

\* A family stays protected while rules stay and tables only shrink.
LEMMA ProtectedKept ==
    ASSUME NEW f, duty \subseteq Config, Protected(f), duty \subseteq duty',
           rules' = rules, Shrinks(f)
    PROVE  Protected(f)'
  <1>1. CASE \E c \in Config : transitionGuard(c, f) \in rules
    BY <1>1 DEF Protected
  <1>2. CASE \E c \in duty : f \notin c.families \/ Enforces(c, f)
    <2>1. PICK c \in duty : f \notin c.families \/ Enforces(c, f)
      BY <1>2
    <2>2. Enforces(c, f) => Enforces(c, f)'
      BY EnforcesKept DEF Enforces
    <2>. QED
      BY <2>1, <2>2 DEF Protected
  <1>. QED
    BY <1>1, <1>2 DEF Protected

\* Adding a guard.
LEMMA ProtectedByGuard ==
    ASSUME OneBlock, NEW f, duty \subseteq Config, Protected(f), duty' = duty,
           NEW d \in Config, NEW g, rules' = rules \cup {transitionGuard(d, g)}, Shrinks(f)
    PROVE  Protected(f)'
  <1>1. CASE \E c \in Config : transitionGuard(c, f) \in rules
    BY <1>1 DEF Protected
  <1>2. CASE \E c \in duty : f \notin c.families \/ Enforces(c, f)
    <2>1. PICK c \in duty : f \notin c.families \/ Enforces(c, f)
      BY <1>2
    <2>2. ASSUME NEW r \in rules', r.family = f
          PROVE  r \in rules \/ r = transitionGuard(c, f)
      <3>1. transitionGuard(d, g).family = g
        BY DEF transitionGuard, MkRule
      <3>. QED
        BY <2>2, <3>1, SharedGuard
    <2>3. Enforces(c, f) => Enforces(c, f)'
      BY <2>2, EnforcesKept DEF Enforces
    <2>. QED
      BY <2>1, <2>3 DEF Protected
  <1>. QED
    BY <1>1, <1>2 DEF Protected

\* While applyDesired is past its guard phase every family is protected.
ApplyGuards ==
    CallInv /\ GuardInv /\ BuildInv /\ op = "apply" /\ pc \in Guarded \cup {"unguard"}

\* While Apply has its guards in place every family is protected.
LEMMA ApplyProtects == ApplyGuards => \A f \in Family : Protected(f)
  <1>. SUFFICES ASSUME ApplyGuards, NEW f \in Family
                PROVE  Protected(f)
    OBVIOUS
  <1>1. cfg \in Config /\ cfg \in duty /\ cfg \in configs(cfg)
    BY DEF ApplyGuards, CallInv, configs
  <1>2. CASE f \notin cfg.families
    BY <1>1, <1>2 DEF Protected
  <1>3. CASE f \in cfg.families /\ pc \in Guarded
    BY <1>1, <1>3, GuardIn DEF ApplyGuards, GuardInv, Protected
  <1>4. CASE f \in cfg.families /\ pc = "unguard"
    BY <1>1, <1>4 DEF ApplyGuards, BuildInv, Enforces, Protected
  <1>. QED
    BY <1>2, <1>3, <1>4 DEF ApplyGuards

\* ApplyProtects in the next state.
LEMMA ApplyProtectsNext == ApplyGuards' => (\A f \in Family : Protected(f))'
  BY ApplyProtects, PTL

----------------------------------------------------------------------------
(* Steps that leave the rules and the call alone. *)

KernelInv == RulesInv /\ GuardInv /\ BuildInv /\ AppliedInv /\ ProtectedInv

\* IInv splits into types, call structure and the state of the kernel.
LEMMA InvParts == IInv <=> TypeOK /\ CallInv /\ KernelInv
  BY DEF IInv, KernelInv

\* A step that leaves rules and call alone keeps the kernel part.
LEMMA FrameKeeps ==
    ASSUME IInv, \A f \in Family : Shrinks(f),
           UNCHANGED <<rules, applied, op, pc, cfg, todo, duty, torn>>
    PROVE  KernelInv'
  <1>. TypeOK /\ CallInv /\ KernelInv
    BY InvParts
  <1>1. RulesInv'
    BY DEF KernelInv, RulesInv
  <1>2. GuardInv'
    BY DEF KernelInv, GuardInv, configs
  <1>3. BuildInv'
    <2>. SUFFICES ASSUME op = "apply", NEW f \in cfg.families
                  PROVE  (/\ pc = "flush" => \A t \in {cfg.vpn, cfg.safe} :
                               [table |-> t, family |-> f] \in todo \/ table[t][f] = {}
                          /\ pc \in {"vpn", "safe", "delRules", "addRules", "unguard"} =>
                               SafeOnly(cfg, f) /\ TunOnly(cfg, f)
                          /\ pc = "delRules" =>
                               \/ [base |-> cfg.base, family |-> f] \in todo
                               \/ \A r \in rules : r.family = f => r = transitionGuard(cfg, f)
                          /\ pc \in {"addRules", "unguard"} => OnlyRulesOf(cfg, f)
                          /\ pc = "addRules" =>
                               \A r \in compileRules(cfg, f) : r \in rules \/ r \in todo
                          /\ pc = "unguard" => compileRules(cfg, f) \subseteq rules)'
      BY DEF BuildInv
    <2>1. cfg \in Config /\ f \in Family
      BY ConfigFields DEF CallInv
    <2>2. cfg.vpn \in Tables /\ cfg.safe \in Tables /\ Shrinks(f)
      BY <2>1, TablesOf
    <2>3. pc = "flush" => \A t \in {cfg.vpn, cfg.safe} :
                            [table |-> t, family |-> f] \in todo \/ table'[t][f] = {}
      BY <2>2, Zenon DEF KernelInv, BuildInv, Shrinks
    <2>4. pc \in {"vpn", "safe", "delRules", "addRules", "unguard"} =>
            SafeOnly(cfg, f)' /\ TunOnly(cfg, f)'
      BY <2>2, Zenon DEF KernelInv, BuildInv, Shrinks, SafeOnly, TunOnly
    <2>5. pc \in {"addRules", "unguard"} => OnlyRulesOf(cfg, f)'
      BY Zenon DEF KernelInv, BuildInv, OnlyRulesOf
    <2>. QED
      BY <2>3, <2>4, <2>5 DEF KernelInv, BuildInv
  <1>4. AppliedInv'
    <2>. SUFFICES ASSUME applied # NoConfig, torn = "whole",
                         ~(op = "apply" /\ pc \in Guarded \cup {"unguard"}),
                         NEW f \in applied.families
                  PROVE  applied \in duty /\ Enforces(applied, f)'
      BY DEF AppliedInv, KernelInv
    <2>1. applied \in duty /\ Enforces(applied, f)
      BY DEF AppliedInv, KernelInv
    <2>2. applied \in Config /\ f \in Family
      BY ConfigFields DEF TypeOK
    <2>3. OnlyRulesOf(applied, f)' /\ SafeOnly(applied, f)' /\ TunOnly(applied, f)'
      BY <2>1, <2>2, TablesOf DEF Enforces, OnlyRulesOf, SafeOnly, TunOnly, Shrinks
    <2>. QED
      BY <2>1, <2>3 DEF Enforces
  <1>5. ProtectedInv'
    BY ProtectedKept DEF ProtectedInv, KernelInv, TypeOK
  <1>. QED
    BY <1>1, <1>2, <1>3, <1>4, <1>5 DEF KernelInv

\* Unchanged tables do not grow.
LEMMA SameTables ==
    ASSUME table' = table
    PROVE  \A f \in Family : Shrinks(f)
  BY DEF Shrinks

\* Close, main-table changes and lost subscriptions keep the kernel part.
LEMMA EnvironmentKeeps ==
    ASSUME IInv,
           \/ \E c \in Closer : CloseBegin(c) \/ CloseAdapter(c) \/ CloseReturn(c)
           \/ \E f \in Family, r \in MainRoute : RouteChange(f, r)
           \/ SubscriptionFails
           \/ UNCHANGED vars
    PROVE  KernelInv'
  <1>1. UNCHANGED <<rules, table, applied, op, pc, cfg, todo, duty, torn>>
    BY DEF CloseBegin, CloseAdapter, CloseReturn, RouteChange, SubscriptionFails, vars,
           kernel, call, history
  <1>. QED
    BY <1>1, SameTables, FrameKeeps

\* The loss of a TUN link, which empties routes, keeps the kernel part.
LEMMA LinkLostKeeps ==
    ASSUME IInv, NEW d \in TunLinks, LinkLost(d)
    PROVE  KernelInv'
  <1>1. UNCHANGED <<rules, applied, op, pc, cfg, todo, duty, torn>>
    BY DEF LinkLost, call, history
  <1>2. \A f \in Family : Shrinks(f)
    BY DEF LinkLost, Shrinks
  <1>. QED
    BY <1>1, <1>2, FrameKeeps

----------------------------------------------------------------------------
(* Steps that start or abandon a call. *)

\* An operation starts, the kernel is as it was.
LEMMA StartKeeps ==
    ASSUME IInv, NEW o \in {"apply", "refresh", "begin"}, NEW w,
           NEW p, p = IF o = "apply" THEN "link" ELSE "guard",
           NEW c \in Config, Start(o, w, p, c),
           UNCHANGED <<rules, table, applied, duty>>,
           torn' \in {torn, "stray"}
    PROVE  KernelInv'
  <1>. TypeOK /\ CallInv /\ KernelInv
    BY InvParts
  <1>0. op = "none" /\ op' = o /\ pc' = p /\ cfg' = c
    BY DEF Start, CallInv, PhasesOf, Guarded, TypeOK
  <1>1. RulesInv'
    BY DEF KernelInv, RulesInv
  <1>2. GuardInv'
    <2>1. o = "refresh" => todo' = transitionGuards({c})
      BY DEF Start, Work
    <2>. QED
      BY <1>0, <2>1 DEF GuardInv, Guarded
  <1>3. BuildInv'
    BY <1>0 DEF BuildInv
  <1>4. AppliedInv'
    <2>. SUFFICES ASSUME applied # NoConfig, torn = "whole", NEW f \in applied.families
                  PROVE  applied \in duty /\ Enforces(applied, f)'
      BY DEF AppliedInv, KernelInv
    <2>1. applied \in duty /\ Enforces(applied, f)
      BY <1>0 DEF AppliedInv, KernelInv
    <2>. QED
      BY <2>1 DEF Enforces, OnlyRulesOf, SafeOnly, TunOnly
  <1>5. ProtectedInv'
    BY SameTables, ProtectedKept DEF ProtectedInv, KernelInv, TypeOK
  <1>. QED
    BY <1>1, <1>2, <1>3, <1>4, <1>5 DEF KernelInv

\* The start of Apply, Refresh and Rollback keeps the kernel part.
LEMMA CallsKeep ==
    ASSUME IInv,
           \/ \E c \in Config : Apply(c) \/ Rollback(c)
           \/ Refresh
    PROVE  KernelInv'
  <1>. TypeOK /\ CallInv /\ KernelInv
    BY InvParts
  <1>1. ASSUME NEW c \in Config, Apply(c)
        PROVE  KernelInv'
    <2>1. /\ Start("apply", "caller", "link", c)
          /\ UNCHANGED <<rules, table, applied, duty>>
          /\ torn' \in {torn, "stray"}
      BY <1>1 DEF Apply, kernel
    <2>. QED
      BY <2>1, StartKeeps
  <1>2. ASSUME NEW c \in Config, Rollback(c)
        PROVE  KernelInv'
    <2>1. rules' = rules /\ op' = "rollback" /\ duty' = {} /\ torn' = "torn"
      BY <1>2 DEF Rollback, Start, kernel
    <2>. QED
      BY <2>1 DEF KernelInv, RulesInv, GuardInv, BuildInv, AppliedInv, ProtectedInv
  <1>3. ASSUME Refresh
        PROVE  KernelInv'
    <2>1. /\ Start("refresh", "caller", "guard", applied) /\ applied \in Config
          /\ UNCHANGED <<rules, table, applied, duty>>
          /\ torn' = torn
      BY <1>3 DEF Refresh, kernel, history, TypeOK
    <2>. QED
      BY <2>1, StartKeeps
  <1>. QED
    BY <1>1, <1>2, <1>3

\* The steps of the route monitor keep the kernel part.
LEMMA MonitorKeeps ==
    ASSUME IInv, MonStep
    PROVE  KernelInv'
  <1>. TypeOK /\ CallInv /\ KernelInv
    BY InvParts
  <1>1. CASE UNCHANGED <<kernel, applied, call, history>>
    BY <1>1, SameTables, FrameKeeps DEF kernel, call, history
  <1>2. CASE /\ ~Quiet
             /\ \E o \in {"begin", "refresh"} : Start(o, "monitor", "guard", applied)
             /\ UNCHANGED <<kernel, applied, history>>
    <2>1. applied \in Config
      BY <1>2 DEF Quiet, TypeOK
    <2>2. UNCHANGED <<rules, table, applied, duty, torn>>
      BY <1>2 DEF kernel, history
    <2>. QED
      BY <1>2, <2>1, <2>2, StartKeeps
  <1>3. \/ UNCHANGED <<kernel, applied, call, history>>
        \/ /\ ~Quiet
           /\ \E o \in {"begin", "refresh"} : Start(o, "monitor", "guard", applied)
           /\ UNCHANGED <<kernel, applied, history>>
    BY DEF MonStep, MonEvent, MonChannelClosed, beginRouteChange, MonTimer,
           refreshAfterRouteChange, MonStop
  <1>. QED
    BY <1>1, <1>2, <1>3

\* A restart, which forgets applied and keeps rules, keeps the kernel part.
LEMMA CrashKeeps ==
    ASSUME IInv, Crash
    PROVE  KernelInv'
  <1>. TypeOK /\ CallInv /\ KernelInv
    BY InvParts
  <1>1. /\ op' = "none" /\ applied' = NoConfig /\ UNCHANGED <<rules, table, duty>>
        /\ torn' \in {"bared", "stray"} \/ torn \notin {"bared", "stray"}
    BY DEF Crash, kernel
  <1>2. ProtectedInv'
    BY <1>1, SameTables, ProtectedKept DEF ProtectedInv, KernelInv, TypeOK
  <1>. QED
    BY <1>1, <1>2, Zenon DEF KernelInv, RulesInv, GuardInv, BuildInv, AppliedInv

----------------------------------------------------------------------------
(* The end of a call and of a phase. *)

\* A call returns; the kernel is as the last adapter call left it.  What the
\* history says afterwards is true: a successful Apply is enforced, a failed
\* one is behind its guards.
LEMMA FinishKeeps ==
    ASSUME IInv, op # "none", NEW ok \in BOOLEAN, Finish(ok),
           UNCHANGED <<rules, table>>, ok => NextPhase(op, pc) = "idle"
    PROVE  KernelInv'
  <1>. TypeOK /\ CallInv /\ KernelInv
    BY InvParts
  <1>0. op' = "none" /\ cfg \in Config /\ cfg # NoConfig
    BY ConfigFields DEF Finish, CallInv
  <1>1. RulesInv'
    BY DEF KernelInv, RulesInv
  <1>2. GuardInv' /\ BuildInv'
    BY <1>0 DEF GuardInv, BuildInv
  <1>3. CASE op = "apply" /\ ok
    <2>1. pc = "unguard"
      BY <1>3 DEF CallInv, PhasesOf, NextPhase, Guarded
    <2>2. applied' = cfg /\ duty' = {cfg}
      BY <1>3 DEF Finish, Record
    <2>3. ASSUME NEW f \in cfg.families
          PROVE  Enforces(cfg, f)
      BY <1>3, <2>1, Zenon DEF KernelInv, BuildInv, Enforces
    <2>4. ASSUME NEW f \in cfg.families
          PROVE  compileRules(cfg, f) \subseteq rules' /\ Shrinks(f)
      BY <2>3 DEF Enforces, Shrinks
    <2>5. \A c \in Config : c = cfg => \A f \in c.families : Enforces(c, f)'
      BY <2>3, <2>4, EnforcesKept
    <2>6. AppliedInv'
      BY <1>0, <2>2, <2>5 DEF AppliedInv, Enforces, OnlyRulesOf, SafeOnly, TunOnly
    <2>7. ProtectedInv'
      BY <1>0, <2>2, <2>5 DEF ProtectedInv, Protected
    <2>. QED
      BY <1>1, <1>2, <2>6, <2>7 DEF KernelInv
  <1>4. CASE op = "rollback"
    <2>1. duty' = {} /\ (applied' = NoConfig \/ torn' = "torn")
      BY <1>4 DEF Finish, Record, CallInv
    <2>. QED
      BY <1>1, <1>2, <2>1 DEF KernelInv, AppliedInv, ProtectedInv
  <1>5. CASE op # "rollback" /\ ~(op = "apply" /\ ok)
    <2>1. applied' = applied /\ duty' = duty
      BY <1>0, <1>5 DEF Finish, Record, CallInv, PhasesOf, history
    <2>2. torn' = torn \/ (op = "apply" /\ torn' \in {"torn", "stray"} /\
                           pc \in Guarded \cup {"unguard"})
      BY <1>0, <1>5 DEF Finish, Record, CallInv, PhasesOf, history, Guarded
    <2>3. torn' = torn /\ op = "apply" /\ pc \in Guarded \cup {"unguard"} => torn # "whole"
      BY <1>0, <1>5 DEF Finish, Record, Guarded, TypeOK
    <2>4. AppliedInv'
      <3>. SUFFICES ASSUME applied # NoConfig, torn' = "whole"
                    PROVE  /\ applied \in duty
                           /\ (\A f \in applied.families : Enforces(applied, f))'
        BY <2>1 DEF AppliedInv
      <3>1. applied \in duty /\ \A f \in applied.families : Enforces(applied, f)
        BY <2>2, <2>3 DEF AppliedInv, KernelInv
      <3>. QED
        BY <2>1, <3>1 DEF Enforces, OnlyRulesOf, SafeOnly, TunOnly
    <2>5. ProtectedInv'
      <3>. SUFFICES ASSUME duty # {}, torn' \notin {"bared", "stray"}, NEW f \in Family
                    PROVE  Protected(f)'
        BY <2>1 DEF ProtectedInv
      <3>1. Protected(f)
        BY <2>2, ApplyProtects DEF ProtectedInv, KernelInv, ApplyGuards
      <3>. QED
        BY <2>1, <3>1, SameTables, ProtectedKept DEF TypeOK
    <2>. QED
      BY <1>1, <1>2, <2>4, <2>5 DEF KernelInv
  <1>. QED
    BY <1>3, <1>4, <1>5

\* The last element of a loop is done and the next loop begins.
LEMMA EndPhaseKeeps ==
    ASSUME IInv, EndPhase
    PROVE  KernelInv'
  <1>. TypeOK /\ CallInv /\ KernelInv
    BY InvParts
  <1>0. op # "none" /\ cfg \in Config /\ UNCHANGED <<rules, table>> /\ todo = {}
    BY DEF EndPhase, CallInv, PhasesOf, kernel
  <1>1. CASE NextPhase(op, pc) = "idle" \/ (op = "refresh" /\ failed)
    <2>1. Finish(~failed)
      BY <1>1 DEF EndPhase
    <2>2. (~failed) \in BOOLEAN /\ (~failed => NextPhase(op, pc) = "idle")
      BY <1>1 DEF TypeOK
    <2>. QED
      BY <1>0, <2>1, <2>2, FinishKeeps, Zenon
  <1>2. CASE ~(NextPhase(op, pc) = "idle" \/ (op = "refresh" /\ failed))
    <2>1. /\ pc' = NextPhase(op, pc)
          /\ todo' = Work(op, NextPhase(op, pc), cfg, snap)
          /\ duty' = IF op = "apply" /\ pc = "guard" THEN duty \cup {cfg} ELSE duty
          /\ torn' = IF op = "refresh" /\ pc = "safe" /\ torn = "torn"
                       THEN "bared" ELSE torn
          /\ UNCHANGED <<op, cfg, applied>>
      BY <1>2 DEF EndPhase
    <2>2. CallInv'
      BY TypeParts, EndPhaseTypes
    <2>3. RulesInv'
      BY <1>0 DEF KernelInv, RulesInv
    <2>4. GuardInv'
      <3>1. CASE op = "apply"
        <4>1. pc' = "guard" => todo' = transitionGuards(configs(cfg))
          BY <2>1, <3>1 DEF Work
        <4>2. pc' \in Guarded => pc \in Guarded \/ pc = "guard"
          BY <2>1, <3>1 DEF NextPhase, Guarded, CallInv, PhasesOf
        <4>. QED
          BY <1>0, <2>1, <3>1, <4>1, <4>2 DEF KernelInv, GuardInv, configs
      <3>2. CASE op = "refresh"
        <4>1. /\ pc' # "guard"
              /\ pc' \in {"snapshot", "flush", "safe"} =>
                   pc \in {"guard", "snapshot", "flush", "safe"}
          BY <2>1, <3>2 DEF NextPhase, CallInv, PhasesOf
        <4>. QED
          BY <1>0, <2>1, <3>2, <4>1 DEF KernelInv, GuardInv
      <3>. QED
        BY <2>1, <3>1, <3>2 DEF GuardInv
    <2>5. BuildInv'
      <3>. SUFFICES ASSUME op = "apply", NEW f \in cfg.families
                    PROVE  (/\ pc = "flush" => \A t \in {cfg.vpn, cfg.safe} :
                                 [table |-> t, family |-> f] \in todo \/ table[t][f] = {}
                            /\ pc \in {"vpn", "safe", "delRules", "addRules", "unguard"} =>
                                 SafeOnly(cfg, f) /\ TunOnly(cfg, f)
                            /\ pc = "delRules" =>
                                 \/ [base |-> cfg.base, family |-> f] \in todo
                                 \/ \A r \in rules : r.family = f => r = transitionGuard(cfg, f)
                            /\ pc \in {"addRules", "unguard"} => OnlyRulesOf(cfg, f)
                            /\ pc = "addRules" =>
                                 \A r \in compileRules(cfg, f) : r \in rules \/ r \in todo
                            /\ pc = "unguard" => compileRules(cfg, f) \subseteq rules)'
        BY <2>1, Zenon DEF BuildInv
      <3>1. cfg \in configs(cfg)
        BY DEF configs
      <3>2. pc' = "flush" => \A t \in {cfg.vpn, cfg.safe} : [table |-> t, family |-> f] \in todo'
        BY <2>1, <3>1 DEF Work, ownedTableTargets
      <3>3. pc' \in {"vpn", "safe", "delRules", "addRules", "unguard"} =>
              pc \in {"flush", "vpn", "safe", "delRules", "addRules"}
        BY <2>1 DEF NextPhase, CallInv, PhasesOf, Guarded
      <3>4. pc = "flush" => table[cfg.vpn][f] = {} /\ table[cfg.safe][f] = {}
        BY <1>0, Zenon DEF KernelInv, BuildInv
      <3>5. pc \in {"flush", "vpn", "safe", "delRules", "addRules"} =>
              SafeOnly(cfg, f) /\ TunOnly(cfg, f)
        BY <3>4, Zenon DEF KernelInv, BuildInv, SafeOnly, TunOnly
      <3>6. pc' = "delRules" => [base |-> cfg.base, family |-> f] \in todo'
        BY <2>1, <3>1 DEF Work, ownedRuleScopes
      <3>7. /\ pc' = "addRules" => pc = "delRules"
            /\ pc' = "unguard" => pc = "addRules"
        BY <2>1, Zenon DEF NextPhase, CallInv, PhasesOf, Guarded
      <3>8. pc' \in {"addRules", "unguard"} => OnlyRulesOf(cfg, f)
        BY <1>0, <3>7, Zenon DEF KernelInv, BuildInv, OnlyRulesOf
      <3>9. pc' = "addRules" => compileRules(cfg, f) \subseteq todo'
        BY <2>1 DEF Work, DesiredRules
      <3>10. pc' = "unguard" => compileRules(cfg, f) \subseteq rules
        BY <1>0, <3>7, Zenon DEF KernelInv, BuildInv
      <3>11. SafeOnly(cfg, f) /\ TunOnly(cfg, f) => SafeOnly(cfg, f)' /\ TunOnly(cfg, f)'
        BY <1>0, <2>1, Zenon DEF SafeOnly, TunOnly
      <3>12. OnlyRulesOf(cfg, f) => OnlyRulesOf(cfg, f)'
        BY <1>0, <2>1, Zenon DEF OnlyRulesOf
      <3>. QED
        BY <1>0, <2>1, <3>2, <3>3, <3>5, <3>6, <3>8, <3>9, <3>10, <3>11, <3>12, Zenon
    <2>6. AppliedInv'
      <3>. SUFFICES ASSUME applied # NoConfig, torn' = "whole",
                           ~(op = "apply" /\ pc' \in Guarded \cup {"unguard"})
                    PROVE  /\ applied \in duty'
                           /\ (\A f \in applied.families : Enforces(applied, f))'
        <4>1. applied \in duty /\ torn = "whole" => applied \in duty'
          BY <2>1
        <4>2. torn' = "whole" => torn = "whole"
          BY <2>1
        <4>. QED
          BY <2>1, <4>1, <4>2, Zenon DEF AppliedInv, KernelInv
      <3>1. torn = "whole" /\ ~(op = "apply" /\ pc \in Guarded \cup {"unguard"})
        BY <1>2, <2>1 DEF NextPhase, Guarded
      <3>2. applied \in duty /\ \A f \in applied.families : Enforces(applied, f)
        BY <3>1 DEF AppliedInv, KernelInv
      <3>. QED
        BY <1>0, <2>1, <3>2 DEF Enforces, OnlyRulesOf, SafeOnly, TunOnly
    <2>7. ProtectedInv'
      <3>. SUFFICES ASSUME duty' # {}, torn' \notin {"bared", "stray"}
                    PROVE  (\A f \in Family : Protected(f))'
        BY DEF ProtectedInv
      <3>1. CASE op = "apply" /\ pc = "guard"
        <4>1. ApplyGuards'
          BY <2>1, <2>2, <2>4, <2>5, <3>1 DEF ApplyGuards, NextPhase, Guarded
        <4>. QED
          BY <4>1, ApplyProtectsNext
      <3>2. CASE ~(op = "apply" /\ pc = "guard")
        <4>1. duty' = duty /\ torn \notin {"bared", "stray"}
          BY <2>1, <3>2
        <4>. QED
          BY <1>0, <4>1, SameTables, ProtectedKept DEF KernelInv, ProtectedInv, TypeOK
      <3>. QED
        BY <3>1, <3>2
    <2>. QED
      BY <2>3, <2>4, <2>5, <2>6, <2>7 DEF KernelInv
  <1>. QED
    BY <1>1, <1>2

----------------------------------------------------------------------------
(* Steps inside a loop. *)

\* What a step inside a loop leaves alone.
InLoop == UNCHANGED <<applied, op, pc, cfg, duty, torn>> /\ todo' \subseteq todo

\* A successful adapter call stays inside its loop.
LEMMA DidInLoop ==
    ASSUME NEW x, Did(x)
    PROVE  InLoop /\ todo' = todo \ {x} /\ x \in todo
  BY DEF Did, InLoop, IsNext, history

\* Loops that change neither the rules nor what applyDesired has built.
LEMMA ReadLoopKeeps ==
    ASSUME IInv, InLoop, rules' = rules, \A f \in Family : Shrinks(f),
           pc \in {"link", "snapshot"} \/ (pc = "flush" /\ op # "apply")
    PROVE  KernelInv'
  <1>. TypeOK /\ CallInv /\ KernelInv
    BY InvParts
  <1>1. RulesInv'
    BY DEF KernelInv, RulesInv
  <1>2. GuardInv'
    BY DEF KernelInv, GuardInv, InLoop, Guarded
  <1>3. BuildInv'
    BY DEF BuildInv, InLoop
  <1>4. AppliedInv'
    <2>. SUFFICES ASSUME applied # NoConfig, torn = "whole"
                  PROVE  /\ applied \in duty
                         /\ (\A f \in applied.families : Enforces(applied, f))'
      BY DEF AppliedInv, InLoop
    <2>1. applied \in duty /\ \A f \in applied.families : Enforces(applied, f)
      BY DEF AppliedInv, KernelInv, Guarded
    <2>2. applied \in Config /\ applied' = applied
      BY DEF TypeOK, InLoop
    <2>3. ASSUME NEW f \in applied.families
          PROVE  (\A c \in Config : c = applied => Enforces(c, f))'
      <3>1. f \in Family
        BY <2>2, ConfigFields
      <3>. QED
        BY <2>1, <2>2, <2>3, <3>1, EnforcesKept, Zenon DEF Enforces
    <2>. QED
      BY <2>1, <2>2, <2>3
  <1>5. ProtectedInv'
    BY ProtectedKept DEF ProtectedInv, KernelInv, TypeOK, InLoop
  <1>. QED
    BY <1>1, <1>2, <1>3, <1>4, <1>5 DEF KernelInv

\* Past the guard phase of applyDesired only what it has built needs an argument.
LEMMA ApplyLoopKeeps ==
    ASSUME IInv, InLoop, CallInv', op = "apply", pc \in Guarded \cup {"unguard"},
           RulesInv', GuardInv', BuildInv'
    PROVE  KernelInv'
  <1>. TypeOK /\ CallInv /\ KernelInv
    BY InvParts
  <1>1. AppliedInv'
    BY DEF AppliedInv, KernelInv, InLoop
  <1>2. ApplyGuards'
    BY DEF ApplyGuards, InLoop
  <1>3. ProtectedInv'
    BY <1>2, ApplyProtectsNext DEF ProtectedInv
  <1>. QED
    BY <1>1, <1>3 DEF KernelInv

\* A Rollback owes nothing any more.
LEMMA RollbackLoopKeeps ==
    ASSUME IInv, InLoop, op = "rollback", rules' \subseteq rules
    PROVE  KernelInv'
  <1>. TypeOK /\ CallInv /\ KernelInv
    BY InvParts
  <1>1. op' = "rollback" /\ duty' = {} /\ torn' = "torn"
    BY DEF InLoop, CallInv
  <1>. QED
    BY <1>1, Zenon DEF KernelInv, RulesInv, GuardInv, BuildInv, AppliedInv, ProtectedInv

\* A guard goes up: what is enforced stays enforced.
LEMMA AddGuardKeeps ==
    ASSUME IInv, OneBlock, InLoop, pc = "guard", NEW r \in todo,
           rules' = rules \cup {r}, table' = table, todo' = todo \ {r}
    PROVE  KernelInv'
  <1>. TypeOK /\ CallInv /\ KernelInv
    BY InvParts
  <1>0. cfg \in Config /\ op # "none"
    BY DEF CallInv, PhasesOf, TypeOK
  <1>1. r \in transitionGuards(configs(cfg)) \/ r \in transitionGuards({cfg})
    BY <1>0 DEF CallInv, Work
  <1>2. PICK d \in Config : \E g \in d.families : r = transitionGuard(d, g)
    BY <1>0, <1>1, GuardsOf, ConfigsOf
  <1>3. RulesInv'
    BY <1>2 DEF KernelInv, RulesInv, Compiled
  <1>4. GuardInv'
    BY DEF KernelInv, GuardInv, InLoop, Guarded, configs
  <1>5. BuildInv'
    BY DEF BuildInv, InLoop
  <1>6. AppliedInv'
    <2>. SUFFICES ASSUME applied # NoConfig, torn = "whole"
                  PROVE  /\ applied \in duty
                         /\ (\A f \in applied.families : Enforces(applied, f))'
      BY DEF AppliedInv, InLoop
    <2>1. applied \in duty /\ \A f \in applied.families : Enforces(applied, f)
      BY DEF AppliedInv, KernelInv, Guarded
    <2>2. applied \in Config /\ applied' = applied
      BY DEF TypeOK, InLoop
    <2>3. ASSUME NEW f \in applied.families
          PROVE  (\A c \in Config : c = applied => Enforces(c, f))'
      <3>1. f \in Family /\ Shrinks(f)
        BY <2>2, ConfigFields, SameTables, Zenon
      <3>2. ASSUME NEW q \in rules', q.family = f
            PROVE  q \in rules \/ q = transitionGuard(applied, f)
        <4>1. PICK g : r = transitionGuard(d, g)
          BY <1>2
        <4>2. r.family = g
          BY <4>1 DEF transitionGuard, MkRule
        <4>. QED
          BY <2>2, <3>2, <4>1, <4>2, SharedGuard
      <3>. QED
        BY <2>1, <2>2, <2>3, <3>1, <3>2, EnforcesKept, Zenon DEF Enforces
    <2>. QED
      BY <2>1, <2>2, <2>3
  <1>7. ProtectedInv'
    BY <1>2, SameTables, ProtectedByGuard, Zenon DEF ProtectedInv, KernelInv, TypeOK, InLoop
  <1>. QED
    BY <1>3, <1>4, <1>5, <1>6, <1>7 DEF KernelInv

\* Adding a compiled rule behind the guards keeps the kernel part.
LEMMA AddCompiledKeeps ==
    ASSUME IInv, InLoop, CallInv', pc = "addRules", NEW r \in todo,
           rules' = rules \cup {r}, table' = table, todo' = todo \ {r}
    PROVE  KernelInv'
  <1>. TypeOK /\ CallInv /\ KernelInv
    BY InvParts
  <1>0. op = "apply" /\ cfg \in Config
    BY DEF CallInv, PhasesOf, TypeOK
  <1>1. PICK g \in cfg.families : r \in compileRules(cfg, g)
    BY <1>0 DEF CallInv, Work, DesiredRules
  <1>2. r.family = g
    BY <1>0, <1>1, CompiledShape
  <1>3. RulesInv'
    BY <1>0, <1>1 DEF KernelInv, RulesInv, Compiled
  <1>4. GuardInv'
    BY <1>0 DEF KernelInv, GuardInv, InLoop, Guarded, configs
  <1>5. BuildInv'
    <2>. SUFFICES ASSUME NEW f \in cfg.families
                  PROVE  (/\ SafeOnly(cfg, f) /\ TunOnly(cfg, f) /\ OnlyRulesOf(cfg, f)
                          /\ \A q \in compileRules(cfg, f) : q \in rules \/ q \in todo)'
      BY <1>0, Zenon DEF BuildInv, InLoop
    <2>1. /\ SafeOnly(cfg, f) /\ TunOnly(cfg, f) /\ OnlyRulesOf(cfg, f)
          /\ \A q \in compileRules(cfg, f) : q \in rules \/ q \in todo
      BY <1>0, Zenon DEF KernelInv, BuildInv
    <2>2. cfg' = cfg
      BY DEF InLoop
    <2>3. SafeOnly(cfg, f)' /\ TunOnly(cfg, f)'
      BY <2>1, <2>2, Zenon DEF SafeOnly, TunOnly
    <2>4. OnlyRulesOf(cfg, f)'
      BY <1>1, <1>2, <2>1, <2>2 DEF OnlyRulesOf
    <2>. QED
      BY <2>1, <2>2, <2>3, <2>4, Zenon
  <1>. QED
    BY <1>0, <1>3, <1>4, <1>5, ApplyLoopKeeps DEF Guarded

\* deleteObsolete spares the guards: keepRule knows them.
LEMMA DeleteObsoleteKeeps ==
    ASSUME IInv, InLoop, CallInv', pc = "obsolete", NEW r \in todo,
           rules' = rules \ {r}
    PROVE  KernelInv'
  <1>. TypeOK /\ CallInv /\ KernelInv
    BY InvParts
  <1>0. op = "apply"
    BY DEF CallInv, PhasesOf, TypeOK
  <1>1. r \notin transitionGuards(configs(cfg))
    <2>1. r \in ObsoleteRules(cfg)
      BY <1>0 DEF CallInv, Work
    <2>. QED
      BY <2>1 DEF ObsoleteRules, keepRule
  <1>2. RulesInv'
    BY DEF KernelInv, RulesInv
  <1>3. GuardInv'
    BY <1>0, <1>1 DEF KernelInv, GuardInv, InLoop, Guarded, configs
  <1>4. BuildInv'
    BY <1>0, Zenon DEF BuildInv, InLoop
  <1>. QED
    BY <1>0, <1>2, <1>3, <1>4, ApplyLoopKeeps DEF Guarded

\* The guards come down: applyDesired has rebuilt everything behind them.
LEMMA UnguardApplyKeeps ==
    ASSUME IInv, InLoop, CallInv', pc = "unguard", op = "apply", NEW r \in todo,
           rules' = rules \ {r}, table' = table
    PROVE  KernelInv'
  <1>. TypeOK /\ CallInv /\ KernelInv
    BY InvParts
  <1>0. r \notin DesiredRules(cfg) /\ cfg' = cfg
    BY DEF CallInv, Work, InLoop
  <1>1. RulesInv'
    BY DEF KernelInv, RulesInv
  <1>2. GuardInv'
    BY DEF KernelInv, GuardInv, InLoop, Guarded
  <1>3. BuildInv'
    <2>. SUFFICES ASSUME NEW f \in cfg.families
                  PROVE  (/\ SafeOnly(cfg, f) /\ TunOnly(cfg, f) /\ OnlyRulesOf(cfg, f)
                          /\ compileRules(cfg, f) \subseteq rules)'
      BY Zenon DEF BuildInv, InLoop
    <2>1. /\ SafeOnly(cfg, f) /\ TunOnly(cfg, f) /\ OnlyRulesOf(cfg, f)
          /\ compileRules(cfg, f) \subseteq rules
      BY Zenon DEF KernelInv, BuildInv
    <2>2. SafeOnly(cfg, f)' /\ TunOnly(cfg, f)' /\ OnlyRulesOf(cfg, f)'
      BY <1>0, <2>1, Zenon DEF SafeOnly, TunOnly, OnlyRulesOf
    <2>. QED
      BY <1>0, <2>1, <2>2 DEF DesiredRules
  <1>. QED
    BY <1>1, <1>2, <1>3, ApplyLoopKeeps

\* The guards of a refresh come down: unless an Apply failed before, the
\* applied rules are in place behind them.
LEMMA UnguardRefreshKeeps ==
    ASSUME IInv, OneBlock, InLoop, pc = "unguard", op = "refresh", NEW r \in todo,
           rules' = rules \ {r}, table' = table
    PROVE  KernelInv'
  <1>. TypeOK /\ CallInv /\ KernelInv
    BY InvParts
  <1>0. cfg = applied /\ applied \in Config /\ torn # "torn" /\ applied' = applied
    BY DEF CallInv, InLoop
  <1>1. PICK g : r = transitionGuard(applied, g)
    BY <1>0, GuardsOf DEF CallInv, Work
  <1>2. RulesInv' /\ GuardInv' /\ BuildInv'
    BY Zenon DEF KernelInv, RulesInv, GuardInv, BuildInv, InLoop
  <1>3. ASSUME torn = "whole"
        PROVE  /\ applied \in duty
               /\ \A f \in applied.families : \A c \in Config : c = applied => Enforces(c, f)'
    <2>1. applied \in duty /\ \A f \in applied.families : Enforces(applied, f)
      BY <1>0, <1>3, ConfigFields DEF AppliedInv, KernelInv
    <2>2. ASSUME NEW f \in applied.families
          PROVE  compileRules(applied, f) \subseteq rules' /\ Shrinks(f)
      <3>1. r \notin compileRules(applied, f)
        BY <1>0, <1>1, GuardNotCompiled
      <3>2. compileRules(applied, f) \subseteq rules
        BY <2>1 DEF Enforces
      <3>. QED
        BY <3>1, <3>2 DEF Shrinks
    <2>. QED
      BY <1>0, <2>1, <2>2, EnforcesKept, Zenon
  <1>4. AppliedInv'
    <2>1. torn = "whole" => (\A f \in applied.families : Enforces(applied, f))'
      BY <1>0, <1>3, Zenon DEF Enforces, OnlyRulesOf, SafeOnly, TunOnly
    <2>. QED
      BY <1>0, <1>3, <2>1 DEF AppliedInv, InLoop
  <1>5. ProtectedInv'
    <2>. SUFFICES ASSUME torn' \notin {"bared", "stray"}, NEW f \in Family
                  PROVE  Protected(f)'
      BY DEF ProtectedInv
    <2>1. torn = "whole" /\ duty' = duty
      BY <1>0 DEF InLoop, TypeOK
    <2>. QED
      BY <1>0, <1>3, <2>1 DEF Protected
  <1>. QED
    BY <1>2, <1>4, <1>5 DEF KernelInv

\* Flushing an owned table in Apply keeps the kernel part.
LEMMA FlushApplyKeeps ==
    ASSUME IInv, InLoop, CallInv', pc = "flush", op = "apply", NEW x \in todo,
           rules' = rules, table' = [table EXCEPT ![x.table][x.family] = {}],
           todo' = todo \ {x}
    PROVE  KernelInv'
  <1>. TypeOK /\ CallInv /\ KernelInv
    BY InvParts
  <1>1. RulesInv'
    BY DEF KernelInv, RulesInv
  <1>2. GuardInv'
    BY DEF KernelInv, GuardInv, InLoop, Guarded, configs
  <1>3. BuildInv'
    <2>. SUFFICES ASSUME NEW f \in cfg.families, NEW t \in {cfg.vpn, cfg.safe}
                  PROVE  [table |-> t, family |-> f] \in todo' \/ table'[t][f] = {}
      BY DEF BuildInv, InLoop
    <2>1. cfg \in Config /\ f \in Family /\ t \in Tables
      BY ConfigFields, TablesOf DEF CallInv
    <2>2. [table |-> t, family |-> f] \in todo \/ table[t][f] = {}
      BY Zenon DEF KernelInv, BuildInv
    <2>3. CASE [table |-> t, family |-> f] = x
      BY <2>1, <2>3, Zenon DEF TypeOK
    <2>4. CASE [table |-> t, family |-> f] # x
      BY <2>1, <2>2, <2>4, Zenon DEF TypeOK
    <2>. QED
      BY <2>3, <2>4
  <1>. QED
    BY <1>1, <1>2, <1>3, ApplyLoopKeeps DEF Guarded

\* applyDesired writes a route into a table it has emptied before.
LEMMA ReplaceApplyKeeps ==
    ASSUME IInv, InLoop, CallInv', pc \in {"vpn", "safe"}, op = "apply", NEW x \in todo,
           rules' = rules,
           table' = [table EXCEPT ![IF pc = "vpn" THEN cfg.vpn ELSE cfg.safe][x.family] =
                       @ \cup {x.route}]
    PROVE  KernelInv'
  <1>. TypeOK /\ CallInv /\ KernelInv
    BY InvParts
  <1>0. cfg \in Config /\ cfg.vpn # cfg.safe /\ cfg.tun \in TunLinks /\ cfg' = cfg
    BY ConfigFields DEF CallInv, TunLinks, InLoop
  <1>1. RulesInv'
    BY DEF KernelInv, RulesInv
  <1>2. GuardInv'
    BY DEF KernelInv, GuardInv, InLoop, Guarded, configs
  <1>3. BuildInv'
    <2>. SUFFICES ASSUME NEW f \in cfg.families
                  PROVE  SafeOnly(cfg, f)' /\ TunOnly(cfg, f)'
      BY Zenon DEF BuildInv, InLoop
    <2>1. SafeOnly(cfg, f) /\ TunOnly(cfg, f)
      BY Zenon DEF KernelInv, BuildInv
    <2>2. f \in Family /\ cfg.vpn \in Tables /\ cfg.safe \in Tables
      BY <1>0, ConfigFields, TablesOf
    <2>3. CASE pc = "vpn"
      <3>1. x.route.type = "unicast" /\ \A h \in x.route.hops : h.dev = cfg.tun
        <4>1. x \in Work("apply", "vpn", cfg, snap)
          BY <2>3, Zenon DEF CallInv
        <4>. QED
          BY <1>0, <4>1, VPNWork, Zenon
      <3>2. table'[cfg.safe][f] = table[cfg.safe][f]
        BY <1>0, <2>2, <2>3, Zenon DEF TypeOK
      <3>3. \A r \in table'[cfg.vpn][f] : r \in table[cfg.vpn][f] \/ r = x.route
        BY <2>2, <2>3 DEF TypeOK
      <3>4. SafeOnly(cfg, f)'
        BY <1>0, <2>1, <3>2 DEF SafeOnly
      <3>. QED
        BY <1>0, <2>1, <3>1, <3>3, <3>4 DEF TunOnly
    <2>4. CASE pc = "safe"
      <3>1. x.route \in MainRoute /\ ClassifySafeRoute(x.route, cfg.tun) = "safe"
        <4>1. x \in Work(op, "safe", cfg, snap)
          BY <2>4 DEF CallInv
        <4>2. snap \in [Family -> SUBSET MainRoute]
          BY Zenon DEF TypeOK
        <4>. QED
          BY <1>0, <4>1, <4>2, SafeWork
      <3>2. table'[cfg.vpn][f] = table[cfg.vpn][f]
        BY <1>0, <2>2, <2>4, Zenon DEF TypeOK
      <3>3. \A r \in table'[cfg.safe][f] : r \in table[cfg.safe][f] \/ r = x.route
        BY <2>2, <2>4, Zenon DEF TypeOK
      <3>4. TunOnly(cfg, f)'
        BY <1>0, <2>1, <3>2 DEF TunOnly
      <3>. QED
        BY <1>0, <2>1, <3>1, <3>3, <3>4, Zenon DEF SafeOnly
    <2>. QED
      BY <2>3, <2>4
  <1>. QED
    BY <1>1, <1>2, <1>3, ApplyLoopKeeps DEF Guarded

\* A refresh writes only safe routes, only for the families of its
\* configuration, and behind the guards of those families.
LEMMA ReplaceRefreshKeeps ==
    ASSUME IInv, InLoop, pc = "safe", op = "refresh", NEW x \in todo,
           rules' = rules,
           table' = [table EXCEPT ![cfg.safe][x.family] = @ \cup {x.route}]
    PROVE  KernelInv'
  <1>. TypeOK /\ CallInv /\ KernelInv
    BY InvParts
  <1>0. /\ cfg \in Config /\ cfg = applied /\ cfg.vpn # cfg.safe
        /\ applied' = applied /\ duty' = duty
    BY ConfigFields DEF CallInv, InLoop
  <1>1. RulesInv' /\ GuardInv' /\ BuildInv'
    BY Zenon DEF KernelInv, RulesInv, GuardInv, BuildInv, InLoop
  <1>2. /\ x.route \in MainRoute /\ ClassifySafeRoute(x.route, cfg.tun) = "safe"
        /\ x.family \in cfg.families
    <2>1. x.route \in MainRoute /\ ClassifySafeRoute(x.route, cfg.tun) = "safe"
      <3>1. x \in Work(op, "safe", cfg, snap)
        BY DEF CallInv
      <3>2. snap \in [Family -> SUBSET MainRoute]
        BY DEF TypeOK
      <3>. QED
        BY <1>0, <3>1, <3>2, SafeWork
    <2>2. x.family \in cfg.families
      BY <1>0 DEF CallInv, Work
    <2>. QED
      BY <2>1, <2>2
  <1>3. AppliedInv'
    <2>. SUFFICES ASSUME applied # NoConfig, torn = "whole"
                  PROVE  /\ applied \in duty
                         /\ (\A f \in applied.families : Enforces(applied, f))'
      BY DEF AppliedInv, InLoop
    <2>1. applied \in duty /\ \A f \in applied.families : Enforces(applied, f)
      BY DEF AppliedInv, KernelInv
    <2>2. ASSUME NEW f \in applied.families
          PROVE  Enforces(applied, f)'
      <3>1. f \in Family /\ applied.vpn \in Tables /\ applied.safe \in Tables
        BY <1>0, ConfigFields, TablesOf
      <3>2. table'[applied.vpn][f] = table[applied.vpn][f]
        BY <1>0, <3>1, Zenon DEF TypeOK
      <3>3. \A r \in table'[applied.safe][f] : r \in table[applied.safe][f] \/ r = x.route
        BY <1>0, <3>1, Zenon DEF TypeOK
      <3>4. Enforces(applied, f)
        BY <2>1, <2>2
      <3>5. SafeOnly(applied, f)'
        BY <1>0, <1>2, <3>3, <3>4 DEF SafeOnly, Enforces
      <3>6. TunOnly(applied, f)' /\ OnlyRulesOf(applied, f)'
        BY <1>0, <3>2, <3>4 DEF TunOnly, OnlyRulesOf, Enforces
      <3>. QED
        BY <1>0, <3>4, <3>5, <3>6 DEF Enforces
    <2>. QED
      BY <1>0, <2>1, <2>2
  <1>4. ProtectedInv'
    <2>. SUFFICES ASSUME duty # {}, torn \notin {"bared", "stray"}, NEW f \in Family
                  PROVE  Protected(f)'
      BY DEF ProtectedInv, InLoop
    <2>1. CASE f \in cfg.families
      <3>1. transitionGuard(cfg, f) \in rules
        BY <2>1, GuardIn DEF KernelInv, GuardInv
      <3>. QED
        BY <1>0, <3>1 DEF Protected
    <2>2. CASE f \notin cfg.families
      <3>0. x.family # f /\ table \in [Tables -> [Family -> SUBSET Route]]
        BY <1>2, <2>2, Zenon DEF TypeOK
      <3>1. Shrinks(f)
        BY <3>0 DEF Shrinks
      <3>. QED
        BY <1>0, <3>1, ProtectedKept, Zenon DEF ProtectedInv, KernelInv, TypeOK
    <2>. QED
      BY <2>1, <2>2
  <1>. QED
    BY <1>1, <1>3, <1>4 DEF KernelInv

\* The sweep of the rules spares every guard, although netlink lists rules
\* without their action, ...
LEMMA GuardKept ==
    ASSUME NEW cs, NEW g \in transitionGuards(cs)
    PROVE  keepListed(g, transitionGuards(cs))
  BY DEF keepListed, keepRule

\* ... and, among compiled rules of one priority block, nothing but guards.
LEMMA KeptIsGuard ==
    ASSUME OneBlock, NEW cs \in SUBSET Config, NEW c \in Config, NEW r, Compiled(r),
           keepListed(r, transitionGuards(cs))
    PROVE  r = transitionGuard(c, r.family)
  <1>1. PICK k \in transitionGuards(cs) :
          listedRule(r) = k \/ listedRule(r) = listedRule(k)
    BY DEF keepListed, keepRule
  <1>2. PICK d \in Config, f \in Family :
          f \in d.families /\ (r \in compileRules(d, f) \/ r = transitionGuard(d, f))
    BY ConfigFields DEF Compiled
  <1>3. d.base = c.base
    BY DEF OneBlock
  <1>4. r \in Rule
    BY <1>2, CompiledType, GuardType, Zenon
  <1>5. PICK e \in cs : \E g \in e.families : k = transitionGuard(e, g)
    BY GuardsOf
  <1>6. k \in Rule /\ k.prio = c.base + 2
    <2>1. PICK g \in e.families : k = transitionGuard(e, g)
      BY <1>5
    <2>2. e \in Config /\ e.base = c.base
      BY DEF OneBlock
    <2>3. k.prio = e.base + 2
      BY <2>1 DEF transitionGuard, MkRule
    <2>4. k \in Rule
      BY <2>1, <2>2, GuardType, Zenon
    <2>. QED
      BY <2>2, <2>3, <2>4
  <1>7. listedRule(r).prio = r.prio /\ listedRule(k).prio = k.prio
    BY <1>4, <1>6 DEF listedRule, Rule
  <1>8. r.prio = d.base + 2
    BY <1>1, <1>3, <1>6, <1>7
  <1>9. r = transitionGuard(d, f)
    BY <1>2, <1>8, CompiledShape, Zenon
  <1>10. r.family = f
    BY <1>9 DEF transitionGuard, MkRule
  <1>. QED
    BY <1>9, <1>10, SharedGuard

\* In one priority block every compiled rule lies inside the owned span.
LEMMA CompiledInSpan ==
    ASSUME OneBlock, NEW c \in Config, NEW r, Compiled(r)
    PROVE  InSpan(r, c.base)
  <1>1. PICK d \in Config, f \in Family :
          r \in compileRules(d, f) \/ r = transitionGuard(d, f)
    BY ConfigFields DEF Compiled
  <1>2. d.base = c.base /\ c.base \in Nat
    BY ConfigFields DEF OneBlock
  <1>3. CASE r \in compileRules(d, f)
    BY <1>2, <1>3, CompiledShape DEF InSpan
  <1>4. CASE r = transitionGuard(d, f)
    BY <1>2, <1>4 DEF InSpan, transitionGuard, MkRule, Span
  <1>. QED
    BY <1>1, <1>3, <1>4

\* deleteOwnedRules in Apply keeps the guards, and the kernel part.
LEMMA SweepApplyKeeps ==
    ASSUME IInv, OneBlock, InLoop, CallInv', pc = "delRules", op = "apply", NEW s \in todo,
           rules' = rules \ OwnedRules(s), table' = table, todo' = todo \ {s}
    PROVE  KernelInv'
  <1>. TypeOK /\ CallInv /\ KernelInv
    BY InvParts
  <1>0. cfg \in Config /\ cfg' = cfg /\ configs(cfg) \in SUBSET Config
    BY ConfigsOf DEF CallInv, InLoop
  <1>1. RulesInv'
    BY DEF KernelInv, RulesInv
  <1>2. GuardInv'
    <2>1. transitionGuards(configs(cfg)) \subseteq rules
      BY DEF KernelInv, GuardInv, Guarded
    <2>2. transitionGuards(configs(cfg)) \subseteq rules'
      BY <2>1, GuardKept DEF OwnedRules
    <2>. QED
      BY <2>2 DEF GuardInv, InLoop, Guarded, configs
  <1>3. BuildInv'
    <2>. SUFFICES ASSUME NEW f \in cfg.families
                  PROVE  /\ SafeOnly(cfg, f)' /\ TunOnly(cfg, f)'
                         /\ \/ [base |-> cfg.base, family |-> f] \in todo'
                            \/ \A r \in rules' : r.family = f => r = transitionGuard(cfg, f)
      BY <1>0, Zenon DEF BuildInv, InLoop
    <2>1. /\ SafeOnly(cfg, f) /\ TunOnly(cfg, f)
          /\ \/ [base |-> cfg.base, family |-> f] \in todo
             \/ \A r \in rules : r.family = f => r = transitionGuard(cfg, f)
      BY Zenon DEF KernelInv, BuildInv
    <2>2. SafeOnly(cfg, f)' /\ TunOnly(cfg, f)'
      BY <1>0, <2>1, Zenon DEF SafeOnly, TunOnly
    <2>3. CASE [base |-> cfg.base, family |-> f] = s
      <3>. SUFFICES ASSUME NEW r \in rules', r.family = f
                    PROVE  r = transitionGuard(cfg, f)
        BY <2>2
      <3>1. r \in rules /\ r \notin OwnedRules(s) /\ Compiled(r)
        BY DEF KernelInv, RulesInv
      <3>2. InSpan(r, cfg.base)
        BY <1>0, <3>1, CompiledInSpan, Zenon
      <3>3. keepListed(r, transitionGuards(configs(cfg)))
        BY <2>3, <3>1, <3>2, Zenon DEF OwnedRules
      <3>. QED
        BY <1>0, <3>1, <3>3, KeptIsGuard, Zenon
    <2>4. CASE [base |-> cfg.base, family |-> f] # s
      BY <2>1, <2>2, <2>4, Zenon
    <2>. QED
      BY <2>3, <2>4, Zenon
  <1>. QED
    BY <1>1, <1>2, <1>3, ApplyLoopKeeps DEF Guarded

----------------------------------------------------------------------------
(* All steps. *)

\* Every successful adapter call keeps the kernel part.
LEMMA CallStepKeeps ==
    ASSUME IInv, OneBlock, CallStep
    PROVE  KernelInv'
  <1>. TypeOK /\ CallInv /\ KernelInv
    BY InvParts
  <1>0. CallInv'
    BY CallStepTypes
  <1>1. CASE EndPhase
    BY <1>1, EndPhaseKeeps
  <1>2. CASE LinkByIndex
    BY <1>2, DidInLoop, SameTables, ReadLoopKeeps DEF LinkByIndex, kernel
  <1>3. CASE ListMain
    BY <1>3, DidInLoop, SameTables, ReadLoopKeeps DEF ListMain, kernel
  <1>4. CASE AddRule
    <2>1. PICK r \in todo : Did(r) /\ rules' = rules \cup {r}
      BY <1>4 DEF AddRule
    <2>. QED
      BY <1>0, <1>4, <2>1, DidInLoop, AddGuardKeeps, AddCompiledKeeps DEF AddRule
  <1>5. CASE DeleteRule
    <2>1. PICK r \in todo : Did(r) /\ rules' = rules \ {r}
      BY <1>5 DEF DeleteRule
    <2>2. pc = "unguard" => op \in {"apply", "refresh"}
      BY DEF CallInv, PhasesOf, TypeOK
    <2>. QED
      BY <1>0, <1>5, <2>1, <2>2, DidInLoop, DeleteObsoleteKeeps, UnguardApplyKeeps,
         UnguardRefreshKeeps DEF DeleteRule
  <1>6. CASE flushTableFamily
    <2>1. PICK t \in todo : Did(t) /\ table' = [table EXCEPT ![t.table][t.family] = {}]
      BY <1>6, Zenon DEF flushTableFamily
    <2>2. \A f \in Family : Shrinks(f)
      BY <2>1 DEF Shrinks, TypeOK
    <2>. QED
      BY <1>0, <1>6, <2>1, <2>2, DidInLoop, ReadLoopKeeps, FlushApplyKeeps, Zenon
         DEF flushTableFamily
  <1>7. CASE ReplaceRoute
    <2>1. PICK x \in todo :
            /\ Did(x)
            /\ table' = [table EXCEPT ![IF pc = "vpn" THEN cfg.vpn ELSE cfg.safe][x.family] =
                           @ \cup {x.route}]
      BY <1>7, Zenon DEF ReplaceRoute
    <2>2. op = "apply" \/ (op = "refresh" /\ pc = "safe")
      BY <1>7 DEF ReplaceRoute, CallInv, PhasesOf, TypeOK
    <2>3. rules' = rules /\ pc \in {"vpn", "safe"}
      BY <1>7 DEF ReplaceRoute
    <2>4. CASE op = "apply"
      BY <1>0, <2>1, <2>3, <2>4, DidInLoop, ReplaceApplyKeeps, Zenon
    <2>5. CASE op = "refresh" /\ pc = "safe"
      <3>1. table' = [table EXCEPT ![cfg.safe][x.family] = @ \cup {x.route}]
        BY <2>1, <2>5
      <3>. QED
        BY <2>1, <2>3, <2>5, <3>1, DidInLoop, ReplaceRefreshKeeps, Zenon
    <2>. QED
      BY <2>2, <2>4, <2>5
  <1>8. CASE deleteOwnedRules
    <2>1. PICK s \in todo : Did(s) /\ rules' = rules \ OwnedRules(s)
      BY <1>8 DEF deleteOwnedRules
    <2>2. op \in {"apply", "rollback"} /\ pc = "delRules" /\ table' = table
      BY <1>8 DEF deleteOwnedRules, CallInv, PhasesOf, TypeOK
    <2>. QED
      BY <1>0, <2>1, <2>2, DidInLoop, SweepApplyKeeps, RollbackLoopKeeps
  <1>. QED
    BY <1>1, <1>2, <1>3, <1>4, <1>5, <1>6, <1>7, <1>8 DEF CallStep

\* Every failed adapter call keeps the kernel part.
LEMMA FailureKeeps ==
    ASSUME IInv, AdapterFails
    PROVE  KernelInv'
  <1>. TypeOK /\ CallInv /\ KernelInv
    BY InvParts
  <1>0. op # "none" /\ cfg \in Config
    BY DEF AdapterFails, CallInv, PhasesOf
  <1>1. PICK x \in todo :
          /\ PartialEffect(x)
          /\ IF GoesOn
               THEN /\ todo' = todo \ {x} /\ failed' = TRUE
                    /\ UNCHANGED <<op, owner, pc, cfg, snap, applied, monitor, history>>
               ELSE Finish(FALSE)
    BY Zenon DEF AdapterFails
  <1>2. CASE pc \notin {"flush", "delRules"}
    <2>1. UNCHANGED <<rules, table>>
      BY <1>1, <1>2 DEF PartialEffect, kernel
    <2>2. ~GoesOn
      BY <1>0, <1>2 DEF GoesOn, CallInv, PhasesOf
    <2>. QED
      BY <1>0, <1>1, <2>1, <2>2, FinishKeeps, Zenon
  <1>3. CASE pc \in {"flush", "delRules"}
    <2>1. rules' \subseteq rules
      BY <1>1, <1>3 DEF PartialEffect, OwnedRules
    <2>2. pc = "flush" => rules' = rules /\ \A f \in Family : Shrinks(f)
      <3>. SUFFICES ASSUME pc = "flush" PROVE rules' = rules /\ \A f \in Family : Shrinks(f)
        OBVIOUS
      <3>1. PICK left \in SUBSET table[x.table][x.family] :
              /\ table' = [table EXCEPT ![x.table][x.family] = left]
              /\ rules' = rules
        BY <1>1 DEF PartialEffect
      <3>. QED
        BY <3>1, SMTT(30) DEF Shrinks, TypeOK
    <2>3. CASE GoesOn
      <3>1. InLoop
        BY <1>1, <2>3 DEF InLoop, history
      <3>. QED
        BY <1>3, <2>1, <2>2, <2>3, <3>1, RollbackLoopKeeps, ReadLoopKeeps DEF GoesOn
    <2>4. CASE ~GoesOn
      <3>1. op = "apply" /\ pc \in Guarded
        BY <1>0, <1>3, <2>4 DEF GoesOn, CallInv, PhasesOf, TypeOK, Guarded
      <3>2. op' = "none" /\ applied' = applied /\ duty' = duty /\ torn' \in {"torn", "stray"}
        BY <1>1, <1>3, <2>4, <3>1 DEF Finish, Record
      <3>3. ASSUME NEW f \in cfg.families
            PROVE  transitionGuard(cfg, f) \in rules'
        <4>1. /\ transitionGuard(cfg, f) \in transitionGuards(configs(cfg))
              /\ transitionGuard(cfg, f) \in rules
          BY <3>1, GuardIn DEF configs, KernelInv, GuardInv
        <4>2. transitionGuard(cfg, f) \notin OwnedRules(x)
          BY <3>1, <4>1, GuardKept, Zenon DEF OwnedRules
        <4>. QED
          BY <1>1, <1>3, <2>2, <4>1, <4>2 DEF PartialEffect
      <3>4. cfg \in duty
        BY <3>1 DEF CallInv
      <3>5. ProtectedInv'
        BY <1>0, <3>2, <3>3, <3>4, Zenon DEF ProtectedInv, Protected
      <3>. QED
        BY <2>1, <3>2, <3>5, Zenon DEF KernelInv, RulesInv, GuardInv, BuildInv, AppliedInv
    <2>. QED
      BY <2>3, <2>4
  <1>. QED
    BY <1>2, <1>3

\* IInv is inductive for managers that use one priority block.
LEMMA Induction == OneBlock /\ IInv /\ [Next]_vars => IInv'
  <1>. SUFFICES ASSUME OneBlock, IInv, [Next]_vars PROVE IInv'
    OBVIOUS
  <1>1. TypeOK' /\ CallInv'
    BY TypeInduction DEF IInv
  <1>2. KernelInv'
    BY CallStepKeeps, FailureKeeps, CallsKeep, MonitorKeeps, EnvironmentKeeps, LinkLostKeeps,
       CrashKeeps DEF Next
  <1>. QED
    BY <1>1, <1>2 DEF IInv, KernelInv

\* newManager establishes IInv.
LEMMA InitInv == Init => IInv
  <1>. SUFFICES ASSUME Init PROVE IInv
    OBVIOUS
  <1>1. TypeOK /\ CallInv
    BY InitTypes
  <1>2. rules = {} /\ op = "none" /\ applied = NoConfig /\ duty = {}
    BY DEF Init
  <1>. QED
    BY <1>1, <1>2, Zenon DEF IInv, RulesInv, GuardInv, BuildInv, AppliedInv, ProtectedInv

\* Between any two adapter calls the kernel is in one of the states that the
\* order of the loops of applyDesired and refresh is there for: guards first,
\* then tables, then rules, for any constants.
THEOREM IInvHolds ==
    ASSUME OneBlock
    PROVE  Spec => []IInv
  <1>1. IInv /\ [Next]_vars => IInv'
    BY Induction
  <1>. QED
    BY InitInv, <1>1, PTL DEF Spec

\* Fail closed, for any set of validated configurations that share a priority
\* block, any routes of the main table, and any number of calls, failures,
\* main-table changes, lost links and crashes: at every instant between two
\* adapter calls of Apply, Refresh or the monitor a packet leaves outside the
\* tunnel only if a policy in force allows it, but for the window that Refresh
\* opens after a failed Apply.
THEOREM FailClosedHolds ==
    ASSUME OneBlock
    PROVE  Spec => []FailClosed
  <1>1. IInv => FailClosed
    BY InvImpliesFailClosed
  <1>2. Spec => []IInv
    BY IInvHolds
  <1>. QED
    BY <1>1, <1>2, PTL

----------------------------------------------------------------------------
(* No change of main is lost: CurrentInv is inductive. *)

\* What BroughtUp says of a call that has a complete safe table.
LEMMA BroughtUpLast ==
    ASSUME WorkInv, op \in {"apply", "refresh"}, ~Told, pc = "unguard", NEW f \in cfg.families
    PROVE  Current(cfg, f)
  BY Zenon DEF WorkInv, BroughtUp

\* A step beside the call that loses no news and leaves main and the safe tables,
\* or that brings news.
LEMMA BesideKeeps ==
    ASSUME TypeOK, CallInv, CurrentInv, MonitorInv',
           UNCHANGED <<op, pc, cfg, todo, snap, failed, applied, torn, litter>>,
           closed => closed', Told => Told',
           ~Told' => /\ main' = main
                     /\ \A c \in Config : \A f \in c.families :
                          table[c.safe][f] \subseteq main[f] =>
                            table'[c.safe][f] = table[c.safe][f]
    PROVE  CurrentInv'
  <1>1. WorkInv'
    <2>. SUFFICES ASSUME op \in {"apply", "refresh"}, ~Told', NEW f \in cfg.families
                  PROVE  BroughtUp(f)'
      BY Zenon DEF WorkInv
    <2>1. BroughtUp(f) /\ main' = main
      BY Zenon DEF CurrentInv, WorkInv
    <2>2. cfg \in Config /\ SafeRoutes(cfg, main[f]) \subseteq main[f]
      BY DEF CallInv, SafeRoutes
    <2>3. pc \in {"vpn", "safe", "delRules", "addRules", "unguard"} =>
            table[cfg.safe][f] \subseteq main[f]
      BY <2>1, <2>2, Zenon DEF BroughtUp, Current
    <2>4. pc \in {"vpn", "safe", "delRules", "addRules", "unguard"} =>
            table'[cfg.safe][f] = table[cfg.safe][f]
      BY <2>2, <2>3
    <2>5. table[cfg.safe][f] = {} => table'[cfg.safe][f] = {}
      BY <2>2
    <2>6. HasSnapshot' = HasSnapshot
      BY Zenon DEF HasSnapshot
    <2>. QED
      BY <2>1, <2>4, <2>5, <2>6, Zenon DEF BroughtUp, Current
  <1>2. TendedInv'
    <2>. SUFFICES ASSUME Tended', ~Told', ~applied.strict, NEW f \in applied.families
                  PROVE  Current(applied, f)'
      BY Zenon DEF TendedInv
    <2>1. Tended
      BY Zenon DEF Tended
    <2>2. Current(applied, f) /\ main' = main
      BY <2>1, Zenon DEF CurrentInv, TendedInv
    <2>3. applied \in Config /\ table[applied.safe][f] \subseteq main[f]
      BY <2>1, <2>2, Zenon DEF Tended, TypeOK, Current, SafeRoutes
    <2>4. table'[applied.safe][f] = table[applied.safe][f]
      BY <2>2, <2>3, Zenon
    <2>. QED
      BY <2>2, <2>4, Zenon DEF Current
  <1>. QED
    BY <1>1, <1>2, Zenon DEF CurrentInv

\* The monitor loses no news while it holds no lock.
LEMMA MonitorHears ==
    ASSUME TypeOK, CallInv, CurrentInv, MonStep
    PROVE  CurrentInv'
  <1>1. MonitorInv
    BY DEF CurrentInv
  <1>2. UNCHANGED <<kernel, applied, closing, history>>
    BY Zenon DEF MonStep, MonEvent, MonChannelClosed, beginRouteChange, MonTimer,
                 refreshAfterRouteChange, MonStop
  <1>3. UNCHANGED <<rules, table, main, applied, closed, torn, litter>>
    BY <1>2, Zenon DEF kernel, closing, history
  <1>4. ASSUME UNCHANGED call, MonitorInv', Told => Told' PROVE CurrentInv'
    <2>1. UNCHANGED <<op, pc, cfg, todo, snap, failed>>
      BY <1>4, Zenon DEF call
    <2>. QED
      BY <1>3, <1>4, <2>1, BesideKeeps, Zenon
  <1>5. ASSUME UNCHANGED call PROVE op' = op /\ owner' = owner
    BY <1>5, Zenon DEF call
  <1>6. CASE MonEvent
    <2>1. /\ UNCHANGED call /\ monPc = "select" /\ sub' = sub /\ pending' = TRUE
          /\ monPc' \in {"select", "begin"}
      BY <1>6, Zenon DEF MonEvent
    <2>2. op # "begin" /\ ~(op = "refresh" /\ owner = "monitor")
      BY <1>1, <2>1 DEF MonitorInv
    <2>3. MonitorInv' /\ Told'
      BY <1>1, <1>5, <2>1, <2>2 DEF MonitorInv, Told
    <2>. QED
      BY <1>4, <2>1, <2>3
  <1>7. CASE MonChannelClosed
    <2>1. /\ UNCHANGED call /\ monPc = "select" /\ sub' = "none" /\ pending' = TRUE
          /\ monPc' \in {"select", "begin"}
      BY <1>7, Zenon DEF MonChannelClosed
    <2>2. op # "begin" /\ ~(op = "refresh" /\ owner = "monitor")
      BY <1>1, <2>1 DEF MonitorInv
    <2>3. MonitorInv' /\ Told'
      BY <1>1, <1>5, <2>1, <2>2 DEF MonitorInv, Told
    <2>. QED
      BY <1>4, <2>1, <2>3
  <1>8. CASE MonTimer
    <2>1. /\ UNCHANGED <<call, pending, events>> /\ monPc = "select"
          /\ \/ monPc' = "exit" /\ sub' = sub /\ sub = "none"
             \/ monPc' = monPc /\ sub' = sub
             \/ monPc' = (IF pending THEN "refresh" ELSE "select") /\ sub' # "none"
                /\ sub' \in {"live", sub} /\ (sub = "none" \/ sub' = sub)
      BY <1>8, Zenon DEF MonTimer
    <2>2. op # "begin" /\ ~(op = "refresh" /\ owner = "monitor")
      BY <1>1, <2>1 DEF MonitorInv
    <2>3. MonitorInv' /\ (Told => Told')
      BY <1>1, <1>5, <2>1, <2>2 DEF MonitorInv, Told
    <2>. QED
      BY <1>4, <2>1, <2>3
  <1>9. CASE MonStop
    <2>1. UNCHANGED call /\ monPc = "select" /\ sub' = "none" /\ monPc' = "exit"
      BY <1>9, Zenon DEF MonStop
    <2>2. op # "begin" /\ ~(op = "refresh" /\ owner = "monitor")
      BY <1>1, <2>1 DEF MonitorInv
    <2>3. MonitorInv' /\ Told'
      BY <1>1, <1>5, <2>1, <2>2 DEF MonitorInv, Told
    <2>. QED
      BY <1>4, <2>1, <2>3
  <1>10. ASSUME beginRouteChange, UNCHANGED <<call, pending>>, monPc' = "select", pc = "idle"
         PROVE  CurrentInv'
    <2>1. op = "none" /\ monPc = "begin" /\ sub' = sub
      BY <1>10, OwnersAre DEF beginRouteChange
    <2>2. MonitorInv' /\ Told'
      BY <1>1, <1>5, <1>10, <2>1 DEF MonitorInv, Told
    <2>. QED
      BY <1>4, <1>10, <2>2
  <1>11. ASSUME refreshAfterRouteChange, Quiet, UNCHANGED call, monPc' = "select",
                pc = "idle"
         PROVE  CurrentInv'
    <2>1. op = "none" /\ op' = "none" /\ owner' = owner /\ monPc = "refresh" /\ sub' = sub
      BY <1>5, <1>11, OwnersAre DEF refreshAfterRouteChange
    <2>2. MonitorInv' /\ WorkInv'
      BY <1>1, <1>11, <2>1 DEF MonitorInv, WorkInv
    <2>3. TendedInv'
      BY <1>3, <1>11 DEF TendedInv, Tended, Quiet
    <2>. QED
      BY <2>2, <2>3 DEF CurrentInv
  <1>12. ASSUME NEW o \in {"begin", "refresh"}, Start(o, "monitor", "guard", applied),
                UNCHANGED <<sub, monPc, pending>>, monPc = o
         PROVE  CurrentInv'
    <2>1. op' = o /\ owner' = "monitor" /\ pc' = "guard" /\ cfg' = applied
      BY <1>12, Zenon DEF Start
    <2>2. MonitorInv'
      BY <1>1, <1>12, <2>1 DEF MonitorInv
    <2>3. WorkInv'
      BY <2>1 DEF WorkInv, BroughtUp, HasSnapshot
    <2>4. TendedInv'
      BY <2>1 DEF TendedInv, Tended
    <2>. QED
      BY <2>2, <2>3, <2>4 DEF CurrentInv
  <1>13. CASE beginRouteChange
    <2>1. \/ UNCHANGED <<call, pending>> /\ monPc' = "select" /\ pc = "idle"
          \/ /\ Start("begin", "monitor", "guard", applied)
             /\ UNCHANGED <<sub, monPc, pending>> /\ monPc = "begin"
      BY <1>13, Zenon DEF beginRouteChange
    <2>. QED
      BY <1>10, <1>12, <1>13, <2>1, Zenon
  <1>14. CASE refreshAfterRouteChange
    <2>1. \/ UNCHANGED call /\ monPc' = "select" /\ pc = "idle" /\ Quiet
          \/ /\ Start("refresh", "monitor", "guard", applied)
             /\ UNCHANGED <<sub, monPc, pending>> /\ monPc = "refresh"
      BY <1>14, Zenon DEF refreshAfterRouteChange
    <2>. QED
      BY <1>11, <1>12, <1>14, <2>1, Zenon
  <1>. QED
    BY <1>6, <1>7, <1>8, <1>9, <1>13, <1>14, Zenon DEF MonStep

\* Whoever changes main is heard, or the subscription is down.
LEMMA NotifyTells ==
    ASSUME TypeOK, Notify, sub' = sub
    PROVE  Told'
  <1>1. CASE sub = "live"
    <2>1. events' > 0
      BY <1>1 DEF Notify, TypeOK
    <2>. QED
      BY <2>1 DEF Told
  <1>2. CASE sub # "live"
    BY <1>2, Zenon DEF Told
  <1>. QED
    BY <1>1, <1>2

\* Close and the environment lose no news.
LEMMA EnvironmentTells ==
    ASSUME TypeOK, CallInv, CurrentInv,
           \/ \E c \in Closer : CloseBegin(c) \/ CloseAdapter(c) \/ CloseReturn(c)
           \/ \E f \in Family, r \in MainRoute : RouteChange(f, r)
           \/ \E d \in TunLinks : LinkLost(d)
           \/ SubscriptionFails
    PROVE  CurrentInv'
  <1>0. /\ UNCHANGED <<applied, call, history, monPc, pending>>
        /\ closed' = closed \/ closed' = TRUE
    BY Zenon DEF CloseBegin, CloseAdapter, CloseReturn, RouteChange, LinkLost,
                 SubscriptionFails, closing, monitor
  <1>1. UNCHANGED <<applied, call, history, monPc, pending>> /\ (closed => closed')
    BY <1>0
  <1>2. UNCHANGED <<op, owner, pc, cfg, todo, snap, failed, torn, litter>>
    BY <1>1, Zenon DEF call, history
  <1>3. MonitorInv
    BY DEF CurrentInv
  <1>4. ASSUME sub' = sub, Told => Told',
               ~Told' => /\ main' = main
                         /\ \A c \in Config : \A f \in c.families :
                              table[c.safe][f] \subseteq main[f] =>
                                table'[c.safe][f] = table[c.safe][f]
        PROVE  CurrentInv'
    <2>1. MonitorInv'
      BY <1>1, <1>2, <1>3, <1>4, Zenon DEF MonitorInv
    <2>. QED
      BY <1>1, <1>2, <1>4, <2>1, BesideKeeps, Zenon
  <1>5. ASSUME NEW c \in Closer, CloseBegin(c) \/ CloseAdapter(c) \/ CloseReturn(c)
        PROVE  CurrentInv'
    <2>1. UNCHANGED <<main, table, sub, events>>
      BY <1>5, Zenon DEF CloseBegin, CloseAdapter, CloseReturn, kernel, monitor
    <2>2. Told => Told'
      BY <1>1, <1>2, <2>1, Zenon DEF Told
    <2>. QED
      BY <1>4, <2>1, <2>2, Zenon
  <1>6. ASSUME NEW f \in Family, NEW r \in MainRoute, RouteChange(f, r)
        PROVE  CurrentInv'
    <2>1. Notify /\ sub' = sub
      BY <1>6, Zenon DEF RouteChange
    <2>2. Told'
      BY <2>1, NotifyTells
    <2>. QED
      BY <1>4, <2>1, <2>2, Zenon
  <1>7. ASSUME NEW d \in TunLinks, LinkLost(d)
        PROVE  CurrentInv'
    <2>1. /\ sub' = sub /\ (main' # main => Notify) /\ (main' = main => events' = events)
          /\ table' = [t \in Tables |-> [f \in Family |-> table[t][f] \ Over(d, table[t][f])]]
          /\ main' = [f \in Family |-> main[f] \ Over(d, main[f])]
      BY <1>7, Zenon DEF LinkLost
    <2>2. main' # main => Told'
      BY <2>1, NotifyTells, Zenon
    <2>3. main' = main /\ Told => Told'
      BY <1>1, <1>2, <2>1, Zenon DEF Told
    <2>4. ASSUME main' = main, NEW c \in Config, NEW f \in c.families,
                 table[c.safe][f] \subseteq main[f]
          PROVE  table'[c.safe][f] = table[c.safe][f]
      <3>1. c.safe \in Tables /\ f \in Family
        BY ConfigFields DEF Tables
      <3>2. main[f] = main[f] \ Over(d, main[f])
        BY <2>1, <2>4, <3>1, Zenon
      <3>3. Over(d, table[c.safe][f]) = {}
        BY <2>4, <3>2 DEF Over
      <3>4. table'[c.safe][f] = table[c.safe][f] \ Over(d, table[c.safe][f])
        BY <2>1, <3>1, Zenon
      <3>. QED
        BY <3>3, <3>4, Zenon
    <2>. QED
      BY <1>4, <2>1, <2>2, <2>3, <2>4, Zenon
  <1>8. CASE SubscriptionFails
    <2>1. sub' = "closed" /\ main' = main /\ table' = table /\ events' = events
      BY <1>8, Zenon DEF SubscriptionFails, kernel
    <2>2. MonitorInv' /\ Told'
      BY <1>1, <1>2, <1>3, <2>1 DEF MonitorInv, Told
    <2>. QED
      BY <1>1, <1>2, <2>1, <2>2, BesideKeeps, Zenon
  <1>. QED
    BY <1>5, <1>6, <1>7, <1>8, Zenon

\* A call begins with what the monitor knows.
LEMMA CallsTold ==
    ASSUME TypeOK, CallInv, CurrentInv,
           \/ \E c \in Config : Apply(c) \/ Rollback(c)
           \/ Refresh
    PROVE  CurrentInv'
  <1>0. UNCHANGED <<kernel, applied, closing, monitor, litter>>
    BY Zenon DEF Apply, Rollback, Refresh, history
  <1>1. UNCHANGED <<main, table, applied, closed, monPc, pending, sub, events, litter>>
    BY <1>0, Zenon DEF kernel, closing, monitor
  <1>2. MonitorInv
    BY DEF CurrentInv
  <1>3. ASSUME NEW c \in Config, Apply(c) PROVE CurrentInv'
    <2>1. /\ op' = "apply" /\ owner' = "caller" /\ pc' = "link" /\ cfg' = c /\ pc = "idle"
          /\ torn' \in {torn, "stray"}
      BY <1>3, Zenon DEF Apply, Start
    <2>2. op = "none" /\ owner = "caller"
      BY <1>2, <2>1, OwnersAre DEF MonitorInv
    <2>3. MonitorInv' /\ WorkInv'
      BY <1>1, <1>2, <2>1, Zenon DEF MonitorInv, WorkInv, BroughtUp, HasSnapshot, Guarded
    <2>4. Told' <=> Told
      BY <1>1, <2>1, <2>2 DEF Told
    <2>5. Tended' => Tended
      BY <1>1, <2>1, <2>2 DEF Tended
    <2>6. TendedInv'
      BY <1>1, <2>4, <2>5, Zenon DEF CurrentInv, TendedInv, Current
    <2>. QED
      BY <2>3, <2>6 DEF CurrentInv
  <1>4. ASSUME \/ \E c \in Config : Rollback(c)
               \/ Refresh
        PROVE  CurrentInv'
    <2>1. /\ owner' = "caller" /\ pc' \in {"guard", "delRules"}
          /\ op' \in {"refresh", "rollback"} /\ (op' = "refresh" => pc' = "guard")
      BY <1>4, Zenon DEF Rollback, Refresh, Start
    <2>2. MonitorInv' /\ WorkInv' /\ TendedInv'
      BY <1>1, <1>2, <2>1, Zenon
      DEF MonitorInv, WorkInv, TendedInv, Tended, BroughtUp, HasSnapshot, Guarded
    <2>. QED
      BY <2>2 DEF CurrentInv
  <1>. QED
    BY <1>3, <1>4, Zenon

----------------------------------------------------------------------------
(* The call. *)

\* The return of a call; a failed Apply may have flushed a part of a table.
LEMMA FinishTold ==
    ASSUME TypeOK, CallInv, CurrentInv, op # "none", NEW ok \in BOOLEAN, Finish(ok),
           main' = main, closed' = closed, table' = table \/ (~ok /\ pc \in Guarded),
           ok /\ op \in {"apply", "refresh"} => pc = "unguard"
    PROVE  CurrentInv'
  <1>1. MonitorInv /\ WorkInv /\ TendedInv
    BY DEF CurrentInv
  <1>2. op' = "none" /\ owner' = "caller" /\ UNCHANGED <<sub, events>>
    BY Zenon DEF Finish
  <1>3. /\ owner = "monitor" /\ (op = "begin" \/ ~ok) => monPc' = "select" /\ pending' = TRUE
        /\ owner = "monitor" => monPc' = "select"
        /\ owner # "monitor" => UNCHANGED <<monPc, pending>>
    BY Zenon DEF Finish
  <1>4. owner = "monitor" => op \in {"refresh", "begin"}
    BY <1>1 DEF MonitorInv, TypeOK
  <1>5. MonitorInv'
    <2>1. owner = "monitor" /\ sub = "none" => op = "begin"
      BY <1>1, <1>4 DEF MonitorInv
    <2>. QED
      BY <1>1, <1>2, <1>3, <2>1 DEF MonitorInv
  <1>6. Told => Told'
    <2>1. CASE owner = "monitor" /\ op = "refresh"
      BY <1>2, <2>1, Zenon DEF Told
    <2>2. CASE owner = "monitor" /\ op = "begin"
      BY <1>2, <1>3, <2>2, Zenon DEF Told
    <2>3. CASE owner # "monitor"
      BY <1>2, <1>3, <2>3, Zenon DEF Told
    <2>. QED
      BY <1>4, <2>1, <2>2, <2>3
  <1>7. op = "begin" => Told'
    BY <1>1, <1>2, <1>3 DEF MonitorInv, Told
  <1>8. TendedInv'
    <2>. SUFFICES ASSUME Tended', ~Told'
                  PROVE  (applied.strict \/ \A f \in applied.families : Current(applied, f))'
      BY Zenon DEF TendedInv
    <2>0. /\ ~Told /\ op # "begin" /\ applied' # NoConfig /\ applied' \notin litter'
          /\ torn' = "whole" /\ ~closed
      BY <1>6, <1>7, Zenon DEF Tended
    <2>1. CASE op = "apply" /\ ok
      <3>1. applied' = cfg /\ pc = "unguard" /\ table' = table
        BY <2>1 DEF Finish
      <3>2. \A f \in cfg.families : Current(cfg, f)
        BY <1>1, <2>0, <2>1, <3>1, BroughtUpLast, Zenon
      <3>. QED
        BY <3>1, <3>2, Zenon DEF Current
    <2>2. CASE op = "apply" /\ ~ok
      <3>1. applied' = applied
        BY <2>2 DEF Finish
      <3>2. /\ torn' = IF torn = "stray" \/ pc \in {"link", "snapshot", "guard"}
                         THEN torn ELSE "torn"
            /\ litter' = IF pc \in {"link", "snapshot"} THEN litter
                         ELSE litter \cup configs(cfg)
        BY <2>2, Zenon DEF Finish, Record
      <3>3. applied \in configs(cfg)
        BY <2>0, <3>1, Zenon DEF configs
      <3>4. pc \in {"link", "snapshot"} /\ torn = "whole" /\ applied \notin litter
        BY <2>0, <3>1, <3>2, <3>3
      <3>5. Tended
        BY <2>0, <2>2, <3>1, <3>4 DEF Tended
      <3>6. table' = table
        BY <3>4 DEF Guarded
      <3>7. applied.strict \/ \A f \in applied.families : Current(applied, f)
        BY <1>1, <2>0, <3>5, Zenon DEF TendedInv
      <3>. QED
        BY <3>1, <3>6, <3>7, Zenon DEF Current
    <2>3. CASE op = "refresh" /\ ok
      <3>1. applied' = applied /\ pc = "unguard" /\ cfg = applied /\ table' = table
        BY <2>3 DEF Finish, CallInv
      <3>2. \A f \in cfg.families : Current(cfg, f)
        BY <1>1, <2>0, <2>3, <3>1, BroughtUpLast, Zenon
      <3>. QED
        BY <3>1, <3>2, Zenon DEF Current
    <2>4. CASE op = "refresh" /\ ~ok
      <3>1. applied' = applied /\ litter' = litter \cup configs(cfg)
        BY <2>4 DEF Finish, Record
      <3>2. applied \in configs(cfg)
        BY <2>0, <3>1, Zenon DEF configs
      <3>. QED
        BY <2>0, <3>1, <3>2
    <2>5. CASE op = "rollback"
      <3>1. ok => applied' = NoConfig
        BY <2>5 DEF Finish
      <3>2. ~ok => torn' = torn
        BY <2>5 DEF Finish, Record
      <3>3. torn = "torn"
        BY <2>5 DEF CallInv
      <3>. QED
        BY <2>0, <3>1, <3>2, <3>3
    <2>. QED
      BY <2>0, <2>1, <2>2, <2>3, <2>4, <2>5, Zenon DEF TypeOK
  <1>9. WorkInv'
    BY <1>2 DEF WorkInv
  <1>. QED
    BY <1>5, <1>8, <1>9, Zenon DEF CurrentInv

\* A step of a call that goes on: only what the call knows changes.
LEMMA GoesOnTold ==
    ASSUME CurrentInv, op # "none", UNCHANGED <<op, owner, cfg, applied, litter, closed>>,
           UNCHANGED <<monPc, pending, sub, events>>, torn' \in {torn, "bared"},
           Tended' => Tended /\ table' = table /\ main' = main,
           \A f \in cfg.families : op \in {"apply", "refresh"} /\ BroughtUp(f) => BroughtUp(f)'
    PROVE  CurrentInv'
  <1>1. MonitorInv'
    BY Zenon DEF CurrentInv, MonitorInv
  <1>2. Told' <=> Told
    BY Zenon DEF Told
  <1>3. WorkInv'
    BY <1>2, Zenon DEF CurrentInv, WorkInv
  <1>4. TendedInv'
    BY <1>2, Zenon DEF CurrentInv, TendedInv, Current
  <1>. QED
    BY <1>1, <1>3, <1>4, Zenon DEF CurrentInv

\* A loop has ended and the next one begins.
LEMMA NextLoopBringsUp ==
    ASSUME CallInv, EndPhase, op \in {"apply", "refresh"}, NEW f \in cfg.families, BroughtUp(f),
           pc' = NextPhase(op, pc), todo' = Work(op, NextPhase(op, pc), cfg, snap),
           UNCHANGED <<op, cfg, snap, failed, main, table>>, ~(op = "refresh" /\ failed),
           NextPhase(op, pc) # "idle"
    PROVE  BroughtUp(f)'
  <1>1. pc' = "snapshot" => f \in todo'
    BY DEF Work
  <1>2. pc' = "flush" => [table |-> cfg.safe, family |-> f] \in todo'
    <2>1. CASE op = "refresh"
      BY <2>1, Zenon DEF Work
    <2>2. CASE op = "apply"
      BY <2>2 DEF Work, ownedTableTargets, configs
    <2>. QED
      BY <2>1, <2>2, Zenon
  <1>3. HasSnapshot' => snap[f] = main[f]
    <2>1. HasSnapshot' => HasSnapshot \/ (pc = "snapshot" /\ todo = {})
      BY DEF HasSnapshot, Guarded, NextPhase, EndPhase, CallInv, PhasesOf
    <2>. QED
      BY <2>1, Zenon DEF BroughtUp
  <1>4. pc' = "vpn" => pc = "flush" /\ op = "apply"
    BY DEF NextPhase, CallInv, PhasesOf, Guarded
  <1>5. pc' = "safe" => pc \in {"vpn", "flush"} /\ HasSnapshot'
    BY DEF NextPhase, CallInv, PhasesOf, Guarded, HasSnapshot
  <1>6. pc' \in {"delRules", "addRules", "unguard"} => pc \in {"safe", "delRules", "addRules"}
    BY DEF NextPhase, CallInv, PhasesOf, Guarded
  <1>7. todo = {}
    BY Zenon DEF EndPhase
  <1>8. pc' \in {"vpn", "safe"} => table[cfg.safe][f] = {}
    BY <1>4, <1>5, <1>7, Zenon DEF BroughtUp
  <1>9. pc' = "safe" =>
          \A r \in SafeRoutes(cfg, main[f]) : [family |-> f, route |-> r] \in todo'
    <2>. SUFFICES ASSUME pc' = "safe", NEW r \in SafeRoutes(cfg, main[f])
                  PROVE  [family |-> f, route |-> r] \in todo'
      BY Zenon
    <2>1. todo' = UNION {[family : {g}, route : SafeRoutes(cfg, snap[g])] : g \in cfg.families}
      BY DEF Work
    <2>2. [family |-> f, route |-> r] \in [family : {f}, route : SafeRoutes(cfg, snap[f])]
      BY <1>3, <1>5, Zenon
    <2>. QED
      BY <2>1, <2>2, Zenon
  <1>10. pc' \in {"delRules", "addRules", "unguard"} => Current(cfg, f)
    BY <1>6, <1>7, Zenon DEF BroughtUp, Current
  <1>. QED
    BY <1>1, <1>2, <1>3, <1>8, <1>9, <1>10, Zenon DEF BroughtUp, Current

\* A loop ends.
LEMMA EndPhaseTold ==
    ASSUME TypeOK, CallInv, CurrentInv, EndPhase
    PROVE  CurrentInv'
  <1>1. op # "none" /\ pc # "idle" /\ UNCHANGED <<main, table, closed>>
    BY OwnersAre DEF EndPhase, kernel, closing
  <1>2. CASE NextPhase(op, pc) = "idle" \/ (op = "refresh" /\ failed)
    <2>1. Finish(~failed) /\ (~failed) \in BOOLEAN
      BY <1>2, Zenon DEF EndPhase
    <2>2. ~failed /\ op \in {"apply", "refresh"} => pc = "unguard"
      BY <1>2 DEF NextPhase, CallInv, PhasesOf, Guarded
    <2>. QED
      BY <1>1, <2>1, <2>2, FinishTold, Zenon
  <1>3. CASE ~(NextPhase(op, pc) = "idle" \/ (op = "refresh" /\ failed))
    <2>1. /\ pc' = NextPhase(op, pc) /\ todo' = Work(op, NextPhase(op, pc), cfg, snap)
          /\ UNCHANGED <<op, owner, cfg, snap, failed, applied, litter, monitor>>
          /\ torn' \in {torn, "bared"}
      BY <1>3, Zenon DEF EndPhase
    <2>2. UNCHANGED <<monPc, pending, sub, events>>
      BY <2>1, Zenon DEF monitor
    <2>3. Tended' => Tended
      <3>1. op = "apply" /\ pc' \in {"link", "snapshot", "guard"} => pc \in {"link", "snapshot"}
        BY <1>3, <2>1 DEF NextPhase, CallInv, PhasesOf, Guarded
      <3>. QED
        BY <1>1, <2>1, <3>1 DEF Tended
    <2>4. ASSUME NEW f \in cfg.families, op \in {"apply", "refresh"}, BroughtUp(f)
          PROVE  BroughtUp(f)'
      BY <1>1, <1>3, <2>1, <2>4, NextLoopBringsUp, Zenon
    <2>. QED
      BY <1>1, <2>1, <2>2, <2>3, <2>4, GoesOnTold, Zenon
  <1>. QED
    BY <1>2, <1>3

\* What a step inside a loop leaves alone besides.
CallFrame == UNCHANGED <<op, owner, pc, cfg, applied, torn, litter, closed,
                         monPc, pending, sub, events>>

\* A loop that neither reads main nor writes a table.
LEMMA RuleLoopTold ==
    ASSUME CurrentInv, CallInv, CallFrame,
           pc \in {"link", "guard", "obsolete", "delRules", "addRules", "unguard"},
           UNCHANGED <<main, table, snap>>
    PROVE  CurrentInv'
  <1>1. op # "none"
    BY DEF CallInv, PhasesOf
  <1>2. UNCHANGED <<op, owner, pc, cfg, applied, torn, litter, closed,
                    monPc, pending, sub, events>>
    BY DEF CallFrame
  <1>3. Tended' => Tended
    BY <1>2, Zenon DEF Tended
  <1>4. ASSUME NEW f \in cfg.families, BroughtUp(f) PROVE BroughtUp(f)'
    BY <1>2, <1>4, Zenon DEF BroughtUp, HasSnapshot, Current
  <1>. QED
    BY <1>1, <1>2, <1>3, <1>4, GoesOnTold, Zenon

\* snapshotMain reads a family.
LEMMA ListTold ==
    ASSUME TypeOK, CurrentInv, CallInv, CallFrame, pc = "snapshot", NEW g \in todo,
           UNCHANGED <<main, table>>, todo' = todo \ {g}, snap' = [snap EXCEPT ![g] = main[g]]
    PROVE  CurrentInv'
  <1>1. op \in {"apply", "refresh"} /\ cfg \in Config /\ todo \subseteq cfg.families
    BY DEF CallInv, PhasesOf, TypeOK, Work
  <1>2. UNCHANGED <<op, owner, pc, cfg, applied, torn, litter, closed,
                    monPc, pending, sub, events>>
    BY DEF CallFrame
  <1>3. Tended' => Tended
    BY <1>2, Zenon DEF Tended
  <1>4. ASSUME NEW f \in cfg.families, BroughtUp(f) PROVE BroughtUp(f)'
    <2>1. f \in Family /\ g \in Family /\ snap \in [Family -> SUBSET MainRoute]
      BY <1>1, ConfigFields, Zenon DEF TypeOK
    <2>2. f \in todo' \/ snap'[f] = main'[f]
      BY <1>4, <2>1 DEF BroughtUp
    <2>. QED
      BY <1>2, <2>2, Zenon DEF BroughtUp, HasSnapshot, Guarded
  <1>. QED
    BY <1>1, <1>2, <1>3, <1>4, GoesOnTold, Zenon

\* A table is flushed for one family, or the flush of a refresh has failed there.
LEMMA FlushTold ==
    ASSUME TypeOK, CurrentInv, CallInv, CallFrame, pc = "flush", NEW t \in todo, NEW left,
           UNCHANGED <<main, snap>>, todo' = todo \ {t},
           table' = [table EXCEPT ![t.table][t.family] = left],
           \/ left = {} /\ failed' = failed
           \/ op # "apply" /\ failed' = TRUE
    PROVE  CurrentInv'
  <1>1. op # "none" /\ cfg \in Config
    BY DEF CallInv, PhasesOf
  <1>2. UNCHANGED <<op, owner, pc, cfg, applied, torn, litter, closed,
                    monPc, pending, sub, events>>
    BY DEF CallFrame
  <1>3. ~Tended'
    BY <1>1, <1>2 DEF Tended
  <1>4. ASSUME NEW f \in cfg.families, op \in {"apply", "refresh"}, BroughtUp(f)
        PROVE  BroughtUp(f)'
    <2>1. HasSnapshot' = HasSnapshot
      BY <1>2, Zenon DEF HasSnapshot
    <2>2. CASE op = "refresh" /\ failed' = TRUE
      BY <1>2, <1>4, <2>1, <2>2, Zenon DEF BroughtUp
    <2>3. CASE left = {} /\ failed' = failed
      <3>1. /\ t.table \in Tables /\ t.family \in Family
            /\ t = [table |-> t.table, family |-> t.family]
        BY FlushTargets
      <3>2. cfg.safe \in Tables /\ f \in Family
        BY <1>1, ConfigFields DEF Tables
      <3>3. table \in [Tables -> [Family -> SUBSET Route]]
        BY Zenon DEF TypeOK
      <3>4. table'[cfg.safe][f] = IF t.table = cfg.safe /\ t.family = f THEN {}
                                  ELSE table[cfg.safe][f]
        BY <2>3, <3>1, <3>2, <3>3
      <3>5. table[cfg.safe][f] = {} => table'[cfg.safe][f] = {}
        BY <3>4
      <3>6. t = [table |-> cfg.safe, family |-> f] => table'[cfg.safe][f] = {}
        BY <3>4
      <3>. QED
        BY <1>2, <1>4, <2>1, <2>3, <3>5, <3>6, Zenon DEF BroughtUp
    <2>. QED
      BY <1>4, <2>2, <2>3, Zenon
  <1>. QED
    BY <1>1, <1>2, <1>3, <1>4, GoesOnTold, Zenon

\* A route is written to the VPN table, or a safe one to the safe table.
LEMMA ReplaceTold ==
    ASSUME TypeOK, CurrentInv, CallInv, CallFrame, pc \in {"vpn", "safe"}, NEW x \in todo,
           UNCHANGED <<main, snap>>, todo' = todo \ {x},
           table' = [table EXCEPT ![IF pc = "vpn" THEN cfg.vpn ELSE cfg.safe][x.family] =
                       @ \cup {x.route}]
    PROVE  CurrentInv'
  <1>1. op \in {"apply", "refresh"} /\ cfg \in Config /\ x \in Work(op, pc, cfg, snap)
    BY DEF CallInv, PhasesOf, TypeOK
  <1>2. UNCHANGED <<op, owner, pc, cfg, applied, torn, litter, closed,
                    monPc, pending, sub, events>>
    BY DEF CallFrame
  <1>3. ~Tended'
    BY <1>1, <1>2 DEF Tended
  <1>4. table \in [Tables -> [Family -> SUBSET Route]] /\ snap \in [Family -> SUBSET MainRoute]
    BY Zenon DEF TypeOK
  <1>5. cfg.safe \in Tables /\ cfg.vpn \in Tables /\ cfg.vpn # cfg.safe
    BY <1>1, ConfigFields DEF Tables
  <1>6. ASSUME NEW f \in cfg.families, BroughtUp(f) PROVE BroughtUp(f)'
    <2>0. HasSnapshot' = HasSnapshot /\ f \in Family
      BY <1>1, <1>2, ConfigFields DEF HasSnapshot
    <2>1. CASE pc = "vpn"
      <3>1. x.family \in Family
        BY <1>1, <2>1, VPNWork
      <3>2. table'[cfg.safe][f] = table[cfg.safe][f]
        BY <1>4, <1>5, <2>0, <2>1, <3>1, Zenon
      <3>. QED
        BY <1>2, <1>6, <2>0, <2>1, <3>2, Zenon DEF BroughtUp
    <2>2. CASE pc = "safe"
      <3>1. PICK g \in cfg.families : x \in [family : {g}, route : SafeRoutes(cfg, snap[g])]
        BY <1>1, <2>2 DEF Work
      <3>2. g \in Family /\ x.family = g /\ x.route \in SafeRoutes(cfg, snap[g])
            /\ x = [family |-> g, route |-> x.route]
        BY <1>1, <3>1, ConfigFields
      <3>3. table'[cfg.safe][f] = IF f = g THEN table[cfg.safe][f] \cup {x.route}
                                  ELSE table[cfg.safe][f]
        BY <1>4, <1>5, <2>0, <2>2, <3>2, Zenon
      <3>4. snap[f] = main[f]
        BY <1>1, <1>6, <2>2 DEF BroughtUp, HasSnapshot, Guarded
      <3>5. table'[cfg.safe][f] \subseteq SafeRoutes(cfg, main[f])
        <4>1. table[cfg.safe][f] \subseteq SafeRoutes(cfg, main[f])
          BY <1>6, <2>2, Zenon DEF BroughtUp
        <4>2. f = g => x.route \in SafeRoutes(cfg, main[f])
          BY <3>2, <3>4, Zenon
        <4>3. CASE f = g
          <5>1. table'[cfg.safe][f] = table[cfg.safe][f] \cup {x.route}
            BY <3>3, <4>3, Zenon
          <5>. QED
            BY <4>1, <4>2, <4>3, <5>1, Zenon
        <4>4. CASE f # g
          <5>1. table'[cfg.safe][f] = table[cfg.safe][f]
            BY <3>3, <4>4, Zenon
          <5>. QED
            BY <4>1, <5>1, Zenon
        <4>. QED
          BY <4>3, <4>4, Zenon
      <3>6. ASSUME NEW r \in SafeRoutes(cfg, main[f])
            PROVE  r \in table'[cfg.safe][f] \/ [family |-> f, route |-> r] \in todo'
        <4>1. r \in table[cfg.safe][f] \/ [family |-> f, route |-> r] \in todo
          BY <1>6, <2>2, Zenon DEF BroughtUp
        <4>2. [family |-> f, route |-> r] = x => f = g /\ r = x.route
          BY <3>2
        <4>. QED
          BY <3>3, <4>1, <4>2, SMTT(30)
      <3>. QED
        BY <1>2, <2>0, <2>2, <3>4, <3>5, <3>6, Zenon DEF BroughtUp
    <2>. QED
      BY <2>1, <2>2
  <1>. QED
    BY <1>1, <1>2, <1>3, <1>6, GoesOnTold, Zenon

\* Adapter calls that succeed.
LEMMA CallStepTold ==
    ASSUME TypeOK, CallInv, CurrentInv, CallStep
    PROVE  CurrentInv'
  <1>1. CASE EndPhase
    BY <1>1, EndPhaseTold
  <1>2. ASSUME NEW x, Did(x)
        PROVE  CallFrame /\ x \in todo /\ todo' = todo \ {x} /\ failed' = failed
    BY <1>2, Zenon DEF Did, IsNext, CallFrame, closing, monitor, history
  <1>3. CASE LinkByIndex
    BY <1>2, <1>3, RuleLoopTold, Zenon DEF LinkByIndex, kernel
  <1>4. CASE ListMain
    <2>1. PICK f \in todo : Did(f) /\ snap' = [snap EXCEPT ![f] = main[f]]
      BY <1>4, Zenon DEF ListMain
    <2>. QED
      BY <1>2, <1>4, <2>1, ListTold, Zenon DEF ListMain, kernel
  <1>5. CASE AddRule \/ DeleteRule \/ deleteOwnedRules
    <2>1. /\ pc \in {"link", "guard", "obsolete", "delRules", "addRules", "unguard"}
          /\ UNCHANGED <<main, table, snap>> /\ \E x : Did(x)
      BY <1>5, Zenon DEF AddRule, DeleteRule, deleteOwnedRules
    <2>. QED
      BY <1>2, <2>1, RuleLoopTold, Zenon
  <1>6. CASE flushTableFamily
    <2>1. PICK t \in todo : Did(t) /\ table' = [table EXCEPT ![t.table][t.family] = {}]
      BY <1>6, Zenon DEF flushTableFamily
    <2>2. pc = "flush" /\ UNCHANGED <<main, snap>>
      BY <1>6, Zenon DEF flushTableFamily
    <2>. QED
      BY <1>2, <2>1, <2>2, FlushTold, Zenon
  <1>7. CASE ReplaceRoute
    <2>1. PICK x \in todo :
            /\ Did(x)
            /\ table' = [table EXCEPT ![IF pc = "vpn" THEN cfg.vpn ELSE cfg.safe][x.family] =
                           @ \cup {x.route}]
      BY <1>7, Zenon DEF ReplaceRoute
    <2>2. pc \in {"vpn", "safe"} /\ UNCHANGED <<main, snap>>
      BY <1>7, Zenon DEF ReplaceRoute
    <2>. QED
      BY <1>2, <2>1, <2>2, ReplaceTold, Zenon
  <1>. QED
    BY <1>1, <1>3, <1>4, <1>5, <1>6, <1>7, Zenon DEF CallStep

\* Adapter calls that fail.
LEMMA FailureTold ==
    ASSUME TypeOK, CallInv, CurrentInv, AdapterFails
    PROVE  CurrentInv'
  <1>0. pc # "idle" /\ op # "none" /\ UNCHANGED closing
    BY OwnersAre DEF AdapterFails
  <1>1. PICK x \in todo :
          /\ PartialEffect(x)
          /\ IF GoesOn
               THEN /\ todo' = todo \ {x} /\ failed' = TRUE
                    /\ UNCHANGED <<op, owner, pc, cfg, snap, applied, monitor, history>>
               ELSE Finish(FALSE)
    BY Zenon DEF AdapterFails
  <1>2. main' = main /\ (pc # "flush" => table' = table) /\ closed' = closed
    <2>1. CASE pc = "flush"
      BY <1>0, <1>1, <2>1 DEF PartialEffect, closing
    <2>2. CASE pc = "delRules"
      BY <1>0, <1>1, <2>2 DEF PartialEffect, closing
    <2>3. CASE pc \notin {"flush", "delRules"}
      BY <1>0, <1>1, <2>3 DEF PartialEffect, closing, kernel
    <2>. QED
      BY <2>1, <2>2, <2>3
  <1>3. CASE GoesOn
    <2>1. /\ todo' = todo \ {x} /\ failed' = TRUE /\ snap' = snap
          /\ UNCHANGED <<op, owner, pc, cfg, applied, monitor, history>>
      BY <1>1, <1>3, Zenon
    <2>2. CallFrame
      BY <1>2, <2>1, Zenon DEF CallFrame, monitor, history
    <2>3. op # "apply" /\ pc \in {"flush", "delRules"}
      BY <1>3 DEF GoesOn, CallInv, PhasesOf
    <2>4. CASE pc = "flush"
      <3>1. PICK left : table' = [table EXCEPT ![x.table][x.family] = left]
        BY <1>1, <2>4, Zenon DEF PartialEffect
      <3>. QED
        BY <1>2, <2>1, <2>2, <2>3, <2>4, <3>1, FlushTold, Zenon
    <2>5. CASE pc = "delRules"
      <3>1. table' = table
        BY <1>2, <2>5
      <3>. QED
        BY <1>2, <2>1, <2>2, <2>5, <3>1, RuleLoopTold, Zenon
    <2>. QED
      BY <2>3, <2>4, <2>5
  <1>4. CASE ~GoesOn
    <2>1. Finish(FALSE)
      BY <1>1, <1>4, Zenon
    <2>2. table' = table \/ pc \in Guarded
      BY <1>2, Zenon DEF Guarded
    <2>. QED
      BY <1>0, <1>2, <2>1, <2>2, FinishTold, Zenon
  <1>. QED
    BY <1>3, <1>4

\* CurrentInv is inductive.
LEMMA CurrentInduction ==
    TypeOK /\ CallInv /\ CurrentInv /\ [Next]_vars => CurrentInv'
  <1>. SUFFICES ASSUME TypeOK, CallInv, CurrentInv, [Next]_vars PROVE CurrentInv'
    OBVIOUS
  <1>1. CASE UNCHANGED vars
    <2>1. UNCHANGED <<op, owner, pc, cfg, todo, snap, failed, applied, torn, litter, closed,
                      main, table, monPc, pending, sub, events>>
      BY <1>1, Zenon DEF vars, kernel, call, closing, monitor, history
    <2>2. MonitorInv' /\ (Told => Told')
      BY <2>1, Zenon DEF CurrentInv, MonitorInv, Told
    <2>. QED
      BY <2>1, <2>2, BesideKeeps, Zenon
  <1>2. CASE Crash
    <2>1. /\ op' = "none" /\ owner' = "caller" /\ applied' = NoConfig
          /\ monPc' = "select" /\ sub' = "live"
      BY <1>2, Zenon DEF Crash
    <2>2. MonitorInv' /\ WorkInv' /\ TendedInv'
      BY <2>1 DEF MonitorInv, WorkInv, TendedInv, Tended
    <2>. QED
      BY <2>2 DEF CurrentInv
  <1>. QED
    BY <1>1, <1>2, CallStepTold, FailureTold, CallsTold, MonitorHears, EnvironmentTells, Zenon
    DEF Next

\* Once the monitor has nothing left to do the safe table holds exactly the safe
\* routes of main: no change is lost between the subscription, the debounce timer,
\* refreshes and Apply, whatever fails, whenever the subscription breaks.
THEOREM SafeTableCurrentHolds == Spec => []SafeTableCurrent
  <1>1. Init => TypeOK /\ CallInv /\ CurrentInv
    <2>. SUFFICES ASSUME Init PROVE CurrentInv
      BY InitTypes
    <2>1. op = "none" /\ owner = "caller" /\ applied = NoConfig /\ monPc = "select" /\ sub = "live"
      BY Zenon DEF Init
    <2>. QED
      BY <2>1 DEF CurrentInv, MonitorInv, WorkInv, TendedInv, Tended
  <1>2. TypeOK /\ CallInv /\ CurrentInv /\ [Next]_vars => (TypeOK /\ CallInv /\ CurrentInv)'
    BY TypeInduction, CurrentInduction
  <1>3. TypeOK /\ CallInv /\ CurrentInv => SafeTableCurrent
    <2>. SUFFICES ASSUME TypeOK, CallInv, CurrentInv, Settled, ~applied.strict,
                         NEW f \in applied.families
                  PROVE  Current(applied, f)
      BY Zenon DEF SafeTableCurrent, Current
    <2>1. op = "none"
      BY OwnersAre DEF Settled, Quiescent
    <2>2. Tended /\ ~Told
      BY <2>1 DEF Tended, Told, Settled, Quiescent
    <2>. QED
      BY <2>2, Zenon DEF CurrentInv, TendedInv
  <1>. QED
    BY <1>1, <1>2, <1>3, PTL DEF Spec
=============================================================================
