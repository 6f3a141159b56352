------------------------------ MODULE Routing ------------------------------
(***************************************************************************)
(* routing.Manager and its route monitor (routing/manager.go, monitor.go)   *)
(* over the kernel's policy rules and routing tables.                       *)
(*                                                                          *)
(* Every adapter call of Apply, Refresh, Rollback and beginRouteChange is a *)
(* step of its own and may fail, so main-table changes, the loss of a TUN   *)
(* link, packets, Close and a crash of the process fall between any two of  *)
(* them.  Manager.mu is held exactly while pc # "idle".                     *)
(***************************************************************************)
EXTENDS RoutingPolicy

CONSTANTS
    Closer,        \* goroutines that call Manager.Close
    MaxCalls,      \* bound on Apply, Refresh and Rollback calls
    MaxFails,      \* bound on adapter and subscription failures
    MaxChanges,    \* bound on main-table changes and TUN links lost
    MaxCrashes     \* bound on crashes of the process

ASSUME BoundAssumption ==
    MaxCalls \in Nat /\ MaxFails \in Nat /\ MaxChanges \in Nat /\ MaxCrashes \in Nat

VARIABLES
    \* kernel
    rules,         \* policy rules inside the owned priority blocks
    table,         \* table[t][f]: routes of an owned table
    main,          \* main[f]: routes of the main table
    links,         \* TUN links that exist
    \* Manager
    applied,       \* applied.Config, or NoConfig
    op,            \* operation that holds mu
    owner,         \* who runs it: a caller or the monitor goroutine
    pc,            \* its phase
    cfg,           \* the configuration it works on
    todo,          \* what is left of the loop of this phase
    snap,          \* snapshotMain's result
    failed,        \* an error was collected (Rollback goes on after errors)
    closed,
    adapterOpen,
    closePc,       \* closePc[c]: where closer c is
    \* monitor goroutine
    monPc, pending, sub, events, timer,
    \* history and bounds
    duty,          \* configurations whose policy the kernel must enforce
    torn,          \* whether the kernel still holds what applied says
    litter,        \* configurations whose failed calls may have left state
    budget

kernel  == <<rules, table, main, links>>
call    == <<op, owner, pc, cfg, todo, snap, failed>>
closing == <<closed, adapterOpen, closePc>>
monitor == <<monPc, pending, sub, events, timer>>
history == <<duty, torn, litter>>
vars    == <<kernel, applied, call, closing, monitor, history, budget>>

Tables   == UNION {{c.vpn, c.safe} : c \in Config}
TunLinks == {c.tun : c \in Config}
NoRoutes == [f \in Family |-> {}]

Spend(b) == budget[b] > 0 /\ budget' = [budget EXCEPT ![b] = @ - 1]

\* Fields, locals and the kernel hold values of their types: the routes written to
\* an owned table are routes, an operation has a phase, no counter underflows.
TypeOK ==
    /\ rules \subseteq Rule
    /\ table \in [Tables -> [Family -> SUBSET Route]]
    /\ main \in [Family -> SUBSET MainRoute]
    /\ links \subseteq TunLinks
    /\ applied \in Config \cup {NoConfig}
    /\ op \in {"none", "apply", "refresh", "begin", "rollback"}
    /\ owner \in {"caller", "monitor"}
    /\ pc \in {"idle", "link", "guard", "snapshot", "obsolete", "flush", "vpn", "safe",
               "delRules", "addRules", "unguard"}
    /\ cfg \in Config \cup {NoConfig}
    /\ snap \in [Family -> SUBSET MainRoute]
    /\ failed \in BOOLEAN
    /\ closed \in BOOLEAN /\ adapterOpen \in BOOLEAN
    /\ closePc \in [Closer -> {"open", "waitMonitor", "waitDone", "done"}]
    /\ monPc \in {"select", "begin", "refresh", "exit"}
    /\ pending \in BOOLEAN /\ timer \in BOOLEAN
    /\ sub \in {"live", "closed", "none"}
    /\ events \in Nat
    /\ duty \subseteq Config
    /\ torn \in {"whole", "torn", "bared", "stray"}
    /\ litter \subseteq Config
    /\ budget \in [{"call", "fail", "change", "crash"} -> Nat]

Init ==
    /\ rules = {}
    /\ table = [t \in Tables |-> NoRoutes]
    /\ main \in [Family -> SUBSET MainRoute]
    /\ links = TunLinks
    /\ applied = NoConfig
    /\ op = "none" /\ owner = "caller" /\ pc = "idle"
    /\ cfg = NoConfig /\ todo = {} /\ snap = NoRoutes /\ failed = FALSE
    /\ closed = FALSE /\ adapterOpen = TRUE
    /\ closePc = [c \in Closer |-> "open"]
    /\ monPc = "select" /\ pending = FALSE /\ timer = FALSE
    /\ sub = "live" /\ events = 0
    /\ duty = {} /\ torn = "whole" /\ litter = {}
    /\ budget = [call |-> MaxCalls, fail |-> MaxFails,
                 change |-> MaxChanges, crash |-> MaxCrashes]

----------------------------------------------------------------------------
(* Phases. *)

\* Mutant: the applied configuration is forgotten.
MutConfigs(c) == {c}

\* The list `configs' built by applyDesired and Rollback.
configs(c) == {c} \cup (IF applied = NoConfig THEN {} ELSE {applied})

\* Rules of the applied state that would outrank a guard of the same priority.
ObsoleteRules(c) ==
    IF applied = NoConfig THEN {}
    ELSE {r \in DesiredRules(applied) :
            /\ r \notin DesiredRules(c)
            /\ ~keepRule(r, transitionGuards(configs(c)))
            /\ sameRulePriorityAsGuard(r, transitionGuards(configs(c)))}

\* The elements over which phase p of operation o on c loops; rts is the
\* snapshot of main.
Work(o, p, c, rts) ==
    CASE p = "link" -> {c.tun}
      [] p = "snapshot" -> c.families
      [] p = "guard" -> transitionGuards(IF o = "apply" THEN configs(c) ELSE {c})
      [] p = "obsolete" -> ObsoleteRules(c)
      [] p = "flush" -> IF o = "refresh" THEN [table : {c.safe}, family : c.families]
                        ELSE ownedTableTargets(configs(c))
      [] p = "vpn" -> UNION {[family : {f}, route : VPNRoutes(c, f)] : f \in c.families}
      [] p = "safe" ->
           UNION {[family : {f}, route : SafeRoutes(c, rts[f])] : f \in c.families}
      [] p = "delRules" -> ownedRuleScopes(configs(c))
      [] p = "addRules" -> DesiredRules(c)
      [] p = "unguard" -> IF o = "apply" THEN transitionGuards(configs(c)) \ DesiredRules(c)
                          ELSE transitionGuards({c})
      [] p = "idle" -> {}

\* The order of the loops in each operation.
NextPhase(o, p) ==
    CASE o = "apply" ->
           (CASE p = "link" -> "snapshot"
              [] p = "snapshot" -> "guard"
              [] p = "guard" -> "obsolete"
              [] p = "obsolete" -> "flush"
              [] p = "flush" -> "vpn"
              [] p = "vpn" -> "safe"
              [] p = "safe" -> "delRules"
              [] p = "delRules" -> "addRules"
              [] p = "addRules" -> "unguard"
              [] p = "unguard" -> "idle")
      [] o = "refresh" ->
           (CASE p = "guard" -> "snapshot"
              [] p = "snapshot" -> "flush"
              [] p = "flush" -> "safe"
              [] p = "safe" -> "unguard"
              [] p = "unguard" -> "idle")
      [] o = "begin" -> "idle"
      [] o = "rollback" -> IF p = "delRules" THEN "flush" ELSE "idle"

\* The order inside each loop: the new configuration before the applied one,
\* IPv4 before IPv6, then what the compiler sorts by.
Rank(x) ==
    LET own(mine) == IF x \in mine THEN 0 ELSE 100
    IN  CASE pc \in {"obsolete", "addRules"} -> x.family * KernelPrio + x.prio
          [] pc \in {"guard", "unguard"} -> own(transitionGuards({cfg})) + x.family
          [] pc = "delRules" -> own(ownedRuleScopes({cfg})) + x.family
          [] pc = "flush" -> own(ownedTableTargets({cfg})) + 2 * x.family
                               + IF x.table \in {c.vpn : c \in configs(cfg)} THEN 0 ELSE 1
          [] pc = "vpn" -> 2 * x.family + IF x.route.dst = "default" THEN 0 ELSE 1
          [] pc = "safe" -> x.family + IF routeDependsOnGateway(x.route) THEN 100 ELSE 0
          [] OTHER -> x

IsNext(x) == x \in todo /\ \A y \in todo : Rank(x) =< Rank(y)

\* mu is taken and operation o starts on c in phase p.
Start(o, who, p, c) ==
    /\ pc = "idle"
    /\ op' = o /\ owner' = who /\ pc' = p /\ cfg' = c
    /\ todo' = Work(o, p, c, NoRoutes)
    /\ snap' = NoRoutes /\ failed' = FALSE

\* A sweep over the scopes and tables of configurations cs reaches all that a
\* failed call on l may have left.
Swept(l, cs) ==
    /\ ownedRuleScopes({l}) \subseteq ownedRuleScopes(cs)
    /\ ownedTableTargets({l}) \subseteq ownedTableTargets(cs)

\* History: what a return of the current operation says about the kernel.
Record(ok) ==
    CASE op = "apply" /\ ok ->
           /\ duty' = {cfg} /\ torn' = IF torn = "stray" THEN torn ELSE "whole"
           /\ litter' = {l \in litter : ~Swept(l, configs(cfg))}
      [] op = "apply" /\ ~ok ->
           /\ duty' = duty
           /\ torn' = IF torn = "stray" \/ pc \in {"link", "snapshot", "guard"}
                        THEN torn ELSE "torn"
           /\ litter' = IF pc \in {"link", "snapshot"} THEN litter
                        ELSE litter \cup configs(cfg)
      [] op = "rollback" /\ ok ->
           /\ duty' = {} /\ torn' = "whole"
           /\ litter' = {l \in litter : ~Swept(l, configs(cfg))}
      [] op = "refresh" /\ ok ->
           /\ UNCHANGED <<duty, torn>>
           /\ litter' = IF torn = "whole" THEN litter \ {cfg} ELSE litter
      [] op = "begin" -> UNCHANGED history
      [] OTHER -> /\ UNCHANGED <<duty, torn>>
                  /\ litter' = litter \cup configs(cfg)

\* The operation returns and mu is released.
Finish(ok) ==
    /\ op' = "none" /\ owner' = "caller" /\ pc' = "idle" /\ cfg' = NoConfig
    /\ todo' = {} /\ snap' = NoRoutes /\ failed' = FALSE
    /\ applied' = CASE ok /\ op = "apply" -> cfg
                    [] ok /\ op = "rollback" -> NoConfig
                    [] OTHER -> applied
    /\ Record(ok)
    /\ IF owner = "monitor"
         THEN /\ monPc' = "select"
              /\ timer' = (op = "begin" \/ ~ok)
              /\ pending' = (op = "begin" \/ ~ok)
         ELSE UNCHANGED <<monPc, timer, pending>>
    /\ UNCHANGED <<sub, events>>

\* The loop of the current phase is exhausted.
EndPhase ==
    /\ pc # "idle" /\ todo = {}
    /\ IF NextPhase(op, pc) = "idle" \/ (op = "refresh" /\ failed)
         THEN Finish(~failed)
         ELSE /\ pc' = NextPhase(op, pc)
              /\ todo' = Work(op, NextPhase(op, pc), cfg, snap)
              /\ duty' = IF op = "apply" /\ pc = "guard" THEN duty \cup {cfg} ELSE duty
              /\ torn' = IF op = "refresh" /\ pc = "safe" /\ torn = "torn"
                           THEN "bared" ELSE torn
              /\ UNCHANGED <<op, owner, cfg, snap, failed, applied, litter, monitor>>
    /\ UNCHANGED <<kernel, closing, budget>>

----------------------------------------------------------------------------
(* Adapter calls that succeed. *)

\* The rest of the call's state when one element of the loop is done.
Did(x) ==
    /\ IsNext(x)
    /\ todo' = todo \ {x}
    /\ UNCHANGED <<op, owner, pc, cfg, failed, applied, closing, monitor, history, budget>>

LinkByIndex ==
    /\ pc = "link" /\ cfg.tun \in links
    /\ Did(cfg.tun)
    /\ UNCHANGED <<kernel, snap>>

ListMain ==
    /\ pc = "snapshot"
    /\ \E f \in todo : Did(f) /\ snap' = [snap EXCEPT ![f] = main[f]]
    /\ UNCHANGED kernel

\* AddRule: EEXIST counts as success.
AddRule ==
    /\ pc \in {"guard", "addRules"}
    /\ \E r \in todo : Did(r) /\ rules' = rules \cup {r}
    /\ UNCHANGED <<table, main, links, snap>>

\* DeleteRule: ESRCH counts as success.
DeleteRule ==
    /\ pc \in {"obsolete", "unguard"}
    /\ \E r \in todo : Did(r) /\ rules' = rules \ {r}
    /\ UNCHANGED <<table, main, links, snap>>

flushTableFamily ==
    /\ pc = "flush"
    /\ \E t \in todo : Did(t) /\ table' = [table EXCEPT ![t.table][t.family] = {}]
    /\ UNCHANGED <<rules, main, links, snap>>

\* The kernel refuses a route over a link that is gone.
ReplaceRoute ==
    /\ pc \in {"vpn", "safe"}
    /\ pc = "vpn" => cfg.tun \in links
    /\ \E x \in todo :
         /\ Did(x)
         /\ table' = [table EXCEPT ![IF pc = "vpn" THEN cfg.vpn ELSE cfg.safe][x.family] =
                        @ \cup {x.route}]
    /\ UNCHANGED <<rules, main, links, snap>>

\* Mutant: the transition guards are not kept.
MutOwnedRules(s) == {r \in rules : r.family = s.family /\ InSpan(r, s.base)}

\* What deleteOwnedRules removes for one scope.
OwnedRules(s) ==
    {r \in rules :
       /\ r.family = s.family /\ InSpan(r, s.base)
       /\ ~keepListed(r, IF op = "apply" THEN transitionGuards(configs(cfg)) ELSE {})}

deleteOwnedRules ==
    /\ pc = "delRules"
    /\ \E s \in todo : Did(s) /\ rules' = rules \ OwnedRules(s)
    /\ UNCHANGED <<table, main, links, snap>>

----------------------------------------------------------------------------
(* Adapter calls that fail. *)

\* A flush or a rule sweep goes on after a failed deletion, so any part of
\* what it had to remove may be left.
PartialEffect(x) ==
    CASE pc = "flush" ->
           /\ \E left \in SUBSET table[x.table][x.family] :
                table' = [table EXCEPT ![x.table][x.family] = left]
           /\ UNCHANGED <<rules, main, links>>
      [] pc = "delRules" ->
           /\ \E left \in SUBSET OwnedRules(x) : rules' = (rules \ OwnedRules(x)) \cup left
           /\ UNCHANGED <<table, main, links>>
      [] OTHER -> UNCHANGED kernel

\* Rollback attempts every step, and flushTable every family.
GoesOn == op = "rollback" \/ (op = "refresh" /\ pc = "flush")

AdapterFails ==
    /\ pc # "idle"
    /\ IF pc \in {"link", "vpn"} /\ cfg.tun \notin links
         THEN UNCHANGED budget
         ELSE Spend("fail")
    /\ \E x \in todo :
         /\ IsNext(x)
         /\ PartialEffect(x)
         /\ IF GoesOn
              THEN /\ todo' = todo \ {x} /\ failed' = TRUE
                   /\ UNCHANGED <<op, owner, pc, cfg, snap, applied, monitor, history>>
              ELSE Finish(FALSE)
    /\ UNCHANGED closing

----------------------------------------------------------------------------
(* Calls.  A call on a closed manager only returns an error. *)

Apply(c) ==
    /\ ~closed /\ Spend("call")
    /\ Start("apply", "caller", "link", c)
    /\ torn' = IF \A l \in litter : Swept(l, configs(c)) THEN torn ELSE "stray"
    /\ UNCHANGED <<kernel, applied, closing, monitor, duty, litter>>

Refresh ==
    /\ ~closed /\ applied # NoConfig /\ Spend("call")
    /\ Start("refresh", "caller", "guard", applied)
    /\ UNCHANGED <<kernel, applied, closing, monitor, history>>

Rollback(c) ==
    /\ ~closed /\ Spend("call")
    /\ Start("rollback", "caller", "delRules", c)
    /\ duty' = {} /\ torn' = "torn"
    /\ UNCHANGED <<kernel, applied, closing, monitor, litter>>

\* Mutant: a later closer returns at once.
MutCloseBegin(c) ==
    /\ pc = "idle" /\ closePc[c] = "open"
    /\ closePc' = [closePc EXCEPT ![c] = IF closed THEN "done" ELSE "waitMonitor"]
    /\ closed' = TRUE
    /\ UNCHANGED <<kernel, applied, call, adapterOpen, monitor, history, budget>>

\* Close: the first closer stops the monitor and then closes the adapter, a
\* later one waits for it.
CloseBegin(c) ==
    /\ pc = "idle" /\ closePc[c] = "open"
    /\ closePc' = [closePc EXCEPT ![c] = IF closed THEN "waitDone" ELSE "waitMonitor"]
    /\ closed' = TRUE
    /\ UNCHANGED <<kernel, applied, call, adapterOpen, monitor, history, budget>>

\* Mutant: the adapter is closed without waiting for the monitor.
MutCloseAdapter(c) ==
    /\ closePc[c] = "waitMonitor"
    /\ adapterOpen' = FALSE
    /\ closePc' = [closePc EXCEPT ![c] = "done"]
    /\ UNCHANGED <<kernel, applied, call, closed, monitor, history, budget>>

CloseAdapter(c) ==
    /\ closePc[c] = "waitMonitor" /\ monPc = "exit"
    /\ adapterOpen' = FALSE
    /\ closePc' = [closePc EXCEPT ![c] = "done"]
    /\ UNCHANGED <<kernel, applied, call, closed, monitor, history, budget>>

CloseReturn(c) ==
    /\ closePc[c] = "waitDone" /\ ~adapterOpen
    /\ closePc' = [closePc EXCEPT ![c] = "done"]
    /\ UNCHANGED <<kernel, applied, call, closed, adapterOpen, monitor, history, budget>>

----------------------------------------------------------------------------
(* monitorRouteUpdates: one goroutine, one select per step. *)

\* Mutant: the monitor does not look at closed.
MutQuiet == IF applied = NoConfig THEN TRUE ELSE applied.strict

Quiet == IF closed \/ applied = NoConfig THEN TRUE ELSE applied.strict

\* Mutant: a receive from the closed channel is taken for an event.
MutMonEvent ==
    /\ monPc = "select" /\ sub # "none"
    /\ events' = events - 1
    /\ pending' = TRUE
    /\ monPc' = IF pending THEN "select" ELSE "begin"
    /\ UNCHANGED <<kernel, applied, call, closing, sub, timer, history, budget>>

\* A main-table event.  While a change is pending further events are only
\* consumed.
MonEvent ==
    /\ monPc = "select" /\ sub # "none" /\ events > 0
    /\ events' = events - 1
    /\ pending' = TRUE
    /\ monPc' = IF pending THEN "select" ELSE "begin"
    /\ UNCHANGED <<kernel, applied, call, closing, sub, timer, history, budget>>

\* Mutant: changes missed while the channel was closed are not refreshed.
MutMonChannelClosed ==
    /\ monPc = "select" /\ sub = "closed" /\ events = 0
    /\ sub' = "none"
    /\ timer' = TRUE
    /\ UNCHANGED <<kernel, applied, call, closing, monPc, pending, events, history, budget>>

\* The channel is closed: the subscription is dropped, the retry timer armed.
MonChannelClosed ==
    /\ monPc = "select" /\ sub = "closed" /\ events = 0
    /\ sub' = "none"
    /\ pending' = TRUE
    /\ monPc' = IF pending THEN "select" ELSE "begin"
    /\ timer' = TRUE
    /\ UNCHANGED <<kernel, applied, call, closing, events, history, budget>>

\* Mutant: the debounce timer is armed only when a guard was installed.
MutBeginRouteChange ==
    /\ monPc = "begin"
    /\ \/ /\ pc = "idle" /\ Quiet
          /\ monPc' = "select"
          /\ UNCHANGED <<call, pending, timer>>
       \/ /\ ~Quiet
          /\ Start("begin", "monitor", "guard", applied)
          /\ UNCHANGED <<monPc, timer, pending>>
    /\ UNCHANGED <<kernel, applied, closing, sub, events, history, budget>>

beginRouteChange ==
    /\ monPc = "begin"
    /\ \/ /\ pc = "idle" /\ Quiet
          /\ monPc' = "select" /\ timer' = TRUE
          /\ UNCHANGED <<call, pending>>
       \/ /\ ~Quiet
          /\ Start("begin", "monitor", "guard", applied)
          /\ UNCHANGED <<monPc, timer, pending>>
    /\ UNCHANGED <<kernel, applied, closing, sub, events, history, budget>>

MonTimer ==
    /\ monPc = "select" /\ timer
    /\ \/ /\ sub = "none" /\ closed
          /\ monPc' = "exit" /\ timer' = FALSE
          /\ UNCHANGED <<sub, budget>>
       \/ /\ sub = "none" /\ ~closed /\ Spend("fail")
          /\ UNCHANGED <<sub, monPc, timer>>
       \/ /\ sub = "none" => ~closed
          /\ sub' = IF sub = "none" THEN "live" ELSE sub
          /\ timer' = FALSE
          /\ monPc' = IF pending THEN "refresh" ELSE "select"
          /\ UNCHANGED budget
    /\ UNCHANGED <<kernel, applied, call, closing, pending, events, history>>

refreshAfterRouteChange ==
    /\ monPc = "refresh"
    /\ \/ /\ pc = "idle" /\ Quiet
          /\ monPc' = "select" /\ pending' = FALSE
          /\ UNCHANGED <<call, timer>>
       \/ /\ ~Quiet
          /\ Start("refresh", "monitor", "guard", applied)
          /\ UNCHANGED <<monPc, timer, pending>>
    /\ UNCHANGED <<kernel, applied, closing, sub, events, history, budget>>

\* Mutant: monitorDone is looked at only after an event.
MutMonStop ==
    /\ monPc = "select" /\ closed /\ events > 0
    /\ monPc' = "exit" /\ sub' = "none" /\ events' = 0 /\ timer' = FALSE
    /\ UNCHANGED <<kernel, applied, call, closing, pending, history, budget>>

\* monitorDone is closed: unsubscribe, drain, return.
MonStop ==
    /\ monPc = "select" /\ closed
    /\ monPc' = "exit" /\ sub' = "none" /\ events' = 0 /\ timer' = FALSE
    /\ UNCHANGED <<kernel, applied, call, closing, pending, history, budget>>

----------------------------------------------------------------------------
(* Environment. *)

Notify == events' = IF sub = "live" THEN events + 1 ELSE events

\* Something else adds a route to main or removes one.
RouteChange(f, r) ==
    /\ Spend("change")
    /\ main' = [main EXCEPT ![f] = IF r \in @ THEN @ \ {r} ELSE @ \cup {r}]
    /\ Notify
    /\ UNCHANGED <<rules, table, links, applied, call, closing, monPc, pending, sub, timer,
                   history>>

Over(d, rts) == {r \in rts : \E h \in r.hops : h.dev = d}

\* A TUN link disappears and the kernel drops every route over it.
LinkLost(d) ==
    /\ d \in links /\ Spend("change")
    /\ links' = links \ {d}
    /\ table' = [t \in Tables |-> [f \in Family |-> table[t][f] \ Over(d, table[t][f])]]
    /\ main' = [f \in Family |-> main[f] \ Over(d, main[f])]
    /\ IF main' # main THEN Notify ELSE UNCHANGED events
    /\ UNCHANGED <<rules, applied, call, closing, monPc, pending, sub, timer, history>>

\* The netlink subscription fails (for instance its socket overflows): the
\* library closes the channel.
SubscriptionFails ==
    /\ sub = "live" /\ monPc # "exit" /\ Spend("fail")
    /\ sub' = "closed"
    /\ UNCHANGED <<kernel, applied, call, closing, monPc, pending, events, timer, history>>

\* The process dies and starts again with a new Manager; the kernel keeps the
\* rules and the routes.
Crash ==
    /\ Spend("crash")
    /\ applied' = NoConfig
    /\ op' = "none" /\ owner' = "caller" /\ pc' = "idle"
    /\ cfg' = NoConfig /\ todo' = {} /\ snap' = NoRoutes /\ failed' = FALSE
    /\ closed' = FALSE /\ adapterOpen' = TRUE
    /\ closePc' = [c \in Closer |-> "open"]
    /\ monPc' = "select" /\ pending' = FALSE /\ timer' = FALSE
    /\ sub' = "live" /\ events' = 0
    /\ torn' = IF torn \in {"bared", "stray"} THEN torn ELSE "whole"
    /\ litter' = (litter \cup configs(cfg)) \ {NoConfig}
    /\ UNCHANGED <<kernel, duty>>

CallStep ==
    \/ EndPhase
    \/ LinkByIndex \/ ListMain \/ AddRule \/ DeleteRule \/ flushTableFamily
    \/ ReplaceRoute \/ deleteOwnedRules

MonStep ==
    \/ MonEvent \/ MonChannelClosed \/ beginRouteChange \/ MonTimer
    \/ refreshAfterRouteChange \/ MonStop

Next ==
    \/ CallStep \/ AdapterFails
    \/ \E c \in Config : Apply(c) \/ Rollback(c)
    \/ Refresh
    \/ \E c \in Closer : CloseBegin(c) \/ CloseAdapter(c) \/ CloseReturn(c)
    \/ MonStep
    \/ \E f \in Family, r \in MainRoute : RouteChange(f, r)
    \/ \E d \in TunLinks : LinkLost(d)
    \/ SubscriptionFails
    \/ Crash

Spec == Init /\ [][Next]_vars

\* The scheduler runs every goroutine that can take a step, timers fire, and
\* a call that is refused because the link is gone returns.
Fairness ==
    /\ WF_vars(CallStep \/ AdapterFails)
    /\ WF_vars(MonStep)
    /\ WF_vars(\E c \in Closer : CloseAdapter(c) \/ CloseReturn(c))

FairSpec == Spec /\ Fairness

----------------------------------------------------------------------------
(* Properties. *)

Verdict(p) == Verdicts(p, rules, table, main, TunLinks)

\* Fail closed.  From the moment an Apply has its guards in place until a
\* Rollback starts, at every instant between two adapter calls, through
\* failures, main-table changes, a vanished TUN and a crash, a packet leaves
\* outside the tunnel only if the applied policy (or the one being applied)
\* allows it.
NoLeak ==
    duty # {} => \A p \in Packet :
                   "direct" \in Verdict(p) => \E c \in duty : MayGoDirect(c, p)

\* NoLeak, but for the window that Refresh opens after a failed Apply, and for
\* callers that change the priority block after a failed call without the
\* Rollback that cleans the old block.
FailClosed == torn \notin {"bared", "stray"} => NoLeak

\* Nothing is in progress or waiting in the monitor.
Quiescent ==
    /\ pc = "idle" /\ ~closed
    /\ monPc = "select" /\ ~pending /\ events = 0 /\ sub = "live"

\* The kernel is expected to hold exactly what applied describes.
Settled == Quiescent /\ applied # NoConfig /\ torn = "whole" /\ litter = {}

\* The safe table is the classified main table: no main-table change is lost,
\* whatever the interleaving of changes, debounce, refresh and Apply.
SafeTableCurrent ==
    Settled /\ ~applied.strict =>
      \A f \in applied.families : table[applied.safe][f] = SafeRoutes(applied, main[f])

\* What mode and strictness mean for a packet, given main and the TUN link.
Expected(c, p) ==
    LET direct == RouteVerdicts(main[p.family], p, TunLinks)
        orElse(v) == IF v = {} THEN {"blocked"} ELSE v
        vpn    == IF c.tun \in links THEN {"tun"} ELSE {"blocked"}
        safe   == ~c.strict /\ \E r \in SafeRoutes(c, main[p.family]) : Covers(r, p)
    IN  CASE p.mark = "app" -> orElse(direct)
          [] p.mark # "app" /\ p.family \notin effectiveTunnelFamilies(c) -> {"blocked"}
          [] p.mark # "app" /\ p.family \in effectiveTunnelFamilies(c) ->
               IF c.mode = "exclude"
                 THEN IF p.mark = "user"
                        THEN IF c.strict THEN {"blocked"} ELSE orElse(direct)
                        ELSE IF safe THEN {"direct"} ELSE vpn
                 ELSE IF safe THEN {"direct"}
                      ELSE IF p.mark = "user" THEN vpn
                      ELSE IF c.strict THEN {"blocked"} ELSE direct

\* A successful Apply gives every packet the verdict its mode promises, and
\* keeps doing so through main-table changes: no guard, stale rule or stale
\* route is left over.
PolicyMet ==
    Settled => \A p \in Packet :
                 p.family \in applied.families => Verdict(p) = Expected(applied, p)

\* Ownership: after a change of priority block, tables or families nothing of
\* the former configuration remains, and after a Rollback nothing at all.
OwnedExactly ==
    pc = "idle" /\ torn = "whole" /\ litter = {} =>
      LET own == IF applied = NoConfig THEN {} ELSE {applied}
      IN  /\ UNION {DesiredRules(c) : c \in own} \subseteq rules
          /\ rules \subseteq (UNION {DesiredRules(c) : c \in own}) \cup transitionGuards(own)
          /\ \A t \in Tables, f \in Family :
               table[t][f] # {} => [table |-> t, family |-> f] \in ownedTableTargets(own)

\* The adapter is closed only when no call and no monitor step can use it.
AdapterNotUsedAfterClose == ~adapterOpen => pc = "idle" /\ monPc = "exit"

\* No concurrent Close returns before the adapter is closed.
CloseWaits == (\E c \in Closer : closePc[c] = "done") => ~adapterOpen

\* Once Close has marked the manager closed no operation starts, not even one
\* the monitor had already decided on: Close leaves the kernel as it found it.
NoCallAfterClose == [][closed /\ closed' /\ pc = "idle" => pc' = "idle"]_vars

\* A pending main-table change is served: the guard installed for it does not
\* stay up for ever.
ChangeServed == pending ~> (~pending \/ closed)

\* Every Close returns: it does not deadlock with the monitor.
CloseReturns == \A c \in Closer : (closePc[c] # "open") ~> (closePc[c] = "done")

=============================================================================
