------------------------------ MODULE Resolved ------------------------------
(***************************************************************************)
(* The systemd-resolved DNS provider (dns/resolved.go): NewResolved, which *)
(* reads resolved before it subscribes to its signals; SetDNS, UnsetDNS    *)
(* and SetInterfaceIndex, which hold dnsMu from beginning to end; Close,   *)
(* which marks the provider closed before it waits for dnsMu; and the      *)
(* monitor goroutine, which follows resolved's change signals after a      *)
(* delay, puts the managed configuration back when someone has changed it, *)
(* and forwards each request to the upstream servers that resolved reports *)
(* for its name.                                                           *)
(*                                                                         *)
(* resolved itself is external: it has DNS servers, domains and a default  *)
(* route flag for each link, and servers and domains for none in           *)
(* particular (interface index 0), and a change of them sends a signal.    *)
(* Each D-Bus exchange, with the fields of the provider that are read for  *)
(* it, is a step of its own.                                               *)
(*                                                                         *)
(* A name is the sequence of its labels from the root on, so that a domain *)
(* covers the names it is a prefix of.                                     *)
(***************************************************************************)
EXTENDS Integers, Sequences, FiniteSets, SequencesExt

CONSTANTS
    Server,     \* DNS server addresses
    NoServer,   \* no managed server: setDNSActive is false
    Fallback,   \* fallback servers given to the constructor
    Link,       \* interface indices of links the provider may be given
    First,      \* interface indices the constructor may be given, 0 for none
    DomainSets, \* domains another program may configure
    Name,       \* names that are asked for
    Flags,      \* the default route flag of a link that nobody configured
    Budgets     \* bounds, together: calls of SetDNS, UnsetDNS and
                \* SetInterfaceIndex, D-Bus calls that fail, changes by other
                \* programs, calls of Close

ASSUME ResolvedAssumption ==
    /\ NoServer \notin Server
    /\ Fallback \subseteq Server
    /\ Link \subseteq Nat \ {0} /\ First \subseteq Link \cup {0}
    /\ Flags \subseteq {"no", "unknown"}
    /\ \A D \in DomainSets : \A d \in D : d.routingOnly \in BOOLEAN
    /\ Budgets \subseteq [{"calls", "faults", "changes", "closes"} -> Nat]

VARIABLES
    r,        \* the Resolved object
    link,     \* what resolved has for each interface index
    dnsMu,    \* who holds dnsMu
    call,     \* each goroutine's program counter and locals
    signal,   \* a change signal waits in the monitor's channel
    timer,    \* the monitor's sync timer is armed
    spoiled,  \* ghost: why the provider need not be in step with resolved
    budget    \* what is left of the bounds

vars == <<r, link, dnsMu, call, signal, timer, spoiled, budget>>

Goroutine == {"api", "monitor", "close"}

Index == Link \cup {0}

\* In the order in which the manager's servers are looked at.
Indices == SetToSortSeq(Index, LAMBDA a, b : a < b)

Root == [name |-> <<>>, routingOnly |-> TRUE]

\* A link as RevertLink leaves it; `by` is a ghost: who configured it.  A
\* resolved without SetLinkDefaultRoute does not know the flag.
Reverted(flag) == [by |-> "none", servers |-> {}, domains |-> {},
                   defaultRoute |-> IF flag = "unknown" THEN flag ELSE "no"]

NoTarget == [servers |-> {}, domains |-> {}]

NoManager == [i \in Index |-> {}]

Idle == [pc |-> "idle", op |-> "none", server |-> NoServer, ifidx |-> 0,
         exclude |-> {}, target |-> NoTarget, saved |-> NoTarget,
         manager |-> NoManager, routes |-> <<>>]

Active == r.setDNS # NoServer

Spend(b) == budget[b] > 0 /\ budget' = [budget EXCEPT ![b] = @ - 1]

Goto(g, pc) == call' = [call EXCEPT ![g].pc = pc]

\* A D-Bus call fails.
Fault(why) == Spend("faults") /\ spoiled' = spoiled \cup why

\* Once NewResolved has subscribed, a change of a link sends a signal.
Notice ==
    signal' = (signal \/ (link' # link /\ call["api"].op # "new"))

----------------------------------------------------------------------------
(* The routes to the upstream servers.                                     *)

linkDNSServers(i) == link[i].servers

linkDomains(i) == link[i].domains

Without(source, exclude) == [source EXCEPT !.servers = @ \ exclude]

\* resolvedRouteBuilder.add: a source without domains serves every name.
Route(source) ==
    [servers |-> source.servers,
     domains |-> IF source.domains = {} THEN {<<>>}
                 ELSE {d.name : d \in source.domains}]

managerDNSServers(i) == link[i].servers

managerDomains(i) == link[i].domains

\* What the manager reports for an index, when the domains are these.
ManagerSource(m, i, domains) ==
    [servers |-> m.manager[i] \ m.exclude, domains |-> domains[i]]

\* The servers of the managed link, or those last seen on it when only
\* excluded ones are left.
targetConfig(m, domains) ==
    IF m.target.servers \ m.exclude # {} \/ m.ifidx = 0
      THEN Without(m.target, m.exclude)
    ELSE IF m.manager[m.ifidx] \ m.exclude # {}
      THEN ManagerSource(m, m.ifidx, domains)
    ELSE Without(m.saved, m.exclude)

\* The other indices, in their order.
managerSources(m, domains) ==
    LET others == SelectSeq(Indices, LAMBDA i : i = 0 \/ i # m.ifidx)
    IN [k \in 1..Len(others) |-> ManagerSource(m, others[k], domains)]

\* upstreamConfigFromLink, from the reads in m on: the managed link, then the
\* others, or else the fallback.
upstreamConfigFromLink(m, domains) ==
    LET used == SelectSeq(<<targetConfig(m, domains)>> \o managerSources(m, domains),
                          LAMBDA source : source.servers # {})
        default == SelectSeq(<<[NoTarget EXCEPT !.servers = Fallback \ m.exclude]>>,
                             LAMBDA source : source.servers # {})
        sources == IF used = <<>> THEN default ELSE used
    IN [k \in 1..Len(sources) |-> Route(sources[k])]

\* The length of the longest domain that covers a name, or -1.
Covers(route, name) ==
    LET lengths == {Len(d) : d \in {d \in route.domains : IsPrefix(d, name)}}
    IN CHOOSE n \in lengths \cup {-1} : \A m \in lengths : m <= n

\* resolvedRouteFunc: the servers of the first route among those with the
\* longest domain that covers the name.
resolvedRouteFunc(routes, name) ==
    LET lengths == [k \in 1..Len(routes) |-> Covers(routes[k], name)]
        best    == {k \in 1..Len(routes) :
                       /\ lengths[k] >= 0
                       /\ \A i \in 1..Len(routes) : lengths[i] <= lengths[k]
                       /\ \A i \in 1..(k - 1) : lengths[i] < lengths[k]}
    IN UNION {routes[k].servers : k \in best}

\* Mutant: the domains are not part of the signature.
MutSignature(routes) == [k \in 1..Len(routes) |-> routes[k].servers]

\* resolvedRouteBuilder.config: what tells two configurations apart.
signature(routes) == routes

(* DefaultTunDNSRouteWarnings.                                             *)

hasRootDNSRoute(domains) == Root \in domains

hasNonManagedDNSServer(servers, server) == servers \ {server} # {}

\* Whether there is a warning that public names may be asked elsewhere.
DefaultTunDNSRouteWarnings(ifidx, server) ==
    \/ ~hasRootDNSRoute(linkDomains(ifidx))
    \/ linkDNSServers(ifidx) # {server}
    \/ \E i \in Index \ {ifidx} :
           /\ hasRootDNSRoute(managerDomains(i))
           /\ hasNonManagedDNSServer(managerDNSServers(i), server)

----------------------------------------------------------------------------
(* The calls.  Each takes dnsMu; on a closed provider it returns ErrClosed.*)

Enter(op, pc, server, ifidx, exclude) ==
    /\ call["api"].pc = "idle" /\ dnsMu = "free" /\ ~r.closed
    /\ Spend("calls")
    /\ dnsMu' = "api"
    /\ call' = [call EXCEPT !["api"] =
                    [Idle EXCEPT !.pc = pc, !.op = op, !.server = server,
                                 !.ifidx = ifidx, !.exclude = exclude]]

\* Mutant: an error path leaves dnsMu locked.
MutReturn(g, pc) ==
    /\ call' = [call EXCEPT ![g] = [Idle EXCEPT !.pc = pc]]
    /\ UNCHANGED dnsMu

\* Return from a call, releasing dnsMu.
Return(g, pc) ==
    /\ call' = [call EXCEPT ![g] = [Idle EXCEPT !.pc = pc]]
    /\ dnsMu' = IF dnsMu = g THEN "free" ELSE dnsMu

SetDNS(s) ==
    /\ Enter("set", "servers", s, 0, {s} \cup ({r.setDNS} \ {NoServer}))
    /\ UNCHANGED <<r, link, signal, timer, spoiled>>

\* UnsetDNS forgets the server before it reverts the link.
UnsetDNS ==
    /\ Active
    /\ Enter("unset", "revert", r.setDNS, 0, {})
    /\ r' = [r EXCEPT !.setDNS = NoServer]
    /\ UNCHANGED <<link, signal, timer, spoiled>>

\* SetInterfaceIndex reverts the old link and moves the managed server to the
\* new one; the link cannot be cleared while a server is set.
SetInterfaceIndex(i) ==
    /\ i # r.ifidx
    /\ ~(Active /\ i = 0)
    /\ Enter("index", "revert", r.setDNS, i, {r.setDNS} \ {NoServer})
    /\ UNCHANGED <<r, link, signal, timer, spoiled>>

\* Close first keeps every later call and the monitor out ...
CloseBegin ==
    /\ call["close"].pc = "idle"
    /\ call["api"].op # "new" /\ call["api"].pc # "gone"
    /\ Spend("closes")
    /\ r' = [r EXCEPT !.closed = TRUE]
    /\ Goto("close", "wait")
    /\ UNCHANGED <<link, dnsMu, signal, timer, spoiled>>

\* ... then waits for the call that holds dnsMu.
CloseLock ==
    /\ call["close"].pc = "wait" /\ dnsMu = "free"
    /\ dnsMu' = "close"
    /\ Goto("close", "revert")
    /\ UNCHANGED <<r, link, signal, timer, spoiled, budget>>

----------------------------------------------------------------------------
(* The D-Bus exchanges the calls and the monitor are made of.              *)

\* revertLink, and what each of its callers does next.
revertLink(g) ==
    /\ call[g].pc = "revert"
    /\ \E ok \in BOOLEAN :
        /\ IF ok THEN UNCHANGED <<spoiled, budget>>
           ELSE r.ifidx # 0 /\ Fault({"revert", "left"})
        /\ link' = [i \in Index |-> IF ok /\ i \in {r.ifidx} \ {0}
                                      THEN Reverted(link[i].defaultRoute)
                                    ELSE link[i]]
        /\ IF g = "close" THEN Return(g, "done")
           ELSE /\ call' = [call EXCEPT
                       ![g].pc = IF call[g].op = "index" THEN "index" ELSE "servers",
                       ![g].exclude = IF call[g].op = "unset" /\ ~ok
                                        THEN {call[g].server} ELSE @]
                /\ UNCHANGED dnsMu
    /\ Notice
    /\ UNCHANGED <<r, timer>>

\* SetInterfaceIndex forgets what it knew of the old link.
SetIndex ==
    /\ call["api"].pc = "index"
    /\ r' = [r EXCEPT !.ifidx = call["api"].ifidx, !.saved = NoTarget, !.sig = <<>>]
    /\ Goto("api", "servers")
    /\ UNCHANGED <<link, dnsMu, signal, timer, spoiled, budget>>

\* After the refresh: NewResolved subscribes or gives up, SetDNS applies the
\* server if the refresh succeeded, SetInterfaceIndex moves an active one
\* whether it did or not.
Refreshed(g, ok) ==
    IF \/ call[g].op \in {"new", "set"} /\ ok
       \/ call[g].op = "index" /\ call[g].server # NoServer
      THEN /\ call' = [call EXCEPT ![g] = [Idle EXCEPT
                            !.pc = IF call[g].op = "new" THEN "subscribe"
                                   ELSE "SetLinkDomains",
                            !.op = call[g].op, !.server = call[g].server]]
           /\ UNCHANGED dnsMu
      ELSE Return(g, IF call[g].op = "new" THEN "gone" ELSE "idle")

\* The link's servers, for upstreamConfig and for syncResolvedState.  An error
\* ends either; a link that was cleared since the sync began is one.
readLinkServers(g) ==
    /\ call[g].pc = "servers"
    /\ \/ /\ r.ifidx # 0
          /\ call' = [call EXCEPT ![g].pc = "domains",
                                  ![g].target.servers = linkDNSServers(r.ifidx)]
          /\ UNCHANGED <<dnsMu, spoiled, budget>>
       \/ /\ r.ifidx = 0 /\ call[g].op # "sync"
          /\ Goto(g, "manager") /\ UNCHANGED <<dnsMu, spoiled, budget>>
       \/ /\ r.ifidx = 0 /\ call[g].op = "sync"
          /\ Refreshed(g, FALSE) /\ UNCHANGED <<spoiled, budget>>
       \/ r.ifidx # 0 /\ Fault({"read"}) /\ Refreshed(g, FALSE)
    /\ UNCHANGED <<r, link, signal, timer>>

\* Its domains, which are taken to be none if they cannot be read.
readLinkDomains(g) ==
    /\ call[g].pc = "domains"
    /\ \E domains \in {{}, IF r.ifidx = 0 THEN {} ELSE linkDomains(r.ifidx)} :
        /\ IF r.ifidx # 0 /\ domains # linkDomains(r.ifidx) THEN Fault({"read"})
           ELSE UNCHANGED <<spoiled, budget>>
        /\ call' = [call EXCEPT
               ![g].target.domains = domains,
               ![g].pc = IF call[g].op = "sync" THEN "drift" ELSE "manager"]
    /\ UNCHANGED <<r, link, dnsMu, signal, timer>>

\* The servers of all indices, next to the provider's own fields.
readManagerServers(g) ==
    /\ call[g].pc = "manager"
    /\ \/ /\ call' = [call EXCEPT ![g].pc = "names", ![g].ifidx = r.ifidx,
                          ![g].saved = r.saved,
                          ![g].manager = [i \in Index |-> managerDNSServers(i)]]
          /\ UNCHANGED <<dnsMu, spoiled, budget>>
       \/ Fault({"read"}) /\ Refreshed(g, FALSE)
    /\ UNCHANGED <<r, link, signal, timer>>

\* Their domains, again none if they cannot be read, and the configuration.
readManagerDomains(g) ==
    /\ call[g].pc = "names"
    /\ \E named \in BOOLEAN :
        LET m       == call[g]
            domains == [i \in Index |-> IF named THEN managerDomains(i) ELSE {}]
            routes  == upstreamConfigFromLink(m, domains)
        IN /\ IF named THEN UNCHANGED <<spoiled, budget>> ELSE Fault({"read"})
           /\ IF routes # <<>>
                THEN /\ call' = [call EXCEPT ![g] = [Idle EXCEPT
                            !.pc = "attach", !.op = m.op, !.server = m.server,
                            !.routes = routes, !.target = targetConfig(m, domains)]]
                     /\ UNCHANGED dnsMu
                ELSE Refreshed(g, FALSE)
    /\ UNCHANGED <<r, link, signal, timer>>

\* Between the first read of a refresh and its end.
Refreshing(g) == call[g].pc \in {"domains", "manager", "names", "attach"}

\* setUpstreamConfig, unless the signature is the current one.
setUpstreamConfig(g) ==
    LET same == signature(call[g].routes) = r.sig
    IN /\ call[g].pc = "attach"
       /\ r' = IF r.closed \/ same THEN r
               ELSE [r EXCEPT !.routes = call[g].routes, !.saved = call[g].target,
                              !.sig = signature(call[g].routes)]
       /\ Refreshed(g, ~r.closed \/ same)
       /\ spoiled' = IF \E h \in Goroutine \ {g} : Refreshing(h)
                       THEN spoiled \cup {"overtaken"} ELSE spoiled
       /\ UNCHANGED <<link, signal, timer, budget>>

\* startMonitor; NewResolved closes the provider if it cannot subscribe.
startMonitor ==
    /\ call["api"].pc = "subscribe"
    /\ \/ /\ call' = [call EXCEPT !["api"] = Idle, !["monitor"] = Idle]
          /\ UNCHANGED <<r, spoiled, budget>>
       \/ /\ Fault({})
          /\ r' = [r EXCEPT !.closed = TRUE]
          /\ call' = [call EXCEPT !["api"] = [Idle EXCEPT !.pc = "gone"],
                                  !["close"].pc = "wait"]
    /\ UNCHANGED <<link, dnsMu, signal, timer>>

\* After applyDNS: SetDNS records the server, the monitor refreshes the
\* upstreams from what it had read off the link.
Applied(g) ==
    CASE g = "monitor" -> /\ call' = [call EXCEPT ![g].pc = "manager",
                                                  ![g].op = "refresh"]
                          /\ dnsMu' = "free"
      [] g = "api" /\ call[g].op = "set" -> Goto(g, "commit") /\ UNCHANGED dnsMu
      [] OTHER -> Return(g, "idle")

\* What the three calls of applyDNS make of a link, in their order.
Configured(old, step, server) ==
    CASE step = "SetLinkDomains" -> [old EXCEPT !.by = "self", !.domains = {Root}]
      [] step = "SetLinkDefaultRoute" ->
             IF old.defaultRoute = "unknown" THEN old
             ELSE [old EXCEPT !.by = "self", !.defaultRoute = "yes"]
      [] step = "SetLinkDNS" -> [old EXCEPT !.by = "self", !.servers = {server}]

\* applyDNS.  A failure leaves what the calls before it have done.
applyDNS(g) ==
    /\ call[g].pc \in {"SetLinkDomains", "SetLinkDefaultRoute", "SetLinkDNS"}
    /\ \/ /\ r.ifidx # 0
          /\ link' = [link EXCEPT ![r.ifidx] =
                          Configured(@, call[g].pc, call[g].server)]
          /\ CASE call[g].pc = "SetLinkDomains" ->
                      Goto(g, "SetLinkDefaultRoute") /\ UNCHANGED dnsMu
               [] call[g].pc = "SetLinkDefaultRoute" ->
                      Goto(g, "SetLinkDNS") /\ UNCHANGED dnsMu
               [] OTHER -> Applied(g)
          /\ UNCHANGED <<spoiled, budget>>
       \/ /\ IF r.ifidx = 0
               THEN spoiled' = spoiled \cup {"apply"} /\ UNCHANGED budget
               ELSE Fault({"apply", "left"})
          /\ Return(g, "idle")
          /\ UNCHANGED link
    /\ Notice
    /\ UNCHANGED <<r, timer>>

SetDNSCommit ==
    /\ call["api"].pc = "commit"
    /\ r' = [r EXCEPT !.setDNS = call["api"].server]
    /\ Return("api", "idle")
    /\ UNCHANGED <<link, signal, timer, spoiled, budget>>

----------------------------------------------------------------------------
(* The monitor.                                                            *)

\* A signal arms the timer again.
monitorSignal ==
    /\ call["monitor"].pc = "idle" /\ ~r.closed
    /\ signal
    /\ signal' = FALSE /\ timer' = TRUE
    /\ UNCHANGED <<r, link, dnsMu, call, spoiled, budget>>

\* syncResolvedState reads the managed server without taking dnsMu: a SetDNS
\* that has not returned is not seen.
syncResolvedState ==
    /\ call["monitor"].pc = "idle" /\ ~r.closed
    /\ timer
    /\ timer' = FALSE
    /\ call' = [call EXCEPT !["monitor"] =
                    [Idle EXCEPT !.pc = IF r.ifidx = 0 THEN "drift" ELSE "servers",
                                 !.op = "sync", !.server = r.setDNS,
                                 !.exclude = {r.setDNS} \ {NoServer}]]
    /\ spoiled' = (IF call["api"].op = "none" THEN spoiled \cap {"left"} ELSE spoiled)
                  \cup (IF call["api"].op = "set" THEN {"early"} ELSE {})
    /\ UNCHANGED <<r, link, dnsMu, signal, budget>>

\* Mutant: the domains are not looked at.
MutLinkConfigNeedsApply(server, servers) ==
    servers # {server} \/ link[r.ifidx].defaultRoute = "no"

\* Once the servers are right, the domains and the flag are read.
linkConfigNeedsApply(server, servers) ==
    \/ servers # {server}
    \/ ~hasRootDNSRoute(linkDomains(r.ifidx))
    \/ link[r.ifidx].defaultRoute = "no"

\* reapplyDNSIfNeeded up to its lock.  When the link cannot be found the sync
\* ends; domains that cannot be read count as wrong, a flag as right.
Drift ==
    LET m     == call["monitor"]
        reads == m.server # NoServer /\ m.target.servers = {m.server}
        To(needed) ==
            /\ call' = [call EXCEPT !["monitor"] =
                   IF needed THEN [m EXCEPT !.pc = "reapply"]
                   ELSE [m EXCEPT !.pc = "servers", !.op = "refresh",
                                  !.target = NoTarget]]
            /\ UNCHANGED dnsMu
    IN /\ m.pc = "drift"
       /\ \/ /\ reads => r.ifidx # 0
             /\ To(m.server # NoServer
                   /\ linkConfigNeedsApply(m.server, m.target.servers))
             /\ UNCHANGED <<spoiled, budget>>
          \/ /\ reads /\ r.ifidx = 0
             /\ Return("monitor", "idle") /\ UNCHANGED <<spoiled, budget>>
          \/ /\ reads /\ r.ifidx # 0
             /\ Fault({"read"})
             /\ \/ Return("monitor", "idle")
                \/ \E needed \in BOOLEAN : To(needed)
       /\ UNCHANGED <<r, link, signal, timer>>

\* Mutant: the managed server is not checked again under dnsMu.
MutReapplyDNSIfNeeded ==
    /\ call["monitor"].pc = "reapply" /\ dnsMu = "free"
    /\ dnsMu' = "monitor" /\ Goto("monitor", "SetLinkDomains")
    /\ UNCHANGED <<r, link, signal, timer, spoiled, budget>>

\* reapplyDNSIfNeeded takes dnsMu and looks again.
reapplyDNSIfNeeded ==
    LET m == call["monitor"]
    IN /\ m.pc = "reapply" /\ dnsMu = "free"
       /\ IF r.setDNS = m.server /\ ~r.closed
            THEN dnsMu' = "monitor" /\ Goto("monitor", "SetLinkDomains")
            ELSE /\ call' = [call EXCEPT !["monitor"].pc = "servers",
                                         !["monitor"].op = "refresh",
                                         !["monitor"].target = NoTarget]
                 /\ UNCHANGED dnsMu
       /\ UNCHANGED <<r, link, signal, timer, spoiled, budget>>

\* Close cancels the monitor's context.
monitorStop ==
    /\ call["monitor"].pc = "idle" /\ r.closed
    /\ Goto("monitor", "done")
    /\ UNCHANGED <<r, link, dnsMu, signal, timer, spoiled, budget>>

----------------------------------------------------------------------------
(* Other programs (external).                                              *)

\* Another program, DHCP for example, configures the servers, the domains or
\* the flag of a link, or what belongs to no link.  Nothing tells a provider
\* that has read them and has not subscribed yet.
Change(i, S, D, flag) ==
    /\ Spend("changes")
    /\ LET old == link[i]
           new == [by |-> "other", servers |-> S, domains |-> D, defaultRoute |-> flag]
           fields == {"servers", "domains", "defaultRoute"}
       IN /\ Cardinality({f \in fields : new[f] # old[f]}) = 1
          /\ (old.defaultRoute = "unknown") <=> (flag = "unknown")
          /\ link' = [link EXCEPT ![i] = new]
    /\ Notice
    /\ spoiled' = IF call["api"].op = "new" /\ call["api"].pc # "servers"
                    THEN spoiled \cup {"unwatched"} ELSE spoiled
    /\ UNCHANGED <<r, dnsMu, call, timer>>

----------------------------------------------------------------------------
\* NewResolved begins, with a link that has no servers or with none yet.
Init ==
    \E S \in SUBSET Server, D \in DomainSets, ifidx \in First,
       flag \in Flags :
        /\ link = [i \in Index |->
                      IF i \in Link THEN Reverted(flag)
                      ELSE [by |-> "other", servers |-> S, domains |-> D,
                            defaultRoute |-> "unknown"]]
        /\ r = [closed |-> FALSE, ifidx |-> ifidx, setDNS |-> NoServer,
                routes |-> <<>>, sig |-> <<>>, saved |-> NoTarget]
        /\ dnsMu = "free"
        /\ call = [g \in Goroutine |->
                      CASE g = "api" -> [Idle EXCEPT !.pc = "servers", !.op = "new"]
                        [] g = "monitor" -> [Idle EXCEPT !.pc = "off"]
                        [] OTHER -> Idle]
        /\ signal = FALSE /\ timer = FALSE
        /\ spoiled = {}
        /\ budget \in Budgets

MonitorStep ==
    \/ monitorSignal
    \/ syncResolvedState
    \/ Drift
    \/ reapplyDNSIfNeeded
    \/ monitorStop

Next ==
    \/ \E s \in Server : SetDNS(s)
    \/ UnsetDNS
    \/ \E i \in Link \cup {0} : SetInterfaceIndex(i)
    \/ SetIndex
    \/ startMonitor
    \/ CloseBegin
    \/ CloseLock
    \/ \E g \in Goroutine :
        \/ revertLink(g)
        \/ readLinkServers(g) \/ readLinkDomains(g)
        \/ readManagerServers(g) \/ readManagerDomains(g)
        \/ setUpstreamConfig(g)
        \/ applyDNS(g)
    \/ SetDNSCommit
    \/ MonitorStep
    \/ \E i \in Index, S \in SUBSET Server, D \in DomainSets \cup {{Root}},
          flag \in {"no", "yes", "unknown"} : Change(i, S, D, flag)

Spec == Init /\ [][Next]_vars

----------------------------------------------------------------------------
\* Fields and locals hold values of their Go types, and dnsMu is held exactly
\* by a goroutine that is inside its critical section.
TypeOK ==
    LET Domain == (UNION DomainSets) \cup {Root}
        Source == [servers: SUBSET Server, domains: SUBSET Domain]
    IN /\ r.closed \in BOOLEAN /\ r.ifidx \in Index
       /\ r.setDNS \in Server \cup {NoServer} /\ r.saved \in Source
       /\ link \in [Index -> [by: {"none", "self", "other"},
                              servers: SUBSET Server, domains: SUBSET Domain,
                              defaultRoute: {"no", "yes", "unknown"}]]
       /\ \A g \in Goroutine :
              /\ call[g].op \in {"none", "new", "set", "unset", "index", "sync",
                                 "refresh"}
              /\ call[g].server \in Server \cup {NoServer}
              /\ call[g].ifidx \in Index /\ call[g].exclude \subseteq Server
              /\ call[g].target \in Source /\ call[g].saved \in Source
       /\ \A routes \in {r.routes, call["api"].routes, call["monitor"].routes} :
              \A k \in 1..Len(routes) : routes[k].servers # {}
       /\ dnsMu \in Goroutine \cup {"free"}
       /\ (dnsMu = "api") <=> (call["api"].op \notin {"none", "new"})
       /\ (dnsMu = "monitor") <=>
              (call["monitor"].pc \in {"SetLinkDomains", "SetLinkDefaultRoute",
                                       "SetLinkDNS"})
       /\ (dnsMu = "close") <=> (call["close"].pc = "revert")
       /\ signal \in BOOLEAN /\ timer \in BOOLEAN
       /\ spoiled \subseteq {"revert", "read", "apply", "left", "early", "overtaken",
                             "unwatched"}

\* No call is running and the monitor has nothing left to look at.
Settled ==
    /\ ~r.closed
    /\ call["api"].pc = "idle" /\ call["monitor"].pc = "idle"
    /\ ~signal /\ ~timer

(***************************************************************************)
(* What the monitor makes good only at the next signal has not happened    *)
(* since the last sync that began between two calls: no D-Bus call failed  *)
(* and no SetDNS for want of a link (nothing is retried), no sync began    *)
(* inside a SetDNS, whose server it cannot know ("early"), no refresh      *)
(* ended while another was under way ("overtaken"), and nothing changed    *)
(* between the reads of NewResolved and its subscription ("unwatched").    *)
(***************************************************************************)
Undisturbed == spoiled \subseteq {"left"}

\* When everything has settled, the managed server is the only one of its link,
\* and the link has the root domain and is a default route where resolved knows
\* of these: a change by another program, before, between or after the steps of
\* a call, has been put back by a sync that was undisturbed (SetDNS: "rewrites
\* this setup when it is changed externally").  DefaultTunDNSRouteWarnings then
\* warns only of other links.
Maintained ==
    Settled /\ Active /\ Undisturbed =>
        /\ link[r.ifidx].servers = {r.setDNS} /\ Root \in link[r.ifidx].domains
        /\ link[r.ifidx].defaultRoute # "no"
        /\ DefaultTunDNSRouteWarnings(r.ifidx, r.setDNS) <=>
               \E i \in Index \ {r.ifidx} :
                   Root \in link[i].domains /\ link[i].servers \ {r.setDNS} # {}

\* What resolved reports besides the managed server: for the managed link, or
\* what was last seen on it, and for the others.
Reported ==
    {source \in {Without([servers |-> link[i].servers, domains |-> link[i].domains],
                         {r.setDNS}) : i \in Index}
                \cup (IF r.ifidx # 0 /\ linkDNSServers(r.ifidx) \ {r.setDNS} = {}
                        THEN {Without(r.saved, {r.setDNS})} ELSE {}) :
        source.servers # {}}

\* When everything has settled, a request is forwarded to the servers that
\* resolved reports now for the most specific domain that covers its name, and
\* nowhere when none covers it, never to the managed server: a change of servers
\* or of domains alone is not lost unless the last sync was disturbed
\* (upstreamConfigFromLink, resolvedRouteFunc).
Followed ==
    Settled /\ Undisturbed /\ Reported # {} =>
        \A name \in Name :
            LET fits(source) == Covers(Route(source), name)
                best == {source \in Reported :
                            /\ fits(source) >= 0
                            /\ \A other \in Reported : fits(other) <= fits(source)}
                used == resolvedRouteFunc(r.routes, name)
            IN IF best = {} THEN used = {}
               ELSE \E source \in best : used = source.servers

\* What dns.go asks of a provider: it should "NEVER use server set up via SetDNS
\* to serve Requests queue to avoid loops", here only when everything has
\* settled.  A sync that begins between SetLinkDNS and the end of SetDNS takes
\* the new server for an upstream, and no later signal corrects it.
NoLoop ==
    Settled /\ Active =>
        \A k \in 1..Len(r.routes) : r.setDNS \notin r.routes[k].servers

\* Between calls no link is left configured by the provider except the one it
\* manages, and after Close none at all: the monitor never puts back what
\* UnsetDNS, SetInterfaceIndex or Close has reverted.  What a failed RevertLink
\* or a SetDNS that failed half way leaves is not taken back.
LeavesNothing ==
    dnsMu = "free" /\ "left" \notin spoiled =>
        \A l \in Link : link[l].by = "self" =>
            /\ Active /\ l = r.ifidx
            /\ call["close"].pc # "done"

=============================================================================
