----------------------------- MODULE DefaultTun -----------------------------
(***************************************************************************)
(* The life of the single default TUN of a System (default_tun.go and the  *)
(* default-TUN parts of sysnet.go): BuildDefaultTun first builds and later *)
(* rebuilds it out of a native TUN, a DNS server, process rules, a p-mark  *)
(* checker, the DNS provider, policy routing, connection marks and a       *)
(* killswitch ruleset; SetTunAddrs and its kin change its addresses and    *)
(* routes; Close, a failed build and System.Close tear it down.            *)
(*                                                                         *)
(* Each of these holds System.defaultTunMu from beginning to end, so one   *)
(* operation runs at a time and pc is its step; goroutines that read       *)
(* packets and the kernel, which can delete the link, run between any two  *)
(* steps.  A resource is the set of what the host holds of it, and the     *)
(* defaultTunState is, for each resource, what the code has recorded.      *)
(***************************************************************************)
EXTENDS Integers, Sequences, FiniteSets

CONSTANTS
    IP,         \* addresses the DNS server of the TUN may be given
    Resolver,   \* resolvers given to SetDNS
    NoResolver, \* no resolver attached
    MaxBuilds,  \* calls of BuildDefaultTun and of the address and route setters
    MaxFails,   \* calls to the host that fail
    MaxLost     \* deletions of the TUN link by the kernel

ASSUME DefaultTunAssumption ==
    /\ NoResolver \notin Resolver
    /\ \A n \in {MaxBuilds, MaxFails, MaxLost} : n \in Nat

VARIABLES
    indexer,  \* whether the DNS provider wants the interface index
    required, \* connmarkRequired
    managed,  \* setDNSActive of the DNS provider
    closed,   \* System.closed
    active,   \* System.defaultTun # nil
    id,       \* identity of the latest defaultTunState
    st,       \* its fields
    resolver, \* its resolver
    gen,      \* its sourceGeneration, the latest the System has handed out
    pc,       \* the step of the operation that holds defaultTunMu
    b,        \* the locals of BuildDefaultTun, or of a setter
    host,     \* what the host holds of each resource
    links,    \* native TUNs whose network link exists
    lost,     \* ghost: resources whose release has failed, or whose set-up failed
              \* after it had taken effect
    reader,   \* a goroutine that reads packets
    n,        \* operations begun: the name of what the current one creates
    budget    \* failures and link losses left

vars == <<indexer, required, managed, closed, active, id, st, resolver, gen, pc, b,
          host, links, lost, reader, n, budget>>

Constructed == <<indexer, required>>

Beside == <<Constructed, managed>>

\* What a default TUN is made of, in the order closeActive releases it.
closeOrder == <<"server", "dns", "dnsif", "route", "connmark", "killswitch",
                "pmark", "tun">>

Resource == {"rules"} \cup {closeOrder[i] : i \in DOMAIN closeOrder}

Nothing == [x \in Resource |-> {}]

\* Policy routing is a configuration in force, or a transition guard that an
\* Apply left behind.
RoutingConfig(t, v) == [tun |-> t, version |-> v]

Guard == RoutingConfig({}, 0)

NewBuild == [tun |-> {}, recreated |-> FALSE, ip |-> {}, server |-> {},
             replaced |-> FALSE, oldServer |-> {}, rules |-> {}, pmark |-> {},
             route |-> {}, connmark |-> {}, stale |-> Nothing, todo |-> <<>>]

NoReader == [id |-> 0, gen |-> 0, tun |-> {}]

Spend(c) == budget[c] > 0 /\ budget' = [budget EXCEPT ![c] = @ - 1]

Set(x, v) == host' = [host EXCEPT ![x] = v]

----------------------------------------------------------------------------
(* BuildDefaultTun.  A call that fails before it has changed anything (the *)
(* options are invalid, the System is closed, CreateTUN fails) is left out.*)

\* A rebuild replaces a native TUN whose link is gone.
prepareDefaultTunLink == active /\ st.tun \cap links = {}

\* The native TUN: a new one for a first build, the current one or its
\* replacement for a rebuild.
BuildDefaultTun(ip) ==
    /\ pc = "idle" /\ ~closed /\ n < MaxBuilds
    /\ n' = n + 1
    /\ LET create == ~active \/ prepareDefaultTunLink
           tun    == IF create THEN {n'} ELSE st.tun
           first  == [Nothing EXCEPT !.tun = tun]
           kept   == IF active THEN st ELSE first
       IN /\ st' = kept
          /\ host' = [host EXCEPT !.tun = @ \cup tun]
          /\ links' = links \cup (IF create THEN tun ELSE {})
          /\ id' = IF active THEN id ELSE n'
          /\ gen' = IF active THEN gen ELSE gen + 1
          /\ resolver' = IF active THEN resolver ELSE NoResolver
          /\ b' = [NewBuild EXCEPT !.tun = tun, !.ip = {ip},
                       !.recreated = prepareDefaultTunLink,
                       !.server = kept.server, !.oldServer = kept.server]
    /\ active' = TRUE
    /\ pc' = "configure"
    /\ UNCHANGED <<Beside, closed, lost, reader, budget>>

\* SetTunMTU, SetTunAddrs and the empty SetTunRoutes on the native TUN.
ConfigureLink ==
    /\ pc = "configure"
    /\ \/ b.tun \subseteq links /\ pc' = "server" /\ UNCHANGED budget
       \/ ~(b.tun \subseteq links) /\ pc' = "fail" /\ UNCHANGED budget
       \/ Spend("fails") /\ pc' = "fail"
    /\ UNCHANGED <<Beside, closed, active, id, st, resolver, gen, b, host,
                   links, lost, reader, n>>

\* The DNS server is kept when neither its address nor its TUN changes.  An
\* old server on the same address of a replaced TUN is closed before the new
\* one listens, since two servers cannot share the address.
Listen(closeFirst) ==
    /\ pc = "server"
    /\ LET same == {s \in b.server : s.ip \in b.ip}
           rest == IF closeFirst THEN host.server \ same ELSE host.server
           new  == [id : {n}, ip : b.ip, resolver : {resolver}]
       IN IF same # {} /\ ~b.recreated
            THEN pc' = "checker" /\ UNCHANGED <<b, host, budget>>
            ELSE \/ /\ Set("server", rest \cup new)
                    /\ b' = [b EXCEPT !.server = new, !.replaced = TRUE,
                                      !.oldServer = @ \ same]
                    /\ pc' = "checker" /\ UNCHANGED budget
                 \/ /\ Spend("fails")
                    /\ Set("server", rest)
                    /\ pc' = "fail" /\ UNCHANGED b
    /\ UNCHANGED <<Beside, closed, active, id, st, resolver, gen, links,
                   lost, reader, n>>

\* Mutant: the old server is closed only at the end.
MutListenDNS == Listen(FALSE)

ListenDNS == Listen(TRUE)

\* The rules defaultTunChecker registers for the new options.
defaultTunChecker == {n}

\* SetKernelPolicy or SetChecker installs the checker that uses the rules, and
\* ForceProcessTraversal applies it to the running processes.
InstallChecker ==
    /\ pc = "checker"
    /\ \E installed, traversed \in BOOLEAN :
           /\ traversed => installed
           /\ IF traversed THEN UNCHANGED budget ELSE Spend("fails")
           /\ host' = [host EXCEPT !.rules = @ \cup defaultTunChecker,
                                   !.pmark = IF installed THEN {n} ELSE @]
           /\ b' = [b EXCEPT !.rules = defaultTunChecker,
                             !.pmark = IF installed THEN {n} ELSE {}]
           /\ pc' = IF traversed THEN "dnsif" ELSE "fail"
    /\ UNCHANGED <<Beside, closed, active, id, st, resolver, gen, links,
                   lost, reader, n>>

\* defaultTunChecker compiles and registers one rule after the other.  When it
\* fails (the user or group of a rule is gone) it returns no ids, so nobody can
\* unregister the rules it has registered by then.
CheckerFails ==
    /\ pc = "checker" /\ Spend("fails")
    /\ \/ UNCHANGED <<host, lost>>
       \/ /\ Set("rules", host.rules \cup defaultTunChecker)
          /\ lost' = lost \cup {"rules"}
    /\ pc' = "fail"
    /\ UNCHANGED <<Beside, closed, active, id, st, resolver, gen, b, links,
                   reader, n>>

\* tunIndex and setDefaultTunDNSInterface.
setDefaultTunDNSInterface ==
    /\ pc = "dnsif"
    /\ \/ /\ b.tun \subseteq links
          /\ IF indexer
               THEN Set("dnsif", b.tun) /\ st' = [st EXCEPT !.dnsif = b.tun]
               ELSE UNCHANGED <<host, st>>
          /\ pc' = "route" /\ UNCHANGED budget
       \/ /\ \/ ~(b.tun \subseteq links) /\ UNCHANGED budget
             \/ Spend("fails")
          /\ pc' = "fail" /\ UNCHANGED <<host, st>>
    /\ UNCHANGED <<Beside, closed, active, id, resolver, gen, b, links,
                   lost, reader, n>>

\* routing.Manager.Apply, seen from outside: it succeeds, fails before it has
\* touched the rules, or fails and leaves a transition guard in place; only
\* then does BuildDefaultTun call Rollback, which may fail too.
ApplyRouting ==
    /\ pc = "route"
    /\ LET rc == RoutingConfig(b.tun, n)
       IN \/ /\ b.tun \subseteq links
             /\ Set("route", {rc}) /\ b' = [b EXCEPT !.route = {rc}]
             /\ pc' = "connmark" /\ UNCHANGED <<lost, budget>>
          \/ /\ ~(b.tun \subseteq links)
             /\ pc' = "fail" /\ UNCHANGED <<b, host, lost, budget>>
          \/ /\ Spend("fails")
             /\ Set("route", {}) \/ UNCHANGED host
             /\ pc' = "fail" /\ UNCHANGED <<b, lost>>
          \/ /\ budget.fails > 1
             /\ budget' = [budget EXCEPT !.fails = @ - 2]
             /\ Set("route", {Guard}) /\ lost' = lost \cup {"route"}
             /\ pc' = "fail" /\ UNCHANGED b
    /\ UNCHANGED <<Beside, closed, active, id, st, resolver, gen, links,
                   reader, n>>

\* applyConnmark replaces the connection-mark table.  A failed replacement
\* leaves the old table or none, and fails the build only when connection
\* marks are required; otherwise the code records that none is set.
applyConnmark ==
    /\ pc = "connmark"
    /\ \/ /\ Set("connmark", {"table"}) /\ b' = [b EXCEPT !.connmark = {"table"}]
          /\ pc' = "setdns" /\ UNCHANGED <<lost, budget>>
       \/ /\ Spend("fails")
          /\ Set("connmark", {}) \/ UNCHANGED host
          /\ lost' = IF host'.connmark # {} /\ ~required
                       THEN lost \cup {"connmark"} ELSE lost
          /\ pc' = IF required THEN "fail" ELSE "setdns"
          /\ UNCHANGED b
    /\ UNCHANGED <<Beside, closed, active, id, st, resolver, gen, links,
                   reader, n>>

\* SetDNS of the provider.  One that fails may have changed the configuration,
\* in whole or in part, and does not record the server.
SetProviderDNS ==
    /\ pc = "setdns"
    /\ \/ /\ Set("dns", b.ip) /\ managed' = TRUE
          /\ pc' = "killswitch" /\ UNCHANGED <<lost, budget>>
       \/ /\ Spend("fails")
          /\ \E kept \in {host.dns} \cup SUBSET b.ip :
                 /\ Set("dns", kept)
                 /\ lost' = lost \cup {x \in {"dns"} : kept # host.dns}
          /\ pc' = "fail" /\ UNCHANGED managed
    /\ UNCHANGED <<Constructed, closed, active, id, st, resolver, gen, b, links,
                   reader, n>>

\* updateKillswitch creates the ruleset once and updates it afterwards.
updateKillswitch ==
    /\ pc = "killswitch"
    /\ \/ /\ IF st.killswitch = {}
               THEN /\ Set("killswitch", host.killswitch \cup {n})
                    /\ st' = [st EXCEPT !.killswitch = {n}]
               ELSE UNCHANGED <<host, st>>
          /\ pc' = "commit" /\ UNCHANGED budget
       \/ Spend("fails") /\ pc' = "fail" /\ UNCHANGED <<host, st>>
    /\ UNCHANGED <<Beside, closed, active, id, resolver, gen, b, links,
                   lost, reader, n>>

\* The end of a successful build: the defaultTunState is brought up to date,
\* with a new source generation when the native TUN has been replaced.
CommitWith(generation) ==
    /\ pc = "commit"
    /\ gen' = generation
    /\ st' = [st EXCEPT !.server = b.server, !.dns = b.ip,
                        !.rules = b.rules, !.route = b.route,
                        !.pmark = b.pmark, !.connmark = b.connmark,
                        !.tun = b.tun]
    /\ b' = [b EXCEPT !.stale = [Nothing EXCEPT
                 !.tun = st.tun \ b.tun, !.rules = st.rules,
                 !.server = IF b.replaced THEN b.oldServer ELSE {}]]
    /\ pc' = "finish"
    /\ UNCHANGED <<Beside, closed, active, id, resolver, host, links,
                   lost, reader, n, budget>>

\* Mutant: a replaced TUN keeps its generation.
MutCommitKeepsGeneration == CommitWith(gen)

Commit == CommitWith(IF b.recreated THEN gen + 1 ELSE gen)

\* After the commit the replaced TUN, rules and server are released.
Finish ==
    /\ pc = "finish"
    /\ host' = [x \in Resource |-> host[x] \ b.stale[x]]
    /\ b' = NewBuild
    /\ pc' = "idle"
    /\ UNCHANGED <<Beside, closed, active, id, st, resolver, gen, links,
                   lost, reader, n, budget>>

\* The fail closure: it undoes what this build has done itself, hands the
\* applied routing to the state so that closeActive rolls it back, and gives
\* up the default TUN.  The release of the checker and of the connection
\* marks may fail.
FailWith(route) ==
    /\ pc = "fail"
    /\ LET undo == (IF st.pmark = {} /\ b.pmark # {} THEN {"pmark"} ELSE {})
                   \cup (IF b.connmark # {} THEN {"connmark"} ELSE {})
       IN \E bad \in SUBSET undo :
           /\ Cardinality(bad) <= budget.fails
           /\ budget' = [budget EXCEPT !.fails = @ - Cardinality(bad)]
           /\ lost' = lost \cup bad
           /\ host' = [host EXCEPT
                  !.tun = IF b.recreated THEN @ \ b.tun ELSE @,
                  !.rules = @ \ (b.rules \cup st.rules),
                  !.server = IF b.replaced THEN @ \ b.server ELSE @,
                  !.pmark = IF "pmark" \in undo \ bad THEN {} ELSE @,
                  !.connmark = IF "connmark" \in undo \ bad THEN {} ELSE @]
    /\ links' = IF b.recreated THEN links \ b.tun ELSE links
    /\ st' = [st EXCEPT !.route = route]
    /\ active' = FALSE
    /\ pc' = "close" /\ b' = [NewBuild EXCEPT !.todo = closeOrder]
    /\ UNCHANGED <<Beside, closed, id, resolver, gen, reader, n>>

\* Mutant: the routing this build has applied is not handed over.
MutFail == FailWith(st.route)

Fail == FailWith(IF b.route # {} THEN b.route ELSE st.route)

----------------------------------------------------------------------------
\* closeActive takes the state's fields, unregisters its rules and releases
\* the resources in order, whatever the earlier releases returned.
closeActive ==
    /\ active' = FALSE
    /\ Set("rules", host.rules \ st.rules)
    /\ pc' = "close" /\ b' = [NewBuild EXCEPT !.todo = closeOrder]

\* What is left of a resource after its release.  A DNS server, a killswitch
\* ruleset and a TUN are released by name, the others as a whole.
Left(x) ==
    IF x \in {"server", "killswitch", "tun"} THEN host[x] \ st[x] ELSE {}

\* Whether there is something to release: UnsetDNS is called in any case and
\* does nothing unless the provider has recorded a server.
Owned(x) == IF x = "dns" THEN managed ELSE st[x] # {}

\* One release.  UnsetDNS leaves a file that it does not recognise, such as the
\* part that a failed SetDNS has written.
CloseStep ==
    /\ pc = "close"
    /\ LET x    == Head(b.todo)
           last == Tail(b.todo) = <<>>
       IN /\ \/ /\ \/ Set(x, IF Owned(x) THEN Left(x) ELSE host[x])
                   \/ x = "dns" /\ x \in lost /\ UNCHANGED host
                /\ managed' = (managed /\ x # "dns")
                /\ UNCHANGED <<lost, budget>>
             \/ /\ Owned(x) /\ host[x] # {} /\ x \notin {"server", "tun"}
                /\ Spend("fails") /\ lost' = lost \cup {x}
                /\ UNCHANGED <<host, managed>>
          /\ links' = IF x = "tun" THEN links \ st.tun ELSE links
          /\ b' = [b EXCEPT !.todo = Tail(@)]
          /\ st' = IF last THEN Nothing ELSE st
          /\ pc' = IF ~last THEN "close"
                   ELSE IF closed THEN "system" ELSE "idle"
    /\ UNCHANGED <<Constructed, closed, active, id, resolver, gen, reader, n>>

\* defaultTun.Close.
Close ==
    /\ pc = "idle" /\ active
    /\ closeActive
    /\ UNCHANGED <<Beside, closed, id, st, resolver, gen, links, lost,
                   reader, n, budget>>

\* System.Close: the default TUN, then the components behind it.
SystemClose ==
    /\ pc = "idle" /\ ~closed
    /\ closed' = TRUE
    /\ IF active THEN closeActive
       ELSE pc' = "system" /\ UNCHANGED <<active, host, b>>
    /\ UNCHANGED <<Beside, id, st, resolver, gen, links, lost, reader, n,
                   budget>>

\* Closing the DNS provider rolls back the server it has recorded, if any;
\* closing the killswitch and p-mark connections drops what they hold.  Neither
\* the routing manager nor the connection-mark manager rolls anything back.
SystemRelease ==
    /\ pc = "system"
    /\ LET rest == [host EXCEPT !.dnsif = {}, !.killswitch = {}, !.pmark = {}]
       IN \/ /\ \/ host' = [rest EXCEPT !.dns = IF managed THEN {} ELSE @]
                \/ "dns" \in lost /\ host' = rest
             /\ managed' = FALSE /\ UNCHANGED <<lost, budget>>
          \/ /\ managed /\ host.dns # {}
             /\ Spend("fails") /\ lost' = lost \cup {"dns"}
             /\ host' = rest /\ UNCHANGED managed
    /\ pc' = "idle"
    /\ UNCHANGED <<Constructed, closed, active, id, st, resolver, gen, b, links,
                   reader, n>>

----------------------------------------------------------------------------
(* SetTunAddrs, AddTunAddr, SetTunRoutes and AddTunRoute of the default    *)
(* TUN.  They change the link, which they restore when a later step fails, *)
(* and hand the routing manager a configuration with the new families.     *)

\* The handle a setter is given is the open System's default TUN.
resolveTunLocked == active /\ ~closed

\* updateDefaultTunAddrsLocked and setDefaultTunRoutesLocked.
Reconfigure ==
    /\ pc = "idle" /\ resolveTunLocked /\ st.route # {} /\ n < MaxBuilds
    /\ st.tun \subseteq links
    /\ n' = n + 1
    /\ LET rc == RoutingConfig(st.tun, n')
       IN \/ /\ Set("route", {rc}) /\ st' = [st EXCEPT !.route = {rc}]
             /\ UNCHANGED <<pc, budget>>
          \/ /\ Spend("fails")
             /\ Set("route", {Guard}) \/ UNCHANGED host
             /\ pc' = "rollback" /\ UNCHANGED st
    /\ UNCHANGED <<Beside, closed, active, id, resolver, gen, b, links,
                   lost, reader>>

\* Mutant: a failed Apply is not followed by a restore.
MutRestoreRollback ==
    /\ pc = "rollback"
    /\ pc' = "idle"
    /\ UNCHANGED <<Beside, closed, active, id, st, resolver, gen, b, host,
                   links, lost, reader, n, budget>>

\* restoreDefaultTunRoutingLocked: first Rollback of the failed
\* configuration, then Apply of the one before it.
RestoreRollback ==
    /\ pc = "rollback"
    /\ \/ Set("route", {}) /\ UNCHANGED <<lost, budget>>
       \/ Spend("fails") /\ lost' = lost \cup {"route"} /\ UNCHANGED host
    /\ pc' = "reapply"
    /\ UNCHANGED <<Beside, closed, active, id, st, resolver, gen, b, links,
                   reader, n>>

\* Mutant: the restore ends with the Rollback.
MutRestoreApply ==
    /\ pc = "reapply"
    /\ pc' = "idle"
    /\ UNCHANGED <<Beside, closed, active, id, st, resolver, gen, b, host,
                   links, lost, reader, n, budget>>

RestoreApply ==
    /\ pc = "reapply"
    /\ \/ /\ st.tun \subseteq links
          /\ Set("route", st.route) /\ UNCHANGED <<lost, budget>>
       \/ /\ Spend("fails") \/ (~(st.tun \subseteq links) /\ UNCHANGED budget)
          /\ Set("route", {Guard}) \/ UNCHANGED host
          /\ lost' = lost \cup {"route"}
    /\ pc' = "idle"
    /\ UNCHANGED <<Beside, closed, active, id, st, resolver, gen, b, links,
                   reader, n>>

\* defaultTun.SetDNS attaches a resolver to the DNS server, or detaches it.
SetDNS(r) ==
    /\ pc = "idle" /\ active /\ ~closed /\ st.server # {} /\ r # resolver
    /\ resolver' = r
    /\ LET with(s) == IF s \in st.server THEN [s EXCEPT !.resolver = r] ELSE s
       IN /\ Set("server", {with(s) : s \in host.server})
          /\ st' = [st EXCEPT !.server = {with(s) : s \in @}]
    /\ UNCHANGED <<Beside, closed, active, id, gen, pc, b, links, lost,
                   reader, n, budget>>

----------------------------------------------------------------------------
\* A goroutine that reads packets notes the source generation, takes the
\* native TUN through the wrapper and reads from it.  It takes System.mu and
\* the state's mutex for a moment and never waits for defaultTunMu.
SourceGeneration ==
    /\ reader = NoReader /\ active /\ st.dns # {}
    /\ reader' = [NoReader EXCEPT !.id = id, !.gen = gen]
    /\ UNCHANGED <<Beside, closed, active, id, st, resolver, gen, pc, b,
                   host, links, lost, n, budget>>

nativeTun ==
    /\ reader # NoReader /\ reader.tun = {}
    /\ reader' = IF active /\ id = reader.id
                   THEN [reader EXCEPT !.tun = st.tun] ELSE NoReader
    /\ UNCHANGED <<Beside, closed, active, id, st, resolver, gen, pc, b,
                   host, links, lost, n, budget>>

ReadReturns ==
    /\ reader.tun # {} /\ reader' = NoReader
    /\ UNCHANGED <<Beside, closed, active, id, st, resolver, gen, pc, b,
                   host, links, lost, n, budget>>

\* The link is deleted from outside; the TUN's file stays open.
LinkLost ==
    /\ Spend("lost")
    /\ \E t \in links : links' = links \ {t}
    /\ UNCHANGED <<Beside, closed, active, id, st, resolver, gen, pc, b,
                   host, lost, reader, n>>

Init ==
    /\ indexer \in BOOLEAN /\ required \in BOOLEAN /\ managed = FALSE
    /\ closed = FALSE /\ active = FALSE /\ id = 0 /\ gen = 0 /\ n = 0
    /\ st = Nothing /\ host = Nothing /\ links = {} /\ lost = {}
    /\ resolver = NoResolver /\ reader = NoReader
    /\ pc = "idle" /\ b = NewBuild
    /\ budget = [fails |-> MaxFails, lost |-> MaxLost]

BuildStep ==
    \/ ConfigureLink \/ ListenDNS \/ InstallChecker \/ CheckerFails
    \/ setDefaultTunDNSInterface \/ ApplyRouting \/ applyConnmark
    \/ SetProviderDNS \/ updateKillswitch \/ Commit \/ Finish \/ Fail

Next ==
    \/ \E ip \in IP : BuildDefaultTun(ip)
    \/ BuildStep
    \/ CloseStep \/ Close \/ SystemClose \/ SystemRelease
    \/ Reconfigure \/ RestoreRollback \/ RestoreApply
    \/ \E r \in Resolver \cup {NoResolver} : SetDNS(r)
    \/ SourceGeneration \/ nativeTun \/ ReadReturns \/ LinkLost

Spec == Init /\ [][Next]_vars

----------------------------------------------------------------------------
(***************************************************************************)
(* When no default TUN is active and no operation is running, the host     *)
(* holds nothing of one, at whichever step a build failed and whatever it  *)
(* had replaced by then.  Left out are a resource that could not be        *)
(* released, and two that a step may have set up although it returned an   *)
(* error, with nothing to release them by: the rules of a                  *)
(* defaultTunChecker that failed, and the DNS configuration of a failed    *)
(* SetDNS.                                                                 *)
(***************************************************************************)
NothingLeft ==
    pc = "idle" /\ ~active => \A x \in Resource \ lost : host[x] = {}

(***************************************************************************)
(* Between operations the state of an active default TUN is exactly what   *)
(* the host holds: one native TUN, one DNS server on the DNS address with  *)
(* the resolver of the latest SetDNS, the rules that the installed checker *)
(* uses and no older ones, the routing configuration in force (also after  *)
(* a setter that failed and put the previous one back).  A server that is  *)
(* set is one the provider has recorded, so that UnsetDNS finds it.        *)
(***************************************************************************)
StateMatchesHost ==
    pc = "idle" /\ active =>
        /\ \A x \in Resource \ lost : host[x] = st[x]
        /\ st.rules = st.pmark /\ st.rules # {}
        /\ \E s \in st.server : s.ip \in st.dns /\ s.resolver = resolver
        /\ \A rc \in st.route : rc.tun = st.tun
        /\ managed

(***************************************************************************)
(* Two DNS servers of the program never listen on the same address, in any *)
(* build or rebuild: the second packetListen would fail.                   *)
(***************************************************************************)
OneServerPerAddress ==
    \A s, t \in host.server : s.ip = t.ip => s.id = t.id

(***************************************************************************)
(* DefaultTunSource: a reader whose native TUN was closed under it can     *)
(* tell a replacement from the end of the default TUN, because the source  *)
(* generation it noted before the read is no longer the current one.       *)
(***************************************************************************)
RetryVisible ==
    (/\ active /\ reader.id = id
     /\ reader.tun # {} /\ ~(reader.tun \subseteq host.tun)) => gen # reader.gen

(***************************************************************************)
(* While a built default TUN is in use, in every step of a rebuild and of  *)
(* a setter, its policy routing or a guard is in place.  Two times are     *)
(* left out: after a rebuild's Apply has failed, when the TUN is about to  *)
(* be closed, and between the Rollback and the Apply of                    *)
(* restoreDefaultTunRoutingLocked, which has none.                         *)
(***************************************************************************)
ProtectedOutsideRestore ==
    /\ active /\ st.route # {}
    /\ pc \notin {"fail", "reapply"} /\ "route" \notin lost
    => host.route # {}
=============================================================================
