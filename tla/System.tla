------------------------------- MODULE System -------------------------------
(***************************************************************************)
(* A System from its construction to the end of Close (auto.go, sysnet.go, *)
(* and the locking of default_tun.go and capabilities.go).                 *)
(*                                                                         *)
(* New makes the components one after the other, gives up features whose   *)
(* component fails, and unwinds what it has made when it cannot go on.     *)
(* Goroutines of the caller then build, use and close TUNs, ask for        *)
(* capabilities and close the System, in any interleaving of the steps     *)
(* between which a mutex is waited for.  The mutexes are                   *)
(* System.defaultTunMu, System.mu and one for the state of each TUN; they  *)
(* are waited for in this order.                                           *)
(*                                                                         *)
(* What an operation does to the host while it holds its locks is in       *)
(* DefaultTun and TunLink; here it is a step in which the operation uses   *)
(* the native TUN and the components.                                      *)
(***************************************************************************)
EXTENDS Integers, Sequences, FiniteSets, Capabilities, SystemState

CONSTANTS
    FeatureSets, \* features the caller asks for
    MaxCalls,    \* calls of the methods of a System
    MaxFails     \* calls to the host that fail

ASSUME CallerAssumption ==
    /\ FeatureSets \subseteq SUBSET Feature
    /\ MaxCalls \in Nat /\ MaxFails \in Nat

Opened(l, o) == [l EXCEPT ![o] = "open"]

\* Closing what is closed is noted.
Shut(l, set) ==
    [o \in Object |-> IF o \notin set THEN l[o]
                      ELSE IF l[o] = "open" THEN "closed" ELSE "twice"]

Spend(what) ==
    budget[what] > 0 /\ budget' = [budget EXCEPT ![what] = @ - 1]

----------------------------------------------------------------------------
(* New.                                                                    *)

Running == <<closed, owned, attached, issued, lock, proc>>

disableTUNFeatures(f) ==
    f \ {"Tun", "DefaultTun", "DynTun", "DynDefaultTun", "TunNames", "TunRules"}

disableRoutingFeatures(f) ==
    f \ {"Routing", "DefaultTun", "DynDefaultTun", "StrictMode"}

\* Without CAP_NET_ADMIN, or when a TUN cannot be created, the factory becomes
\* an interface that holds a nil function.
NewTUN ==
    /\ phase = "tun"
    /\ LET Disable(reason) ==
               s' = [s EXCEPT !.features = disableTUNFeatures(@),
                              !.dep["tunFactory"] = "empty",
                              !.failures["tun"] = {reason}]
       IN IF ~Has(s, "Tun") THEN UNCHANGED <<s, budget>>
          ELSE IF ~env.netAdmin
            THEN Disable("permission_denied") /\ UNCHANGED budget
          ELSE \/ UNCHANGED <<s, budget>>
               \/ Spend("fails") /\ Disable("probe_failed")
    /\ phase' = "routing"
    /\ UNCHANGED <<env, life, Running>>

\* A manager for the current namespace that cannot be made fails New; nothing
\* is open yet.
setupRoutingManager ==
    /\ phase = "routing"
    /\ LET Disable(reason) ==
               s' = [s EXCEPT !.features = disableRoutingFeatures(@),
                              !.failures["routing"] = {reason}]
       IN IF ~Has(s, "Routing")
            THEN phase' = "dns" /\ UNCHANGED <<s, life, budget>>
          ELSE IF ~env.netAdmin
            THEN /\ Disable("permission_denied") /\ phase' = "dns"
                 /\ UNCHANGED <<life, budget>>
          ELSE \/ /\ s' = [s EXCEPT !.dep["routingManager"] = "works"]
                  /\ life' = Opened(life, "routing") /\ phase' = "dns"
                  /\ UNCHANGED budget
               \/ /\ Spend("fails")
                  /\ IF env.currentNamespace
                       THEN phase' = "failed" /\ UNCHANGED s
                       ELSE Disable("probe_failed") /\ phase' = "dns"
                  /\ UNCHANGED life
    /\ UNCHANGED <<env, Running>>

\* The network of the DNS provider, and the provider.
newDNSProvider ==
    /\ phase = "dns"
    /\ LET net == Opened(life, "dnsNet")
       IN \/ /\ Has(s, "DNSControl")
             /\ s' = [s EXCEPT !.dep["dnsProvider"] = "works"]
             /\ life' = Opened(net, "dns") /\ UNCHANGED budget
          \/ /\ Has(s, "DNSControl") /\ Spend("fails")
             /\ s' = [s EXCEPT !.features = @ \ {"DNSControl", "DefaultTun",
                                                 "DynDefaultTun"},
                               !.failures["dns"] = {"probe_failed"}]
             /\ life' = net
          \/ /\ ~Has(s, "DNSControl")
             /\ life' = net /\ UNCHANGED <<s, budget>>
    /\ phase' = "pmark"
    /\ UNCHANGED <<env, Running>>

\* newAutoPmark makes the daemon, then the manager of marks, then runs the
\* daemon; New closes what an unfinished call returns.  Without a pin path
\* p-mark is not configured.
newPmark ==
    /\ phase = "pmark"
    /\ LET Disable(reason) ==
               s' = [s EXCEPT !.features = @ \ {"Pmark", "TunRules"},
                              !.failures["pmark"] = {reason}]
           both == Opened(Opened(life, "daemon"), "fwmark")
       IN IF ~Has(s, "Pmark") THEN UNCHANGED <<s, life, budget>>
          ELSE IF ~env.pinPath
            THEN Disable("disabled_by_config") /\ UNCHANGED <<life, budget>>
          ELSE \/ /\ s' = [s EXCEPT !.dep["pmark"] = "works"]
                  /\ life' = both /\ UNCHANGED budget
               \/ /\ Spend("fails") /\ Disable("probe_failed")
                  /\ life' \in {life,
                                Shut(Opened(life, "daemon"), {"daemon"}),
                                Shut(both, {"daemon", "fwmark"})}
    /\ phase' = "system"
    /\ UNCHANGED <<env, Running>>

Held(set) == {o \in set : life[o] # "none"}

\* Mutant: the DNS provider is forgotten.
MutUnwound == extraClosers \cup Held({"routing"})

\* What New closes, with the killswitch client, when NewSystem fails.
Unwound == extraClosers \cup Held({"routing", "dns"})

\* A System makes two networks, and connection marks for a default TUN.
Constructed(l) ==
    [o \in Object |->
        IF \/ o \in {"outNet", "localNet"}
           \/ o = "connmark" /\ Has(s, "DefaultTun") /\ Has(s, "Routing")
          THEN "open" ELSE l[o]]

WithDependencies(set) ==
    [s EXCEPT !.dep = [d \in Dependency |-> IF d \in set THEN "works" ELSE @[d]]]

\* The killswitch client, the rule tracker, and NewSystem, which refuses marks
\* that overlap and otherwise cannot fail.
newSystem ==
    /\ phase = "system"
    /\ LET client == IF Has(s, "Killswitch") THEN {"killswitch"} ELSE {}
           l == [o \in Object |-> IF o \in client THEN "open" ELSE life[o]]
       IN \/ /\ life' = Constructed(l)
             /\ s' = WithDependencies(
                        IF Has(s, "MatcherRules") \/ Has(s, "TunRules")
                          THEN {"ruleTracker"} ELSE {})
             /\ phase' = "open" /\ UNCHANGED budget
          \/ /\ Spend("fails")
             /\ life' = Shut(l, Unwound \cup client)
             /\ phase' = "failed" /\ UNCHANGED s
    /\ UNCHANGED <<env, Running>>

\* NewSystem called by the application with components of its own.
NewSystem ==
    /\ phase = "inject"
    /\ \E given \in SUBSET {"routingManager", "dnsProvider", "pmark"} :
           /\ s' = WithDependencies(given \cup
                      (IF \/ Has(s, "MatcherRules")
                          \/ Has(s, "TunRules") /\ Has(s, "Pmark")
                         THEN {"ruleTracker"} ELSE {}))
           /\ life' = [o \in Object |->
                  IF \/ o = "routing" /\ "routingManager" \in given
                     \/ o = "dns" /\ "dnsProvider" \in given
                    THEN "open" ELSE Constructed(life)[o]]
    /\ phase' = "open"
    /\ UNCHANGED <<env, budget, Running>>

New ==
    \/ NewTUN \/ setupRoutingManager \/ newDNSProvider \/ newPmark
    \/ newSystem \/ NewSystem

----------------------------------------------------------------------------
(* The operations of a System.  A step takes the mutex its name says and   *)
(* does what follows up to the next mutex that is waited for; a mutex held *)
(* for a moment is waited for and not kept.                                *)

Constructors == <<env, s, phase>>

Free(l) == lock[l] = Nobody

\* Mutant: the report is read with Capabilities, which takes mu.
MutCheckWaits == {"mu"}

\* tunOperationError, under the mutex of a state, reads the report directly.
CheckWaits == {}

\* The mutexes that a goroutine waits for before it goes on from pc.
Waits(p) ==
    LET pc == proc[p].pc
    IN CASE pc = "defaultTunMu" -> {"defaultTunMu"}
         [] pc \in {"check", "publish", "mu", "drop"} -> {"mu"}
         [] pc = "state" -> {proc[p].t}
         [] pc = "configure" -> {"mu", Default}
         [] pc = "closeActive" -> {Default}
         [] pc = "states" -> owned
         [] pc = "use" -> CheckWaits
         [] OTHER -> {}

At(p, pc) == proc[p].pc = pc /\ \A l \in Waits(p) : Free(l)

Op(p) == proc[p].op

Go(p, pc) == proc' = [proc EXCEPT ![p].pc = pc]

Return(p) == proc' = [proc EXCEPT ![p] = NoCall]

\* p takes the mutexes in set and gives up the others it holds.
Keep(p, set) ==
    lock' = [l \in Lock |-> IF l \in set THEN p
                            ELSE IF lock[l] = p THEN Nobody ELSE lock[l]]

LeaveAll(p) == Keep(p, {}) /\ Return(p)

\* The first step of each operation.
FirstStep(op, t) ==
    CASE op \in {"build", "buildDefault"} -> "check"
      [] op \in {"set", "report", "setDNS", "closeSystem"} -> "defaultTunMu"
      [] op = "close" -> IF t = Default THEN "defaultTunMu" ELSE "mu"
      [] op \in {"io", "warnings"} -> "mu"

\* A degraded System is called once: what it answers does not depend on
\* earlier calls.
Complete == s.features = Feature /\ s.dep["tunFactory"] = "works"

Call(p, op, t) ==
    /\ phase = "open" /\ At(p, "idle")
    /\ Complete \/ budget.calls = MaxCalls
    /\ Spend("calls")
    /\ proc' = [proc EXCEPT ![p] = [op |-> op, pc |-> FirstStep(op, t), t |-> t,
                                    todo |-> {}]]
    /\ UNCHANGED <<Constructors, life, closed, owned, attached, issued, lock>>

Calls(p) ==
    \/ \E t \in Tun : /\ life[t] = "none"
                      /\ \A q \in Proc : proc[q].t = t => Op(q) # "build"
                      /\ Call(p, "build", t)
    \/ \E t \in issued, op \in {"set", "report", "io", "close"} : Call(p, op, t)
    \/ \E op \in {"setDNS", "warnings"} : Default \in issued /\ Call(p, op, Default)
    \/ \E op \in {"buildDefault", "closeSystem"} : Call(p, op, Default)

\* CheckTunOpts and CheckDefaultTunOpts, which read the report under mu.
checkOptions(p) ==
    /\ At(p, "check")
    /\ \E flag \in BOOLEAN :
           IF Op(p) = "build"
             THEN IF CheckTunOpts(s, closed, [valid |-> TRUE, named |-> flag,
                                              family |-> "dual", nameFree |-> TRUE])
                    THEN Go(p, "create") ELSE Return(p)
             ELSE IF CheckDefaultTunOpts(s, closed,
                         [exclude |-> {}, include |-> {}, valid |-> TRUE,
                          family |-> "dual", named |-> FALSE, strict |-> flag,
                          source |-> FALSE])
                    THEN Go(p, "defaultTunMu") ELSE Return(p)
    /\ UNCHANGED <<Constructors, life, closed, owned, attached, issued, lock,
                   budget>>

\* BuildTun creates and configures the native TUN with no mutex held; a TUN
\* that cannot be configured is closed.
CreateTUN(p) ==
    /\ At(p, "create")
    /\ LET t == proc[p].t
       IN \/ /\ life' = Opened(life, t)
             /\ Go(p, "publish") /\ UNCHANGED budget
          \/ /\ Spend("fails") /\ Return(p)
             /\ life' \in {life, Shut(Opened(life, t), {t})}
    /\ UNCHANGED <<Constructors, closed, owned, attached, issued, lock>>

\* Mutant: the end of BuildTun does not look at closed.
MutRefused == FALSE

\* Whether the TUN is made for a System that is closed in the meantime.
Refused == closed

publishTun(p) ==
    /\ At(p, "publish")
    /\ LET t == proc[p].t
       IN IF Refused
            THEN /\ life' = Shut(life, {t})
                 /\ UNCHANGED <<owned, attached, issued>>
            ELSE /\ owned' = owned \cup {t} /\ attached' = attached \cup {t}
                 /\ issued' = issued \cup {t} /\ UNCHANGED life
    /\ Return(p)
    /\ UNCHANGED <<Constructors, closed, lock, budget>>

lockDefaultTunMu(p) ==
    /\ At(p, "defaultTunMu")
    /\ Keep(p, {"defaultTunMu"}) /\ Go(p, "mu")
    /\ UNCHANGED <<Constructors, life, closed, owned, attached, issued, budget>>

\* System.mu, to look the TUN up: for resolveTunLocked, CapabilitiesForTun and
\* nativeTun, which keep it while they wait for the state of the TUN, and for
\* SetDNS and DefaultTunWarnings, which do not.
lookUpTun(p) ==
    /\ At(p, "mu")
    /\ Op(p) \in {"set", "report", "io", "setDNS", "warnings"}
    /\ IF \/ proc[p].t \notin owned
          \/ closed /\ (Op(p) # "set" \/ proc[p].t = Default)
         THEN LeaveAll(p)
         ELSE /\ Go(p, "state")
              /\ Keep(p, HeldBy(p) \cup
                         (IF Op(p) \in {"setDNS", "warnings"} THEN {} ELSE {"mu"}))
    /\ UNCHANGED <<Constructors, life, closed, owned, attached, issued, budget>>

\* regularTun.Close forgets the TUN and keeps mu; defaultTun.Close leaves mu and
\* keeps defaultTunMu.
forgetTun(p) ==
    /\ At(p, "mu") /\ Op(p) = "close"
    /\ LET t == proc[p].t
       IN IF t \notin owned
            THEN LeaveAll(p) /\ UNCHANGED owned
            ELSE /\ owned' = owned \ {t}
                 /\ IF t = Default
                      THEN Go(p, "closeActive") /\ UNCHANGED lock
                      ELSE Go(p, "state") /\ Keep(p, {"mu"})
    /\ UNCHANGED <<Constructors, life, closed, attached, issued, budget>>

\* Mutant: a setter gives up the state once it has the native TUN.
MutUseLocks(t) == {"defaultTunMu"}

\* What a setter and a getter hold while they configure the native TUN.
UseLocks(t) == {"defaultTunMu", t}

\* The mutex of the state of a TUN.  A setter goes on with it; regularTun.Close
\* takes the native TUN out; the others only read.
lockState(p) ==
    /\ At(p, "state")
    /\ LET t == proc[p].t
       IN /\ IF t \notin attached \/ Op(p) \in {"report", "setDNS"}
               THEN LeaveAll(p)
             ELSE IF Op(p) = "set"
               THEN Keep(p, UseLocks(t)) /\ Go(p, "use")
             ELSE Keep(p, {}) /\ Go(p, IF Op(p) = "close" THEN "closeNative" ELSE "io")
          /\ attached' = IF Op(p) = "close" THEN attached \ {t} ELSE attached
    /\ UNCHANGED <<Constructors, life, closed, owned, issued, budget>>

closeNative(p) ==
    /\ At(p, "closeNative")
    /\ life' = Shut(life, {proc[p].t}) /\ Return(p)
    /\ UNCHANGED <<Constructors, closed, owned, attached, issued, lock, budget>>

\* The setter has checked the operation and configured the native TUN.
useTun(p) ==
    /\ At(p, "use")
    /\ LeaveAll(p)
    /\ UNCHANGED <<Constructors, life, closed, owned, attached, issued, budget>>

\* Read, Write and the DNS warnings, with no mutex held.
endIO(p) ==
    /\ At(p, "io")
    /\ Return(p)
    /\ UNCHANGED <<Constructors, life, closed, owned, attached, issued, lock,
                   budget>>

\* BuildDefaultTun creates the native TUN under mu unless there is one.  The
\* bound of one default TUN is a TUN that cannot be created.
createDefaultTun(p) ==
    /\ At(p, "mu") /\ Op(p) = "buildDefault"
    /\ \/ /\ ~closed /\ Default \in owned
          /\ Go(p, "configure")
          /\ UNCHANGED <<life, owned, attached, lock, budget>>
       \/ /\ ~closed /\ Default \notin owned /\ life[Default] = "none"
          /\ life' = Opened(life, Default)
          /\ owned' = owned \cup {Default} /\ attached' = attached \cup {Default}
          /\ Go(p, "configure") /\ UNCHANGED <<lock, budget>>
       \/ /\ closed \/ (Default \notin owned /\ life[Default] # "none")
          /\ LeaveAll(p) /\ UNCHANGED <<life, owned, attached, budget>>
       \/ /\ ~closed /\ Default \notin owned /\ Spend("fails")
          /\ LeaveAll(p) /\ UNCHANGED <<life, owned, attached>>
    /\ UNCHANGED <<Constructors, closed, issued>>

\* The rest of BuildDefaultTun, which takes the state of the TUN, and mu, for
\* moments; a step of it that fails ends in the teardown of the TUN.
configureDefaultTun(p) ==
    /\ At(p, "configure")
    /\ \/ LeaveAll(p) /\ issued' = issued \cup {Default} /\ UNCHANGED budget
       \/ Spend("fails") /\ Go(p, "drop") /\ UNCHANGED <<lock, issued>>
    /\ UNCHANGED <<Constructors, life, closed, owned, attached>>

dropDefaultTun(p) ==
    /\ At(p, "drop")
    /\ owned' = owned \ {Default} /\ Go(p, "closeActive")
    /\ UNCHANGED <<Constructors, life, closed, attached, issued, lock, budget>>

closeActive(p) ==
    /\ At(p, "closeActive")
    /\ attached' = attached \ {Default} /\ Go(p, "rollback")
    /\ UNCHANGED <<Constructors, life, closed, owned, issued, lock, budget>>

\* The settings of the default TUN are undone, then it is closed.
rollbackDefaultTun(p) ==
    /\ At(p, "rollback")
    /\ life' = Shut(life, {Default})
    /\ IF Op(p) = "closeSystem" THEN Go(p, "tuns") /\ UNCHANGED lock
       ELSE LeaveAll(p)
    /\ UNCHANGED <<Constructors, closed, owned, attached, issued, budget>>

(* System.Close.                                                           *)

closeSystem(p) ==
    /\ At(p, "mu") /\ Op(p) = "closeSystem"
    /\ IF closed
         THEN LeaveAll(p) /\ UNCHANGED <<closed, owned>>
         ELSE /\ closed' = TRUE /\ owned' = owned \ {Default}
              /\ Keep(p, {"defaultTunMu", "mu"})
              /\ proc' = [proc EXCEPT ![p].pc = "states",
                                      ![p].todo = owned \cap {Default}]
    /\ UNCHANGED <<Constructors, life, attached, issued, budget>>

\* The native TUN of each regular TUN, taken out under mu and its own mutex.
takeTun(p) ==
    /\ proc[p].pc = "states"
    /\ \E t \in owned :
           /\ Free(t)
           /\ proc' = [proc EXCEPT ![p].todo = @ \cup (attached \cap {t})]
           /\ attached' = attached \ {t} /\ owned' = owned \ {t}
    /\ UNCHANGED <<Constructors, life, closed, issued, lock, budget>>

closeNets(p) ==
    /\ At(p, "states") /\ owned = {}
    /\ life' = Shut(life, {"outNet", "localNet"})
    /\ Keep(p, {"defaultTunMu"})
    /\ Go(p, IF Default \in proc[p].todo THEN "closeActive" ELSE "tuns")
    /\ UNCHANGED <<Constructors, closed, owned, attached, issued, budget>>

closeTuns(p) ==
    /\ At(p, "tuns")
    /\ life' = Shut(life, proc[p].todo \ {Default})
    /\ Keep(p, {}) /\ Go(p, "components")
    /\ UNCHANGED <<Constructors, closed, owned, attached, issued, budget>>

\* Mutant: the connection marks are left.
MutClosers == Held({"dns", "routing", "killswitch", "dnsNet"})
              \cup Held({"daemon", "fwmark"} \cap extraClosers)

\* The components the System has, and the closers of New.
Closers == Held({"dns", "routing", "connmark", "killswitch", "dnsNet"})
           \cup Held({"daemon", "fwmark"} \cap extraClosers)

closeComponents(p) ==
    /\ At(p, "components")
    /\ life' = Shut(life, Closers) /\ Return(p)
    /\ UNCHANGED <<Constructors, closed, owned, attached, issued, lock, budget>>

Step(p) ==
    \/ checkOptions(p) \/ CreateTUN(p) \/ publishTun(p)
    \/ lockDefaultTunMu(p) \/ lookUpTun(p) \/ forgetTun(p) \/ lockState(p)
    \/ closeNative(p) \/ useTun(p)
    \/ createDefaultTun(p) \/ configureDefaultTun(p) \/ dropDefaultTun(p)
    \/ closeActive(p) \/ rollbackDefaultTun(p)
    \/ closeSystem(p) \/ takeTun(p) \/ closeNets(p) \/ closeTuns(p)
    \/ closeComponents(p)

\* New asked for no feature at all asks for all of them.
Init ==
    /\ env \in [requested : FeatureSets, netAdmin : BOOLEAN,
                currentNamespace : BOOLEAN, pinPath : BOOLEAN]
    /\ s = [features |-> env.requested,
            dep |-> [d \in Dependency |-> IF d \in {"tunFactory", "tunConfig"}
                                            THEN "works" ELSE "missing"],
            failures |-> [g \in Group |-> {}]]
    /\ \/ phase = "tun" /\ env.requested # {}
       \/ /\ phase = "inject"
          /\ env.netAdmin /\ ~env.currentNamespace /\ ~env.pinPath
    /\ life = [o \in Object |-> "none"]
    /\ closed = FALSE
    /\ owned = {} /\ attached = {} /\ issued = {}
    /\ lock = [l \in Lock |-> Nobody]
    /\ proc = [p \in Proc |-> NoCall]
    /\ budget = [calls |-> MaxCalls, fails |-> MaxFails]

Next == New \/ \E p \in Proc : Calls(p) \/ Step(p) \/ endIO(p)

Spec == Init /\ [][Next]_vars
----------------------------------------------------------------------------
(* Properties.                                                             *)

\* Nothing is left open and nothing is closed twice: not by a New that fails
\* half way, and not by System.Close, also when TUNs are built or closed by
\* other goroutines while it runs (BuildTun's check of closed, System.Close and
\* regularTun.Close taking the native TUN out of the state).
NothingOpen ==
    /\ \A o \in Object : life[o] # "twice"
    /\ \/ phase = "failed"
       \/ closed /\ \A p \in Proc : proc[p].pc \in {"idle", "io"}
       => \A o \in Object : life[o] # "open"

\* A native TUN is not closed while a setter or getter configures it
\* (resolveTunLocked keeps the mutex of the state), and the default TUN never
\* outlives the components that its teardown calls (System.Close gives up
\* defaultTunMu before it closes them).
UsedOpen ==
    /\ \A p \in Proc : proc[p].pc = "use" => life[proc[p].t] = "open"
    /\ life[Default] = "open" =>
           \A o \in extraClosers \cup {"dns", "routing", "connmark", "killswitch"} :
               life[o] # "closed"

\* Goroutines never wait for one another's mutexes in a circle, so that every
\* operation returns: defaultTunMu, mu and the state of a TUN are taken in this
\* order by resolveTunLocked, nativeTun, regularTun.Close, BuildDefaultTun,
\* closeActive and System.Close, and tunOperationError takes none.
NoWaitCycle ==
    \A set \in (SUBSET Proc) \ {{}} :
        \E p \in set : \A l \in Waits(p) : lock[l] \notin set

Keys == UNION {r.keys : r \in Rows(s)}

\* The reason "disabled by config" is given for what the configuration lacks.
Blames(cap, needs) ==
    "disabled_by_config" \in cap.reasons =>
        \/ ~(needs.features \subseteq env.requested)
        \/ "Pmark" \in needs.features /\ ~env.pinPath
        \/ "dnsProvider" \in needs.deps /\ s.dep["dnsProvider"] = "missing"

Promised(cap, needs) ==
    /\ cap = Available <=> ~closed /\ Met(needs, s, env.requested)
    /\ Blames(cap, needs)

TunOptions == [valid : BOOLEAN, named : BOOLEAN, family : {"none", "dual"},
               nameFree : BOOLEAN]

SomeRules == {{}, {[type |-> "exec", compiles |-> TRUE]},
              {[type |-> "comm", compiles |-> FALSE]}}

DefaultTunOptions ==
    [exclude : SomeRules, include : SomeRules, valid : {TRUE},
     family : {"none", "v4"}, named : BOOLEAN, strict : BOOLEAN, source : BOOLEAN]

\* A System says that it can do exactly what it can do: each operation, routing
\* profile and matcher is Available if and only if the caller asked for its
\* features and the components it calls work, whichever parts New has given up;
\* after Close nothing is Available; and CheckTunOpts and CheckDefaultTunOpts
\* accept exactly the options that BuildTun and BuildDefaultTun can serve.
\* Looked at before the first call and after a Close that came first.
ReportSound ==
    /\ phase = "open" /\ \A p \in Proc : proc[p].pc = "idle"
    /\ budget.calls = IF closed THEN MaxCalls - 1 ELSE MaxCalls
    =>
    /\ \A key \in Keys :
           Operation(s, closed, key) # NotImplemented =>
               Promised(Operation(s, closed, key), OperationNeeds(key))
    /\ \A mode \in {"full", "exclude", "include"}, strict \in BOOLEAN :
           LET profile == [family |-> "dual", mode |-> mode, strict |-> strict]
           IN /\ Promised(DefaultTunProfile(s, closed, profile),
                          ProfileNeeds(mode, strict))
              /\ completionContextIssue(s, closed, "exec", RoutingContext(profile))
                     <=> mode = "full" \/ closed
                         \/ ~Met(ProfileNeeds(mode, strict), s, env.requested)
    /\ Promised(closeCapability(matcherCapability(s), closed), MatcherNeeds)
    /\ \A o \in TunOptions :
           CheckTunOpts(s, closed, o) <=>
               /\ o.valid /\ ~closed /\ (o.named => o.nameFree)
               /\ Met(And(TunNeeds, IF o.named THEN Feat("TunNames") ELSE NoNeeds),
                      s, env.requested)
    /\ \A o \in DefaultTunOptions :
           CheckDefaultTunOpts(s, closed, o) <=>
               /\ ~closed /\ ~o.named
               /\ o.exclude = {} \/ o.include = {}
               /\ \A rule \in o.exclude \cup o.include : rule.compiles
               /\ Met(ProfileNeeds(Mode(o), o.strict), s, env.requested)
=============================================================================
