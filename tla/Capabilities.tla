---------------------------- MODULE Capabilities ----------------------------
(***************************************************************************)
(* The capability report of a System (capabilities.go), made once from the *)
(* features, the components and the failures its constructor has left, and *)
(* the checks of options and rules that look operations up in it.          *)
(* Operators only; System builds the report's input and calls the checks.  *)
(*                                                                         *)
(* The input s has the features, for each component how it is there, and   *)
(* for each group of components the reasons why New gave it up.            *)
(***************************************************************************)
EXTENDS Integers, FiniteSets

Feature == {"Tun", "DefaultTun", "DynTun", "DynDefaultTun", "TunNames",
            "StrictMode", "TunRules", "MatcherRules", "DNSControl", "Routing",
            "Pmark", "Killswitch"}

\* A component is missing (a nil interface), empty (a non-nil interface that
\* holds a nil function) or works.
Dependency == {"tunFactory", "tunConfig", "routingManager", "dnsProvider",
               "pmark", "ruleTracker"}

Presence == {"missing", "empty", "works"}

Group == {"tun", "routing", "dns", "pmark"}

Reason == {"permission_denied", "probe_failed", "disabled_by_config",
           "missing_dependency", "not_implemented", "system_closed"}

Family == {"none", "v4", "v6", "dual"}

\* sysnet.CapabilityState in its order.
Capability(state, reasons) == [state |-> state, reasons |-> reasons]

Unknown        == Capability(0, {})
NotImplemented == Capability(1, {"not_implemented"})
Unavailable(reasons) == Capability(2, reasons)
Available      == Capability(3, {})

----------------------------------------------------------------------------
componentCapability(enabled, dependenciesPresent, failures) ==
    IF failures # {} THEN Unavailable(failures)
    ELSE IF ~enabled THEN Unavailable({"disabled_by_config"})
    ELSE IF ~dependenciesPresent THEN Unavailable({"missing_dependency"})
    ELSE Available

configuredCapability(enabled) == componentCapability(enabled, TRUE, {})

\* Mutant: the feature switch is looked at whatever the dependency is.
MutDependentConfiguredCapability(dependency, enabled) ==
    IF enabled THEN dependency ELSE configuredCapability(FALSE)

dependentConfiguredCapability(dependency, enabled) ==
    IF dependency # Available THEN dependency ELSE configuredCapability(enabled)

\* The worst state, and every reason.
combineCapabilities(caps) ==
    Capability(CHOOSE n \in {c.state : c \in caps} :
                   \A c \in caps : n <= c.state,
               UNION {c.reasons : c \in caps})

dependentCapability(base, requirement) ==
    IF base # Available THEN base
    ELSE combineCapabilities({base, requirement})

----------------------------------------------------------------------------
(* openCapabilityReportLocked: the capability of each group of operations. *)

Present(s, d) == s.dep[d] # "missing"

Has(s, f) == f \in s.features

tunCapability(s) ==
    componentCapability(Has(s, "Tun"),
                        Present(s, "tunFactory") /\ Present(s, "tunConfig"),
                        s.failures["tun"])

tunDynamic(s) ==
    dependentConfiguredCapability(tunCapability(s), Has(s, "DynTun"))

tunNames(s) ==
    dependentConfiguredCapability(tunCapability(s), Has(s, "TunNames"))

routingCapability(s) ==
    componentCapability(Has(s, "Routing"), Present(s, "routingManager"),
                        s.failures["routing"])

dnsCapability(s) ==
    componentCapability(Has(s, "DNSControl"), Present(s, "dnsProvider"),
                        s.failures["dns"])

\* The feature, and the three components under it.
defaultCapability(s) ==
    combineCapabilities(
        {componentCapability(Has(s, "DefaultTun"), TRUE,
             s.failures["tun"] \cup s.failures["routing"] \cup s.failures["dns"]),
         tunCapability(s), routingCapability(s), dnsCapability(s)})

defaultDynamic(s) ==
    dependentConfiguredCapability(defaultCapability(s),
                                  Has(s, "DynDefaultTun"))

outDNSCapability(s) ==
    componentCapability(Present(s, "dnsProvider"), Present(s, "dnsProvider"),
                        s.failures["dns"])

matcherCapability(s) ==
    componentCapability(Has(s, "MatcherRules"), Present(s, "ruleTracker"), {})

tunRuleCapability(s) ==
    componentCapability(Has(s, "TunRules"),
                        /\ Has(s, "Pmark") /\ Present(s, "pmark")
                        /\ Present(s, "ruleTracker"),
                        s.failures["pmark"])

strictCapability(s) ==
    dependentConfiguredCapability(routingCapability(s), Has(s, "StrictMode"))

----------------------------------------------------------------------------
(* The report.  A key is a target, an operation and a family.  sockets     *)
(* stands for the seven operations of OutNet and LocalNet on an address,   *)
(* lookups for resolve and interfaces.                                     *)

TunListOps == {"setAddresses", "addAddress", "getAddresses",
               "setRoutes", "addRoute", "getRoutes"}

IP == {"v4", "v6"}

Routed == {"v4", "v6", "dual"}

Rows(s) ==
    LET Row(target, operations, families, cap) ==
            [keys |-> {target} \X operations \X families, cap |-> cap]
    IN {Row("system", {"allocateIP", "allocateSubnet"}, IP, Available),
        Row("tun", {"create"}, Family, tunCapability(s)),
        Row("tun", {"createNamed"}, Family, tunNames(s)),
        Row("tun", {"setMTU"}, {"none"}, tunDynamic(s)),
        Row("tun", {"rename"}, {"none"},
            combineCapabilities({tunDynamic(s), tunNames(s)})),
        Row("tun", TunListOps, Routed, tunDynamic(s)),
        Row("default", {"create", "reconfigureInPlace", "sourceRoutes"},
            Routed, defaultCapability(s)),
        Row("default", {"createNamed"}, Routed, NotImplemented),
        Row("default", TunListOps, Routed, defaultDynamic(s)),
        Row("default", {"setMTU"}, {"none"}, defaultDynamic(s)),
        Row("default", {"rename"}, {"none"}, NotImplemented),
        Row("default", {"dnsProvider", "dnsConfigure"}, IP,
            defaultCapability(s)),
        Row("default", {"dnsPort53Exclusive", "dnsSystemExclusive"}, IP,
            NotImplemented),
        Row("net", {"sockets"}, IP, Available),
        Row("net", {"lookups"}, {"none"}, Available),
        Row("outDNS", {"queryUDP", "queryTCP"}, IP, outDNSCapability(s))}

\* markCapabilityReportClosed, for one entry.
closeCapability(cap, closed) ==
    IF closed /\ cap = Available THEN Unavailable({"system_closed"}) ELSE cap

\* report.Operation: an operation the report does not name is unknown.
Operation(s, closed, key) ==
    LET rows == {r \in Rows(s) : key \in r.keys}
    IN IF rows = {} THEN Unknown
       ELSE closeCapability((CHOOSE r \in rows : TRUE).cap, closed)

\* The capability of a routing profile, and of a rule in it.
ProfileCapability(s, mode, strict) ==
    LET Strictly(cap) == IF strict
                           THEN dependentCapability(cap, strictCapability(s))
                           ELSE cap
    IN IF mode = "full" THEN Strictly(defaultCapability(s))
       ELSE dependentCapability(Strictly(defaultCapability(s)),
                                tunRuleCapability(s))

DefaultTunProfile(s, closed, profile) ==
    IF profile.family \in Routed
      THEN closeCapability(
               ProfileCapability(s, profile.mode, profile.strict), closed)
      ELSE Unknown

\* One rule type that offers completions and one that does not.
supportedRules == {"exec", "comm"}

Completes(type) == type = "exec"

RuleBinding(s, closed, profile) ==
    IF profile.mode = "full" THEN Unknown
    ELSE DefaultTunProfile(s, closed, profile)

----------------------------------------------------------------------------
(* The checks.  A check passes when it collects no issue.                  *)

\* A rule is looked at in a routing profile, or for a matcher.
RoutingContext(profile) == [routing |-> {profile}, matcher |-> FALSE]

MatcherContext == [routing |-> {}, matcher |-> TRUE]

\* A rule type and whether its value compiles.
checkRuleAgainstReport(s, closed, rule, context) ==
    /\ (context.routing = {}) # ~context.matcher
    /\ rule.type \in supportedRules
    /\ closeCapability(Available, closed) = Available
    /\ \A profile \in context.routing :
           /\ DefaultTunProfile(s, closed, profile) = Available
           /\ RuleBinding(s, closed, profile) = Available
    /\ context.matcher =>
           closeCapability(matcherCapability(s), closed) = Available
    /\ rule.compiles

\* CompleteRule up to the look-up of suggestions.
completionContextIssue(s, closed, type, context) ==
    \/ (context.routing = {}) = ~context.matcher
    \/ type \notin supportedRules
    \/ ~Completes(type) \/ closed
    \/ \E profile \in context.routing :
           \/ DefaultTunProfile(s, closed, profile) # Available
           \/ RuleBinding(s, closed, profile) # Available
    \/ context.matcher /\ closeCapability(matcherCapability(s), closed) # Available

\* The prefixes parse (valid), their family, and a name that is free.
CheckTunOpts(s, closed, opts) ==
    /\ opts.valid
    /\ Operation(s, closed, <<"tun", IF opts.named THEN "createNamed"
                                     ELSE "create", opts.family>>) = Available
    /\ opts.named => opts.nameFree

Mode(opts) == IF opts.exclude # {} THEN "exclude"
              ELSE IF opts.include # {} THEN "include" ELSE "full"

\* Mutant: without an address or a route of its own the family stays none.
MutDefaultFamily(family) == family

DefaultFamily(family) == IF family = "none" THEN "dual" ELSE family

\* valid also says that a DNS address is known and that the source routes fit
\* the addresses.
CheckDefaultTunOpts(s, closed, opts) ==
    LET family  == DefaultFamily(opts.family)
        profile == [family |-> family, mode |-> Mode(opts),
                    strict |-> opts.strict]
        rules   == IF opts.exclude # {} THEN opts.exclude ELSE opts.include
    IN /\ opts.exclude = {} \/ opts.include = {}
       /\ opts.valid
       /\ Operation(s, closed, <<"default", IF opts.named THEN "createNamed"
                                            ELSE "create", family>>) = Available
       /\ DefaultTunProfile(s, closed, profile) = Available
       /\ \A rule \in rules :
              checkRuleAgainstReport(s, closed, rule, RoutingContext(profile))
       /\ opts.source => Operation(s, closed, <<"default", "sourceRoutes",
                                                family>>) = Available

----------------------------------------------------------------------------
(* What an operation needs, read from the code that carries it out: the    *)
(* features that were asked for and the components it calls.               *)

TunNeeds == [features |-> {"Tun"}, deps |-> {"tunFactory", "tunConfig"}]

DefaultNeeds ==
    [features |-> {"Tun", "DefaultTun", "Routing", "DNSControl"},
     deps |-> {"tunFactory", "tunConfig", "routingManager", "dnsProvider"}]

RuleNeeds == [features |-> {"TunRules", "Pmark"},
              deps |-> {"pmark", "ruleTracker"}]

NoNeeds == [features |-> {}, deps |-> {}]

And(a, b) == [features |-> a.features \cup b.features,
              deps |-> a.deps \cup b.deps]

Feat(f) == [features |-> {f}, deps |-> {}]

OperationNeeds(key) ==
    LET target == key[1]
        op     == key[2]
    IN CASE target = "tun" ->
              And(TunNeeds,
                  CASE op = "create" -> NoNeeds
                    [] op = "createNamed" -> Feat("TunNames")
                    [] op = "rename" -> And(Feat("TunNames"), Feat("DynTun"))
                    [] OTHER -> Feat("DynTun"))
         [] target = "default" ->
              And(DefaultNeeds, IF op \in TunListOps \cup {"setMTU"}
                                  THEN Feat("DynDefaultTun") ELSE NoNeeds)
         [] target = "outDNS" -> [features |-> {}, deps |-> {"dnsProvider"}]
         [] OTHER -> NoNeeds

ProfileNeeds(mode, strict) ==
    And(DefaultNeeds,
        And(IF strict THEN Feat("StrictMode") ELSE NoNeeds,
            IF mode = "full" THEN NoNeeds ELSE RuleNeeds))

MatcherNeeds == [features |-> {"MatcherRules"}, deps |-> {"ruleTracker"}]

\* What the needs are held against: the features the caller asked for, and
\* the components that work.
Met(needs, s, requested) ==
    /\ needs.features \subseteq requested
    /\ \A d \in needs.deps : s.dep[d] = "works"
=============================================================================
