# sysnet-linux in TLA+

TLA+ models of `sysnet-linux`, a Go library that gives a VPN application its
system networking on Linux: TUNs, policy routing, DNS control, a killswitch
client. The models are translated from the code under `src/`, checked with TLC on
small instances and, for package `routing`, the killswitch client, the DNS providers
on files, `System`, the default TUN, connection marks and the matcher, proved with
TLAPS for every value of the constants. `PROJECT.json` lists components, runs, the
source lines behind each definition, hazards, findings and theorems.

## The system

| Part | State | Operations | What makes it hard |
| --- | --- | --- | --- |
| `routing.Manager` | last applied state, closed flag, kernel rules and tables | Apply, Refresh, Rollback, Close | many netlink requests per call, each may fail; packets flow between any two; crash |
| route monitor | pending change, timers, subscription | event, debounce, guard, refresh, resubscribe, stop | runs between the calls of the application; lost notifications; stop while waiting for the mutex |
| `killswitch.Client` | rulesets, version, interface list, connection | create, update, delete, close; run loop; reader | edits while sending, reconnects, a reader that outlives its connection |
| DNS providers on files (`Direct`, `Openresolv`, `DebianResolvconf`) | saved configuration, managed server, forwarding client | SetDNS, UnsetDNS, Close | the mutex is not held around file accesses and commands; other programs write the file |
| `dns.Resolved` | managed server, interface index, upstream routes by domain | SetDNS, UnsetDNS, SetInterfaceIndex, Close, monitor | other programs change links; monitor races the calls; refreshes overtake each other |
| default TUN (`default_tun.go`, `sysnet.go`) | native TUN, DNS server, rules, checker, routing, connmark, killswitch ruleset | BuildDefaultTun, Close, System.Close, address and route setters, SetDNS, reads | eleven steps, each may fail; rebuild in place; link deleted by the kernel |
| `System` and regular TUNs (`auto.go`, `sysnet.go`) | components, TUN map, a state per TUN, three kinds of mutex | New, NewSystem, BuildTun, setters, getters, Read and Write, Close | New fails half way; Close while others build, use and close TUNs; nested mutexes |
| capabilities (`capabilities.go`) | none: a report over features and components | report, option checks, completion contexts | must agree with what the operations need after New gave parts up |
| TUN addresses (`tun/address_linux.go`) | the kernel's address table | SetTunAddrs, AddTunAddr, route setters, restore | one request at a time; the kernel drops or promotes secondaries on its own |
| connmark | nftables table, connection mark | Apply, Rollback, packets | selectors with different masks |
| matcher (`matcher.go`, `rules.go`) | rule identifiers, tracker | BuildMatcher, Match, Close | processes exit and change while Match looks at them; Close during Match |
| subnet filters (`subnet/`) | none: filters over the interfaces | AllocSubnet, AllocIP | overlap of prefixes, networks too broad to count |

`System` owns one of each. A build of the default TUN calls, in order, the TUN
factory, the DNS server, p-mark, the DNS provider's interface index,
`routing.Manager.Apply`, connmark, the DNS provider's `SetDNS` and the killswitch
client. `DefaultTun` models this composition with each of these calls as one step
that succeeds or fails; the other modules model what is inside a call. `System`
(the module) models which of these operations can meet: it has the mutexes, and
what an operation does while it holds them is one step there. `defaultTunMu`
serialises operations on the default TUN and the mutex of a TUN's state those on
its link, so `DefaultTun` and `TunLink` have one operation at a time.

## Modules

| Module | Models |
| --- | --- |
| `RoutingPolicy` | compiler, safe-route classification, validation, the predicates of the sweeps; Linux's walk over the policy rules (external) |
| `Routing` | manager, adapter, monitor; kernel rules, tables, links; main-table changes, lost links, failures, crash |
| `RoutingInvariant` | the inductive invariants behind `FailClosed` (`IInv`), `OwnedExactly` (`OwnInv`) and `SafeTableCurrent` (`CurrentInv`) |
| `RoutingProofs`, `RoutingSafety` | lemmas on the policy, types, the close protocol and ownership; `IInv`, `FailClosed` and `SafeTableCurrent` |
| `Killswitch`, `KillswitchRegister` | the client with its daemon; what it promises, as a register that lags behind |
| `KillswitchProofs` | types, `Converged`, the refinement of `KillswitchRegister` |
| `FileDNS`, `FileDNSProofs` | the three providers that write resolv.conf or a resolvconf record; their safety properties |
| `Resolved` | the systemd-resolved provider, its monitor and its routes by domain |
| `DefaultTun` | life of the default TUN over abstract components |
| `Capabilities` | the capability report and the option checks, and what each operation needs |
| `SystemState`, `System` | New, regular and default TUN, Close, under their mutexes: the variables, and the steps |
| `SystemOwnership` | the invariants of `System`'s proofs, and what each step does as far as they can tell |
| `SystemSteps`, `SystemOwners`, `SystemProofs` | every step has its effect; every effect keeps the invariants; the three theorems |
| `TunLink` | addresses and routes of one link, the plans, the requests, the kernel's table |
| `Connmark` | marks, the table's chains over one connection |
| `Matcher` | rules, Match, Close, processes and tracker |
| `ComponentProofs` | the theorems about `Connmark`, `Matcher` and `DefaultTun` |
| `Subnet` | the filters of the allocator and TUNs that use what it gives |
| `MCRouting`, `MCKillswitch`, `MCResolved`, `MCSystem`, `MCDefaultTun` | instances for TLC; `MCSystem` puts `System` and `FileDNS` into one run, `MCDefaultTun` `DefaultTun`, `TunLink`, `Connmark`, `Matcher` and `Subnet`; the findings on `FileDNS` are run directly |

### Routing

An operation holds the manager's mutex (`op`, `owner`); `pc` is its phase, `todo`
what is left of the phase's loop. Each step is one adapter call: `AddRule`,
`DeleteRule`, `ReplaceRoute`, `flushTableFamily`, `deleteOwnedRules`, the two
reads. `AdapterFails` is the error return of any of them, with the effects the
calls before it in the same loop already had. `EndPhase` moves to the next loop of
`applyDesired`, `refreshLocked`, `Rollback` or `beginRouteChange`. Destinations are
three prefixes (default, a private one, a public one) and a packet has a mark class
and a destination class, because compiler and classifier tell no more apart.
`Verdicts` says where the kernel may send a packet; all policy properties are
stated over it, so they do not repeat the compiler.

History variables: `duty` holds the configurations that must be in force;
`torn` says whether a failed call has left the kernel different from what
`applied` records (`torn`), and marks two situations in which protection is known
to be lost: `bared` (a refresh removed the guard after a failed Apply, see
Findings) and `stray` (the caller applied another priority block after a failure
without the Rollback that cleans the old one); `litter` holds configurations whose
failed calls may have left rules or routes.

### Killswitch

Callers, the run loop (`rpc`), one reader per connection, two FIFO channels and a
daemon that can stop and start. An `AllowRules` value is the set of its allowances,
so merging is union. Reader steps `decode` and `setInterfaces` are separate: between
them the reader waits for the client's mutex. The refinement maps the sequence of
edits, the last edit that reached the daemon, and the daemon's ruleset of the
current connection to the variables of `KillswitchRegister`.

### FileDNS and DefaultTun

In `FileDNS` each region under the mutex and each file access or command is one
step. A file has an author and servers. A WriteFile or command that reports an error
has left the old contents, the new ones or, for a file, a part of the new ones, with
or without the line by which the provider recognises its own; so has one that a
crash cuts short. `lapses` is a history variable: a SetDNS that reported an error and
changed the file (`write`), one that wrote the server an overlapping Close had rolled
back and was about to forget (`overtaken`), a rollback that stopped half way
(`restore`), a foreign write between a rollback's read and its write (`overwritten`).
The providers cannot detect these. `RolledBack` excludes the first two; for the third
it says what may be left.

In `DefaultTun` a resource is the set of what the host holds of it and `st` what the
code has recorded; `managed` says whether the provider has recorded a server, without
which its `UnsetDNS` does nothing. `lost` names resources that the record no longer
accounts for: their release has failed, or a step has set them up and returned an
error, which happens in two places. `defaultTunChecker` returns no ids when it fails,
also of the rules it has registered by then (`CheckerFails`), and a failed SetDNS may
have changed the file. The four setters of addresses and routes share their tail and
are one action, `Reconfigure`; what they do to the link is in `TunLink`.

### Resolved

`link` is what resolved has for each interface, with index 0 for its global
configuration: servers, domains, the default-route flag and, as history, who wrote
them (`by`). A domain is
the sequence of its labels from the root with the routing-only flag, so that "most
specific" is the longest prefix; how domains are spelled is left out. Each
D-Bus request is a step, and any may fail. A refresh reads the link's servers and
domains, then the servers and the domains of all links, and ends when the signature
is unchanged; domains that cannot be read are taken to be none. `applyDNS` is three
requests (`SetLinkDomains`, `SetLinkDefaultRoute`, `SetLinkDNS`); a resolved without
the default-route flag is one where it is `unknown`. A sync reads the managed server,
then the link, may apply the managed server again, and refreshes. `Init` is the
beginning of NewResolved, which refreshes first and subscribes to signals after that.
`r` holds the provider's fields: `routes`, `sig`, and `saved`, the servers last seen
on the managed link (`targetServers`).

`spoiled` names what the provider mends only at a later signal: a failed request or a
SetDNS without a link (`revert`, `read`, `apply`), a sync that began inside a SetDNS,
whose server it cannot know (`early`), a refresh that ended while another was under
way (`overtaken`), a change between the reads of NewResolved and its subscription
(`unwatched`). A sync that begins between two calls clears them, for it reads
everything again. `left` notes a link that a failed request has left configured, and
stays. `Maintained` and `Followed` speak of the states in which none of the former
holds. Allowing any one of the tags in `Followed` makes it false, so each of these
situations is a real limit of the code: `dns/resolved.go:317` says that SetDNS
"rewrites this setup when it is changed externally", and after a sync that began too
early it does so only at the next signal.

### System and Capabilities

`phase` is the step of `New`, which makes one component after the other; each may
fail, which disables features, or ends `New` and unwinds. Then goroutines call the
operations. A step of a goroutine takes the mutexes its `pc` waits for (`Waits`)
and goes on to the next mutex it would wait for. `life` says of every component and
native TUN whether it is open, and notes what is closed twice.

`Capabilities` translates the report row by row, the reasons included, and states
independently what each operation needs (`OperationNeeds`, `ProfileNeeds`,
`TunNeeds`, taken from the bodies of the operations). `ReportSound` compares the
two for every System that `New` can leave behind. A System that lacks a part is
called only once, because what it answers does not depend on earlier calls.

### TunLink

An update reads the address table, plans (`planTunAddrReconciliation`,
`planTunAddrAddition`), makes its requests one at a time and verifies. The kernel
keeps addresses in order, makes a later IPv4 address of a subnet a secondary one,
drops or promotes the secondaries with their primary (`promote_secondaries`), and
may finish duplicate address detection between any two requests. An update of the
default TUN that fails later puts addresses and routes back; a list that is refused
before any request takes the same way back (kind `refused`).

### Connmark, Matcher, Subnet

In `Connmark` a mark is the set of its bits. A connection gets its mark from the
output chain and gives it back in the prerouting chain; the table may be replaced,
removed or left by a failed Apply at any time.

In `Matcher` only whether a process hits the rule matters. Match looks the owner
up, tries the rule on it, then for each process asks the tracker and reads procfs;
processes start, change and exit at any time. `ruleIDs` is read without the mutex,
as a length and then its data: a Close in between is a crash (`panic`), as the
unsynchronised read allows. The tracker (p-mark, external) matches a process only
while it hits and may be late or miss it.

In `Subnet` addresses are numbers under `SubnetWidth` bits, so that masks and
overlap are computed; `Broad` stands for the /8 of the code.

## Runs

Bounds limit how often the environment acts (calls, failures, changes, crashes);
the system's own steps are not limited. Deadlock is not checked because every run
ends when the bounds are used up and every component may be closed; `NoWaitCycle`
says that no goroutine is stuck before that.

| Run | Checks | Bounds, and why they suffice |
| --- | --- | --- |
| RoutingMonitor | `TypeOK`, `FailClosed`, `SafeTableCurrent`, `PolicyMet`, `AdapterNotUsedAfterClose`, `NoCallAfterClose` | a strict include and a non-strict exclude configuration, a private and a public gateway route, two calls, two changes, one failure, one closer: a change can meet every phase of every operation, and a second one the refresh of the first |
| RoutingOwner | `FailClosed`, `PolicyMet`, `OwnedExactly` | two configurations that differ in priority block (overlapping), tables, TUN and families; three calls, one failure, one crash: apply one, fail the other, recover |
| RoutingLive | `CloseWaits`, `IInv`, `ChangeServed`, `CloseReturns` | one configuration, one change, one failure, two closers |
| RoutingRefreshLeak | `NoLeak`, violated | the shortest history needs Apply, a failed Apply and Refresh |
| Killswitch | `TypeOK`, `Converged`, `Register`, `EventuallyEnforced`, `CloseEnds` | two overlapping policies, two IDs, two connections; two edits with an outage and a rejection, or one edit with an interface change and an outage (`Budgets`) |
| KillswitchStale | `AttachedToEveryInterface`, violated | two interface changes around one outage |
| FileDNSPrevious | `RestoresPrevious`, violated | one foreign write before SetDNS |
| FileDNSClose | `RolledBackOnClose`, violated | one SetDNS and one Close, no failure, no other writer |
| DefaultTun | `NothingLeft`, `StateMatchesHost`, `OneServerPerAddress`, `RetryVisible`, `ProtectedOutsideRestore`, `AddrsReconciled`, `LinkRestored`, `ReplySelected`, `MatchAnswers`, `KeptApart` | two DNS addresses, two builds and the setters between, two failures, one deleted link: a failed rebuild, a failing restore, and a close after it. A link with two IPv4 addresses of two bits and one IPv6 address, up to two IPv4 entries, one failing request. Two mark bits, two marks. Two processes, a rule type of each kind, no bound on events. Addresses of two bits, two interface addresses, `Broad` 1 (with both families, and with all rule types, checked apart from the runs) |
| Resolved | `TypeOK`, `Maintained`, `Followed`, `LeavesNothing` | two links and the global configuration, two servers, no domain, a search domain or the root domain per link; two calls and Close around a failure, two calls around a foreign change, a call and Close around a foreign change. Each may fall between any two requests of any call or sync, the constructor's included |
| ResolvedLoop | `NoLoop`, violated | one link, two calls, no failure, no foreign change |
| System | `NothingOpen`, `UsedOpen`, `NoWaitCycle`, `ReportSound`, `NoLoop`, `RolledBack`, `ClientsReleased` | three goroutines, one regular and the default TUN, four calls, one failure; all features, all but one, none. Both kinds of DNS provider on files, three calls, two closers one of which also sets, one failure, one foreign write, one crash |

`MCSystem` and `MCDefaultTun` put several modules into one run. These share no
variable, and a behaviour of the run is one of any of them while the others rest; the
run therefore says nothing about their interleaving, which the mutexes exclude for
`TunLink` and which has no effect for the others. `NoLoop` in the System run is the
one of `FileDNS`.

What the deeper properties say:

- `FailClosed`: between any two netlink requests no packet leaves outside the
  tunnel unless a configuration in `duty` allows it, but for `bared` and `stray`.
- `PolicyMet`, `SafeTableCurrent`: once nothing is in progress the kernel gives
  every packet the verdict its mode promises, over the main table as it is now.
- `OwnedExactly`: rules and routes of a former configuration are gone after a
  successful Apply, and all are gone after Rollback.
- `Register`: the daemon enforces nothing, or what the callers together wanted at
  one moment, and these moments never go back.
- `Converged`, `EventuallyEnforced`: no edit or interface change is lost.
- `NoLoop` of `FileDNS`: requests are never forwarded to the managed server, with
  SetDNS and UnsetDNS one after the other as `defaultTunMu` keeps them. Two SetDNS at
  once could each exclude only its own server.
- `RolledBack`: between calls a server that may still be in the file is recorded, so
  that another Close rolls it back, but for the two lapses above.
- `Maintained`: after an undisturbed sync the managed link has the managed server
  alone, the root domain and the default-route flag, whatever another program did.
- `Followed`: once quiet, each name goes to the servers that resolved reports for
  the most specific domain that covers it.
- `LeavesNothing`: the resolved monitor never puts back what a call has reverted.
- `NothingLeft`, `StateMatchesHost`: a failure at any step of a build or an update
  leaves the record and the host in agreement, but for the resources in `lost`.
- `RetryVisible`: a reader whose TUN was replaced sees a new source generation.
- `ProtectedOutsideRestore`: an active default TUN is without policy only while a
  failed update puts the old policy back.
- `NothingOpen`, `UsedOpen`: New and Close leave nothing open, close nothing twice,
  and close no TUN under a setter and no component under the default TUN.
- `ReportSound`: what is reported available is what works, whatever New gave up.
- `AddrsReconciled`, `LinkRestored`: an update that reports success has left the
  wanted addresses, and one of the default TUN that fails puts the link back if the
  kernel serves its requests (on a link that promotes secondary addresses and had no
  address in two lengths; TunLink.tla says why).
- `ReplySelected`: both directions of a connection are selected by the same mark.
- `MatchAnswers`: "no" without an error is a confirmed nonmatch.
- `KeptApart`: the filters refuse exactly what overlaps, and TUNs stay disjoint.

Every property has a mutant: a plausible slip in one mapped definition (`Mut...`,
next to the definition) under which TLC finds the property violated.

### Fairness

`RoutingLive` assumes weak fairness of the operation in progress, of the monitor
goroutine and of each closer: all are goroutines that the Go scheduler runs again,
and a netlink request returns. An adapter call either succeeds or fails; failures
are bounded, so a retry succeeds in the end. Nothing is assumed of the application
or of the main table. `Killswitch` assumes weak fairness of the run loop, of
every reader and of a daemon that reads its socket. That last one is an assumption
about the environment: with a daemon that hangs without closing its socket, a
blocked write also blocks the end of the run loop.

## Findings

Five runs check what a document, a comment or a test says, and TLC finds it
violated:

1. `RoutingRefreshLeak`: after an Apply that fails with the guard active, Refresh
   (also the monitor's) removes the guard although the policy rules are gone.
2. `KillswitchStale`: the reader of a former connection can overwrite the interface
   list of the present one.
3. `FileDNSPrevious`: the direct provider restores the resolv.conf it read at
   construction, not the one that SetDNS replaced.
4. `FileDNSClose`: a Close between the write of SetDNS and its record of the server
   finds nothing to roll back, and the managed file stays in place with the provider
   closed. Another Close would roll it back (`RolledBack`).
5. `ResolvedLoop`: a sync that begins between the last request of SetDNS and the
   assignment of `setDNS` takes the managed server for an upstream. No later signal is
   due, so requests go round in a loop until something else changes.

Behaviour met while modelling that the properties take as it is:

- Default TUN: the rules that a failed `defaultTunChecker` had registered stay
  registered. Restoring after a failed update rolls all policy rules back, the
  guard included, before it applies the old configuration. User callbacks such as
  `KillswitchUpdated` run under `defaultTunMu`.
- Addresses: without `promote_secondaries`, deleting a primary IPv4 address drops
  the secondaries that were to stay (`tun/config.go:51` says "Unchanged addresses
  are preserved."); the verification then reports a failure. `AddTunAddr` can give
  one IPv4 address two prefix lengths, after which the restore of a failed update
  is refused. An IPv6 address added to the default TUN in a second length stays in
  the recorded list in both, and adding the first one again has no effect.
- Capabilities: with DNS disabled in the configuration the reason reported is
  `probe_failed`. `DefaultTunWarnings` uses the provider and the native TUN after
  it has given up the locks.
- Resolved: when every link has a search domain and none the root domain, a name
  outside these domains has no upstream. A sync that spans `SetInterfaceIndex` can
  record the former link's servers as those of the new one. A refresh with an
  unchanged signature leaves `targetServers` as recorded before.
- Matcher: a Match during Close may crash on `ruleIDs`. A rule on users or groups
  says no without an error when the socket's owner is unknown and the tracker does
  not follow the process.

## Proofs

| Theorem | For any | Argument |
| --- | --- | --- |
| `RoutingProofs!TypeCorrect` | families, configurations, routes, closers, bounds | with `CallInv`: a call works on the configuration of its phase |
| `RoutingProofs!AdapterClosedLast`, `CloseWaitsHolds`, `NoCallAfterCloseHolds` | the same | `CloseInv`: a closed manager is idle, the monitor ends only when it is closed, the adapter goes after the monitor and before any Close returns |
| `RoutingSafety!IInvHolds`, `FailClosedHolds` | the same, with one priority block (`OneBlock`), as `System` uses | `IInv`, below |
| `RoutingProofs!OwnedExactlyHolds` | the same, with priority blocks that are equal or do not overlap (`ApartBlocks`) | `OwnInv`, below |
| `RoutingSafety!SafeTableCurrentHolds` | the same, any priority blocks | `CurrentInv`, below |
| `KillswitchProofs!KillswitchTypes`, `ConvergedHolds`, `RegisterRefined` | policies, interfaces, IDs, sessions, socket capacity, bounds | `KInv`, below |
| `FileDNSProofs!ClientsReleasedHolds` | servers, goroutines, bounds | `ClientInv`: the one open client is the provider's, or that of the Close that took it over under the mutex |
| `FileDNSProofs!RolledBackHolds`, `NoLoopHolds` | the same, with `OneSetter` | `FileInv`: the managed file is there only while a server is set or about to be, or a lapse has happened; `LoopInv`: the attached client excludes the server that is set and the one about to be |
| `SystemProofs!NoWaitCycleHolds` | goroutines, TUNs, calls, failures | `LInv`: at each step a goroutine holds only mutexes that come before the one it waits for, in the order `defaultTunMu`, `mu`, state of a TUN; a chain of waiting goroutines climbs it |
| `SystemProofs!NothingOpenHolds`, `UsedOpenHolds` | the same | `OwnerInv`, below |
| `ComponentProofs!ReplySelectedHolds` | mark bits and number of marks | accepted marks never select the same packet; the connection of a packet that was sent has the whole value of its mark |
| `ComponentProofs!MatchAnswersHolds` | processes and rule types | a process that hits all along is still to be looked at, or its reading has failed and is remembered; one tracked all along is still to be asked about |
| `ComponentProofs!NothingLeftHolds`, `StateMatchesHostHolds`, `OneServerPerAddressHolds`, `RetryVisibleHolds`, `ProtectedOutsideRestoreHolds` | addresses, resolvers, builds, failures, lost links | `DInv`, below |

The assumptions are those of the modules (families are among 4 and 6,
configurations pass `validate`, bounds are naturals, names are distinct, a fallback
server exists, rule types are the supported ones) and three of the theorems' own.
`OneBlock`: all configurations have one priority block. `ApartBlocks`: two priority
blocks are equal or do not overlap. `OneSetter`: SetDNS and
UnsetDNS of a provider are called one after the other, as the default TUN does under
`defaultTunMu`; Close may come from any goroutine at any time.

**Fail closed.** `FailClosed` is not inductive: the verdict for a packet depends on
rules and tables that earlier steps of the same call have left. `IInv` adds

- `CallInv`: an operation is in one of its phases, works on the right
  configuration, and its loop holds only work of that phase;
- `RulesInv`: every rule in the kernel was compiled from some configuration or is
  a guard;
- `GuardInv`: from the phase after the guards until the phase that removes them,
  the guard of every family of the configuration is there;
- `BuildInv`: what the phases behind the current one must have built (tables,
  then rules) has been built;
- `AppliedInv`: unless a failed call says otherwise, the applied policy is in the
  kernel or behind the guard of a running Apply;
- `ProtectedInv`: every family is behind a guard, enforced, or outside the policy.

`RoutingProofs` shows that `IInv` implies `FailClosed`: `GuardBlocks` (a guard
precedes every rule that could send a packet out) and `EnforcedPolicy` (compiled
rules over tables with only safe and tunnel routes allow what the policy allows).
`RoutingSafety` shows that every action preserves `IInv`, one lemma per action. The
`RoutingLive` run checks `IInv` on an instance.

**Ownership.** `OwnedExactly` speaks of a manager at rest; `OwnInv` says between any
two adapter calls who may have left what. `HolderInv`: every rule and every filled
table belongs to a configuration that is applied, being worked on, or left by a
failed call, and an Apply that can recover sweeps all the latter. `SweepInv`: what
the loops of Apply and Rollback have swept stays swept, up to the rules of the new
configuration and the guards. `ExactInv`: unless a failed call says otherwise the
applied rules are all there, with guards at most besides. The sweep compares rules
as they are listed and spares what looks like a guard. With three configurations
whose blocks overlap partly, a left-over rule of one can look like the guard of
another and be spared, hence `ApartBlocks`. `System` always uses one block. The
RoutingOwner run checks `OwnedExactly` for two blocks that overlap.

**Safe table.** A change of main reaches the table through the subscription, the
monitor's memory (`pending`), the debounce timer and a refresh, and may meet any of
them half way. `Told` says that a change is still on this way. `CurrentInv` has three
parts: `MonitorInv` (the monitor remembers a change as long as it is unsubscribed or
about to act), `WorkInv` (unless a change is still to come, Apply and Refresh hold a
snapshot equal to main and the safe table is as far built from it as the phase says)
and `TendedInv` (unless a change is still to come, the applied safe table equals the
safe routes of main). The refresh that the monitor itself runs clears `pending` when
it returns, so `Told` does not count `pending` during that refresh: a change that
arrives meanwhile is an event still to be read. `OwnInv` and `CurrentInv` were checked with TLC on
instances before they were proved; they are not properties of a run.

**Killswitch.** `Converged` speaks of a state in which nothing is on its way, so the
invariant must say where each thing is while it is on its way. `KInv` has five
parts: `Types`; `SessionInv` (which sessions are over, which have not begun, and
that nothing is left of either); `ListInv` (the daemon's interface list is still to
be requested, or in the socket, or in the reader's hands, or known to the client);
`PolicyInv` (the version recorded as applied is the last mutation in the socket or
what the daemon has); `EditInv` (every mutation is the merge after one edit, and
mutations in a socket are in the order of their edits). The refinement follows from
`EditInv`: a step of the client is an edit of the register, a mutation that reaches
the daemon enforces a later edit, the end of a connection drops what is enforced,
and every other step changes neither.

**System.** That nothing stays open needs to be known while operations overlap.
`OwnerInv` says who will close what is open: every open TUN is in the System's list
or in the custody of exactly one goroutine (`HandleInv`), at steps that say so
(`Custody`); a TUN in the list is in its state; only one goroutine has set `closed`,
and the list is empty once it has gone through it (`CloserInv`); a setter keeps `mu`
until it has the mutex of the TUN's state, so that the TUN it uses is not taken out
(`UseInv`); the components are open until that goroutine closes them
(`ComponentInv`), and while the constructor runs they are those of the steps behind
it (`MadeInv`). The proof has two halves. `SystemSteps` shows that every action of
`System` is one of the effects of `SystemOwnership`, which say what changes in the
terms of the invariants and leave the options, the report and the budget out;
`SystemOwners` shows that the effects keep the invariants, without the definitions
of `System`.

**Default TUN.** `NothingLeft` and `StateMatchesHost` speak of the times between
operations, so `DInv` follows each operation through its steps: `TunInv`, `RulesInv`,
`PolicyInv` and `ServerInv` say, for each step of a build, what the host holds of a
resource in terms of the state before the build and of the build's locals, so that the
commit and `Finish` leave exactly the new state, and that a build which fails has
released, or recorded for `closeActive`, all it has put there; `ClosingInv` says that
whatever the host still holds during `closeActive` is on the list of what is to be
released (or could not be); `IdleInv` has the state between operations and in the
restore of a setter; `ManagedInv` says that a DNS configuration on the host is one the
provider has recorded, or that it is in `lost`; `ReaderInv` ties the generation a reader has noted to the TUN it
reads. The proof has one lemma per action. `DInv` was checked with TLC at the bounds
of the DefaultTun run before it was proved; it is not a property of a run.

Only model-checked:

- liveness (`ChangeServed`, `CloseReturns`, `EventuallyEnforced`, `CloseEnds`),
  which is outside the prover;
- `AddrsReconciled` and `LinkRestored`, whose plans are folds over the address table
  in its order, and `KeptApart`, which rests on arithmetic with powers of two: both
  would need induction over data, which is outside the prover too;
- `ReportSound`: a comparison of finite tables, over the Systems that New can leave
  with all features, all but one, and none;
- `PolicyMet` and `Resolved`: no proof has been written.

## Not modelled

- Text: resolv.conf and its parser, DNS names, D-Bus encoding, JSON, patterns and
  number lists of rules. No property of the modelled components depends on it.
- DNS mode detection (`dns/dns.go`): reads the host once and keeps no state, a
  decision table that its unit tests enumerate.
- Rule completion: bounded reads of files for suggestions, no state.
- Host lookups and network constructors: one call to gonnect each. gonnect's
  allocator, which proposes the candidates of `Subnet`, is outside the repository.
- `SetTunMTU`, `SetTunName` and device creation: one request on the link under the
  locks that `System` models.
- User callbacks and logging; `upstreamServers` and `globalDNSServers` of
  `dns/resolved.go`, which nothing calls.
- The command-line tool and the end-to-end programs.

`PROJECT.json` gives the reason for each part and lists the hazards that no
property covers.

## Plan

1. Theorems: `LeavesNothing` of `Resolved`, `PolicyMet` of `Routing`.
2. User callbacks of the default TUN as calls that may come back into `System`.
