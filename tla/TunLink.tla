------------------------------- MODULE TunLink -------------------------------
(***************************************************************************)
(* The addresses and routes of one TUN link (tun/address_linux.go,         *)
(* tun/config.go) and the updates of them that System makes under its      *)
(* locks (sysnet.go): SetTunAddrs and AddTunAddr of a regular TUN, and of  *)
(* the default TUN, whose link is put back when a later step fails.        *)
(*                                                                         *)
(* An update reads the kernel's address table, plans its requests, makes   *)
(* them one at a time and verifies the result.  A request may fail, and    *)
(* the kernel may finish duplicate address detection between any two.      *)
(*                                                                         *)
(* A prefix is an address with a prefix length.  IPv4 addresses are the    *)
(* numbers of V4 under Width bits, so that the kernel's notion of a subnet *)
(* is computed; IPv6 addresses are only told apart.                        *)
(***************************************************************************)
EXTENDS Integers, Sequences, FiniteSets, SequencesExt

CONSTANTS
    V4, V6,    \* addresses of the two families
    Width,     \* bits of an IPv4 address
    Bits4,     \* IPv4 prefix lengths
    Bits6,     \* IPv6 prefix lengths, of which the longest names one host
    MaxTable,  \* IPv4 entries of an address table
    MaxWanted, \* prefixes asked for
    MaxFaults  \* requests that fail although the kernel could serve them

ASSUME TunLinkAssumption ==
    /\ V4 \subseteq 0..(2^Width - 1) /\ V4 \cap V6 = {}
    /\ Bits4 \subseteq 0..Width
    /\ \A n \in {MaxTable, MaxWanted, MaxFaults} : n \in Nat

VARIABLES
    addrs,   \* the kernel's addresses of the link, oldest first
    routes,  \* its main-table routes
    promote, \* whether the kernel promotes secondary IPv4 addresses
    known,   \* defaultTunState.addrs, the addresses System has given the link
    job      \* the update in progress

linkVars == <<addrs, routes, promote, known, job>>

Prefix == [ip : V4, bits : Bits4] \cup [ip : V6, bits : Bits6]

Is6(p) == p.ip \in V6

\* An entry of the table: its prefix, whether duplicate address detection is
\* off (IFA_F_NODAD), and whether the address is tentative or a duplicate
\* (unusableIPv6AddrFlags).
Entry(p, nodad, unusable) == [prefix |-> p, nodad |-> nodad,
                              unusable |-> unusable]

tunAddrPrefix(e) == e.prefix

PrefixesOf(table) == {tunAddrPrefix(table[i]) : i \in DOMAIN table}

----------------------------------------------------------------------------
(* The kernel.  IPv4 entries are told apart by address and length, IPv6    *)
(* entries by address.  Among the IPv4 entries of one subnet the earliest  *)
(* is the primary one, and when it is deleted the others go with it unless *)
(* the link promotes secondary addresses.                                  *)

SameSubnet(p, q) ==
    /\ ~Is6(p) /\ ~Is6(q) /\ p.bits = q.bits
    /\ LET size == 2^(Width - p.bits) IN p.ip \div size = q.ip \div size

\* RTM_NEWADDR with NLM_F_REPLACE; an IPv6 address that exists keeps its
\* length and its state.
KernelReplace(table, p) ==
    LET kept == {i \in DOMAIN table :
                     IF Is6(p) THEN table[i].prefix.ip = p.ip
                     ELSE table[i].prefix = p}
    IN IF kept = {} THEN Append(table, Entry(p, Is6(p), FALSE))
       ELSE [i \in DOMAIN table |->
                IF i \in kept /\ Is6(p) THEN [table[i] EXCEPT !.nodad = TRUE]
                ELSE table[i]]

\* RTM_DELADDR of an entry that is there.
KernelDelete(table, p) ==
    LET at      == CHOOSE i \in DOMAIN table : table[i].prefix = p
        primary == ~Is6(p) /\ \A i \in 1..(at - 1) :
                                  ~SameSubnet(table[i].prefix, p)
        Stays(e) == /\ e.prefix # p
                    /\ promote \/ ~primary \/ ~SameSubnet(e.prefix, p)
    IN SelectSeq(table, Stays)

----------------------------------------------------------------------------
(* The plan.                                                               *)

replaceTunAddrChange(p) == [kind |-> "replace", prefix |-> p]

deleteTunAddrChange(e) == [kind |-> "delete", prefix |-> tunAddrPrefix(e)]

\* The prefixes without repetition, or an error when one address is asked for
\* with two lengths.
normalizeTunAddrPrefixSet(prefixes) ==
    LET Known(seen, p) == IF Contains(seen, p) THEN seen ELSE Append(seen, p)
        set == ToSet(prefixes)
    IN [ok   |-> \A p, q \in set : p.ip = q.ip => p.bits = q.bits,
        list |-> FoldLeft(Known, <<>>, prefixes)]

EntryOf(table, p) == table[CHOOSE i \in DOMAIN table : table[i].prefix = p]

SameAddress(table, p) ==
    LET Same(e) == e.prefix.ip = p.ip IN SelectSeq(table, Same)

Changes(list, Of(_)) == FlattenSeq([i \in DOMAIN list |-> Of(list[i])])

\* Mutant: the new length is added before the old one is deleted.
MutExchangeTunAddr(current, p) ==
    <<replaceTunAddrChange(p)>>
    \o Changes(SameAddress(current, p), LAMBDA e : <<deleteTunAddrChange(e)>>)

\* The requests that give an address another length.
exchangeTunAddr(current, p) ==
    Changes(SameAddress(current, p), LAMBDA e : <<deleteTunAddrChange(e)>>)
    \o <<replaceTunAddrChange(p)>>

\* Switch off detection on IPv6 addresses that stay, add what meets no
\* conflict, renew unusable IPv6 addresses, exchange addresses whose length
\* changes, and delete the rest at last.  No entry is deleted twice because
\* the prefixes asked for differ in their addresses.
planTunAddrReconciliation(current, desired) ==
    LET Present(p)  == p \in PrefixesOf(current)
        Unusable(p) == Is6(p) /\ Present(p) /\ EntryOf(current, p).unusable
        Refresh(p)  == IF /\ Is6(p) /\ Present(p) /\ ~Unusable(p)
                          /\ ~EntryOf(current, p).nodad
                       THEN <<replaceTunAddrChange(p)>> ELSE <<>>
        Conflict(p) == ~Present(p) /\ SameAddress(current, p) # <<>>
        Add(p)      == IF ~Present(p) /\ ~Conflict(p)
                       THEN <<replaceTunAddrChange(p)>> ELSE <<>>
        Renew(p)    == IF Unusable(p)
                       THEN <<deleteTunAddrChange(EntryOf(current, p)),
                              replaceTunAddrChange(p)>> ELSE <<>>
        Swap(p)     == IF Conflict(p) THEN exchangeTunAddr(current, p) ELSE <<>>
        Drop(e)     == IF \/ e.prefix \in ToSet(desired)
                          \/ \E p \in ToSet(desired) :
                                 Conflict(p) /\ p.ip = e.prefix.ip
                       THEN <<>> ELSE <<deleteTunAddrChange(e)>>
    IN Changes(desired, Refresh) \o Changes(desired, Add)
       \o Changes(desired, Renew) \o Changes(desired, Swap)
       \o Changes(current, Drop)

\* One address that is already there: nothing, switch off detection, or renew.
planExistingIPv6AddrAddition(e, p) ==
    IF e.unusable THEN <<deleteTunAddrChange(e), replaceTunAddrChange(p)>>
    ELSE IF e.nodad THEN <<>> ELSE <<replaceTunAddrChange(p)>>

\* IPv4 lengths of one address live side by side; an IPv6 address has one.
planTunAddrAddition(current, p) ==
    IF ~Is6(p) THEN <<replaceTunAddrChange(p)>>
    ELSE IF p \in PrefixesOf(current)
      THEN planExistingIPv6AddrAddition(EntryOf(current, p), p)
      ELSE exchangeTunAddr(current, p)

----------------------------------------------------------------------------
(* Requests, one at a time.                                                *)

Masked(p) ==
    IF Is6(p) THEN p
    ELSE LET size == 2^(Width - p.bits)
         IN [ip |-> (p.ip \div size) * size, bits |-> p.bits]

\* The kernel keeps a route to the subnet of an address that is not alone in
\* it: it comes with the address and goes with the last one of the subnet.
Connected(table) ==
    {Masked(p) : p \in {q \in PrefixesOf(table) :
         q.bits < IF Is6(q) THEN Max(Bits6) ELSE Width}}

Become(table) ==
    /\ addrs' = table
    /\ routes' = (routes \ (Connected(addrs) \ Connected(table)))
                 \cup (Connected(table) \ Connected(addrs))

Idle == [pc |-> "idle", kind |-> "set", todo |-> <<>>, wanted |-> <<>>,
         before |-> <<>>, oldRoutes |-> {}, clean |-> TRUE,
         faults |-> MaxFaults, spare |-> MaxFaults]

\* What the link is read back as.
GetTunAddrs(table) == [i \in DOMAIN table |-> tunAddrPrefix(table[i])]

\* setTunAddrPrefixes up to its first request: a list with one address in two
\* lengths is refused.
setTunAddrPrefixes(prefixes, j, refused) ==
    LET desired == normalizeTunAddrPrefixSet(prefixes)
    IN IF desired.ok
         THEN [j EXCEPT !.wanted = desired.list,
                  !.todo = planTunAddrReconciliation(addrs, desired.list)]
         ELSE refused

\* An update of the default TUN fails with this many faults to come, and
\* restoreDefaultTunLinkLocked begins: SetTunAddrs of the addresses read
\* before the update.  SetTunRoutes of the routes follows whatever that
\* returns, and is all there is to do when only routes were to change.  A
\* regular TUN stays as the failed call left it.
Undone(j, faults) ==
    LET first  == [j EXCEPT !.faults = faults, !.spare = faults]
        second == [j EXCEPT !.pc = "back routes", !.faults = faults]
    IN IF j.pc = "addrs" THEN [first EXCEPT !.pc = "failed"]
       ELSE IF j.pc = "back addrs" THEN [second EXCEPT !.clean = FALSE]
       ELSE IF j.kind = "routes" THEN [first EXCEPT !.pc = "back routes"]
       ELSE setTunAddrPrefixes(GetTunAddrs(j.before),
                [first EXCEPT !.pc = "back addrs"],
                [first EXCEPT !.pc = "back routes", !.clean = FALSE])

Begin(pc, kind) == [Idle EXCEPT !.pc = pc, !.kind = kind, !.before = addrs,
                                !.oldRoutes = routes]

Resting == job = Idle /\ UNCHANGED <<addrs, routes, promote, known>>

Refusal == [Idle EXCEPT !.pc = "refused"]

\* System.SetTunAddrs of a regular TUN.
SetTunAddrs(prefixes) ==
    Resting /\ job' = setTunAddrPrefixes(prefixes, Begin("addrs", "set"), Refusal)

\* System.SetTunAddrs of the default TUN, which keeps its DNS address.  A list
\* that is refused is a failed update, and the link is restored.
setDefaultTunAddrsLocked(prefixes) ==
    Resting /\ job' = setTunAddrPrefixes(prefixes, Begin("dflt addrs", "set"),
                          Undone(Begin("dflt addrs", "refused"), MaxFaults))

addTunAddrPrefix(p, j) ==
    job' = [j EXCEPT !.wanted = <<p>>, !.todo = planTunAddrAddition(addrs, p)]

\* System.AddTunAddr of a regular TUN.
AddTunAddr(p) == Resting /\ addTunAddrPrefix(p, Begin("addrs", "add"))

\* System.AddTunAddr of the default TUN: an address that System knows of is
\* taken to be there.
addDefaultTunAddrLocked(p) ==
    /\ Resting
    /\ IF p \in known THEN job' = [Begin("known", "add") EXCEPT !.wanted = <<p>>]
       ELSE addTunAddrPrefix(p, Begin("dflt addrs", "add"))

\* System.SetTunRoutes and AddTunRoute of the default TUN
\* (setDefaultTunRoutesLocked): its routes are kept in the routing manager's
\* table and the link has none in the main table.
setDefaultTunRoutesLocked == Resting /\ job' = Begin("dflt routes", "routes")

Undo(faults) == job' = Undone(job, faults)

InAddrs == job.pc \in {"addrs", "dflt addrs", "back addrs"}

\* applyTunAddrChanges: the next request.  A deletion fails when the entry has
\* gone.
applyTunAddrChange ==
    /\ InAddrs /\ job.todo # <<>>
    /\ LET c == Head(job.todo)
           gone == c.kind = "delete" /\ c.prefix \notin PrefixesOf(addrs)
       IN \/ /\ ~gone
             /\ Become(IF c.kind = "replace" THEN KernelReplace(addrs, c.prefix)
                       ELSE KernelDelete(addrs, c.prefix))
             /\ job' = [job EXCEPT !.todo = Tail(@)]
          \/ /\ gone
             /\ Undo(job.faults)
             /\ UNCHANGED <<addrs, routes>>
          \/ /\ ~gone /\ job.faults > 0
             /\ Undo(job.faults - 1)
             /\ UNCHANGED <<addrs, routes>>
    /\ UNCHANGED <<promote, known>>

\* Mutant: the addresses are not read back.
MutVerified(desired) == TRUE

Verified(desired) ==
    \A p \in ToSet(desired) :
        /\ p \in PrefixesOf(addrs)
        /\ Is6(p) => LET e == EntryOf(addrs, p) IN e.nodad /\ ~e.unusable

\* The read after the last request, which may fail as well.
verifyTunAddrPrefixes ==
    /\ InAddrs /\ job.todo = <<>>
    /\ \/ /\ Verified(job.wanted)
          /\ job' = [job EXCEPT !.pc = CASE @ = "addrs" -> "ok"
                                         [] @ = "dflt addrs" -> "dflt routes"
                                         [] OTHER -> "back routes"]
       \/ ~Verified(job.wanted) /\ Undo(job.faults)
       \/ Verified(job.wanted) /\ job.faults > 0 /\ Undo(job.faults - 1)
    /\ UNCHANGED <<addrs, routes, promote, known>>

\* SetTunRoutes(nil) of a default TUN's link deletes its main-table routes.
DeleteRoute ==
    /\ job.pc = "dflt routes"
    /\ \/ \E r \in routes : routes' = routes \ {r} /\ UNCHANGED job
       \/ routes = {} /\ job' = [job EXCEPT !.pc = "apply"] /\ UNCHANGED routes
       \/ job.faults > 0 /\ Undo(job.faults - 1) /\ UNCHANGED routes
    /\ UNCHANGED <<addrs, promote, known>>

\* routingManager.Apply of the new families; when it fails, the link is put
\* back as well.
ApplyFamilies ==
    /\ job.pc = "apply"
    /\ \/ /\ job' = [job EXCEPT !.pc = "applied"]
          /\ known' = CASE job.kind = "set" -> ToSet(job.wanted)
                       [] job.kind = "add" -> known \cup ToSet(job.wanted)
                       [] job.kind = "routes" -> known
       \/ job.faults > 0 /\ Undo(job.faults - 1) /\ UNCHANGED known
    /\ UNCHANGED <<addrs, routes, promote>>

\* Mutant: the routes are added to what the link has.
MutRestoreRoutes ==
    /\ job.pc = "back routes"
    /\ routes' = routes \cup job.oldRoutes
    /\ job' = [job EXCEPT !.pc = "restored"]
    /\ UNCHANGED <<addrs, promote, known>>

\* SetTunRoutes of the routes read before the update: delete all, then
\* replace each, up to a request that fails.
RestoreRoutes ==
    /\ job.pc = "back routes"
    /\ \/ /\ routes' = job.oldRoutes
          /\ job' = [job EXCEPT !.pc = "restored"]
       \/ /\ job.faults > 0
          /\ routes' \in (SUBSET routes) \cup (SUBSET job.oldRoutes)
          /\ job' = [job EXCEPT !.pc = "restored", !.clean = FALSE,
                                !.faults = @ - 1]
    /\ UNCHANGED <<addrs, promote, known>>

\* The kernel ends the detection of a tentative address, while the update
\* has something left to do.
DetectionEnds ==
    /\ job.pc \notin {"idle", "ok", "applied", "known", "failed",
                     "restored", "refused"}
    /\ \E i \in DOMAIN addrs :
           /\ addrs[i].unusable /\ ~addrs[i].nodad
           /\ addrs' = [addrs EXCEPT ![i].unusable = FALSE]
    /\ UNCHANGED <<routes, promote, known, job>>

----------------------------------------------------------------------------
(* Tables the kernel can hold: IPv4 entries in the order of their          *)
(* creation, then at most one entry for each IPv6 address.                 *)

Distinct(S, k) == {s \in SeqOf(S, k) : IsInjective(s)}

\* Without detection an address is usable.
V6Entries == {e \in [prefix : {p \in Prefix : Is6(p)}, nodad : BOOLEAN,
                     unusable : BOOLEAN] : ~(e.nodad /\ e.unusable)}

Tables ==
    {[i \in DOMAIN four |-> Entry(four[i], FALSE, FALSE)] \o six :
         four \in Distinct({p \in Prefix : ~Is6(p)}, MaxTable),
         six \in {s \in SeqOf(V6Entries, Cardinality(V6)) :
                      IsInjective([i \in DOMAIN s |-> s[i].prefix.ip])}}

Wanted == Distinct(Prefix, MaxWanted)

\* IPv6 prefixes whose address the link has in another length.
Replaced(table) ==
    {p \in Prefix : Is6(p) /\ p \notin PrefixesOf(table)
                    /\ SameAddress(table, p) # <<>>}

\* A link has the routes of its subnets, or has lost them to SetTunRoutes.  An
\* IPv6 address that was added in a second length is known in both.
LinkInit ==
    /\ addrs \in Tables
    /\ routes \in {{}, Connected(addrs)}
    /\ \E set \in SUBSET Replaced(addrs) : known = PrefixesOf(addrs) \cup set
    /\ promote \in BOOLEAN
    /\ job = Idle

\* The routes and what System knows play no part in the updates of a regular
\* TUN, which are looked at in one case of both.
LinkNext ==
    \/ /\ routes = Connected(addrs) /\ known = PrefixesOf(addrs)
       /\ \/ \E prefixes \in Wanted : SetTunAddrs(prefixes)
          \/ \E p \in Prefix : AddTunAddr(p)
    \/ \E prefixes \in Wanted : setDefaultTunAddrsLocked(prefixes)
    \/ \E p \in Prefix : addDefaultTunAddrLocked(p)
    \/ setDefaultTunRoutesLocked
    \/ applyTunAddrChange \/ verifyTunAddrPrefixes
    \/ DeleteRoute \/ ApplyFamilies \/ RestoreRoutes
    \/ DetectionEnds

----------------------------------------------------------------------------
\* What the link has to have at the end of an update that succeeds.
Target ==
    LET wanted == ToSet(job.wanted)
    IN IF job.kind = "set" THEN wanted
       ELSE wanted \cup {p \in PrefixesOf(job.before) :
                             ~(Is6(p) /\ \E q \in wanted : p.ip = q.ip)}

\* Addresses that are to stay: there before, asked for, and usable.
Kept ==
    {p \in PrefixesOf(job.before) \cap Target :
         ~EntryOf(job.before, p).unusable}

(***************************************************************************)
(* SetTunAddrs and AddTunAddr.  When one reports success the link has      *)
(* exactly the addresses it should have, the IPv6 ones asked for with      *)
(* detection off and usable, and a default TUN's link no main-table route. *)
(* On a link that promotes secondary addresses no request of the update    *)
(* takes away an address that is to stay, so that an update cut short      *)
(* leaves it in place, and without a failing request the update succeeds   *)
(* unless its list is refused.                                             *)
(* On other links such an address may go with its primary one, and then    *)
(* success is not reported.  What System knows of a default TUN's link is  *)
(* what it has, but for an IPv6 address that has been given another length *)
(* (addDefaultTunAddrLocked then takes the first length to be there).      *)
(***************************************************************************)
AddrsReconciled ==
    /\ job.pc \in {"applied", "known"} =>
          /\ PrefixesOf(addrs) \subseteq known
          /\ known \subseteq PrefixesOf(addrs) \cup Replaced(addrs)
    /\ job.pc \in {"ok", "applied"} /\ job.kind # "routes" =>
          /\ PrefixesOf(addrs) = Target
          /\ \A p \in ToSet(job.wanted) : Is6(p) =>
                 EntryOf(addrs, p).nodad /\ ~EntryOf(addrs, p).unusable
    /\ job.pc = "apply" => routes = {}
    /\ promote /\ job.pc \in {"addrs", "dflt addrs", "dflt routes", "failed"} =>
          Kept \subseteq PrefixesOf(addrs)
    /\ promote /\ job.faults = MaxFaults /\ job.kind # "refused" =>
          job.pc \notin {"failed", "back addrs", "back routes", "restored"}

(***************************************************************************)
(* restoreDefaultTunLinkLocked.  An update of the default TUN that stops   *)
(* at any request, or whose list is refused, is undone: the addresses and  *)
(* the routes are those before it, on a link that promotes secondary       *)
(* addresses and had no address in two lengths (AddTunAddr can give it     *)
(* one; what is read back is then refused).  The restore deletes every     *)
(* route before it adds the old ones, for a refused list as well, so that  *)
(* it needs all of its own requests to succeed; if they do it reports no   *)
(* error.                                                                  *)
(***************************************************************************)
LinkRestored ==
    /\ promote /\ normalizeTunAddrPrefixSet(GetTunAddrs(job.before)).ok
    /\ job.pc = "restored"
    /\ job.faults = job.spare
    => /\ job.clean
       /\ PrefixesOf(addrs) = PrefixesOf(job.before)
       /\ routes = job.oldRoutes
=============================================================================
