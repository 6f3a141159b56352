------------------------------- MODULE Subnet -------------------------------
(***************************************************************************)
(* The filters that keep allocated addresses and subnets away from the     *)
(* networks of the host (package subnet), and an application that puts     *)
(* what it was given on its TUNs while other interfaces come and go.       *)
(*                                                                         *)
(* An address is a number of SubnetWidth bits in one of the two families.  *)
(* A network is its first address with a prefix length, as normalizeIPNet  *)
(* leaves it.  The candidates are those of gonnect's allocator, in any     *)
(* order.                                                                  *)
(***************************************************************************)
EXTENDS Integers, FiniteSets

CONSTANTS
    IPFamily,    \* address families
    SubnetWidth, \* bits of an address
    Broad,       \* prefix length below which a network is too broad to count
    MaxLocal     \* addresses of interfaces

ASSUME SubnetAssumption ==
    SubnetWidth \in Nat /\ Broad \in 0..SubnetWidth /\ MaxLocal \in Nat

VARIABLES
    local, \* addresses of the interfaces, with their prefix lengths
    tuns,  \* those of them that are of TUNs with subnets of the allocator
    given  \* a subnet that was given out and is not configured yet

subnetVars == <<local, tuns, given>>

NothingGiven == [network |-> {}, enumerated |-> TRUE]

HostIP == [family : IPFamily, n : 0..(2^SubnetWidth - 1)]

IfAddr == [ip : HostIP, bits : 0..SubnetWidth]

Mask(ip, bits) ==
    [ip EXCEPT !.n = @ - (@ % 2^(SubnetWidth - bits))]

\* The network of an interface address, or of a candidate.
normalizeIPNet(ip, bits) == [ip |-> Mask(ip, bits), bits |-> bits]

Network == {normalizeIPNet(a.ip, a.bits) : a \in IfAddr}

\* net.IPNet.Contains, which tells the families apart.
ContainsIP(network, ip) == Mask(ip, network.bits) = network.ip

sameSubnet(a, b) == a = b

\* Mutant: a candidate inside a network of the host is not seen.
MutOverlap(a, b) == a.ip.family = b.ip.family /\ ContainsIP(a, b.ip)

overlap(a, b) ==
    a.ip.family = b.ip.family /\ (ContainsIP(a, b.ip) \/ ContainsIP(b, a.ip))

ignoredBroadOverlapNetwork(network) == network.bits < Broad

newSystemNetworks(addrs) ==
    [ips      |-> {a.ip : a \in addrs},
     networks |-> {normalizeIPNet(a.ip, a.bits) : a \in addrs}]

usesIP(system, ip) == ip \in system.ips

usesSubnet(system, candidate) ==
    \/ \E ip \in system.ips : ContainsIP(candidate, ip)
    \/ \E network \in system.networks :
           \/ sameSubnet(candidate, network)
           \/ ~ignoredBroadOverlapNetwork(network) /\ overlap(candidate, network)

----------------------------------------------------------------------------
\* The dynamic filters enumerate the interfaces for each candidate; without an
\* enumeration only the filter of the caller decides.
wrapDynamicSubnetFilter(candidate, enumerated) ==
    ~(enumerated /\ usesSubnet(newSystemNetworks(local), candidate))

wrapDynamicIPFilter(ip, enumerated) ==
    ~(enumerated /\ usesIP(newSystemNetworks(local), ip))

\* A subnet passes, and is remembered until it is configured; the filter of the
\* caller may refuse any other.
AllocSubnet(candidate) ==
    /\ \E enumerated \in BOOLEAN :
           /\ wrapDynamicSubnetFilter(candidate, enumerated)
           /\ given' = [network |-> {candidate}, enumerated |-> enumerated]
    /\ UNCHANGED <<local, tuns>>

\* An address passes, and is put on an interface as that of one host.
AllocIP(ip) ==
    /\ Cardinality(local) < MaxLocal
    /\ \E enumerated \in BOOLEAN : wrapDynamicIPFilter(ip, enumerated)
    /\ local' = local \cup {[ip |-> ip, bits |-> SubnetWidth]}
    /\ UNCHANGED <<tuns, given>>

\* An address of the subnet that was given is put on a TUN.
Configure ==
    /\ \E network \in given.network, a \in IfAddr :
           /\ a \notin local /\ Cardinality(local) < MaxLocal
           /\ a.bits = network.bits /\ ContainsIP(network, a.ip)
           /\ local' = local \cup {a}
           /\ tuns' = IF given.enumerated THEN tuns \cup {a} ELSE tuns
    /\ given' = NothingGiven

\* Another interface gets an address, or any address goes.
Interface ==
    /\ \/ /\ Cardinality(local) < MaxLocal
          /\ \E a \in IfAddr \ local : local' = local \cup {a}
          /\ UNCHANGED tuns
       \/ \E a \in local : local' = local \ {a} /\ tuns' = tuns \ {a}
    /\ UNCHANGED given

SubnetInit ==
    /\ local \in {{}} \cup {{a} : a \in IfAddr}
    /\ tuns = {} /\ given = NothingGiven

SubnetNext ==
    \/ \E candidate \in Network : AllocSubnet(candidate)
    \/ \E ip \in HostIP : AllocIP(ip)
    \/ Configure \/ Interface

SubnetSpec == SubnetInit /\ [][SubnetNext]_subnetVars
----------------------------------------------------------------------------
Addresses(network) ==
    {ip \in HostIP :
        /\ ip.family = network.ip.family
        /\ ip.n \in network.ip.n..(network.ip.n +
                                     2^(SubnetWidth - network.bits) - 1)}

NetworkOf(a) == normalizeIPNet(a.ip, a.bits)

\* The filters compare first addresses under masks.  They refuse exactly the
\* subnets that hold an address of the host, that are a network of the host, or
\* that share an address with one that is not too broad, and TUNs that were
\* given their subnets one after the other share no address, whatever other
\* interfaces do in between (usesSubnet, wrapDynamicSubnetFilter).
KeptApart ==
    /\ \A candidate \in Network :
           usesSubnet(newSystemNetworks(local), candidate) <=>
               \E a \in local :
                   \/ a.ip \in Addresses(candidate)
                   \/ candidate = NetworkOf(a)
                   \/ /\ a.bits >= Broad
                      /\ Addresses(candidate) \cap Addresses(NetworkOf(a)) # {}
    /\ \A a, b \in tuns :
           a # b /\ a.bits >= Broad /\ b.bits >= Broad =>
               Addresses(NetworkOf(a)) \cap Addresses(NetworkOf(b)) = {}
=============================================================================
