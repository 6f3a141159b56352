----------------------------- MODULE SystemState ----------------------------
(***************************************************************************)
(* The state of a System, which System's steps change and SystemOwnership  *)
(* states the invariants of: the objects the program has opened, the TUNs  *)
(* in the System's lists, the mutexes and what each goroutine does.        *)
(***************************************************************************)
CONSTANTS
    Proc,        \* goroutines of the caller
    Nobody,      \* the holder of a free mutex
    Tun,         \* regular TUNs, each built once
    Default      \* the default TUN, built once

ASSUME SystemAssumption ==
    /\ Nobody \notin Proc
    /\ Default \notin Tun
    /\ {"defaultTunMu", "mu", "dnsNet", "routing", "dns", "daemon", "fwmark",
        "killswitch", "connmark", "outNet", "localNet"}
       \cap (Tun \cup {Default}) = {}

VARIABLES
    env,      \* what the caller asks for and the process may do
    s,        \* features, components and failures of the System
    phase,    \* the step of the constructor, and how it has ended
    life,     \* whether each object the program opens is open
    closed,   \* System.closed
    owned,    \* the TUNs in System.tuns, and Default when it is active
    attached, \* TUNs whose state holds a native TUN
    issued,   \* TUNs the callers have been given
    lock,     \* the holder of each mutex
    proc,     \* what each goroutine does
    budget    \* calls and failures left

vars == <<env, s, phase, life, closed, owned, attached, issued, lock, proc,
          budget>>

Handle == Tun \cup {Default}

Component == {"dnsNet", "routing", "dns", "daemon", "fwmark", "killswitch",
              "connmark", "outNet", "localNet"}

Lock == {"defaultTunMu", "mu"} \cup Handle

NoCall == [op |-> "none", pc |-> "idle", t |-> Default, todo |-> {}]

\* The native TUN of a handle has the handle's name.
Object == Component \cup Handle

HeldBy(p) == {l \in Lock : lock[l] = p}

\* The closers New hands over.
extraClosers == {"dnsNet"} \cup
                (IF s.dep["pmark"] = "works" THEN {"daemon", "fwmark"} ELSE {})
=============================================================================
