---------------------------- MODULE SystemProofs ----------------------------
(***************************************************************************)
(* Proofs about System for any number of goroutines, TUNs and calls.       *)
(*                                                                         *)
(* NoWaitCycle: the mutexes a goroutine may hold at a step all come before *)
(* the mutex it waits for there in the order defaultTunMu, mu, state of a  *)
(* TUN, and a chain of goroutines that wait for one another climbs that    *)
(* order.                                                                  *)
(*                                                                         *)
(* NothingOpen and UsedOpen: the constructor establishes that everything   *)
(* that is open has one owner, which will close it, and the operations     *)
(* keep it so (SystemSteps, SystemOwners).                                 *)
(***************************************************************************)
EXTENDS SystemSteps, SystemOwners

----------------------------------------------------------------------------
(* Chains of goroutines that wait for one another.                         *)

\* The order of the mutexes.
Rank(l) == IF l = "defaultTunMu" THEN 1 ELSE IF l = "mu" THEN 2 ELSE 3

\* A goroutine holds only mutexes that come before the one it waits for.
LEMMA Ordered ==
    ASSUME LInv, NEW p \in Proc, NEW w \in Waits(p), NEW l \in Lock, lock[l] = p
    PROVE  w \in Lock /\ Rank(l) < Rank(w)
<1>1. l \in MayHold(proc[p].pc, proc[p].t)
  BY DEF LInv
<1>2. proc[p].t \in Handle /\ Default \in Handle /\ owned \subseteq Handle
      /\ proc[p].pc \in PC
  BY DEF LInv, ProcType, Handle
<1>3. \A h \in Handle : h \in Lock /\ h # "defaultTunMu" /\ h # "mu"
  BY SystemAssumption DEF Handle, Lock
<1>4. "mu" \in Lock /\ "defaultTunMu" \in Lock
  BY DEF Lock
<1>5. CASE proc[p].pc = "mu" \/ proc[p].pc = "drop"
  BY <1>1, <1>4, <1>5 DEF MayHold, Waits, Rank
<1>6. CASE proc[p].pc \in {"configure", "closeActive"}
  BY <1>1, <1>2, <1>3, <1>4, <1>6 DEF MayHold, Waits, Rank
<1>7. CASE proc[p].pc \in {"state", "states"}
  BY <1>1, <1>2, <1>3, <1>7 DEF MayHold, Waits, Rank
<1>8. CASE proc[p].pc \in {"use", "rollback", "tuns"}
  BY <1>8 DEF Waits, CheckWaits
<1>9. CASE proc[p].pc \in {"idle", "check", "create", "publish", "defaultTunMu",
                          "io", "closeNative", "components"}
  BY <1>1, <1>9 DEF MayHold
<1> QED
  BY <1>2, <1>5, <1>6, <1>7, <1>8, <1>9 DEF PC

\* A goroutine waits for mutexes, each of which has one of three ranks.
LEMMA WaitsType ==
    ASSUME LInv, NEW p \in Proc
    PROVE  Waits(p) \subseteq Lock /\ \A w \in Waits(p) : Rank(w) \in 1..3
<1>1. proc[p].t \in Handle /\ Default \in Handle /\ owned \subseteq Handle
  BY DEF LInv, ProcType, Handle
<1>2. Waits(p) \subseteq Lock
  BY <1>1 DEF Waits, CheckWaits, Lock
<1> QED
  BY <1>2 DEF Rank

\* Four goroutines that wait one for the next would need four ranks.
LEMMA NoCycle == ASSUME LInv PROVE NoWaitCycle
<1> SUFFICES ASSUME NEW set \in SUBSET Proc, set # {},
                    \A p \in set : \E l \in Waits(p) : lock[l] \in set
             PROVE  FALSE
  BY DEF NoWaitCycle
<1> DEFINE Blocked(n) == \E p \in set : \E w \in Waits(p) :
                             w \in Lock /\ lock[w] \in set /\ n <= Rank(w)
<1>1. Blocked(1)
  <2>1. PICK p \in set : TRUE
    OBVIOUS
  <2>2. PICK w \in Waits(p) : lock[w] \in set
    OBVIOUS
  <2>3. w \in Lock /\ Rank(w) \in 1..3
    BY WaitsType
  <2>4. 1 <= Rank(w)
    BY <2>3
  <2> QED
    BY <2>2, <2>3, <2>4
<1>2. ASSUME NEW n \in 1..3, Blocked(n) PROVE Blocked(n + 1)
  <2>0. PICK p \in set : \E w \in Waits(p) :
            w \in Lock /\ lock[w] \in set /\ n <= Rank(w)
    BY <1>2
  <2>1. PICK w \in Waits(p) : w \in Lock /\ lock[w] \in set /\ n <= Rank(w)
    BY <2>0
  <2>2. PICK v \in Waits(lock[w]) : lock[v] \in set
    BY <2>1
  <2>3. lock[w] \in Proc
    BY <2>1
  <2>4. v \in Lock /\ Rank(w) < Rank(v)
    BY <2>1, <2>2, <2>3, Ordered
  <2>5. Rank(w) \in 1..3 /\ Rank(v) \in 1..3
    BY <2>1, <2>2, <2>3, WaitsType
  <2>6. n + 1 <= Rank(v)
    BY <2>1, <2>4, <2>5
  <2> QED
    BY <2>1, <2>2, <2>4, <2>6
<1>3. Blocked(4)
  <2>1. Blocked(2)
    BY <1>1, <1>2, 1 + 1 = 2, 1 \in 1..3
  <2>2. Blocked(3)
    BY <2>1, <1>2, 2 + 1 = 3, 2 \in 1..3
  <2> QED
    BY <2>2, <1>2, 3 + 1 = 4, 3 \in 1..3
<1>4. PICK p \in set : \E w \in Waits(p) : 4 <= Rank(w)
  BY <1>3
<1>5. \A w \in Waits(p) : Rank(w) \in 1..3
  BY WaitsType
<1> QED
  BY <1>4, <1>5

\* The goroutines of any number of callers, with any number of TUNs, never wait
\* for one another's mutexes in a circle (defaultTunMu, mu and the mutexes of
\* TUN states in sysnet.go, default_tun.go and capabilities.go).
THEOREM NoWaitCycleHolds == Spec => []NoWaitCycle
<1>1. Init => LInv /\ IssuedType
  BY LInvInit DEF Init, IssuedType
<1>2. LInv /\ IssuedType /\ [Next]_vars => (LInv /\ IssuedType)'
  BY LInvNext
<1>3. LInv => NoWaitCycle
  BY NoCycle
<1> QED
  BY <1>1, <1>2, <1>3, PTL DEF Spec

----------------------------------------------------------------------------
(* The constructor, which runs alone.                                      *)

\* The components that no step of the constructor up to a phase makes.
Later(ph) ==
    IF ph \in {"tun", "routing", "inject"} THEN Component
    ELSE IF ph = "dns" THEN Component \ {"routing"}
    ELSE IF ph = "pmark" THEN Component \ {"routing", "dns", "dnsNet"}
    ELSE IF ph = "system" THEN {"killswitch", "connmark"} \cup Nets
    ELSE {}

SType == s \in [features : SUBSET Feature, dep : [Dependency -> Presence],
                failures : [Group -> SUBSET Reason]]

\* While the constructor runs there is nothing for a goroutine to do.
NewInv ==
    /\ phase \in {"tun", "routing", "inject", "dns", "pmark", "system", "open", "failed"}
    /\ SType
    /\ phase \in {"tun", "routing", "dns", "pmark"} => s.dep["pmark"] # "works"
    /\ phase # "open" => Resting

MadeInv ==
    /\ \A o \in Later(phase) : life[o] = "none"
    /\ phase \in {"pmark", "system"} => life["dnsNet"] = "open"
    /\ phase = "system" /\ s.dep["pmark"] = "works" =>
           life["daemon"] = "open" /\ life["fwmark"] = "open"
    /\ phase = "failed" => \A o \in Component : life[o] # "open"

\* The inductive invariant of the second part.
OwnerInv ==
    /\ CallInv /\ HandleInv /\ BuildInv /\ CloserInv /\ UseInv
    /\ LifeType /\ NewInv /\ MadeInv /\ ComponentInv

\* What the invariants say of goroutines holds of a System none has called.
LEMMA RestingInv == Resting => CallInv /\ HandleInv /\ BuildInv /\ CloserInv /\ UseInv
<1> SUFFICES ASSUME Resting PROVE CallInv /\ HandleInv /\ BuildInv /\ CloserInv /\ UseInv
  OBVIOUS
<1>1. \A p \in Proc : proc[p] = NoCall
  BY DEF Resting
<1>2. OpenTuns = {}
  BY DEF OpenTuns, Resting
<1>3. NoCall.pc = "idle" /\ NoCall.op = "none"
  BY DEF NoCall
<1>4. CallInv
  BY <1>1, EndedCall DEF CallInv
<1>5. HandleInv
  BY <1>1, <1>2, EndedCustody DEF HandleInv, Resting
<1>6. BuildInv
  BY <1>1, EndedBuild DEF BuildInv
<1>7. CloserInv
  BY <1>1, <1>3, EndedBuild DEF CloserInv, Resting
<1>8. UseInv
  BY <1>1, <1>3 DEF UseInv
<1> QED
  BY <1>4, <1>5, <1>6, <1>7, <1>8

\* The invariants of the components, while nothing is closed.
LEMMA MadeComponents ==
    ASSUME Resting', LifeType', \A o \in Component : life'[o] # "twice",
           s'.dep["pmark"] # "works" => life'["daemon"] # "open" /\ life'["fwmark"] # "open",
           phase' # "failed" => /\ \A o \in Component \ {"daemon", "fwmark"} : life'[o] # "closed"
                                /\ s'.dep["pmark"] = "works" => /\ life'["daemon"] # "closed"
                                                                /\ life'["fwmark"] # "closed",
           phase' = "open" => life'["outNet"] = "open" /\ life'["localNet"] = "open"
    PROVE  ComponentInv'
<1>1. Serving' /\ ~closed'
  BY DEF Serving, Resting
<1>2. /\ Kept' \subseteq Component
      /\ s'.dep["pmark"] = "works" => Component \ (Kept' \cup Nets) = {}
      /\ s'.dep["pmark"] # "works" => /\ Component \ (Kept' \cup Nets) = {"daemon", "fwmark"}
                                      /\ Kept' \cap {"daemon", "fwmark"} = {}
  BY DEF Kept, extraClosers, Component, Nets
<1>3. \A o \in Component \ (Kept' \cup Nets) : life'[o] # "open"
  BY <1>2
<1>4. phase' # "failed" => \A o \in Kept' : life'[o] # "closed"
  BY <1>2
<1>5. phase' = "open" => \A o \in Nets : life'[o] = "open"
  BY DEF Nets
<1> QED
  BY <1>1, <1>3, <1>4, <1>5, Zenon DEF ComponentInv

LEMMA RestingKept ==
    ASSUME Resting, UNCHANGED <<closed, owned, attached, proc>>,
           \A h \in Handle : life'[h] = life[h]
    PROVE  Resting'
BY DEF Resting

\* Giving up features and noting why.
LEMMA GivenUp ==
    ASSUME SType, NEW f \in SUBSET Feature, NEW g \in Group, NEW reason \in Reason,
           s' = [s EXCEPT !.features = f, !.failures[g] = {reason}]
    PROVE  SType' /\ s'.dep["pmark"] = s.dep["pmark"]
BY Zenon DEF SType

LEMMA DepSet ==
    ASSUME SType, NEW d \in Dependency, s' = [s EXCEPT !.dep[d] = "works"]
    PROVE  SType' /\ (d # "pmark" => s'.dep["pmark"] = s.dep["pmark"]) /\ s'.dep[d] = "works"
<1>1. "works" \in Presence /\ "pmark" \in Dependency
  BY DEF Presence, Dependency
<1> QED
  BY <1>1 DEF SType

LEMMA FactoryEmpty ==
    ASSUME SType, NEW f \in SUBSET Feature, NEW reason \in Reason,
           s' = [s EXCEPT !.features = f, !.dep["tunFactory"] = "empty", !.failures["tun"] = {reason}]
    PROVE  SType' /\ s'.dep["pmark"] = s.dep["pmark"]
<1>1. /\ "empty" \in Presence /\ "pmark" \in Dependency /\ "tunFactory" \in Dependency
      /\ "tun" \in Group
  BY DEF Presence, Dependency, Group
<1> QED
  BY <1>1, Zenon DEF SType

\* A constructor step that opens or closes components only.
LEMMA NewTUNStep ==
    ASSUME LifeType, NewInv, MadeInv, ComponentInv, NewTUN
    PROVE  LifeType' /\ NewInv' /\ MadeInv' /\ ComponentInv' /\ Resting'
<1>1. /\ phase = "tun" /\ phase' = "routing" /\ life' = life
      /\ UNCHANGED <<closed, owned, attached, proc>>
  BY Zenon DEF NewTUN, Running
<1>2. SType' /\ s'.dep["pmark"] = s.dep["pmark"]
  <2>1. /\ SType /\ disableTUNFeatures(s.features) \in SUBSET Feature
        /\ "permission_denied" \in Reason /\ "probe_failed" \in Reason
    BY DEF NewInv, SType, disableTUNFeatures, Reason
  <2>2. \/ s' = s
        \/ \E reason \in Reason :
               s' = [s EXCEPT !.features = disableTUNFeatures(s.features),
                              !.dep["tunFactory"] = "empty", !.failures["tun"] = {reason}]
    BY <2>1, Zenon DEF NewTUN
  <2>3. CASE s' = s
    BY <2>1, <2>3, Zenon DEF SType
  <2> QED
    BY <2>1, <2>2, <2>3, FactoryEmpty, Zenon
<1>3. Resting'
  BY <1>1, RestingKept, Zenon DEF NewInv
<1>4. NewInv'
  BY <1>1, <1>2, <1>3, Zenon DEF NewInv
<1>5. \A o \in Component : life'[o] = "none"
  BY <1>1, Zenon DEF MadeInv, Later
<1>6. MadeInv'
  BY <1>1, <1>5, Zenon DEF MadeInv, Later
<1>7. LifeType'
  BY <1>1, Zenon DEF LifeType
<1>8. ComponentInv'
  BY <1>1, <1>3, <1>5, <1>7, MadeComponents, Zenon DEF Component
<1> QED
  BY <1>3, <1>4, <1>6, <1>7, <1>8

LEMMA RoutingStep ==
    ASSUME LifeType, NewInv, MadeInv, ComponentInv, setupRoutingManager
    PROVE  LifeType' /\ NewInv' /\ MadeInv' /\ ComponentInv' /\ Resting'
<1>1. /\ phase = "routing" /\ UNCHANGED <<closed, owned, attached, proc>>
      /\ \/ phase' = "dns" /\ (life' = life \/ life' = Opened(life, "routing"))
         \/ phase' = "failed" /\ life' = life
  BY Zenon DEF setupRoutingManager, Running
<1>2. SType' /\ s'.dep["pmark"] = s.dep["pmark"]
  <2>1. /\ SType /\ disableRoutingFeatures(s.features) \in SUBSET Feature
        /\ "permission_denied" \in Reason /\ "probe_failed" \in Reason
        /\ "routing" \in Group /\ "routingManager" \in Dependency
    BY DEF NewInv, SType, disableRoutingFeatures, Reason, Group, Dependency
  <2>2. \/ s' = s
        \/ \E reason \in Reason :
               s' = [s EXCEPT !.features = disableRoutingFeatures(s.features),
                              !.failures["routing"] = {reason}]
        \/ s' = [s EXCEPT !.dep["routingManager"] = "works"]
    BY <2>1, Zenon DEF setupRoutingManager
  <2>3. CASE s' = s
    BY <2>1, <2>3, Zenon DEF SType
  <2> QED
    BY <2>1, <2>2, <2>3, GivenUp, DepSet, Zenon
<1>3. /\ LifeType' /\ life'["routing"] \in {"none", "open"}
      /\ phase' = "failed" => life'["routing"] = "none"
      /\ \A o \in Object : o # "routing" => life'[o] = life[o]
      /\ \A o \in Component : life[o] = "none"
  <2>1. "routing" \in Object /\ "routing" \in Component
    BY DEF Object, Component
  <2>2. \A o \in Component : life[o] = "none"
    BY <1>1, Zenon DEF MadeInv, Later
  <2>3. CASE life' = life
    BY <2>1, <2>2, <2>3 DEF LifeType
  <2>4. CASE life' = Opened(life, "routing") /\ phase' = "dns"
    BY <2>1, <2>2, <2>4, OpenedEffect
  <2> QED
    BY <1>1, <2>3, <2>4, Zenon
<1>4. Resting'
  BY <1>1, <1>3, Disjoint, RestingKept, Zenon DEF NewInv, Component
<1>5. NewInv'
  BY <1>1, <1>2, <1>4, Zenon DEF NewInv
<1>6. \A o \in Component \ {"routing"} : life'[o] = "none"
  BY <1>3 DEF Object
<1>7. MadeInv'
  BY <1>1, <1>3, <1>6, Zenon DEF MadeInv, Later, Component
<1>8. ComponentInv'
  BY <1>1, <1>3, <1>4, <1>6, MadeComponents, Zenon DEF Component
<1> QED
  BY <1>3, <1>4, <1>5, <1>7, <1>8

LEMMA DNSStep ==
    ASSUME LifeType, NewInv, MadeInv, ComponentInv, newDNSProvider
    PROVE  LifeType' /\ NewInv' /\ MadeInv' /\ ComponentInv' /\ Resting'
<1>1. /\ phase = "dns" /\ phase' = "pmark" /\ UNCHANGED <<closed, owned, attached, proc>>
      /\ \/ life' = Opened(life, "dnsNet")
         \/ life' = Opened(Opened(life, "dnsNet"), "dns")
  BY Zenon DEF newDNSProvider, Running
<1>2. SType' /\ s'.dep["pmark"] = s.dep["pmark"]
  <2> DEFINE rest == s.features \ {"DNSControl", "DefaultTun", "DynDefaultTun"}
  <2>1. /\ SType /\ rest \in SUBSET Feature /\ "probe_failed" \in Reason
        /\ "dns" \in Group /\ "dnsProvider" \in Dependency
    BY DEF NewInv, SType, Reason, Group, Dependency
  <2>2. \/ s' = s
        \/ s' = [s EXCEPT !.features = rest, !.failures["dns"] = {"probe_failed"}]
        \/ s' = [s EXCEPT !.dep["dnsProvider"] = "works"]
    BY <2>1, Zenon DEF newDNSProvider
  <2>3. CASE s' = s
    BY <2>1, <2>3, Zenon DEF SType
  <2> HIDE DEF rest
  <2> QED
    BY <2>1, <2>2, <2>3, GivenUp, DepSet, Zenon
<1>3. /\ \A o \in Component \ {"routing"} : life[o] = "none"
      /\ life["routing"] \in {"none", "open"}
  <2>1. \A o \in Component \ {"routing"} : life[o] = "none"
    BY <1>1 DEF MadeInv, Later
  <2>2. "routing" \in Kept /\ "routing" \in Component /\ "routing" \in Object
    BY DEF Kept, Component, Object
  <2>3. Serving
    BY <1>1 DEF NewInv, Resting, Serving
  <2>4. life["routing"] # "closed" /\ life["routing"] # "twice"
    BY <1>1, <2>2, <2>3 DEF ComponentInv
  <2> QED
    BY <2>1, <2>2, <2>4 DEF LifeType
<1>4. /\ LifeType' /\ life'["dnsNet"] = "open" /\ life'["dns"] \in {"none", "open"}
      /\ \A o \in Object : o \notin {"dnsNet", "dns"} => life'[o] = life[o]
  <2>1. "dnsNet" \in Object /\ "dns" \in Object /\ life["dns"] = "none"
    BY <1>3 DEF Object, Component
  <2> QED
    BY <1>1, <2>1 DEF LifeType, Opened
<1>5. Resting'
  BY <1>1, <1>4, Disjoint, RestingKept DEF NewInv, Component
<1>6. NewInv'
  BY <1>1, <1>2, <1>5 DEF NewInv
<1>7. \A o \in Component \ {"routing", "dns", "dnsNet"} : life'[o] = "none"
  BY <1>3, <1>4 DEF Object
<1>8. life'["routing"] \in {"none", "open"}
  BY <1>3, <1>4 DEF Object, Component
<1>9. MadeInv'
  BY <1>1, <1>4, <1>7 DEF MadeInv, Later
<1>10. ComponentInv'
  BY <1>1, <1>4, <1>5, <1>7, <1>8, MadeComponents DEF Component
<1> QED
  BY <1>4, <1>5, <1>6, <1>9, <1>10

\* What is there when newPmark and newSystem run: nothing they make, and what
\* the steps before them made is not closed.
LEMMA MadeSoFar ==
    ASSUME LifeType, NewInv, MadeInv, ComponentInv, phase \in {"pmark", "system"}
    PROVE  /\ life["dnsNet"] = "open"
           /\ life["routing"] \in {"none", "open"} /\ life["dns"] \in {"none", "open"}
           /\ \A o \in {"killswitch", "connmark"} \cup Nets : life[o] = "none"
           /\ phase = "pmark" => life["daemon"] = "none" /\ life["fwmark"] = "none"
           /\ s.dep["pmark"] # "works" => /\ life["daemon"] \in {"none", "closed"}
                                          /\ life["fwmark"] \in {"none", "closed"}
<1>1. "routing" \in Kept /\ "dns" \in Kept /\ {"routing", "dns", "daemon", "fwmark"} \subseteq Component
  BY DEF Kept, Component
<1>2. Component \subseteq Object
  BY DEF Object
<1>3. Serving
  BY Zenon DEF NewInv, Resting, Serving
<1>4. /\ \A o \in Component : life[o] # "twice"
      /\ \A o \in Kept : life[o] # "closed"
      /\ \A o \in Component \ (Kept \cup Nets) : life[o] # "open"
  BY <1>3, Zenon DEF ComponentInv
<1>5. \A o \in Component : life[o] \in {"none", "open", "closed", "twice"}
  BY <1>2 DEF LifeType
<1>6. life["routing"] \in {"none", "open"} /\ life["dns"] \in {"none", "open"}
  BY <1>1, <1>4, <1>5
<1>7. \A o \in {"killswitch", "connmark"} \cup Nets : life[o] = "none"
  BY DEF MadeInv, Later, Component, Nets
<1>8. phase = "pmark" => life["daemon"] = "none" /\ life["fwmark"] = "none"
  BY DEF MadeInv, Later, Component
<1>9. ASSUME s.dep["pmark"] # "works"
      PROVE  life["daemon"] \in {"none", "closed"} /\ life["fwmark"] \in {"none", "closed"}
  <2>1. "daemon" \notin Kept \cup Nets /\ "fwmark" \notin Kept \cup Nets
    BY <1>9 DEF Kept, Nets, extraClosers
  <2> QED
    BY <1>1, <1>4, <1>5, <2>1
<1>10. life["dnsNet"] = "open"
  BY Zenon DEF MadeInv
<1> QED
  BY <1>6, <1>7, <1>8, <1>9, <1>10, Zenon

LEMMA PmarkStep ==
    ASSUME LifeType, NewInv, MadeInv, ComponentInv, newPmark
    PROVE  LifeType' /\ NewInv' /\ MadeInv' /\ ComponentInv' /\ Resting'
<1> DEFINE both == Opened(Opened(life, "daemon"), "fwmark")
           works == s'.dep["pmark"] = "works"
<1>1. /\ phase = "pmark" /\ phase' = "system" /\ UNCHANGED <<closed, owned, attached, proc>>
      /\ s.dep["pmark"] # "works"
  BY Zenon DEF newPmark, Running, NewInv
<1>2. /\ SType'
      /\ \/ works /\ life' = both
         \/ ~works /\ life' = life
         \/ ~works /\ life' = Shut(Opened(life, "daemon"), {"daemon"})
         \/ ~works /\ life' = Shut(both, {"daemon", "fwmark"})
  <2> DEFINE rest == s.features \ {"Pmark", "TunRules"}
             Off == life' = life \/ life' = Shut(Opened(life, "daemon"), {"daemon"})
                     \/ life' = Shut(both, {"daemon", "fwmark"})
  <2>1. /\ SType /\ rest \in SUBSET Feature /\ "probe_failed" \in Reason
        /\ "disabled_by_config" \in Reason
        /\ "pmark" \in Group /\ "pmark" \in Dependency
    BY DEF NewInv, SType, Reason, Group, Dependency
  <2>2. \/ s' = s /\ life' = life
        \/ \E reason \in Reason :
               Off /\ s' = [s EXCEPT !.features = rest, !.failures["pmark"] = {reason}]
        \/ life' = both /\ s' = [s EXCEPT !.dep["pmark"] = "works"]
    BY <2>1, Zenon DEF newPmark
  <2>3. CASE s' = s /\ life' = life
    BY <1>1, <2>1, <2>3, Zenon DEF SType
  <2> HIDE DEF rest, both
  <2>4. ASSUME NEW reason \in Reason,
               Off, s' = [s EXCEPT !.features = rest, !.failures["pmark"] = {reason}]
        PROVE  SType' /\ ~works
    BY <1>1, <2>1, <2>4, GivenUp, Zenon
  <2>5. CASE life' = both /\ s' = [s EXCEPT !.dep["pmark"] = "works"]
    BY <2>1, <2>5, DepSet, Zenon
  <2> QED
    BY <2>2, <2>3, <2>4, <2>5, Zenon
<1>3. /\ life["dnsNet"] = "open"
      /\ life["routing"] \in {"none", "open"} /\ life["dns"] \in {"none", "open"}
      /\ \A o \in {"killswitch", "connmark"} \cup Nets : life[o] = "none"
      /\ life["daemon"] = "none" /\ life["fwmark"] = "none"
  BY <1>1, MadeSoFar, Zenon
<1>4. /\ LifeType' /\ \A o \in Object : o \notin {"daemon", "fwmark"} => life'[o] = life[o]
      /\ works => life'["daemon"] = "open" /\ life'["fwmark"] = "open"
      /\ ~works => /\ life'["daemon"] \in {"none", "closed"}
                   /\ life'["fwmark"] \in {"none", "closed"}
  <2>1. "daemon" \in Object /\ "fwmark" \in Object
    BY DEF Object, Component
  <2>2. CASE works /\ life' = both
    BY <2>1, <2>2 DEF LifeType, Opened
  <2>3. CASE ~works /\ life' = life
    BY <1>3, <2>1, <2>3 DEF LifeType
  <2>4. CASE ~works /\ life' = Shut(Opened(life, "daemon"), {"daemon"})
    BY <1>3, <2>1, <2>4 DEF LifeType, Opened, Shut
  <2>5. CASE ~works /\ life' = Shut(both, {"daemon", "fwmark"})
    BY <1>3, <2>1, <2>5 DEF LifeType, Opened, Shut
  <2> QED
    BY <1>2, <2>2, <2>3, <2>4, <2>5, Zenon
<1> HIDE DEF both
<1>5. Resting'
  BY <1>1, <1>4, Disjoint, RestingKept DEF NewInv, Component
<1>6. NewInv'
  BY <1>1, <1>2, <1>5, Zenon DEF NewInv
<1>7. /\ \A o \in {"killswitch", "connmark", "outNet", "localNet"} : life'[o] = "none"
      /\ life'["dnsNet"] = "open"
      /\ life'["routing"] \in {"none", "open"} /\ life'["dns"] \in {"none", "open"}
  BY <1>3, <1>4 DEF Object, Component, Nets
<1>8. MadeInv'
  BY <1>1, <1>4, <1>7, Zenon DEF MadeInv, Later, Nets
<1>9. ComponentInv'
  <2>1. \A o \in Component : life'[o] # "twice"
    BY <1>4, <1>7 DEF Component
  <2>2. \A o \in Component \ {"daemon", "fwmark"} : life'[o] # "closed"
    BY <1>7 DEF Component
  <2> QED
    BY <1>1, <1>4, <1>5, <2>1, <2>2, MadeComponents
<1> QED
  BY <1>4, <1>5, <1>6, <1>8, <1>9

\* The dependencies NewSystem is given.
LEMMA Depends ==
    ASSUME SType, NEW set, s' = WithDependencies(set)
    PROVE  SType' /\ (s'.dep["pmark"] = IF "pmark" \in set THEN "works" ELSE s.dep["pmark"])
<1>1. "works" \in Presence /\ "pmark" \in Dependency
  BY DEF Presence, Dependency
<1> QED
  BY <1>1 DEF SType, WithDependencies

LEMMA SystemStep ==
    ASSUME LifeType, NewInv, MadeInv, ComponentInv, newSystem
    PROVE  LifeType' /\ NewInv' /\ MadeInv' /\ ComponentInv' /\ Resting'
<1> DEFINE client == IF Has(s, "Killswitch") THEN {"killswitch"} ELSE {}
           l == [o \in Object |-> IF o \in client THEN "open" ELSE life[o]]
           works == s.dep["pmark"] = "works"
<1>1. /\ phase = "system" /\ UNCHANGED <<closed, owned, attached, proc>>
      /\ \/ /\ phase' = "open" /\ life' = Constructed(l)
            /\ \/ s' = WithDependencies({"ruleTracker"})
               \/ s' = WithDependencies({})
         \/ phase' = "failed" /\ life' = Shut(l, Unwound \cup client) /\ s' = s
  BY Zenon DEF newSystem, Running
<1>2. /\ client = {"killswitch"} \/ client = {}
      /\ client \subseteq Object
  BY DEF Object, Component
<1>3. SType' /\ s'.dep["pmark"] = s.dep["pmark"]
  <2>1. SType /\ "pmark" \notin {"ruleTracker"} /\ "pmark" \notin {}
    BY DEF NewInv
  <2>2. CASE s' = s
    BY <2>1, <2>2, Zenon DEF SType
  <2>3. ASSUME NEW set, "pmark" \notin set, s' = WithDependencies(set)
        PROVE  SType' /\ s'.dep["pmark"] = s.dep["pmark"]
    BY <2>1, <2>3, Depends, SMT
  <2> QED
    BY <1>1, <2>1, <2>2, <2>3, Zenon
<1>4. /\ life["dnsNet"] = "open"
      /\ life["routing"] \in {"none", "open"} /\ life["dns"] \in {"none", "open"}
      /\ \A o \in {"killswitch", "connmark"} \cup Nets : life[o] = "none"
      /\ ~works => life["daemon"] \in {"none", "closed"} /\ life["fwmark"] \in {"none", "closed"}
      /\ works => life["daemon"] = "open" /\ life["fwmark"] = "open"
  BY <1>1, MadeSoFar, Zenon DEF MadeInv
<1> HIDE DEF client
<1>5. Component \subseteq Object /\ {"killswitch", "connmark", "outNet", "localNet"} \subseteq Component
  BY DEF Object, Component
<1>6. CASE phase' = "open" /\ life' = Constructed(l)
  <2>1. \A o \in Object :
            life'[o] = IF \/ o \in {"outNet", "localNet"} \cup client
                          \/ o = "connmark" /\ Has(s, "DefaultTun") /\ Has(s, "Routing")
                         THEN "open" ELSE life[o]
    BY <1>6 DEF Constructed
  <2>2. LifeType'
    BY <1>6 DEF LifeType, Constructed
  <2>3. \A h \in Handle : life'[h] = life[h]
    BY <1>2, <1>5, <2>1, Disjoint
  <2>4. Resting'
    BY <1>1, <2>3, RestingKept, Zenon DEF NewInv
  <2>5. NewInv'
    BY <1>3, <1>6, Zenon DEF NewInv
  <2>6. MadeInv'
    BY <1>6, Zenon DEF MadeInv, Later
  <2>7. /\ \A o \in {"dnsNet", "routing", "dns", "killswitch", "connmark", "outNet", "localNet"} :
               life'[o] \in {"none", "open"}
        /\ life'["daemon"] = life["daemon"] /\ life'["fwmark"] = life["fwmark"]
        /\ life'["outNet"] = "open" /\ life'["localNet"] = "open"
    BY <1>2, <1>4, <2>1 DEF Object, Component, Nets
  <2>8. \A o \in Component : life'[o] # "twice"
    BY <1>4, <2>7 DEF Component
  <2>9. \A o \in Component \ {"daemon", "fwmark"} : life'[o] # "closed"
    BY <2>7 DEF Component
  <2>10. ComponentInv'
    BY <1>3, <1>4, <1>6, <2>2, <2>4, <2>7, <2>8, <2>9, MadeComponents
  <2> QED
    BY <2>2, <2>4, <2>5, <2>6, <2>10
<1>7. CASE phase' = "failed" /\ life' = Shut(l, Unwound \cup client) /\ s' = s
  <2>1. \A o \in Object :
            life'[o] = IF o \notin Unwound \cup client THEN life[o]
                       ELSE IF o \in client \/ life[o] = "open" THEN "closed" ELSE "twice"
    BY <1>2, <1>7 DEF Shut
  <2>2. /\ Unwound \subseteq Component /\ "dnsNet" \in Unwound
        /\ \A o \in {"routing", "dns"} : o \in Unwound <=> life[o] # "none"
        /\ \A o \in {"daemon", "fwmark"} : o \in Unwound <=> works
        /\ \A o \in {"killswitch", "connmark", "outNet", "localNet"} : o \notin Unwound
    BY DEF Unwound, extraClosers, Held, Component
  <2>3. LifeType'
    BY <1>7 DEF LifeType, Shut
  <2>4. \A h \in Handle : life'[h] = life[h]
    BY <1>2, <1>5, <2>1, <2>2, Disjoint
  <2>5. Resting'
    BY <1>1, <2>4, RestingKept, Zenon DEF NewInv
  <2>6. NewInv'
    BY <1>3, <1>7, <2>5, Zenon DEF NewInv
  <2>7. \A o \in Component : life'[o] \in {"none", "closed"}
    <3>1. ASSUME NEW o \in {"dnsNet", "routing", "dns"}
          PROVE  life'[o] \in {"none", "closed"}
      BY <1>2, <1>4, <2>1, <2>2 DEF Object, Component
    <3>2. ASSUME NEW o \in {"daemon", "fwmark"}
          PROVE  life'[o] \in {"none", "closed"}
      BY <1>2, <1>4, <2>1, <2>2 DEF Object, Component
    <3>3. ASSUME NEW o \in {"killswitch", "connmark", "outNet", "localNet"}
          PROVE  life'[o] \in {"none", "closed"}
      BY <1>2, <1>4, <2>1, <2>2 DEF Object, Component, Nets
    <3> QED
      BY <3>1, <3>2, <3>3 DEF Component
  <2>8. MadeInv'
    BY <1>7, <2>7 DEF MadeInv, Later
  <2>9. ComponentInv'
    BY <1>3, <1>7, <2>3, <2>5, <2>7, MadeComponents DEF Component
  <2> QED
    BY <2>3, <2>5, <2>6, <2>8, <2>9
<1> QED
  BY <1>1, <1>6, <1>7, Zenon

LEMMA InjectStep ==
    ASSUME LifeType, NewInv, MadeInv, ComponentInv, NewSystem
    PROVE  LifeType' /\ NewInv' /\ MadeInv' /\ ComponentInv' /\ Resting'
<1>1. /\ phase = "inject" /\ phase' = "open" /\ UNCHANGED <<closed, owned, attached, proc>>
      /\ \E set : s' = WithDependencies(set)
      /\ \E set : life' = [o \in Object |-> IF o \in set /\ o \in {"routing", "dns"}
                                              THEN "open" ELSE Constructed(life)[o]]
  <2>1. PICK given \in SUBSET {"routingManager", "dnsProvider", "pmark"} :
            /\ \E set : s' = WithDependencies(set)
            /\ life' = [o \in Object |->
                  IF \/ o = "routing" /\ "routingManager" \in given
                     \/ o = "dns" /\ "dnsProvider" \in given
                    THEN "open" ELSE Constructed(life)[o]]
    BY Zenon DEF NewSystem
  <2> DEFINE set == (IF "routingManager" \in given THEN {"routing"} ELSE {})
                    \cup (IF "dnsProvider" \in given THEN {"dns"} ELSE {})
  <2>2. life' = [o \in Object |-> IF o \in set /\ o \in {"routing", "dns"}
                                    THEN "open" ELSE Constructed(life)[o]]
    BY <2>1
  <2> HIDE DEF set
  <2>3. /\ phase = "inject" /\ phase' = "open" /\ UNCHANGED <<closed, owned, attached, proc>>
    BY Zenon DEF NewSystem, Running
  <2> QED
    BY <2>1, <2>2, <2>3, Zenon
<1>2. SType'
  BY <1>1, Depends, Zenon DEF NewInv
<1>3. \A o \in Component : life[o] = "none"
  BY <1>1, Zenon DEF MadeInv, Later
<1>4. PICK set : life' = [o \in Object |-> IF o \in set /\ o \in {"routing", "dns"}
                                             THEN "open" ELSE Constructed(life)[o]]
  BY <1>1, Zenon
<1>5. \A o \in Object :
          life'[o] = IF \/ o \in set /\ o \in {"routing", "dns"}
                        \/ o \in {"outNet", "localNet"}
                        \/ o = "connmark" /\ Has(s, "DefaultTun") /\ Has(s, "Routing")
                       THEN "open" ELSE life[o]
  BY <1>4 DEF Constructed
<1>6. LifeType'
  BY <1>4 DEF LifeType, Constructed
<1>7. \A h \in Handle : life'[h] = life[h]
  BY <1>5, Disjoint DEF Component
<1>8. Resting'
  BY <1>1, <1>7, RestingKept, Zenon DEF NewInv
<1>9. NewInv'
  BY <1>1, <1>2, Zenon DEF NewInv
<1>10. MadeInv'
  BY <1>1, Zenon DEF MadeInv, Later
<1>11. /\ \A o \in Component : life'[o] \in {"none", "open"}
       /\ life'["outNet"] = "open" /\ life'["localNet"] = "open"
       /\ life'["daemon"] = "none" /\ life'["fwmark"] = "none"
  BY <1>3, <1>5 DEF Object, Component
<1>12. ComponentInv'
  BY <1>1, <1>6, <1>8, <1>11, MadeComponents DEF Component
<1> QED
  BY <1>6, <1>8, <1>9, <1>10, <1>12

LEMMA OwnerInit == Init => OwnerInv
<1> SUFFICES ASSUME Init PROVE OwnerInv
  OBVIOUS
<1>1. /\ phase \in {"tun", "inject"} /\ env.requested \in FeatureSets
      /\ s = [features |-> env.requested,
              dep |-> [d \in Dependency |-> IF d \in {"tunFactory", "tunConfig"}
                                              THEN "works" ELSE "missing"],
              failures |-> [g \in Group |-> {}]]
      /\ life = [o \in Object |-> "none"] /\ proc = [p \in Proc |-> NoCall]
      /\ ~closed /\ owned = {} /\ attached = {}
  <2>1. /\ env \in [requested : FeatureSets, netAdmin : BOOLEAN,
                    currentNamespace : BOOLEAN, pinPath : BOOLEAN]
        /\ phase = "tun" \/ phase = "inject"
        /\ closed = FALSE /\ owned = {} /\ attached = {}
        /\ s = [features |-> env.requested,
                dep |-> [d \in Dependency |-> IF d \in {"tunFactory", "tunConfig"}
                                                THEN "works" ELSE "missing"],
                failures |-> [g \in Group |-> {}]]
        /\ life = [o \in Object |-> "none"] /\ proc = [p \in Proc |-> NoCall]
    BY Zenon DEF Init
  <2>2. env.requested \in FeatureSets
    BY ONLY <2>1, SMT
  <2> QED
    BY <2>1, <2>2, Zenon
<1>2. SType /\ s.dep["pmark"] # "works"
  <2>1. "works" \in Presence /\ "missing" \in Presence /\ "pmark" \in Dependency
    BY DEF Presence, Dependency
  <2> QED
    BY <1>1, <2>1, CallerAssumption DEF SType
<1>3. Resting
  BY <1>1, Disjoint DEF Resting
<1>4. LifeType
  BY <1>1 DEF LifeType
<1>5. NewInv
  BY <1>1, <1>2, <1>3 DEF NewInv
<1>6. \A o \in Component : life[o] = "none"
  BY <1>1 DEF Object
<1>7. MadeInv
  BY <1>1, <1>6 DEF MadeInv, Later
<1>8. ComponentInv
  <2>1. Serving /\ Kept \subseteq Component /\ Nets \subseteq Component
    BY <1>1 DEF Serving, Kept, Nets, Component
  <2> QED
    BY <1>1, <1>6, <2>1 DEF ComponentInv
<1> QED
  BY <1>3, <1>4, <1>5, <1>7, <1>8, RestingInv, Zenon DEF OwnerInv

----------------------------------------------------------------------------
(* The two theorems.                                                       *)

LEMMA OwnerNext ==
    ASSUME LInv, IssuedType, OwnerInv, [Next]_vars
    PROVE  OwnerInv'
<1>0. /\ CallInv /\ HandleInv /\ BuildInv /\ CloserInv /\ UseInv
      /\ LifeType /\ NewInv /\ MadeInv /\ ComponentInv
  BY Zenon DEF OwnerInv
<1>1. CASE New
  <2>1. LifeType' /\ NewInv' /\ MadeInv' /\ ComponentInv' /\ Resting'
    BY <1>0, <1>1, NewTUNStep, RoutingStep, DNSStep, PmarkStep, SystemStep, InjectStep,
       Zenon DEF New
  <2>2. Resting' => CallInv' /\ HandleInv' /\ BuildInv' /\ CloserInv' /\ UseInv'
    BY RestingInv, PTL
  <2> QED
    BY <2>1, <2>2, Zenon DEF OwnerInv
<1>2. CASE UNCHANGED vars
  <2>1. UNCHANGED <<s, phase, life, closed, owned, attached, lock, proc>>
    BY <1>2, Zenon DEF vars
  <2>2. CallInv'
    BY <1>0, <2>1 DEF CallInv
  <2>3. HandleInv'
    BY <1>0, <2>1 DEF HandleInv, OpenTuns
  <2>4. BuildInv' /\ CloserInv' /\ UseInv'
    BY <1>0, <2>1 DEF BuildInv, CloserInv, UseInv
  <2>5. LifeType' /\ MadeInv'
    BY <1>0, <2>1, Zenon DEF LifeType, MadeInv
  <2>6. NewInv'
    BY <1>0, <2>1, Zenon DEF NewInv, SType, Resting
  <2>7. ComponentInv'
    BY <1>0, <2>1, Zenon DEF ComponentInv, Serving, InStates, Kept, extraClosers
  <2> QED
    BY <2>2, <2>3, <2>4, <2>5, <2>6, <2>7, Zenon DEF OwnerInv
<1>3. ASSUME NEW p \in Proc, Calls(p) \/ Step(p) \/ endIO(p)
      PROVE  OwnerInv'
  <2>0. RestInv /\ Effect(p)
    BY <1>0, <1>3, StepDoes, Zenon DEF NewInv, RestInv
  <2>1. phase = "open" /\ Others(p) /\ SameSystem /\ LifeType'
    BY <1>0, <2>0, StepOpen, Zenon
  <2>2. CallInv'
    BY <1>0, <2>0, CallStep, Zenon
  <2>3. HandleInv'
    BY <1>0, <2>0, HandleStill, HandleRegular, HandleDefault, Zenon DEF Effect
  <2>4. BuildInv'
    BY <1>0, <2>0, <2>1, <2>2, BuildStep, Zenon
  <2>5. CloserInv'
    BY <1>0, <2>0, <2>1, CloserStep, Zenon
  <2>6. UseInv'
    BY <1>0, <2>0, <2>1, UseStep, Zenon
  <2>7. ComponentInv'
    BY <1>0, <2>0, ComponentStep, Zenon
  <2>8. s' = s /\ phase' = "open"
    BY <2>1, Zenon DEF SameSystem
  <2>9. NewInv'
    BY <1>0, <2>8, Zenon DEF NewInv, SType
  <2>10. MadeInv'
    BY <2>8 DEF MadeInv, Later
  <2> QED
    BY <2>1, <2>2, <2>3, <2>4, <2>5, <2>6, <2>7, <2>9, <2>10, Zenon DEF OwnerInv
<1> QED
  BY <1>1, <1>2, <1>3, Zenon DEF Next

LEMMA OwnersOpen == OwnerInv => NothingOpen
<1> SUFFICES ASSUME OwnerInv PROVE NothingOpen
  OBVIOUS
<1>0. /\ CallInv /\ HandleInv /\ BuildInv /\ CloserInv /\ UseInv
      /\ LifeType /\ NewInv /\ MadeInv /\ ComponentInv
  BY Zenon DEF OwnerInv
<1>1. \A o \in Object : life[o] # "twice"
  BY <1>0 DEF HandleInv, ComponentInv, Object
<1>2. ASSUME phase = "failed"
      PROVE  \A o \in Object : life[o] # "open"
  BY <1>0, <1>2 DEF MadeInv, NewInv, Resting, Object
<1>3. ASSUME closed, \A p \in Proc : proc[p].pc \in {"idle", "io"}
      PROVE  \A o \in Object : life[o] # "open"
  <2>1. \A p \in Proc : ~Closer(proc[p]) /\ proc[p].pc # "states" /\ Custody(proc[p]) = {}
    BY <1>3 DEF Closer, Custody, Closing
  <2>2. owned = {}
    BY <1>0, <1>3, <2>1 DEF CloserInv
  <2>3. OpenTuns = {}
    BY <1>0, <2>1, <2>2 DEF HandleInv
  <2>4. ~Serving /\ ~InStates
    BY <1>3, <2>1 DEF Serving, InStates
  <2>5. \A o \in Component : life[o] # "open"
    BY <1>0, <1>3, <2>4 DEF ComponentInv
  <2> QED
    BY <2>3, <2>5 DEF Object, OpenTuns
<1> QED
  BY <1>1, <1>2, <1>3, Zenon DEF NothingOpen

LEMMA OwnersUse == LInv /\ OwnerInv => UsedOpen
<1> SUFFICES ASSUME LInv, OwnerInv PROVE UsedOpen
  OBVIOUS
<1>0. /\ CallInv /\ HandleInv /\ BuildInv /\ CloserInv /\ UseInv
      /\ LifeType /\ NewInv /\ MadeInv /\ ComponentInv
  BY Zenon DEF OwnerInv
<1>1. ASSUME NEW p \in Proc, proc[p].pc = "use"
      PROVE  life[proc[p].t] = "open"
  BY <1>0, <1>1 DEF UseInv, HandleInv, OpenTuns
<1>2. ASSUME life[Default] = "open",
             NEW o \in extraClosers \cup {"dns", "routing", "connmark", "killswitch"}
      PROVE  life[o] # "closed"
  <2>1. Default \in OpenTuns
    BY <1>2 DEF OpenTuns, Handle
  <2>2. phase # "failed"
    BY <1>0, <1>2 DEF NewInv, Resting, Handle
  <2>3. ASSUME Default \in owned PROVE Serving
    BY <1>0, <2>3, Zenon DEF CloserInv, Serving
  <2>4. ASSUME NEW p \in Proc, Default \in Custody(proc[p])
        PROVE  Serving
    <3>1. /\ Shape(proc[p])
          /\ proc[p].pc \in {"closeActive", "rollback"} => ~closed \/ Closer(proc[p])
      BY <1>0, Zenon DEF CallInv, CloserInv
    <3>2. CASE proc[p].pc \in {"closeActive", "rollback"}
      BY <3>1, <3>2, Zenon DEF Serving
    <3>3. CASE proc[p].pc = "states"
      <4>1. proc[p].todo # {}
        BY <2>4, <3>3 DEF Custody, Closing
      <4>2. proc[p].op = "closeSystem"
        BY <3>1, <4>1 DEF Shape
      <4> QED
        BY <3>3, <4>2 DEF Serving, Closer
    <3>4. CASE proc[p].pc \in {"publish", "closeNative"} \/ Closing(proc[p])
      <4>1. proc[p].t = Default
        BY <2>4, <3>4 DEF Custody
      <4>2. proc[p].op \in OpName
        BY DEF LInv, ProcType
      <4> QED
        BY <3>1, <3>4, <4>1, <4>2, SystemAssumption DEF Shape, Closing, OpName
    <3> QED
      BY <2>4, <3>2, <3>3, <3>4 DEF Custody
  <2>5. Serving
    BY <1>0, <2>1, <2>3, <2>4 DEF HandleInv
  <2>6. o \in Kept
    BY <1>2 DEF Kept, extraClosers
  <2> QED
    BY <1>0, <2>2, <2>5, <2>6 DEF ComponentInv
<1> QED
  BY <1>1, <1>2, Zenon DEF UsedOpen

\* With any number of goroutines, TUNs and calls, nothing the program opens is
\* closed twice, and nothing is open once New has failed, or once Close has set
\* closed and the operations that were running have returned (New, System.Close,
\* BuildTun, BuildDefaultTun, regularTun.Close and defaultTun.closeActive).
THEOREM NothingOpenHolds == Spec => []NothingOpen
<1>1. Init => LInv /\ IssuedType /\ OwnerInv
  BY LInvInit, OwnerInit DEF Init, IssuedType
<1>2. LInv /\ IssuedType /\ OwnerInv /\ [Next]_vars => (LInv /\ IssuedType /\ OwnerInv)'
  BY LInvNext, OwnerNext
<1>3. OwnerInv => NothingOpen
  BY OwnersOpen
<1> QED
  BY <1>1, <1>2, <1>3, PTL DEF Spec

\* A setter or getter uses a TUN that is open, and the components that the
\* teardown of the default TUN calls are not closed while it is open
\* (resolveTunLocked, System.Close).
THEOREM UsedOpenHolds == Spec => []UsedOpen
<1>1. Init => LInv /\ IssuedType /\ OwnerInv
  BY LInvInit, OwnerInit DEF Init, IssuedType
<1>2. LInv /\ IssuedType /\ OwnerInv /\ [Next]_vars => (LInv /\ IssuedType /\ OwnerInv)'
  BY LInvNext, OwnerNext
<1>3. LInv /\ OwnerInv => UsedOpen
  BY OwnersUse
<1> QED
  BY <1>1, <1>2, <1>3, PTL DEF Spec
=============================================================================
