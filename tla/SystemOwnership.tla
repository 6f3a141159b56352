--------------------------- MODULE SystemOwnership --------------------------
(***************************************************************************)
(* The inductive invariants of System: which mutexes a goroutine may hold  *)
(* at each step of its operation, and who will close what is open; and     *)
(* what each step does, as far as these invariants can tell.               *)
(***************************************************************************)
EXTENDS SystemState

OpName == {"none", "build", "buildDefault", "set", "report", "setDNS", "io",
           "warnings", "close", "closeSystem"}

PC == {"idle", "check", "create", "publish", "defaultTunMu", "mu", "state",
       "use", "io", "closeNative", "configure", "drop", "closeActive",
       "rollback", "states", "tuns", "components"}

ProcType == [op : OpName, pc : PC, t : Handle, todo : SUBSET Handle]

\* The mutexes a goroutine may hold at a step.
MayHold(pc, t) ==
    IF pc \in {"mu", "configure", "drop", "closeActive", "rollback", "tuns"}
      THEN {"defaultTunMu"}
    ELSE IF pc \in {"state", "states"} THEN {"defaultTunMu", "mu"}
    ELSE IF pc = "use" THEN {"defaultTunMu", t}
    ELSE {}

LInv ==
    /\ lock \in [Lock -> Proc \cup {Nobody}]
    /\ proc \in [Proc -> ProcType]
    /\ owned \subseteq Handle
    /\ \A p \in Proc, l \in Lock :
           lock[l] = p => l \in MayHold(proc[p].pc, proc[p].t)

\* The handles the callers have are TUNs of the System.
IssuedType == issued \subseteq Handle

----------------------------------------------------------------------------
(* Who closes what.  Every TUN that is open is in the System's list or in  *)
(* the custody of exactly one goroutine, which will close it; the          *)
(* components are closed by the one goroutine that has set closed.         *)

\* The steps each operation goes through, and the TUN it is for.
Shape(c) ==
    /\ c.op = "none" => c.pc = "idle"
    /\ c.op = "build" => c.pc \in {"check", "create", "publish"} /\ c.t \in Tun
    /\ c.op = "buildDefault" =>
           /\ c.pc \in {"check", "defaultTunMu", "mu", "configure", "drop",
                        "closeActive", "rollback"}
           /\ c.t = Default
    /\ c.op = "set" => c.pc \in {"defaultTunMu", "mu", "state", "use"}
    /\ c.op \in {"report", "setDNS"} => c.pc \in {"defaultTunMu", "mu", "state"}
    /\ c.op \in {"io", "warnings"} => c.pc \in {"mu", "state", "io"}
    /\ c.op = "close" /\ c.t = Default =>
           c.pc \in {"defaultTunMu", "mu", "closeActive", "rollback"}
    /\ c.op = "close" /\ c.t # Default => c.pc \in {"mu", "state", "closeNative"}
    /\ c.op = "closeSystem" =>
           /\ c.pc \in {"defaultTunMu", "mu", "states", "closeActive", "rollback",
                        "tuns", "components"}
           /\ c.t = Default
    /\ c.op # "closeSystem" \/ c.pc \in {"defaultTunMu", "mu"} => c.todo = {}
    /\ c.op = "closeSystem" /\ c.pc = "closeActive" => Default \in c.todo

\* The mutexes a goroutine does hold at a step.
Holds(c) ==
    IF c.pc = "mu"
      THEN IF c.op \in {"io", "warnings"} \/ (c.op = "close" /\ c.t # Default)
             THEN {} ELSE {"defaultTunMu"}
    ELSE IF c.pc \in {"configure", "drop", "closeActive", "rollback", "tuns"}
      THEN {"defaultTunMu"}
    ELSE IF c.pc = "states" THEN {"defaultTunMu", "mu"}
    ELSE IF c.pc = "state" /\ c.op = "set" THEN {"defaultTunMu", "mu"}
    ELSE IF c.pc = "use" THEN {c.t}
    ELSE {}

CallInv ==
    \A p \in Proc : Shape(proc[p]) /\ \A l \in Holds(proc[p]) : lock[l] = p

\* regularTun.Close between mu and the mutex of the state.
Closing(c) == c.pc = "state" /\ c.op = "close"

\* The open TUNs a goroutine is to publish or to close.
Custody(c) ==
    IF c.pc \in {"publish", "closeNative"} \/ Closing(c) THEN {c.t}
    ELSE IF c.pc \in {"closeActive", "rollback"} THEN c.todo \cup {Default}
    ELSE IF c.pc = "states" THEN c.todo
    ELSE IF c.pc = "tuns" THEN c.todo \ {Default}
    ELSE {}

\* Those of them that are out of their states.
Detached(c) ==
    IF c.pc \in {"publish", "closeNative"} THEN {c.t}
    ELSE IF c.pc = "rollback" THEN c.todo \cup {Default}
    ELSE IF c.pc \in {"states", "closeActive", "tuns"} THEN c.todo \ {Default}
    ELSE {}

OpenTuns == {h \in Handle : life[h] = "open"}

HandleInv ==
    /\ owned \subseteq attached /\ attached \subseteq OpenTuns
    /\ \A h \in Handle : life[h] \in {"none", "open", "closed"}
    /\ \A p \in Proc : /\ Custody(proc[p]) \subseteq OpenTuns \ owned
                       /\ Detached(proc[p]) \cap attached = {}
                       /\ Closing(proc[p]) => proc[p].t \in attached
    /\ \A p, q \in Proc : p # q => Custody(proc[p]) \cap Custody(proc[q]) = {}
    /\ \A h \in OpenTuns : h \in owned \/ \E p \in Proc : h \in Custody(proc[p])

\* BuildTun before it has made its TUN.
Building(c) == c.op = "build" /\ c.pc \in {"check", "create"}

BuildInv ==
    /\ \A p \in Proc : Building(proc[p]) => life[proc[p].t] = "none"
    /\ \A p, q \in Proc : Building(proc[p]) /\ Building(proc[q]) /\ p # q =>
                              proc[p].t # proc[q].t

\* The goroutine that has set closed.
Closer(c) ==
    /\ c.op = "closeSystem"
    /\ c.pc \in {"states", "closeActive", "rollback", "tuns", "components"}

CloserInv ==
    /\ \A p \in Proc : Closer(proc[p]) => closed
    /\ \A p, q \in Proc : Closer(proc[p]) /\ Closer(proc[q]) => p = q
    /\ closed => owned = {} \/ \E p \in Proc : proc[p].pc = "states"
    /\ closed => Default \notin owned
    /\ \A p \in Proc : proc[p].pc \in {"configure", "drop"} => Default \in owned
    /\ \A p \in Proc : proc[p].pc \in {"closeActive", "rollback"} =>
                           ~closed \/ Closer(proc[p])

\* A setter keeps mu from the look up to the mutex of the state, and that mutex
\* while it uses the TUN.
UseInv ==
    \A p \in Proc :
        /\ proc[p].op = "set" /\ proc[p].pc = "state" => proc[p].t \in owned
        /\ proc[p].pc = "use" => proc[p].t \in attached

Nets == {"outNet", "localNet"}

\* What System.Close closes when it is there.
Kept == {"dns", "routing", "connmark", "killswitch", "dnsNet"}
        \cup ({"daemon", "fwmark"} \cap extraClosers)

Serving == ~closed \/ \E p \in Proc : Closer(proc[p])

\* An object is opened and closed by Opened and Shut.
LifeType == life \in [Object -> {"none", "open", "closed", "twice"}]

\* No goroutine does anything, and there is no TUN.
Resting ==
    /\ ~closed /\ owned = {} /\ attached = {}
    /\ \A p \in Proc : proc[p] = NoCall
    /\ \A h \in Handle : life[h] = "none"

\* Until the constructor has returned there is nothing for a goroutine to do.
RestInv == phase # "open" => Resting

InStates == \E p \in Proc : proc[p].pc = "states"

ComponentInv ==
    /\ \A o \in Component : life[o] # "twice"
    /\ \A o \in Component \ (Kept \cup Nets) : life[o] # "open"
    /\ phase # "failed" /\ Serving => \A o \in Kept : life[o] # "closed"
    /\ ~Serving => \A o \in Kept : life[o] # "open"
    /\ phase = "open" /\ (~closed \/ InStates) => \A o \in Nets : life[o] = "open"
    /\ closed /\ ~InStates => \A o \in Nets : life[o] # "open"

----------------------------------------------------------------------------
(* What a step does, in the terms of these invariants.                     *)

Others(p) == \A q \in Proc : q # p => proc'[q] = proc[q]

Went(p, pc) ==
    /\ proc'[p].pc = pc /\ proc'[p].op = proc[p].op
    /\ proc'[p].t = proc[p].t /\ proc'[p].todo = proc[p].todo

Ended(p) == proc'[p] = NoCall

\* p has the mutexes of a set, and took none from another goroutine.
Took(p, set) == \A l \in Lock : lock'[l] = IF l \in set THEN p
                                           ELSE IF lock[l] = p THEN Nobody ELSE lock[l]

\* The life of the objects and what the System holds are as they were.
SameHost == UNCHANGED <<life, closed, owned, attached>>
SameSystem == UNCHANGED <<s, phase>>

\* No mutex is taken from a goroutine that holds it.
Fair(p) == \A q \in Proc, l \in Lock : q # p /\ lock[l] = q => lock'[l] = q

\* What a step of p may take over or give up: TUNs of the System's list, those in
\* p's custody, and those that are not open.
Touched(p) == owned \cup Custody(proc[p]) \cup (Handle \ OpenTuns)

CheckEffect(p) ==
    /\ proc[p].pc = "check" /\ Others(p) /\ SameHost /\ SameSystem /\ UNCHANGED lock
    /\ \/ Ended(p)
       \/ proc[p].op = "build" /\ Went(p, "create")
       \/ proc[p].op # "build" /\ Went(p, "defaultTunMu")

CreateEffect(p) ==
    /\ proc[p].pc = "create" /\ Others(p) /\ UNCHANGED <<closed, owned, attached>>
    /\ SameSystem /\ UNCHANGED lock /\ LifeType'
    /\ \A o \in Object : o # proc[p].t => life'[o] = life[o]
    /\ \/ life'[proc[p].t] = "open" /\ Went(p, "publish")
       \/ life'[proc[p].t] \in {life[proc[p].t], "closed"} /\ Ended(p)

PublishEffect(p) ==
    /\ proc[p].pc = "publish" /\ Others(p) /\ Ended(p) /\ UNCHANGED closed
    /\ SameSystem /\ UNCHANGED lock /\ LifeType'
    /\ \A o \in Object : o # proc[p].t => life'[o] = life[o]
    /\ \/ /\ closed /\ UNCHANGED <<owned, attached>>
          /\ life[proc[p].t] = "open" => life'[proc[p].t] = "closed"
       \/ /\ ~closed /\ life' = life /\ owned' = owned \cup {proc[p].t}
          /\ attached' = attached \cup {proc[p].t}

LockDefaultEffect(p) ==
    /\ proc[p].pc = "defaultTunMu" /\ lock["defaultTunMu"] = Nobody
    /\ Others(p) /\ Went(p, "mu") /\ Took(p, {"defaultTunMu"}) /\ SameHost /\ SameSystem

LookUpEffect(p) ==
    /\ proc[p].pc = "mu" /\ lock["mu"] = Nobody /\ Others(p) /\ SameHost /\ SameSystem
    /\ proc[p].op \in {"set", "report", "io", "setDNS", "warnings"}
    /\ \/ Ended(p) /\ Took(p, {})
       \/ /\ Went(p, "state") /\ proc[p].t \in owned
          /\ \E set \in SUBSET {"mu"} : /\ Took(p, HeldBy(p) \cup set)
                                        /\ proc[p].op = "set" => "mu" \in set

ForgetEffect(p) ==
    /\ proc[p].pc = "mu" /\ proc[p].op = "close" /\ lock["mu"] = Nobody
    /\ Others(p) /\ UNCHANGED <<life, closed, attached>> /\ SameSystem
    /\ \/ Ended(p) /\ Took(p, {}) /\ UNCHANGED owned
       \/ /\ proc[p].t \in owned /\ owned' = owned \ {proc[p].t}
          /\ \/ proc[p].t = Default /\ Went(p, "closeActive") /\ UNCHANGED lock
             \/ proc[p].t # Default /\ Went(p, "state") /\ Took(p, {"mu"})

LockStateEffect(p) ==
    /\ proc[p].pc = "state" /\ lock[proc[p].t] = Nobody
    /\ Others(p) /\ UNCHANGED <<life, closed, owned>> /\ SameSystem
    /\ attached' = IF proc[p].op = "close" THEN attached \ {proc[p].t} ELSE attached
    /\ \/ /\ Ended(p) /\ Took(p, {})
          /\ proc[p].t \notin attached \/ proc[p].op \in {"report", "setDNS"}
       \/ /\ proc[p].op = "set" /\ proc[p].t \in attached
          /\ Went(p, "use") /\ Took(p, {"defaultTunMu", proc[p].t})
       \/ proc[p].op = "close" /\ Went(p, "closeNative") /\ Took(p, {})
       \/ proc[p].op \notin {"set", "close", "report", "setDNS"} /\ Went(p, "io") /\ Took(p, {})

CloseNativeEffect(p) ==
    /\ proc[p].pc = "closeNative" /\ Others(p) /\ Ended(p)
    /\ UNCHANGED <<closed, owned, attached>> /\ SameSystem /\ UNCHANGED lock /\ LifeType'
    /\ \A o \in Object : o # proc[p].t => life'[o] = life[o]
    /\ life[proc[p].t] = "open" => life'[proc[p].t] = "closed"

UseEffect(p) ==
    /\ proc[p].pc = "use" /\ Others(p) /\ Ended(p) /\ Took(p, {}) /\ SameHost /\ SameSystem

EndIOEffect(p) ==
    /\ proc[p].pc = "io" /\ Others(p) /\ Ended(p) /\ UNCHANGED lock /\ SameHost /\ SameSystem

CreateDefaultEffect(p) ==
    /\ proc[p].pc = "mu" /\ proc[p].op = "buildDefault" /\ lock["mu"] = Nobody
    /\ Others(p) /\ UNCHANGED closed /\ SameSystem /\ LifeType'
    /\ \A o \in Object : o # Default => life'[o] = life[o]
    /\ \/ Ended(p) /\ Took(p, {}) /\ UNCHANGED <<life, owned, attached>>
       \/ /\ ~closed /\ Default \in owned /\ Went(p, "configure")
          /\ UNCHANGED <<life, owned, attached, lock>>
       \/ /\ ~closed /\ life[Default] = "none" /\ life'[Default] = "open"
          /\ Went(p, "configure") /\ UNCHANGED lock
          /\ owned' = owned \cup {Default} /\ attached' = attached \cup {Default}

ConfigureEffect(p) ==
    /\ proc[p].pc = "configure" /\ Others(p) /\ SameHost /\ SameSystem
    /\ \/ Ended(p) /\ Took(p, {})
       \/ Went(p, "drop") /\ UNCHANGED lock

DropEffect(p) ==
    /\ proc[p].pc = "drop" /\ lock["mu"] = Nobody /\ Others(p) /\ Went(p, "closeActive")
    /\ UNCHANGED <<life, closed, attached, lock>> /\ SameSystem
    /\ owned' = owned \ {Default}

CloseActiveEffect(p) ==
    /\ proc[p].pc = "closeActive" /\ lock[Default] = Nobody /\ Others(p)
    /\ Went(p, "rollback") /\ UNCHANGED <<life, closed, owned, lock>> /\ SameSystem
    /\ attached' = attached \ {Default}

RollbackEffect(p) ==
    /\ proc[p].pc = "rollback" /\ Others(p) /\ UNCHANGED <<closed, owned, attached>>
    /\ SameSystem /\ LifeType'
    /\ \A o \in Object : o # Default => life'[o] = life[o]
    /\ life[Default] = "open" => life'[Default] = "closed"
    /\ \/ proc[p].op = "closeSystem" /\ Went(p, "tuns") /\ UNCHANGED lock
       \/ proc[p].op # "closeSystem" /\ Ended(p) /\ Took(p, {})

CloseSystemEffect(p) ==
    /\ proc[p].pc = "mu" /\ proc[p].op = "closeSystem" /\ lock["mu"] = Nobody
    /\ Others(p) /\ UNCHANGED <<life, attached>> /\ SameSystem
    /\ \/ closed /\ Ended(p) /\ Took(p, {}) /\ UNCHANGED <<closed, owned>>
       \/ /\ ~closed /\ closed' /\ owned' = owned \ {Default}
          /\ Took(p, {"defaultTunMu", "mu"})
          /\ proc'[p].pc = "states" /\ proc'[p].op = "closeSystem"
          /\ proc'[p].t = proc[p].t /\ proc'[p].todo = owned \cap {Default}

TakeEffect(p) ==
    /\ proc[p].pc = "states" /\ Others(p) /\ UNCHANGED <<life, closed, lock>> /\ SameSystem
    /\ \E t \in owned :
           /\ lock[t] = Nobody /\ attached' = attached \ {t} /\ owned' = owned \ {t}
           /\ proc'[p].pc = "states" /\ proc'[p].op = proc[p].op
           /\ proc'[p].t = proc[p].t
           /\ proc'[p].todo = proc[p].todo \cup (attached \cap {t})

NetsEffect(p) ==
    /\ proc[p].pc = "states" /\ owned = {} /\ Others(p)
    /\ UNCHANGED <<closed, owned, attached>> /\ SameSystem /\ LifeType'
    /\ \A o \in Object \ Nets : life'[o] = life[o]
    /\ \A o \in Nets : life[o] = "open" => life'[o] = "closed"
    /\ Took(p, {"defaultTunMu"})
    /\ \/ Default \in proc[p].todo /\ Went(p, "closeActive")
       \/ Default \notin proc[p].todo /\ Went(p, "tuns")

TunsEffect(p) ==
    /\ proc[p].pc = "tuns" /\ Others(p) /\ Went(p, "components") /\ Took(p, {})
    /\ UNCHANGED <<closed, owned, attached>> /\ SameSystem /\ LifeType'
    /\ \A o \in Object \ (proc[p].todo \ {Default}) : life'[o] = life[o]
    /\ \A o \in proc[p].todo \ {Default} : life[o] = "open" => life'[o] = "closed"

ComponentsEffect(p) ==
    /\ proc[p].pc = "components" /\ Others(p) /\ Ended(p) /\ UNCHANGED lock
    /\ UNCHANGED <<closed, owned, attached>> /\ SameSystem /\ LifeType'
    /\ \A o \in Object \ Kept : life'[o] = life[o]
    /\ \A o \in Kept : life[o] \in {"none", "open"} => life'[o] \in {"none", "closed"}

CallsEffect(p) ==
    /\ phase = "open" /\ proc[p].pc = "idle" /\ Others(p) /\ SameHost /\ SameSystem
    /\ UNCHANGED lock /\ proc'[p].todo = {} /\ proc'[p].t \in Handle
    /\ \/ /\ proc'[p].op = "build" /\ proc'[p].pc = "check" /\ proc'[p].t \in Tun
          /\ life[proc'[p].t] = "none"
          /\ \A q \in Proc : proc[q].t = proc'[p].t => proc[q].op # "build"
       \/ /\ proc'[p].op = "buildDefault" /\ proc'[p].pc = "check" /\ proc'[p].t = Default
       \/ /\ proc'[p].op \in {"set", "report", "setDNS"} /\ proc'[p].pc = "defaultTunMu"
       \/ /\ proc'[p].op = "closeSystem" /\ proc'[p].pc = "defaultTunMu"
          /\ proc'[p].t = Default
       \/ /\ proc'[p].op = "close" /\ proc'[p].t = Default /\ proc'[p].pc = "defaultTunMu"
       \/ /\ proc'[p].op = "close" /\ proc'[p].t # Default /\ proc'[p].pc = "mu"
       \/ /\ proc'[p].op \in {"io", "warnings"} /\ proc'[p].pc = "mu"

\* What a step of goroutine p does.
Effect(p) ==
    \/ CallsEffect(p) \/ CheckEffect(p) \/ CreateEffect(p) \/ PublishEffect(p)
    \/ LockDefaultEffect(p) \/ LookUpEffect(p) \/ ForgetEffect(p)
    \/ LockStateEffect(p) \/ CloseNativeEffect(p) \/ UseEffect(p) \/ EndIOEffect(p)
    \/ CreateDefaultEffect(p) \/ ConfigureEffect(p) \/ DropEffect(p)
    \/ CloseActiveEffect(p) \/ RollbackEffect(p) \/ CloseSystemEffect(p)
    \/ TakeEffect(p) \/ NetsEffect(p) \/ TunsEffect(p) \/ ComponentsEffect(p)
=============================================================================
