---------------------------- MODULE SystemOwners ----------------------------
(***************************************************************************)
(* What a step of an operation does (SystemOwnership!Effect) keeps the     *)
(* order of the operation's steps and mutexes, and the custody of the TUNs *)
(* and of the components.  The mutexes make this so: what a goroutine has  *)
(* read under them is still so when it acts on it.                         *)
(***************************************************************************)
EXTENDS SystemOwnership, TLAPS

LEMMA HoldsLock ==
    ASSUME LInv, NEW p \in Proc
    PROVE  Holds(proc[p]) \subseteq Lock
<1>1. proc[p].t \in Lock
  BY DEF LInv, ProcType, Lock
<1> QED
  BY <1>1 DEF Holds, Lock

LEMMA TookFair ==
    ASSUME NEW p \in Proc, NEW set, Took(p, set), \A l \in set : lock[l] \in {p, Nobody}
    PROVE  Fair(p)
BY SystemAssumption DEF Took, Fair

LEMMA LockFair ==
    ASSUME NEW p \in Proc, UNCHANGED lock
    PROVE  Fair(p)
BY DEF Fair

LEMMA CallKept ==
    ASSUME LInv, CallInv, NEW p \in Proc, Others(p), Shape(proc'[p]), Fair(p),
           \A l \in Holds(proc'[p]) : lock'[l] = p
    PROVE  CallInv'
<1>1. ASSUME NEW q \in Proc PROVE Shape(proc'[q]) /\ \A l \in Holds(proc'[q]) : lock'[l] = q
  <2>1. CASE q = p
    BY <2>1, Zenon
  <2>2. CASE q # p
    <3>1. proc'[q] = proc[q] /\ Shape(proc[q]) /\ \A l \in Holds(proc[q]) : lock[l] = q
      BY <2>2, Zenon DEF Others, CallInv
    <3>2. \A l \in Holds(proc[q]) : lock'[l] = q
      BY <2>2, <3>1, HoldsLock, Zenon DEF Fair
    <3> QED
      BY <3>1, <3>2, Zenon
  <2> QED
    BY <2>1, <2>2
<1> QED
  BY <1>1, Zenon DEF CallInv

\* A goroutine that has returned.
LEMMA IdleCall ==
    NoCall.pc = "idle" /\ NoCall.op = "none" /\ NoCall.todo = {} /\ NoCall.t = Default
BY DEF NoCall

LEMMA EndedCall == Shape(NoCall) /\ Holds(NoCall) = {}
BY DEF Shape, Holds, NoCall

\* A goroutine that returns, with or without mutexes.
LEMMA CallEnds ==
    ASSUME LInv, CallInv, NEW p \in Proc, Others(p), Ended(p), Took(p, {}) \/ UNCHANGED lock
    PROVE  CallInv'
<1>1. Fair(p)
  <2>1. \A l \in {} : lock[l] \in {p, Nobody}
    OBVIOUS
  <2> QED
    BY <2>1, TookFair, LockFair
<1>2. Shape(proc'[p]) /\ Holds(proc'[p]) = {}
  BY EndedCall, Zenon DEF Ended
<1> QED
  BY <1>1, <1>2, CallKept

\* A goroutine that goes on with the mutexes it has.
LEMMA CallGoes ==
    ASSUME LInv, CallInv, NEW p \in Proc, NEW pc, Others(p), UNCHANGED lock, Went(p, pc),
           Shape(proc'[p]), Holds(proc'[p]) \subseteq Holds(proc[p])
    PROVE  CallInv'
<1>1. \A l \in Holds(proc'[p]) : lock'[l] = p
  BY Zenon DEF CallInv
<1> QED
  BY <1>1, LockFair, CallKept, Zenon

LEMMA CallStep ==
    ASSUME LInv, CallInv, LifeType, NEW p \in Proc, Effect(p)
    PROVE  CallInv'
<1>0. /\ Shape(proc[p]) /\ proc[p].op \in OpName /\ proc[p].t \in Handle
      /\ \A l \in Holds(proc[p]) : lock[l] = p
  BY DEF LInv, CallInv, ProcType
<1>1. CASE CallsEffect(p)
  <2>1. Others(p) /\ UNCHANGED lock
    BY <1>1, Zenon DEF CallsEffect
  <2>2. Shape(proc'[p]) /\ Holds(proc'[p]) = {}
    BY <1>1, SystemAssumption DEF CallsEffect, Shape, Holds, Handle
  <2> QED
    BY <2>1, <2>2, LockFair, CallKept
<1>2. CASE CheckEffect(p)
  <2>1. /\ proc[p].pc = "check" /\ Others(p) /\ UNCHANGED lock
        /\ \/ Ended(p)
           \/ proc[p].op = "build" /\ Went(p, "create")
           \/ proc[p].op # "build" /\ Went(p, "defaultTunMu")
    BY <1>2, Zenon DEF CheckEffect
  <2>2. CASE proc[p].op = "build" /\ Went(p, "create")
    <3>1. Shape(proc'[p]) /\ Holds(proc'[p]) \subseteq Holds(proc[p])
      BY <1>0, <2>1, <2>2 DEF Shape, Holds, Went, OpName
    <3> QED
      BY <2>1, <2>2, <3>1, CallGoes, Zenon
  <2>3. CASE proc[p].op # "build" /\ Went(p, "defaultTunMu")
    <3>1. Shape(proc'[p]) /\ Holds(proc'[p]) \subseteq Holds(proc[p])
      BY <1>0, <2>1, <2>3 DEF Shape, Holds, Went, OpName
    <3> QED
      BY <2>1, <2>3, <3>1, CallGoes, Zenon
  <2> QED
    BY <2>1, <2>2, <2>3, CallEnds, Zenon
<1>3. CASE CreateEffect(p)
  <2>1. /\ proc[p].pc = "create" /\ Others(p) /\ UNCHANGED lock
        /\ Ended(p) \/ Went(p, "publish")
    BY <1>3, Zenon DEF CreateEffect
  <2>2. CASE Went(p, "publish")
    <3>1. Shape(proc'[p]) /\ Holds(proc'[p]) \subseteq Holds(proc[p])
      BY <1>0, <2>1, <2>2 DEF Shape, Holds, Went, OpName
    <3> QED
      BY <2>1, <2>2, <3>1, CallGoes, Zenon
  <2> QED
    BY <2>1, <2>2, CallEnds, Zenon
<1>4. CASE PublishEffect(p) \/ CloseNativeEffect(p) \/ EndIOEffect(p) \/ UseEffect(p) \/ ComponentsEffect(p)
  <2>1. Others(p) /\ Ended(p) /\ (Took(p, {}) \/ UNCHANGED lock)
    BY <1>4, Zenon DEF PublishEffect, CloseNativeEffect, EndIOEffect, UseEffect,
       ComponentsEffect
  <2> QED
    BY <2>1, CallEnds, Zenon
<1>5. CASE LockDefaultEffect(p)
  <2>1. /\ proc[p].pc = "defaultTunMu" /\ lock["defaultTunMu"] = Nobody
        /\ Others(p) /\ Went(p, "mu") /\ Took(p, {"defaultTunMu"})
    BY <1>5, Zenon DEF LockDefaultEffect
  <2>2. Shape(proc'[p]) /\ Holds(proc'[p]) \subseteq {"defaultTunMu"}
    BY <1>0, <2>1 DEF Shape, Holds, Went, OpName
  <2>3. lock'["defaultTunMu"] = p
    BY <2>1 DEF Took, Lock
  <2>4. Fair(p)
    BY <2>1, TookFair
  <2> QED
    BY <2>1, <2>2, <2>3, <2>4, CallKept
<1>6. CASE LookUpEffect(p)
  <2>1. /\ proc[p].pc = "mu" /\ lock["mu"] = Nobody /\ Others(p)
        /\ proc[p].op \in {"set", "report", "io", "setDNS", "warnings"}
        /\ \/ Ended(p) /\ Took(p, {})
           \/ /\ Went(p, "state")
              /\ \E set \in SUBSET {"mu"} : /\ Took(p, HeldBy(p) \cup set)
                                            /\ proc[p].op = "set" => "mu" \in set
    BY <1>6, Zenon DEF LookUpEffect
  <2>2. ASSUME Went(p, "state"), NEW set \in SUBSET {"mu"}, Took(p, HeldBy(p) \cup set),
               proc[p].op = "set" => "mu" \in set
        PROVE  CallInv'
    <3>1. Fair(p)
      <4>1. \A l \in HeldBy(p) \cup set : lock[l] \in {p, Nobody}
        BY <2>1, <2>2, Zenon DEF HeldBy
      <4> QED
        BY <2>2, <4>1, TookFair, Zenon
    <3>2. Shape(proc'[p])
      BY <1>0, <2>1, <2>2 DEF Shape, Went
    <3>3. \A l \in Holds(proc'[p]) : lock'[l] = p
      <4>1. CASE proc[p].op = "set"
        <5>1. lock["defaultTunMu"] = p /\ "defaultTunMu" \in Lock /\ "mu" \in Lock
          BY <1>0, <2>1, <4>1 DEF Holds, Lock
        <5>2. Holds(proc'[p]) = {"defaultTunMu", "mu"}
          BY <2>2, <4>1 DEF Holds, Went
        <5> QED
          BY <2>2, <4>1, <5>1, <5>2 DEF Took, HeldBy
      <4>2. CASE proc[p].op # "set"
        BY <2>2, <4>2 DEF Holds, Went
      <4> QED
        BY <4>1, <4>2
    <3> QED
      BY <2>1, <3>1, <3>2, <3>3, CallKept
  <2> QED
    BY <2>1, <2>2, CallEnds, Zenon
<1>7. CASE ForgetEffect(p)
  <2>1. /\ proc[p].pc = "mu" /\ proc[p].op = "close" /\ lock["mu"] = Nobody /\ Others(p)
        /\ \/ Ended(p) /\ Took(p, {})
           \/ proc[p].t = Default /\ Went(p, "closeActive") /\ UNCHANGED lock
           \/ proc[p].t # Default /\ Went(p, "state") /\ Took(p, {"mu"})
    BY <1>7, Zenon DEF ForgetEffect
  <2>2. CASE proc[p].t = Default /\ Went(p, "closeActive") /\ UNCHANGED lock
    <3>1. Shape(proc'[p]) /\ Holds(proc'[p]) \subseteq Holds(proc[p])
      BY <1>0, <2>1, <2>2 DEF Shape, Holds, Went
    <3> QED
      BY <2>1, <2>2, <3>1, CallGoes, Zenon
  <2>3. CASE proc[p].t # Default /\ Went(p, "state") /\ Took(p, {"mu"})
    <3>1. Shape(proc'[p]) /\ Holds(proc'[p]) = {}
      BY <1>0, <2>1, <2>3 DEF Shape, Holds, Went
    <3>2. Fair(p)
      BY <2>1, <2>3, TookFair
    <3> QED
      BY <2>1, <3>1, <3>2, CallKept
  <2> QED
    BY <2>1, <2>2, <2>3, CallEnds, Zenon
<1>8. CASE LockStateEffect(p)
  <2>1. /\ proc[p].pc = "state" /\ lock[proc[p].t] = Nobody /\ Others(p)
        /\ \/ Ended(p) /\ Took(p, {})
           \/ /\ proc[p].op = "set" /\ Went(p, "use")
              /\ Took(p, {"defaultTunMu", proc[p].t})
           \/ proc[p].op = "close" /\ Went(p, "closeNative") /\ Took(p, {})
           \/ /\ proc[p].op \notin {"set", "close", "report", "setDNS"}
              /\ Went(p, "io") /\ Took(p, {})
    BY <1>8, Zenon DEF LockStateEffect
  <2>2. CASE proc[p].op = "set" /\ Went(p, "use") /\ Took(p, {"defaultTunMu", proc[p].t})
    <3>1. lock["defaultTunMu"] = p
      BY <1>0, <2>1, <2>2 DEF Holds
    <3>2. Fair(p)
      BY <2>1, <2>2, <3>1, TookFair
    <3>3. Shape(proc'[p]) /\ Holds(proc'[p]) = {proc[p].t}
      BY <1>0, <2>1, <2>2 DEF Shape, Holds, Went
    <3>4. lock'[proc[p].t] = p
      BY <1>0, <2>2, Zenon DEF Took, Lock
    <3> QED
      BY <2>1, <3>2, <3>3, <3>4, CallKept
  <2>3. CASE /\ Took(p, {})
             /\ \/ proc[p].op = "close" /\ Went(p, "closeNative")
                \/ proc[p].op \notin {"set", "close", "report", "setDNS"} /\ Went(p, "io")
    <3>1. Shape(proc'[p]) /\ Holds(proc'[p]) = {}
      BY <1>0, <2>1, <2>3 DEF Shape, Holds, Went, OpName
    <3>2. Fair(p)
      BY <2>3, TookFair
    <3> QED
      BY <2>1, <3>1, <3>2, CallKept
  <2> QED
    BY <2>1, <2>2, <2>3, CallEnds, Zenon
<1>9. CASE CreateDefaultEffect(p)
  <2>1. /\ proc[p].pc = "mu" /\ proc[p].op = "buildDefault" /\ Others(p)
        /\ \/ Ended(p) /\ Took(p, {})
           \/ Went(p, "configure") /\ UNCHANGED lock
    BY <1>9, Zenon DEF CreateDefaultEffect
  <2>2. CASE Went(p, "configure") /\ UNCHANGED lock
    <3>1. Shape(proc'[p]) /\ Holds(proc'[p]) \subseteq Holds(proc[p])
      BY <1>0, <2>1, <2>2 DEF Shape, Holds, Went
    <3> QED
      BY <2>1, <2>2, <3>1, CallGoes, Zenon
  <2> QED
    BY <2>1, <2>2, CallEnds, Zenon
<1>10. CASE ConfigureEffect(p)
  <2>1. /\ proc[p].pc = "configure" /\ Others(p)
        /\ \/ Ended(p) /\ Took(p, {})
           \/ Went(p, "drop") /\ UNCHANGED lock
    BY <1>10, Zenon DEF ConfigureEffect
  <2>2. CASE Went(p, "drop") /\ UNCHANGED lock
    <3>1. Shape(proc'[p]) /\ Holds(proc'[p]) \subseteq Holds(proc[p])
      BY <1>0, <2>1, <2>2 DEF Shape, Holds, Went, OpName
    <3> QED
      BY <2>1, <2>2, <3>1, CallGoes, Zenon
  <2> QED
    BY <2>1, <2>2, CallEnds, Zenon
<1>11. CASE DropEffect(p)
  <2>1. proc[p].pc = "drop" /\ Others(p) /\ Went(p, "closeActive") /\ UNCHANGED lock
    BY <1>11, Zenon DEF DropEffect
  <2>2. Shape(proc'[p]) /\ Holds(proc'[p]) \subseteq Holds(proc[p])
    BY <1>0, <2>1 DEF Shape, Holds, Went, OpName
  <2> QED
    BY <2>1, <2>2, CallGoes, Zenon
<1>12. CASE CloseActiveEffect(p)
  <2>1. proc[p].pc = "closeActive" /\ Others(p) /\ Went(p, "rollback") /\ UNCHANGED lock
    BY <1>12, Zenon DEF CloseActiveEffect
  <2>2. Shape(proc'[p]) /\ Holds(proc'[p]) \subseteq Holds(proc[p])
    BY <1>0, <2>1 DEF Shape, Holds, Went, OpName
  <2> QED
    BY <2>1, <2>2, CallGoes, Zenon
<1>13. CASE RollbackEffect(p)
  <2>1. /\ proc[p].pc = "rollback" /\ Others(p)
        /\ \/ proc[p].op = "closeSystem" /\ Went(p, "tuns") /\ UNCHANGED lock
           \/ Ended(p) /\ Took(p, {})
    BY <1>13, Zenon DEF RollbackEffect
  <2>2. CASE proc[p].op = "closeSystem" /\ Went(p, "tuns") /\ UNCHANGED lock
    <3>1. Shape(proc'[p]) /\ Holds(proc'[p]) \subseteq Holds(proc[p])
      BY <1>0, <2>1, <2>2 DEF Shape, Holds, Went
    <3> QED
      BY <2>1, <2>2, <3>1, CallGoes, Zenon
  <2> QED
    BY <2>1, <2>2, CallEnds, Zenon
<1>14. CASE CloseSystemEffect(p)
  <2>1. /\ proc[p].pc = "mu" /\ proc[p].op = "closeSystem" /\ lock["mu"] = Nobody /\ Others(p)
        /\ \/ Ended(p) /\ Took(p, {})
           \/ /\ Took(p, {"defaultTunMu", "mu"})
              /\ proc'[p].pc = "states" /\ proc'[p].op = "closeSystem" /\ proc'[p].t = proc[p].t
    BY <1>14, Zenon DEF CloseSystemEffect
  <2>2. CASE /\ Took(p, {"defaultTunMu", "mu"})
             /\ proc'[p].pc = "states" /\ proc'[p].op = "closeSystem" /\ proc'[p].t = proc[p].t
    <3>1. lock["defaultTunMu"] = p
      BY <1>0, <2>1 DEF Holds
    <3>2. Fair(p)
      BY <2>1, <2>2, <3>1, TookFair
    <3>3. Shape(proc'[p]) /\ Holds(proc'[p]) = {"defaultTunMu", "mu"}
      BY <1>0, <2>1, <2>2 DEF Shape, Holds
    <3>4. lock'["defaultTunMu"] = p /\ lock'["mu"] = p
      BY <2>2 DEF Took, Lock
    <3> QED
      BY <2>1, <3>2, <3>3, <3>4, CallKept
  <2> QED
    BY <2>1, <2>2, CallEnds, Zenon
<1>15. CASE TakeEffect(p)
  <2>1. /\ proc[p].pc = "states" /\ Others(p) /\ UNCHANGED lock
        /\ proc'[p].pc = "states" /\ proc'[p].op = proc[p].op /\ proc'[p].t = proc[p].t
    BY <1>15, Zenon DEF TakeEffect
  <2>2. Shape(proc'[p]) /\ Holds(proc'[p]) = Holds(proc[p])
    BY <1>0, <2>1 DEF Shape, Holds, OpName
  <2> QED
    BY <1>0, <2>1, <2>2, LockFair, CallKept, Zenon
<1>16. CASE NetsEffect(p)
  <2>1. /\ proc[p].pc = "states" /\ Others(p) /\ Took(p, {"defaultTunMu"})
        /\ \/ Default \in proc[p].todo /\ Went(p, "closeActive")
           \/ Default \notin proc[p].todo /\ Went(p, "tuns")
    BY <1>16, Zenon DEF NetsEffect
  <2>2. lock["defaultTunMu"] = p
    BY <1>0, <2>1 DEF Holds
  <2>3. Fair(p)
    BY <2>1, <2>2, TookFair
  <2>4. Shape(proc'[p]) /\ Holds(proc'[p]) = {"defaultTunMu"}
    BY <1>0, <2>1 DEF Shape, Holds, Went, OpName
  <2>5. lock'["defaultTunMu"] = p
    BY <2>1 DEF Took, Lock
  <2> QED
    BY <2>1, <2>3, <2>4, <2>5, CallKept
<1>17. CASE TunsEffect(p)
  <2>1. proc[p].pc = "tuns" /\ Others(p) /\ Went(p, "components") /\ Took(p, {})
    BY <1>17, Zenon DEF TunsEffect
  <2>2. Shape(proc'[p]) /\ Holds(proc'[p]) = {}
    BY <1>0, <2>1 DEF Shape, Holds, Went, OpName
  <2>3. Fair(p)
    BY <2>1, TookFair
  <2> QED
    BY <2>1, <2>2, <2>3, CallKept
<1> QED
  BY <1>1, <1>2, <1>3, <1>4, <1>5, <1>6, <1>7, <1>8, <1>9, <1>10, <1>11, <1>12,
     <1>13, <1>14, <1>15, <1>16, <1>17, Zenon DEF Effect

LEMMA Disjoint == Handle \cap Component = {} /\ Handle \subseteq Object /\ Nets \subseteq Component
                  /\ Kept \subseteq Component /\ Default \in Handle
BY SystemAssumption DEF Handle, Component, Object, Nets, Kept

----------------------------------------------------------------------------
(* The TUNs and their custody.                                             *)

LEMMA CustodyType ==
    ASSUME LInv, NEW p \in Proc
    PROVE  Custody(proc[p]) \subseteq Handle /\ Detached(proc[p]) \subseteq Custody(proc[p])
<1>1. proc[p].t \in Handle /\ proc[p].todo \subseteq Handle /\ Default \in Handle
  BY DEF LInv, ProcType, Handle
<1> QED
  BY <1>1 DEF Custody, Detached, Closing

\* A step of p keeps HandleInv when p's own part of it holds afterwards and p has
\* changed nothing but what it may touch.
LEMMA HandleKept ==
    ASSUME LInv, HandleInv, NEW p \in Proc, Others(p),
           owned' \subseteq attached', attached' \subseteq OpenTuns',
           \A h \in Handle : life'[h] \in {"none", "open", "closed"},
           Custody(proc'[p]) \subseteq OpenTuns' \ owned',
           Detached(proc'[p]) \cap attached' = {},
           Closing(proc'[p]) => proc'[p].t \in attached',
           \A h \in OpenTuns : h \notin Custody(proc[p]) => h \in OpenTuns',
           owned' \subseteq owned \cup Touched(p),
           attached' \subseteq attached \cup Touched(p),
           attached \subseteq attached' \cup owned \cup Custody(proc[p]),
           Custody(proc'[p]) \subseteq Touched(p),
           \A h \in OpenTuns' : \/ h \in owned' \cup Custody(proc'[p])
                                \/ h \in OpenTuns \ (owned \cup Custody(proc[p]))
    PROVE  HandleInv'
<1>1. ASSUME NEW q \in Proc, q # p
      PROVE  /\ proc'[q] = proc[q] /\ Custody(proc[q]) \subseteq OpenTuns \ owned
             /\ Detached(proc[q]) \cap attached = {}
             /\ Closing(proc[q]) => proc[q].t \in attached
             /\ Custody(proc[q]) \cap Custody(proc[p]) = {}
             /\ Detached(proc[q]) \subseteq Custody(proc[q])
             /\ Closing(proc[q]) => proc[q].t \in Custody(proc[q])
  <2>1. Closing(proc[q]) => proc[q].t \in Custody(proc[q])
    BY DEF Custody
  <2> QED
    BY <1>1, <2>1, CustodyType DEF HandleInv, Others
<1>2. ASSUME NEW q \in Proc, q # p PROVE Custody(proc[q]) \cap Touched(p) = {}
  BY <1>1, <1>2 DEF Touched
<1>3. ASSUME NEW q \in Proc, q # p
      PROVE  /\ Custody(proc'[q]) \subseteq OpenTuns' \ owned'
             /\ Detached(proc'[q]) \cap attached' = {}
             /\ Closing(proc'[q]) => proc'[q].t \in attached'
             /\ Custody(proc'[q]) \cap Custody(proc'[p]) = {}
  <2>1. PICK c : c = proc[q]
    OBVIOUS
  <2>2. proc'[q] = c
    BY <1>1, <1>3, <2>1
  <2>3. /\ Custody(c) \subseteq OpenTuns \ owned /\ Detached(c) \cap attached = {}
        /\ Closing(c) => c.t \in attached
        /\ Custody(c) \cap Custody(proc[p]) = {} /\ Detached(c) \subseteq Custody(c)
        /\ Closing(c) => c.t \in Custody(c)
        /\ Custody(c) \cap Touched(p) = {}
    BY <1>1, <1>2, <1>3, <2>1
  <2>4. Custody(c) \subseteq OpenTuns' \ owned'
    BY <2>3
  <2>5. Detached(c) \cap attached' = {} /\ (Closing(c) => c.t \in attached')
    BY <2>3
  <2>6. Custody(c) \cap Custody(proc'[p]) = {}
    BY <2>3
  <2> QED
    BY <2>2, <2>4, <2>5, <2>6
<1>4. ASSUME NEW q \in Proc, NEW r \in Proc, q # r
      PROVE  Custody(proc'[q]) \cap Custody(proc'[r]) = {}
  <2>1. CASE q # p /\ r # p
    BY <1>1, <1>4, <2>1 DEF HandleInv
  <2> QED
    BY <1>3, <1>4, <2>1
<1>5. ASSUME NEW h \in OpenTuns'
      PROVE  h \in owned' \/ \E q \in Proc : h \in Custody(proc'[q])
  <2>1. CASE h \in OpenTuns \ (owned \cup Custody(proc[p]))
    <3>1. PICK q \in Proc : h \in Custody(proc[q])
      BY <2>1 DEF HandleInv
    <3>2. q # p
      BY <2>1, <3>1
    <3> QED
      BY <1>1, <3>1, <3>2
  <2> QED
    BY <2>1
<1> QED
  BY <1>3, <1>4, <1>5, Zenon DEF HandleInv

\* A step that changes nothing the System holds and moves no TUN.
LEMMA HandleQuiet ==
    ASSUME LInv, HandleInv, NEW p \in Proc, Others(p), UNCHANGED <<owned, attached>>,
           \A h \in Handle : life'[h] = life[h],
           Custody(proc'[p]) = Custody(proc[p]), Detached(proc'[p]) = Detached(proc[p]),
           ~Closing(proc'[p])
    PROVE  HandleInv'
<1>1. OpenTuns' = OpenTuns
  BY DEF OpenTuns
<1>2. /\ Custody(proc[p]) \subseteq OpenTuns \ owned /\ Detached(proc[p]) \cap attached = {}
      /\ owned \subseteq attached /\ attached \subseteq OpenTuns
      /\ \A h \in Handle : life[h] \in {"none", "open", "closed"}
  BY DEF HandleInv
<1> QED
  BY <1>1, <1>2, HandleKept DEF Touched

LEMMA EndedCustody ==
    Custody(NoCall) = {} /\ Detached(NoCall) = {} /\ ~Closing(NoCall)
BY DEF Custody, Detached, Closing, NoCall

\* The steps that leave every TUN where it is.
LEMMA HandleStill ==
    ASSUME LInv, CallInv, LifeType, HandleInv, NEW p \in Proc,
           \/ CallsEffect(p) \/ CheckEffect(p) \/ LockDefaultEffect(p) \/ LookUpEffect(p) \/ UseEffect(p)
           \/ EndIOEffect(p) \/ ConfigureEffect(p) \/ NetsEffect(p) \/ ComponentsEffect(p)
    PROVE  HandleInv'
<1>0. Shape(proc[p]) /\ proc[p].op \in OpName
  BY DEF LInv, CallInv, ProcType
<1>1. CASE \/ CallsEffect(p) \/ CheckEffect(p) \/ LockDefaultEffect(p) \/ LookUpEffect(p)
           \/ UseEffect(p) \/ EndIOEffect(p) \/ ConfigureEffect(p)
  <2>1. Others(p) /\ SameHost
    BY <1>1, Zenon DEF CallsEffect, CheckEffect, LockDefaultEffect, LookUpEffect, UseEffect,
       EndIOEffect, ConfigureEffect
  <2>2. proc[p].pc \in {"idle", "check", "defaultTunMu", "mu", "use", "io", "configure"}
    BY <1>1, Zenon DEF CallsEffect, CheckEffect, LockDefaultEffect, LookUpEffect, UseEffect,
       EndIOEffect, ConfigureEffect
  <2>3. \/ Ended(p)
        \/ proc'[p].pc \in {"check", "create", "defaultTunMu", "mu", "drop"}
        \/ proc'[p].pc = "state" /\ proc'[p].op # "close"
    BY <1>1, Zenon DEF CallsEffect, CheckEffect, LockDefaultEffect, LookUpEffect, UseEffect,
       EndIOEffect, ConfigureEffect, Went
  <2>4. Custody(proc[p]) = {} /\ Detached(proc[p]) = {}
    BY <2>2 DEF Custody, Detached, Closing
  <2>5. Custody(proc'[p]) = {} /\ Detached(proc'[p]) = {} /\ ~Closing(proc'[p])
    BY <2>3, EndedCustody DEF Custody, Detached, Closing, Ended
  <2> QED
    BY <2>1, <2>4, <2>5, HandleQuiet DEF SameHost
<1>2. CASE NetsEffect(p)
  <2>1. /\ proc[p].pc = "states" /\ Others(p) /\ UNCHANGED <<owned, attached>>
        /\ \A o \in Object \ Nets : life'[o] = life[o]
        /\ \/ Default \in proc[p].todo /\ Went(p, "closeActive")
           \/ Default \notin proc[p].todo /\ Went(p, "tuns")
    BY <1>2, Zenon DEF NetsEffect
  <2>2. /\ Custody(proc'[p]) = Custody(proc[p]) /\ Detached(proc'[p]) = Detached(proc[p])
        /\ ~Closing(proc'[p])
    BY <2>1, Zenon DEF Custody, Detached, Closing, Went
  <2>3. \A h \in Handle : life'[h] = life[h]
    BY <2>1, Disjoint, Zenon
  <2> QED
    BY <2>1, <2>2, <2>3, HandleQuiet, Zenon
<1>3. CASE ComponentsEffect(p)
  <2>1. /\ proc[p].pc = "components" /\ Others(p) /\ Ended(p) /\ UNCHANGED <<owned, attached>>
        /\ \A o \in Object \ Kept : life'[o] = life[o]
    BY <1>3, Zenon DEF ComponentsEffect
  <2>2. /\ Custody(proc'[p]) = Custody(proc[p]) /\ Detached(proc'[p]) = Detached(proc[p])
        /\ ~Closing(proc'[p])
    BY <2>1, EndedCustody DEF Custody, Detached, Closing, Ended
  <2>3. \A h \in Handle : life'[h] = life[h]
    BY <2>1, Disjoint
  <2> QED
    BY <2>1, <2>2, <2>3, HandleQuiet
<1> QED
  BY <1>1, <1>2, <1>3

\* BuildTun makes a TUN and publishes it; regularTun.Close takes it out and closes it.
LEMMA HandleRegular ==
    ASSUME LInv, CallInv, LifeType, HandleInv, BuildInv, NEW p \in Proc,
           \/ CreateEffect(p) \/ PublishEffect(p) \/ ForgetEffect(p) \/ LockStateEffect(p) \/ CloseNativeEffect(p)
    PROVE  HandleInv'
<1> DEFINE t == proc[p].t
<1>0. /\ Shape(proc[p]) /\ proc[p].op \in OpName /\ t \in Handle
      /\ owned \subseteq attached /\ attached \subseteq OpenTuns
      /\ \A h \in Handle : life[h] \in {"none", "open", "closed"}
      /\ Custody(proc[p]) \subseteq OpenTuns \ owned /\ Detached(proc[p]) \cap attached = {}
      /\ Closing(proc[p]) => t \in attached
      /\ OpenTuns \subseteq Handle
  BY DEF LInv, CallInv, ProcType, HandleInv, OpenTuns
<1> HIDE DEF t
<1>1. CASE CreateEffect(p)
  <2>1. /\ proc[p].pc = "create" /\ Others(p) /\ UNCHANGED <<owned, attached>>
        /\ \A o \in Object : o # t => life'[o] = life[o]
        /\ \/ life'[t] = "open" /\ Went(p, "publish")
           \/ life'[t] \in {life[t], "closed"} /\ Ended(p)
    BY <1>1, Zenon DEF CreateEffect, t
  <2>2. life[t] = "none"
    BY <1>0, <2>1 DEF Shape, BuildInv, Building, OpName, t
  <2>3. Custody(proc[p]) = {} /\ Detached(proc[p]) = {} /\ t \notin OpenTuns
    BY <2>1, <2>2 DEF Custody, Detached, Closing, OpenTuns
  <2>4. \A h \in Handle : h # t => life'[h] = life[h]
    BY <2>1, Disjoint
  <2>5. CASE life'[t] = "open" /\ Went(p, "publish")
    <3>1. Custody(proc'[p]) = {t} /\ Detached(proc'[p]) = {t} /\ ~Closing(proc'[p])
      BY <2>5 DEF Custody, Detached, Closing, Went, t
    <3>2. OpenTuns' = OpenTuns \cup {t}
      BY <1>0, <2>4, <2>5 DEF OpenTuns
    <3>3. \A h \in Handle : life'[h] \in {"none", "open", "closed"}
      BY <1>0, <2>4, <2>5
    <3> QED
      BY <1>0, <2>1, <2>3, <3>1, <3>2, <3>3, HandleKept DEF Touched
  <2>6. CASE life'[t] \in {life[t], "closed"} /\ Ended(p)
    <3>1. Custody(proc'[p]) = {} /\ Detached(proc'[p]) = {} /\ ~Closing(proc'[p])
      BY <2>6, EndedCustody, Zenon DEF Ended
    <3>2. OpenTuns' = OpenTuns
      BY <1>0, <2>2, <2>4, <2>6 DEF OpenTuns
    <3>3. \A h \in Handle : life'[h] \in {"none", "open", "closed"}
      BY <1>0, <2>2, <2>4, <2>6
    <3> QED
      BY <1>0, <2>1, <2>3, <3>1, <3>2, <3>3, HandleKept DEF Touched
  <2> QED
    BY <2>1, <2>5, <2>6
<1>2. CASE PublishEffect(p)
  <2>1. /\ proc[p].pc = "publish" /\ Others(p) /\ Ended(p)
        /\ \A o \in Object : o # t => life'[o] = life[o]
        /\ \/ /\ UNCHANGED <<owned, attached>>
              /\ life[t] = "open" => life'[t] = "closed"
           \/ life' = life /\ owned' = owned \cup {t} /\ attached' = attached \cup {t}
    BY <1>2, Zenon DEF PublishEffect, t
  <2>2. Custody(proc[p]) = {t} /\ Detached(proc[p]) = {t}
    BY <2>1 DEF Custody, Detached, t
  <2>3. Custody(proc'[p]) = {} /\ Detached(proc'[p]) = {} /\ ~Closing(proc'[p])
    BY <2>1, EndedCustody, Zenon DEF Ended
  <2>4. \A h \in Handle : h # t => life'[h] = life[h]
    BY <2>1, Disjoint
  <2>5. life[t] = "open" /\ t \notin attached
    BY <1>0, <2>2 DEF OpenTuns
  <2>6. CASE UNCHANGED <<owned, attached>> /\ life'[t] = "closed"
    <3>1. OpenTuns' = OpenTuns \ {t}
      BY <1>0, <2>4, <2>6 DEF OpenTuns
    <3>2. \A h \in Handle : life'[h] \in {"none", "open", "closed"}
      BY <1>0, <2>4, <2>6, Zenon
    <3> QED
      BY <1>0, <2>1, <2>2, <2>3, <2>5, <2>6, <3>1, <3>2, HandleKept, Zenon DEF Touched
  <2>7. CASE life' = life /\ owned' = owned \cup {t} /\ attached' = attached \cup {t}
    <3>1. OpenTuns' = OpenTuns /\ t \in OpenTuns
      BY <1>0, <2>5, <2>7 DEF OpenTuns
    <3>2. \A h \in Handle : life'[h] \in {"none", "open", "closed"}
      BY <1>0, <2>7
    <3> QED
      BY <1>0, <2>1, <2>2, <2>3, <2>7, <3>1, <3>2, HandleKept, Zenon DEF Touched
  <2> QED
    BY <2>1, <2>5, <2>6, <2>7
<1>3. CASE ForgetEffect(p)
  <2>1. /\ proc[p].pc = "mu" /\ proc[p].op = "close" /\ Others(p) /\ UNCHANGED <<life, attached>>
        /\ \/ Ended(p) /\ UNCHANGED owned
           \/ /\ t \in owned /\ owned' = owned \ {t}
              /\ \/ t = Default /\ Went(p, "closeActive")
                 \/ t # Default /\ Went(p, "state")
    BY <1>3, Zenon DEF ForgetEffect, t
  <2>2. Custody(proc[p]) = {} /\ Detached(proc[p]) = {} /\ proc[p].todo = {}
    BY <1>0, <2>1, Zenon DEF Custody, Detached, Closing, Shape
  <2>3. OpenTuns' = OpenTuns /\ \A h \in Handle : life'[h] \in {"none", "open", "closed"}
    BY <1>0, <2>1, Zenon DEF OpenTuns
  <2>4. CASE Ended(p) /\ UNCHANGED owned
    <3>1. Custody(proc'[p]) = {} /\ Detached(proc'[p]) = {} /\ ~Closing(proc'[p])
      BY <2>4, EndedCustody, Zenon DEF Ended
    <3> QED
      BY <2>1, <2>2, <2>4, <3>1, HandleQuiet, Zenon
  <2>5. CASE /\ t \in owned /\ owned' = owned \ {t}
             /\ \/ t = Default /\ Went(p, "closeActive")
                \/ t # Default /\ Went(p, "state")
    <3>1. Custody(proc'[p]) = {t} /\ Detached(proc'[p]) = {}
      BY <2>1, <2>2, <2>5, Zenon DEF Custody, Detached, Closing, Went, t
    <3>2. proc'[p].t = t
      BY <2>5, Zenon DEF Went, t
    <3> QED
      BY <1>0, <2>1, <2>2, <2>3, <2>5, <3>1, <3>2, HandleKept, Zenon DEF Touched
  <2> QED
    BY <2>1, <2>4, <2>5
<1>4. CASE LockStateEffect(p)
  <2>1. /\ proc[p].pc = "state" /\ Others(p) /\ UNCHANGED <<life, owned>>
        /\ attached' = IF proc[p].op = "close" THEN attached \ {t} ELSE attached
        /\ \/ Ended(p) /\ (t \notin attached \/ proc[p].op \in {"report", "setDNS"})
           \/ proc[p].op = "set" /\ Went(p, "use")
           \/ proc[p].op = "close" /\ Went(p, "closeNative")
           \/ proc[p].op \notin {"set", "close", "report", "setDNS"} /\ Went(p, "io")
    BY <1>4, Zenon DEF LockStateEffect, t
  <2>2. OpenTuns' = OpenTuns /\ \A h \in Handle : life'[h] \in {"none", "open", "closed"}
    BY <1>0, <2>1, Zenon DEF OpenTuns
  <2>3. CASE proc[p].op = "close"
    <3>1. Custody(proc[p]) = {t} /\ Detached(proc[p]) = {} /\ t \in attached
      BY <1>0, <2>1, <2>3, Zenon DEF Custody, Detached, Closing, t
    <3>2. Went(p, "closeNative") /\ attached' = attached \ {t}
      BY <2>1, <2>3, <3>1, Zenon
    <3>3. Custody(proc'[p]) = {t} /\ Detached(proc'[p]) = {t} /\ ~Closing(proc'[p])
      BY <3>2 DEF Custody, Detached, Closing, Went, t
    <3> QED
      BY <1>0, <2>1, <2>2, <3>1, <3>2, <3>3, HandleKept, Zenon DEF Touched
  <2>4. CASE proc[p].op # "close"
    <3>1. Custody(proc[p]) = {} /\ Detached(proc[p]) = {}
      BY <2>1, <2>4, Zenon DEF Custody, Detached, Closing
    <3>2. Custody(proc'[p]) = {} /\ Detached(proc'[p]) = {} /\ ~Closing(proc'[p])
      BY <2>1, <2>4, EndedCustody, Zenon DEF Custody, Detached, Closing, Went, Ended
    <3> QED
      BY <2>1, <2>4, <3>1, <3>2, HandleQuiet, Zenon
  <2> QED
    BY <2>3, <2>4, Zenon
<1>5. CASE CloseNativeEffect(p)
  <2>1. /\ proc[p].pc = "closeNative" /\ Others(p) /\ Ended(p) /\ UNCHANGED <<owned, attached>>
        /\ \A o \in Object : o # t => life'[o] = life[o]
        /\ life[t] = "open" => life'[t] = "closed"
    BY <1>5, Zenon DEF CloseNativeEffect, t
  <2>2. Custody(proc[p]) = {t} /\ Detached(proc[p]) = {t}
    BY <2>1, Zenon DEF Custody, Detached, t
  <2>3. Custody(proc'[p]) = {} /\ Detached(proc'[p]) = {} /\ ~Closing(proc'[p])
    BY <2>1, EndedCustody, Zenon DEF Ended
  <2>4. \A h \in Handle : h # t => life'[h] = life[h]
    BY <2>1, Disjoint, Zenon
  <2>5. life'[t] = "closed" /\ t \notin attached
    BY <1>0, <2>1, <2>2 DEF OpenTuns
  <2>6. OpenTuns' = OpenTuns \ {t}
    BY <1>0, <2>4, <2>5 DEF OpenTuns
  <2>7. \A h \in Handle : life'[h] \in {"none", "open", "closed"}
    BY <1>0, <2>4, <2>5
  <2> QED
    BY <1>0, <2>1, <2>2, <2>3, <2>5, <2>6, <2>7, HandleKept, Zenon DEF Touched
<1> QED
  BY <1>1, <1>2, <1>3, <1>4, <1>5

\* The default TUN, and the TUNs System.Close takes over.
LEMMA HandleDefault ==
    ASSUME LInv, CallInv, LifeType, HandleInv, CloserInv, NEW p \in Proc,
           \/ CreateDefaultEffect(p) \/ DropEffect(p) \/ CloseActiveEffect(p)
           \/ RollbackEffect(p) \/ CloseSystemEffect(p) \/ TakeEffect(p) \/ TunsEffect(p)
    PROVE  HandleInv'
<1> DEFINE todo == proc[p].todo
<1>0. /\ Shape(proc[p]) /\ proc[p].op \in OpName /\ todo \subseteq Handle /\ Default \in Handle
      /\ owned \subseteq attached /\ attached \subseteq OpenTuns
      /\ \A h \in Handle : life[h] \in {"none", "open", "closed"}
      /\ Custody(proc[p]) \subseteq OpenTuns \ owned /\ Detached(proc[p]) \cap attached = {}
      /\ OpenTuns \subseteq Handle
  BY Disjoint DEF LInv, CallInv, ProcType, HandleInv, OpenTuns
<1> HIDE DEF todo
<1>1. CASE CreateDefaultEffect(p)
  <2>1. /\ proc[p].pc = "mu" /\ proc[p].op = "buildDefault" /\ Others(p)
        /\ \A o \in Object : o # Default => life'[o] = life[o]
        /\ \/ /\ UNCHANGED <<life, owned, attached>>
              /\ Ended(p) \/ Went(p, "configure")
           \/ /\ life[Default] = "none" /\ life'[Default] = "open" /\ Went(p, "configure")
              /\ owned' = owned \cup {Default} /\ attached' = attached \cup {Default}
    BY <1>1, Zenon DEF CreateDefaultEffect
  <2>2. Custody(proc[p]) = {} /\ Detached(proc[p]) = {}
    BY <2>1, Zenon DEF Custody, Detached, Closing
  <2>3. Custody(proc'[p]) = {} /\ Detached(proc'[p]) = {} /\ ~Closing(proc'[p])
    BY <2>1, EndedCustody, Zenon DEF Custody, Detached, Closing, Ended, Went
  <2>4. CASE UNCHANGED <<life, owned, attached>>
    BY <2>1, <2>2, <2>3, <2>4, HandleQuiet, Zenon
  <2>5. CASE /\ life[Default] = "none" /\ life'[Default] = "open"
             /\ owned' = owned \cup {Default} /\ attached' = attached \cup {Default}
    <3>1. \A h \in Handle : h # Default => life'[h] = life[h]
      BY <2>1, Disjoint, Zenon
    <3>2. OpenTuns' = OpenTuns \cup {Default} /\ Default \notin OpenTuns
      BY <1>0, <2>5, <3>1, Zenon DEF OpenTuns
    <3>3. \A h \in Handle : life'[h] \in {"none", "open", "closed"}
      BY <1>0, <2>5, <3>1
    <3> QED
      BY <1>0, <2>1, <2>2, <2>3, <2>5, <3>2, <3>3, HandleKept, Zenon DEF Touched
  <2> QED
    BY <2>1, <2>4, <2>5
<1>2. CASE DropEffect(p)
  <2>1. /\ proc[p].pc = "drop" /\ Others(p) /\ Went(p, "closeActive")
        /\ UNCHANGED <<life, attached>> /\ owned' = owned \ {Default}
    BY <1>2, Zenon DEF DropEffect
  <2>2. Custody(proc[p]) = {} /\ Detached(proc[p]) = {} /\ todo = {}
    BY <1>0, <2>1, Zenon DEF Custody, Detached, Closing, Shape, todo, OpName
  <2>3. Custody(proc'[p]) = {Default} /\ Detached(proc'[p]) = {} /\ ~Closing(proc'[p])
    BY <2>1, <2>2, Zenon DEF Custody, Detached, Closing, Went, todo
  <2>4. Default \in owned
    BY <2>1, Zenon DEF CloserInv
  <2>5. OpenTuns' = OpenTuns /\ \A h \in Handle : life'[h] \in {"none", "open", "closed"}
    BY <1>0, <2>1, Zenon DEF OpenTuns
  <2> QED
    BY <1>0, <2>1, <2>2, <2>3, <2>4, <2>5, HandleKept, Zenon DEF Touched
<1>3. CASE CloseActiveEffect(p)
  <2>1. /\ proc[p].pc = "closeActive" /\ Others(p) /\ Went(p, "rollback")
        /\ UNCHANGED <<life, owned>> /\ attached' = attached \ {Default}
    BY <1>3, Zenon DEF CloseActiveEffect
  <2>2. Custody(proc[p]) = todo \cup {Default} /\ Detached(proc[p]) = todo \ {Default}
    BY <2>1, Zenon DEF Custody, Detached, Closing, todo
  <2>3. /\ Custody(proc'[p]) = todo \cup {Default} /\ Detached(proc'[p]) = todo \cup {Default}
        /\ ~Closing(proc'[p])
    BY <2>1, Zenon DEF Custody, Detached, Closing, Went, todo
  <2>4. OpenTuns' = OpenTuns /\ \A h \in Handle : life'[h] \in {"none", "open", "closed"}
    BY <1>0, <2>1, Zenon DEF OpenTuns
  <2> QED
    BY <1>0, <2>1, <2>2, <2>3, <2>4, HandleKept, Zenon DEF Touched
<1>4. CASE RollbackEffect(p)
  <2>1. /\ proc[p].pc = "rollback" /\ Others(p) /\ UNCHANGED <<owned, attached>>
        /\ \A o \in Object : o # Default => life'[o] = life[o]
        /\ life[Default] = "open" => life'[Default] = "closed"
        /\ \/ proc[p].op = "closeSystem" /\ Went(p, "tuns")
           \/ proc[p].op # "closeSystem" /\ Ended(p)
    BY <1>4, Zenon DEF RollbackEffect
  <2>2. Custody(proc[p]) = todo \cup {Default} /\ Detached(proc[p]) = todo \cup {Default}
    BY <2>1, Zenon DEF Custody, Detached, Closing, todo
  <2>3. /\ Custody(proc'[p]) = todo \ {Default} /\ Detached(proc'[p]) = todo \ {Default}
        /\ ~Closing(proc'[p])
    <3>1. CASE proc[p].op = "closeSystem"
      BY <2>1, <3>1 DEF Custody, Detached, Closing, Went, todo
    <3>2. CASE proc[p].op # "closeSystem"
      BY <1>0, <2>1, <3>2, EndedCustody, Zenon DEF Shape, Ended, todo
    <3> QED
      BY <3>1, <3>2
  <2>4. \A h \in Handle : h # Default => life'[h] = life[h]
    BY <2>1, Disjoint, Zenon
  <2>5. life'[Default] = "closed"
    BY <1>0, <2>1, <2>2, Zenon DEF OpenTuns
  <2>6. OpenTuns' = OpenTuns \ {Default}
    BY <1>0, <2>4, <2>5, Zenon DEF OpenTuns
  <2>7. \A h \in Handle : life'[h] \in {"none", "open", "closed"}
    BY <1>0, <2>4, <2>5, Zenon
  <2> QED
    BY <1>0, <2>1, <2>2, <2>3, <2>6, <2>7, HandleKept, Zenon DEF Touched
<1>5. CASE CloseSystemEffect(p)
  <2>1. /\ proc[p].pc = "mu" /\ proc[p].op = "closeSystem" /\ Others(p) /\ UNCHANGED <<life, attached>>
        /\ \/ Ended(p) /\ UNCHANGED owned
           \/ /\ owned' = owned \ {Default} /\ proc'[p].pc = "states"
              /\ proc'[p].todo = owned \cap {Default}
    BY <1>5, Zenon DEF CloseSystemEffect
  <2>2. Custody(proc[p]) = {} /\ Detached(proc[p]) = {}
    BY <2>1 DEF Custody, Detached, Closing
  <2>3. CASE Ended(p) /\ UNCHANGED owned
    <3>1. Custody(proc'[p]) = {} /\ Detached(proc'[p]) = {} /\ ~Closing(proc'[p])
      BY <2>3, EndedCustody, Zenon DEF Ended
    <3> QED
      BY <2>1, <2>2, <2>3, <3>1, HandleQuiet, Zenon
  <2>4. CASE /\ owned' = owned \ {Default} /\ proc'[p].pc = "states"
             /\ proc'[p].todo = owned \cap {Default}
    <3>1. /\ Custody(proc'[p]) = owned \cap {Default} /\ Detached(proc'[p]) = {}
          /\ ~Closing(proc'[p])
      BY <2>4 DEF Custody, Detached, Closing
    <3>2. OpenTuns' = OpenTuns /\ \A h \in Handle : life'[h] \in {"none", "open", "closed"}
      BY <1>0, <2>1 DEF OpenTuns
    <3> QED
      BY <1>0, <2>1, <2>2, <2>4, <3>1, <3>2, HandleKept, Zenon DEF Touched
  <2> QED
    BY <2>1, <2>3, <2>4, Zenon
<1>6. CASE TakeEffect(p)
  <2>1. proc[p].pc = "states" /\ Others(p) /\ UNCHANGED <<life, closed>>
    BY <1>6, Zenon DEF TakeEffect
  <2>2. PICK t \in owned :
            /\ attached' = attached \ {t} /\ owned' = owned \ {t}
            /\ proc'[p].pc = "states" /\ proc'[p].todo = todo \cup (attached \cap {t})
    BY <1>6, Zenon DEF TakeEffect, todo
  <2>3. Custody(proc[p]) = todo /\ Detached(proc[p]) = todo \ {Default}
    BY <2>1 DEF Custody, Detached, Closing, todo
  <2>4. Closer(proc[p])
    BY <1>0, <2>1, Zenon DEF Closer, Shape, OpName
  <2>5. t # Default /\ t \in attached
    BY <1>0, <2>2, <2>4, Zenon DEF CloserInv
  <2>6. /\ Custody(proc'[p]) = todo \cup {t} /\ ~Closing(proc'[p])
        /\ Detached(proc'[p]) = (todo \ {Default}) \cup {t}
    BY <2>2, <2>5 DEF Custody, Detached, Closing
  <2>7. OpenTuns' = OpenTuns /\ \A h \in Handle : life'[h] \in {"none", "open", "closed"}
    BY <1>0, <2>1, Zenon DEF OpenTuns
  <2> QED
    BY <1>0, <2>1, <2>2, <2>3, <2>5, <2>6, <2>7, HandleKept, Zenon DEF Touched
<1>7. CASE TunsEffect(p)
  <2>1. /\ proc[p].pc = "tuns" /\ Others(p) /\ Went(p, "components")
        /\ UNCHANGED <<owned, attached>>
        /\ \A o \in Object \ (todo \ {Default}) : life'[o] = life[o]
        /\ \A o \in todo \ {Default} : life[o] = "open" => life'[o] = "closed"
    BY <1>7, Zenon DEF TunsEffect, todo
  <2>2. Custody(proc[p]) = todo \ {Default} /\ Detached(proc[p]) = todo \ {Default}
    BY <2>1, Zenon DEF Custody, Detached, Closing, todo
  <2>3. Custody(proc'[p]) = {} /\ Detached(proc'[p]) = {} /\ ~Closing(proc'[p])
    BY <2>1, Zenon DEF Custody, Detached, Closing, Went
  <2>4. /\ \A h \in Handle : h \notin todo \ {Default} => life'[h] = life[h]
        /\ \A h \in todo \ {Default} : life'[h] = "closed"
    BY <1>0, <2>1, <2>2, Disjoint, Zenon DEF OpenTuns
  <2>5. OpenTuns' = OpenTuns \ (todo \ {Default})
    BY <1>0, <2>4, Zenon DEF OpenTuns
  <2>6. \A h \in Handle : life'[h] \in {"none", "open", "closed"}
    BY <1>0, <2>4, Zenon
  <2> QED
    BY <1>0, <2>1, <2>2, <2>3, <2>5, <2>6, HandleKept, Zenon DEF Touched
<1> QED
  BY <1>1, <1>2, <1>3, <1>4, <1>5, <1>6, <1>7

----------------------------------------------------------------------------
(* The TUN that BuildTun is to make is not there.                          *)

LEMMA BuildKept ==
    ASSUME BuildInv, NEW p \in Proc, Others(p),
           \A h \in Handle : life[h] = "none" => life'[h] = "none" \/ (h = Default)
                             \/ (h = proc[p].t /\ Building(proc[p]) /\ ~Building(proc'[p])),
           Building(proc'[p]) => /\ proc'[p].t \in Tun /\ life'[proc'[p].t] = "none"
                                 /\ \A q \in Proc : q # p /\ Building(proc[q]) =>
                                                      proc[q].t # proc'[p].t,
           \A q \in Proc : Building(proc[q]) => proc[q].t \in Tun
    PROVE  BuildInv'
<1>0. Default \notin Tun /\ Tun \subseteq Handle
  BY SystemAssumption DEF Handle
<1>1. ASSUME NEW q \in Proc, q # p, Building(proc'[q])
      PROVE  /\ proc'[q] = proc[q] /\ Building(proc[q]) /\ life[proc[q].t] = "none"
             /\ Building(proc[p]) => proc[q].t # proc[p].t
  BY <1>1 DEF Others, BuildInv
<1>2. ASSUME NEW q \in Proc, Building(proc'[q]) PROVE life'[proc'[q].t] = "none"
  <2>1. CASE q # p
    BY <1>0, <1>1, <1>2, <2>1
  <2> QED
    BY <1>2, <2>1
<1>3. ASSUME NEW q \in Proc, NEW r \in Proc, q # r, Building(proc'[q]), Building(proc'[r])
      PROVE  proc'[q].t # proc'[r].t
  <2>1. CASE q # p /\ r # p
    BY <1>1, <1>3, <2>1 DEF BuildInv
  <2> QED
    BY <1>1, <1>3, <2>1
<1> QED
  BY <1>2, <1>3, Zenon DEF BuildInv

\* A TUN that is not made yet is made by the default TUN's builder or by its own.
LEMMA NoneKept ==
    ASSUME LInv, CallInv, LifeType, HandleInv, NEW p \in Proc,
           Effect(p), NEW h \in Handle, life[h] = "none", h # Default,
           ~(CreateEffect(p) /\ h = proc[p].t)
    PROVE  life'[h] = "none"
<1>0. /\ Custody(proc[p]) \subseteq OpenTuns /\ h \notin OpenTuns /\ h \in Object
      /\ h \notin Nets /\ h \notin Kept
  BY Disjoint DEF HandleInv, OpenTuns
<1>1. CASE \/ CallsEffect(p) \/ CheckEffect(p) \/ LockDefaultEffect(p) \/ LookUpEffect(p) \/ UseEffect(p)
           \/ EndIOEffect(p) \/ ConfigureEffect(p)
  <2>1. SameHost
    BY <1>1, Zenon DEF CallsEffect, CheckEffect, LockDefaultEffect, LookUpEffect, UseEffect,
       EndIOEffect, ConfigureEffect
  <2> QED
    BY <2>1 DEF SameHost
<1>2. CASE \/ ForgetEffect(p) \/ LockStateEffect(p) \/ DropEffect(p) \/ CloseActiveEffect(p)
           \/ CloseSystemEffect(p) \/ TakeEffect(p)
  <2>1. UNCHANGED life
    BY <1>2, Zenon DEF ForgetEffect, LockStateEffect, DropEffect, CloseActiveEffect,
       CloseSystemEffect, TakeEffect
  <2> QED
    BY <2>1
<1>3. CASE CreateEffect(p) \/ CreateDefaultEffect(p) \/ RollbackEffect(p)
  BY <1>0, <1>3, Zenon DEF CreateEffect, CreateDefaultEffect, RollbackEffect
<1>4. CASE PublishEffect(p) \/ CloseNativeEffect(p)
  <2>1. /\ proc[p].pc \in {"publish", "closeNative"}
        /\ \A o \in Object : o # proc[p].t => life'[o] = life[o]
    BY <1>4 DEF PublishEffect, CloseNativeEffect
  <2>2. proc[p].t \in Custody(proc[p])
    BY <2>1 DEF Custody
  <2> QED
    BY <1>0, <2>1, <2>2
<1>5. CASE NetsEffect(p) \/ ComponentsEffect(p)
  BY <1>0, <1>5 DEF NetsEffect, ComponentsEffect
<1>6. CASE TunsEffect(p)
  <2>1. /\ proc[p].pc = "tuns"
        /\ \A o \in Object \ (proc[p].todo \ {Default}) : life'[o] = life[o]
    BY <1>6, Zenon DEF TunsEffect
  <2>2. proc[p].todo \ {Default} \subseteq Custody(proc[p])
    BY <2>1 DEF Custody, Closing
  <2> QED
    BY <1>0, <2>1, <2>2
<1> QED
  BY <1>1, <1>2, <1>3, <1>4, <1>5, <1>6, Zenon DEF Effect

LEMMA EndedBuild == ~Building(NoCall) /\ ~Closer(NoCall)
BY DEF Building, Closer, NoCall

LEMMA BuildStep ==
    ASSUME LInv, CallInv, LifeType, HandleInv, BuildInv, NEW p \in Proc,
           Effect(p), Others(p), CallInv'
    PROVE  BuildInv'
<1>0. \A q \in Proc : Building(proc[q]) => proc[q].t \in Tun
  BY Zenon DEF CallInv, Shape, Building
<1>1. CASE CallsEffect(p)
  <2>1. /\ proc'[p].op = "build" => /\ proc'[p].t \in Tun /\ life[proc'[p].t] = "none"
                                    /\ \A q \in Proc : proc[q].t = proc'[p].t => proc[q].op # "build"
        /\ life' = life
    BY <1>1, Zenon DEF CallsEffect, SameHost
  <2>2. Building(proc'[p]) => /\ proc'[p].t \in Tun /\ life'[proc'[p].t] = "none"
                              /\ \A q \in Proc : q # p /\ Building(proc[q]) =>
                                                   proc[q].t # proc'[p].t
    BY <2>1, Zenon DEF Building
  <2>3. \A h \in Handle : life[h] = "none" => life'[h] = "none"
    BY <2>1
  <2> QED
    BY <1>0, <2>2, <2>3, BuildKept, Zenon
<1>2. CASE CheckEffect(p)
  <2>1. /\ proc[p].pc = "check" /\ life' = life
        /\ \/ Ended(p)
           \/ proc[p].op = "build" /\ Went(p, "create")
           \/ proc[p].op # "build" /\ Went(p, "defaultTunMu")
    BY <1>2, Zenon DEF CheckEffect, SameHost
  <2>2. CASE Building(proc'[p])
    <3>1. Building(proc[p]) /\ proc'[p].t = proc[p].t
      BY <2>1, <2>2, EndedBuild DEF Building, Ended, Went
    <3>2. /\ proc'[p].t \in Tun /\ life'[proc'[p].t] = "none"
          /\ \A q \in Proc : q # p /\ Building(proc[q]) => proc[q].t # proc'[p].t
      BY <1>0, <2>1, <3>1 DEF BuildInv
    <3> QED
      BY <1>0, <2>1, <3>2, BuildKept, Zenon
  <2>3. CASE ~Building(proc'[p])
    BY <1>0, <2>1, <2>3, BuildKept
  <2> QED
    BY <2>2, <2>3
<1>3. CASE CreateEffect(p)
  <2>1. proc[p].pc = "create" /\ (Ended(p) \/ Went(p, "publish"))
    BY <1>3, Zenon DEF CreateEffect
  <2>2. Building(proc[p]) /\ ~Building(proc'[p])
    <3>1. Shape(proc[p]) /\ proc[p].op \in OpName
      BY DEF LInv, CallInv, ProcType
    <3>2. Building(proc[p])
      BY <2>1, <3>1 DEF Building, Shape, OpName
    <3> QED
      BY <2>1, <3>2, EndedBuild DEF Building, Ended, Went
  <2>3. \A h \in Handle : h # Default /\ h # proc[p].t /\ life[h] = "none" => life'[h] = "none"
    BY <1>3, NoneKept, Zenon DEF Effect
  <2> QED
    BY <1>0, <2>2, <2>3, BuildKept
<1>4. CASE ~CallsEffect(p) /\ ~CheckEffect(p) /\ ~CreateEffect(p)
  <2>1. \A h \in Handle : h # Default /\ life[h] = "none" => life'[h] = "none"
    BY <1>4, NoneKept
  <2>2. \/ Ended(p)
        \/ proc'[p].pc \in {"mu", "state", "use", "io", "closeNative", "configure", "drop",
                            "closeActive", "rollback", "states", "tuns", "components"}
    <3>1. CASE PublishEffect(p) \/ CloseNativeEffect(p) \/ UseEffect(p) \/ EndIOEffect(p) \/ ComponentsEffect(p)
      BY <3>1, Zenon DEF PublishEffect, CloseNativeEffect, UseEffect, EndIOEffect,
         ComponentsEffect
    <3>2. CASE LockDefaultEffect(p) \/ LookUpEffect(p) \/ ForgetEffect(p) \/ LockStateEffect(p)
      BY <3>2, Zenon DEF LockDefaultEffect, LookUpEffect, ForgetEffect, LockStateEffect, Went
    <3>3. CASE \/ CreateDefaultEffect(p) \/ ConfigureEffect(p) \/ DropEffect(p)
               \/ CloseActiveEffect(p) \/ RollbackEffect(p)
      BY <3>3, Zenon DEF CreateDefaultEffect, ConfigureEffect, DropEffect, CloseActiveEffect,
         RollbackEffect, Went
    <3>4. CASE CloseSystemEffect(p) \/ TakeEffect(p) \/ NetsEffect(p) \/ TunsEffect(p)
      BY <3>4, Zenon DEF CloseSystemEffect, TakeEffect, NetsEffect, TunsEffect, Went
    <3> QED
      BY <1>4, <3>1, <3>2, <3>3, <3>4, Zenon DEF Effect
  <2>3. ~Building(proc'[p])
    BY <2>2, EndedBuild DEF Building, Ended
  <2> QED
    BY <1>0, <2>1, <2>3, BuildKept
<1> QED
  BY <1>1, <1>2, <1>3, <1>4

----------------------------------------------------------------------------
(* What is used is attached.                                               *)

LEMMA UseKept ==
    ASSUME CallInv, UseInv, NEW p \in Proc, Others(p),
           proc'[p].op = "set" /\ proc'[p].pc = "state" => proc'[p].t \in owned',
           proc'[p].pc = "use" => proc'[p].t \in attached',
           owned \subseteq owned' \/ lock["mu"] \in {p, Nobody},
           \A h \in attached : h \in attached' \/ lock[h] = Nobody
    PROVE  UseInv'
<1>1. ASSUME NEW q \in Proc
      PROVE  /\ proc'[q].op = "set" /\ proc'[q].pc = "state" => proc'[q].t \in owned'
             /\ proc'[q].pc = "use" => proc'[q].t \in attached'
  <2>1. CASE q # p
    <3>1. /\ proc'[q] = proc[q] /\ \A l \in Holds(proc[q]) : lock[l] = q
          /\ proc[q].op = "set" /\ proc[q].pc = "state" => proc[q].t \in owned
          /\ proc[q].pc = "use" => proc[q].t \in attached
      BY <2>1, Zenon DEF Others, CallInv, UseInv
    <3>2. ASSUME proc[q].op = "set", proc[q].pc = "state" PROVE proc[q].t \in owned'
      <4>1. lock["mu"] = q
        BY <3>1, <3>2 DEF Holds
      <4> QED
        BY <2>1, <3>1, <3>2, <4>1, SystemAssumption
    <3>3. ASSUME proc[q].pc = "use" PROVE proc[q].t \in attached'
      <4>1. lock[proc[q].t] = q
        BY <3>1, <3>3 DEF Holds
      <4> QED
        BY <3>1, <3>3, <4>1, SystemAssumption
    <3> QED
      BY <3>1, <3>2, <3>3
  <2> QED
    BY <2>1
<1> QED
  BY <1>1, Zenon DEF UseInv

LEMMA UseStep ==
    ASSUME LInv, CallInv, LifeType, UseInv, HandleInv, NEW p \in Proc,
           Effect(p), Others(p)
    PROVE  UseInv'
<1>0. /\ Shape(proc[p]) /\ proc[p].op \in OpName
      /\ \A l \in Holds(proc[p]) : lock[l] = p
      /\ proc[p].op = "set" /\ proc[p].pc = "state" => proc[p].t \in owned
  BY DEF LInv, CallInv, ProcType, UseInv
<1>1. CASE \/ CallsEffect(p) \/ CheckEffect(p) \/ LockDefaultEffect(p) \/ UseEffect(p)
           \/ EndIOEffect(p) \/ ConfigureEffect(p)
  <2>1. SameHost
    BY <1>1, Zenon DEF CallsEffect, CheckEffect, LockDefaultEffect, UseEffect, EndIOEffect,
       ConfigureEffect
  <2>2. Ended(p) \/ proc'[p].pc \in {"check", "create", "defaultTunMu", "mu", "drop"}
    BY <1>1, Zenon DEF CallsEffect, CheckEffect, LockDefaultEffect, UseEffect, EndIOEffect,
       ConfigureEffect, Went
  <2>3. proc'[p].pc \notin {"state", "use"}
    BY <2>2, IdleCall, Zenon DEF Ended
  <2> QED
    BY <2>1, <2>3, UseKept DEF SameHost
<1>2. CASE LookUpEffect(p)
  <2>1. SameHost /\ (Ended(p) \/ (Went(p, "state") /\ proc[p].t \in owned))
    BY <1>2, Zenon DEF LookUpEffect
  <2>2. /\ proc'[p].pc = "state" => proc'[p].t \in owned
        /\ proc'[p].pc # "use"
    BY <2>1, IdleCall, Zenon DEF Ended, Went
  <2> QED
    BY <2>1, <2>2, UseKept DEF SameHost
<1>3. CASE \/ CreateEffect(p) \/ CloseNativeEffect(p) \/ PublishEffect(p) \/ NetsEffect(p) \/ TunsEffect(p)
           \/ ComponentsEffect(p) \/ RollbackEffect(p) \/ CreateDefaultEffect(p)
  <2>1. owned \subseteq owned' /\ attached \subseteq attached'
    <3>1. CASE PublishEffect(p) \/ CreateDefaultEffect(p)
      BY <3>1, Zenon DEF PublishEffect, CreateDefaultEffect
    <3>2. CASE \/ CreateEffect(p) \/ CloseNativeEffect(p) \/ NetsEffect(p) \/ TunsEffect(p)
               \/ ComponentsEffect(p) \/ RollbackEffect(p)
      <4>1. UNCHANGED <<owned, attached>>
        BY <3>2, Zenon DEF CreateEffect, CloseNativeEffect, NetsEffect, TunsEffect,
           ComponentsEffect, RollbackEffect
      <4> QED
        BY <4>1
    <3> QED
      BY <1>3, <3>1, <3>2
  <2>2. \/ Ended(p)
        \/ proc'[p].pc \in {"publish", "closeActive", "tuns", "components", "configure"}
    <3>1. CASE PublishEffect(p) \/ CreateDefaultEffect(p) \/ CreateEffect(p) \/ CloseNativeEffect(p)
      BY <3>1, Zenon DEF PublishEffect, CreateDefaultEffect, CreateEffect, CloseNativeEffect, Went
    <3>2. CASE NetsEffect(p) \/ TunsEffect(p) \/ ComponentsEffect(p) \/ RollbackEffect(p)
      BY <3>2, Zenon DEF NetsEffect, TunsEffect, ComponentsEffect, RollbackEffect, Went
    <3> QED
      BY <1>3, <3>1, <3>2, Zenon
  <2>3. proc'[p].pc \notin {"state", "use"}
    BY <2>2, IdleCall, Zenon DEF Ended
  <2> QED
    BY <2>1, <2>3, UseKept
<1>4. CASE ForgetEffect(p) \/ DropEffect(p) \/ CloseSystemEffect(p)
  <2>1. /\ lock["mu"] = Nobody /\ attached' = attached
        /\ \/ Ended(p) \/ proc'[p].pc \in {"closeActive", "states"}
           \/ proc'[p].pc = "state" /\ proc'[p].op = "close"
    BY <1>4, Zenon DEF ForgetEffect, DropEffect, CloseSystemEffect, Went
  <2>2. proc'[p].pc # "use" /\ (proc'[p].pc = "state" => proc'[p].op # "set")
    BY <2>1, IdleCall, Zenon DEF Ended
  <2> QED
    BY <2>1, <2>2, UseKept, Zenon
<1>5. CASE LockStateEffect(p)
  <2>1. /\ lock[proc[p].t] = Nobody /\ UNCHANGED owned
        /\ attached' = IF proc[p].op = "close" THEN attached \ {proc[p].t} ELSE attached
        /\ \/ Ended(p) \/ Went(p, "closeNative") \/ Went(p, "io")
           \/ proc[p].op = "set" /\ proc[p].t \in attached /\ Went(p, "use")
    BY <1>5, Zenon DEF LockStateEffect
  <2>2. /\ proc'[p].pc # "state"
        /\ proc'[p].pc = "use" => proc'[p].t \in attached'
    BY <2>1, IdleCall, Zenon DEF Ended, Went
  <2>3. \A h \in attached : h \in attached' \/ lock[h] = Nobody
    BY <2>1
  <2> QED
    BY <2>1, <2>2, <2>3, UseKept
<1>6. CASE CloseActiveEffect(p)
  <2>1. /\ lock[Default] = Nobody /\ UNCHANGED owned /\ attached' = attached \ {Default}
        /\ Went(p, "rollback")
    BY <1>6, Zenon DEF CloseActiveEffect
  <2> QED
    BY <2>1, UseKept DEF Went
<1>7. CASE TakeEffect(p)
  <2>1. proc[p].pc = "states"
    BY <1>7, Zenon DEF TakeEffect
  <2>2. PICK t \in owned : /\ lock[t] = Nobody /\ attached' = attached \ {t}
                           /\ proc'[p].pc = "states"
    BY <1>7, Zenon DEF TakeEffect
  <2>3. lock["mu"] = p
    BY <1>0, <2>1 DEF Holds
  <2> QED
    BY <2>2, <2>3, UseKept
<1> QED
  BY <1>1, <1>2, <1>3, <1>4, <1>5, <1>6, <1>7, Zenon DEF Effect

----------------------------------------------------------------------------
(* The goroutine that has set closed.                                      *)

\* Whoever is in a step that needs defaultTunMu holds it.
LEMMA OnlyDefault ==
    ASSUME CallInv, NEW p \in Proc, lock["defaultTunMu"] = p, NEW q \in Proc,
           proc[q].pc \in {"configure", "drop", "closeActive", "rollback", "tuns", "states"}
    PROVE  q = p
<1>1. "defaultTunMu" \in Holds(proc[q])
  BY DEF Holds
<1> QED
  BY <1>1, Zenon DEF CallInv

LEMMA CloserKept ==
    ASSUME CallInv, CloserInv, NEW p \in Proc, Others(p), closed => closed',
           Closer(proc'[p]) => closed' /\ (Closer(proc[p]) \/ ~closed),
           closed' => owned' = {} \/ \E q \in Proc : proc'[q].pc = "states",
           closed' => Default \notin owned',
           proc'[p].pc \in {"configure", "drop"} => Default \in owned',
           proc'[p].pc \in {"closeActive", "rollback"} => ~closed' \/ Closer(proc'[p]),
           (Default \in owned /\ Default \notin owned') \/ (closed' /\ ~closed) =>
               lock["defaultTunMu"] = p
    PROVE  CloserInv'
<1>1. ASSUME NEW q \in Proc, q # p
      PROVE  /\ proc'[q] = proc[q]
             /\ Closer(proc[q]) => closed
             /\ proc[q].pc \in {"configure", "drop"} => Default \in owned
             /\ proc[q].pc \in {"closeActive", "rollback"} => ~closed \/ Closer(proc[q])
  BY <1>1, Zenon DEF Others, CloserInv
<1>2. ASSUME NEW q \in Proc PROVE Closer(proc'[q]) => closed'
  BY <1>1, Zenon
<1>3. ASSUME NEW q \in Proc, NEW r \in Proc, Closer(proc'[q]), Closer(proc'[r]) PROVE q = r
  <2>1. CASE q # p /\ r # p
    BY <1>1, <1>3, <2>1, Zenon DEF CloserInv
  <2>2. CASE q # p /\ r = p
    BY <1>1, <1>3, <2>2, Zenon DEF CloserInv
  <2>3. CASE q = p /\ r # p
    BY <1>1, <1>3, <2>3, Zenon DEF CloserInv
  <2> QED
    BY <2>1, <2>2, <2>3
<1>4. ASSUME NEW q \in Proc, proc'[q].pc \in {"configure", "drop"} PROVE Default \in owned'
  <2>1. CASE q # p
    BY <1>1, <1>4, <2>1, OnlyDefault
  <2> QED
    BY <1>4, <2>1
<1>5. ASSUME NEW q \in Proc, proc'[q].pc \in {"closeActive", "rollback"}
      PROVE  ~closed' \/ Closer(proc'[q])
  <2>1. CASE q # p
    BY <1>1, <1>5, <2>1, OnlyDefault
  <2> QED
    BY <1>5, <2>1
<1> QED
  BY <1>2, <1>3, <1>4, <1>5, Zenon DEF CloserInv

LEMMA CloserQuiet ==
    ASSUME CallInv, CloserInv, NEW p \in Proc, Others(p), UNCHANGED closed, owned' \subseteq owned,
           proc[p].pc # "states" \/ proc'[p].pc = "states" \/ owned' = {},
           Closer(proc'[p]) => Closer(proc[p]),
           proc'[p].pc \in {"configure", "drop"} => Default \in owned',
           proc'[p].pc \in {"closeActive", "rollback"} => ~closed \/ Closer(proc'[p]),
           Default \in owned /\ Default \notin owned' => lock["defaultTunMu"] = p
    PROVE  CloserInv'
<1>1. closed' => owned' = {} \/ \E q \in Proc : proc'[q].pc = "states"
  <2>1. ASSUME closed, owned' # {} PROVE \E q \in Proc : proc'[q].pc = "states"
    <3>1. PICK q \in Proc : proc[q].pc = "states"
      BY <2>1 DEF CloserInv
    <3>2. proc'[q].pc = "states"
      BY <2>1, <3>1 DEF Others
    <3> QED
      BY <3>2
  <2> QED
    BY <2>1, Zenon
<1>2. /\ Closer(proc[p]) => closed
      /\ closed => Default \notin owned
  BY Zenon DEF CloserInv
<1> QED
  BY <1>1, <1>2, CloserKept

LEMMA CloserStep ==
    ASSUME LInv, CallInv, LifeType, CloserInv, NEW p \in Proc,
           Effect(p), Others(p)
    PROVE  CloserInv'
<1>0. /\ Shape(proc[p]) /\ proc[p].op \in OpName
      /\ \A l \in Holds(proc[p]) : lock[l] = p
      /\ Closer(proc[p]) => closed
      /\ closed => Default \notin owned
      /\ proc[p].pc \in {"configure", "drop"} => Default \in owned
      /\ proc[p].pc \in {"closeActive", "rollback"} => ~closed \/ Closer(proc[p])
  BY DEF LInv, CallInv, ProcType, CloserInv
<1>1. CASE \/ CallsEffect(p) \/ CheckEffect(p) \/ LockDefaultEffect(p) \/ LookUpEffect(p) \/ UseEffect(p)
           \/ EndIOEffect(p) \/ CreateEffect(p) \/ CloseNativeEffect(p) \/ LockStateEffect(p)
  <2>1. UNCHANGED <<closed, owned>>
    BY <1>1, Zenon DEF CallsEffect, CheckEffect, LockDefaultEffect, LookUpEffect, UseEffect,
       EndIOEffect, CreateEffect, CloseNativeEffect, LockStateEffect, SameHost
  <2>2. proc[p].pc # "states"
    BY <1>1, Zenon DEF CallsEffect, CheckEffect, LockDefaultEffect, LookUpEffect, UseEffect,
       EndIOEffect, CreateEffect, CloseNativeEffect, LockStateEffect
  <2>3. \/ Ended(p)
        \/ proc'[p].pc \in {"check", "create", "defaultTunMu", "mu", "state", "publish", "use",
                            "closeNative", "io"}
    <3>1. CASE CallsEffect(p) \/ CheckEffect(p) \/ LockDefaultEffect(p) \/ LookUpEffect(p)
      BY <3>1, Zenon DEF CallsEffect, CheckEffect, LockDefaultEffect, LookUpEffect, Went
    <3>2. CASE UseEffect(p) \/ EndIOEffect(p) \/ CreateEffect(p) \/ CloseNativeEffect(p) \/ LockStateEffect(p)
      BY <3>2, Zenon DEF UseEffect, EndIOEffect, CreateEffect, CloseNativeEffect,
         LockStateEffect, Went
    <3> QED
      BY <1>1, <3>1, <3>2, Zenon
  <2>4. /\ ~Closer(proc'[p])
        /\ proc'[p].pc \notin {"configure", "drop", "closeActive", "rollback"}
    BY <2>3, IdleCall, Zenon DEF Closer, Ended
  <2> QED
    BY <2>1, <2>2, <2>4, CloserQuiet, Zenon
<1>2. CASE PublishEffect(p)
  <2>1. /\ proc[p].pc = "publish" /\ Ended(p) /\ UNCHANGED closed
        /\ \/ closed /\ UNCHANGED owned
           \/ ~closed /\ owned' = owned \cup {proc[p].t}
    BY <1>2, Zenon DEF PublishEffect
  <2>2. ~Closer(proc'[p]) /\ proc'[p].pc = "idle"
    BY <2>1, IdleCall, Zenon DEF Closer, Ended
  <2>3. CASE closed /\ UNCHANGED owned
    BY <2>1, <2>2, <2>3, CloserQuiet
  <2>4. CASE ~closed /\ owned' = owned \cup {proc[p].t}
    BY <2>1, <2>2, <2>4, CloserKept
  <2> QED
    BY <2>1, <2>3, <2>4
<1>3. CASE ForgetEffect(p)
  <2>1. /\ proc[p].pc = "mu" /\ proc[p].op = "close" /\ UNCHANGED closed
        /\ \/ Ended(p) /\ UNCHANGED owned
           \/ /\ proc[p].t \in owned /\ owned' = owned \ {proc[p].t}
              /\ \/ proc[p].t = Default /\ Went(p, "closeActive")
                 \/ proc[p].t # Default /\ Went(p, "state")
    BY <1>3, Zenon DEF ForgetEffect
  <2>2. CASE Ended(p) /\ UNCHANGED owned
    <3>1. ~Closer(proc'[p]) /\ proc'[p].pc = "idle"
      BY <2>2, IdleCall, Zenon DEF Closer, Ended
    <3> QED
      BY <2>1, <2>2, <3>1, CloserQuiet
  <2>3. CASE /\ proc[p].t = Default /\ Default \in owned /\ owned' = owned \ {Default}
             /\ Went(p, "closeActive")
    <3>1. lock["defaultTunMu"] = p
      BY <1>0, <2>1, <2>3 DEF Holds
    <3>2. ~closed /\ ~Closer(proc'[p]) /\ proc'[p].pc = "closeActive"
      BY <1>0, <2>1, <2>3, Zenon DEF Went, Closer
    <3> QED
      BY <2>1, <2>3, <3>1, <3>2, CloserQuiet, Zenon
  <2>4. CASE proc[p].t # Default /\ owned' = owned \ {proc[p].t} /\ Went(p, "state")
    <3>1. ~Closer(proc'[p]) /\ proc'[p].pc = "state"
      BY <2>1, <2>4 DEF Went, Closer
    <3> QED
      BY <2>1, <2>4, <3>1, CloserQuiet
  <2> QED
    BY <2>1, <2>2, <2>3, <2>4
<1>4. CASE CreateDefaultEffect(p)
  <2>1. /\ proc[p].pc = "mu" /\ proc[p].op = "buildDefault" /\ UNCHANGED closed
        /\ \/ Ended(p) /\ UNCHANGED owned
           \/ /\ ~closed /\ Went(p, "configure")
              /\ owned' = owned \cup {Default} \/ (UNCHANGED owned /\ Default \in owned)
    BY <1>4, Zenon DEF CreateDefaultEffect
  <2>2. CASE Ended(p) /\ UNCHANGED owned
    <3>1. ~Closer(proc'[p]) /\ proc'[p].pc = "idle"
      BY <2>2, IdleCall, Zenon DEF Closer, Ended
    <3> QED
      BY <2>1, <2>2, <3>1, CloserQuiet, Zenon
  <2>3. CASE /\ ~closed /\ Went(p, "configure")
             /\ owned' = owned \cup {Default} \/ (UNCHANGED owned /\ Default \in owned)
    <3>1. ~Closer(proc'[p]) /\ proc'[p].pc = "configure" /\ Default \in owned'
      BY <2>1, <2>3 DEF Closer, Went
    <3> QED
      BY <2>1, <2>3, <3>1, CloserKept
  <2> QED
    BY <2>1, <2>2, <2>3
<1>5. CASE ConfigureEffect(p) \/ DropEffect(p)
  <2>1. /\ proc[p].pc \in {"configure", "drop"} /\ UNCHANGED closed
        /\ \/ Ended(p) /\ UNCHANGED owned
           \/ Went(p, "drop") /\ UNCHANGED owned
           \/ Went(p, "closeActive") /\ owned' = owned \ {Default}
    BY <1>5 DEF ConfigureEffect, DropEffect, SameHost
  <2>2. lock["defaultTunMu"] = p /\ ~closed /\ Default \in owned
    BY <1>0, <2>1 DEF Holds
  <2>3. /\ ~Closer(proc'[p]) /\ proc'[p].pc # "configure" /\ proc[p].pc # "states"
        /\ proc'[p].pc = "drop" => UNCHANGED owned
    BY <1>0, <2>1, IdleCall, Zenon DEF Closer, Ended, Went, Shape
  <2>4. owned' \subseteq owned
    BY <2>1, Zenon
  <2> QED
    BY <2>1, <2>2, <2>3, <2>4, CloserQuiet
<1>6. CASE CloseActiveEffect(p) \/ RollbackEffect(p)
  <2>1. /\ proc[p].pc \in {"closeActive", "rollback"} /\ UNCHANGED <<closed, owned>>
        /\ Ended(p) \/ Went(p, "tuns") \/ Went(p, "rollback")
    BY <1>6, Zenon DEF CloseActiveEffect, RollbackEffect
  <2>2. /\ Closer(proc'[p]) => Closer(proc[p])
        /\ proc'[p].pc \notin {"configure", "drop", "closeActive"}
        /\ proc'[p].pc = "rollback" => ~closed \/ Closer(proc'[p])
        /\ proc[p].pc # "states"
    BY <1>0, <2>1, IdleCall, Zenon DEF Closer, Ended, Went
  <2> QED
    BY <2>1, <2>2, CloserQuiet
<1>7. CASE CloseSystemEffect(p)
  <2>1. /\ proc[p].pc = "mu" /\ proc[p].op = "closeSystem"
        /\ \/ Ended(p) /\ UNCHANGED <<closed, owned>>
           \/ /\ ~closed /\ closed' /\ owned' = owned \ {Default} /\ proc'[p].pc = "states"
    BY <1>7, Zenon DEF CloseSystemEffect
  <2>2. lock["defaultTunMu"] = p
    BY <1>0, <2>1 DEF Holds
  <2>3. CASE Ended(p) /\ UNCHANGED <<closed, owned>>
    <3>1. ~Closer(proc'[p]) /\ proc'[p].pc = "idle"
      BY <2>3, IdleCall, Zenon DEF Closer, Ended
    <3> QED
      BY <2>1, <2>3, <3>1, CloserQuiet, Zenon
  <2>4. CASE ~closed /\ closed' /\ owned' = owned \ {Default} /\ proc'[p].pc = "states"
    BY <2>2, <2>4, CloserKept
  <2> QED
    BY <2>1, <2>3, <2>4
<1>8. CASE TakeEffect(p)
  <2>1. /\ proc[p].pc = "states" /\ UNCHANGED closed /\ proc'[p].pc = "states"
        /\ proc'[p].op = proc[p].op /\ owned' \subseteq owned
    BY <1>8 DEF TakeEffect
  <2>2. Closer(proc[p]) /\ closed
    BY <1>0, <2>1, Zenon DEF Closer, Shape, OpName
  <2> QED
    BY <1>0, <2>1, <2>2, CloserQuiet
<1>9. CASE NetsEffect(p)
  <2>1. /\ proc[p].pc = "states" /\ UNCHANGED <<closed, owned>> /\ owned = {}
        /\ Went(p, "closeActive") \/ Went(p, "tuns")
    BY <1>9, Zenon DEF NetsEffect
  <2>2. Closer(proc[p]) /\ Closer(proc'[p])
    BY <1>0, <2>1, Zenon DEF Closer, Shape, OpName, Went
  <2>3. proc'[p].pc \notin {"configure", "drop"}
    BY <2>1, Zenon DEF Went
  <2> QED
    BY <2>1, <2>2, <2>3, CloserQuiet, Zenon
<1>10. CASE TunsEffect(p) \/ ComponentsEffect(p)
  <2>1. /\ proc[p].pc \in {"tuns", "components"} /\ UNCHANGED <<closed, owned>>
        /\ Ended(p) \/ Went(p, "components")
    BY <1>10, Zenon DEF TunsEffect, ComponentsEffect
  <2>2. /\ Closer(proc'[p]) => Closer(proc[p])
        /\ proc'[p].pc \notin {"configure", "drop", "closeActive", "rollback"}
        /\ proc[p].pc # "states"
    BY <1>0, <2>1, IdleCall, Zenon DEF Closer, Ended, Went
  <2> QED
    BY <2>1, <2>2, CloserQuiet, Zenon
<1> QED
  BY <1>1, <1>2, <1>3, <1>4, <1>5, <1>6, <1>7, <1>8, <1>9, <1>10, Zenon DEF Effect

----------------------------------------------------------------------------
(* The components.                                                         *)

\* A goroutine only takes steps in a System that New has returned.
LEMMA StepOpen ==
    ASSUME LInv, LifeType, RestInv, NEW p \in Proc, Effect(p)
    PROVE  phase = "open" /\ Others(p) /\ SameSystem /\ LifeType'
<1>1. CASE CallsEffect(p)
  BY <1>1, Zenon DEF CallsEffect, SameHost, LifeType
<1>2. CASE ~CallsEffect(p)
  <2>1. Others(p) /\ SameSystem /\ LifeType' /\ proc[p].pc # "idle"
    <3>1. CASE CheckEffect(p) \/ LockDefaultEffect(p) \/ LookUpEffect(p) \/ UseEffect(p) \/ EndIOEffect(p)
               \/ ConfigureEffect(p)
      BY <3>1, Zenon DEF CheckEffect, LockDefaultEffect, LookUpEffect, UseEffect, EndIOEffect,
         ConfigureEffect, SameHost, LifeType
    <3>2. CASE \/ ForgetEffect(p) \/ LockStateEffect(p) \/ DropEffect(p) \/ CloseActiveEffect(p)
               \/ CloseSystemEffect(p) \/ TakeEffect(p)
      BY <3>2, Zenon DEF ForgetEffect, LockStateEffect, DropEffect, CloseActiveEffect,
         CloseSystemEffect, TakeEffect, LifeType
    <3>3. CASE \/ CreateEffect(p) \/ PublishEffect(p) \/ CloseNativeEffect(p) \/ CreateDefaultEffect(p)
      BY <3>3, Zenon DEF CreateEffect, PublishEffect, CloseNativeEffect, CreateDefaultEffect
    <3>4. CASE RollbackEffect(p) \/ NetsEffect(p) \/ TunsEffect(p) \/ ComponentsEffect(p)
      BY <3>4, Zenon DEF RollbackEffect, NetsEffect, TunsEffect, ComponentsEffect
    <3> QED
      BY <1>2, <3>1, <3>2, <3>3, <3>4, Zenon DEF Effect
  <2>2. phase = "open"
    BY <2>1, IdleCall, Zenon DEF RestInv, Resting
  <2> QED
    BY <2>1, <2>2
<1> QED
  BY <1>1, <1>2

LEMMA ComponentKept ==
    ASSUME ComponentInv, SameSystem, UNCHANGED closed, \A o \in Component : life'[o] = life[o],
           Serving' <=> Serving, InStates' <=> InStates
    PROVE  ComponentInv'
<1>1. Kept' = Kept /\ Kept \subseteq Component /\ Nets \subseteq Component
  BY Disjoint DEF Kept, extraClosers, SameSystem
<1> QED
  BY <1>1 DEF ComponentInv, SameSystem

\* Whether a goroutine is closing the System, and its TUNs, is a matter of that goroutine.
LEMMA ServingKept ==
    ASSUME NEW p \in Proc, Others(p), UNCHANGED closed,
           Closer(proc'[p]) <=> Closer(proc[p]),
           proc'[p].pc = "states" <=> proc[p].pc = "states"
    PROVE  (Serving' <=> Serving) /\ (InStates' <=> InStates)
<1>1. \A q \in Proc : /\ Closer(proc'[q]) <=> Closer(proc[q])
                      /\ proc'[q].pc = "states" <=> proc[q].pc = "states"
  BY Zenon DEF Others
<1> QED
  BY <1>1, Zenon DEF Serving, InStates

\* The steps that neither close the System nor its components.
LEMMA ComponentStill ==
    ASSUME LInv, CallInv, LifeType, HandleInv, RestInv, NEW p \in Proc,
           Effect(p),
           ~CloseSystemEffect(p), ~NetsEffect(p), ~ComponentsEffect(p)
    PROVE  /\ \A o \in Component : life'[o] = life[o]
           /\ UNCHANGED closed
           /\ Closer(proc'[p]) <=> Closer(proc[p])
           /\ proc'[p].pc = "states" <=> proc[p].pc = "states"
<1>0. Shape(proc[p]) /\ proc[p].op \in OpName /\ proc[p].t \in Handle /\ proc[p].todo \subseteq Handle
  BY DEF LInv, CallInv, ProcType
<1>1. CASE \/ CallsEffect(p) \/ CheckEffect(p) \/ LockDefaultEffect(p) \/ LookUpEffect(p) \/ UseEffect(p)
           \/ EndIOEffect(p) \/ ConfigureEffect(p)
  <2>1. SameHost
    BY <1>1, Zenon DEF CallsEffect, CheckEffect, LockDefaultEffect, LookUpEffect, UseEffect,
       EndIOEffect, ConfigureEffect
  <2>2. /\ Ended(p) \/ proc'[p].pc \in {"check", "create", "defaultTunMu", "mu", "drop", "state"}
        /\ proc[p].pc \in {"idle", "check", "defaultTunMu", "mu", "use", "io", "configure"}
    BY <1>1, Zenon DEF CallsEffect, CheckEffect, LockDefaultEffect, LookUpEffect, UseEffect,
       EndIOEffect, ConfigureEffect, Went
  <2>3. /\ ~Closer(proc'[p]) /\ ~Closer(proc[p])
        /\ proc'[p].pc # "states" /\ proc[p].pc # "states"
    BY <2>2, IdleCall, Zenon DEF Closer, Ended
  <2> QED
    BY <2>1, <2>3 DEF SameHost
<1>2. CASE ForgetEffect(p) \/ LockStateEffect(p) \/ DropEffect(p)
  <2>1. UNCHANGED <<life, closed>>
    BY <1>2, Zenon DEF ForgetEffect, LockStateEffect, DropEffect
  <2>2. /\ proc[p].pc \in {"mu", "state", "drop"}
        /\ \/ Ended(p) \/ proc'[p].pc \in {"state", "use", "closeNative", "io"}
           \/ proc'[p].pc = "closeActive" /\ proc'[p].op \in {"close", "buildDefault"}
    BY <1>0, <1>2, Zenon DEF ForgetEffect, LockStateEffect, DropEffect, Went, Shape, OpName
  <2>3. /\ ~Closer(proc'[p]) /\ ~Closer(proc[p])
        /\ proc'[p].pc # "states" /\ proc[p].pc # "states"
    BY <2>2, IdleCall, Zenon DEF Closer, Ended
  <2> QED
    BY <2>1, <2>3
<1>3. CASE \/ CreateEffect(p) \/ PublishEffect(p) \/ CloseNativeEffect(p) \/ CreateDefaultEffect(p)
  <2>1. UNCHANGED closed /\ \A o \in Object \ Handle : life'[o] = life[o]
    <3>1. CASE CreateEffect(p) \/ PublishEffect(p) \/ CloseNativeEffect(p)
      BY <1>0, <3>1, Zenon DEF CreateEffect, PublishEffect, CloseNativeEffect
    <3>2. CASE CreateDefaultEffect(p)
      BY <3>2, Disjoint, Zenon DEF CreateDefaultEffect
    <3> QED
      BY <1>3, <3>1, <3>2
  <2>2. /\ proc[p].pc \in {"create", "publish", "closeNative", "mu"}
        /\ Ended(p) \/ proc'[p].pc \in {"publish", "configure"}
    BY <1>3, Zenon DEF CreateEffect, PublishEffect, CloseNativeEffect, CreateDefaultEffect, Went
  <2>3. /\ ~Closer(proc'[p]) /\ ~Closer(proc[p])
        /\ proc'[p].pc # "states" /\ proc[p].pc # "states"
    BY <2>2, IdleCall, Zenon DEF Closer, Ended
  <2> QED
    BY <2>1, <2>3, Disjoint, Zenon DEF Object
<1>4. CASE CloseActiveEffect(p) \/ RollbackEffect(p)
  <2>1. UNCHANGED closed /\ \A o \in Object \ Handle : life'[o] = life[o]
    BY <1>4, Disjoint, Zenon DEF CloseActiveEffect, RollbackEffect
  <2>2. /\ proc[p].pc \in {"closeActive", "rollback"}
        /\ \/ Went(p, "rollback")
           \/ proc[p].op = "closeSystem" /\ Went(p, "tuns")
           \/ proc[p].op # "closeSystem" /\ Ended(p)
    BY <1>4, Zenon DEF CloseActiveEffect, RollbackEffect
  <2>3. /\ Closer(proc'[p]) <=> Closer(proc[p])
        /\ proc'[p].pc # "states" /\ proc[p].pc # "states"
    BY <2>2, IdleCall, Zenon DEF Closer, Ended, Went
  <2> QED
    BY <2>1, <2>3, Disjoint, Zenon DEF Object
<1>5. CASE TakeEffect(p)
  <2>1. /\ proc[p].pc = "states" /\ UNCHANGED <<life, closed>>
        /\ proc'[p].pc = "states" /\ proc'[p].op = proc[p].op
    BY <1>5, Zenon DEF TakeEffect
  <2> QED
    BY <2>1 DEF Closer
<1>6. CASE TunsEffect(p)
  <2>1. /\ proc[p].pc = "tuns" /\ UNCHANGED closed /\ Went(p, "components")
        /\ \A o \in Object \ (proc[p].todo \ {Default}) : life'[o] = life[o]
    BY <1>6, Zenon DEF TunsEffect
  <2>2. /\ Closer(proc'[p]) <=> Closer(proc[p])
        /\ proc'[p].pc # "states" /\ proc[p].pc # "states"
    BY <1>0, <2>1, Zenon DEF Closer, Went
  <2> QED
    BY <1>0, <2>1, <2>2, Disjoint, Zenon DEF Object
<1> QED
  BY <1>1, <1>2, <1>3, <1>4, <1>5, <1>6, Zenon DEF Effect

LEMMA ComponentStep ==
    ASSUME LInv, CallInv, LifeType, HandleInv, RestInv, CloserInv, ComponentInv,
           NEW p \in Proc, Effect(p)
    PROVE  ComponentInv'
<1>0. /\ Shape(proc[p]) /\ proc[p].op \in OpName /\ Others(p) /\ SameSystem /\ phase = "open"
      /\ Kept' = Kept /\ Kept \subseteq Component \ Nets /\ Nets \subseteq Component
      /\ Component \subseteq Object
  <2>1. Kept' = Kept /\ Kept \subseteq Component \ Nets /\ Nets \subseteq Component
        /\ Component \subseteq Object
    BY StepOpen DEF Kept, extraClosers, SameSystem, Component, Nets, Object
  <2> QED
    BY <2>1, StepOpen DEF LInv, CallInv, ProcType
<1>1. CASE ~CloseSystemEffect(p) /\ ~NetsEffect(p) /\ ~ComponentsEffect(p)
  BY <1>0, <1>1, ComponentStill, ServingKept, ComponentKept
<1>2. CASE CloseSystemEffect(p)
  <2>1. /\ proc[p].pc = "mu" /\ UNCHANGED life
        /\ \/ Ended(p) /\ UNCHANGED closed
           \/ /\ ~closed /\ closed' /\ proc'[p].pc = "states" /\ proc'[p].op = "closeSystem"
    BY <1>2, Zenon DEF CloseSystemEffect
  <2>2. CASE Ended(p) /\ UNCHANGED closed
    <3>1. /\ ~Closer(proc'[p]) /\ ~Closer(proc[p])
          /\ proc'[p].pc # "states" /\ proc[p].pc # "states"
      BY <2>1, <2>2, IdleCall, Zenon DEF Closer, Ended
    <3> QED
      BY <1>0, <2>1, <2>2, <3>1, ServingKept, ComponentKept
  <2>3. CASE ~closed /\ closed' /\ proc'[p].pc = "states" /\ proc'[p].op = "closeSystem"
    <3>1. Serving /\ Serving' /\ InStates'
      BY <2>3 DEF Serving, InStates, Closer
    <3> QED
      BY <1>0, <2>1, <2>3, <3>1, Zenon DEF ComponentInv, SameSystem
  <2> QED
    BY <2>1, <2>2, <2>3
<1>3. CASE NetsEffect(p)
  <2>1. /\ proc[p].pc = "states" /\ UNCHANGED closed
        /\ \A o \in Object \ Nets : life'[o] = life[o]
        /\ \A o \in Nets : life[o] = "open" => life'[o] = "closed"
        /\ Went(p, "closeActive") \/ Went(p, "tuns")
    BY <1>3, Zenon DEF NetsEffect
  <2>2. Closer(proc[p]) /\ Closer(proc'[p]) /\ closed /\ proc'[p].pc # "states"
    BY <1>0, <2>1, Zenon DEF Closer, Shape, OpName, Went, CloserInv
  <2>3. Serving /\ Serving' /\ InStates
    BY <2>1, <2>2, Zenon DEF Serving, InStates
  <2>4. ~InStates'
    <3>1. ASSUME NEW q \in Proc, proc'[q].pc = "states" PROVE FALSE
      <4>1. q # p /\ proc[q].pc = "states" /\ Shape(proc[q]) /\ proc[q].op \in OpName
        BY <1>0, <2>2, <3>1, Zenon DEF Others, CallInv, LInv, ProcType
      <4>2. Closer(proc[q])
        BY <4>1, Zenon DEF Closer, Shape, OpName
      <4> QED
        BY <2>2, <4>1, <4>2, Zenon DEF CloserInv
    <3> QED
      BY <3>1, Zenon DEF InStates
  <2>5. \A o \in Nets : life'[o] = "closed"
    BY <1>0, <2>1, <2>3, Zenon DEF ComponentInv
  <2>6. \A o \in Component \ Nets : life'[o] = life[o]
    BY <1>0, <2>1, Zenon
  <2> QED
    BY <1>0, <2>1, <2>2, <2>3, <2>4, <2>5, <2>6, Zenon DEF ComponentInv, SameSystem
<1>4. CASE ComponentsEffect(p)
  <2>1. /\ proc[p].pc = "components" /\ Ended(p) /\ UNCHANGED closed /\ LifeType'
        /\ \A o \in Object \ Kept : life'[o] = life[o]
        /\ \A o \in Kept : life[o] \in {"none", "open"} => life'[o] \in {"none", "closed"}
    BY <1>4, Zenon DEF ComponentsEffect
  <2>2. Closer(proc[p]) /\ ~Closer(proc'[p]) /\ closed
    BY <1>0, <2>1, IdleCall, Zenon DEF Closer, Shape, OpName, Ended, CloserInv
  <2>3. proc[p].pc # "states" /\ proc'[p].pc # "states"
    BY <2>1, IdleCall, Zenon DEF Ended
  <2>4. Serving /\ (InStates' <=> InStates)
    BY <1>0, <2>2, <2>3, Zenon DEF Serving, InStates, Others
  <2>5. ~Serving'
    BY <1>0, <2>1, <2>2, Zenon DEF Serving, Others, CloserInv
  <2>6. \A o \in Kept : life'[o] \in {"none", "closed"}
    BY <1>0, <2>1, <2>4, Zenon DEF ComponentInv, LifeType
  <2>7. \A o \in Component \ Kept : life'[o] = life[o]
    BY <1>0, <2>1, Zenon
  <2> QED
    BY <1>0, <2>1, <2>2, <2>4, <2>5, <2>6, <2>7, Zenon DEF ComponentInv, SameSystem
<1> QED
  BY <1>1, <1>2, <1>3, <1>4
=============================================================================
