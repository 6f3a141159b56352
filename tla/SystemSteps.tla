----------------------------- MODULE SystemSteps ----------------------------
(***************************************************************************)
(* Each step of an operation of a System takes and gives up mutexes as     *)
(* LInv says, and has the effect SystemOwnership!Effect says.              *)
(***************************************************************************)
EXTENDS System, SystemOwnership, TLAPS

----------------------------------------------------------------------------
(* The mutexes.                                                            *)

\* One goroutine goes to a new step and its locks change.
LEMMA StepLocks ==
    ASSUME LInv, NEW p \in Proc, NEW rec \in ProcType,
           proc' = [proc EXCEPT ![p] = rec],
           lock' \in [Lock -> Proc \cup {Nobody}],
           \A l \in Lock : lock'[l] # p => lock'[l] \in {lock[l], Nobody},
           \A l \in Lock : lock'[l] = p => l \in MayHold(rec.pc, rec.t),
           owned' \subseteq Handle
    PROVE  LInv'
<1>1. proc' \in [Proc -> ProcType]
  BY DEF LInv
<1>2. ASSUME NEW q \in Proc, NEW l \in Lock, lock'[l] = q
      PROVE  l \in MayHold(proc'[q].pc, proc'[q].t)
  <2>1. CASE q = p
    BY <1>2, <2>1 DEF LInv
  <2>2. CASE q # p
    <3>1. proc'[q] = proc[q]
      BY <2>2 DEF LInv
    <3>2. lock[l] = q
      BY <1>2, <2>2, SystemAssumption
    <3> QED
      BY <3>1, <3>2 DEF LInv
  <2> QED
    BY <2>1, <2>2
<1> QED
  BY <1>1, <1>2 DEF LInv

\* Keep leaves p with the mutexes of a set.
LEMMA KeepLocks ==
    ASSUME LInv, NEW p \in Proc, NEW set \in SUBSET Lock, Keep(p, set)
    PROVE  /\ lock' \in [Lock -> Proc \cup {Nobody}]
           /\ \A l \in Lock : lock'[l] # p => lock'[l] \in {lock[l], Nobody}
           /\ \A l \in Lock : lock'[l] = p => l \in set
BY SystemAssumption DEF LInv, Keep

\* A goroutine outside every operation is of the type of a goroutine.
LEMMA NoCallType == NoCall \in ProcType
BY DEF NoCall, ProcType, OpName, PC, Handle

\* A step that returns and gives up every mutex keeps the invariant.
LEMMA LeaveAllLocks ==
    ASSUME LInv, NEW p \in Proc, LeaveAll(p), owned' \subseteq Handle
    PROVE  LInv'
<1>1. Keep(p, {}) /\ proc' = [proc EXCEPT ![p] = NoCall]
  BY DEF LeaveAll, Return
<1>2. /\ lock' \in [Lock -> Proc \cup {Nobody}]
      /\ \A l \in Lock : lock'[l] # p => lock'[l] \in {lock[l], Nobody}
      /\ \A l \in Lock : lock'[l] # p
  BY <1>1, {} \in SUBSET Lock, KeepLocks
<1> QED
  BY <1>1, <1>2, NoCallType, StepLocks, Zenon

\* A goroutine goes on with its call and keeps a set of mutexes.
LEMMA GoKeepLocks ==
    ASSUME LInv, NEW p \in Proc, NEW pc \in PC, NEW set \in SUBSET Lock,
           Go(p, pc), Keep(p, set), set \subseteq MayHold(pc, proc[p].t),
           owned' \subseteq Handle
    PROVE  LInv'
<1> DEFINE rec == [proc[p] EXCEPT !.pc = pc]
<1>1. rec \in ProcType /\ rec.pc = pc /\ rec.t = proc[p].t
  BY DEF LInv, ProcType
<1>2. proc' = [proc EXCEPT ![p] = rec]
  BY DEF Go
<1> HIDE DEF rec
<1> QED
  BY <1>1, <1>2, KeepLocks, StepLocks, Zenon

\* A goroutine goes on with the mutexes it has.
LEMMA GoLocks ==
    ASSUME LInv, NEW p \in Proc, NEW pc \in PC, Go(p, pc), UNCHANGED lock,
           MayHold(proc[p].pc, proc[p].t) \subseteq MayHold(pc, proc[p].t),
           owned' \subseteq Handle
    PROVE  LInv'
<1> DEFINE rec == [proc[p] EXCEPT !.pc = pc]
<1>1. rec \in ProcType /\ rec.pc = pc /\ rec.t = proc[p].t
  BY DEF LInv, ProcType
<1>2. proc' = [proc EXCEPT ![p] = rec]
  BY DEF Go
<1> HIDE DEF rec
<1>3. \A l \in Lock : lock'[l] = p => l \in MayHold(rec.pc, rec.t)
  BY <1>1 DEF LInv
<1> QED
  BY <1>1, <1>2, <1>3, StepLocks DEF LInv

\* A goroutine that holds nothing returns.
LEMMA ReturnLocks ==
    ASSUME LInv, NEW p \in Proc, Return(p), UNCHANGED lock,
           MayHold(proc[p].pc, proc[p].t) = {}, owned' \subseteq Handle
    PROVE  LInv'
<1>1. proc' = [proc EXCEPT ![p] = NoCall]
  BY DEF Return
<1>2. \A l \in Lock : lock'[l] # p
  BY DEF LInv
<1> QED
  BY <1>1, <1>2, NoCallType, StepLocks DEF LInv
\* No mutex is held when the constructor starts.
LEMMA LInvInit == Init => LInv
<1> SUFFICES ASSUME Init PROVE LInv
  OBVIOUS
<1>1. lock \in [Lock -> Proc \cup {Nobody}] /\ proc \in [Proc -> ProcType]
  BY NoCallType DEF Init
<1>2. \A p \in Proc, l \in Lock : lock[l] # p
  BY SystemAssumption DEF Init
<1> QED
  BY <1>1, <1>2 DEF LInv, Init

\* A call begins where its goroutine holds nothing.
LEMMA CallLocks ==
    ASSUME LInv, NEW p \in Proc, NEW op \in OpName \ {"none"}, NEW t \in Handle,
           Call(p, op, t)
    PROVE  LInv'
<1> DEFINE rec == [op |-> op, pc |-> FirstStep(op, t), t |-> t, todo |-> {}]
<1>1. FirstStep(op, t) \in {"check", "defaultTunMu", "mu"}
  BY DEF FirstStep, OpName
<1>2. rec \in ProcType
  BY <1>1 DEF ProcType, PC
<1>3. proc' = [proc EXCEPT ![p] = rec] /\ lock' = lock /\ owned' = owned
  BY DEF Call
<1>4. \A l \in Lock : lock[l] # p
  BY DEF LInv, Call, At, MayHold
<1> HIDE DEF rec
<1> QED
  BY <1>2, <1>3, <1>4, StepLocks DEF LInv

\* Calling a method of a System keeps the invariant.
LEMMA CallsLocks ==
    ASSUME LInv, NEW p \in Proc, Calls(p), issued \subseteq Handle
    PROVE  LInv'
BY CallLocks DEF Calls, OpName, Handle

\* Every step of an operation respects the bound.
LEMMA LInvStep ==
    ASSUME LInv, NEW p \in Proc, Step(p) \/ endIO(p)
    PROVE  LInv'
<1> DEFINE t == proc[p].t
<1>t. t \in Handle /\ proc[p].pc \in PC /\ Op(p) \in OpName /\ owned \subseteq Handle
  BY DEF LInv, ProcType, Op
<1>h. Handle \subseteq Lock /\ "mu" \in Lock /\ "defaultTunMu" \in Lock
      /\ Default \in Handle
  BY DEF Lock, Handle
<1> HIDE DEF t
<1>1. CASE checkOptions(p)
  BY <1>1, <1>t, GoLocks, ReturnLocks DEF checkOptions, At, MayHold, PC
<1>2. CASE CreateTUN(p)
  BY <1>2, <1>t, GoLocks, ReturnLocks DEF CreateTUN, At, MayHold, PC
<1>3. CASE publishTun(p)
  <2>1. owned' \subseteq Handle
    BY <1>3, <1>t DEF publishTun, t
  <2> QED
    BY <1>3, <2>1, ReturnLocks DEF publishTun, At, MayHold
<1>4. CASE lockDefaultTunMu(p)
  BY <1>4, <1>t, <1>h, GoKeepLocks DEF lockDefaultTunMu, MayHold, PC
<1>5. CASE lookUpTun(p)
  <2>1. CASE LeaveAll(p)
    BY <1>5, <2>1, <1>t, LeaveAllLocks DEF lookUpTun
  <2>2. CASE ~LeaveAll(p)
    <3>1. PICK set \in SUBSET Lock : /\ set \subseteq HeldBy(p) \cup {"mu"}
                                     /\ Keep(p, set) /\ Go(p, "state")
      BY <1>5, <2>2, <1>h DEF lookUpTun, HeldBy
    <3>2. HeldBy(p) \subseteq {"defaultTunMu"}
      BY <1>5 DEF lookUpTun, At, HeldBy, LInv, MayHold
    <3>3. set \subseteq MayHold("state", t) /\ "state" \in PC
      BY <3>1, <3>2 DEF MayHold, PC
    <3>4. owned' \subseteq Handle
      BY <1>5, <1>t DEF lookUpTun
    <3> QED
      BY <3>1, <3>3, <3>4, GoKeepLocks DEF t
  <2> QED
    BY <2>1, <2>2
<1>6. CASE forgetTun(p)
  <2>1. owned' \subseteq Handle
    BY <1>6, <1>t DEF forgetTun
  <2>2. CASE LeaveAll(p)
    BY <2>1, <2>2, LeaveAllLocks
  <2>3. CASE Go(p, "closeActive") /\ UNCHANGED lock
    BY <1>6, <2>1, <2>3, GoLocks DEF forgetTun, At, MayHold, PC
  <2>4. CASE Go(p, "state") /\ Keep(p, {"mu"})
    BY <2>1, <2>4, <1>h, GoKeepLocks DEF MayHold, PC
  <2> QED
    BY <1>6, <2>2, <2>3, <2>4 DEF forgetTun
<1>7. CASE lockState(p)
  <2>1. owned' \subseteq Handle
    BY <1>7, <1>t DEF lockState
  <2>2. CASE LeaveAll(p)
    BY <2>1, <2>2, LeaveAllLocks
  <2>3. CASE Keep(p, UseLocks(t)) /\ Go(p, "use")
    BY <2>1, <2>3, <1>t, <1>h, GoKeepLocks DEF UseLocks, MayHold, PC, t
  <2>4. CASE Keep(p, {}) /\ (Go(p, "closeNative") \/ Go(p, "io"))
    BY <2>1, <2>4, {} \in SUBSET Lock, GoKeepLocks DEF PC
  <2> QED
    BY <1>7, <2>2, <2>3, <2>4 DEF lockState, t
<1>8. CASE closeNative(p)
  BY <1>8, <1>t, ReturnLocks DEF closeNative, At, MayHold
<1>9. CASE useTun(p)
  BY <1>9, <1>t, LeaveAllLocks DEF useTun
<1>10. CASE endIO(p)
  BY <1>10, <1>t, ReturnLocks DEF endIO, At, MayHold
<1>11. CASE createDefaultTun(p)
  <2>1. owned' \subseteq Handle
    BY <1>11, <1>t, <1>h DEF createDefaultTun
  <2>2. CASE LeaveAll(p)
    BY <2>1, <2>2, LeaveAllLocks
  <2>3. CASE Go(p, "configure") /\ UNCHANGED lock
    BY <1>11, <2>1, <2>3, GoLocks DEF createDefaultTun, At, MayHold, PC
  <2> QED
    BY <1>11, <2>2, <2>3 DEF createDefaultTun
<1>12. CASE configureDefaultTun(p)
  BY <1>12, <1>t, LeaveAllLocks, GoLocks DEF configureDefaultTun, At, MayHold, PC
<1>13. CASE dropDefaultTun(p)
  BY <1>13, <1>t, GoLocks DEF dropDefaultTun, At, MayHold, PC
<1>14. CASE closeActive(p)
  BY <1>14, <1>t, GoLocks DEF closeActive, At, MayHold, PC
<1>15. CASE rollbackDefaultTun(p)
  BY <1>15, <1>t, LeaveAllLocks, GoLocks DEF rollbackDefaultTun, At, MayHold, PC
<1>16. CASE closeSystem(p)
  <2>1. owned' \subseteq Handle
    BY <1>16, <1>t DEF closeSystem
  <2>2. CASE LeaveAll(p)
    BY <2>1, <2>2, LeaveAllLocks
  <2>3. CASE ~LeaveAll(p)
    <3> DEFINE rec == [proc[p] EXCEPT !.pc = "states",
                                      !.todo = owned \cap {Default}]
    <3>1. /\ proc' = [proc EXCEPT ![p] = rec]
          /\ Keep(p, {"defaultTunMu", "mu"})
      BY <1>16, <2>3, Zenon DEF closeSystem
    <3>2. rec \in ProcType /\ rec.pc = "states"
      BY <1>t, Zenon DEF LInv, ProcType, PC
    <3> HIDE DEF rec
    <3>3. {"defaultTunMu", "mu"} \in SUBSET Lock
      BY <1>h
    <3>4. /\ lock' \in [Lock -> Proc \cup {Nobody}]
          /\ \A l \in Lock : lock'[l] # p => lock'[l] \in {lock[l], Nobody}
          /\ \A l \in Lock : lock'[l] = p => l \in {"defaultTunMu", "mu"}
      BY <3>1, <3>3, KeepLocks
    <3>5. MayHold(rec.pc, rec.t) = {"defaultTunMu", "mu"}
      BY <3>2 DEF MayHold
    <3> QED
      BY <2>1, <3>1, <3>2, <3>4, <3>5, StepLocks, Zenon
  <2> QED
    BY <2>2, <2>3
<1>17. CASE takeTun(p)
  <2>1. PICK h \in owned :
            /\ proc' = [proc EXCEPT ![p].todo = @ \cup (attached \cap {h})]
            /\ owned' = owned \ {h} /\ lock' = lock
    BY <1>17, Zenon DEF takeTun
  <2> DEFINE rec == [proc[p] EXCEPT !.todo = @ \cup (attached \cap {h})]
  <2>2. proc' = [proc EXCEPT ![p] = rec]
    BY <2>1
  <2>3. rec \in ProcType /\ rec.pc = proc[p].pc /\ rec.t = proc[p].t
    BY <1>t DEF LInv, ProcType
  <2> HIDE DEF rec
  <2>4. \A l \in Lock : lock'[l] = p => l \in MayHold(rec.pc, rec.t)
    BY <2>1, <2>3 DEF LInv
  <2>5. lock' \in [Lock -> Proc \cup {Nobody}] /\ owned' \subseteq Handle
    BY <2>1, <1>t DEF LInv
  <2>6. \A l \in Lock : lock'[l] # p => lock'[l] \in {lock[l], Nobody}
    BY <2>1
  <2> QED
    BY <2>2, <2>3, <2>4, <2>5, <2>6, StepLocks, Zenon
<1>18. CASE closeNets(p)
  BY <1>18, <1>t, <1>h, GoKeepLocks DEF closeNets, MayHold, PC
<1>19. CASE closeTuns(p)
  BY <1>19, <1>t, {} \in SUBSET Lock, GoKeepLocks DEF closeTuns, PC
<1>20. CASE closeComponents(p)
  BY <1>20, <1>t, ReturnLocks DEF closeComponents, At, MayHold
<1> QED
  BY <1>1, <1>2, <1>3, <1>4, <1>5, <1>6, <1>7, <1>8, <1>9, <1>10, <1>11, <1>12,
     <1>13, <1>14, <1>15, <1>16, <1>17, <1>18, <1>19, <1>20 DEF Step
\* The constructors touch no lock.
LEMMA LInvUnchanged ==
    ASSUME LInv, UNCHANGED <<lock, proc, owned>>
    PROVE  LInv'
BY DEF LInv

\* Every step of the specification keeps the invariant.
LEMMA LInvNext ==
    ASSUME LInv, IssuedType, [Next]_vars
    PROVE  LInv' /\ IssuedType'
<1>1. CASE New
  BY <1>1, LInvUnchanged
     DEF New, NewTUN, setupRoutingManager, newDNSProvider, newPmark, newSystem,
         NewSystem, Running, IssuedType
<1>2. CASE UNCHANGED vars
  BY <1>2, LInvUnchanged DEF vars, IssuedType
<1>3. ASSUME NEW p \in Proc, Calls(p) \/ Step(p) \/ endIO(p)
      PROVE  LInv' /\ IssuedType'
  <2>1. LInv'
    BY <1>3, CallsLocks, LInvStep DEF IssuedType
  <2>2. proc[p].t \in Handle /\ Default \in Handle
    BY DEF LInv, ProcType, Handle
  <2>3. CASE Calls(p)
    <3>1. \A op, h : Call(p, op, h) => issued' = issued
      BY DEF Call
    <3> QED
      BY <2>1, <2>3, <3>1 DEF Calls, IssuedType
  <2>4. CASE Step(p) \/ endIO(p)
    <3>1. CASE publishTun(p)
      BY <2>1, <2>2, <3>1 DEF publishTun, IssuedType
    <3>2. CASE configureDefaultTun(p)
      BY <2>1, <2>2, <3>2 DEF configureDefaultTun, IssuedType
    <3>3. CASE checkOptions(p) \/ CreateTUN(p) \/ lockDefaultTunMu(p)
               \/ lookUpTun(p) \/ forgetTun(p) \/ lockState(p)
      BY <2>1, <3>3 DEF checkOptions, CreateTUN, lockDefaultTunMu, lookUpTun, forgetTun,
                  lockState, IssuedType
    <3>4. CASE closeNative(p) \/ useTun(p) \/ createDefaultTun(p)
               \/ dropDefaultTun(p) \/ closeActive(p) \/ rollbackDefaultTun(p)
      BY <2>1, <3>4 DEF closeNative, useTun, createDefaultTun, dropDefaultTun,
                  closeActive, rollbackDefaultTun, IssuedType
    <3>5. CASE closeSystem(p) \/ takeTun(p) \/ closeNets(p) \/ closeTuns(p)
               \/ closeComponents(p) \/ endIO(p)
      BY <2>1, <3>5 DEF closeSystem, takeTun, closeNets, closeTuns, closeComponents,
                  endIO, IssuedType
    <3> QED
      BY <2>4, <3>1, <3>2, <3>3, <3>4, <3>5 DEF Step
  <2> QED
    BY <1>3, <2>1, <2>3, <2>4
<1> QED
  BY <1>1, <1>2, <1>3 DEF Next

----------------------------------------------------------------------------
(* The effect of each step.                                                *)

LEMMA GoEffect ==
    ASSUME LInv, NEW p \in Proc, NEW pc, Go(p, pc)
    PROVE  Others(p) /\ Went(p, pc)
BY DEF LInv, ProcType, Go, Others, Went

LEMMA ReturnEffect ==
    ASSUME LInv, NEW p \in Proc, Return(p)
    PROVE  Others(p) /\ Ended(p)
BY DEF LInv, Return, Others, Ended

LEMMA KeepEffect ==
    ASSUME NEW p \in Proc, NEW set, Keep(p, set)
    PROVE  Took(p, set)
BY DEF Keep, Took

LEMMA LeaveEffect ==
    ASSUME LInv, NEW p \in Proc, LeaveAll(p)
    PROVE  Others(p) /\ Ended(p) /\ Took(p, {})
BY ReturnEffect, KeepEffect, Zenon DEF LeaveAll

LEMMA ShutEffect ==
    ASSUME LifeType, NEW set, life' = Shut(life, set)
    PROVE  /\ LifeType'
           /\ \A o \in Object : life'[o] = IF o \notin set THEN life[o]
                                           ELSE IF life[o] = "open" THEN "closed" ELSE "twice"
BY DEF LifeType, Shut

LEMMA OpenedEffect ==
    ASSUME LifeType, NEW o \in Object, life' = Opened(life, o)
    PROVE  /\ LifeType' /\ life'[o] = "open"
           /\ \A x \in Object : x # o => life'[x] = life[x]
BY DEF LifeType, Opened

LEMMA CheckDoes ==
    ASSUME LInv, NEW p \in Proc, checkOptions(p)
    PROVE  CheckEffect(p)
<1> USE DEF CheckEffect
<1>1. /\ proc[p].pc = "check" /\ SameHost /\ SameSystem /\ UNCHANGED lock
      /\ \/ Return(p)
         \/ proc[p].op = "build" /\ Go(p, "create")
         \/ proc[p].op # "build" /\ Go(p, "defaultTunMu")
  BY Zenon DEF checkOptions, At, Op, SameHost, SameSystem, Constructors
<1> QED
  BY <1>1, GoEffect, ReturnEffect, Zenon

LEMMA CreateDoes ==
    ASSUME LInv, LifeType, NEW p \in Proc, CreateTUN(p)
    PROVE  CreateEffect(p)
<1> USE DEF CreateEffect
<1> DEFINE t == proc[p].t
<1>1. t \in Object
  BY DEF LInv, ProcType, Object
<1>2. /\ proc[p].pc = "create" /\ UNCHANGED <<closed, owned, attached>> /\ SameSystem
      /\ UNCHANGED lock
      /\ \/ life' = Opened(life, t) /\ Go(p, "publish")
         \/ life' = life /\ Return(p)
         \/ life' = Shut(Opened(life, t), {t}) /\ Return(p)
  BY Zenon DEF CreateTUN, At, SameSystem, Constructors
<1> HIDE DEF t
<1>3. CASE life' = Opened(life, t) /\ Go(p, "publish")
  BY <1>1, <1>2, <1>3, OpenedEffect, GoEffect, Zenon DEF t
<1>4. CASE life' = life /\ Return(p)
  BY <1>2, <1>4, ReturnEffect, Zenon DEF LifeType, t
<1>5. CASE life' = Shut(Opened(life, t), {t}) /\ Return(p)
  <2>1. LifeType' /\ life'[t] = "closed" /\ \A o \in Object : o # t => life'[o] = life[o]
    BY <1>1, <1>5 DEF LifeType, Shut, Opened
  <2> QED
    BY <1>2, <1>5, <2>1, ReturnEffect, Zenon DEF t
<1> QED
  BY <1>2, <1>3, <1>4, <1>5, Zenon

LEMMA PublishDoes ==
    ASSUME LInv, LifeType, NEW p \in Proc, publishTun(p)
    PROVE  PublishEffect(p)
<1> USE DEF PublishEffect
<1> DEFINE t == proc[p].t
<1>1. t \in Object
  BY DEF LInv, ProcType, Object
<1>2. /\ proc[p].pc = "publish" /\ Return(p) /\ UNCHANGED closed /\ SameSystem
      /\ UNCHANGED lock
      /\ \/ closed /\ life' = Shut(life, {t}) /\ UNCHANGED <<owned, attached>>
         \/ /\ ~closed /\ life' = life /\ owned' = owned \cup {t}
            /\ attached' = attached \cup {t}
  BY Zenon DEF publishTun, At, Refused, SameSystem, Constructors
<1> HIDE DEF t
<1>3. CASE closed /\ life' = Shut(life, {t}) /\ UNCHANGED <<owned, attached>>
  <2>1. /\ LifeType'
        /\ life[t] = "open" => life'[t] = "closed"
        /\ \A o \in Object : o # t => life'[o] = life[o]
    BY <1>1, <1>3, ShutEffect
  <2> QED
    BY <1>2, <1>3, <2>1, ReturnEffect, Zenon DEF t
<1>4. CASE life' = life
  BY <1>2, <1>4, <1>3, ReturnEffect, Zenon DEF LifeType, t
<1> QED
  BY <1>2, <1>3, <1>4

LEMMA LockDefaultDoes ==
    ASSUME LInv, NEW p \in Proc, lockDefaultTunMu(p)
    PROVE  LockDefaultEffect(p)
<1> USE DEF LockDefaultEffect
<1>1. /\ proc[p].pc = "defaultTunMu" /\ Go(p, "mu") /\ Keep(p, {"defaultTunMu"})
      /\ SameHost /\ SameSystem /\ \A l \in Waits(p) : lock[l] = Nobody
  BY Zenon DEF lockDefaultTunMu, At, Free, SameHost, SameSystem, Constructors
<1>2. "defaultTunMu" \in Waits(p)
  BY <1>1 DEF Waits
<1> QED
  BY <1>1, <1>2, GoEffect, KeepEffect, Zenon

\* The steps that wait for mu find it free.
LEMMA MuFree ==
    ASSUME NEW p \in Proc, NEW pc \in {"publish", "mu", "drop"}, At(p, pc)
    PROVE  proc[p].pc = pc /\ lock["mu"] = Nobody
<1>1. proc[p].pc = pc /\ \A l \in Waits(p) : lock[l] = Nobody
  BY Zenon DEF At, Free
<1>2. "mu" \in Waits(p)
  BY <1>1 DEF Waits
<1> QED
  BY <1>1, <1>2, Zenon

LEMMA LookUpDoes ==
    ASSUME LInv, NEW p \in Proc, lookUpTun(p)
    PROVE  LookUpEffect(p)
<1> USE DEF LookUpEffect
<1>1. /\ proc[p].pc = "mu" /\ lock["mu"] = Nobody
      /\ proc[p].op \in {"set", "report", "io", "setDNS", "warnings"}
  BY MuFree, Zenon DEF lookUpTun, Op
<1>2. SameHost /\ SameSystem
  BY Zenon DEF lookUpTun, SameHost, SameSystem, Constructors
<1> DEFINE set == IF proc[p].op \in {"setDNS", "warnings"} THEN {} ELSE {"mu"}
<1>3. \/ LeaveAll(p)
      \/ Go(p, "state") /\ proc[p].t \in owned /\ Keep(p, HeldBy(p) \cup set)
  BY Zenon DEF lookUpTun, Op
<1>4. set \in SUBSET {"mu"} /\ (proc[p].op = "set" => "mu" \in set)
  BY <1>1
<1> HIDE DEF set
<1>5. CASE LeaveAll(p)
  BY <1>1, <1>2, <1>5, LeaveEffect, Zenon
<1>6. CASE Go(p, "state") /\ proc[p].t \in owned /\ Keep(p, HeldBy(p) \cup set)
  <2>1. Others(p) /\ Went(p, "state") /\ Took(p, HeldBy(p) \cup set)
    BY <1>6, GoEffect, KeepEffect, Zenon
  <2> QED
    BY <1>1, <1>2, <1>4, <1>6, <2>1, Zenon
<1> QED
  BY <1>3, <1>5, <1>6

LEMMA ForgetDoes ==
    ASSUME LInv, NEW p \in Proc, forgetTun(p)
    PROVE  ForgetEffect(p)
<1> USE DEF ForgetEffect
<1>1. proc[p].pc = "mu" /\ proc[p].op = "close" /\ lock["mu"] = Nobody
  BY MuFree, Zenon DEF forgetTun, Op
<1>2. /\ UNCHANGED <<life, closed, attached>> /\ SameSystem
      /\ \/ LeaveAll(p) /\ UNCHANGED owned
         \/ /\ proc[p].t \in owned /\ owned' = owned \ {proc[p].t}
            /\ \/ proc[p].t = Default /\ Go(p, "closeActive") /\ UNCHANGED lock
               \/ proc[p].t # Default /\ Go(p, "state") /\ Keep(p, {"mu"})
  BY Zenon DEF forgetTun, SameSystem, Constructors
<1> QED
  BY <1>1, <1>2, LeaveEffect, GoEffect, KeepEffect, Zenon

LEMMA LockStateDoes ==
    ASSUME LInv, NEW p \in Proc, lockState(p)
    PROVE  LockStateEffect(p)
<1> USE DEF LockStateEffect
<1>1. proc[p].pc = "state" /\ \A l \in Waits(p) : lock[l] = Nobody
  BY Zenon DEF lockState, At, Free
<1>2. proc[p].t \in Waits(p)
  BY <1>1 DEF Waits
<1>3. /\ UNCHANGED <<life, closed, owned>> /\ SameSystem
      /\ attached' = IF proc[p].op = "close" THEN attached \ {proc[p].t} ELSE attached
  BY Zenon DEF lockState, Op, SameSystem, Constructors
<1>4. \/ LeaveAll(p) /\ (proc[p].t \notin attached \/ proc[p].op \in {"report", "setDNS"})
      \/ /\ proc[p].op = "set" /\ proc[p].t \in attached
         /\ Go(p, "use") /\ Keep(p, {"defaultTunMu", proc[p].t})
      \/ proc[p].op = "close" /\ Go(p, "closeNative") /\ Keep(p, {})
      \/ /\ proc[p].op \notin {"set", "close", "report", "setDNS"}
         /\ Go(p, "io") /\ Keep(p, {})
  BY DEF lockState, Op, UseLocks
<1> QED
  BY <1>1, <1>2, <1>3, <1>4, LeaveEffect, GoEffect, KeepEffect, Zenon

LEMMA CloseNativeDoes ==
    ASSUME LInv, LifeType, NEW p \in Proc, closeNative(p)
    PROVE  CloseNativeEffect(p)
<1> USE DEF CloseNativeEffect
<1> DEFINE t == proc[p].t
<1>1. t \in Object
  BY DEF LInv, ProcType, Object
<1>2. /\ proc[p].pc = "closeNative" /\ Return(p) /\ life' = Shut(life, {t})
      /\ UNCHANGED <<closed, owned, attached>> /\ SameSystem /\ UNCHANGED lock
  BY Zenon DEF closeNative, At, SameSystem, Constructors
<1> HIDE DEF t
<1>3. /\ LifeType'
      /\ life[t] = "open" => life'[t] = "closed"
      /\ \A o \in Object : o # t => life'[o] = life[o]
  BY <1>1, <1>2, ShutEffect
<1> QED
  BY <1>2, <1>3, ReturnEffect, Zenon DEF t

LEMMA UseDoes ==
    ASSUME LInv, NEW p \in Proc, useTun(p)
    PROVE  UseEffect(p)
BY LeaveEffect, Zenon DEF UseEffect, useTun, At, SameHost, SameSystem, Constructors

LEMMA EndIODoes ==
    ASSUME LInv, NEW p \in Proc, endIO(p)
    PROVE  EndIOEffect(p)
BY ReturnEffect, Zenon DEF EndIOEffect, endIO, At, SameHost, SameSystem, Constructors

LEMMA CreateDefaultDoes ==
    ASSUME LInv, LifeType, NEW p \in Proc, createDefaultTun(p)
    PROVE  CreateDefaultEffect(p)
<1> USE DEF CreateDefaultEffect
<1>1. proc[p].pc = "mu" /\ proc[p].op = "buildDefault" /\ lock["mu"] = Nobody
  BY MuFree, Zenon DEF createDefaultTun, Op
<1>2. /\ UNCHANGED closed /\ SameSystem
      /\ \/ LeaveAll(p) /\ UNCHANGED <<life, owned, attached>>
         \/ /\ ~closed /\ Default \in owned /\ Go(p, "configure")
            /\ UNCHANGED <<life, owned, attached, lock>>
         \/ /\ ~closed /\ life[Default] = "none" /\ life' = Opened(life, Default)
            /\ Go(p, "configure") /\ UNCHANGED lock
            /\ owned' = owned \cup {Default} /\ attached' = attached \cup {Default}
  BY Zenon DEF createDefaultTun, SameSystem, Constructors
<1>3. CASE LeaveAll(p) /\ UNCHANGED <<life, owned, attached>>
  BY <1>1, <1>2, <1>3, LeaveEffect, Zenon DEF LifeType
<1>4. CASE /\ ~closed /\ Default \in owned /\ Go(p, "configure")
           /\ UNCHANGED <<life, owned, attached, lock>>
  BY <1>1, <1>2, <1>4, GoEffect, Zenon DEF LifeType
<1>5. CASE /\ ~closed /\ life[Default] = "none" /\ life' = Opened(life, Default)
           /\ Go(p, "configure") /\ UNCHANGED lock
           /\ owned' = owned \cup {Default} /\ attached' = attached \cup {Default}
  <2>1. Default \in Object
    BY DEF Object, Handle
  <2> QED
    BY <1>1, <1>2, <1>5, <2>1, OpenedEffect, GoEffect, Zenon
<1> QED
  BY <1>2, <1>3, <1>4, <1>5, Zenon

LEMMA ConfigureDoes ==
    ASSUME LInv, NEW p \in Proc, configureDefaultTun(p)
    PROVE  ConfigureEffect(p)
BY GoEffect, LeaveEffect, Zenon
   DEF ConfigureEffect, configureDefaultTun, At, SameHost, SameSystem, Constructors

LEMMA DropDoes ==
    ASSUME LInv, NEW p \in Proc, dropDefaultTun(p)
    PROVE  DropEffect(p)
BY GoEffect, MuFree, Zenon DEF DropEffect, dropDefaultTun, SameSystem, Constructors

LEMMA CloseActiveDoes ==
    ASSUME LInv, NEW p \in Proc, closeActive(p)
    PROVE  CloseActiveEffect(p)
<1> USE DEF CloseActiveEffect
<1>1. proc[p].pc = "closeActive" /\ \A l \in Waits(p) : lock[l] = Nobody
  BY Zenon DEF closeActive, At, Free
<1>2. Default \in Waits(p)
  BY <1>1 DEF Waits
<1> QED
  BY <1>1, <1>2, GoEffect, Zenon DEF closeActive, SameSystem, Constructors

LEMMA RollbackDoes ==
    ASSUME LInv, LifeType, NEW p \in Proc, rollbackDefaultTun(p)
    PROVE  RollbackEffect(p)
<1> USE DEF RollbackEffect
<1>1. /\ proc[p].pc = "rollback" /\ UNCHANGED <<closed, owned, attached>> /\ SameSystem
      /\ life' = Shut(life, {Default})
      /\ \/ proc[p].op = "closeSystem" /\ Go(p, "tuns") /\ UNCHANGED lock
         \/ proc[p].op # "closeSystem" /\ LeaveAll(p)
  BY Zenon DEF rollbackDefaultTun, At, Op, SameSystem, Constructors
<1>2. Default \in Object
  BY DEF Object, Handle
<1>3. /\ LifeType'
      /\ life[Default] = "open" => life'[Default] = "closed"
      /\ \A o \in Object : o # Default => life'[o] = life[o]
  BY <1>1, <1>2, ShutEffect
<1> QED
  BY <1>1, <1>3, GoEffect, LeaveEffect, Zenon

LEMMA CloseSystemDoes ==
    ASSUME LInv, NEW p \in Proc, closeSystem(p)
    PROVE  CloseSystemEffect(p)
<1> USE DEF CloseSystemEffect
<1>1. proc[p].pc = "mu" /\ proc[p].op = "closeSystem" /\ lock["mu"] = Nobody
  BY MuFree, Zenon DEF closeSystem, Op
<1>2. /\ UNCHANGED <<life, attached>> /\ SameSystem
      /\ \/ closed /\ LeaveAll(p) /\ UNCHANGED <<closed, owned>>
         \/ /\ ~closed /\ closed' /\ owned' = owned \ {Default}
            /\ Keep(p, {"defaultTunMu", "mu"})
            /\ proc' = [proc EXCEPT ![p].pc = "states", ![p].todo = owned \cap {Default}]
  BY Zenon DEF closeSystem, SameSystem, Constructors
<1>3. ASSUME proc' = [proc EXCEPT ![p].pc = "states", ![p].todo = owned \cap {Default}]
      PROVE  /\ Others(p) /\ proc'[p].pc = "states" /\ proc'[p].op = proc[p].op
             /\ proc'[p].t = proc[p].t /\ proc'[p].todo = owned \cap {Default}
  BY <1>3 DEF LInv, ProcType, Others
<1> QED
  BY <1>1, <1>2, <1>3, LeaveEffect, KeepEffect, Zenon

LEMMA TakeDoes ==
    ASSUME LInv, NEW p \in Proc, takeTun(p)
    PROVE  TakeEffect(p)
<1> USE DEF TakeEffect
<1>1. proc[p].pc = "states" /\ UNCHANGED <<life, closed, lock>> /\ SameSystem
  BY Zenon DEF takeTun, SameSystem, Constructors
<1>2. PICK t \in owned :
          /\ lock[t] = Nobody /\ attached' = attached \ {t} /\ owned' = owned \ {t}
          /\ proc' = [proc EXCEPT ![p].todo = @ \cup (attached \cap {t})]
  BY Zenon DEF takeTun, Free
<1>3. /\ Others(p) /\ proc'[p].pc = "states" /\ proc'[p].op = proc[p].op
      /\ proc'[p].t = proc[p].t
      /\ proc'[p].todo = proc[p].todo \cup (attached \cap {t})
  BY <1>1, <1>2 DEF LInv, ProcType, Others
<1> QED
  BY <1>1, <1>2, <1>3, Zenon

LEMMA NetsDoes ==
    ASSUME LInv, LifeType, NEW p \in Proc, closeNets(p)
    PROVE  NetsEffect(p)
<1> USE DEF NetsEffect
<1>1. /\ proc[p].pc = "states" /\ owned = {} /\ Keep(p, {"defaultTunMu"})
      /\ UNCHANGED <<closed, owned, attached>> /\ SameSystem /\ life' = Shut(life, Nets)
      /\ \/ Default \in proc[p].todo /\ Go(p, "closeActive")
         \/ Default \notin proc[p].todo /\ Go(p, "tuns")
  BY Zenon DEF closeNets, At, Nets, SameSystem, Constructors
<1>2. Nets \subseteq Object
  BY DEF Nets, Object, Component
<1>3. /\ LifeType'
      /\ \A o \in Object \ Nets : life'[o] = life[o]
      /\ \A o \in Nets : life[o] = "open" => life'[o] = "closed"
  BY <1>1, <1>2, ShutEffect
<1> QED
  BY <1>1, <1>3, GoEffect, KeepEffect, Zenon

LEMMA TunsDoes ==
    ASSUME LInv, LifeType, NEW p \in Proc, closeTuns(p)
    PROVE  TunsEffect(p)
<1> USE DEF TunsEffect
<1> DEFINE todo == proc[p].todo \ {Default}
<1>1. /\ proc[p].pc = "tuns" /\ Go(p, "components") /\ Keep(p, {})
      /\ UNCHANGED <<closed, owned, attached>> /\ SameSystem /\ life' = Shut(life, todo)
  BY Zenon DEF closeTuns, At, SameSystem, Constructors
<1>2. todo \subseteq Object
  BY DEF LInv, ProcType, Object
<1> HIDE DEF todo
<1>3. /\ LifeType'
      /\ \A o \in Object \ todo : life'[o] = life[o]
      /\ \A o \in todo : life[o] = "open" => life'[o] = "closed"
  BY <1>1, <1>2, ShutEffect
<1> QED
  BY <1>1, <1>3, GoEffect, KeepEffect, Zenon DEF todo

LEMMA ClosersKept == Closers = {o \in Kept : life[o] # "none"}
BY DEF Closers, Held, Kept

LEMMA ComponentsDoes ==
    ASSUME LInv, LifeType, NEW p \in Proc, closeComponents(p)
    PROVE  ComponentsEffect(p)
<1> USE DEF ComponentsEffect
<1>1. /\ proc[p].pc = "components" /\ Return(p) /\ life' = Shut(life, Closers)
      /\ UNCHANGED <<closed, owned, attached, lock>> /\ SameSystem
  BY Zenon DEF closeComponents, At, SameSystem, Constructors
<1>2. Kept \subseteq Object
  BY DEF Kept, Object, Component
<1>3. /\ LifeType'
      /\ \A o \in Object \ Kept : life'[o] = life[o]
      /\ \A o \in Kept : life[o] \in {"none", "open"} => life'[o] \in {"none", "closed"}
  BY <1>1, <1>2, ClosersKept, ShutEffect
<1> QED
  BY <1>1, <1>3, ReturnEffect, Zenon

\* A call begins.
LEMMA CallEffect ==
    ASSUME LInv, NEW p \in Proc, NEW op, NEW t, Call(p, op, t)
    PROVE  /\ phase = "open" /\ proc[p].pc = "idle" /\ Others(p) /\ SameHost /\ SameSystem
           /\ UNCHANGED lock /\ proc'[p].op = op /\ proc'[p].t = t /\ proc'[p].todo = {}
           /\ proc'[p].pc = FirstStep(op, t)
<1>1. /\ phase = "open" /\ proc[p].pc = "idle" /\ SameHost /\ SameSystem /\ UNCHANGED lock
      /\ proc' = [proc EXCEPT ![p] = [op |-> op, pc |-> FirstStep(op, t), t |-> t, todo |-> {}]]
  BY Zenon DEF Call, At, SameHost, SameSystem, Constructors
<1>2. proc'[p] = [op |-> op, pc |-> FirstStep(op, t), t |-> t, todo |-> {}] /\ Others(p)
  BY <1>1, Zenon DEF LInv, Others
<1> QED
  BY <1>1, <1>2

LEMMA CallsDoes ==
    ASSUME LInv, IssuedType, NEW p \in Proc, Calls(p)
    PROVE  CallsEffect(p)
<1> USE DEF CallsEffect
<1>1. CASE \E t \in Tun : /\ life[t] = "none"
                          /\ \A q \in Proc : proc[q].t = t => Op(q) # "build"
                          /\ Call(p, "build", t)
  <2>1. PICK t \in Tun : /\ life[t] = "none" /\ Call(p, "build", t)
                         /\ \A q \in Proc : proc[q].t = t => proc[q].op # "build"
    BY <1>1, Zenon DEF Op
  <2>2. FirstStep("build", t) = "check" /\ t \in Handle
    BY DEF FirstStep, Handle
  <2>3. /\ phase = "open" /\ proc[p].pc = "idle" /\ Others(p) /\ SameHost /\ SameSystem
        /\ UNCHANGED lock /\ proc'[p].op = "build" /\ proc'[p].t = t /\ proc'[p].todo = {}
        /\ proc'[p].pc = "check"
    BY <2>1, <2>2, CallEffect, Zenon
  <2> QED
    BY <2>1, <2>2, <2>3, Zenon
<1>2. CASE \E op \in {"buildDefault", "closeSystem"} : Call(p, op, Default)
  <2>1. /\ FirstStep("buildDefault", Default) = "check" /\ Default \in Handle
        /\ FirstStep("closeSystem", Default) = "defaultTunMu"
    BY DEF FirstStep, Handle
  <2>2. PICK op \in {"buildDefault", "closeSystem"} : Call(p, op, Default)
    BY <1>2
  <2>3. /\ phase = "open" /\ proc[p].pc = "idle" /\ Others(p) /\ SameHost /\ SameSystem
        /\ UNCHANGED lock /\ proc'[p].op = op /\ proc'[p].t = Default /\ proc'[p].todo = {}
        /\ proc'[p].pc = FirstStep(op, Default)
    BY <2>2, CallEffect, Zenon
  <2> QED
    BY <2>1, <2>3
<1>3. CASE \E t \in Handle, op \in {"set", "report", "io", "close", "setDNS", "warnings"} :
               Call(p, op, t)
  <2>1. PICK t \in Handle, op \in {"set", "report", "io", "close", "setDNS", "warnings"} :
               Call(p, op, t)
    BY <1>3
  <2>2. /\ op \in {"set", "report", "setDNS"} => FirstStep(op, t) = "defaultTunMu"
        /\ op = "close" /\ t = Default => FirstStep(op, t) = "defaultTunMu"
        /\ op = "close" /\ t # Default => FirstStep(op, t) = "mu"
        /\ op \in {"io", "warnings"} => FirstStep(op, t) = "mu"
    BY DEF FirstStep
  <2>3. /\ phase = "open" /\ proc[p].pc = "idle" /\ Others(p) /\ SameHost /\ SameSystem
        /\ UNCHANGED lock /\ proc'[p].op = op /\ proc'[p].t = t /\ proc'[p].todo = {}
        /\ proc'[p].pc = FirstStep(op, t)
    BY <2>1, CallEffect, Zenon
  <2> QED
    BY <2>2, <2>3, Zenon
<1>4. Default \in Handle /\ issued \subseteq Handle
  BY DEF Handle, IssuedType
<1> QED
  BY <1>1, <1>2, <1>3, <1>4, Zenon DEF Calls

LEMMA StepDoes ==
    ASSUME LInv, IssuedType, LifeType, NEW p \in Proc, Calls(p) \/ Step(p) \/ endIO(p)
    PROVE  Effect(p)
BY CallsDoes, CheckDoes, CreateDoes, PublishDoes, LockDefaultDoes, LookUpDoes, ForgetDoes,
   LockStateDoes, CloseNativeDoes, UseDoes, EndIODoes, CreateDefaultDoes, ConfigureDoes,
   DropDoes, CloseActiveDoes, RollbackDoes, CloseSystemDoes, TakeDoes, NetsDoes, TunsDoes,
   ComponentsDoes, Zenon DEF Step, Effect
=============================================================================
