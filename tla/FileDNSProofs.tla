---------------------------- MODULE FileDNSProofs ----------------------------
(***************************************************************************)
(* FileDNS: NoLoop, RolledBack and ClientsReleased, for any servers, any   *)
(* number of closing goroutines, calls, failures, foreign writes and       *)
(* crashes.  ClientsReleased holds for any number of goroutines that call  *)
(* SetDNS and UnsetDNS; the other two need their calls one after the other *)
(* (OneSetter), as the default TUN makes them under its mutex.             *)
(*                                                                         *)
(* Shape says which locals a call has at each of its steps.  ClientInv     *)
(* follows the forwarding client from the provider to the Close that took  *)
(* it over, FileInv the managed file from the SetDNS that wrote it to the  *)
(* call that rolls it back, LoopInv which servers the attached client      *)
(* cannot have.                                                            *)
(***************************************************************************)
EXTENDS FileDNS, FiniteSetTheorems, TLAPS

OneSetter == \A g, h \in Setter : g = h

Provider ==
    [closed : BOOLEAN, original : File, servers : SUBSET Server,
     setDNS : Server \cup {NoServer}, sig : SUBSET Server, client : Nat]

Call ==
    [pc : {"idle", "refresh", "attach", "write", "commit", "restore", "rewrite", "release"},
     op : {"none", "set", "unset", "close"}, server : Server \cup {NoServer},
     exclude : SUBSET Server, urls : SUBSET Server, failed : BOOLEAN, client : Nat]

\* The locals of a call at each step.
Shape(c) ==
    /\ \/ c.pc = "idle" /\ c.op = "none"
       \/ /\ c.op = "set" /\ c.pc \in {"refresh", "attach", "write", "commit"}
          /\ c.server \in Server /\ c.server \in c.exclude /\ ~c.failed
       \/ /\ c.op = "unset" /\ c.pc \in {"restore", "rewrite", "refresh", "attach", "commit"}
       \/ /\ c.op = "close" /\ c.pc \in {"restore", "rewrite", "commit", "release"}
    /\ c.pc = "commit" => ~c.failed
    /\ c.pc = "attach" => c.urls \cap c.exclude = {}

Types ==
    /\ kind \in {"direct", "record"} /\ conf \in File /\ host \in File
    /\ p \in Provider /\ local \in [Goroutine -> Call]
    /\ \A g \in Goroutine : Shape(local[g])
    /\ \A g \in Goroutine : local[g].op \in {"set", "unset"} => g \in Setter

\* The one client that is open belongs to the provider, or to the Close that took it.
ClientInv ==
    /\ \A g \in Goroutine : local[g].op = "close" => p.closed
    /\ ~p.closed => open = {p.client} /\ p.client # 0
    /\ p.closed => /\ p.client = 0 /\ 0 \notin open
                   /\ \A c \in open : \E g \in Goroutine :
                        local[g].op = "close" /\ local[g].client = c

\* resolv.conf as this program found it or others left it, or a part of what it found.
Clean ==
    \/ conf \in {p.original, host, Absent}
    \/ "restore" \in lapses /\ conf \in Interrupted(p.original)

\* A file that this program did not write is clean.
HostInv == host.by # "self" /\ (conf.by # "self" /\ "write" \notin lapses => Clean)

\* g has just written the managed file.
Setting(g) == local[g].op = "set" /\ local[g].pc = "commit"

\* g has removed the managed file and may be about to forget the server.
Undoing(g) ==
    /\ local[g].op \in {"unset", "close"} /\ ~local[g].failed
    /\ local[g].pc \in {"refresh", "attach", "commit"}

\* The server that the managed file is about is not the one that g is to forget.
Distinct(g) ==
    /\ \A h \in Goroutine : Setting(h) => local[h].server # local[g].server
    /\ (\E h \in Goroutine : Setting(h)) \/ (Active /\ p.setDNS # local[g].server)

Excused == "write" \in lapses \/ "overtaken" \in lapses

\* The managed file is there only while a server is set or about to be, and no call is
\* about to forget that server.
FileInv ==
    ~Excused => /\ Clean \/ Active \/ \E g \in Goroutine : Setting(g)
                /\ \A g \in Goroutine : Undoing(g) => Clean \/ Distinct(g)

\* The attached client excludes the server that is set, and the one about to be.
LoopInv ==
    /\ p.setDNS \notin p.sig
    /\ \A g \in Goroutine :
         /\ local[g].op \in {"set", "unset"} => p.setDNS \in local[g].exclude \cup {NoServer}
         /\ local[g].op = "set" /\ local[g].pc \in {"write", "commit"}
            => local[g].server \notin p.sig

----------------------------------------------------------------------------
(* Locals. *)

\* What a call keeps from one step to the next, and what it leaves to others.
Same(b, c) == c.op = b.op /\ c.server = b.server /\ c.exclude = b.exclude /\ c.client = b.client

Others(g) == \A h \in Goroutine : h # g => local'[h] = local[h]

Pc == {"idle", "refresh", "attach", "write", "commit", "restore", "rewrite", "release"}

LEMMA IdleCall ==
    /\ Idle \in Call /\ Shape(Idle)
    /\ Idle.pc = "idle" /\ Idle.op = "none" /\ Idle.client = 0
<1>1. Idle \in Call /\ Idle.pc = "idle" /\ Idle.op = "none" /\ Idle.client = 0
  BY DEF Idle, Call
<1> QED
  BY <1>1 DEF Shape

LEMMA GotoCall ==
    ASSUME local \in [Goroutine -> Call], NEW g \in Goroutine, NEW c \in Pc, Goto(g, c)
    PROVE  /\ local' \in [Goroutine -> Call] /\ Others(g)
           /\ local'[g].pc = c /\ Same(local[g], local'[g])
           /\ local'[g].failed = local[g].failed /\ local'[g].urls = local[g].urls
<1>1. /\ local[g] \in Call /\ local' = [local EXCEPT ![g] = [local[g] EXCEPT !.pc = c]]
  BY DEF Goto
<1>2. PICK b : b = local[g]
  OBVIOUS
<1>3. PICK d : d = [b EXCEPT !.pc = c]
  BY Zenon
<1>4. /\ d \in Call /\ d.pc = c /\ Same(b, d) /\ d.failed = b.failed /\ d.urls = b.urls
  BY <1>1, <1>2, <1>3 DEF Call, Same, Pc
<1> QED
  BY <1>1, <1>2, <1>3, <1>4, Zenon DEF Others

LEMMA ReturnCall ==
    ASSUME local \in [Goroutine -> Call], NEW g \in Goroutine, Leave(g)
    PROVE  local' \in [Goroutine -> Call] /\ Others(g) /\ local'[g] = Idle
BY IdleCall DEF Leave, Others

\* Restored, with its result as a value.
LEMMA RestoredCall ==
    ASSUME local \in [Goroutine -> Call], NEW g \in Goroutine, NEW ok \in BOOLEAN, Restored(g, ok)
    PROVE  /\ local' \in [Goroutine -> Call] /\ Others(g) /\ Same(local[g], local'[g])
           /\ local'[g].failed = ~ok
           /\ local[g].op = "unset" => local'[g].pc = "refresh"
           /\ local[g].op # "unset" /\ ok => local'[g].pc = "commit"
           /\ local[g].op # "unset" /\ ~ok => local'[g].pc = "release"
<1>0. PICK b : b = local[g]
  OBVIOUS
<1>1. PICK c \in Pc : /\ c = IF b.op = "unset" THEN "refresh" ELSE IF ok THEN "commit" ELSE "release"
  BY DEF Pc
<1>2. PICK d : d = [b EXCEPT !.pc = c, !.failed = ~ok]
  OBVIOUS
<1>3. b \in Call /\ local' = [local EXCEPT ![g] = d]
  BY <1>0, <1>1, <1>2, Zenon DEF Restored
<1>4. /\ d \in Call /\ d.pc = c /\ d.failed = ~ok /\ Same(b, d)
  BY <1>2, <1>3, Zenon DEF Call, Same, Pc
<1>5. /\ local' \in [Goroutine -> Call] /\ Others(g) /\ local'[g] = d
  BY <1>3, <1>4 DEF Others
<1> QED
  BY <1>0, <1>1, <1>4, <1>5

\* The servers that are forwarded to are real and not excluded.
LEMMA UpstreamsExclude ==
    ASSUME NEW servers \in SUBSET Server, NEW exclude
    PROVE  /\ Upstreams(servers, exclude) \in SUBSET Server
           /\ Upstreams(servers, exclude) \cap exclude = {}
BY FileDNSAssumption DEF Upstreams

----------------------------------------------------------------------------
(* What each step does. *)

\* The call of g goes on at pc, with the same locals.
At(g, pc) ==
    /\ Same(local[g], local'[g]) /\ local'[g].failed = local[g].failed
    /\ local'[g].pc = pc

Stepped(g) ==
    /\ local' \in [Goroutine -> Call] /\ Others(g) /\ Shape(local'[g])
    /\ local'[g] = Idle \/ local'[g].op = local[g].op

\* Where refreshUpstreams leads to.
LEMMA RefreshedEffect ==
    ASSUME Types, NEW g \in Goroutine, NEW ok \in BOOLEAN, Refreshed(g, ok),
           local[g].pc \in {"refresh", "attach"}
    PROVE  /\ Stepped(g)
           /\ \/ local'[g] = Idle
              \/ At(g, "write") /\ local[g].op = "set" /\ ok
              \/ At(g, "commit") /\ local[g].op = "unset" /\ ~local[g].failed /\ ok
<1>0. local \in [Goroutine -> Call] /\ Shape(local[g]) /\ local[g].op \in {"set", "unset"}
  BY DEF Types, Shape
<1>1. CASE local[g].op = "set" /\ ok
  <2>1. Goto(g, "write") /\ "write" \in Pc
    BY <1>1 DEF Refreshed, Pc
  <2>2. At(g, "write") /\ local' \in [Goroutine -> Call] /\ Others(g)
    BY <1>0, <2>1, GotoCall, Zenon DEF At
  <2> QED
    BY <1>0, <1>1, <2>2 DEF At, Same, Shape, Stepped
<1>2. CASE local[g].op = "unset" /\ ok /\ ~local[g].failed
  <2>1. Goto(g, "commit") /\ "commit" \in Pc
    BY <1>2 DEF Refreshed, Pc
  <2>2. At(g, "commit") /\ local' \in [Goroutine -> Call] /\ Others(g)
    BY <1>0, <2>1, GotoCall, Zenon DEF At
  <2> QED
    BY <1>0, <1>2, <2>2 DEF At, Same, Shape, Stepped
<1>3. CASE ~(local[g].op = "set" /\ ok) /\ ~(local[g].op = "unset" /\ ok /\ ~local[g].failed)
  <2>1. Leave(g)
    BY <1>3, Zenon DEF Refreshed
  <2> QED
    BY <1>0, <2>1, ReturnCall, IdleCall, Zenon DEF Stepped
<1> QED
  BY <1>1, <1>2, <1>3

LEMMA RefreshEffect ==
    ASSUME Types, NEW g \in Goroutine, refreshUpstreams(g)
    PROVE  /\ UNCHANGED <<kind, conf, host, p, open, lapses>> /\ local[g].pc = "refresh" /\ Stepped(g)
           /\ \/ local'[g] = Idle
              \/ At(g, "write") /\ local[g].op = "set" /\ p.sig \cap local[g].exclude = {}
              \/ At(g, "commit") /\ local[g].op = "unset" /\ ~local[g].failed
              \/ At(g, "attach") /\ local[g].op \in {"set", "unset"}
<1>0. /\ local \in [Goroutine -> Call] /\ Shape(local[g]) /\ local[g].op \in {"set", "unset"}
      /\ local[g] \in Call /\ p.servers \in SUBSET Server /\ local[g].pc = "refresh"
  BY DEF Types, Shape, Provider, refreshUpstreams
<1>1. PICK urls : urls = Upstreams(p.servers, local[g].exclude)
  OBVIOUS
<1>2. urls \in SUBSET Server /\ urls \cap local[g].exclude = {}
  BY <1>0, <1>1, UpstreamsExclude
<1>3. CASE urls = {} \/ urls = p.sig
  <2>1. PICK ok \in BOOLEAN : ok = (urls # {})
    BY Zenon
  <2>2. Refreshed(g, ok) /\ (ok => urls = p.sig)
    BY <1>1, <1>3, <2>1, Zenon DEF refreshUpstreams
  <2> QED
    BY <1>0, <1>2, <2>2, RefreshedEffect, Zenon DEF refreshUpstreams
<1>4. CASE ~(urls = {} \/ urls = p.sig)
  <2>1. PICK b, d : b = local[g] /\ d = [b EXCEPT !.pc = "attach", !.urls = urls]
    BY Zenon
  <2>2. local' = [local EXCEPT ![g] = d]
    BY <1>1, <1>4, <2>1, Zenon DEF refreshUpstreams
  <2>3. /\ d \in Call /\ d.pc = "attach" /\ Same(b, d) /\ d.failed = b.failed /\ d.urls = urls
    BY <1>0, <1>2, <2>1, Zenon DEF Call, Same
  <2>4. Shape(d)
    BY <1>0, <1>2, <2>1, <2>3 DEF Shape, Same
  <2>5. local' \in [Goroutine -> Call] /\ Others(g) /\ local'[g] = d
    BY <1>0, <2>2, <2>3, Zenon DEF Others
  <2> QED
    BY <1>0, <2>1, <2>3, <2>4, <2>5, Zenon DEF At, Same, Stepped, refreshUpstreams
<1> QED
  BY <1>3, <1>4

\* A provider that is open has one client, and the next one is another.
LEMMA AttachEffect ==
    ASSUME Types, ClientInv, NEW g \in Goroutine, Attach(g)
    PROVE  /\ UNCHANGED <<kind, conf, host, lapses>> /\ local[g].pc = "attach" /\ Stepped(g)
           /\ \/ p.closed /\ (UNCHANGED <<p, open>>) /\ local'[g] = Idle
              \/ /\ ~p.closed
                 /\ \E client \in Nat \ {0} :
                      /\ p' = [p EXCEPT !.client = client, !.sig = local[g].urls]
                      /\ open' = {client}
                 /\ \/ local'[g] = Idle
                    \/ At(g, "write") /\ local[g].op = "set"
                    \/ At(g, "commit") /\ local[g].op = "unset" /\ ~local[g].failed
<1>0. local[g].pc = "attach" /\ p.closed \in BOOLEAN /\ UNCHANGED <<kind, conf, host, lapses>>
  BY DEF Attach, Types, Provider
<1>1. PICK ok \in BOOLEAN : ok = ~p.closed
  BY <1>0, Zenon
<1>2. Refreshed(g, ok)
  BY <1>1 DEF Attach
<1>3. /\ Stepped(g)
      /\ \/ local'[g] = Idle
         \/ At(g, "write") /\ local[g].op = "set" /\ ok
         \/ At(g, "commit") /\ local[g].op = "unset" /\ ~local[g].failed /\ ok
  BY <1>0, <1>2, RefreshedEffect
<1>4. CASE p.closed
  BY <1>0, <1>1, <1>3, <1>4, Zenon DEF Attach
<1>5. CASE ~p.closed
  <2>1. PICK client : client = CHOOSE n \in 1..(Cardinality(open) + 1) : n \notin open
    OBVIOUS
  <2>2. open = {p.client} /\ Cardinality(open) = 1
    <3>1. open = {p.client}
      BY <1>5 DEF ClientInv
    <3> QED
      BY <3>1, FS_Singleton, Zenon
  <2>3. client \in Nat \ {0} /\ client # p.client
    <3>1. \E n \in 1..(Cardinality(open) + 1) : n \notin open
      <4>1. 1 \in 1..(1 + 1) /\ 2 \in 1..(1 + 1) /\ 1 # 2
        OBVIOUS
      <4> QED
        BY <2>2, <4>1, Zenon
    <3>2. client \in 1..(Cardinality(open) + 1) /\ client \notin open
      BY <2>1, <3>1, Zenon
    <3> QED
      BY <2>2, <3>2
  <2>4. /\ p' = [p EXCEPT !.client = client, !.sig = local[g].urls]
        /\ open' = (open \cup {client}) \ {p.client}
    BY <1>5, <2>1, Zenon DEF Attach
  <2>5. open' = {client}
    BY <2>2, <2>3, <2>4, Zenon
  <2> QED
    BY <1>0, <1>3, <1>5, <2>3, <2>4, <2>5, Zenon
<1> QED
  BY <1>4, <1>5, Zenon

\* A part of a file is a file.
LEMMA InterruptedFile ==
    ASSUME NEW f \in File
    PROVE  Interrupted(f) \subseteq File
BY DEF Interrupted, File

LEMMA ManagedFile ==
    ASSUME NEW s \in Server
    PROVE  Managed(s) \in File /\ Managed(s).by = "self"
BY DEF Managed, File

LEMMA AfterErrorFile ==
    ASSUME conf \in File, NEW f \in File
    PROVE  AfterError(f) \subseteq File /\ AfterError(f) \subseteq {conf, f} \cup Interrupted(f)
BY InterruptedFile, Zenon DEF AfterError

LEMMA WriteEffect ==
    ASSUME Types, NEW g \in Goroutine, Write(g)
    PROVE  /\ UNCHANGED <<kind, host, p, open>> /\ local[g].pc = "write" /\ local[g].op = "set"
           /\ Stepped(g) /\ conf' \in File /\ lapses \subseteq lapses'
           /\ \/ /\ At(g, "commit") /\ conf' = Managed(local[g].server)
                 /\ Overtaken(g) => "overtaken" \in lapses'
              \/ local'[g] = Idle /\ (conf' = conf \/ "write" \in lapses')
<1>0. /\ local \in [Goroutine -> Call] /\ Shape(local[g]) /\ local[g].pc = "write"
      /\ UNCHANGED <<kind, host, p, open>> /\ conf \in File
  BY DEF Types, Write
<1>1. local[g].op = "set" /\ local[g].server \in Server
  BY <1>0 DEF Shape
<1>2. Managed(local[g].server) \in File
  BY <1>1, ManagedFile
<1>3. CASE /\ conf' = Managed(local[g].server) /\ Goto(g, "commit")
           /\ lapses' = lapses \cup {x \in {"overtaken"} : Overtaken(g)}
  <2>1. At(g, "commit") /\ local' \in [Goroutine -> Call] /\ Others(g)
    <3>1. "commit" \in Pc
      BY DEF Pc
    <3> QED
      BY <1>0, <1>3, <3>1, GotoCall, Zenon DEF At
  <2>2. ~local[g].failed
    BY <1>0, <1>1 DEF Shape
  <2>3. Shape(local'[g])
    BY <1>0, <1>1, <2>1, <2>2 DEF At, Same, Shape
  <2>4. lapses \subseteq lapses' /\ (Overtaken(g) => "overtaken" \in lapses')
    BY <1>3, Zenon
  <2> QED
    BY <1>0, <1>1, <1>2, <1>3, <2>1, <2>3, <2>4, Zenon DEF At, Same, Stepped
<1>4. CASE /\ conf' \in AfterError(Managed(local[g].server)) /\ Leave(g)
           /\ lapses' = lapses \cup {x \in {"write"} : conf' # conf}
  <2>1. lapses \subseteq lapses' /\ (conf' = conf \/ "write" \in lapses')
    BY <1>4, Zenon
  <2>2. conf' \in File
    BY <1>0, <1>2, <1>4, AfterErrorFile, Zenon
  <2> QED
    BY <1>0, <1>1, <1>4, <2>1, <2>2, ReturnCall, IdleCall, Zenon DEF Stepped
<1> QED
  BY <1>3, <1>4, Zenon DEF Write

\* Restored, after the file has been put back (ok) or not.
RestoredAt(g, ok) ==
    /\ Same(local[g], local'[g]) /\ local'[g].failed = ~ok
    /\ local'[g].pc \in {"refresh", "commit", "release"}

LEMMA RestoredEffect ==
    ASSUME Types, NEW g \in Goroutine, NEW ok \in BOOLEAN, Restored(g, ok),
           local[g].pc \in {"restore", "rewrite"}
    PROVE  Stepped(g) /\ RestoredAt(g, ok)
<1>1. local \in [Goroutine -> Call] /\ local[g].op \in {"unset", "close"}
  BY DEF Types, Shape
<1>2. /\ local' \in [Goroutine -> Call] /\ Others(g) /\ Same(local[g], local'[g])
      /\ local'[g].failed = ~ok
      /\ local[g].op = "unset" => local'[g].pc = "refresh"
      /\ local[g].op # "unset" /\ ok => local'[g].pc = "commit"
      /\ local[g].op # "unset" /\ ~ok => local'[g].pc = "release"
  BY <1>1, RestoredCall, Zenon
<1>3. Shape(local'[g])
  BY <1>1, <1>2, Zenon DEF Same, Shape
<1>4. RestoredAt(g, ok)
  BY <1>2 DEF RestoredAt
<1> QED
  BY <1>2, <1>3, <1>4, Zenon DEF Stepped, Same

\* The two ways of putting the file back: a rollback that succeeds leaves it clean.
LEMMA RestoreEffect ==
    ASSUME Types, HostInv, NEW g \in Goroutine,
           restoreResolvConfIfOwned(g) \/ Rewrite(g) \/ DeleteRecord(g)
    PROVE  /\ UNCHANGED <<kind, host, p, open>> /\ local[g].pc \in {"restore", "rewrite"}
           /\ Stepped(g) /\ conf' \in File /\ lapses \subseteq lapses'
           /\ conf' = conf \/ Clean'
           /\ \/ At(g, "rewrite")
              \/ RestoredAt(g, TRUE) /\ ("write" \in lapses' \/ Clean')
              \/ RestoredAt(g, FALSE)
<1>0. /\ UNCHANGED <<kind, host, p, open>> /\ local[g].pc \in {"restore", "rewrite"}
      /\ conf \in File /\ host \in File /\ p.original \in File
      /\ TRUE \in BOOLEAN /\ FALSE \in BOOLEAN
  BY Zenon DEF restoreResolvConfIfOwned, Rewrite, DeleteRecord, Types, Provider
<1>1. CASE restoreResolvConfIfOwned(g)
  <2>1. UNCHANGED <<conf, lapses>>
    BY <1>1, Zenon DEF restoreResolvConfIfOwned
  <2>2. \/ Goto(g, "rewrite")
        \/ Restored(g, TRUE) /\ conf.by \notin {"self", "none"}
        \/ Restored(g, FALSE)
    BY <1>1, Zenon DEF restoreResolvConfIfOwned
  <2>3. CASE Goto(g, "rewrite")
    <3>1. /\ local \in [Goroutine -> Call] /\ "rewrite" \in Pc /\ Shape(local[g])
          /\ local[g].op \in {"unset", "close"}
      BY <1>0 DEF Types, Shape, Pc
    <3>2. At(g, "rewrite") /\ local' \in [Goroutine -> Call] /\ Others(g)
      BY <2>3, <3>1, GotoCall, Zenon DEF At
    <3>3. Shape(local'[g])
      BY <3>1, <3>2 DEF At, Same, Shape
    <3> QED
      BY <1>0, <2>1, <3>2, <3>3, Zenon DEF Stepped, At, Same
  <2>4. CASE Restored(g, TRUE) /\ conf.by \notin {"self", "none"}
    <3>1. "write" \in lapses' \/ Clean'
      BY <1>0, <2>1, <2>4, Zenon DEF HostInv, Clean
    <3> QED
      BY <1>0, <2>1, <2>4, <3>1, RestoredEffect, Zenon
  <2>5. CASE Restored(g, FALSE)
    BY <1>0, <2>1, <2>5, RestoredEffect, Zenon
  <2> QED
    BY <2>2, <2>3, <2>4, <2>5, Zenon
<1>2. CASE Rewrite(g)
  <2>1. CASE conf' = p.original /\ Restored(g, TRUE) /\ UNCHANGED lapses
    <3>1. Clean'
      BY <1>0, <2>1, Zenon DEF Clean
    <3> QED
      BY <1>0, <2>1, <3>1, RestoredEffect, Zenon
  <2>2. CASE /\ conf' \in AfterError(p.original) /\ Restored(g, FALSE)
             /\ lapses' = lapses \cup {x \in {"restore"} : conf' \notin {conf, p.original}}
    <3>1. conf' \in File /\ conf' \in {conf, p.original} \cup Interrupted(p.original)
      BY <1>0, <2>2, AfterErrorFile, Zenon
    <3>2. lapses \subseteq lapses' /\ (conf' \notin {conf, p.original} => "restore" \in lapses')
      BY <2>2, Zenon
    <3>3. conf' = conf \/ Clean'
      BY <1>0, <3>1, <3>2, Zenon DEF Clean
    <3> QED
      BY <1>0, <2>2, <3>1, <3>2, <3>3, RestoredEffect, Zenon
  <2> QED
    BY <1>2, <2>1, <2>2, Zenon DEF Rewrite
<1>3. CASE DeleteRecord(g)
  <2>1. UNCHANGED lapses /\ conf' \in {conf, host}
    BY <1>3, Zenon DEF DeleteRecord
  <2>2. conf' = conf \/ Clean'
    BY <1>0, <2>1, Zenon DEF Clean
  <2>3. CASE conf' = host /\ Restored(g, TRUE)
    <3>1. Clean'
      BY <1>0, <2>3, Zenon DEF Clean
    <3> QED
      BY <1>0, <2>1, <2>3, <3>1, RestoredEffect, Zenon
  <2>4. CASE Restored(g, FALSE)
    BY <1>0, <2>1, <2>2, <2>4, RestoredEffect, Zenon
  <2> QED
    BY <1>3, <2>3, <2>4, Zenon DEF DeleteRecord
<1> QED
  BY <1>1, <1>2, <1>3, Zenon

LEMMA CommitEffect ==
    ASSUME Types, NEW g \in Goroutine, Commit(g)
    PROVE  /\ UNCHANGED <<kind, conf, host, open, lapses>> /\ local[g].pc = "commit" /\ Stepped(g)
           /\ p' \in Provider /\ p'.closed = p.closed /\ p'.original = p.original
           /\ p'.client = p.client /\ p'.sig = p.sig
           /\ local[g].op = "set" => p'.setDNS = local[g].server
           /\ local[g].op # "set" => p'.setDNS \in {p.setDNS, NoServer}
           /\ local[g].op # "set" /\ p.setDNS # local[g].server => p'.setDNS = p.setDNS
           /\ local'[g] = Idle \/ (local[g].op = "close" /\ At(g, "release"))
<1>0. /\ UNCHANGED <<kind, conf, host, open, lapses>> /\ local[g].pc = "commit"
      /\ local \in [Goroutine -> Call] /\ local[g] \in Call /\ Shape(local[g]) /\ p \in Provider
  BY DEF Types, Commit
<1>1. PICK s : s = CASE local[g].op = "set" -> local[g].server
                     [] local[g].op # "set" /\ p.setDNS = local[g].server -> NoServer
                     [] OTHER -> p.setDNS
  OBVIOUS
<1>2. p' = [p EXCEPT !.setDNS = s]
  BY <1>0, <1>1 DEF Commit, Provider
<1>3. /\ s \in Server \cup {NoServer}
      /\ local[g].op = "set" => s = local[g].server
      /\ local[g].op # "set" => s \in {p.setDNS, NoServer}
      /\ local[g].op # "set" /\ p.setDNS # local[g].server => s = p.setDNS
  BY <1>0, <1>1 DEF Shape, Provider, Call
<1>4. /\ p' \in Provider /\ p'.closed = p.closed /\ p'.original = p.original
      /\ p'.client = p.client /\ p'.sig = p.sig /\ p'.setDNS = s
  BY <1>0, <1>2, <1>3 DEF Provider
<1>5. CASE local[g].op = "close" /\ Goto(g, "release")
  <2>1. At(g, "release") /\ local' \in [Goroutine -> Call] /\ Others(g)
    <3>1. "release" \in Pc
      BY DEF Pc
    <3> QED
      BY <1>0, <1>5, <3>1, GotoCall, Zenon DEF At
  <2>2. Shape(local'[g])
    BY <1>0, <1>5, <2>1 DEF At, Same, Shape
  <2> QED
    BY <1>0, <1>3, <1>4, <1>5, <2>1, <2>2, Zenon DEF Stepped, At, Same
<1>6. CASE Leave(g)
  BY <1>0, <1>3, <1>4, <1>6, ReturnCall, IdleCall, Zenon DEF Stepped
<1> QED
  BY <1>5, <1>6, Zenon DEF Commit

LEMMA ReleaseEffect ==
    ASSUME Types, NEW g \in Goroutine, Release(g)
    PROVE  /\ UNCHANGED <<kind, conf, host, p, lapses>> /\ local[g].op = "close" /\ Stepped(g)
           /\ open' = open \ {local[g].client} /\ local'[g] = Idle
<1>1. /\ local \in [Goroutine -> Call] /\ Shape(local[g]) /\ Leave(g)
      /\ UNCHANGED <<kind, conf, host, p, lapses>> /\ open' = open \ {local[g].client}
      /\ local[g].pc = "release"
  BY DEF Types, Release
<1>2. local[g].op = "close"
  BY <1>1 DEF Shape
<1> QED
  BY <1>1, <1>2, ReturnCall, IdleCall, Zenon DEF Stepped

\* The three calls, and what they remember.
LEMMA SetEffect ==
    ASSUME Types, NEW g \in Setter, NEW s \in Server, SetDNS(g, s)
    PROVE  /\ UNCHANGED <<kind, conf, host, p, open, lapses>> /\ ~p.closed /\ g \in Goroutine
           /\ local' \in [Goroutine -> Call] /\ Others(g) /\ Shape(local'[g])
           /\ local[g].op = "none" /\ local'[g].op = "set" /\ local'[g].pc = "refresh"
           /\ local'[g].exclude = {s} \cup ({p.setDNS} \ {NoServer})
<1>0. /\ UNCHANGED <<kind, conf, host, p, open, lapses>> /\ ~p.closed /\ g \in Goroutine
      /\ local \in [Goroutine -> Call] /\ p.setDNS \in Server \cup {NoServer}
      /\ local[g].op = "none"
  BY DEF Types, SetDNS, Goroutine, Provider, Shape
<1>1. PICK e : e = {s} \cup ({p.setDNS} \ {NoServer})
  BY Zenon
<1>2. PICK c : c = [Idle EXCEPT !.pc = "refresh", !.op = "set", !.server = s, !.exclude = e]
  OBVIOUS
<1>3. local' = [local EXCEPT ![g] = c]
  BY <1>1, <1>2 DEF SetDNS
<1>4. e \in SUBSET Server /\ s \in e
  BY <1>0, <1>1
<1>5. /\ c \in Call /\ c.op = "set" /\ c.pc = "refresh" /\ c.exclude = e /\ c.server = s
      /\ c.failed = FALSE
  BY <1>2, <1>4, Zenon DEF Idle, Call
<1>6. Shape(c)
  BY <1>4, <1>5 DEF Shape
<1>7. local' \in [Goroutine -> Call] /\ Others(g) /\ local'[g] = c
  BY <1>0, <1>3, <1>5, Zenon DEF Others
<1> QED
  BY <1>0, <1>1, <1>5, <1>6, <1>7, Zenon

LEMMA UnsetEffect ==
    ASSUME Types, NEW g \in Setter, UnsetDNS(g)
    PROVE  /\ UNCHANGED <<kind, conf, host, p, open, lapses>> /\ g \in Goroutine
           /\ local' \in [Goroutine -> Call] /\ Others(g) /\ Shape(local'[g])
           /\ local[g].op = "none" /\ local'[g].op = "unset" /\ local'[g].pc = "restore"
           /\ local'[g].exclude = {p.setDNS}
<1>0. /\ UNCHANGED <<kind, conf, host, p, open, lapses>> /\ g \in Goroutine
      /\ local \in [Goroutine -> Call] /\ p.setDNS \in Server
      /\ local[g].op = "none"
  BY DEF Types, UnsetDNS, Goroutine, Provider, Shape, Active
<1>2. PICK c : c = [Idle EXCEPT !.pc = "restore", !.op = "unset", !.server = p.setDNS,
                                !.exclude = {p.setDNS}]
  OBVIOUS
<1>3. local' = [local EXCEPT ![g] = c]
  BY <1>2 DEF UnsetDNS
<1>5. c \in Call /\ c.op = "unset" /\ c.pc = "restore" /\ c.exclude = {p.setDNS}
  BY <1>0, <1>2, Zenon DEF Idle, Call
<1>6. Shape(c)
  BY <1>5 DEF Shape
<1>7. local' \in [Goroutine -> Call] /\ Others(g) /\ local'[g] = c
  BY <1>0, <1>3, <1>5, Zenon DEF Others
<1> QED
  BY <1>0, <1>5, <1>6, <1>7, Zenon

LEMMA CloseEffect ==
    ASSUME Types, NEW g \in Closer, Close(g)
    PROVE  /\ UNCHANGED <<kind, conf, host, open, lapses>> /\ g \in Goroutine
           /\ p' \in Provider /\ p'.closed = TRUE /\ p'.client = 0 /\ p'.original = p.original
           /\ p'.setDNS = p.setDNS /\ p'.sig = p.sig
           /\ local' \in [Goroutine -> Call] /\ Others(g) /\ Shape(local'[g])
           /\ local[g].op = "none" /\ local'[g].op = "close" /\ local'[g].client = p.client
           /\ local'[g].pc \in {"restore", "release"}
<1>0. /\ UNCHANGED <<kind, conf, host, open, lapses>> /\ g \in Goroutine
      /\ local \in [Goroutine -> Call] /\ p \in Provider /\ local[g].op = "none"
  BY DEF Types, Close, Goroutine, Shape
<1>1. /\ p' \in Provider /\ p'.closed = TRUE /\ p'.client = 0 /\ p'.original = p.original
      /\ p'.setDNS = p.setDNS /\ p'.sig = p.sig
  BY <1>0, Zenon DEF Close, Provider
<1>2. PICK k : k = IF Active THEN "restore" ELSE "release"
  OBVIOUS
<1>3. PICK c : c = [Idle EXCEPT !.pc = k, !.op = "close", !.server = p.setDNS, !.client = p.client]
  OBVIOUS
<1>4. local' = [local EXCEPT ![g] = c] /\ k \in {"restore", "release"}
  BY <1>2, <1>3 DEF Close
<1>5. c \in Call /\ c.op = "close" /\ c.pc = k /\ c.client = p.client
  BY <1>0, <1>3, <1>4, Zenon DEF Idle, Call, Provider
<1>6. Shape(c)
  BY <1>4, <1>5 DEF Shape
<1>7. local' \in [Goroutine -> Call] /\ Others(g) /\ local'[g] = c
  BY <1>0, <1>4, <1>5, Zenon DEF Others
<1> QED
  BY <1>0, <1>1, <1>4, <1>5, <1>6, <1>7, Zenon

\* Other programs, and a new process.
LEMMA ForeignEffect ==
    ASSUME Types, NEW s \in Server, Foreign(s)
    PROVE  /\ UNCHANGED <<kind, p, local, open>> /\ lapses \subseteq lapses'
           /\ conf' \in File /\ host' \in File
           /\ \/ host'.by = "other" /\ conf' = host'
              \/ host'.by = "other" /\ conf.by = "self" /\ conf' = conf
              \/ conf' = Absent /\ host' \in {host, Absent}
<1>1. Absent \in File /\ [by |-> "other", servers |-> {s}] \in File
  BY DEF Absent, File
<1>2. [by |-> "other", servers |-> {s}].by = "other"
  OBVIOUS
<1>3. /\ UNCHANGED <<kind, p, local, open>> /\ conf \in File /\ host \in File
  BY DEF Types, Foreign
<1>4. \/ host' = [by |-> "other", servers |-> {s}] /\ conf' = host'
      \/ host' = [by |-> "other", servers |-> {s}] /\ conf.by = "self" /\ conf' = conf
      \/ conf' = Absent /\ host' \in {host, Absent}
  BY DEF Foreign
<1>5. lapses \subseteq lapses'
  BY Zenon DEF Foreign
<1> QED
  BY <1>1, <1>2, <1>3, <1>4, <1>5, Zenon

LEMMA NewProviderType ==
    ASSUME NEW f \in File
    PROVE  /\ NewProvider(f) \in Provider
           /\ NewProvider(f).closed = FALSE /\ NewProvider(f).original = f
           /\ NewProvider(f).setDNS = NoServer /\ NewProvider(f).client = 1
<1>1. f.servers \in SUBSET Server /\ Upstreams(f.servers, {}) \in SUBSET Server
  BY UpstreamsExclude DEF File
<1> QED
  BY <1>1 DEF NewProvider, Provider

LEMMA CrashEffect ==
    ASSUME Types, Crash
    PROVE  /\ UNCHANGED <<kind, host>> /\ conf' \in File /\ open' = {1}
           /\ p' \in Provider /\ p'.closed = FALSE /\ p'.original = conf'
           /\ p'.setDNS = NoServer /\ p'.client = 1
           /\ local' \in [Goroutine -> Call] /\ \A g \in Goroutine : local'[g] = Idle
<1>1. ASSUME NEW g \in Goroutine PROVE CutShort(g) \subseteq File
  <2>1. CASE local[g].pc = "write"
    <3>1. local[g].server \in Server
      BY <2>1 DEF Types, Shape
    <3>2. Interrupted(Managed(local[g].server)) \subseteq File
      BY <3>1, ManagedFile, InterruptedFile, Zenon
    <3> QED
      BY <2>1, <3>2 DEF CutShort
  <2>2. CASE local[g].pc # "write"
    <3>1. Interrupted(p.original) \subseteq File
      BY InterruptedFile DEF Types, Provider
    <3> QED
      BY <2>2, <3>1 DEF CutShort
  <2> QED
    BY <2>1, <2>2
<1>2. conf' \in File
  <2>1. conf' = conf \/ \E g \in Goroutine : conf' \in CutShort(g)
    BY Zenon DEF Crash
  <2> QED
    BY <1>1, <2>1, Zenon DEF Types
<1>3. p' = NewProvider(conf') /\ local' = [g \in Goroutine |-> Idle] /\ open' = {1}
      /\ UNCHANGED <<kind, host>>
  BY Zenon DEF Crash
<1>4. local' \in [Goroutine -> Call] /\ \A g \in Goroutine : local'[g] = Idle
  BY <1>3, IdleCall, Zenon
<1> QED
  BY <1>2, <1>3, <1>4, NewProviderType, Zenon

----------------------------------------------------------------------------
(* The invariant. *)

\* Types, as far as the locals go.
LEMMA LocalTypes ==
    ASSUME Types, NEW g \in Goroutine, local' \in [Goroutine -> Call], Others(g),
           Shape(local'[g]), local'[g].op \in {"set", "unset"} => g \in Setter
    PROVE  /\ \A h \in Goroutine : Shape(local'[h])
           /\ \A h \in Goroutine : local'[h].op \in {"set", "unset"} => h \in Setter
BY Zenon DEF Types, Others

LEMMA SteppedTypes ==
    ASSUME Types, NEW g \in Goroutine, Stepped(g)
    PROVE  /\ local' \in [Goroutine -> Call]
           /\ \A h \in Goroutine : Shape(local'[h])
           /\ \A h \in Goroutine : local'[h].op \in {"set", "unset"} => h \in Setter
<1>1. local'[g].op \in {"set", "unset"} => g \in Setter
  BY IdleCall DEF Types, Stepped
<1> QED
  BY <1>1, LocalTypes, Zenon DEF Stepped

LEMMA CallTypes ==
    ASSUME Types, ClientInv, HostInv, NEW g \in Goroutine, CallStep(g)
    PROVE  Types'
<1>0. p \in Provider /\ conf \in File /\ host \in File /\ p.original \in File /\ local[g] \in Call
  BY DEF Types, Provider
<1>1. CASE refreshUpstreams(g)
  BY <1>1, RefreshEffect, SteppedTypes, Zenon DEF Types
<1>2. CASE Attach(g)
  <2>1. Stepped(g) /\ UNCHANGED <<kind, conf, host, lapses>>
    BY <1>2, AttachEffect, Zenon
  <2>2. p' \in Provider
    <3>1. \/ UNCHANGED p
          \/ \E client \in Nat : p' = [p EXCEPT !.client = client, !.sig = local[g].urls]
      BY <1>2, AttachEffect, Zenon
    <3> QED
      BY <1>0, <3>1, Zenon DEF Provider, Call
  <2> QED
    BY <2>1, <2>2, SteppedTypes, Zenon DEF Types
<1>3. CASE Write(g)
  BY <1>3, WriteEffect, SteppedTypes, Zenon DEF Types
<1>4. CASE Commit(g)
  BY <1>4, CommitEffect, SteppedTypes, Zenon DEF Types
<1>5. CASE restoreResolvConfIfOwned(g) \/ Rewrite(g) \/ DeleteRecord(g)
  BY <1>5, RestoreEffect, SteppedTypes, Zenon DEF Types
<1>6. CASE Release(g)
  BY <1>6, ReleaseEffect, SteppedTypes, Zenon DEF Types
<1> QED
  BY <1>1, <1>2, <1>3, <1>4, <1>5, <1>6 DEF CallStep

LEMMA TypesNext ==
    ASSUME Types, ClientInv, HostInv, [FileNext]_fileVars
    PROVE  Types'
<1>1. ASSUME NEW g \in Setter, NEW s \in Server, SetDNS(g, s) PROVE Types'
  BY <1>1, SetEffect, LocalTypes, Zenon DEF Types
<1>2. ASSUME NEW g \in Setter, UnsetDNS(g) PROVE Types'
  BY <1>2, UnsetEffect, LocalTypes, Zenon DEF Types
<1>3. ASSUME NEW g \in Closer, Close(g) PROVE Types'
  <2>1. /\ UNCHANGED <<kind, conf, host>> /\ g \in Goroutine /\ p' \in Provider
        /\ local' \in [Goroutine -> Call] /\ Others(g) /\ Shape(local'[g]) /\ local'[g].op = "close"
    BY <1>3, CloseEffect, Zenon
  <2>2. local'[g].op \in {"set", "unset"} => g \in Setter
    BY <2>1
  <2> QED
    BY <2>1, <2>2, LocalTypes, Zenon DEF Types
<1>4. ASSUME NEW s \in Server, Foreign(s) PROVE Types'
  BY <1>4, ForeignEffect, Zenon DEF Types
<1>5. CASE Crash
  <2>1. Idle.op \notin {"set", "unset"}
    BY IdleCall
  <2> QED
    BY <1>5, <2>1, CrashEffect, IdleCall, Zenon DEF Types
<1>6. CASE UNCHANGED fileVars
  BY <1>6, Zenon DEF fileVars, Types
<1> QED
  BY <1>1, <1>2, <1>3, <1>4, <1>5, <1>6, CallTypes DEF FileNext

\* Every client that is open has an owner that will close it.
LEMMA ClientNext ==
    ASSUME Types, ClientInv, HostInv, [FileNext]_fileVars
    PROVE  ClientInv'
<1>1. ASSUME NEW g \in Goroutine, Others(g), p'.closed = p.closed, p'.client = p.client, open' = open,
             local'[g].op = "close" <=> local[g].op = "close",
             local[g].op = "close" => local'[g].client = local[g].client
      PROVE  ClientInv'
  BY <1>1 DEF ClientInv, Others
<1>2. ASSUME NEW g \in Goroutine, CallStep(g) PROVE ClientInv'
  <2>0. Shape(local[g]) /\ p.closed \in BOOLEAN /\ p \in Provider
    BY DEF Types, Provider
  <2>1. CASE refreshUpstreams(g)
    <3>1. /\ UNCHANGED <<p, open>> /\ Others(g) /\ local[g].pc = "refresh"
          /\ local'[g] = Idle \/ local'[g].op = local[g].op
      BY <2>1, RefreshEffect, Zenon DEF Stepped
    <3>2. local[g].op # "close" /\ local'[g].op # "close"
      BY <2>0, <3>1, IdleCall DEF Shape
    <3> QED
      BY <1>1, <3>1, <3>2
  <2>2. CASE Attach(g)
    <3>1. /\ Others(g) /\ local[g].pc = "attach"
          /\ local'[g] = Idle \/ local'[g].op = local[g].op
      BY <2>2, AttachEffect, Zenon DEF Stepped
    <3>2. local[g].op # "close" /\ local'[g].op # "close"
      BY <2>0, <3>1, IdleCall DEF Shape
    <3>3. CASE UNCHANGED <<p, open>>
      BY <1>1, <3>1, <3>2, <3>3
    <3>4. CASE ~p.closed /\ \E client \in Nat \ {0} :
                 /\ p' = [p EXCEPT !.client = client, !.sig = local[g].urls] /\ open' = {client}
      <4>1. p'.closed = p.closed /\ open' = {p'.client} /\ p'.client # 0
        BY <2>0, <3>4 DEF Provider
      <4> QED
        BY <3>1, <3>2, <3>4, <4>1 DEF ClientInv, Others
    <3> QED
      BY <2>2, <3>3, <3>4, AttachEffect, Zenon
  <2>3. CASE Write(g)
    <3>1. /\ UNCHANGED <<p, open>> /\ Others(g) /\ local[g].op = "set"
          /\ local'[g] = Idle \/ local'[g].op = local[g].op
      BY <2>3, WriteEffect, Zenon DEF Stepped
    <3>2. local[g].op # "close" /\ local'[g].op # "close"
      BY <3>1, IdleCall
    <3> QED
      BY <1>1, <3>1, <3>2
  <2>4. CASE Commit(g)
    <3>1. /\ UNCHANGED open /\ Others(g) /\ p'.closed = p.closed /\ p'.client = p.client
          /\ local'[g] = Idle \/ (local[g].op = "close" /\ At(g, "release"))
          /\ local[g].op = "close" => At(g, "release")
      <4>1. local[g].op = "close" => At(g, "release")
        <5>1. local[g].op = "close" => Goto(g, "release")
          BY <2>4, Zenon DEF Commit
        <5>2. "release" \in Pc /\ local \in [Goroutine -> Call]
          BY DEF Pc, Types
        <5> QED
          BY <5>1, <5>2, GotoCall, Zenon DEF At
      <4> QED
        BY <2>4, <4>1, CommitEffect, Zenon DEF Stepped
    <3> QED
      BY <1>1, <3>1, IdleCall DEF At, Same
  <2>5. CASE restoreResolvConfIfOwned(g) \/ Rewrite(g) \/ DeleteRecord(g)
    <3>1. UNCHANGED <<p, open>> /\ Others(g) /\ Same(local[g], local'[g])
      BY <2>5, RestoreEffect, Zenon DEF Stepped, At, RestoredAt
    <3> QED
      BY <1>1, <3>1 DEF Same
  <2>6. CASE Release(g)
    <3>1. /\ UNCHANGED p /\ Others(g) /\ local[g].op = "close" /\ local'[g].op = "none"
          /\ open' = open \ {local[g].client}
      BY <2>6, ReleaseEffect, IdleCall, Zenon DEF Stepped
    <3>2. p.closed
      BY <3>1 DEF ClientInv
    <3> QED
      BY <3>1, <3>2 DEF ClientInv, Others
  <2> QED
    BY <1>2, <2>1, <2>2, <2>3, <2>4, <2>5, <2>6 DEF CallStep
<1>3. ASSUME NEW g \in Setter, \/ UnsetDNS(g) \/ \E s \in Server : SetDNS(g, s) PROVE ClientInv'
  <2>1. /\ UNCHANGED <<p, open>> /\ g \in Goroutine /\ Others(g) /\ local[g].op = "none"
        /\ local'[g].op \in {"set", "unset"}
    BY <1>3, SetEffect, UnsetEffect
  <2> QED
    BY <1>1, <2>1
<1>4. ASSUME NEW g \in Closer, Close(g) PROVE ClientInv'
  <2>1. /\ UNCHANGED open /\ g \in Goroutine /\ p'.closed = TRUE /\ p'.client = 0 /\ Others(g)
        /\ local[g].op = "none" /\ local'[g].op = "close" /\ local'[g].client = p.client
    BY <1>4, CloseEffect, Zenon
  <2>2. CASE p.closed
    BY <2>1, <2>2 DEF ClientInv, Others
  <2>3. CASE ~p.closed
    BY <2>1, <2>3 DEF ClientInv, Others
  <2> QED
    BY <2>2, <2>3
<1>5. CASE (\E s \in Server : Foreign(s)) \/ UNCHANGED fileVars
  <2>1. UNCHANGED <<p, open, local>>
    BY <1>5, Zenon DEF Foreign, fileVars
  <2> QED
    BY <2>1, Zenon DEF ClientInv
<1>6. CASE Crash
  <2>1. /\ p'.closed = FALSE /\ p'.client = 1 /\ open' = {1}
        /\ \A g \in Goroutine : local'[g] = Idle
    BY <1>6, CrashEffect, Zenon
  <2> QED
    BY <2>1, IdleCall DEF ClientInv
<1> QED
  BY <1>2, <1>3, <1>4, <1>5, <1>6 DEF FileNext

\* What is clean stays clean when neither the file nor what it is compared with changes.
LEMMA CleanKept ==
    ASSUME Clean, conf' = conf, host' = host, p'.original = p.original, lapses \subseteq lapses'
    PROVE  Clean'
BY Zenon DEF Clean

\* What a step of a call does to the file, and to what counts as clean.
LEMMA CallFile ==
    ASSUME Types, ClientInv, HostInv, NEW g \in Goroutine, CallStep(g)
    PROVE  /\ host' = host /\ p'.original = p.original /\ lapses \subseteq lapses'
           /\ conf' = conf \/ Clean' \/ conf'.by = "self" \/ "write" \in lapses'
<1>1. CASE refreshUpstreams(g)
  BY <1>1, RefreshEffect, Zenon
<1>2. CASE Attach(g)
  <2>1. UNCHANGED <<conf, host, lapses>> /\ (\/ UNCHANGED p
                                     \/ \E c : p' = [p EXCEPT !.client = c, !.sig = local[g].urls])
    BY <1>2, AttachEffect, Zenon
  <2> QED
    BY <2>1, Zenon DEF Types, Provider
<1>3. CASE Write(g)
  <2>1. \A s : Managed(s).by = "self"
    BY DEF Managed
  <2> QED
    BY <1>3, <2>1, WriteEffect, Zenon
<1>4. CASE Commit(g)
  BY <1>4, CommitEffect, Zenon
<1>5. CASE restoreResolvConfIfOwned(g) \/ Rewrite(g) \/ DeleteRecord(g)
  BY <1>5, RestoreEffect, Zenon
<1>6. CASE Release(g)
  BY <1>6, ReleaseEffect, Zenon
<1> QED
  BY <1>1, <1>2, <1>3, <1>4, <1>5, <1>6 DEF CallStep

\* What is clean stays clean when others write.
LEMMA ForeignClean ==
    ASSUME Types, HostInv, NEW s \in Server, Foreign(s)
    PROVE  HostInv' /\ (Clean => Clean')
<1>1. Absent.by = "none"
  BY DEF Absent
<1>2. /\ p' = p /\ lapses \subseteq lapses'
      /\ \/ host'.by = "other" /\ conf' = host'
         \/ host'.by = "other" /\ conf.by = "self" /\ conf' = conf
         \/ conf' = Absent /\ host' \in {host, Absent}
  BY ForeignEffect, Zenon
<1>3. CASE host'.by = "other" /\ conf' = host'
  BY <1>2, <1>3 DEF HostInv, Clean
<1>4. CASE host'.by = "other" /\ conf.by = "self" /\ conf' = conf
  BY <1>1, <1>2, <1>4 DEF HostInv, Clean
<1>5. CASE conf' = Absent /\ host' \in {host, Absent}
  BY <1>1, <1>2, <1>5 DEF HostInv, Clean
<1> QED
  BY <1>2, <1>3, <1>4, <1>5

LEMMA HostNext ==
    ASSUME Types, ClientInv, HostInv, [FileNext]_fileVars
    PROVE  HostInv'
<1>1. ASSUME NEW g \in Goroutine, CallStep(g) PROVE HostInv'
  BY <1>1, CallFile, CleanKept, Zenon DEF HostInv
<1>2. CASE (\E g \in Setter, s \in Server : SetDNS(g, s)) \/ (\E g \in Setter : UnsetDNS(g)) \/ UNCHANGED fileVars
  <2>1. UNCHANGED <<conf, host, p, lapses>>
    BY <1>2, Zenon DEF SetDNS, UnsetDNS, fileVars
  <2> QED
    BY <2>1, Zenon DEF HostInv, Clean
<1>3. ASSUME NEW g \in Closer, Close(g) PROVE HostInv'
  BY <1>3, CloseEffect, Zenon DEF HostInv, Clean
<1>4. CASE Crash
  BY <1>4, CrashEffect, Zenon DEF HostInv, Clean
<1> QED
  BY <1>1, <1>2, <1>3, <1>4, ForeignClean DEF FileNext

\* A step of g that writes no managed file and records no server or none other.
LEMMA FileKept ==
    ASSUME FileInv, ~Excused, NEW g \in Goroutine, Others(g), Clean => Clean',
           p'.setDNS = p.setDNS, ~Setting(g), ~Setting(g)',
           Undoing(g)' => Clean' \/ (Undoing(g) /\ local'[g].server = local[g].server)
    PROVE  FileInv'
<1>1. \A h \in Goroutine : h # g => /\ Setting(h) <=> Setting(h)'
                                    /\ Undoing(h) <=> Undoing(h)'
                                    /\ local'[h].server = local[h].server
  BY Zenon DEF Others, Setting, Undoing
<1>2. Active <=> Active'
  BY Zenon DEF Active
<1>3. Clean' \/ Active' \/ \E h \in Goroutine : Setting(h)'
  BY <1>1, <1>2, Zenon DEF FileInv
<1>4. ASSUME NEW h \in Goroutine, Undoing(h)', ~Clean' PROVE Distinct(h)'
  <2>1. Undoing(h) /\ local'[h].server = local[h].server
    BY <1>1, <1>4, Zenon
  <2>2. Distinct(h)
    BY <1>4, <2>1, Zenon DEF FileInv
  <2>3. \A k \in Goroutine : Setting(k)' => local'[k].server # local'[h].server
    BY <1>1, <2>1, <2>2, Zenon DEF Distinct
  <2>4. (\E k \in Goroutine : Setting(k)') \/ (Active' /\ p'.setDNS # local'[h].server)
    BY <1>1, <1>2, <2>1, <2>2, Zenon DEF Distinct
  <2> QED
    BY <2>3, <2>4, Zenon DEF Distinct
<1> QED
  BY <1>3, <1>4, Zenon DEF FileInv

\* Of the goroutines that set, only one can be at the end of SetDNS.
LEMMA SettingOne ==
    ASSUME OneSetter, Types, NEW g \in Goroutine, NEW h \in Goroutine, local[g].op = "set", Setting(h)
    PROVE  h = g
<1>1. g \in Setter /\ h \in Setter
  BY DEF Types, Setting
<1> QED
  BY <1>1, Zenon DEF OneSetter

\* SetDNS has written the file: no call is about to forget its server.
LEMMA WriteFileInv ==
    ASSUME OneSetter, Types, NEW g \in Goroutine, local[g].op = "set", local[g].pc = "write",
           Others(g), At(g, "commit"), ~Overtaken(g)
    PROVE  FileInv'
<1>1. Setting(g)'
  BY Zenon DEF Setting, At, Same
<1>2. \A h \in Goroutine : Setting(h)' => h = g
  <2>1. \A h \in Goroutine : h # g /\ Setting(h)' => Setting(h)
    BY Zenon DEF Others, Setting
  <2> QED
    BY <2>1, SettingOne, Zenon
<1>3. ASSUME NEW h \in Goroutine, Undoing(h)' PROVE Distinct(h)'
  <2>1. h # g
    BY <1>3 DEF Undoing, At, Same
  <2>2. Undoing(h) /\ local'[h] = local[h]
    BY <1>3, <2>1, Zenon DEF Others, Undoing
  <2>3. local[h].server # local[g].server
    BY <2>2, Zenon DEF Overtaken, Undoing
  <2>4. local'[g].server # local'[h].server
    BY <2>2, <2>3, Zenon DEF At, Same
  <2> QED
    BY <1>1, <1>2, <2>4, Zenon DEF Distinct
<1> QED
  BY <1>1, <1>3, Zenon DEF FileInv

\* SetDNS records the server that it has written.
LEMMA SetFileInv ==
    ASSUME OneSetter, Types, FileInv, ~Excused, NEW g \in Goroutine, Setting(g), Others(g),
           Clean => Clean', local'[g] = Idle, p'.setDNS = local[g].server
    PROVE  FileInv'
<1>1. Active'
  <2>1. local[g].server \in Server
    BY DEF Types, Shape, Setting
  <2> QED
    BY <2>1, FileDNSAssumption DEF Active
<1>2. ~Setting(g)' /\ ~Undoing(g)'
  BY IdleCall DEF Setting, Undoing
<1>3. \A h \in Goroutine : ~Setting(h)'
  <2>1. \A h \in Goroutine : h # g /\ Setting(h)' => Setting(h)
    BY Zenon DEF Others, Setting
  <2>2. \A h \in Goroutine : Setting(h) => h = g
    BY SettingOne, Zenon DEF Setting
  <2> QED
    BY <1>2, <2>1, <2>2, Zenon
<1>4. ASSUME NEW h \in Goroutine, Undoing(h)', ~Clean' PROVE Distinct(h)'
  <2>1. h # g /\ local'[h] = local[h] /\ Undoing(h)
    BY <1>2, <1>4, Zenon DEF Others, Undoing
  <2>2. local[g].server # local[h].server
    BY <1>4, <2>1, Zenon DEF FileInv, Distinct
  <2>3. p'.setDNS # local'[h].server
    BY <2>1, <2>2, Zenon
  <2> QED
    BY <1>1, <1>3, <2>3, Zenon DEF Distinct
<1> QED
  BY <1>1, <1>4, Zenon DEF FileInv

\* A call that has rolled the file back forgets its server.
LEMMA ForgetFileInv ==
    ASSUME FileInv, ~Excused, NEW g \in Goroutine, Undoing(g), Others(g), Clean => Clean',
           ~Setting(g), ~Setting(g)', ~Undoing(g)',
           p.setDNS # local[g].server => p'.setDNS = p.setDNS
    PROVE  FileInv'
<1>1. CASE Clean
  BY <1>1, Zenon DEF FileInv
<1>2. CASE ~Clean /\ \E h \in Goroutine : Setting(h)
  <2>1. \A h \in Goroutine : h # g => /\ Setting(h) <=> Setting(h)'
                                      /\ Undoing(h) <=> Undoing(h)'
                                      /\ local'[h].server = local[h].server
    BY Zenon DEF Others, Setting, Undoing
  <2>2. \E h \in Goroutine : Setting(h)'
    BY <1>2, <2>1, Zenon
  <2>3. ASSUME NEW h \in Goroutine, Undoing(h)' PROVE Distinct(h)'
    <3>1. Undoing(h) /\ h # g
      BY <2>1, <2>3, Zenon
    <3>2. Distinct(h)
      BY <1>2, <3>1, Zenon DEF FileInv
    <3>3. \A k \in Goroutine : Setting(k)' => local'[k].server # local'[h].server
      BY <2>1, <3>1, <3>2, Zenon DEF Distinct
    <3> QED
      BY <2>2, <3>3, Zenon DEF Distinct
  <2> QED
    BY <2>2, <2>3, Zenon DEF FileInv
<1>3. CASE ~Clean /\ ~\E h \in Goroutine : Setting(h)
  <2>1. p.setDNS # local[g].server
    BY <1>3, Zenon DEF FileInv, Distinct
  <2> QED
    BY <2>1, FileKept, Zenon
<1> QED
  BY <1>1, <1>2, <1>3, Zenon

LEMMA CallFileInv ==
    ASSUME OneSetter, Types, ClientInv, HostInv, FileInv, ~Excused, ~Excused',
           NEW g \in Goroutine, CallStep(g)
    PROVE  FileInv'
<1>0. /\ Shape(local[g]) /\ p \in Provider /\ Idle.op = "none" /\ Idle.pc = "idle"
      /\ p.setDNS \in Server \cup {NoServer}
  BY IdleCall DEF Types, Provider
<1>1. CASE refreshUpstreams(g)
  <2>1. /\ UNCHANGED <<conf, host, p, lapses>> /\ local[g].pc = "refresh" /\ Stepped(g)
        /\ \/ local'[g] = Idle
           \/ At(g, "write") /\ local[g].op = "set"
           \/ At(g, "commit") /\ local[g].op = "unset" /\ ~local[g].failed
           \/ At(g, "attach") /\ local[g].op \in {"set", "unset"}
    BY <1>1, RefreshEffect, Zenon
  <2>2. (Clean => Clean') /\ p'.setDNS = p.setDNS
    BY <2>1, Zenon DEF Clean
  <2>3. ~Setting(g) /\ ~Setting(g)'
    BY <1>0, <2>1 DEF Setting, At, Same
  <2>4. Undoing(g)' => Undoing(g) /\ local'[g].server = local[g].server
    BY <1>0, <2>1 DEF Undoing, At, Same
  <2> QED
    BY <2>1, <2>2, <2>3, <2>4, FileKept, Zenon DEF Stepped
<1>2. CASE Attach(g)
  <2>1. /\ UNCHANGED <<conf, host, lapses>> /\ local[g].pc = "attach" /\ Stepped(g)
        /\ \/ local'[g] = Idle
           \/ At(g, "write") /\ local[g].op = "set"
           \/ At(g, "commit") /\ local[g].op = "unset" /\ ~local[g].failed
        /\ \/ UNCHANGED p
           \/ \E c : p' = [p EXCEPT !.client = c, !.sig = local[g].urls]
    BY <1>2, AttachEffect, Zenon
  <2>2. p'.original = p.original /\ p'.setDNS = p.setDNS
    BY <1>0, <2>1, Zenon DEF Provider
  <2>3. Clean => Clean'
    BY <2>1, <2>2, CleanKept, Zenon
  <2>4. ~Setting(g) /\ ~Setting(g)'
    BY <1>0, <2>1 DEF Setting, At, Same
  <2>5. Undoing(g)' => Undoing(g) /\ local'[g].server = local[g].server
    BY <1>0, <2>1, Zenon DEF Undoing, At, Same
  <2> QED
    BY <2>1, <2>2, <2>3, <2>4, <2>5, FileKept, Zenon DEF Stepped
<1>3. CASE Write(g)
  <2>1. /\ UNCHANGED <<host, p>> /\ local[g].pc = "write" /\ local[g].op = "set" /\ Stepped(g)
        /\ lapses \subseteq lapses'
        /\ \/ At(g, "commit") /\ ~Overtaken(g)
           \/ local'[g] = Idle /\ UNCHANGED conf
    BY <1>3, WriteEffect, Zenon DEF Excused
  <2>2. CASE At(g, "commit") /\ ~Overtaken(g)
    BY <2>1, <2>2, WriteFileInv, Zenon DEF Stepped
  <2>3. CASE local'[g] = Idle /\ UNCHANGED conf
    <3>1. (Clean => Clean') /\ p'.setDNS = p.setDNS
      BY <2>1, <2>3, CleanKept, Zenon
    <3>2. ~Setting(g) /\ ~Setting(g)' /\ ~Undoing(g)'
      BY <1>0, <2>1, <2>3 DEF Setting, Undoing
    <3> QED
      BY <2>1, <3>1, <3>2, FileKept, Zenon DEF Stepped
  <2> QED
    BY <2>1, <2>2, <2>3
<1>4. CASE Commit(g)
  <2>1. /\ UNCHANGED <<conf, host, lapses>> /\ local[g].pc = "commit" /\ Stepped(g)
        /\ p'.original = p.original
        /\ local[g].op = "set" => p'.setDNS = local[g].server
        /\ local[g].op # "set" /\ p.setDNS # local[g].server => p'.setDNS = p.setDNS
        /\ local'[g] = Idle \/ (local[g].op = "close" /\ At(g, "release"))
    BY <1>4, CommitEffect, Zenon
  <2>2. Clean => Clean'
    BY <2>1, CleanKept, Zenon
  <2>3. ~Undoing(g)' /\ ~Setting(g)'
    BY <1>0, <2>1 DEF Undoing, Setting, At
  <2>4. CASE local[g].op = "set"
    BY <2>1, <2>2, <2>4, SetFileInv, Zenon DEF Stepped, Setting
  <2>5. CASE local[g].op # "set"
    <3>1. Undoing(g) /\ ~Setting(g)
      BY <1>0, <2>1, <2>5 DEF Undoing, Setting, Shape
    <3> QED
      BY <2>1, <2>2, <2>3, <2>5, <3>1, ForgetFileInv, Zenon DEF Stepped
  <2> QED
    BY <2>4, <2>5
<1>5. CASE restoreResolvConfIfOwned(g) \/ Rewrite(g) \/ DeleteRecord(g)
  <2>1. /\ UNCHANGED <<host, p>> /\ local[g].pc \in {"restore", "rewrite"} /\ Stepped(g)
        /\ lapses \subseteq lapses' /\ (conf' = conf \/ Clean')
        /\ \/ At(g, "rewrite")
           \/ RestoredAt(g, TRUE) /\ Clean'
           \/ RestoredAt(g, FALSE)
    BY <1>5, RestoreEffect, Zenon DEF Excused
  <2>2. (Clean => Clean') /\ p'.setDNS = p.setDNS
    BY <2>1, CleanKept, Zenon
  <2>3. local[g].op # "set"
    BY <1>0, <2>1 DEF Shape
  <2>4. ~Setting(g) /\ ~Setting(g)' /\ (Undoing(g)' => Clean')
    BY <2>1, <2>3, Zenon DEF Setting, Undoing, At, RestoredAt, Same
  <2> QED
    BY <2>1, <2>2, <2>4, FileKept, Zenon DEF Stepped
<1>6. CASE Release(g)
  <2>1. /\ UNCHANGED <<conf, host, p, lapses>> /\ Stepped(g) /\ local'[g] = Idle
        /\ local[g].op = "close"
    BY <1>6, ReleaseEffect, Zenon
  <2>2. (Clean => Clean') /\ p'.setDNS = p.setDNS
    BY <2>1, CleanKept, Zenon
  <2>3. ~Setting(g) /\ ~Setting(g)' /\ ~Undoing(g)'
    BY <1>0, <2>1 DEF Setting, Undoing
  <2> QED
    BY <2>1, <2>2, <2>3, FileKept, Zenon DEF Stepped
<1> QED
  BY <1>1, <1>2, <1>3, <1>4, <1>5, <1>6 DEF CallStep

\* A lapse is forgotten only with the process.
LEMMA LapsesKept ==
    ASSUME Types, ClientInv, HostInv, [FileNext]_fileVars, ~Crash
    PROVE  lapses \subseteq lapses'
<1>1. ASSUME NEW g \in Goroutine, CallStep(g) PROVE lapses \subseteq lapses'
  BY <1>1, CallFile, Zenon
<1>2. ASSUME NEW s \in Server, Foreign(s) PROVE lapses \subseteq lapses'
  BY <1>2, ForeignEffect, Zenon
<1>3. CASE \/ \E g \in Setter, s \in Server : SetDNS(g, s)
           \/ \E g \in Setter : UnsetDNS(g)
           \/ \E g \in Closer : Close(g)
           \/ UNCHANGED fileVars
  BY <1>3, Zenon DEF SetDNS, UnsetDNS, Close, fileVars
<1> QED
  BY <1>1, <1>2, <1>3 DEF FileNext

LEMMA FileInvNext ==
    ASSUME OneSetter, Types, ClientInv, HostInv, FileInv, [FileNext]_fileVars
    PROVE  FileInv'
<1>5. CASE Crash
  <2>1. conf' = p'.original /\ \A g \in Goroutine : local'[g] = Idle
    BY <1>5, CrashEffect, Zenon
  <2>2. Clean'
    BY <2>1, Zenon DEF Clean
  <2> QED
    BY <2>2, Zenon DEF FileInv
<1> SUFFICES ASSUME ~Excused', ~Crash PROVE FileInv'
  BY <1>5, Zenon DEF FileInv
<1>0. ~Excused
  BY LapsesKept, Zenon DEF Excused
<1>1. ASSUME NEW g \in Goroutine, CallStep(g) PROVE FileInv'
  BY <1>0, <1>1, CallFileInv
<1>2. ASSUME NEW g \in Setter, \/ UnsetDNS(g) \/ \E s \in Server : SetDNS(g, s) PROVE FileInv'
  <2>1. /\ UNCHANGED <<conf, host, p, lapses>> /\ g \in Goroutine /\ Others(g) /\ local[g].op = "none"
        /\ \/ local'[g].op = "unset" /\ local'[g].pc = "restore"
           \/ local'[g].op = "set" /\ local'[g].pc = "refresh"
    BY <1>2, SetEffect, UnsetEffect
  <2>2. (Clean => Clean') /\ p'.setDNS = p.setDNS
    BY <2>1, CleanKept, Zenon
  <2>3. ~Setting(g) /\ ~Setting(g)' /\ ~Undoing(g)'
    BY <2>1 DEF Setting, Undoing
  <2> QED
    BY <1>0, <2>1, <2>2, <2>3, FileKept, Zenon
<1>3. ASSUME NEW g \in Closer, Close(g) PROVE FileInv'
  <2>1. /\ UNCHANGED <<conf, host, lapses>> /\ g \in Goroutine /\ p'.original = p.original
        /\ p'.setDNS = p.setDNS /\ Others(g)
        /\ local[g].op = "none" /\ local'[g].op = "close"
        /\ local'[g].pc \in {"restore", "release"}
    BY <1>3, CloseEffect, Zenon
  <2>2. Clean => Clean'
    BY <2>1, CleanKept, Zenon
  <2>3. ~Setting(g) /\ ~Setting(g)' /\ ~Undoing(g)'
    BY <2>1 DEF Setting, Undoing
  <2> QED
    BY <1>0, <2>1, <2>2, <2>3, FileKept, Zenon
<1>4. ASSUME NEW s \in Server, Foreign(s) PROVE FileInv'
  <2>1. UNCHANGED <<p, local>> /\ (Clean => Clean')
    BY <1>4, ForeignEffect, ForeignClean, Zenon
  <2> QED
    BY <1>0, <2>1, Zenon DEF FileInv, Active, Setting, Undoing, Distinct
<1>6. CASE UNCHANGED fileVars
  BY <1>6, Zenon DEF fileVars, FileInv, Active, Setting, Undoing, Clean, Distinct, Excused
<1> QED
  BY <1>1, <1>2, <1>3, <1>4, <1>6 DEF FileNext

\* LoopInv, as far as the call of g goes.
LoopFree(g) ==
    /\ local[g].op \in {"set", "unset"} => p.setDNS \in local[g].exclude \cup {NoServer}
    /\ local[g].op = "set" /\ local[g].pc \in {"write", "commit"} => local[g].server \notin p.sig

\* A step of g that leaves the servers of the provider alone.
LEMMA LoopKept ==
    ASSUME LoopInv, NEW g \in Goroutine, Others(g), p'.sig = p.sig, p'.setDNS = p.setDNS, LoopFree(g)'
    PROVE  LoopInv'
<1>1. \A h \in Goroutine : LoopFree(h)
  BY Zenon DEF LoopInv, LoopFree
<1>2. \A h \in Goroutine : LoopFree(h)'
  BY <1>1, Zenon DEF Others, LoopFree
<1> QED
  BY <1>2, Zenon DEF LoopInv, LoopFree

LEMMA CallLoop ==
    ASSUME OneSetter, Types, ClientInv, HostInv, LoopInv, NEW g \in Goroutine, CallStep(g)
    PROVE  LoopInv'
<1>0. /\ Shape(local[g]) /\ p \in Provider /\ Idle.op = "none" /\ LoopFree(g)
      /\ local[g] \in Call /\ NoServer \notin Server
  BY IdleCall, FileDNSAssumption DEF Types, LoopInv, LoopFree
<1>1. CASE refreshUpstreams(g)
  <2>1. /\ UNCHANGED p /\ Stepped(g)
        /\ \/ local'[g] = Idle
           \/ At(g, "write") /\ local[g].op = "set" /\ p.sig \cap local[g].exclude = {}
           \/ At(g, "commit") /\ local[g].op = "unset"
           \/ At(g, "attach") /\ local[g].op \in {"set", "unset"}
    BY <1>1, RefreshEffect, Zenon
  <2>2. local[g].op = "set" => local[g].server \in local[g].exclude
    BY <1>0 DEF Shape
  <2>3. LoopFree(g)'
    BY <1>0, <2>1, <2>2 DEF LoopFree, At, Same
  <2> QED
    BY <2>1, <2>3, LoopKept, Zenon DEF Stepped
<1>2. CASE Attach(g)
  <2>1. /\ local[g].pc = "attach" /\ Stepped(g)
        /\ \/ UNCHANGED p /\ local'[g] = Idle
           \/ /\ \E c \in Nat : p' = [p EXCEPT !.client = c, !.sig = local[g].urls]
              /\ local'[g] = Idle \/ At(g, "write") \/ At(g, "commit")
    BY <1>2, AttachEffect, Zenon
  <2>2. CASE UNCHANGED p /\ local'[g] = Idle
    <3>1. LoopFree(g)'
      BY <1>0, <2>2 DEF LoopFree
    <3> QED
      BY <2>1, <2>2, <3>1, LoopKept, Zenon DEF Stepped
  <2>3. CASE /\ \E c \in Nat : p' = [p EXCEPT !.client = c, !.sig = local[g].urls]
             /\ local'[g] = Idle \/ At(g, "write") \/ At(g, "commit")
    <3>1. p'.sig = local[g].urls /\ p'.setDNS = p.setDNS
      BY <1>0, <2>3 DEF Provider
    <3>2. /\ local[g].op \in {"set", "unset"} /\ local[g].urls \cap local[g].exclude = {}
          /\ local[g].op = "set" => local[g].server \in local[g].exclude
          /\ local[g].urls \in SUBSET Server
      BY <1>0, <2>1, Zenon DEF Shape, Call
    <3>3. p'.setDNS \notin p'.sig
      BY <1>0, <3>1, <3>2 DEF LoopFree
    <3>4. LoopFree(g)'
      BY <1>0, <2>3, <3>1, <3>2 DEF LoopFree, At, Same
    <3>5. ASSUME NEW h \in Goroutine, h # g PROVE LoopFree(h)'
      <4>1. h \notin Setter /\ local'[h] = local[h]
        BY <2>1, <3>2, <3>5, Zenon DEF OneSetter, Types, Stepped, Others
      <4>2. local[h].op \notin {"set", "unset"}
        BY <4>1 DEF Types
      <4> QED
        BY <4>1, <4>2 DEF LoopFree
    <3> QED
      BY <3>3, <3>4, <3>5, Zenon DEF LoopInv, LoopFree
  <2> QED
    BY <2>1, <2>2, <2>3, Zenon
<1>3. CASE Write(g)
  <2>1. /\ UNCHANGED p /\ local[g].pc = "write" /\ local[g].op = "set" /\ Stepped(g)
        /\ At(g, "commit") \/ local'[g] = Idle
    BY <1>3, WriteEffect, Zenon
  <2>2. LoopFree(g)'
    BY <1>0, <2>1 DEF LoopFree, At, Same
  <2> QED
    BY <2>1, <2>2, LoopKept, Zenon DEF Stepped
<1>4. CASE Commit(g)
  <2>1. /\ local[g].pc = "commit" /\ Stepped(g) /\ p'.sig = p.sig
        /\ local[g].op = "set" => p'.setDNS = local[g].server
        /\ local[g].op # "set" => p'.setDNS \in {p.setDNS, NoServer}
        /\ local'[g] = Idle \/ (local[g].op = "close" /\ At(g, "release"))
    BY <1>4, CommitEffect, Zenon
  <2>2. p'.setDNS \notin p'.sig
    BY <1>0, <2>1 DEF LoopFree, LoopInv, Provider
  <2>3. LoopFree(g)'
    BY <1>0, <2>1 DEF LoopFree, At, Same
  <2>4. ASSUME NEW h \in Goroutine, h # g PROVE LoopFree(h)'
    <3>1. local'[h] = local[h] /\ LoopFree(h)
      BY <2>1, <2>4, Zenon DEF Stepped, Others, LoopInv, LoopFree
    <3>2. CASE local[g].op = "set"
      <4>1. h \notin Setter
        BY <2>4, <3>2, Zenon DEF OneSetter, Types
      <4>2. local[h].op \notin {"set", "unset"}
        BY <4>1 DEF Types
      <4> QED
        BY <3>1, <4>2 DEF LoopFree
    <3>3. CASE local[g].op # "set"
      BY <2>1, <3>1, <3>3 DEF LoopFree
    <3> QED
      BY <3>2, <3>3
  <2> QED
    BY <2>2, <2>3, <2>4, Zenon DEF LoopInv, LoopFree
<1>5. CASE restoreResolvConfIfOwned(g) \/ Rewrite(g) \/ DeleteRecord(g)
  <2>1. /\ UNCHANGED p /\ local[g].pc \in {"restore", "rewrite"} /\ Stepped(g)
        /\ Same(local[g], local'[g])
    BY <1>5, RestoreEffect, Zenon DEF At, RestoredAt
  <2>2. LoopFree(g)'
    BY <1>0, <2>1 DEF LoopFree, Same, Shape
  <2> QED
    BY <2>1, <2>2, LoopKept, Zenon DEF Stepped
<1>6. CASE Release(g)
  <2>1. UNCHANGED p /\ Stepped(g) /\ local'[g] = Idle
    BY <1>6, ReleaseEffect, Zenon
  <2>2. LoopFree(g)'
    BY <1>0, <2>1 DEF LoopFree
  <2> QED
    BY <2>1, <2>2, LoopKept, Zenon DEF Stepped
<1> QED
  BY <1>1, <1>2, <1>3, <1>4, <1>5, <1>6 DEF CallStep

LEMMA LoopNext ==
    ASSUME OneSetter, Types, ClientInv, HostInv, LoopInv, [FileNext]_fileVars
    PROVE  LoopInv'
<1>1. ASSUME NEW g \in Goroutine, CallStep(g) PROVE LoopInv'
  BY <1>1, CallLoop
<1>2. ASSUME NEW g \in Setter, \/ UnsetDNS(g) \/ \E s \in Server : SetDNS(g, s) PROVE LoopInv'
  <2>1. /\ UNCHANGED p /\ g \in Goroutine /\ Others(g)
        /\ local'[g].pc \in {"restore", "refresh"}
        /\ p.setDNS \in local'[g].exclude \cup {NoServer}
    BY <1>2, SetEffect, UnsetEffect
  <2>2. LoopFree(g)'
    BY <2>1 DEF LoopFree
  <2> QED
    BY <2>1, <2>2, LoopKept, Zenon
<1>3. ASSUME NEW g \in Closer, Close(g) PROVE LoopInv'
  <2>1. /\ g \in Goroutine /\ Others(g) /\ p'.sig = p.sig /\ p'.setDNS = p.setDNS
        /\ local'[g].op = "close"
    BY <1>3, CloseEffect, Zenon
  <2>2. LoopFree(g)'
    BY <2>1 DEF LoopFree
  <2> QED
    BY <2>1, <2>2, LoopKept, Zenon
<1>4. CASE (\E s \in Server : Foreign(s)) \/ UNCHANGED fileVars
  <2>1. UNCHANGED <<p, local>>
    BY <1>4, Zenon DEF Foreign, fileVars
  <2> QED
    BY <2>1, Zenon DEF LoopInv
<1>5. CASE Crash
  <2>1. /\ p' \in Provider /\ p'.setDNS = NoServer /\ \A g \in Goroutine : local'[g] = Idle
    BY <1>5, CrashEffect, Zenon
  <2>2. p'.setDNS \notin p'.sig
    BY <2>1, FileDNSAssumption DEF Provider
  <2> QED
    BY <2>1, <2>2, IdleCall DEF LoopInv
<1> QED
  BY <1>1, <1>2, <1>3, <1>4, <1>5 DEF FileNext

----------------------------------------------------------------------------
(* The theorems. *)

LEMMA FileDNSInit ==
    ASSUME FileInit
    PROVE  Types /\ ClientInv /\ HostInv /\ FileInv /\ LoopInv
<1>1. conf \in File /\ conf.by # "self"
  BY DEF FileInit, File, Absent
<1>2. /\ p \in Provider /\ p.closed = FALSE /\ p.original = conf /\ p.setDNS = NoServer
      /\ p.client = 1
  BY <1>1, NewProviderType, Zenon DEF FileInit
<1>3. local \in [Goroutine -> Call] /\ \A g \in Goroutine : local[g] = Idle
  BY IdleCall DEF FileInit
<1>4. Types
  BY <1>1, <1>2, <1>3, IdleCall, Zenon DEF FileInit, Types
<1>5. ClientInv
  BY <1>2, <1>3, IdleCall DEF FileInit, ClientInv
<1>6. HostInv
  BY <1>1, <1>2 DEF FileInit, HostInv, Clean
<1>7. FileInv
  BY <1>2, <1>3, IdleCall DEF FileInv, Clean, Undoing
<1>8. LoopInv
  BY <1>2, <1>3, IdleCall, FileDNSAssumption DEF LoopInv, Provider
<1> QED
  BY <1>4, <1>5, <1>6, <1>7, <1>8

\* What holds for any number of goroutines that set and unset.
LEMMA ProviderInvariant == FileSpec => [](Types /\ ClientInv /\ HostInv)
<1>1. Types /\ ClientInv /\ HostInv /\ [FileNext]_fileVars => (Types /\ ClientInv /\ HostInv)'
  BY TypesNext, ClientNext, HostNext
<1>2. FileInit => Types /\ ClientInv /\ HostInv
  BY FileDNSInit
<1> QED
  BY <1>1, <1>2, PTL DEF FileSpec

\* Attach and Close hand the forwarding client over under the provider's mutex: every
\* client that was created is closed, however refreshUpstreams and Close overlap.
THEOREM ClientsReleasedHolds == FileSpec => []ClientsReleased
<1>1. ASSUME Types, ClientInv, Quiet PROVE open = IF p.closed THEN {} ELSE {p.client}
  <2>1. \A g \in Goroutine : local[g].op = "none"
    BY <1>1 DEF Types, Shape, Quiet
  <2> QED
    BY <1>1, <2>1 DEF ClientInv
<1>2. Types /\ ClientInv /\ HostInv => ClientsReleased
  BY <1>1, Zenon DEF ClientsReleased
<1> QED
  BY <1>2, ProviderInvariant, PTL

\* With no call running and no server recorded as set, resolv.conf is what the constructor
\* found, what another program made of it, absent, or the part of what the constructor
\* found that a rollback cut short had written: restoreResolvConfIfOwned and Close never
\* forget a managed file that is still there, in whatever order Close, a second Close and
\* SetDNS overlap, unless SetDNS changed the file and reported an error, or wrote the very
\* server that a Close had rolled back and was about to forget.
THEOREM RolledBackHolds ==
    ASSUME OneSetter
    PROVE  FileSpec => []RolledBack
<1>1. ASSUME Types, FileInv PROVE RolledBack
  <2>1. ASSUME Quiet, ~Active, ~Excused PROVE Clean
    <3>1. \A g \in Goroutine : ~Setting(g)
      BY <2>1 DEF Quiet, Setting
    <3> QED
      BY <1>1, <2>1, <3>1, Zenon DEF FileInv
  <2> QED
    BY <2>1, Zenon DEF RolledBack, Clean, Excused
<1>2. Types /\ ClientInv /\ HostInv /\ FileInv /\ [FileNext]_fileVars => FileInv'
  BY FileInvNext
<1>3. FileInit => FileInv
  BY FileDNSInit
<1> QED
  BY <1>1, <1>2, <1>3, ProviderInvariant, PTL DEF FileSpec

\* Requests are never forwarded to the server in the file this program has written:
\* refreshUpstreams excludes it before the file is written and until it is removed.
THEOREM NoLoopHolds ==
    ASSUME OneSetter
    PROVE  FileSpec => []NoLoop
<1>1. ASSUME Types, LoopInv PROVE NoLoop
  <2>1. \A g \in Goroutine : local[g].pc = "write" => local[g].op = "set"
    BY <1>1 DEF Types, Shape
  <2> QED
    BY <1>1, <2>1 DEF NoLoop, LoopInv
<1>2. Types /\ ClientInv /\ HostInv /\ LoopInv /\ [FileNext]_fileVars => LoopInv'
  BY LoopNext
<1>3. FileInit => LoopInv
  BY FileDNSInit
<1> QED
  BY <1>1, <1>2, <1>3, ProviderInvariant, PTL DEF FileSpec
=============================================================================
