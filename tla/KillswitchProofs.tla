-------------------------- MODULE KillswitchProofs --------------------------
(***************************************************************************)
(* Killswitch: types, Converged and the refinement of KillswitchRegister,  *)
(* for any policies, interfaces, number of sessions and socket capacity.   *)
(*                                                                         *)
(* The invariant has five parts.  Types adds the contents of the socket to *)
(* TypeOK.  SessionInv says which sessions are over and which have not     *)
(* begun.  ListInv follows the interface list from the daemon to the       *)
(* client: it is to be requested, in the socket, in the reader's hands or  *)
(* known.  PolicyInv follows the merged ruleset the other way: a version   *)
(* that is recorded as applied is the last in the socket or the one the    *)
(* daemon has.  EditInv says of every mutation which edit it comes from.   *)
(***************************************************************************)
EXTENDS Killswitch, TLAPS

Ruleset == [interfaces : SUBSET Iface, policy : SUBSET UNION Policy]

Mutation == [type : {"mutation"}, ruleset : SUBSET Ruleset, edit : Nat]

Message == [type : {"subscribe", "config_request"}] \cup Mutation

\* A session is served; its reader has been started.
Serving == {"reset", "subscribe", "request", "snapshot", "apply", "select"}
Started == Serving \ {"reset"}

CallerTypes ==
    /\ closed \in BOOLEAN /\ version \in Nat /\ nextRulesetID \in 0..MaxId
    /\ rulesets \in [Id -> {{}} \cup {{p} : p \in Policy}]
    /\ interfaces \in [known : BOOLEAN, names : SUBSET Iface] /\ wake \in BOOLEAN

RunnerTypes ==
    /\ rpc \in {"check", "dial", "sleep", "exit"} \cup Serving
    /\ delay \in {1, 2, 4, 8, 16, 32, 64} /\ session \in 0..MaxSessions
    /\ appliedVersion \in 0..version
    /\ sending \in [version : 0..version, ruleset : SUBSET Ruleset, edit : Nat]

SocketTypes ==
    /\ conn \in [Session -> {"none", "open", "broken", "closed"}]
    /\ reader \in [Session -> {"none", "read", "handle", "exit"}]
    /\ handling \in [Session -> SUBSET Iface]
    /\ toDaemon \in [Session -> Seq(Message)] /\ toClient \in [Session -> Seq(SUBSET Iface)]
    /\ \A s \in Session : Len(toDaemon[s]) =< SocketCap /\ Len(toClient[s]) =< SocketCap

DaemonTypes ==
    /\ up \in BOOLEAN /\ ifaces \in SUBSET Iface
    /\ subscribed \in [Session -> BOOLEAN]
    /\ tmpRuleset \in [Session -> SUBSET Ruleset]

HistoryTypes ==
    /\ edits \in Seq(SUBSET UNION Policy) /\ reached \in 1..Len(edits)
    /\ alien \in BOOLEAN /\ rejected \in BOOLEAN
    /\ budget \in [{"edit", "change", "outage", "reject"} -> Nat]

Types == CallerTypes /\ RunnerTypes /\ SocketTypes /\ DaemonTypes /\ HistoryTypes

\* Nothing of session s has happened.
Untouched(s) ==
    /\ reader[s] = "none" /\ toDaemon[s] = << >> /\ toClient[s] = << >>
    /\ ~subscribed[s] /\ tmpRuleset[s] = {}

SessionInv ==
    /\ rpc \in Serving => session \in Session
    /\ session \in Session => conn[session] # "none"
    /\ rpc \notin Serving => \A s \in Session : conn[s] \in {"none", "closed"}
    /\ \A s \in Session :
         /\ s < session => conn[s] = "closed"
         /\ s > session => conn[s] = "none" /\ Untouched(s)
         /\ conn[s] = "open" => up
    /\ rpc = "reset" => Untouched(session)
    /\ rpc \in Started /\ conn[session] = "open" => reader[session] \in {"read", "handle"}

\* run is serving a connection that neither side has given up.
Live == rpc \in Started /\ conn[session] = "open"

Queued(type) == \E n \in 1..Len(toDaemon[session]) : toDaemon[session][n].type = type

\* The newest list the daemon has sent is its current one.
Delivered ==
    /\ subscribed[session]
    /\ IF toClient[session] # << >> THEN toClient[session][Len(toClient[session])] = ifaces
       ELSE IF reader[session] = "handle" THEN handling[session] = ifaces
       ELSE closed \/ alien \/ interfaces = Known(ifaces)

\* No request for the list overtakes the subscription.
AfterSubscribe(q) ==
    \A n \in 1..Len(q) : q[n].type = "config_request" =>
      \E m \in 1..(n - 1) : q[m].type = "subscribe"

ListInv ==
    Live => /\ rpc = "subscribe" \/ subscribed[session] \/ Queued("subscribe")
            /\ rpc \in {"subscribe", "request"} \/ Queued("config_request") \/ Delivered
            /\ subscribed[session] \/ AfterSubscribe(toDaemon[session])

\* What the client would send now.
Current == mergeTMPRulesets(rulesets, interfaces.names)

\* The last thing the client has asked of the daemon is r.
Asked(r) ==
    LET q == toDaemon[session]
    IN  IF q = << >> THEN rejected \/ tmpRuleset[session] = r
        ELSE q[Len(q)].type = "mutation" /\ q[Len(q)].ruleset = r

PolicyInv ==
    Live => /\ version > 0
            /\ rpc \in {"subscribe", "request"} => appliedVersion = 0
            /\ rpc = "apply" /\ sending.version = version => sending.ruleset = Current
            /\ appliedVersion = version => Asked(Current)
            /\ rpc = "apply" /\ ~wake => sending.version = version
            /\ rpc = "select" /\ ~wake => ~interfaces.known \/ appliedVersion = version

\* The ruleset of a mutation is what the callers wanted after edit e, if anything.
From(ruleset, e) == e \in 1..Len(edits) /\ \A r \in ruleset : r.policy = edits[e]

\* The mutations in q come from edits, in the order of the edits, none of them older
\* than the one the daemon has.
InOrder(q) ==
    \A n \in 1..Len(q) : q[n].type = "mutation" =>
      /\ From(q[n].ruleset, q[n].edit) /\ reached =< q[n].edit
      /\ \A k \in n..Len(q) : q[k].type = "mutation" => q[n].edit =< q[k].edit

EditInv ==
    /\ edits[Len(edits)] = Wanted(rulesets)
    /\ session \in Session =>
         /\ InOrder(toDaemon[session])
         /\ rpc = "apply" =>
              /\ From(sending.ruleset, sending.edit) /\ reached =< sending.edit
              /\ \A n \in 1..Len(toDaemon[session]) :
                   toDaemon[session][n].type = "mutation" =>
                     toDaemon[session][n].edit =< sending.edit

KInv == Types /\ SessionInv /\ ListInv /\ PolicyInv /\ EditInv

----------------------------------------------------------------------------
(* Operators. *)

RulesetsType == [Id -> {{}} \cup {{p} : p \in Policy}]

----------------------------------------------------------------------------
(* The queues of the sockets. *)

\* A queue that is empty, and one that is not.
LEMMA EmptyQueue ==
    ASSUME NEW S
    PROVE  << >> \in Seq(S) /\ Len(<< >>) = 0 /\ \A q \in Seq(S) : q # << >> => Len(q) \in Nat \ {0}
OBVIOUS

\* The elements of a queue.
LEMMA QueueElements ==
    ASSUME NEW S, NEW q \in Seq(S)
    PROVE  Len(q) \in Nat /\ \A n \in 1..Len(q) : q[n] \in S
OBVIOUS

\* The rest of a queue.
LEMMA TailElements ==
    ASSUME NEW S, NEW q \in Seq(S), q # << >>
    PROVE  /\ Len(q) \in Nat \ {0} /\ Head(q) = q[1] /\ Head(q) \in S /\ Tail(q) \in Seq(S)
           /\ Len(Tail(q)) = Len(q) - 1
           /\ \A n \in 1..(Len(q) - 1) : Tail(q)[n] = q[n + 1]
OBVIOUS

LEMMA FirstElement ==
    ASSUME NEW S, NEW q \in Seq(S), q # << >>
    PROVE  1 \in 1..Len(q)
OBVIOUS

\* An element of a queue is the first, or one of the rest.
LEMMA RestElement ==
    ASSUME NEW S, NEW q \in Seq(S), NEW n \in 1..Len(q), n # 1
    PROVE  /\ q # << >> /\ n - 1 \in 1..Len(Tail(q)) /\ Tail(q)[n - 1] = q[n]
OBVIOUS

\* A queue with one more element.
LEMMA AppendElements ==
    ASSUME NEW S, NEW q \in Seq(S), NEW m \in S
    PROVE  /\ Len(q) \in Nat /\ Append(q, m) \in Seq(S) /\ Len(Append(q, m)) = Len(q) + 1
           /\ Append(q, m) # << >> /\ Append(q, m)[Len(q) + 1] = m
           /\ \A n \in 1..Len(q) : Append(q, m)[n] = q[n]
OBVIOUS

\* What the callers want together is made of the policies they use.
LEMMA WantedType ==
    ASSUME NEW rs \in RulesetsType
    PROVE  Wanted(rs) \in SUBSET UNION Policy
BY DEF Wanted, RulesetsType

\* mergeTMPRulesets gives a ruleset with what the callers want, or none.
LEMMA MergeType ==
    ASSUME NEW rs \in RulesetsType, NEW names \in SUBSET Iface
    PROVE  /\ mergeTMPRulesets(rs, names) \in SUBSET Ruleset
           /\ \A r \in mergeTMPRulesets(rs, names) : r.policy = Wanted(rs)
<1> DEFINE live == UNION {rs[i] : i \in Id}
<1>1. UNION live = Wanted(rs)
  BY DEF Wanted
<1>2. mergeTMPRulesets(rs, names) \subseteq {[interfaces |-> names, policy |-> Wanted(rs)]}
  BY <1>1, Zenon DEF mergeTMPRulesets
<1>3. [interfaces |-> names, policy |-> Wanted(rs)] \in Ruleset
  BY WantedType DEF Ruleset
<1> QED
  BY <1>2, <1>3

\* Spend keeps the type of budget.
LEMMA SpendType ==
    ASSUME budget \in [{"edit", "change", "outage", "reject"} -> Nat],
           NEW b \in {"edit", "change", "outage", "reject"}, Spend(b)
    PROVE  budget' \in [{"edit", "change", "outage", "reject"} -> Nat]
BY DEF Spend

\* The reconnect delay doubles up to its bound.
LEMMA DelayType ==
    ASSUME NEW d \in {1, 2, 4, 8, 16, 32, 64}
    PROVE  nextDelay(d) \in {1, 2, 4, 8, 16, 32, 64}
BY DEF nextDelay

----------------------------------------------------------------------------
(* Types. *)

\* A new version keeps what is known of older ones.
LEMMA RunnerTypesKept ==
    ASSUME Types, UNCHANGED runner, version' \in {version, version + 1}
    PROVE  RunnerTypes'
<1>1. version \in Nat /\ appliedVersion \in 0..version'
  BY DEF Types, CallerTypes, RunnerTypes
<1>2. sending \in [version : 0..version', ruleset : SUBSET Ruleset, edit : Nat]
  BY <1>1 DEF Types, RunnerTypes
<1> QED
  BY <1>1, <1>2, Zenon DEF Types, RunnerTypes, runner

\* Parts of the state that a step leaves alone.
LEMMA TypesKept ==
    ASSUME Types
    PROVE  /\ UNCHANGED callers => CallerTypes'
           /\ UNCHANGED <<callers, runner>> => RunnerTypes'
           /\ UNCHANGED <<readers, socket>> => SocketTypes'
           /\ UNCHANGED daemon => DaemonTypes'
           /\ UNCHANGED <<history, budget>> => HistoryTypes'
<1>1. UNCHANGED callers => CallerTypes'
  BY Zenon DEF Types, CallerTypes, callers
<1>2. UNCHANGED <<callers, runner>> => RunnerTypes'
  BY ZenonT(30) DEF Types, RunnerTypes, callers, runner
<1>3. UNCHANGED <<readers, socket>> => SocketTypes'
  BY Zenon DEF Types, SocketTypes, readers, socket
<1>4. UNCHANGED daemon => DaemonTypes'
  BY Zenon DEF Types, DaemonTypes, daemon
<1>5. UNCHANGED <<history, budget>> => HistoryTypes'
  BY Zenon DEF Types, HistoryTypes, history
<1> QED
  BY <1>1, <1>2, <1>3, <1>4, <1>5

\* CreateTMPRuleset, UpdateTMPRuleset and DeleteTMPRuleset.
LEMMA EditTypes ==
    ASSUME Types, NEW rs \in RulesetsType, Edit(rs), nextRulesetID' \in 0..MaxId
    PROVE  Types'
<1>1. CallerTypes'
  BY DEF Types, CallerTypes, Edit, changedLocked, RulesetsType
<1>2. RunnerTypes'
  BY RunnerTypesKept DEF Edit, changedLocked
<1>3. SocketTypes' /\ DaemonTypes'
  BY TypesKept DEF Edit
<1>4. /\ edits' \in Seq(SUBSET UNION Policy) /\ Len(edits') = Len(edits) + 1
      /\ edits \in Seq(SUBSET UNION Policy)
  BY WantedType, AppendElements DEF Edit, Types, HistoryTypes
<1>5. reached' \in 1..Len(edits')
  BY <1>4 DEF Edit, Types, HistoryTypes
<1>6. HistoryTypes'
  BY <1>4, <1>5, SpendType DEF Edit, Types, HistoryTypes
<1> QED
  BY <1>1, <1>2, <1>3, <1>6 DEF Types

\* The edits that the three calls make.
LEMMA EditsOf ==
    ASSUME Types, \/ \E p \in Policy :
                       CreateTMPRuleset(p) \/ \E i \in Id : UpdateTMPRuleset(i, p)
                  \/ \E i \in Id : DeleteTMPRuleset(i)
    PROVE  /\ \E rs \in RulesetsType : Edit(rs)
           /\ nextRulesetID' \in 0..MaxId
<1>1. rulesets \in RulesetsType /\ nextRulesetID \in 0..MaxId /\ MaxId \in Nat
  BY KillswitchAssumption DEF Types, CallerTypes, RulesetsType
<1>2. ASSUME NEW i \in Id
      PROVE  /\ \A p \in Policy : [rulesets EXCEPT ![i] = {p}] \in RulesetsType
             /\ [rulesets EXCEPT ![i] = {}] \in RulesetsType
  BY <1>1 DEF RulesetsType
<1>3. ASSUME NEW p \in Policy, CreateTMPRuleset(p)
      PROVE  (\E rs \in RulesetsType : Edit(rs)) /\ nextRulesetID' \in 0..MaxId
  <2>1. nextRulesetID + 1 \in Id /\ nextRulesetID' \in 0..MaxId
    BY <1>1, <1>3 DEF CreateTMPRuleset, Id
  <2> QED
    BY <1>2, <1>3, <2>1, Zenon DEF CreateTMPRuleset
<1>4. ASSUME NEW p \in Policy, NEW i \in Id, UpdateTMPRuleset(i, p)
      PROVE  (\E rs \in RulesetsType : Edit(rs)) /\ nextRulesetID' \in 0..MaxId
  BY <1>1, <1>2, <1>4, Zenon DEF UpdateTMPRuleset
<1>5. ASSUME NEW i \in Id, DeleteTMPRuleset(i)
      PROVE  (\E rs \in RulesetsType : Edit(rs)) /\ nextRulesetID' \in 0..MaxId
  BY <1>1, <1>2, <1>5 DEF DeleteTMPRuleset
<1> QED
  BY <1>3, <1>4, <1>5

\* run and serveConn.
LEMMA RunTypes ==
    ASSUME Types, SessionInv, RunStep
    PROVE  Types'
<1>0. /\ session \in 0..MaxSessions /\ MaxSessions \in Nat /\ version \in Nat
      /\ conn \in [Session -> {"none", "open", "broken", "closed"}]
  BY KillswitchAssumption DEF Types, RunnerTypes, CallerTypes, SocketTypes
<1>1. CASE runCheck
  <2>1. RunnerTypes'
    BY <1>1 DEF runCheck, Goto, callers, Types, RunnerTypes
  <2> QED
    BY <1>1, <2>1, TypesKept, Zenon DEF runCheck, Types
<1>2. CASE runDial
  <2>1. session' \in 0..MaxSessions /\ conn' \in [Session -> {"none", "open", "broken", "closed"}]
    BY <1>0, <1>2 DEF runDial, Session
  <2>2. RunnerTypes'
    BY <1>2, <2>1 DEF runDial, Goto, callers, Types, RunnerTypes, Serving
  <2>3. SocketTypes'
    BY <1>2, <2>1, Zenon DEF runDial, readers, Types, SocketTypes
  <2> QED
    BY <1>2, <2>2, <2>3, TypesKept, Zenon DEF runDial, Types
<1>3. CASE runSleep
  <2>1. RunnerTypes'
    BY <1>3, DelayType DEF runSleep, Goto, callers, Types, RunnerTypes
  <2> QED
    BY <1>3, <2>1, TypesKept, Zenon DEF runSleep, Types
<1>4. CASE resetInterfaces
  <2>1. CallerTypes'
    BY <1>4 DEF resetInterfaces, changedLocked, Unknown, Types, CallerTypes
  <2>2. sending \in [version : 0..version', ruleset : SUBSET Ruleset, edit : Nat]
    BY <1>0, <1>4 DEF resetInterfaces, changedLocked, Types, RunnerTypes
  <2>3. RunnerTypes'
    BY <1>0, <1>4, <2>2 DEF resetInterfaces, changedLocked, Goto, Types, RunnerTypes, Serving
  <2>4. SocketTypes'
    BY <1>4, Zenon DEF resetInterfaces, socket, Types, SocketTypes
  <2>5. HistoryTypes'
    BY <1>4, Zenon DEF resetInterfaces, Types, HistoryTypes
  <2> QED
    BY <1>4, <2>1, <2>3, <2>4, <2>5, TypesKept, Zenon DEF resetInterfaces, Types
<1>5. ASSUME NEW msg \in Message, NEW next, Send(msg, next), rpc \in Serving,
             UNCHANGED <<readers, toClient>>
      PROVE  SocketTypes'
  <2>1. session \in Session
    BY <1>5 DEF SessionInv
  <2>2. ASSUME NEW q \in Seq(Message), Len(q) < SocketCap
        PROVE  Append(q, msg) \in Seq(Message) /\ Len(Append(q, msg)) =< SocketCap
    BY <2>2, <1>5, AppendElements, KillswitchAssumption
  <2>3. CASE conn[session] = "open"
    <3>1. Append(toDaemon[session], msg) \in Seq(Message)
          /\ Len(Append(toDaemon[session], msg)) =< SocketCap
      BY <1>5, <2>1, <2>2, <2>3 DEF Send, Types, SocketTypes
    <3>2. toDaemon' = [toDaemon EXCEPT ![session] = Append(toDaemon[session], msg)]
          /\ conn' = conn
      BY <1>5, <2>3 DEF Send
    <3> QED
      BY <1>5, <2>1, <3>1, <3>2, Zenon DEF readers, Types, SocketTypes
  <2>4. CASE conn[session] # "open"
    <3>1. toDaemon' = toDaemon /\ conn' = [conn EXCEPT ![session] = "closed"]
      BY <1>5, <2>4 DEF Send, EndSession
    <3> QED
      BY <1>5, <2>1, <3>1, Zenon DEF readers, Types, SocketTypes
  <2> QED
    BY <2>3, <2>4
<1>6. CASE startSubscribe
  <2>1. SocketTypes'
    <3>1. [type |-> "subscribe"] \in Message
      BY DEF Message
    <3> QED
      BY <1>5, <1>6, <3>1 DEF startSubscribe, Serving
  <2>2. RunnerTypes'
    BY <1>6 DEF startSubscribe, Send, EndSession, Goto, callers, Types, RunnerTypes, Serving
  <2> QED
    BY <1>6, <2>1, <2>2, TypesKept, Zenon DEF startSubscribe, Types
<1>7. CASE startRequest
  <2>1. SocketTypes'
    <3>1. [type |-> "config_request"] \in Message
      BY DEF Message
    <3> QED
      BY <1>5, <1>7, <3>1 DEF startRequest, Serving
  <2>2. RunnerTypes'
    BY <1>7 DEF startRequest, Send, EndSession, Goto, callers, Types, RunnerTypes, Serving
  <2> QED
    BY <1>7, <2>1, <2>2, TypesKept, Zenon DEF startRequest, Types
<1>8. CASE snapshot
  <2>1. session \in Session
    BY <1>8 DEF SessionInv, snapshot, Serving
  <2>2. SocketTypes'
    BY <1>8, <2>1, Zenon DEF snapshot, EndSession, readers, Types, SocketTypes
  <2>3. sending' \in [version : 0..version, ruleset : SUBSET Ruleset, edit : Nat]
    <3>1. mergeTMPRulesets(rulesets, interfaces.names) \in SUBSET Ruleset
      BY MergeType DEF Types, CallerTypes, RulesetsType
    <3>2. Len(edits) \in Nat
      BY QueueElements DEF Types, HistoryTypes
    <3> QED
      BY <1>0, <1>8, <3>1, <3>2 DEF snapshot, Types, RunnerTypes
  <2>4. RunnerTypes'
    BY <1>8, <2>3 DEF snapshot, EndSession, Goto, callers, Types, RunnerTypes, Serving
  <2> QED
    BY <1>8, <2>2, <2>4, TypesKept, Zenon DEF snapshot, Types
<1>9. CASE apply
  <2>1. SocketTypes'
    <3>1. [type |-> "mutation", ruleset |-> sending.ruleset, edit |-> sending.edit] \in Message
      BY DEF Message, Mutation, Types, RunnerTypes
    <3> QED
      BY <1>5, <1>9, <3>1 DEF apply, Serving
  <2>2. RunnerTypes'
    BY <1>9 DEF apply, Send, EndSession, Goto, callers, Types, RunnerTypes, Serving
  <2> QED
    BY <1>9, <2>1, <2>2, TypesKept, Zenon DEF apply, Types
<1>10. CASE serveSelect
  <2>1. session \in Session
    BY <1>10 DEF SessionInv, serveSelect, Serving
  <2>2. SocketTypes'
    BY <1>10, <2>1, Zenon DEF serveSelect, EndSession, readers, Types, SocketTypes
  <2>3. CallerTypes'
    BY <1>10, Zenon DEF serveSelect, Types, CallerTypes
  <2>4. RunnerTypes'
    BY <1>10 DEF serveSelect, EndSession, Goto, Types, RunnerTypes, Serving
  <2> QED
    BY <1>10, <2>2, <2>3, <2>4, TypesKept, Zenon DEF serveSelect, Types
<1> QED
  BY <1>1, <1>2, <1>3, <1>4, <1>6, <1>7, <1>8, <1>9, <1>10 DEF RunStep

\* readLoop, whichever session it belongs to.
LEMMA ReadTypes ==
    ASSUME Types, NEW s \in Session, ReadStep(s)
    PROVE  Types'
<1>1. CASE decode(s)
  <2>1. /\ toClient[s] \in Seq(SUBSET Iface) /\ toClient[s] # << >>
        /\ Len(toClient[s]) \in Nat /\ Len(toClient[s]) =< SocketCap
    BY <1>1, QueueElements DEF decode, Types, SocketTypes
  <2>2. /\ Head(toClient[s]) \in SUBSET Iface /\ Tail(toClient[s]) \in Seq(SUBSET Iface)
        /\ Len(Tail(toClient[s])) =< SocketCap
    BY <2>1, TailElements, KillswitchAssumption
  <2>3. SocketTypes'
    BY <1>1, <2>2, Zenon DEF decode, Types, SocketTypes
  <2> QED
    BY <1>1, <2>3, TypesKept, Zenon DEF decode, Types
<1>2. CASE setInterfaces(s)
  <2>1. SocketTypes'
    BY <1>2, Zenon DEF setInterfaces, socket, Types, SocketTypes
  <2>2. handling[s] \in SUBSET Iface
    BY DEF Types, SocketTypes
  <2>3. CallerTypes'
    <3>1. Known(handling[s]) \in [known : BOOLEAN, names : SUBSET Iface]
      BY <2>2 DEF Known
    <3>2. /\ interfaces' \in {interfaces, Known(handling[s])}
          /\ version' \in {version, version + 1} /\ wake' \in {wake, TRUE}
      BY <1>2, Zenon DEF setInterfaces, changedLocked
    <3>3. version' \in Nat
      BY <3>2 DEF Types, CallerTypes
    <3> QED
      BY <1>2, <3>1, <3>2, <3>3, Zenon DEF setInterfaces, Types, CallerTypes
  <2>4. version' \in {version, version + 1} /\ UNCHANGED runner
    BY <1>2 DEF setInterfaces, changedLocked
  <2>5. HistoryTypes'
    BY <1>2, Zenon DEF setInterfaces, Types, HistoryTypes
  <2> QED
    BY <1>2, <2>1, <2>3, <2>4, <2>5, RunnerTypesKept, TypesKept, Zenon DEF setInterfaces, Types
<1>3. CASE readerExit(s)
  <2>1. SocketTypes'
    BY <1>3, Zenon DEF readerExit, Types, SocketTypes
  <2> QED
    BY <1>3, <2>1, TypesKept, Zenon DEF readerExit, Types
<1> QED
  BY <1>1, <1>2, <1>3 DEF ReadStep

\* A message asks for something or carries a mutation.
LEMMA MessageType ==
    ASSUME NEW m \in Message
    PROVE  \/ m.type \in {"subscribe", "config_request"}
           \/ m \in Mutation /\ m.type = "mutation"
<1>1. CASE m \in [type : {"subscribe", "config_request"}]
  BY <1>1
<1>2. CASE m \in Mutation
  BY <1>2 DEF Mutation
<1> QED
  BY <1>1, <1>2, Zenon DEF Message

\* What the daemon may find at the head of a connection.
LEMMA DaemonReadsCases ==
    ASSUME Types, NEW s \in Session, DaemonReads(s)
    PROVE  LET m == Head(toDaemon[s])
           IN  /\ m \in Message
               /\ \/ /\ m.type = "subscribe"
                     /\ subscribed' = [subscribed EXCEPT ![s] = TRUE]
                     /\ UNCHANGED <<toClient, tmpRuleset, reached, rejected, budget>>
                  \/ /\ m.type = "config_request"
                     /\ conn[s] = "open" =>
                          /\ Len(toClient[s]) < SocketCap
                          /\ toClient' = [toClient EXCEPT ![s] = Append(@, ifaces)]
                     /\ conn[s] # "open" => UNCHANGED toClient
                     /\ UNCHANGED <<subscribed, tmpRuleset, reached, rejected, budget>>
                  \/ /\ m \in Mutation
                     /\ tmpRuleset' = [tmpRuleset EXCEPT ![s] = m.ruleset]
                     /\ s = session => reached' = m.edit /\ rejected' = FALSE
                     /\ s # session => UNCHANGED <<reached, rejected>>
                     /\ UNCHANGED <<toClient, subscribed, budget>>
                  \/ /\ m \in Mutation
                     /\ Spend("reject")
                     /\ rejected' = (rejected \/ s = session)
                     /\ UNCHANGED <<toClient, subscribed, tmpRuleset, reached>>
<1> DEFINE m == Head(toDaemon[s])
<1>1. m \in Message
  BY TailElements DEF DaemonReads, Types, SocketTypes
<1>2. m.type \in {"subscribe", "config_request"} \/ (m \in Mutation /\ m.type = "mutation")
  BY <1>1, MessageType, Zenon
<1>3. CASE m.type = "subscribe"
  BY <1>1, <1>3, Zenon DEF DaemonReads
<1>4. CASE m.type = "config_request"
  BY <1>1, <1>4, Zenon DEF DaemonReads
<1>5. CASE m \in Mutation /\ m.type = "mutation"
  BY <1>1, <1>5, Zenon DEF DaemonReads
<1> QED
  BY <1>2, <1>3, <1>4, <1>5, Zenon

\* A connection is not touched by what the daemon reads on another one.
LEMMA DaemonReadsOnly ==
    ASSUME Types, NEW s \in Session, DaemonReads(s), NEW t \in Session, t # s
    PROVE  /\ toDaemon'[t] = toDaemon[t] /\ toClient'[t] = toClient[t]
           /\ subscribed'[t] = subscribed[t] /\ tmpRuleset'[t] = tmpRuleset[t]
<1>1. toDaemon'[t] = toDaemon[t]
  BY DEF DaemonReads, Types, SocketTypes
<1>2. toClient' = toClient \/ toClient' = [toClient EXCEPT ![s] = Append(@, ifaces)]
  BY DaemonReadsCases, Zenon
<1>3. subscribed' = subscribed \/ subscribed' = [subscribed EXCEPT ![s] = TRUE]
  BY DaemonReadsCases, Zenon
<1>4. \/ tmpRuleset' = tmpRuleset
      \/ tmpRuleset' = [tmpRuleset EXCEPT ![s] = Head(toDaemon[s]).ruleset]
  BY DaemonReadsCases, Zenon
<1>5. toClient'[t] = toClient[t]
  BY <1>2 DEF Types, SocketTypes
<1>6. subscribed'[t] = subscribed[t] /\ tmpRuleset'[t] = tmpRuleset[t]
  BY <1>3, <1>4, Zenon DEF Types, DaemonTypes
<1> QED
  BY <1>1, <1>5, <1>6

\* The daemon.
LEMMA DaemonTypesStep ==
    ASSUME Types, EditInv, NEW s \in Session, DaemonStep(s)
    PROVE  Types'
<1>0. toDaemon[s] \in Seq(Message) /\ Len(toDaemon[s]) \in Nat /\ Len(toDaemon[s]) =< SocketCap
  BY QueueElements DEF Types, SocketTypes
<1>1. CASE DaemonReads(s)
  <2> DEFINE m == Head(toDaemon[s])
  <2>1. /\ Tail(toDaemon[s]) \in Seq(Message) /\ Len(Tail(toDaemon[s])) =< SocketCap
        /\ toDaemon[s] # << >> /\ m = toDaemon[s][1] /\ 1 \in 1..Len(toDaemon[s])
    BY <1>0, <1>1, TailElements, KillswitchAssumption DEF DaemonReads
  <2>2. /\ toClient' \in [Session -> Seq(SUBSET Iface)]
        /\ \A r \in Session : Len(toClient'[r]) =< SocketCap
    <3>1. ASSUME Len(toClient[s]) < SocketCap
          PROVE  /\ Append(toClient[s], ifaces) \in Seq(SUBSET Iface)
                 /\ Len(Append(toClient[s], ifaces)) =< SocketCap
      BY <3>1, AppendElements, KillswitchAssumption DEF Types, SocketTypes, DaemonTypes
    <3>2. \/ toClient' = toClient
          \/ /\ Len(toClient[s]) < SocketCap
             /\ toClient' = [toClient EXCEPT ![s] = Append(toClient[s], ifaces)]
      BY <1>1, DaemonReadsCases, Zenon
    <3> QED
      BY <3>1, <3>2, Zenon DEF Types, SocketTypes
  <2>3. SocketTypes'
    <3>1. /\ toDaemon' \in [Session -> Seq(Message)]
          /\ \A r \in Session : Len(toDaemon'[r]) =< SocketCap
      BY <1>1, <2>1 DEF DaemonReads, Types, SocketTypes
    <3> QED
      BY <1>1, <2>2, <3>1, Zenon DEF DaemonReads, readers, Types, SocketTypes
  <2>4. DaemonTypes'
    <3>1. \/ subscribed' = [subscribed EXCEPT ![s] = TRUE] /\ tmpRuleset' = tmpRuleset
          \/ subscribed' = subscribed /\ tmpRuleset' = tmpRuleset
          \/ /\ subscribed' = subscribed /\ m \in Mutation
             /\ tmpRuleset' = [tmpRuleset EXCEPT ![s] = m.ruleset]
      BY <1>1, DaemonReadsCases, Zenon
    <3> QED
      BY <1>1, <3>1, Zenon DEF DaemonReads, Types, DaemonTypes, Mutation
  <2>5. reached' \in 1..Len(edits)
    <3>1. \/ reached' = reached
          \/ s = session /\ m.type = "mutation" /\ reached' = m.edit
      BY <1>1, DaemonReadsCases, Zenon DEF Mutation
    <3>2. s = session /\ m.type = "mutation" => m.edit \in 1..Len(edits)
      BY <2>1 DEF EditInv, InOrder, From
    <3> QED
      BY <3>1, <3>2 DEF Types, HistoryTypes
  <2>6. rejected' \in BOOLEAN /\ (budget' = budget \/ Spend("reject"))
    BY <1>1, DaemonReadsCases, Zenon DEF Types, HistoryTypes
  <2>7. HistoryTypes'
    BY <1>1, <2>5, <2>6, SpendType DEF DaemonReads, Types, HistoryTypes
  <2> QED
    BY <1>1, <2>3, <2>4, <2>7, TypesKept, Zenon DEF DaemonReads, Types
<1>2. CASE DaemonForgets(s)
  <2>1. << >> \in Seq(Message) /\ Len(<< >>) =< SocketCap
    BY EmptyQueue, KillswitchAssumption
  <2>2. SocketTypes'
    BY <1>2, <2>1, Zenon DEF DaemonForgets, readers, Types, SocketTypes
  <2>3. DaemonTypes'
    BY <1>2 DEF DaemonForgets, Types, DaemonTypes
  <2> QED
    BY <1>2, <2>2, <2>3, TypesKept, Zenon DEF DaemonForgets, Types
<1> QED
  BY <1>1, <1>2 DEF DaemonStep

\* The daemon's host: interfaces change, the daemon stops and starts.
LEMMA EnvironmentTypes ==
    ASSUME Types, (\E n \in SUBSET Iface : IfaceChange(n)) \/ DaemonStops \/ DaemonStarts
    PROVE  Types'
<1>0. << >> \in Seq(Message) /\ Len(<< >>) =< SocketCap
  BY EmptyQueue, KillswitchAssumption
<1>1. ASSUME NEW n \in SUBSET Iface, IfaceChange(n) PROVE Types'
  <2>1. ASSUME NEW s \in Session
        PROVE  toClient'[s] \in Seq(SUBSET Iface) /\ Len(toClient'[s]) =< SocketCap
    <3>1. toClient[s] \in Seq(SUBSET Iface) /\ Len(toClient[s]) =< SocketCap
      BY DEF Types, SocketTypes
    <3>2. CASE subscribed[s] /\ conn[s] = "open"
      <4>1. Len(toClient[s]) < SocketCap /\ toClient'[s] = Append(toClient[s], n)
        BY <1>1, <3>2 DEF IfaceChange
      <4> QED
        BY <3>1, <4>1, AppendElements, KillswitchAssumption
    <3>3. CASE ~(subscribed[s] /\ conn[s] = "open")
      BY <1>1, <3>1, <3>3 DEF IfaceChange
    <3> QED
      BY <3>2, <3>3
  <2>2. toClient' \in [Session -> Seq(SUBSET Iface)]
    BY <1>1, <2>1 DEF IfaceChange
  <2>3. SocketTypes'
    BY <1>1, <2>1, <2>2, Zenon DEF IfaceChange, readers, Types, SocketTypes
  <2>4. DaemonTypes'
    BY <1>1, Zenon DEF IfaceChange, Types, DaemonTypes
  <2>5. HistoryTypes'
    BY <1>1, SpendType, Zenon DEF IfaceChange, history, Types, HistoryTypes
  <2> QED
    BY <1>1, <2>3, <2>4, <2>5, TypesKept, Zenon DEF IfaceChange, Types
<1>2. CASE DaemonStops
  <2>1. conn' \in [Session -> {"none", "open", "broken", "closed"}]
    BY <1>2 DEF DaemonStops, Types, SocketTypes
  <2>2. /\ toDaemon' \in [Session -> Seq(Message)]
        /\ \A s \in Session : Len(toDaemon'[s]) =< SocketCap
    BY <1>0, <1>2, Zenon DEF DaemonStops
  <2>3. SocketTypes'
    BY <1>2, <2>1, <2>2, Zenon DEF DaemonStops, readers, Types, SocketTypes
  <2>4. DaemonTypes'
    BY <1>2, Zenon DEF DaemonStops, Types, DaemonTypes
  <2>5. HistoryTypes'
    BY <1>2, SpendType, Zenon DEF DaemonStops, history, Types, HistoryTypes
  <2> QED
    BY <1>2, <2>3, <2>4, <2>5, TypesKept, Zenon DEF DaemonStops, Types
<1>3. CASE DaemonStarts
  <2>1. DaemonTypes'
    BY <1>3, Zenon DEF DaemonStarts, Types, DaemonTypes
  <2> QED
    BY <1>3, <2>1, TypesKept, Zenon DEF DaemonStarts, Types
<1> QED
  BY <1>1, <1>2, <1>3

\* Every step keeps the types.
LEMMA TypesNext ==
    ASSUME Types, SessionInv, EditInv, [Next]_vars
    PROVE  Types'
<1>1. CASE \/ \E p \in Policy : CreateTMPRuleset(p) \/ \E i \in Id : UpdateTMPRuleset(i, p)
           \/ \E i \in Id : DeleteTMPRuleset(i)
  BY <1>1, EditsOf, EditTypes
<1>2. CASE Close
  <2>1. CallerTypes'
    BY <1>2, Zenon DEF Close, Types, CallerTypes
  <2>2. version' \in {version, version + 1} /\ UNCHANGED runner
    BY <1>2 DEF Close
  <2> QED
    BY <1>2, <2>1, <2>2, RunnerTypesKept, TypesKept, Zenon DEF Close, Types
<1>3. CASE RunStep
  BY <1>3, RunTypes
<1>4. CASE \E s \in Session : ReadStep(s) \/ DaemonStep(s)
  BY <1>4, ReadTypes, DaemonTypesStep
<1>5. CASE (\E n \in SUBSET Iface : IfaceChange(n)) \/ DaemonStops \/ DaemonStarts
  BY <1>5, EnvironmentTypes
<1>6. CASE UNCHANGED vars
  BY <1>6, TypesKept, Zenon DEF vars, Types
<1> QED
  BY <1>1, <1>2, <1>3, <1>4, <1>5, <1>6, Zenon DEF Next

----------------------------------------------------------------------------
(* Sessions. *)

\* The state of the sessions.
sessions == <<rpc, session, conn, reader, toDaemon, toClient, up, subscribed, tmpRuleset>>

\* serveConn returns, from wherever it is.
LEMMA EndSessionInv ==
    ASSUME Types, SessionInv, rpc \in Serving, EndSession,
           UNCHANGED <<session, readers, toClient, daemon>>
    PROVE  SessionInv'
<1>1. /\ session \in Session /\ rpc' = "check" /\ session' = session
      /\ conn' = [conn EXCEPT ![session] = "closed"]
      /\ UNCHANGED <<reader, toDaemon, toClient, up, subscribed, tmpRuleset>>
  BY DEF SessionInv, EndSession, Goto, readers, daemon
<1>2. conn \in [Session -> {"none", "open", "broken", "closed"}] /\ session \in Int
  BY <1>1, KillswitchAssumption DEF Types, SocketTypes, Session
<1>3. \A s \in Session : s # session => s < session \/ s > session
  BY <1>2 DEF Session
<1>4. \A s \in Session : conn'[s] \in {"none", "closed"}
  BY <1>1, <1>2, <1>3 DEF SessionInv
<1> QED
  BY <1>1, <1>2, <1>3, <1>4 DEF SessionInv, Untouched, Serving, Started

\* send appends to the socket, or the session ends.
Sent(p) ==
    /\ conn[session] = "open" /\ conn' = conn /\ rpc' = p
    /\ \E q : toDaemon' = [toDaemon EXCEPT ![session] = q]

\* The three uses of send.
LEMMA SendCases ==
    /\ startSubscribe => Sent("request") \/ EndSession
    /\ startRequest => Sent("snapshot") \/ EndSession
    /\ apply => Sent("select") \/ EndSession
BY Zenon DEF startSubscribe, startRequest, apply, Send, Sent, Goto

LEMMA SendInv ==
    ASSUME Types, SessionInv, rpc \in Started, NEW p \in Started, Sent(p) \/ EndSession,
           UNCHANGED <<session, readers, toClient, daemon>>
    PROVE  SessionInv'
<1>1. session \in Session /\ session \in Int /\ rpc \in Serving
  BY KillswitchAssumption DEF SessionInv, Session, Started
<1>2. CASE Sent(p)
  <2>1. /\ rpc' = p /\ conn' = conn /\ session' = session
        /\ UNCHANGED <<reader, toClient, up, subscribed, tmpRuleset>>
    BY <1>2 DEF Sent, readers, daemon
  <2>2. \A s \in Session : s > session => toDaemon'[s] = toDaemon[s]
    BY <1>1, <1>2 DEF Types, SocketTypes, Sent
  <2> QED
    BY <1>1, <2>1, <2>2 DEF SessionInv, Untouched, Serving, Started
<1>3. CASE EndSession
  BY <1>1, <1>3, EndSessionInv
<1> QED
  BY <1>2, <1>3

\* run and serveConn.
LEMMA RunSession ==
    ASSUME Types, SessionInv, RunStep
    PROVE  SessionInv'
<1>0. /\ session \in 0..MaxSessions /\ MaxSessions \in Nat
      /\ conn \in [Session -> {"none", "open", "broken", "closed"}]
      /\ reader \in [Session -> {"none", "read", "handle", "exit"}]
  BY KillswitchAssumption DEF Types, RunnerTypes, SocketTypes
<1>1. CASE runCheck
  <2>1. rpc' \notin Serving /\ rpc \notin Serving /\ UNCHANGED <<session, conn, reader, toDaemon, toClient, up, subscribed, tmpRuleset>>
    BY <1>1 DEF runCheck, Goto, Serving, readers, socket, daemon
  <2> QED
    BY <2>1 DEF SessionInv, Untouched, Started, Serving
<1>2. CASE runDial
  <2>1. UNCHANGED <<reader, toDaemon, toClient, up, subscribed, tmpRuleset>> /\ rpc \notin Serving
    BY <1>2 DEF runDial, readers, daemon, Serving
  <2>2. CASE up
    <3>1. /\ session' = session + 1 /\ session' \in Session /\ rpc' = "reset"
          /\ conn' = [conn EXCEPT ![session'] = "open"]
      BY <1>0, <1>2, <2>2 DEF runDial, Goto, Session
    <3>2. \A s \in Session : (s < session' => s < session \/ s = session)
                             /\ (s > session' => s > session)
      BY <1>0, <3>1 DEF Session
    <3>3. session' > session
      BY <1>0, <3>1
    <3>4. \A s \in Session : s < session' => conn'[s] = "closed"
      <4> SUFFICES ASSUME NEW s \in Session, s < session' PROVE conn'[s] = "closed"
        OBVIOUS
      <4>1. s # session' /\ conn'[s] = conn[s]
        BY <1>0, <3>1 DEF Session
      <4>2. CASE s < session
        BY <4>1, <4>2 DEF SessionInv
      <4>3. CASE s = session
        <5>1. conn[s] \in {"none", "closed"}
          BY <2>1 DEF SessionInv
        <5> QED
          BY <4>1, <4>3, <5>1 DEF SessionInv
      <4> QED
        BY <3>2, <4>2, <4>3
    <3> QED
      BY <1>0, <2>1, <2>2, <3>1, <3>2, <3>3, <3>4 DEF SessionInv, Untouched, Serving, Started
  <2>3. CASE ~up
    BY <1>2, <2>1, <2>3 DEF runDial, Goto, SessionInv, Untouched, Serving, Started
  <2> QED
    BY <2>2, <2>3
<1>3. CASE runSleep
  <2>1. rpc' \notin Serving /\ rpc \notin Serving /\ UNCHANGED <<session, conn, reader, toDaemon, toClient, up, subscribed, tmpRuleset>>
    BY <1>3 DEF runSleep, Goto, Serving, readers, socket, daemon
  <2> QED
    BY <2>1 DEF SessionInv, Untouched, Started, Serving
<1>4. CASE resetInterfaces
  <2>1. /\ rpc = "reset" /\ rpc' = "subscribe"
        /\ reader' = [reader EXCEPT ![session] = "read"]
        /\ UNCHANGED <<session, conn, toDaemon, toClient, up, subscribed, tmpRuleset>>
    BY <1>4 DEF resetInterfaces, Goto, socket, daemon
  <2>2. session \in Session
    BY <2>1 DEF SessionInv, Serving
  <2>3. \A s \in Session : s > session => reader'[s] = reader[s]
    BY <1>0, <2>1
  <2>4. reader'[session] = "read"
    BY <1>0, <2>1, <2>2
  <2> QED
    BY <2>1, <2>2, <2>3, <2>4 DEF SessionInv, Untouched, Serving, Started
<1>5. CASE startSubscribe
  BY <1>5, SendInv, SendCases DEF startSubscribe, Started, Serving
<1>6. CASE startRequest
  BY <1>6, SendInv, SendCases DEF startRequest, Started, Serving
<1>7. CASE apply
  BY <1>7, SendInv, SendCases DEF apply, Started, Serving
<1>8. CASE snapshot
  <2>1. CASE closed
    BY <1>8, <2>1, EndSessionInv DEF snapshot, Serving
  <2>2. CASE ~closed
    <3>1. rpc \in Started /\ rpc' \in Started
          /\ UNCHANGED <<session, conn, reader, toDaemon, toClient, up, subscribed, tmpRuleset>>
      BY <1>8, <2>2 DEF snapshot, Goto, Serving, Started, readers, daemon
    <3> QED
      BY <3>1 DEF SessionInv, Untouched, Serving, Started
  <2> QED
    BY <2>1, <2>2
<1>9. CASE serveSelect
  <2>1. CASE EndSession
    BY <1>9, <2>1, EndSessionInv DEF serveSelect, Serving
  <2>2. CASE ~EndSession
    <3>1. rpc \in Started /\ rpc' \in Started
          /\ UNCHANGED <<session, conn, reader, toDaemon, toClient, up, subscribed, tmpRuleset>>
      BY <1>9, <2>2 DEF serveSelect, Goto, Serving, Started, readers, daemon
    <3> QED
      BY <3>1 DEF SessionInv, Untouched, Serving, Started
  <2> QED
    BY <2>1, <2>2
<1> QED
  BY <1>1, <1>2, <1>3, <1>4, <1>5, <1>6, <1>7, <1>8, <1>9 DEF RunStep

\* readLoop, the daemon and the callers.
LEMMA OthersSession ==
    ASSUME Types, SessionInv,
           \/ \E s \in Session : ReadStep(s) \/ DaemonStep(s)
           \/ \E n \in SUBSET Iface : IfaceChange(n)
           \/ DaemonStops \/ DaemonStarts
    PROVE  SessionInv'
<1>0. /\ session \in 0..MaxSessions /\ MaxSessions \in Nat /\ rpc' = rpc /\ session' = session
      /\ conn \in [Session -> {"none", "open", "broken", "closed"}]
      /\ reader \in [Session -> {"none", "read", "handle", "exit"}]
  <2>1. UNCHANGED runner
    BY Zenon DEF ReadStep, decode, setInterfaces, readerExit, DaemonStep, DaemonReads,
       DaemonForgets, IfaceChange, DaemonStops, DaemonStarts
  <2> QED
    BY <2>1, KillswitchAssumption DEF Types, RunnerTypes, SocketTypes, runner
<1>1. ASSUME NEW s \in Session, decode(s)
      PROVE  SessionInv'
  <2>1. /\ UNCHANGED <<conn, toDaemon, up, subscribed, tmpRuleset>>
        /\ reader[s] = "read"
        /\ reader' = [reader EXCEPT ![s] = "handle"]
        /\ toClient' = [toClient EXCEPT ![s] = Tail(@)]
    BY <1>1 DEF decode, daemon
  <2>2. ~(s > session) /\ (rpc = "reset" => s # session)
    BY <2>1 DEF SessionInv, Untouched
  <2>3. /\ \A t \in Session : t # s => reader'[t] = reader[t] /\ toClient'[t] = toClient[t]
        /\ reader'[s] = "handle"
    BY <1>0, <2>1 DEF Types, SocketTypes
  <2> QED
    BY <1>0, <2>1, <2>2, <2>3 DEF SessionInv, Untouched, Serving, Started
<1>2. ASSUME NEW s \in Session, setInterfaces(s)
      PROVE  SessionInv'
  <2>1. /\ UNCHANGED <<conn, toDaemon, toClient, up, subscribed, tmpRuleset>>
        /\ reader[s] = "handle"
        /\ reader' = [reader EXCEPT ![s] = "read"]
    BY <1>2 DEF setInterfaces, socket, daemon
  <2>2. ~(s > session) /\ (rpc = "reset" => s # session)
    BY <2>1 DEF SessionInv, Untouched
  <2>3. (\A t \in Session : t # s => reader'[t] = reader[t]) /\ reader'[s] = "read"
    BY <1>0, <2>1
  <2> QED
    BY <1>0, <2>1, <2>2, <2>3 DEF SessionInv, Untouched, Serving, Started
<1>3. ASSUME NEW s \in Session, readerExit(s)
      PROVE  SessionInv'
  <2>1. /\ UNCHANGED <<toDaemon, toClient, up, subscribed, tmpRuleset>>
        /\ reader[s] = "read" /\ conn[s] \in {"closed", "broken"}
        /\ reader' = [reader EXCEPT ![s] = "exit"]
        /\ conn' = [conn EXCEPT ![s] = "closed"]
    BY <1>3, Zenon DEF readerExit, daemon
  <2>2. ~(s > session) /\ (rpc = "reset" => s # session)
    BY <2>1, Zenon DEF SessionInv, Untouched
  <2>3. /\ \A t \in Session : t # s => reader'[t] = reader[t] /\ conn'[t] = conn[t]
        /\ reader'[s] = "exit" /\ conn'[s] = "closed"
    BY <1>0, <2>1
  <2> QED
    BY <1>0, <2>1, <2>2, <2>3 DEF SessionInv, Untouched, Serving, Started
<1>4. ASSUME NEW s \in Session, DaemonReads(s)
      PROVE  SessionInv'
  <2>1. /\ UNCHANGED <<conn, reader, up>> /\ toDaemon[s] # << >>
        /\ toDaemon' = [toDaemon EXCEPT ![s] = Tail(@)]
    BY <1>4, Zenon DEF DaemonReads, readers
  <2>2. ~(s > session) /\ (rpc = "reset" => s # session)
    BY <2>1, Zenon DEF SessionInv, Untouched
  <2>3. \A t \in Session : t # s => /\ toClient'[t] = toClient[t] /\ subscribed'[t] = subscribed[t]
                                    /\ tmpRuleset'[t] = tmpRuleset[t] /\ toDaemon'[t] = toDaemon[t]
    BY <1>4, DaemonReadsOnly, Zenon
  <2> QED
    BY <1>0, <2>1, <2>2, <2>3 DEF SessionInv, Untouched, Serving, Started
<1>5. ASSUME NEW s \in Session, DaemonForgets(s)
      PROVE  SessionInv'
  <2>1. /\ UNCHANGED <<conn, reader, toClient, up>>
        /\ subscribed' = [subscribed EXCEPT ![s] = FALSE]
        /\ tmpRuleset' = [tmpRuleset EXCEPT ![s] = {}]
        /\ toDaemon' = [toDaemon EXCEPT ![s] = << >>]
    BY <1>5 DEF DaemonForgets, readers
  <2>2. \A t \in Session :
          /\ subscribed'[t] = subscribed[t] \/ subscribed'[t] = FALSE
          /\ tmpRuleset'[t] \in {tmpRuleset[t], {}} /\ toDaemon'[t] \in {toDaemon[t], << >>}
    BY <2>1 DEF Types, SocketTypes, DaemonTypes
  <2> QED
    BY <1>0, <2>1, <2>2 DEF SessionInv, Untouched, Serving, Started
<1>6. ASSUME NEW n \in SUBSET Iface, IfaceChange(n)
      PROVE  SessionInv'
  <2>1. /\ UNCHANGED <<conn, reader, toDaemon, up, subscribed, tmpRuleset>>
        /\ toClient' = [s \in Session |->
                          IF subscribed[s] /\ conn[s] = "open" THEN Append(toClient[s], n)
                          ELSE toClient[s]]
    BY <1>6, Zenon DEF IfaceChange, readers
  <2>2. \A t \in Session : conn[t] # "open" \/ ~subscribed[t] => toClient'[t] = toClient[t]
    BY <2>1
  <2> QED
    BY <1>0, <2>1, <2>2, Zenon DEF SessionInv, Untouched, Serving, Started
<1>7. CASE DaemonStops
  <2>1. /\ UNCHANGED <<reader, toClient>> /\ toDaemon' = [s \in Session |-> << >>]
        /\ conn' = [s \in Session |-> IF conn[s] = "open" THEN "broken" ELSE conn[s]]
        /\ subscribed' = [s \in Session |-> FALSE] /\ tmpRuleset' = [s \in Session |-> {}]
    BY <1>7 DEF DaemonStops, readers
  <2>2. \A s \in Session : conn'[s] # "open" /\ (conn[s] # "open" => conn'[s] = conn[s])
                           /\ (conn[s] = "open" => conn'[s] = "broken")
    BY <2>1
  <2>3. \A s \in Session : Untouched(s) => Untouched(s)'
    BY <2>1 DEF Untouched
  <2>4. rpc \in Serving => session \in Session
    BY DEF SessionInv
  <2> QED
    BY <1>0, <2>2, <2>3, <2>4 DEF SessionInv, Serving, Started
<1>8. CASE DaemonStarts
  <2>1. up' /\ UNCHANGED <<conn, reader, toDaemon, toClient, subscribed, tmpRuleset>>
    BY <1>8 DEF DaemonStarts, readers, socket
  <2> QED
    BY <1>0, <2>1, Zenon DEF SessionInv, Untouched, Serving, Started
<1> QED
  BY <1>1, <1>2, <1>3, <1>4, <1>5, <1>6, <1>7, <1>8 DEF ReadStep, DaemonStep

\* The bookkeeping of sessions survives every step.
LEMMA SessionNext ==
    ASSUME Types, SessionInv, [Next]_vars
    PROVE  SessionInv'
<1>1. CASE \/ \E p \in Policy : CreateTMPRuleset(p) \/ \E i \in Id : UpdateTMPRuleset(i, p)
           \/ \E i \in Id : DeleteTMPRuleset(i)
           \/ Close
           \/ UNCHANGED vars
  <2>1. UNCHANGED sessions
    BY <1>1, Zenon DEF CreateTMPRuleset, UpdateTMPRuleset, DeleteTMPRuleset, Edit, Close, vars,
       sessions, runner, readers, socket, daemon
  <2> QED
    BY <2>1, Zenon DEF sessions, SessionInv, Untouched
<1> QED
  BY <1>1, RunSession, OthersSession DEF Next

----------------------------------------------------------------------------
(* Edits. *)

\* An edit leaves what older mutations come from as it was.
LEMMA EditKeepsEdits ==
    ASSUME Types, EditInv, NEW rs \in RulesetsType, Edit(rs)
    PROVE  EditInv'
<1>1. /\ rulesets' = rs /\ edits' = Append(edits, Wanted(rs))
      /\ UNCHANGED <<rpc, session, sending, toDaemon, reached>>
  BY DEF Edit, runner, socket
<1>2. /\ Len(edits) \in Nat /\ Len(edits') = Len(edits) + 1 /\ edits'[Len(edits')] = Wanted(rs)
      /\ \A n \in 1..Len(edits) : edits'[n] = edits[n]
  BY <1>1, WantedType, AppendElements DEF Types, HistoryTypes
<1>3. ASSUME NEW r, NEW e, From(r, e) PROVE From(r, e)'
  BY <1>2, <1>3 DEF From
<1>4. session \in Session => InOrder(toDaemon[session])'
  BY <1>1, <1>3, Zenon DEF EditInv, InOrder
<1> QED
  BY <1>1, <1>2, <1>3, <1>4, Zenon DEF EditInv

\* What the edits depend on, the state of run apart.
edited == <<edits, rulesets, session, reached>>

\* Nothing new is sent, and nothing is about to be.
LEMMA NoSendKeepsEdits ==
    ASSUME EditInv, UNCHANGED edited,
           session \in Session => toDaemon'[session] \in {toDaemon[session], << >>},
           rpc' # "apply" \/ (UNCHANGED <<rpc, sending>>)
    PROVE  EditInv'
<1>1. session \in Session => InOrder(toDaemon[session])'
  <2>1. CASE toDaemon'[session] = << >>
    BY <2>1 DEF InOrder, edited
  <2>2. CASE toDaemon'[session] = toDaemon[session]
    <3>1. \A x, e : From(x, e) <=> From(x, e)'
      BY Zenon DEF From, edited
    <3>2. \A q : InOrder(q) <=> InOrder(q)'
      BY <3>1, Zenon DEF InOrder, edited
    <3> QED
      BY <2>2, <3>2, Zenon DEF EditInv, edited
  <2> QED
    BY <2>1, <2>2, Zenon DEF edited
<1>2. CASE toDaemon'[session] = << >> /\ session \in Session
  BY <1>1, <1>2 DEF EditInv, From, edited
<1>3. CASE toDaemon'[session] = toDaemon[session] \/ session \notin Session
  BY <1>1, <1>3, Zenon DEF EditInv, From, edited
<1> QED
  BY <1>2, <1>3

\* A message that is no older than the others joins the queue.
LEMMA SendKeepsEdits ==
    ASSUME Types, EditInv, session \in Session, NEW m \in Message, rpc' # "apply",
           UNCHANGED edited, toDaemon' = [toDaemon EXCEPT ![session] = Append(@, m)],
           m.type = "mutation" =>
             /\ From(m.ruleset, m.edit) /\ reached =< m.edit
             /\ \A n \in 1..Len(toDaemon[session]) :
                  toDaemon[session][n].type = "mutation" => toDaemon[session][n].edit =< m.edit
    PROVE  EditInv'
<1>0. PICK q, r : q = toDaemon[session] /\ r = toDaemon'[session]
  OBVIOUS
<1>1. q \in Seq(Message) /\ r = Append(q, m)
  BY <1>0 DEF Types, SocketTypes
<1>2. /\ Len(q) \in Nat /\ Len(r) = Len(q) + 1 /\ r[Len(q) + 1] = m
      /\ \A n \in 1..Len(q) : r[n] = q[n]
  BY <1>1, AppendElements
<1>3. \A e, x : From(x, e) <=> From(x, e)'
  BY Zenon DEF From, edited
<1>4. InOrder(q) /\ reached' = reached /\ session' = session
  BY <1>0, Zenon DEF EditInv, edited
<1>5. ASSUME NEW n \in 1..Len(r), r[n].type = "mutation"
      PROVE  /\ From(r[n].ruleset, r[n].edit)' /\ reached' =< r[n].edit
             /\ \A k \in n..Len(r) : r[k].type = "mutation" => r[n].edit =< r[k].edit
  <2>1. CASE n = Len(q) + 1
    <3>1. \A k \in n..Len(r) : k = n
      BY <1>2, <2>1
    <3>2. m.edit =< m.edit
      BY <1>2, <1>5, <2>1 DEF From
    <3> QED
      BY <1>2, <1>3, <1>4, <1>5, <2>1, <3>1, <3>2, Zenon
  <2>2. CASE n \in 1..Len(q)
    <3>1. q[n].edit =< m.edit \/ m.type # "mutation"
      BY <1>0, <1>2, <1>5, <2>2
    <3>2. \A k \in n..Len(r) : k = Len(q) + 1 \/ (k \in n..Len(q) /\ k \in 1..Len(q))
      BY <1>2, <2>2
    <3>3. /\ r[n] = q[n] /\ From(q[n].ruleset, q[n].edit) /\ reached =< q[n].edit
          /\ \A k \in n..Len(q) : q[k].type = "mutation" => q[n].edit =< q[k].edit
      BY <1>2, <1>4, <1>5, <2>2, Zenon DEF InOrder
    <3> QED
      BY <1>2, <1>3, <1>4, <3>1, <3>2, <3>3, Zenon
  <2> QED
    BY <1>2, <2>1, <2>2
<1>6. InOrder(r)'
  BY <1>5, Zenon DEF InOrder
<1> QED
  BY <1>0, <1>4, <1>6, Zenon DEF EditInv, edited

\* The daemon takes the oldest message of the session.
LEMMA ReadKeepsEdits ==
    ASSUME Types, EditInv, session \in Session, toDaemon[session] # << >>,
           UNCHANGED <<edits, rulesets, session, rpc, sending>>,
           toDaemon' = [toDaemon EXCEPT ![session] = Tail(@)],
           \/ reached' = reached
           \/ /\ Head(toDaemon[session]).type = "mutation"
              /\ reached' = Head(toDaemon[session]).edit
    PROVE  EditInv'
<1>0. PICK q, r : q = toDaemon[session] /\ r = toDaemon'[session]
  OBVIOUS
<1>1. q \in Seq(Message) /\ r = Tail(q) /\ q # << >>
  BY <1>0 DEF Types, SocketTypes
<1>2. /\ Len(q) \in Nat \ {0} /\ Head(q) = q[1] /\ Len(r) = Len(q) - 1
      /\ \A n \in 1..Len(r) : r[n] = q[n + 1]
  BY <1>1, TailElements
<1>3. \A x, e : From(x, e) <=> From(x, e)'
  BY Zenon DEF From
<1>4. InOrder(q)
  BY <1>0, Zenon DEF EditInv
<1>5. ASSUME NEW n \in 2..Len(q), q[n].type = "mutation"
      PROVE  reached' =< q[n].edit
  <2>1. n \in 1..Len(q) /\ 1 \in 1..Len(q)
    BY <1>2
  <2> QED
    BY <1>0, <1>2, <1>4, <1>5, <2>1 DEF InOrder
<1>6. ASSUME NEW n \in 1..Len(r), r[n].type = "mutation"
      PROVE  /\ From(r[n].ruleset, r[n].edit)' /\ reached' =< r[n].edit
             /\ \A k \in n..Len(r) : r[k].type = "mutation" => r[n].edit =< r[k].edit
  <2>1. /\ n + 1 \in 2..Len(q) /\ n + 1 \in 1..Len(q) /\ r[n] = q[n + 1]
        /\ \A k \in n..Len(r) : k + 1 \in (n + 1)..Len(q) /\ r[k] = q[k + 1]
    BY <1>2
  <2>2. /\ From(q[n + 1].ruleset, q[n + 1].edit)
        /\ \A k \in (n + 1)..Len(q) : q[k].type = "mutation" => q[n + 1].edit =< q[k].edit
    BY <1>4, <1>6, <2>1, Zenon DEF InOrder
  <2> QED
    BY <1>3, <1>5, <1>6, <2>1, <2>2, Zenon
<1>7. InOrder(r)'
  BY <1>6, Zenon DEF InOrder
<1>8. ASSUME rpc = "apply"
      PROVE  /\ From(sending.ruleset, sending.edit) /\ reached' =< sending.edit
             /\ \A n \in 1..Len(r) : r[n].type = "mutation" => r[n].edit =< sending.edit
  <2>1. /\ From(sending.ruleset, sending.edit) /\ reached =< sending.edit
        /\ \A n \in 1..Len(q) : q[n].type = "mutation" => q[n].edit =< sending.edit
    BY <1>0, <1>8, Zenon DEF EditInv
  <2>2. 1 \in 1..Len(q) /\ \A n \in 1..Len(r) : n + 1 \in 1..Len(q) /\ r[n] = q[n + 1]
    BY <1>2
  <2> QED
    BY <1>0, <1>2, <2>1, <2>2, ZenonT(30)
<1> QED
  BY <1>0, <1>3, <1>7, <1>8, Zenon DEF EditInv

\* snapshot takes the merge of the rulesets after the last edit.
LEMMA SnapshotKeepsEdits ==
    ASSUME Types, SessionInv, EditInv, UNCHANGED edited, UNCHANGED toDaemon,
           sending' = [version |-> version, ruleset |-> Current, edit |-> Len(edits)]
    PROVE  EditInv'
<1>1. \A x, e : From(x, e) <=> From(x, e)'
  BY Zenon DEF From, edited
<1>2. \A q : InOrder(q) <=> InOrder(q)'
  BY <1>1, Zenon DEF InOrder, edited
<1>3. /\ Len(edits) \in 1..Len(edits) /\ reached =< Len(edits)
      /\ \A e \in 1..Len(edits) : e =< Len(edits)
  BY QueueElements DEF Types, HistoryTypes
<1>4. \A r \in Current : r.policy = edits[Len(edits)]
  <2>1. rulesets \in RulesetsType /\ interfaces.names \in SUBSET Iface
    BY DEF Types, CallerTypes, RulesetsType
  <2> QED
    BY <2>1, MergeType, Zenon DEF Current, EditInv
<1>5. From(sending'.ruleset, sending'.edit) /\ sending'.edit = Len(edits)
  BY <1>3, <1>4, Zenon DEF From
<1>6. session \in Session =>
        \A n \in 1..Len(toDaemon[session]) :
          toDaemon[session][n].type = "mutation" => toDaemon[session][n].edit =< Len(edits)
  BY <1>3, Zenon DEF EditInv, InOrder, From
<1> QED
  BY <1>1, <1>2, <1>3, <1>5, <1>6, Zenon DEF EditInv, edited

\* run and serveConn.
LEMMA RunEdits ==
    ASSUME Types, SessionInv, EditInv, RunStep
    PROVE  EditInv'
<1>0. UNCHANGED <<edits, rulesets, reached>>
  BY Zenon DEF RunStep, runCheck, runDial, runSleep, resetInterfaces, startSubscribe,
     startRequest, snapshot, apply, serveSelect, callers, history
<1>1. CASE runCheck \/ runSleep \/ resetInterfaces \/ serveSelect
  <2>1. UNCHANGED <<toDaemon, session>> /\ rpc' # "apply"
    BY <1>1, Zenon DEF runCheck, runSleep, resetInterfaces, serveSelect, EndSession, Goto, socket
  <2> QED
    BY <1>0, <2>1, NoSendKeepsEdits DEF edited
<1>2. CASE runDial
  <2>1. UNCHANGED toDaemon /\ rpc' # "apply"
    BY <1>2, Zenon DEF runDial, Goto
  <2>2. CASE up
    <3>1. session' \in Session /\ session' > session
      BY <1>2, <2>2, KillswitchAssumption DEF runDial, Types, RunnerTypes, Session
    <3>2. toDaemon'[session'] = << >>
      BY <2>1, <3>1 DEF SessionInv, Untouched
    <3>3. InOrder(<< >>)'
      BY DEF InOrder
    <3> QED
      BY <1>0, <2>1, <3>2, <3>3, Zenon DEF EditInv
  <2>3. CASE ~up
    <3>1. UNCHANGED session
      BY <1>2, <2>3, Zenon DEF runDial
    <3> QED
      BY <1>0, <2>1, <3>1, NoSendKeepsEdits DEF edited
  <2> QED
    BY <2>2, <2>3
<1>3. CASE snapshot
  <2>1. UNCHANGED <<toDaemon, session>>
    BY <1>3, Zenon DEF snapshot, EndSession
  <2>2. \/ rpc' # "apply"
        \/ sending' = [version |-> version, ruleset |-> Current, edit |-> Len(edits)]
    BY <1>3, Zenon DEF snapshot, EndSession, Goto, Current
  <2>3. CASE rpc' # "apply"
    BY <1>0, <2>1, <2>3, NoSendKeepsEdits DEF edited
  <2> QED
    BY <1>0, <2>1, <2>2, <2>3, SnapshotKeepsEdits DEF edited
<1>4. CASE startSubscribe \/ startRequest \/ apply
  <2>1. /\ session' = session /\ rpc' # "apply" /\ rpc \in Serving
    BY <1>4, SendCases, Zenon DEF startSubscribe, startRequest, apply, Sent, EndSession, Goto, Serving
  <2>2. session \in Session
    BY <2>1 DEF SessionInv
  <2>3. CASE EndSession
    BY <1>0, <2>1, <2>3, NoSendKeepsEdits DEF EndSession, edited
  <2>4. CASE ~EndSession /\ startSubscribe
    <3>1. [type |-> "subscribe"] \in Message /\ [type |-> "subscribe"].type # "mutation"
      BY DEF Message
    <3>2. toDaemon' = [toDaemon EXCEPT ![session] = Append(@, [type |-> "subscribe"])]
      BY <2>4 DEF startSubscribe, Send
    <3> QED
      BY <1>0, <2>1, <2>2, <3>1, <3>2, SendKeepsEdits, Zenon DEF edited
  <2>5. CASE ~EndSession /\ startRequest
    <3>1. [type |-> "config_request"] \in Message /\ [type |-> "config_request"].type # "mutation"
      BY DEF Message
    <3>2. toDaemon' = [toDaemon EXCEPT ![session] = Append(@, [type |-> "config_request"])]
      BY <2>5 DEF startRequest, Send
    <3> QED
      BY <1>0, <2>1, <2>2, <3>1, <3>2, SendKeepsEdits, Zenon DEF edited
  <2>6. CASE ~EndSession /\ apply
    <3>0. PICK m : m = [type |-> "mutation", ruleset |-> sending.ruleset, edit |-> sending.edit]
      BY Zenon
    <3>1. m \in Mutation /\ m.ruleset = sending.ruleset /\ m.edit = sending.edit
      BY <3>0 DEF Mutation, Types, RunnerTypes
    <3>2. m \in Message
      BY <3>1, Zenon DEF Message
    <3>3. toDaemon' = [toDaemon EXCEPT ![session] = Append(@, m)] /\ rpc = "apply"
      BY <2>6, <3>0 DEF apply, Send
    <3>4. /\ From(m.ruleset, m.edit) /\ reached =< m.edit
          /\ \A n \in 1..Len(toDaemon[session]) :
               toDaemon[session][n].type = "mutation" => toDaemon[session][n].edit =< m.edit
      BY <2>2, <3>1, <3>3 DEF EditInv
    <3> QED
      BY <1>0, <2>1, <2>2, <3>2, <3>3, <3>4, SendKeepsEdits, Zenon DEF edited
  <2> QED
    BY <1>4, <2>3, <2>4, <2>5, <2>6
<1> QED
  BY <1>1, <1>2, <1>3, <1>4 DEF RunStep

\* Every mutation on its way comes from an edit, and they are in order.
LEMMA EditNext ==
    ASSUME Types, SessionInv, EditInv, [Next]_vars
    PROVE  EditInv'
<1>1. CASE \/ \E p \in Policy : CreateTMPRuleset(p) \/ \E i \in Id : UpdateTMPRuleset(i, p)
           \/ \E i \in Id : DeleteTMPRuleset(i)
  BY <1>1, EditsOf, EditKeepsEdits
<1>2. CASE \/ Close \/ UNCHANGED vars \/ DaemonStops \/ DaemonStarts
           \/ \E s \in Session : ReadStep(s) \/ DaemonForgets(s)
           \/ \E n \in SUBSET Iface : IfaceChange(n)
  <2>1. UNCHANGED edited /\ UNCHANGED <<rpc, sending>>
    BY <1>2, Zenon DEF Close, vars, DaemonStops, DaemonStarts, ReadStep, decode, setInterfaces,
       readerExit, DaemonForgets, IfaceChange, edited, callers, runner, history
  <2>2. \/ UNCHANGED toDaemon
        \/ toDaemon' = [s \in Session |-> << >>]
        \/ \E s \in Session : toDaemon' = [toDaemon EXCEPT ![s] = << >>]
    BY <1>2, Zenon DEF Close, vars, DaemonStops, DaemonStarts, ReadStep, decode, setInterfaces,
       readerExit, DaemonForgets, IfaceChange, socket
  <2>3. session \in Session => toDaemon'[session] \in {toDaemon[session], << >>}
    BY <2>2 DEF Types, SocketTypes
  <2> QED
    BY <2>1, <2>3, NoSendKeepsEdits, Zenon
<1>3. ASSUME NEW s \in Session, DaemonReads(s)
      PROVE  EditInv'
  <2>1. /\ UNCHANGED <<edits, rulesets, session, rpc, sending>>
        /\ toDaemon' = [toDaemon EXCEPT ![s] = Tail(@)] /\ toDaemon[s] # << >>
    BY <1>3, Zenon DEF DaemonReads, callers, runner
  <2>2. \/ reached' = reached
        \/ s = session /\ Head(toDaemon[s]).type = "mutation" /\ reached' = Head(toDaemon[s]).edit
    BY <1>3, DaemonReadsCases, Zenon DEF Mutation
  <2>3. CASE s = session
    BY <2>1, <2>2, <2>3, ReadKeepsEdits
  <2>4. CASE s # session
    <3>1. session \in Session => toDaemon'[session] = toDaemon[session]
      BY <2>1, <2>4 DEF Types, SocketTypes
    <3> QED
      BY <2>1, <2>2, <2>4, <3>1, NoSendKeepsEdits, Zenon DEF edited
  <2> QED
    BY <2>3, <2>4
<1> QED
  BY <1>1, <1>2, <1>3, RunEdits DEF Next, DaemonStep

----------------------------------------------------------------------------
(* The interface list. *)

\* A step that is not about the list: the socket of the session is as it was, and
\* what is known of the interfaces too, unless that no longer matters.
SameList ==
    /\ session' = session /\ ifaces' = ifaces
    /\ toDaemon'[session] = toDaemon[session] /\ toClient'[session] = toClient[session]
    /\ subscribed'[session] = subscribed[session]
    /\ reader'[session] = reader[session] /\ handling'[session] = handling[session]
    /\ alien' \/ closed' \/ (UNCHANGED <<alien, interfaces, closed>>)

LEMMA ListKept ==
    ASSUME ListInv, Live' => Live /\ SameList,
           Live' => rpc' = rpc \/ rpc \notin {"subscribe", "request"}
    PROVE  ListInv'
<1> SUFFICES ASSUME Live', Live, SameList, rpc' = rpc \/ rpc \notin {"subscribe", "request"}
             PROVE  ListInv'
  BY DEF ListInv
<1>1. Delivered => Delivered'
  <2>1. CASE alien' \/ closed'
    BY <2>1 DEF Delivered, SameList
  <2>2. CASE UNCHANGED <<alien, interfaces, closed>>
    BY <2>2 DEF Delivered, SameList
  <2> QED
    BY <2>1, <2>2, Zenon DEF SameList
<1>2. \A t : Queued(t) => Queued(t)'
  BY Zenon DEF Queued, SameList
<1>3. /\ rpc' = "subscribe" \/ subscribed'[session'] \/ Queued("subscribe")'
      /\ rpc' \in {"subscribe", "request"} \/ Queued("config_request")' \/ Delivered'
  BY <1>1, <1>2, Zenon DEF ListInv, SameList
<1>4. subscribed[session] \/ AfterSubscribe(toDaemon[session])
  BY DEF ListInv
<1>5. /\ session' = session /\ toDaemon'[session] = toDaemon[session]
      /\ subscribed'[session] = subscribed[session]
  BY Zenon DEF SameList
<1> QED
  BY <1>3, <1>4, <1>5, Zenon DEF ListInv

\* What a live session has, and where it can have come from.
LEMMA LiveFacts ==
    ASSUME Types, SessionInv, Live
    PROVE  /\ session \in Session /\ up /\ reader[session] \in {"read", "handle"}
           /\ toDaemon[session] \in Seq(Message) /\ toClient[session] \in Seq(SUBSET Iface)
BY DEF Types, SocketTypes, SessionInv, Live, Started

\* run and serveConn: the list is asked for after the subscription.
LEMMA RunList ==
    ASSUME Types, SessionInv, ListInv, RunStep
    PROVE  ListInv'
<1> SUFFICES ASSUME Live' PROVE ListInv'
  BY Zenon DEF ListInv
<1>0. conn \in [Session -> {"none", "open", "broken", "closed"}]
  BY DEF Types, SocketTypes
<1>1. ~EndSession
  BY Zenon DEF Live, EndSession, Goto, Started, Serving
<1>2. CASE runCheck \/ runDial \/ runSleep
  BY <1>2, Zenon DEF runCheck, runDial, runSleep, Goto, Live, Started, Serving
<1>3. CASE resetInterfaces
  <2>1. rpc' = "subscribe" /\ rpc = "reset" /\ UNCHANGED <<session, toDaemon>>
    BY <1>3 DEF resetInterfaces, Goto, socket
  <2>2. toDaemon'[session'] = << >>
    BY <2>1 DEF SessionInv, Untouched
  <2>3. AfterSubscribe(toDaemon'[session'])
    BY <2>2 DEF AfterSubscribe
  <2>4. rpc' = "subscribe"
    BY <2>1, Zenon
  <2> QED
    BY <2>3, <2>4, Zenon DEF ListInv
<1>4. CASE snapshot \/ serveSelect
  <2>1. /\ UNCHANGED <<conn, session, toDaemon, toClient, subscribed, reader, handling, ifaces,
                       alien, interfaces, closed>>
        /\ rpc \in {"snapshot", "select"}
    BY <1>1, <1>4, Zenon DEF snapshot, serveSelect, callers, readers, daemon, history
  <2> QED
    BY <2>1, ListKept, Zenon DEF Live, Started, Serving, SameList
<1>5. CASE startSubscribe \/ startRequest \/ apply
  <2>1. /\ UNCHANGED <<conn, session, toClient, subscribed, reader, handling, ifaces,
                       alien, interfaces, closed>>
        /\ conn[session] = "open" /\ rpc \in Started
    BY <1>1, <1>5, SendCases, Zenon
       DEF startSubscribe, startRequest, apply, Sent, callers, readers, daemon, history, Started, Serving
  <2>2. Live /\ session \in Session /\ toDaemon[session] \in Seq(Message)
    BY <2>1, LiveFacts DEF Live
  <2>3. PICK m \in Message :
          /\ toDaemon' = [toDaemon EXCEPT ![session] = Append(@, m)]
          /\ \/ rpc = "subscribe" /\ rpc' = "request" /\ m.type = "subscribe"
             \/ rpc = "request" /\ rpc' = "snapshot" /\ m.type = "config_request"
             \/ rpc = "apply" /\ rpc' = "select" /\ m.type = "mutation"
    <3>1. CASE startSubscribe
      <4>1. [type |-> "subscribe"] \in Message
        BY DEF Message
      <4> QED
        BY <1>1, <2>1, <3>1, <4>1, Zenon DEF startSubscribe, Send, Goto
    <3>2. CASE startRequest
      <4>1. [type |-> "config_request"] \in Message
        BY DEF Message
      <4> QED
        BY <1>1, <2>1, <3>2, <4>1, Zenon DEF startRequest, Send, Goto
    <3>3. CASE apply
      <4>0. PICK m : m = [type |-> "mutation", ruleset |-> sending.ruleset, edit |-> sending.edit]
        BY Zenon
      <4>1. m \in Mutation /\ m.type = "mutation"
        BY <4>0 DEF Mutation, Types, RunnerTypes
      <4> QED
        BY <1>1, <2>1, <3>3, <4>0, <4>1, Zenon DEF apply, Send, Goto, Message
    <3> QED
      BY <1>5, <3>1, <3>2, <3>3
  <2>4. PICK q, r : q = toDaemon[session] /\ r = toDaemon'[session]
    OBVIOUS
  <2>5. /\ Len(q) \in Nat /\ Len(r) = Len(q) + 1 /\ r[Len(q) + 1] = m
        /\ \A n \in 1..Len(q) : r[n] = q[n]
    <3>1. q \in Seq(Message) /\ r = Append(q, m)
      BY <2>2, <2>3, <2>4 DEF Types, SocketTypes
    <3> QED
      BY <3>1, AppendElements
  <2>6. /\ \A t : Queued(t) => Queued(t)'
        /\ Queued(m.type)'
    <3>1. (\A n \in 1..Len(q) : n \in 1..Len(r)) /\ Len(q) + 1 \in 1..Len(r)
      BY <2>5
    <3> QED
      BY <2>1, <2>4, <2>5, <3>1, Zenon DEF Queued
  <2>7. Delivered => Delivered'
    BY <2>1, Zenon DEF Delivered
  <2>8. subscribed[session] \/ AfterSubscribe(r)
    <3> SUFFICES ASSUME ~subscribed[session], NEW n \in 1..Len(r), r[n].type = "config_request"
                 PROVE  \E k \in 1..(n - 1) : r[k].type = "subscribe"
      BY Zenon DEF AfterSubscribe
    <3>1. CASE n \in 1..Len(q)
      <4>1. q[n].type = "config_request" /\ \A k \in 1..(n - 1) : r[k] = q[k]
        BY <2>5, <3>1
      <4> QED
        BY <2>2, <2>4, <3>1, <4>1, Zenon DEF ListInv, AfterSubscribe
    <3>2. CASE n = Len(q) + 1
      <4>1. rpc = "request"
        BY <2>3, <2>5, <3>2
      <4>2. \E k \in 1..Len(q) : q[k].type = "subscribe"
        BY <2>2, <2>4, <4>1 DEF ListInv, Queued
      <4> QED
        BY <2>5, <3>2, <4>2
    <3> QED
      BY <2>5, <3>1, <3>2
  <2>9. /\ rpc' = "subscribe" \/ subscribed[session] \/ Queued("subscribe")'
        /\ rpc' \in {"subscribe", "request"} \/ Queued("config_request")' \/ Delivered'
    BY <2>2, <2>3, <2>6, <2>7, Zenon DEF ListInv
  <2> QED
    BY <2>1, <2>4, <2>8, <2>9, Zenon DEF ListInv
<1> QED
  BY <1>2, <1>3, <1>4, <1>5 DEF RunStep

\* readLoop: the list goes from the socket through the reader to the client.
LEMMA ReadList ==
    ASSUME Types, SessionInv, ListInv, NEW s \in Session, ReadStep(s)
    PROVE  ListInv'
<1> SUFFICES ASSUME Live' PROVE ListInv'
  BY DEF ListInv
<1>0. /\ reader \in [Session -> {"none", "read", "handle", "exit"}]
      /\ conn \in [Session -> {"none", "open", "broken", "closed"}]
      /\ handling \in [Session -> SUBSET Iface] /\ toClient \in [Session -> Seq(SUBSET Iface)]
  BY DEF Types, SocketTypes
<1>1. UNCHANGED <<rpc, session, toDaemon, subscribed, ifaces, closed>>
  BY Zenon DEF ReadStep, decode, setInterfaces, readerExit, runner, socket, daemon, callers
<1>2. Live /\ conn'[session] = "open"
  <2>1. conn'[s] = "closed" \/ conn' = conn
    BY <1>0, Zenon DEF ReadStep, decode, setInterfaces, readerExit, socket
  <2>2. session \in Session
    BY <1>1 DEF Live, Started, SessionInv
  <2>3. \A t \in Session : t # s => conn'[t] = conn[t]
    BY <1>0 DEF ReadStep, decode, setInterfaces, readerExit, socket
  <2> QED
    BY <1>1, <2>1, <2>2, <2>3 DEF Live
<1>3. session \in Session
  BY <1>2, LiveFacts
<1>4. CASE s # session
  <2>1. /\ reader'[session] = reader[session] /\ handling'[session] = handling[session]
        /\ toClient'[session] = toClient[session]
    BY <1>0, <1>3, <1>4 DEF ReadStep, decode, setInterfaces, readerExit, socket
  <2>2. alien' \/ (UNCHANGED <<alien, interfaces>>)
    BY <1>4, Zenon DEF ReadStep, decode, setInterfaces, readerExit, callers, history
  <2> QED
    BY <1>1, <1>2, <2>1, <2>2, ListKept, Zenon DEF SameList
<1>5. CASE s = session
  <2>1. Delivered => Delivered'
    <3> SUFFICES ASSUME Delivered PROVE Delivered'
      OBVIOUS
    <3>1. CASE decode(s)
      <4>1. PICK q : q = toClient[session]
        OBVIOUS
      <4>2. /\ handling'[session] = Head(q) /\ toClient'[session] = Tail(q) /\ q # << >>
            /\ reader'[session] = "handle" /\ q \in Seq(SUBSET Iface)
        BY <1>0, <1>5, <3>1, <4>1 DEF decode
      <4>3. q[Len(q)] = ifaces /\ subscribed[session]
        BY <4>1, <4>2, Zenon DEF Delivered
      <4>4. /\ Tail(q) = << >> => Head(q) = ifaces
            /\ Tail(q) # << >> => Tail(q)[Len(Tail(q))] = ifaces
        <5>1. /\ Len(q) \in Nat \ {0} /\ Head(q) = q[1] /\ Tail(q) \in Seq(SUBSET Iface)
              /\ Len(Tail(q)) = Len(q) - 1
              /\ \A n \in 1..(Len(q) - 1) : Tail(q)[n] = q[n + 1]
          BY <4>2, TailElements
        <5>2. Tail(q) = << >> <=> Len(q) = 1
          BY <5>1, EmptyQueue
        <5> QED
          BY <4>3, <5>1, <5>2
      <4> QED
        BY <1>1, <4>2, <4>3, <4>4 DEF Delivered
    <3>2. CASE setInterfaces(s)
      <4>1. /\ reader[session] = "handle" /\ reader'[session] = "read"
            /\ toClient' = toClient
        BY <1>0, <1>5, <3>2 DEF setInterfaces, socket
      <4>2. closed \/ interfaces' = Known(handling[session])
        BY <1>5, <3>2 DEF setInterfaces
      <4> QED
        BY <1>1, <4>1, <4>2 DEF Delivered
    <3>3. CASE readerExit(s)
      BY <1>0, <1>2, <1>5, <3>3 DEF readerExit, Live
    <3> QED
      BY <3>1, <3>2, <3>3 DEF ReadStep
  <2>2. \A t : Queued(t) <=> Queued(t)'
    BY <1>1, Zenon DEF Queued
  <2> QED
    BY <1>1, <1>2, <2>1, <2>2, Zenon DEF ListInv
<1> QED
  BY <1>4, <1>5

\* The daemon reads the subscription before the request it answers.
LEMMA DaemonReadsList ==
    ASSUME Types, SessionInv, ListInv, NEW s \in Session, DaemonReads(s)
    PROVE  ListInv'
<1> SUFFICES ASSUME Live' PROVE ListInv'
  BY DEF ListInv
<1>1. /\ UNCHANGED <<rpc, session, conn, reader, handling, ifaces, closed, alien, interfaces>>
      /\ toDaemon[s] # << >> /\ toDaemon' = [toDaemon EXCEPT ![s] = Tail(@)]
  BY Zenon DEF DaemonReads, callers, runner, readers
<1>2. Live
  BY <1>1, Zenon DEF Live
<1>3. session \in Session /\ toDaemon[session] \in Seq(Message) /\ toClient[session] \in Seq(SUBSET Iface)
  BY <1>2, LiveFacts
<1>4. CASE s # session
  <2>1. /\ toClient'[session] = toClient[session] /\ subscribed'[session] = subscribed[session]
        /\ toDaemon'[session] = toDaemon[session]
    BY <1>3, <1>4, DaemonReadsOnly, Zenon
  <2> QED
    BY <1>1, <1>2, <2>1, ListKept, Zenon DEF SameList
<1>5. CASE s = session
  <2>0. PICK q, r : q = toDaemon[session] /\ r = toDaemon'[session]
    OBVIOUS
  <2>1. /\ Len(q) \in Nat \ {0} /\ Head(q) = q[1] /\ Len(r) = Len(q) - 1
        /\ \A n \in 1..Len(r) : r[n] = q[n + 1]
    <3>1. q \in Seq(Message) /\ q # << >> /\ r = Tail(q)
      BY <1>1, <1>3, <1>5, <2>0 DEF Types, SocketTypes
    <3> QED
      BY <3>1, TailElements
  <2>2. ASSUME NEW t, Queued(t), q[1].type # t PROVE Queued(t)'
    <3>1. PICK n \in 1..Len(q) : q[n].type = t
      BY <2>0, <2>2 DEF Queued
    <3>2. n # 1
      BY <2>2, <3>1, Zenon
    <3>3. n - 1 \in 1..Len(r) /\ r[n - 1] = q[n]
      BY <1>1, <1>3, <1>5, <2>0, <3>2, RestElement, Zenon DEF Types, SocketTypes
    <3> QED
      BY <1>1, <2>0, <3>1, <3>3, Zenon DEF Queued
  <2>3. AfterSubscribe(q) /\ q[1].type # "subscribe" => AfterSubscribe(r)
    <3> SUFFICES ASSUME AfterSubscribe(q), q[1].type # "subscribe", NEW n \in 1..Len(r),
                        r[n].type = "config_request"
                 PROVE  \E m \in 1..(n - 1) : r[m].type = "subscribe"
      BY Zenon DEF AfterSubscribe
    <3>1. n + 1 \in 1..Len(q) /\ q[n + 1].type = "config_request"
      BY <2>1
    <3>2. PICK m \in 1..((n + 1) - 1) : q[m].type = "subscribe"
      BY <3>1, Zenon DEF AfterSubscribe
    <3>3. m # 1 /\ m \in 1..n /\ n \in 1..Len(r)
      BY <3>2
    <3>4. m - 1 \in 1..(n - 1) /\ m - 1 \in 1..Len(r) /\ (m - 1) + 1 = m
      BY ONLY <2>1, <3>3
    <3>5. r[m - 1] = q[m]
      BY <2>1, <3>4, Zenon
    <3> QED
      BY <3>2, <3>4, <3>5, Zenon
  <2>4. CASE q[1].type = "subscribe"
    <3>1. subscribed'[session] /\ UNCHANGED toClient
      BY <1>3, <1>5, <2>0, <2>1, <2>4, DaemonReadsCases, Zenon DEF Types, DaemonTypes, Mutation
    <3>2. Delivered => Delivered'
      BY <1>1, <3>1 DEF Delivered
    <3> QED
      BY <1>1, <1>2, <2>2, <2>4, <3>1, <3>2 DEF ListInv
  <2>5. CASE q[1].type = "config_request"
    <3>1. subscribed[session]
      <4>1. 1 \in 1..Len(q) /\ \A m : m \notin 1..(1 - 1)
        BY <2>1
      <4> QED
        BY <1>2, <2>0, <2>5, <4>1, Zenon DEF ListInv, AfterSubscribe
    <3>2. UNCHANGED subscribed /\ toClient'[session] = Append(toClient[session], ifaces)
      BY <1>2, <1>3, <1>5, <2>0, <2>1, <2>5, DaemonReadsCases, Zenon DEF Types, SocketTypes, Mutation, Live
    <3>3. toClient'[session] # << >> /\ toClient'[session][Len(toClient'[session])] = ifaces
      <4>1. ifaces \in SUBSET Iface
        BY DEF Types, DaemonTypes
      <4>2. PICK c, d : c = toClient[session] /\ d = toClient'[session]
        OBVIOUS
      <4>3. c \in Seq(SUBSET Iface) /\ d = Append(c, ifaces)
        BY <1>3, <3>2, <4>2, Zenon DEF Types, SocketTypes
      <4>4. Len(c) \in Nat /\ Len(d) = Len(c) + 1 /\ d[Len(c) + 1] = ifaces
        BY ONLY <4>1, <4>3, AppendElements, SMT
      <4>5. d # << >> /\ d[Len(d)] = ifaces
        BY ONLY <4>4
      <4> QED
        BY <4>2, <4>5, Zenon
    <3> QED
      BY <1>1, <3>1, <3>2, <3>3 DEF ListInv, Delivered
  <2>6. CASE q[1].type \notin {"subscribe", "config_request"}
    <3>1. UNCHANGED <<subscribed, toClient>>
      BY <1>5, <2>0, <2>1, <2>6, DaemonReadsCases, Zenon
    <3>2. Delivered => Delivered'
      BY <1>1, <3>1, Zenon DEF Delivered
    <3>3. /\ Queued("subscribe") => Queued("subscribe")'
          /\ Queued("config_request") => Queued("config_request")'
      BY <2>2, <2>6
    <3> QED
      BY <1>1, <1>2, <2>0, <2>3, <2>6, <3>1, <3>2, <3>3, Zenon DEF ListInv
  <2> QED
    BY <2>4, <2>5, <2>6
<1> QED
  BY <1>4, <1>5

\* The list is on its way to the client, or there, after every step.
LEMMA ListNext ==
    ASSUME Types, SessionInv, ListInv, [Next]_vars
    PROVE  ListInv'
<1>0. /\ conn \in [Session -> {"none", "open", "broken", "closed"}]
      /\ subscribed \in [Session -> BOOLEAN] /\ toDaemon \in [Session -> Seq(Message)]
  BY DEF Types, SocketTypes, DaemonTypes
<1>1. CASE \/ \E p \in Policy : CreateTMPRuleset(p) \/ \E i \in Id : UpdateTMPRuleset(i, p)
           \/ \E i \in Id : DeleteTMPRuleset(i)
           \/ Close \/ DaemonStarts \/ UNCHANGED vars
  <2>1. /\ UNCHANGED <<rpc, session, conn, toDaemon, toClient, subscribed, reader, handling,
                       ifaces, alien, interfaces>>
        /\ closed' \/ UNCHANGED closed
    BY <1>1, Zenon DEF CreateTMPRuleset, UpdateTMPRuleset, DeleteTMPRuleset, Edit, Close,
       DaemonStarts, vars, callers, runner, readers, socket, daemon, history
  <2> QED
    BY <2>1, ListKept, Zenon DEF SameList, Live
<1>2. ASSUME NEW s \in Session, DaemonForgets(s)
      PROVE  ListInv'
  <2>1. /\ UNCHANGED <<rpc, session, conn, toClient, reader, handling, ifaces, alien, interfaces, closed>>
        /\ conn[s] = "closed"
    BY <1>2 DEF DaemonForgets, callers, runner, readers, history
  <2>2. Live' => Live
    BY <2>1, Zenon DEF Live
  <2>3. Live => /\ s # session /\ toDaemon'[session] = toDaemon[session]
                /\ subscribed'[session] = subscribed[session]
    BY <1>0, <1>2, <2>1, LiveFacts, Zenon DEF DaemonForgets, Live
  <2> QED
    BY <2>1, <2>2, <2>3, ListKept, Zenon DEF SameList
<1>3. ASSUME NEW n \in SUBSET Iface, IfaceChange(n)
      PROVE  ListInv'
  <2> SUFFICES ASSUME Live' PROVE ListInv'
    BY DEF ListInv
  <2>1. UNCHANGED <<rpc, session, conn, toDaemon, subscribed>> /\ ifaces' = n
    BY <1>3 DEF IfaceChange, runner
  <2>2. Live
    BY <2>1, Zenon DEF Live
  <2>3. session \in Session /\ toClient[session] \in Seq(SUBSET Iface)
    BY <2>2, LiveFacts
  <2>4. CASE subscribed[session]
    <3>1. toClient'[session] = Append(toClient[session], n)
      BY <1>3, <2>2, <2>3, <2>4 DEF IfaceChange, Live
    <3>2. toClient'[session] # << >> /\ toClient'[session][Len(toClient'[session])] = n
      BY <2>3, <3>1, AppendElements, EmptyQueue
    <3>3. Delivered'
      BY <2>1, <2>4, <3>2 DEF Delivered
    <3> QED
      BY <2>1, <2>4, <3>3, Zenon DEF ListInv
  <2>5. CASE ~subscribed[session]
    <3>1. \A t : Queued(t) <=> Queued(t)'
      BY <2>1, Zenon DEF Queued
    <3>2. ~Delivered
      BY <2>5 DEF Delivered
    <3> QED
      BY <2>1, <2>2, <2>5, <3>1, <3>2, Zenon DEF ListInv
  <2> QED
    BY <2>4, <2>5
<1>4. CASE DaemonStops
  <2>1. /\ UNCHANGED <<rpc, session>> /\ \A s \in Session : conn'[s] # "open"
    BY <1>0, <1>4 DEF DaemonStops, runner
  <2>2. Live' => session \in Session
    BY <2>1 DEF Live, Started, SessionInv
  <2> QED
    BY <2>1, <2>2 DEF ListInv, Live
<1> QED
  BY <1>1, <1>2, <1>3, <1>4, RunList, ReadList, DaemonReadsList DEF Next, DaemonStep

----------------------------------------------------------------------------
(* The merged ruleset. *)

\* A step that is not about the ruleset.
SamePolicy ==
    /\ session' = session /\ toDaemon'[session] = toDaemon[session]
    /\ tmpRuleset'[session] = tmpRuleset[session]
    /\ rejected' = rejected

\* There is a new version: nothing has been sent of it, and run will wake up.
LEMMA VersionKeepsPolicy ==
    ASSUME Types, PolicyInv, Live, UNCHANGED <<rpc, appliedVersion, sending>>,
           version' = version + 1, wake'
    PROVE  PolicyInv'
<1>1. /\ version \in Nat /\ version' > 0 /\ version' # appliedVersion /\ version' # sending.version
      /\ appliedVersion' # version'
  BY DEF Types, CallerTypes, RunnerTypes
<1> QED
  BY <1>1 DEF PolicyInv

\* Nothing changes, or only rpc does.
LEMMA PolicyKept ==
    ASSUME PolicyInv,
           Live' => Live /\ SamePolicy /\ UNCHANGED <<version, rulesets, interfaces, appliedVersion>>,
           Live' => \/ UNCHANGED <<rpc, sending>> /\ (wake' \/ wake' = wake)
                    \/ rpc' = "snapshot"
    PROVE  PolicyInv'
<1> SUFFICES ASSUME Live' PROVE PolicyInv'
  BY DEF PolicyInv
<1>1. /\ Live /\ SamePolicy /\ UNCHANGED <<version, rulesets, interfaces, appliedVersion>>
  OBVIOUS
<1>2. Current' = Current
  BY <1>1, Zenon DEF Current
<1>3. Asked(Current) => Asked(Current)'
  BY <1>1, <1>2, Zenon DEF Asked, SamePolicy
<1>4. CASE UNCHANGED <<rpc, sending>> /\ (wake' \/ wake' = wake)
  BY <1>1, <1>2, <1>3, <1>4, Zenon DEF PolicyInv
<1>5. CASE rpc' = "snapshot"
  BY <1>1, <1>2, <1>3, <1>5, Zenon DEF PolicyInv
<1> QED
  BY <1>4, <1>5

\* run and serveConn: what is recorded as applied is the last thing sent.
LEMMA RunPolicy ==
    ASSUME Types, SessionInv, PolicyInv, RunStep
    PROVE  PolicyInv'
<1> SUFFICES ASSUME Live' PROVE PolicyInv'
  BY DEF PolicyInv
<1>1. ~EndSession
  BY Zenon DEF Live, EndSession, Goto, Started, Serving
<1>2. CASE runCheck \/ runDial \/ runSleep
  BY <1>2, Zenon DEF runCheck, runDial, runSleep, Goto, Live, Started, Serving
<1>3. CASE resetInterfaces
  <2>1. rpc' = "subscribe" /\ appliedVersion' = 0 /\ version' = version + 1 /\ wake'
    BY <1>3 DEF resetInterfaces, Goto, changedLocked
  <2> QED
    BY <2>1 DEF PolicyInv, Types, CallerTypes
<1>4. CASE serveSelect
  <2>1. /\ UNCHANGED <<session, conn, toDaemon, tmpRuleset, rejected, version, rulesets, interfaces,
                       appliedVersion, sending>>
        /\ rpc = "select" /\ rpc' = "snapshot"
    BY <1>1, <1>4, Zenon DEF serveSelect, Goto, daemon, history
  <2> QED
    BY <2>1, PolicyKept, Zenon DEF Live, Started, Serving, SamePolicy
<1>5. CASE snapshot
  <2>1. /\ UNCHANGED <<session, conn, toDaemon, tmpRuleset, rejected, version, rulesets, interfaces,
                       appliedVersion, wake>>
        /\ rpc = "snapshot"
    BY <1>1, <1>5, Zenon DEF snapshot, callers, daemon, history
  <2>2. \/ rpc' = "apply" /\ sending' = [version |-> version, ruleset |-> Current, edit |-> Len(edits)]
        \/ rpc' = "select" /\ (~interfaces.known \/ version = appliedVersion)
    BY <1>1, <1>5, Zenon DEF snapshot, Goto, Current
  <2>3. Live /\ Current' = Current /\ (Asked(Current) => Asked(Current)')
    BY <2>1, Zenon DEF Live, Started, Serving, Current, Asked
  <2>4. CASE rpc' = "apply" /\ sending' = [version |-> version, ruleset |-> Current, edit |-> Len(edits)]
    <3>1. sending'.version = version /\ sending'.ruleset = Current
      BY <2>4
    <3> QED
      BY <2>1, <2>3, <2>4, <3>1, Zenon DEF PolicyInv
  <2>5. CASE rpc' = "select" /\ (~interfaces.known \/ version = appliedVersion)
    BY <2>1, <2>3, <2>5, Zenon DEF PolicyInv
  <2> QED
    BY <2>2, <2>4, <2>5
<1>6. CASE startSubscribe \/ startRequest
  <2>1. /\ UNCHANGED <<session, conn, version, appliedVersion>> /\ rpc \in {"subscribe", "request"}
        /\ rpc' \in {"request", "snapshot"} /\ conn[session] = "open"
    BY <1>1, <1>6, Zenon DEF startSubscribe, startRequest, Send, Goto, callers
  <2>2. version > 0 /\ appliedVersion = 0 /\ version \in Nat
    BY <2>1 DEF Live, Started, Serving, PolicyInv, Types, CallerTypes
  <2> QED
    BY <2>1, <2>2 DEF PolicyInv
<1>7. CASE apply
  <2>1. /\ UNCHANGED <<session, conn, version, rulesets, interfaces, wake, tmpRuleset, rejected, sending>>
        /\ rpc = "apply" /\ rpc' = "select" /\ conn[session] = "open"
        /\ appliedVersion' = sending.version
    BY <1>1, <1>7, Zenon DEF apply, Send, Goto, callers, daemon, history
  <2>2. Live /\ session \in Session /\ toDaemon[session] \in Seq(Message)
    BY <2>1, LiveFacts, Zenon DEF Live, Started, Serving
  <2>3. PICK m : m = [type |-> "mutation", ruleset |-> sending.ruleset, edit |-> sending.edit]
    BY Zenon
  <2>4. /\ m \in Mutation /\ m.type = "mutation" /\ m.ruleset = sending.ruleset
    BY <2>3 DEF Mutation, Types, RunnerTypes
  <2>5. toDaemon'[session] = Append(toDaemon[session], m)
    BY <1>1, <1>7, <2>2, <2>3 DEF apply, Send, Types, SocketTypes
  <2>6. m \in Message
    BY <2>4, Zenon DEF Message
  <2>7. /\ toDaemon'[session] # << >> /\ toDaemon'[session][Len(toDaemon'[session])] = m
    BY <2>2, <2>5, <2>6, AppendElements, EmptyQueue
  <2>8. Asked(sending.ruleset)'
    BY <2>1, <2>4, <2>7, Zenon DEF Asked
  <2>9. Current' = Current
    BY <2>1, Zenon DEF Current
  <2>10. version > 0 /\ (sending.version = version => sending.ruleset = Current)
         /\ (~wake => sending.version = version)
    BY <2>1, <2>2 DEF PolicyInv
  <2>11. sending.version = version => Asked(Current)'
    BY <2>1, <2>8, <2>9, <2>10, Zenon DEF Asked
  <2> QED
    BY <2>1, <2>10, <2>11, Zenon DEF PolicyInv
<1> QED
  BY <1>2, <1>3, <1>4, <1>5, <1>6, <1>7 DEF RunStep

\* The daemon takes over what the client has asked for, or rejects it.
LEMMA DaemonReadsPolicy ==
    ASSUME Types, SessionInv, PolicyInv, NEW s \in Session, DaemonReads(s)
    PROVE  PolicyInv'
<1> SUFFICES ASSUME Live' PROVE PolicyInv'
  BY DEF PolicyInv
<1>1. /\ UNCHANGED <<rpc, session, conn, version, rulesets, interfaces, wake, appliedVersion, sending>>
      /\ toDaemon[s] # << >> /\ toDaemon' = [toDaemon EXCEPT ![s] = Tail(@)]
  BY Zenon DEF DaemonReads, callers, runner
<1>2. Live
  BY <1>1, Zenon DEF Live
<1>3. session \in Session /\ toDaemon[session] \in Seq(Message)
  BY <1>2, LiveFacts
<1>4. CASE s # session
  <2>1. /\ toDaemon'[session] = toDaemon[session] /\ tmpRuleset'[session] = tmpRuleset[session]
    BY <1>3, <1>4, DaemonReadsOnly, Zenon
  <2>2. rejected' = rejected
    BY <1>4, DaemonReadsCases, Zenon DEF Types, HistoryTypes
  <2> QED
    BY <1>1, <1>2, <2>1, <2>2, PolicyKept, Zenon DEF SamePolicy
<1>5. CASE s = session
  <2>0. PICK q, r : q = toDaemon[session] /\ r = toDaemon'[session]
    OBVIOUS
  <2>1. q \in Seq(Message) /\ q # << >> /\ r = Tail(q)
    BY <1>1, <1>3, <1>5, <2>0 DEF Types, SocketTypes
  <2>2. /\ Len(q) \in Nat \ {0} /\ Head(q) = q[1] /\ Len(r) = Len(q) - 1
        /\ \A n \in 1..Len(r) : r[n] = q[n + 1]
        /\ r = << >> <=> Len(q) = 1
    <3>1. /\ Len(q) \in Nat \ {0} /\ Head(q) = q[1] /\ r \in Seq(Message) /\ Len(r) = Len(q) - 1
          /\ \A n \in 1..(Len(q) - 1) : r[n] = q[n + 1]
      BY <2>1, TailElements, Zenon
    <3>2. r = << >> <=> Len(q) = 1
      BY <3>1, EmptyQueue
    <3> QED
      BY <3>1, <3>2
  <2>3. ASSUME Asked(Current) PROVE Asked(Current)'
    <3>1. q[Len(q)].type = "mutation" /\ q[Len(q)].ruleset = Current
      BY <2>0, <2>1, <2>3 DEF Asked
    <3>2. CASE r # << >>
      <4>1. r[Len(r)] = q[Len(q)]
        BY <2>2, <3>2
      <4> QED
        BY <1>1, <2>0, <3>1, <3>2, <4>1, Zenon DEF Asked, Current
    <3>3. CASE r = << >>
      <4>1. Head(q) = q[Len(q)]
        BY <2>2, <3>3, Zenon
      <4>2. tmpRuleset'[session] = Current \/ rejected'
        BY <1>3, <1>5, <2>0, <3>1, <4>1, DaemonReadsCases, Zenon DEF Types, DaemonTypes
      <4> QED
        BY <1>1, <2>0, <3>3, <4>2, Zenon DEF Asked, Current
    <3> QED
      BY <3>2, <3>3
  <2>4. Current' = Current
    BY <1>1, Zenon DEF Current
  <2> QED
    BY <1>1, <1>2, <2>3, <2>4, Zenon DEF PolicyInv
<1> QED
  BY <1>4, <1>5

\* The ruleset is on its way to the daemon, or there, after every step.
LEMMA PolicyNext ==
    ASSUME Types, SessionInv, PolicyInv, [Next]_vars
    PROVE  PolicyInv'
<1>0. conn \in [Session -> {"none", "open", "broken", "closed"}]
  BY DEF Types, SocketTypes
<1>1. CASE \/ \E p \in Policy : CreateTMPRuleset(p) \/ \E i \in Id : UpdateTMPRuleset(i, p)
           \/ \E i \in Id : DeleteTMPRuleset(i)
  <2>1. UNCHANGED <<rpc, session, conn, appliedVersion, sending>> /\ version' = version + 1 /\ wake'
    BY <1>1, Zenon DEF CreateTMPRuleset, UpdateTMPRuleset, DeleteTMPRuleset, Edit, changedLocked,
       runner, socket
  <2>2. Live' <=> Live
    BY <2>1, Zenon DEF Live
  <2> QED
    BY <2>1, <2>2, VersionKeepsPolicy DEF PolicyInv
<1>2. CASE \/ Close \/ DaemonStarts \/ UNCHANGED vars
           \/ (\E s \in Session : decode(s)) \/ (\E n \in SUBSET Iface : IfaceChange(n))
  <2>1. /\ UNCHANGED <<rpc, session, conn, toDaemon, tmpRuleset, rejected, version, rulesets,
                       interfaces, appliedVersion, sending>>
        /\ wake' \/ wake' = wake
    BY <1>2, Zenon DEF Close, DaemonStarts, vars, decode, IfaceChange, callers, runner, socket,
       daemon, history
  <2> QED
    BY <2>1, PolicyKept, Zenon DEF SamePolicy, Live
<1>3. ASSUME NEW s \in Session, setInterfaces(s)
      PROVE  PolicyInv'
  <2>1. UNCHANGED <<rpc, session, conn, appliedVersion, sending, toDaemon, tmpRuleset, rejected, rulesets>>
    BY <1>3, Zenon DEF setInterfaces, runner, socket, daemon
  <2>2. \/ UNCHANGED <<interfaces, version, wake>>
        \/ version' = version + 1 /\ wake'
    BY <1>3, Zenon DEF setInterfaces, changedLocked
  <2>3. Live' <=> Live
    BY <2>1, Zenon DEF Live
  <2>4. CASE UNCHANGED <<interfaces, version, wake>>
    BY <2>1, <2>3, <2>4, PolicyKept, Zenon DEF SamePolicy
  <2>5. CASE version' = version + 1 /\ wake'
    BY <2>1, <2>3, <2>5, VersionKeepsPolicy DEF PolicyInv
  <2> QED
    BY <2>2, <2>4, <2>5
<1>4. ASSUME NEW s \in Session, readerExit(s) \/ DaemonForgets(s)
      PROVE  PolicyInv'
  <2> SUFFICES ASSUME Live' PROVE PolicyInv'
    BY DEF PolicyInv
  <2>1. /\ UNCHANGED <<rpc, session, rejected, version, rulesets, interfaces, appliedVersion,
                       sending, wake>>
        /\ conn'[s] = "closed" /\ \A t \in Session : t # s => conn'[t] = conn[t]
    BY <1>0, <1>4, Zenon DEF readerExit, DaemonForgets, callers, runner, history
  <2>2. session \in Session /\ s # session
    BY <2>1 DEF Live, Started, SessionInv
  <2>3. toDaemon'[session] = toDaemon[session] /\ tmpRuleset'[session] = tmpRuleset[session]
    BY <1>4, <2>2 DEF readerExit, DaemonForgets, daemon, Types, SocketTypes, DaemonTypes
  <2> QED
    BY <2>1, <2>2, <2>3, PolicyKept, Zenon DEF SamePolicy, Live
<1>5. CASE DaemonStops
  <2>1. /\ UNCHANGED <<rpc, session>> /\ \A s \in Session : conn'[s] # "open"
    BY <1>0, <1>5 DEF DaemonStops, runner
  <2>2. Live' => session \in Session
    BY <2>1 DEF Live, Started, SessionInv
  <2> QED
    BY <2>1, <2>2, Zenon DEF PolicyInv, Live
<1> QED
  BY <1>1, <1>2, <1>3, <1>4, <1>5, RunPolicy, DaemonReadsPolicy DEF Next, ReadStep, DaemonStep

----------------------------------------------------------------------------
(* The theorems. *)

LEMMA KillswitchInit ==
    ASSUME Init
    PROVE  KInv
<1>0. << >> \in Seq(Message) /\ << >> \in Seq(SUBSET Iface) /\ Len(<< >>) = 0
  BY EmptyQueue
<1>1. CallerTypes
  <2>1. version \in Nat /\ nextRulesetID \in 0..MaxId
    BY KillswitchAssumption DEF Init
  <2>2. /\ rulesets \in [Id -> {{}} \cup {{p} : p \in Policy}]
        /\ interfaces \in [known : BOOLEAN, names : SUBSET Iface]
    BY Zenon DEF Init, Unknown
  <2> QED
    BY <2>1, <2>2, Zenon DEF Init, CallerTypes
<1>2. RunnerTypes
  <2>0. version = 0 /\ sending = [version |-> 0, ruleset |-> {}, edit |-> 1]
    BY Zenon DEF Init
  <2>1. sending \in [version : 0..version, ruleset : SUBSET Ruleset, edit : Nat]
    BY <2>0
  <2>2. session \in 0..MaxSessions /\ appliedVersion \in 0..version
    BY KillswitchAssumption DEF Init
  <2> QED
    BY <2>1, <2>2, Zenon DEF Init, RunnerTypes
<1>3. SocketTypes
  <2>1. /\ conn = [s \in Session |-> "none"] /\ reader = [s \in Session |-> "none"]
        /\ handling = [s \in Session |-> {}] /\ toDaemon = [s \in Session |-> << >>]
        /\ toClient = [s \in Session |-> << >>]
    BY Zenon DEF Init
  <2>2. 0 =< SocketCap
    BY KillswitchAssumption
  <2> QED
    BY <1>0, <2>1, <2>2 DEF SocketTypes
<1>4. DaemonTypes
  BY DEF Init, DaemonTypes
<1>5. /\ edits \in Seq(SUBSET UNION Policy) /\ Len(edits) = 1 /\ edits[1] = {}
  BY DEF Init
<1>6. HistoryTypes
  <2>1. reached \in 1..Len(edits) /\ edits \in Seq(SUBSET UNION Policy)
    BY <1>5 DEF Init
  <2>2. budget \in Budgets
    BY Zenon DEF Init
  <2>3. budget \in [{"edit", "change", "outage", "reject"} -> Nat]
    BY <2>2, KillswitchAssumption
  <2> QED
    BY <2>1, <2>3, Zenon DEF Init, HistoryTypes
<1>7. SessionInv
  <2>1. /\ rpc = "check" /\ session = 0 /\ conn = [s \in Session |-> "none"]
        /\ reader = [s \in Session |-> "none"] /\ toDaemon = [s \in Session |-> << >>]
        /\ toClient = [s \in Session |-> << >>] /\ subscribed = [s \in Session |-> FALSE]
        /\ tmpRuleset = [s \in Session |-> {}]
    BY Zenon DEF Init
  <2>2. \A s \in Session : conn[s] = "none" /\ Untouched(s)
    BY <2>1, Zenon DEF Untouched
  <2>3. rpc \notin Serving /\ rpc # "reset" /\ rpc \notin Started
    BY <2>1 DEF Serving, Started
  <2>4. session \notin Session /\ \A s \in Session : ~(s < session)
    BY <2>1, KillswitchAssumption DEF Session
  <2> QED
    BY <2>2, <2>3, <2>4 DEF SessionInv
<1>8. ~Live /\ session \notin Session
  <2>1. rpc = "check" /\ session = 0
    BY Zenon DEF Init
  <2> QED
    BY <2>1 DEF Live, Started, Serving, Session
<1>9. Wanted(rulesets) = {}
  BY DEF Init, Wanted
<1> QED
  BY <1>1, <1>2, <1>3, <1>4, <1>5, <1>6, <1>7, <1>8, <1>9
     DEF KInv, Types, ListInv, PolicyInv, EditInv

\* The invariant of client, connection and daemon.
LEMMA KillswitchInvariant == Spec => []KInv
<1>1. KInv /\ [Next]_vars => KInv'
  BY TypesNext, SessionNext, ListNext, PolicyNext, EditNext, Zenon DEF KInv
<1> QED
  BY <1>1, KillswitchInit, PTL DEF Spec

\* Whatever callers, daemon and network do, the client's fields keep their types,
\* the reconnect delay its bounds, and appliedVersion never passes version.
THEOREM KillswitchTypes == Spec => []TypeOK
<1>1. ASSUME KInv PROVE TypeOK
  <2>1. \A i \in Id : rulesets[i] = {} \/ \E p \in Policy : rulesets[i] = {p}
    BY <1>1 DEF KInv, Types, CallerTypes
  <2>2. ifaces \subseteq Iface
    BY <1>1 DEF KInv, Types, DaemonTypes
  <2> QED
    BY <1>1, <2>1, <2>2, Zenon
       DEF KInv, Types, CallerTypes, RunnerTypes, SocketTypes, DaemonTypes, Serving, TypeOK
<1> QED
  BY <1>1, KillswitchInvariant, PTL

\* No edit, interface change or reconnection is lost by serveConn, the readers and
\* the version counter: once everything is delivered, the daemon holds the merge of
\* the callers' rulesets on all its interfaces.
THEOREM ConvergedHolds == Spec => []Converged
<1>1. ASSUME KInv, Quiescent, ~rejected, ~alien PROVE Enforced
  <2>1. Live /\ rpc = "select" /\ ~wake /\ ~closed
    BY <1>1 DEF Quiescent, Live, Started, Serving
  <2>2. session \in Session
    BY <1>1, <2>1, LiveFacts DEF KInv
  <2>3. toDaemon[session] = << >> /\ toClient[session] = << >> /\ reader[session] # "handle"
    BY <1>1, <2>2 DEF Quiescent
  <2>4. Delivered
    BY <1>1, <2>1, <2>3 DEF KInv, ListInv, Queued
  <2>5. interfaces = Known(ifaces)
    BY <1>1, <2>1, <2>3, <2>4, Zenon DEF Delivered
  <2>6. interfaces.known /\ interfaces.names = ifaces
    BY <2>5 DEF Known
  <2>7. Asked(Current)
    BY <1>1, <2>1, <2>6, Zenon DEF KInv, PolicyInv
  <2>8. tmpRuleset[session] = Current
    BY <1>1, <2>3, <2>7, Zenon DEF Asked
  <2> QED
    BY <2>6, <2>8, Zenon DEF Current, Enforced
<1>2. KInv => Converged
  BY <1>1, Zenon DEF Converged
<1> QED
  BY <1>2, KillswitchInvariant, PTL

----------------------------------------------------------------------------
(* The refinement of KillswitchRegister. *)

\* The policies the daemon enforces for the last session, if there is one.
InForce == IF session = 0 THEN {} ELSE {m.policy : m \in tmpRuleset[session]}

\* Steps of the register, in the terms of the client.
RegisterEdit == (\E p \in SUBSET UNION Policy : edits' = Append(edits, p))
                /\ UNCHANGED <<reached, InForce>>

RegisterEnforce ==
    /\ \E i \in reached..Len(edits) : reached' = i /\ InForce' \in {{}, {edits[i]}}
    /\ UNCHANGED edits

RegisterDrop == InForce' = {} /\ UNCHANGED <<edits, reached>>

\* The daemon takes over a mutation of the current session: a later edit, entirely.
LEMMA ReadRefines ==
    ASSUME KInv, NEW s \in Session, DaemonReads(s)
    PROVE  RegisterEnforce \/ (UNCHANGED <<edits, reached, InForce>>)
<1>0. Types /\ EditInv
  BY DEF KInv
<1>1. UNCHANGED <<edits, session>> /\ toDaemon[s] # << >>
  BY Zenon DEF DaemonReads, runner
<1>2. CASE UNCHANGED <<tmpRuleset, reached>>
  BY <1>1, <1>2, Zenon DEF InForce
<1>3. CASE /\ Head(toDaemon[s]) \in Mutation /\ s # session /\ UNCHANGED reached
           /\ tmpRuleset' = [tmpRuleset EXCEPT ![s] = Head(toDaemon[s]).ruleset]
  <2>1. session # 0 => session \in Session
    BY <1>0, KillswitchAssumption DEF Types, RunnerTypes, Session
  <2>2. session # 0 => tmpRuleset'[session] = tmpRuleset[session]
    BY <1>0, <1>3, <2>1 DEF Types, DaemonTypes
  <2> QED
    BY <1>1, <1>3, <2>2, Zenon DEF InForce
<1>4. CASE /\ Head(toDaemon[s]) \in Mutation /\ s = session
           /\ reached' = Head(toDaemon[s]).edit
           /\ tmpRuleset' = [tmpRuleset EXCEPT ![s] = Head(toDaemon[s]).ruleset]
  <2>0. PICK q : q = toDaemon[s]
    OBVIOUS
  <2>1. q \in Seq(Message) /\ q # << >>
    BY <1>0, <1>1, <2>0 DEF Types, SocketTypes
  <2>2. Len(q) \in Nat \ {0} /\ Head(q) = q[1]
    BY <2>1, TailElements
  <2>3. PICK m : m = q[1]
    OBVIOUS
  <2>4. 1 \in 1..Len(q) /\ m.type = "mutation"
    <3>1. \A x \in Mutation : x.type = "mutation"
      BY DEF Mutation
    <3> QED
      BY <1>4, <2>0, <2>1, <2>2, <2>3, <3>1, FirstElement, Zenon
  <2>5. From(m.ruleset, m.edit) /\ reached =< m.edit
    BY <1>0, <1>4, <2>0, <2>3, <2>4, Zenon DEF EditInv, InOrder
  <2>6. m.edit \in reached..Len(edits) /\ \A r \in m.ruleset : r.policy = edits[m.edit]
    BY <1>0, <2>5 DEF From, Types, HistoryTypes
  <2>7. tmpRuleset'[session'] = m.ruleset /\ session' # 0 /\ reached' = m.edit
    BY <1>0, <1>1, <1>4, <2>0, <2>2, <2>3 DEF Types, DaemonTypes, Session
  <2>8. InForce' \in {{}, {edits[m.edit]}}
    BY <2>6, <2>7 DEF InForce
  <2> QED
    BY <1>1, <2>6, <2>7, <2>8, Zenon DEF RegisterEnforce
<1> QED
  BY <1>0, <1>2, <1>3, <1>4, DaemonReadsCases, Zenon

\* Every step of the client and the daemon is a step of the register, or none.
LEMMA StepRefines ==
    ASSUME KInv, [Next]_vars
    PROVE  \/ RegisterEdit \/ RegisterEnforce \/ RegisterDrop
           \/ UNCHANGED <<edits, reached, InForce>>
<1>0. Types /\ SessionInv
  BY DEF KInv
<1>1. session # 0 => session \in Session
  BY <1>0, KillswitchAssumption DEF Types, RunnerTypes, Session
<1>2. CASE \/ \E p \in Policy : CreateTMPRuleset(p) \/ \E i \in Id : UpdateTMPRuleset(i, p)
           \/ \E i \in Id : DeleteTMPRuleset(i)
  <2>1. PICK rs \in RulesetsType : Edit(rs)
    BY <1>0, <1>2, EditsOf
  <2>2. Wanted(rs) \in SUBSET UNION Policy
    BY WantedType
  <2>3. edits' = Append(edits, Wanted(rs)) /\ UNCHANGED <<reached, session, tmpRuleset>>
    BY <2>1, Zenon DEF Edit, runner, daemon
  <2> QED
    BY <2>2, <2>3, Zenon DEF RegisterEdit, InForce
<1>3. CASE runDial
  <2>1. UNCHANGED <<edits, reached, tmpRuleset>>
    BY <1>3 DEF runDial, history, daemon
  <2>2. CASE up
    <3>1. session' \in Session /\ session' > session
      BY <1>0, <1>3, <2>2, KillswitchAssumption DEF runDial, Types, RunnerTypes, Session
    <3>2. tmpRuleset'[session'] = {}
      BY <1>0, <2>1, <3>1 DEF SessionInv, Untouched
    <3> QED
      BY <2>1, <3>2 DEF RegisterDrop, InForce
  <2>3. CASE ~up
    BY <1>3, <2>1, <2>3, Zenon DEF runDial, InForce
  <2> QED
    BY <2>2, <2>3
<1>4. CASE DaemonStops
  <2>1. UNCHANGED <<edits, reached, session>> /\ tmpRuleset' = [s \in Session |-> {}]
    BY <1>4, Zenon DEF DaemonStops, runner, history
  <2> QED
    BY <1>1, <2>1 DEF RegisterDrop, InForce
<1>5. ASSUME NEW s \in Session, DaemonForgets(s)
      PROVE  RegisterDrop \/ (UNCHANGED <<edits, reached, InForce>>)
  <2>1. /\ UNCHANGED <<edits, reached, session>>
        /\ tmpRuleset' = [tmpRuleset EXCEPT ![s] = {}]
    BY <1>5, Zenon DEF DaemonForgets, runner, history
  <2>2. session # 0 => tmpRuleset'[session] \in {{}, tmpRuleset[session]}
    BY <1>0, <1>1, <2>1 DEF Types, DaemonTypes
  <2> QED
    BY <2>1, <2>2, Zenon DEF RegisterDrop, InForce
<1>6. CASE \/ Close \/ DaemonStarts \/ UNCHANGED vars \/ (RunStep /\ ~runDial)
           \/ (\E s \in Session : ReadStep(s)) \/ (\E n \in SUBSET Iface : IfaceChange(n))
  <2>1. UNCHANGED <<edits, reached, session, tmpRuleset>>
    BY <1>6, Zenon DEF Close, DaemonStarts, vars, RunStep, runCheck, runSleep, resetInterfaces,
       startSubscribe, startRequest, snapshot, apply, serveSelect, ReadStep, decode,
       setInterfaces, readerExit, IfaceChange, runner, daemon, history
  <2> QED
    BY <2>1, Zenon DEF InForce
<1> QED
  BY <1>2, <1>3, <1>4, <1>5, <1>6, ReadRefines DEF Next, DaemonStep

\* The client is a register that lags behind: what the daemon enforces for it is
\* nothing or exactly the union of the rulesets after one edit, and never goes back
\* to an earlier edit, across reconnections, rejections and outages.
THEOREM RegisterRefined == Spec => Register
<1>1. Init => R!Init
  BY Zenon DEF Init, R!Init
<1>2. KInv /\ [Next]_vars => [R!Next]_<<edits, reached, InForce>>
  BY StepRefines, Zenon DEF RegisterEdit, RegisterEnforce, RegisterDrop, InForce,
     R!Next, R!Edit, R!Enforce, R!Drop
<1> QED
  BY <1>1, <1>2, KillswitchInvariant, PTL DEF Spec, Register, R!Spec, InForce
=============================================================================
