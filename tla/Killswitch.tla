----------------------------- MODULE Killswitch -----------------------------
(***************************************************************************)
(* killswitch.Client (killswitch/client.go) and the daemon it talks to.     *)
(*                                                                          *)
(* The processes: callers of Create/Update/DeleteTMPRuleset and Close, the  *)
(* goroutine run/serveConn, one readLoop goroutine per connection (the one  *)
(* of a former connection may still be running), and the daemon with the    *)
(* two FIFO directions of the socket between them.                          *)
(*                                                                          *)
(* Data abstraction: an AllowRules value is the set of its allowances (a    *)
(* flag that is set, a mark, a port, a host), so mergeAllowRules followed   *)
(* by normalizeAllowRules is union.  Messages that only lead to a log line  *)
(* (mutation_result) are left out.                                          *)
(***************************************************************************)
EXTENDS Integers, Sequences, FiniteSets

CONSTANTS
    Policy,        \* the AllowRules values callers use: a set of sets
    Iface,         \* interface names
    MaxId,         \* last ruleset ID (2^64 - 1 in the code)
    MaxSessions,   \* bound on connections
    SocketCap,     \* messages the socket buffers in each direction
    Budgets        \* bounds on what the environment does, together

ASSUME KillswitchAssumption ==
    /\ MaxId \in Nat /\ MaxSessions \in Nat /\ SocketCap \in Nat \ {0}
    /\ Budgets \subseteq [{"edit", "change", "outage", "reject"} -> Nat]

Id      == 1..MaxId
Session == 1..MaxSessions
Known(names) == [known |-> TRUE, names |-> names]
Unknown      == [known |-> FALSE, names |-> {}]

VARIABLES
    \* Client
    closed, version, nextRulesetID,
    rulesets,        \* rulesets[i]: a singleton holding a policy, or {}
    interfaces,      \* interfaceNames and interfacesKnown
    wake,
    \* run and serveConn
    rpc, delay, session, appliedVersion, sending,
    \* apiSession s
    conn,            \* conn[s]: "none", "open", "broken" (by the daemon), "closed"
    reader,          \* reader[s]: "none", "read", "handle", "exit"
    handling,        \* the interface list reader s has decoded
    toDaemon, toClient,
    \* daemon
    up, ifaces, subscribed, tmpRuleset,
    \* history and bounds
    edits,           \* the callers' policies after each edit
    reached,         \* index in edits of the last policy the daemon took over
    alien,           \* the interface list was written by a former session
    rejected,        \* the daemon rejected the last mutation
    budget

callers == <<closed, version, nextRulesetID, rulesets, interfaces, wake>>
runner  == <<rpc, delay, session, appliedVersion, sending>>
readers == <<reader, handling>>
socket  == <<conn, toDaemon, toClient>>
daemon  == <<up, ifaces, subscribed, tmpRuleset>>
history == <<edits, reached, alien, rejected>>
vars    == <<callers, runner, readers, socket, daemon, history, budget>>

Spend(b) == budget[b] > 0 /\ budget' = [budget EXCEPT ![b] = @ - 1]

\* Mutant: one ruleset wins instead of the union.
MutMergeTMPRulesets(rs, names) ==
    LET live == UNION {rs[i] : i \in Id}
    IN  IF live = {} \/ names = {} THEN {}
        ELSE {[interfaces |-> names, policy |-> CHOOSE p \in live : TRUE]}

\* mergeTMPRulesets: nil, here {}, unless there are rulesets and interfaces.
mergeTMPRulesets(rs, names) ==
    LET live == UNION {rs[i] : i \in Id}
    IN  IF live = {} \/ names = {} THEN {}
        ELSE {[interfaces |-> names, policy |-> UNION live]}

\* What the callers ask for, without the interfaces.
Wanted(rs) == UNION {UNION rs[i] : i \in Id}

Init ==
    /\ closed = FALSE /\ version = 0 /\ nextRulesetID = 0
    /\ rulesets = [i \in Id |-> {}]
    /\ interfaces = Unknown /\ wake = FALSE
    /\ rpc = "check" /\ delay = 1 /\ session = 0 /\ appliedVersion = 0
    /\ sending = [version |-> 0, ruleset |-> {}, edit |-> 1]
    /\ conn = [s \in Session |-> "none"]
    /\ reader = [s \in Session |-> "none"]
    /\ handling = [s \in Session |-> {}]
    /\ toDaemon = [s \in Session |-> << >>]
    /\ toClient = [s \in Session |-> << >>]
    /\ up \in BOOLEAN /\ ifaces \in SUBSET Iface
    /\ subscribed = [s \in Session |-> FALSE]
    /\ tmpRuleset = [s \in Session |-> {}]
    /\ edits = <<{}>> /\ reached = 1 /\ alien = FALSE /\ rejected = FALSE
    /\ budget \in Budgets

----------------------------------------------------------------------------
(* Callers. *)

\* changedLocked and notify: a full wake channel already holds the signal.
changedLocked == version' = version + 1 /\ wake' = TRUE

\* The caller's edit of rulesets, and its trace in the history.
Edit(rs) ==
    /\ ~closed /\ Spend("edit")
    /\ rulesets' = rs
    /\ changedLocked
    /\ edits' = Append(edits, Wanted(rs))
    /\ UNCHANGED <<closed, interfaces, runner, readers, socket, daemon, reached, alien, rejected>>

CreateTMPRuleset(p) ==
    /\ nextRulesetID < MaxId
    /\ nextRulesetID' = nextRulesetID + 1
    /\ Edit([rulesets EXCEPT ![nextRulesetID + 1] = {p}])

UpdateTMPRuleset(i, p) ==
    /\ rulesets[i] # {}
    /\ Edit([rulesets EXCEPT ![i] = {p}])
    /\ UNCHANGED nextRulesetID

\* A missing ruleset is not an error and changes nothing.
DeleteTMPRuleset(i) ==
    /\ rulesets[i] # {}
    /\ Edit([rulesets EXCEPT ![i] = {}])
    /\ UNCHANGED nextRulesetID

Close ==
    /\ ~closed
    /\ closed' = TRUE /\ wake' = TRUE
    /\ UNCHANGED <<version, nextRulesetID, rulesets, interfaces, runner, readers, socket,
                   daemon, history, budget>>

----------------------------------------------------------------------------
(* run and serveConn. *)

Goto(p) == rpc' = p

\* Mutant: the delay has no upper bound.
MutNextDelay(d) == 2 * d

nextDelay(d) == IF 2 * d > 64 THEN 64 ELSE 2 * d

\* Mutant: the loop does not look at closed.
MutRunCheck ==
    /\ rpc = "check"
    /\ Goto("dial")
    /\ UNCHANGED <<callers, delay, session, appliedVersion, sending, readers, socket, daemon,
                   history, budget>>

runCheck ==
    /\ rpc = "check"
    /\ Goto(IF closed THEN "exit" ELSE "dial")
    /\ UNCHANGED <<callers, delay, session, appliedVersion, sending, readers, socket, daemon,
                   history, budget>>

runDial ==
    /\ rpc = "dial"
    /\ IF up
         THEN /\ session < MaxSessions
              /\ session' = session + 1
              /\ conn' = [conn EXCEPT ![session'] = "open"]
              /\ delay' = 1
              /\ Goto("reset")
         ELSE /\ Goto("sleep")
              /\ UNCHANGED <<session, conn, delay>>
    /\ UNCHANGED <<callers, appliedVersion, sending, readers, toDaemon, toClient, daemon,
                   history, budget>>

runSleep ==
    /\ rpc = "sleep"
    /\ \/ closed /\ Goto("exit") /\ UNCHANGED delay
       \/ Goto("check") /\ delay' = nextDelay(delay)
    /\ UNCHANGED <<callers, session, appliedVersion, sending, readers, socket, daemon,
                   history, budget>>

\* resetInterfaces, and newAPISession starts the reader.
resetInterfaces ==
    /\ rpc = "reset"
    /\ interfaces' = Unknown
    /\ changedLocked
    /\ reader' = [reader EXCEPT ![session] = "read"]
    /\ appliedVersion' = 0
    /\ alien' = FALSE /\ rejected' = FALSE
    /\ Goto("subscribe")
    /\ UNCHANGED <<closed, nextRulesetID, rulesets, delay, session, sending, handling, socket,
                   daemon, edits, reached, budget>>

\* serveConn returns: the session is closed.
EndSession ==
    /\ conn' = [conn EXCEPT ![session] = "closed"]
    /\ Goto("check")
    /\ UNCHANGED <<toDaemon, appliedVersion>>

\* send: blocks while the socket is full, fails when it is broken or closed.
Send(msg, next) ==
    IF conn[session] = "open"
      THEN /\ Len(toDaemon[session]) < SocketCap
           /\ toDaemon' = [toDaemon EXCEPT ![session] = Append(@, msg)]
           /\ next
           /\ UNCHANGED conn
      ELSE EndSession

\* start: first the subscription, then the request for the current list.
startSubscribe ==
    /\ rpc = "subscribe"
    /\ Send([type |-> "subscribe"], Goto("request") /\ UNCHANGED appliedVersion)
    /\ UNCHANGED <<callers, delay, session, sending, readers, toClient, daemon, history, budget>>

startRequest ==
    /\ rpc = "request"
    /\ Send([type |-> "config_request"], Goto("snapshot") /\ UNCHANGED appliedVersion)
    /\ UNCHANGED <<callers, delay, session, sending, readers, toClient, daemon, history, budget>>

snapshot ==
    /\ rpc = "snapshot"
    /\ \/ /\ closed
          /\ EndSession
          /\ UNCHANGED sending
       \/ /\ ~closed
          /\ IF interfaces.known /\ version # appliedVersion
               THEN /\ Goto("apply")
                    /\ sending' = [version |-> version,
                                   ruleset |-> mergeTMPRulesets(rulesets, interfaces.names),
                                   edit |-> Len(edits)]
               ELSE /\ Goto("select")
                    /\ UNCHANGED sending
          /\ UNCHANGED <<conn, toDaemon, appliedVersion>>
    /\ UNCHANGED <<callers, delay, session, readers, toClient, daemon, history, budget>>

\* Mutant: the version at the end of the send is recorded, not the one sent.
MutApply ==
    /\ rpc = "apply"
    /\ Send([type |-> "mutation", ruleset |-> sending.ruleset, edit |-> sending.edit],
            Goto("select") /\ appliedVersion' = version)
    /\ UNCHANGED <<callers, delay, session, sending, readers, toClient, daemon, history, budget>>

apply ==
    /\ rpc = "apply"
    /\ Send([type |-> "mutation", ruleset |-> sending.ruleset, edit |-> sending.edit],
            Goto("select") /\ appliedVersion' = sending.version)
    /\ UNCHANGED <<callers, delay, session, sending, readers, toClient, daemon, history, budget>>

\* Mutant: the end of the reader is not noticed.
MutServeSelect ==
    /\ rpc = "select"
    /\ \/ /\ wake
          /\ wake' = FALSE
          /\ Goto("snapshot")
          /\ UNCHANGED <<conn, toDaemon, appliedVersion>>
       \/ /\ closed
          /\ EndSession
          /\ UNCHANGED wake
    /\ UNCHANGED <<closed, version, nextRulesetID, rulesets, interfaces, delay, session,
                   sending, readers, toClient, daemon, history, budget>>

serveSelect ==
    /\ rpc = "select"
    /\ \/ /\ wake
          /\ wake' = FALSE
          /\ Goto("snapshot")
          /\ UNCHANGED <<conn, toDaemon, appliedVersion>>
       \/ /\ closed \/ reader[session] = "exit"
          /\ EndSession
          /\ UNCHANGED wake
    /\ UNCHANGED <<closed, version, nextRulesetID, rulesets, interfaces, delay, session,
                   sending, readers, toClient, daemon, history, budget>>

----------------------------------------------------------------------------
(* readLoop of session s. *)

\* The decoder may still hold messages of a connection that is closed.
decode(s) ==
    /\ reader[s] = "read" /\ toClient[s] # << >>
    /\ handling' = [handling EXCEPT ![s] = Head(toClient[s])]
    /\ toClient' = [toClient EXCEPT ![s] = Tail(@)]
    /\ reader' = [reader EXCEPT ![s] = "handle"]
    /\ UNCHANGED <<callers, runner, conn, toDaemon, daemon, history, budget>>

\* handleMessage of a config or an interfaces event: setInterfaces.
setInterfaces(s) ==
    /\ reader[s] = "handle"
    /\ reader' = [reader EXCEPT ![s] = "read"]
    /\ handling' = [handling EXCEPT ![s] = {}]
    /\ IF closed \/ interfaces = Known(handling[s])
         THEN UNCHANGED <<interfaces, version, wake, alien>>
         ELSE /\ interfaces' = Known(handling[s])
              /\ changedLocked
              /\ alien' = (s # session)
    /\ UNCHANGED <<closed, nextRulesetID, rulesets, runner, socket, daemon, edits, reached,
                   rejected, budget>>

readerExit(s) ==
    /\ reader[s] = "read"
    /\ conn[s] = "closed" \/ (conn[s] = "broken" /\ toClient[s] = << >>)
    /\ reader' = [reader EXCEPT ![s] = "exit"]
    /\ conn' = [conn EXCEPT ![s] = "closed"]
    /\ UNCHANGED <<callers, runner, handling, toDaemon, toClient, daemon, history, budget>>

----------------------------------------------------------------------------
(* The daemon, as the client uses it: one temporary ruleset per connection,  *)
(* dropped with the connection; the interface list on request and, to a      *)
(* subscriber, on every change.                                             *)

DaemonReads(s) ==
    /\ up /\ conn[s] \in {"open", "closed"} /\ toDaemon[s] # << >>
    /\ LET m == Head(toDaemon[s]) IN
         CASE m.type = "subscribe" ->
                /\ subscribed' = [subscribed EXCEPT ![s] = TRUE]
                /\ UNCHANGED <<toClient, tmpRuleset, reached, rejected, budget>>
           [] m.type = "config_request" ->
                /\ IF conn[s] = "open"
                     THEN /\ Len(toClient[s]) < SocketCap
                          /\ toClient' = [toClient EXCEPT ![s] = Append(@, ifaces)]
                     ELSE UNCHANGED toClient
                /\ UNCHANGED <<subscribed, tmpRuleset, reached, rejected, budget>>
           [] m.type = "mutation" ->
                \/ /\ tmpRuleset' = [tmpRuleset EXCEPT ![s] = m.ruleset]
                   /\ IF s = session THEN reached' = m.edit /\ rejected' = FALSE
                      ELSE UNCHANGED <<reached, rejected>>
                   /\ UNCHANGED <<toClient, subscribed, budget>>
                \/ /\ Spend("reject")
                   /\ rejected' = (rejected \/ s = session)
                   /\ UNCHANGED <<toClient, subscribed, tmpRuleset, reached>>
    /\ toDaemon' = [toDaemon EXCEPT ![s] = Tail(@)]
    /\ UNCHANGED <<callers, runner, readers, conn, up, ifaces, edits, alien>>

IfaceChange(n) ==
    /\ n # ifaces /\ Spend("change")
    /\ \A s \in Session : subscribed[s] /\ conn[s] = "open" => Len(toClient[s]) < SocketCap
    /\ ifaces' = n
    /\ toClient' = [s \in Session |->
                      IF subscribed[s] /\ conn[s] = "open" THEN Append(toClient[s], n)
                      ELSE toClient[s]]
    /\ UNCHANGED <<callers, runner, readers, conn, toDaemon, up, subscribed, tmpRuleset,
                   history>>

\* The daemon stops: its connections break, what it had not read is lost.
DaemonStops ==
    /\ up /\ Spend("outage")
    /\ up' = FALSE
    /\ conn' = [s \in Session |-> IF conn[s] = "open" THEN "broken" ELSE conn[s]]
    /\ toDaemon' = [s \in Session |-> << >>]
    /\ subscribed' = [s \in Session |-> FALSE]
    /\ tmpRuleset' = [s \in Session |-> {}]
    /\ UNCHANGED <<callers, runner, readers, toClient, ifaces, history>>

DaemonStarts ==
    /\ ~up
    /\ up' = TRUE
    /\ UNCHANGED <<callers, runner, readers, socket, ifaces, subscribed, tmpRuleset, history,
                   budget>>

\* The daemon notices that the client has closed a connection.
DaemonForgets(s) ==
    /\ up /\ conn[s] = "closed"
    /\ subscribed[s] \/ tmpRuleset[s] # {} \/ toDaemon[s] # << >>
    /\ subscribed' = [subscribed EXCEPT ![s] = FALSE]
    /\ tmpRuleset' = [tmpRuleset EXCEPT ![s] = {}]
    /\ toDaemon' = [toDaemon EXCEPT ![s] = << >>]
    /\ UNCHANGED <<callers, runner, readers, conn, toClient, up, ifaces, history, budget>>

----------------------------------------------------------------------------

RunStep ==
    \/ runCheck \/ runDial \/ runSleep \/ resetInterfaces \/ startSubscribe \/ startRequest
    \/ snapshot \/ apply \/ serveSelect

ReadStep(s) == decode(s) \/ setInterfaces(s) \/ readerExit(s)

DaemonStep(s) == DaemonReads(s) \/ DaemonForgets(s)

Next ==
    \/ \E p \in Policy : CreateTMPRuleset(p) \/ \E i \in Id : UpdateTMPRuleset(i, p)
    \/ \E i \in Id : DeleteTMPRuleset(i)
    \/ Close
    \/ RunStep
    \/ \E s \in Session : ReadStep(s) \/ DaemonStep(s)
    \/ \E n \in SUBSET Iface : IfaceChange(n)
    \/ DaemonStops \/ DaemonStarts

Spec == Init /\ [][Next]_vars

\* Goroutines run, timers fire, and a daemon that is up serves its sockets.
Fairness ==
    /\ WF_vars(RunStep)
    /\ \A s \in Session : WF_vars(ReadStep(s)) /\ WF_vars(DaemonStep(s))

FairSpec == Spec /\ Fairness

----------------------------------------------------------------------------
(* Properties. *)

\* Fields hold values of their Go types, the reconnect delay stays within its
\* bounds, the socket within its capacity, appliedVersion within the versions.
TypeOK ==
    /\ closed \in BOOLEAN /\ version \in Nat /\ nextRulesetID \in 0..MaxId
    /\ \A i \in Id : rulesets[i] = {} \/ \E p \in Policy : rulesets[i] = {p}
    /\ interfaces \in [known : BOOLEAN, names : SUBSET Iface] /\ wake \in BOOLEAN
    /\ rpc \in {"check", "dial", "sleep", "reset", "subscribe", "request", "snapshot",
                "apply", "select", "exit"}
    /\ delay \in {1, 2, 4, 8, 16, 32, 64} /\ session \in 0..MaxSessions
    /\ appliedVersion \in 0..version
    /\ conn \in [Session -> {"none", "open", "broken", "closed"}]
    /\ reader \in [Session -> {"none", "read", "handle", "exit"}]
    /\ handling \in [Session -> SUBSET Iface]
    /\ \A s \in Session : Len(toDaemon[s]) =< SocketCap /\ Len(toClient[s]) =< SocketCap
    /\ up \in BOOLEAN /\ ifaces \subseteq Iface
    /\ subscribed \in [Session -> BOOLEAN]

\* Nothing is on its way between the client and a daemon that is up.
Quiescent ==
    /\ ~closed /\ up /\ rpc = "select" /\ ~wake
    /\ conn[session] = "open" /\ toDaemon[session] = << >> /\ toClient[session] = << >>
    /\ \A s \in Session : reader[s] # "handle"

Enforced == tmpRuleset[session] = mergeTMPRulesets(rulesets, ifaces)

\* No edit, interface change or reconnection is lost: when everything has been
\* delivered the daemon holds the merge of all rulesets on all its interfaces.
\* The exceptions are a mutation the daemon rejected (the client only logs it)
\* and an interface list written by the reader of a former connection.
Converged == Quiescent /\ ~rejected /\ ~alien => Enforced

\* The same without the second exception: the merged ruleset is attached to
\* every interface the connected daemon reports.
AttachedToEveryInterface ==
    Quiescent /\ ~rejected /\ (\A s \in Session : s # session => reader[s] # "read")
      => Enforced

\* What the client promises: see KillswitchRegister.
R == INSTANCE KillswitchRegister WITH
       Want <- SUBSET UNION Policy, log <- edits, pos <- reached,
       enforced <- IF session = 0 THEN {} ELSE {m.policy : m \in tmpRuleset[session]}

Register == R!Spec

\* With the daemon up for good and no rejection, what the callers want is
\* enforced eventually.
EventuallyEnforced == []<>(closed \/ ~up \/ rejected \/ alien \/ (session > 0 /\ Enforced))

\* Close ends the goroutine and the connection.
CloseEnds == closed ~> (rpc = "exit" /\ \A s \in Session : conn[s] \in {"none", "closed"})
=============================================================================
