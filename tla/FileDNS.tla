------------------------------ MODULE FileDNS ------------------------------
(***************************************************************************)
(* The DNS providers that rewrite /etc/resolv.conf: Direct                 *)
(* (dns/direct.go), which writes the file itself, and the two record       *)
(* providers Openresolv and DebianResolvconf, which add and delete one     *)
(* record of the resolvconf program that generates the file.  The three    *)
(* share SetDNS, UnsetDNS, Close and refreshUpstreams line by line; they   *)
(* differ in how the configuration is written and rolled back.             *)
(*                                                                         *)
(* Every call holds the provider's mutex only around its reads and its     *)
(* assignments of the provider's fields, never around the file or the      *)
(* command, so each locked region and each access to the host is one step  *)
(* here.  resolv.conf is who wrote it and the nameservers it lists.        *)
(***************************************************************************)
EXTENDS Integers, FiniteSets

CONSTANTS
    Server,     \* DNS server addresses
    NoServer,   \* no managed server: setDNSActive is false
    Fallback,   \* fallback servers given to the constructor
    Setter,     \* goroutines that call SetDNS and UnsetDNS
    Closer,     \* goroutines that call Close
    MaxDNSCalls,   \* calls of SetDNS, UnsetDNS and Close
    MaxDNSFails,   \* file accesses or commands that fail
    MaxForeign, \* rewrites and removals of resolv.conf by other programs
    MaxCrashes  \* crashes of the process

ASSUME FileDNSAssumption ==
    /\ NoServer \notin Server
    /\ Fallback \subseteq Server
    /\ \A n \in {MaxDNSCalls, MaxDNSFails, MaxForeign, MaxCrashes} : n \in Nat

VARIABLES
    kind,   \* "direct", or "record" for openresolv and Debian resolvconf
    conf,   \* /etc/resolv.conf
    host,   \* ghost: what resolv.conf holds apart from this program's changes
    p,      \* the provider object
    local,  \* the calls in flight: a goroutine's program counter and locals
    open,   \* forwarding clients that have been created and not closed
    lapses, \* ghost: what has happened that a rollback cannot make good
    left  \* calls, failures, foreign changes and crashes left

fileVars == <<kind, conf, host, p, local, open, lapses, left>>

Goroutine == Setter \cup Closer

File == [by : {"host", "self", "other", "cut", "none"}, servers : SUBSET Server]

\* The file that resolvconfForServer and openresolvForServer write.
Managed(s) == [by |-> "self", servers |-> {s}]

Absent == [by |-> "none", servers |-> {}]

\* What a WriteFile that stops before its end leaves: it empties the file first,
\* so that a beginning of the new contents is there, with or without the line
\* that says who wrote them.  A removal does not stop half way.
Interrupted(file) ==
    IF file = Absent THEN {}
    ELSE [by : {"cut", file.by}, servers : SUBSET file.servers]

Active == p.setDNS # NoServer

Idle == [pc |-> "idle", op |-> "none", server |-> NoServer, exclude |-> {},
         urls |-> {}, failed |-> FALSE, client |-> 0]

Use(b) == left[b] > 0 /\ left' = [left EXCEPT ![b] = @ - 1]

\* The servers refreshUpstreams forwards to: the original nameservers, or the
\* fallback servers when none is left, without the excluded ones.
Upstreams(servers, exclude) ==
    IF servers \ exclude # {} THEN servers \ exclude ELSE Fallback \ exclude

\* The constructors: they read resolv.conf once and attach a forwarding client.
NewProvider(file) ==
    [closed |-> FALSE, original |-> file, servers |-> file.servers,
     setDNS |-> NoServer, sig |-> Upstreams(file.servers, {}), client |-> 1]

----------------------------------------------------------------------------
Goto(g, pc) == local' = [local EXCEPT ![g].pc = pc]

Leave(g) == local' = [local EXCEPT ![g] = Idle]

\* Mutant: the old server is not excluded.
MutSetDNS(g, s) ==
    /\ local[g].pc = "idle" /\ Use("calls")
    /\ ~p.closed
    /\ local' = [local EXCEPT ![g] = [Idle EXCEPT
                     !.pc = "refresh", !.op = "set", !.server = s,
                     !.exclude = {s}]]
    /\ UNCHANGED <<kind, conf, host, p, open, lapses>>

\* SetDNS: the closed check and the servers to exclude.  A call after Close
\* returns ErrClosed and changes nothing.
SetDNS(g, s) ==
    /\ local[g].pc = "idle" /\ Use("calls")
    /\ ~p.closed
    /\ local' = [local EXCEPT ![g] = [Idle EXCEPT
                     !.pc = "refresh", !.op = "set", !.server = s,
                     !.exclude = {s} \cup ({p.setDNS} \ {NoServer})]]
    /\ UNCHANGED <<kind, conf, host, p, open, lapses>>

UnsetDNS(g) ==
    /\ local[g].pc = "idle" /\ Use("calls")
    /\ ~p.closed /\ Active
    /\ local' = [local EXCEPT ![g] = [Idle EXCEPT
                     !.pc = "restore", !.op = "unset", !.server = p.setDNS,
                     !.exclude = {p.setDNS}]]
    /\ UNCHANGED <<kind, conf, host, p, open, lapses>>

Close(g) ==
    /\ local[g].pc = "idle" /\ Use("calls")
    /\ ~p.closed \/ Active
    /\ p' = [p EXCEPT !.closed = TRUE, !.client = 0]
    /\ local' = [local EXCEPT ![g] = [Idle EXCEPT
                     !.pc = IF Active THEN "restore" ELSE "release",
                     !.op = "close", !.server = p.setDNS, !.client = p.client]]
    /\ UNCHANGED <<kind, conf, host, open, lapses>>

----------------------------------------------------------------------------
\* Where a call goes when refreshUpstreams returns: SetDNS writes the
\* configuration, UnsetDNS forgets the server unless a step of it failed.
Refreshed(g, ok) ==
    IF local[g].op = "set" /\ ok
      THEN Goto(g, "write")
      ELSE IF local[g].op = "unset" /\ ok /\ ~local[g].failed
             THEN Goto(g, "commit")
             ELSE Leave(g)

\* refreshUpstreams up to the comparison with the current upstreams.
refreshUpstreams(g) ==
    /\ local[g].pc = "refresh"
    /\ LET urls == Upstreams(p.servers, local[g].exclude)
       IN IF urls = {} \/ urls = p.sig
            THEN Refreshed(g, urls # {})
            ELSE local' = [local EXCEPT ![g].pc = "attach", ![g].urls = urls]
    /\ UNCHANGED <<kind, conf, host, p, open, lapses, left>>

\* Mutant: closed is not looked at before the client is attached.
MutAttach(g) ==
    /\ local[g].pc = "attach"
    /\ LET client == CHOOSE n \in 1..(Cardinality(open) + 1) : n \notin open
       IN /\ p' = [p EXCEPT !.client = client, !.sig = local[g].urls]
          /\ open' = (open \cup {client}) \ {p.client}
    /\ Refreshed(g, TRUE)
    /\ UNCHANGED <<kind, conf, host, lapses, left>>

\* The rest of refreshUpstreams: attach the new client unless the provider has
\* been closed, and close the old one.
Attach(g) ==
    /\ local[g].pc = "attach"
    /\ IF p.closed
         THEN UNCHANGED <<p, open>>
         ELSE LET client == CHOOSE n \in 1..(Cardinality(open) + 1) :
                                n \notin open
              IN /\ p' = [p EXCEPT !.client = client, !.sig = local[g].urls]
                 /\ open' = (open \cup {client}) \ {p.client}
    /\ Refreshed(g, ~p.closed)
    /\ UNCHANGED <<kind, conf, host, lapses, left>>

\* A call that has rolled the file back and is about to forget the server that
\* g writes: it cannot tell g's SetDNS from the one it has undone.
Overtaken(g) ==
    \E h \in Goroutine :
        /\ local[h].op \in {"unset", "close"} /\ ~local[h].failed
        /\ local[h].pc \in {"refresh", "attach", "commit"}
        /\ local[h].server = local[g].server

\* What the host holds when WriteFile or the command reports an error: the old
\* contents, the new ones, or part of the new ones.  resolvconf replaces the
\* file as a whole.
AfterError(new) ==
    {conf, new} \cup (IF kind = "direct" THEN Interrupted(new) ELSE {})

\* SetDNS writes the file or adds the record.
Write(g) ==
    /\ local[g].pc = "write"
    /\ LET new == Managed(local[g].server)
       IN \/ /\ conf' = new
             /\ lapses' = lapses \cup {x \in {"overtaken"} : Overtaken(g)}
             /\ Goto(g, "commit") /\ UNCHANGED left
          \/ /\ Use("fails")
             /\ conf' \in AfterError(new)
             /\ lapses' = lapses \cup {x \in {"write"} : conf' # conf}
             /\ Leave(g)
    /\ UNCHANGED <<kind, host, p, open>>

\* The assignment of setDNS and setDNSActive at the end of the three calls.
Commit(g) ==
    /\ local[g].pc = "commit"
    /\ p' = [p EXCEPT !.setDNS =
                 CASE local[g].op = "set" -> local[g].server
                   [] local[g].op # "set" /\ @ = local[g].server -> NoServer
                   [] OTHER -> @]
    /\ IF local[g].op = "close" THEN Goto(g, "release") ELSE Leave(g)
    /\ UNCHANGED <<kind, conf, host, open, lapses, left>>

\* Mutant: Close forgets the server although the rollback failed.
MutRestored(g, ok) ==
    local' = [local EXCEPT
                 ![g].pc = IF local[g].op = "unset" THEN "refresh"
                           ELSE "commit"]

\* UnsetDNS goes on to refreshUpstreams whatever the rollback returned; Close
\* forgets the server only when the rollback succeeded.
Restored(g, ok) ==
    local' = [local EXCEPT
                 ![g].pc = IF local[g].op = "unset" THEN "refresh"
                           ELSE IF ok THEN "commit" ELSE "release",
                 ![g].failed = ~ok]

\* restoreResolvConfIfOwned: a file that is there and was written by someone
\* else is left alone.
restoreResolvConfIfOwned(g) ==
    /\ kind = "direct" /\ local[g].pc = "restore"
    /\ \/ /\ IF conf.by \in {"self", "none"}
               THEN Goto(g, "rewrite")
               ELSE Restored(g, TRUE)
          /\ UNCHANGED left
       \/ Use("fails") /\ Restored(g, FALSE)
    /\ UNCHANGED <<kind, conf, host, p, open, lapses>>

\* The write of the saved contents, or the removal when there were none.
Rewrite(g) ==
    /\ local[g].pc = "rewrite"
    /\ \/ conf' = p.original /\ Restored(g, TRUE) /\ UNCHANGED <<lapses, left>>
       \/ /\ Use("fails")
          /\ conf' \in AfterError(p.original)
          /\ lapses' = lapses \cup {x \in {"restore"} : conf' \notin {conf, p.original}}
          /\ Restored(g, FALSE)
    /\ UNCHANGED <<kind, host, p, open>>

\* runResolvconf -d: resolvconf regenerates the file without the record.
DeleteRecord(g) ==
    /\ kind = "record" /\ local[g].pc = "restore"
    /\ \/ conf' = host /\ Restored(g, TRUE) /\ UNCHANGED left
       \/ Use("fails") /\ conf' \in {conf, host} /\ Restored(g, FALSE)
    /\ UNCHANGED <<kind, host, p, open, lapses>>

\* The end of Close: the router and the forwarding client are closed.
Release(g) ==
    /\ local[g].pc = "release"
    /\ open' = open \ {local[g].client}
    /\ Leave(g)
    /\ UNCHANGED <<kind, conf, host, p, lapses, left>>

----------------------------------------------------------------------------
\* Another program (a DHCP client, an administrator) writes resolv.conf or
\* removes it.  resolvconf keeps the record's nameservers in the file.
\* Removing the managed file does not say what the host wants instead.
Foreign(s) ==
    /\ Use("foreign")
    /\ \/ /\ host' = [by |-> "other", servers |-> {s}]
          /\ conf' = IF kind = "record" /\ conf.by = "self" THEN conf
                     ELSE host'
       \/ /\ kind = "direct" /\ conf' = Absent
          /\ host' = IF conf.by = "self" THEN host ELSE Absent
    /\ lapses' = lapses \cup {x \in {"overwritten"} :
                               \E g \in Goroutine : local[g].pc = "rewrite"}
    /\ UNCHANGED <<kind, p, local, open>>

\* What a call that is writing the file may leave of it when the process dies.
CutShort(g) ==
    CASE kind = "direct" /\ local[g].pc = "write" ->
             Interrupted(Managed(local[g].server))
      [] kind = "direct" /\ local[g].pc = "rewrite" -> Interrupted(p.original)
      [] OTHER -> {}

\* The process dies, with a call in flight or not, and starts again.  The
\* constructor refuses a host without any upstream.
Crash ==
    /\ Use("crashes")
    /\ conf' \in {conf} \cup UNION {CutShort(g) : g \in Goroutine}
    /\ Upstreams(conf'.servers, {}) # {}
    /\ p' = NewProvider(conf')
    /\ local' = [g \in Goroutine |-> Idle]
    /\ open' = {1} /\ lapses' = {}
    /\ UNCHANGED <<kind, host>>

FileInit ==
    /\ kind \in {"direct", "record"}
    /\ conf \in {Absent} \cup [by : {"host"}, servers : SUBSET Server]
    /\ Upstreams(conf.servers, {}) # {}
    /\ host = conf
    /\ p = NewProvider(conf)
    /\ local = [g \in Goroutine |-> Idle]
    /\ open = {1}
    /\ lapses = {}
    /\ left = [calls |-> MaxDNSCalls, fails |-> MaxDNSFails,
                 foreign |-> MaxForeign, crashes |-> MaxCrashes]

CallStep(g) ==
    \/ refreshUpstreams(g) \/ Attach(g) \/ Write(g) \/ Commit(g)
    \/ restoreResolvConfIfOwned(g) \/ Rewrite(g) \/ DeleteRecord(g)
    \/ Release(g)

FileNext ==
    \/ \E g \in Goroutine : CallStep(g)
    \/ \E g \in Setter, s \in Server : SetDNS(g, s)
    \/ \E g \in Setter : UnsetDNS(g)
    \/ \E g \in Closer : Close(g)
    \/ \E s \in Server : Foreign(s)
    \/ Crash

FileSpec == FileInit /\ [][FileNext]_fileVars

----------------------------------------------------------------------------
Quiet == \A g \in Goroutine : local[g].pc = "idle"

(***************************************************************************)
(* dns.go: a provider "should NEVER use server set up via SetDNS to serve  *)
(* Requests queue to avoid loops".  While a server is set, at every step   *)
(* of every call, the attached forwarding client does not use it, and the  *)
(* client that is attached before the managed file is written already      *)
(* excludes the server in that file.                                       *)
(***************************************************************************)
NoLoop ==
    /\ p.setDNS \notin p.sig
    /\ \A g \in Goroutine :
           local[g].pc = "write" /\ ~p.closed => local[g].server \notin p.sig

(***************************************************************************)
(* The rollback of UnsetDNS and Close.  Between calls, with no server      *)
(* recorded as set, resolv.conf is what the constructor found or what      *)
(* another program made of it, also when a Close overlapped SetDNS or came *)
(* again after a rollback that failed: a server that may still be in the   *)
(* file stays recorded, so that another Close rolls it back.  When a write *)
(* of the rollback stopped half way the file may be a part of what the     *)
(* constructor found, for good.  The code does lose track of its file in   *)
(* two cases: SetDNS reported an error although it changed the file        *)
(* ("write"), and SetDNS wrote the very server that an overlapping Close   *)
(* had rolled back and then forgot ("overtaken").                          *)
(***************************************************************************)
RolledBack ==
    Quiet /\ ~Active /\ {"write", "overtaken"} \cap lapses = {} =>
        \/ conf \in {p.original, host, Absent}
        \/ "restore" \in lapses /\ conf \in Interrupted(p.original)

(***************************************************************************)
(* Every forwarding client that was created is closed: between calls the   *)
(* attached one is the only one open, and after Close none is, whichever   *)
(* way a Close overtakes a refreshUpstreams that is building a client.     *)
(***************************************************************************)
ClientsReleased == Quiet => open = IF p.closed THEN {} ELSE {p.client}

(***************************************************************************)
(* README.md: the program "restores the previous configuration when the    *)
(* VPN closes".  After UnsetDNS or Close, resolv.conf is what it would be  *)
(* without this program.                                                   *)
(***************************************************************************)
RestoresPrevious ==
    Quiet /\ ~Active /\ lapses = {} /\ left.crashes = MaxCrashes => conf = host

(***************************************************************************)
(* dns.go: changes done by SetDNS are "rolled back on close".  Once a      *)
(* provider is closed and no call of it is running, nothing of its own is  *)
(* in resolv.conf.                                                         *)
(***************************************************************************)
RolledBackOnClose ==
    Quiet /\ p.closed => conf \in {p.original, host, Absent}
=============================================================================
