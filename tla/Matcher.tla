------------------------------ MODULE Matcher ------------------------------
(***************************************************************************)
(* A matcher of flows by their processes (matcher.go, and compileRule of   *)
(* rules.go): BuildMatcher, Match and Close, against processes that start, *)
(* change and exit, and the rule tracker of p-mark that follows them.      *)
(*                                                                         *)
(* Of the name, the command line, the executable and the identities of a   *)
(* process only the one the rule looks at matters, and of that only        *)
(* whether the rule's pattern or list accepts it: such a process hits.     *)
(*                                                                         *)
(* Match checks closed under the mutex and reads ruleIDs later without it. *)
(* A slice is read as its length and its data, one after the other, so     *)
(* that a Close in between leaves a length without data.                   *)
(***************************************************************************)
EXTENDS Integers, FiniteSets

CONSTANTS
    Pid,      \* processes
    RuleTypes \* types of the rules that matchers are built from

ASSUME MatcherAssumption ==
    RuleTypes \subseteq {"comm", "cmd", "exec", "pid", "user", "uid", "group", "gid"}

VARIABLES
    matcher,    \* its rule type, closed, and whether ruleIDs holds an identifier
    registered, \* whether the tracker holds the rule
    tracked,    \* processes the tracker has found to match the rule
    process,    \* whether each process hits or misses, or is gone
    match,      \* the call of Match in progress, or its answer
    closing,    \* whether a Close has still to unregister the rule
    ever        \* history: processes that have hit since the matcher was built

matcherVars == <<matcher, registered, tracked, process, match, closing, ever>>

Hits == {p \in Pid : process[p] = "hits"}

NoMatcher == [type |-> "none", closed |-> FALSE, ids |-> FALSE]

\* through and watched are history: processes of the flow that have hit, and
\* that the tracker has matched, all along since the owner was looked up.
NoMatch == [pc |-> "idle", pids |-> {}, owner |-> "unknown", todo |-> {}, pid |-> {},
            len |-> 0, err |-> FALSE, through |-> {}, watched |-> {}]

----------------------------------------------------------------------------
(* Rules.                                                                  *)

\* Names of users and groups are compiled to their numbers.
compileRule(type) == CASE type = "user"  -> "uid"
                       [] type = "group" -> "gid"
                       [] OTHER          -> type

\* What Match reads of a process in procfs.
matcherFields(type) == CASE type = "comm" -> {"comm"}
                         [] type = "cmd"  -> {"cmdline"}
                         [] type = "exec" -> {"executable"}
                         [] OTHER         -> {}

\* The rule on what the lookup says of the owner of the socket.
ownerMatches(type, owner) == type # "cmd" /\ owner = "hits"

----------------------------------------------------------------------------
\* A rule that compileRule accepts is registered; another makes no matcher.
BuildMatcher(type) ==
    /\ matcher = NoMatcher
    /\ matcher' = [type |-> compileRule(type), closed |-> FALSE, ids |-> TRUE]
    /\ registered' = TRUE
    /\ ever' = Hits
    /\ UNCHANGED <<tracked, process, match, closing>>

Matching == match.pc \in {"lookup", "owner", "ids", "rules", "read"}

\* The call goes on, or returns with pc as its answer.
Goto(pc) == match' = [match EXCEPT !.pc = pc]

Answer(pc) == match' = [match EXCEPT !.pc = pc, !.todo = {}, !.pid = {}, !.len = 0]

MatchOnly == UNCHANGED <<matcher, registered, tracked, process, closing, ever>>

Match ==
    /\ matcher # NoMatcher /\ ~Matching
    /\ match' = [NoMatch EXCEPT !.pc = IF matcher.closed THEN "closed" ELSE "lookup"]
    /\ MatchOnly

\* The lookup fails, finds no owner, or gives processes that hold the socket and
\* what it knows of one of them; the user and group are those of the socket.
ownerLookup ==
    /\ match.pc = "lookup"
    /\ \/ Answer("failed")
       \/ Answer("unowned")
       \/ \E pids \in SUBSET {p \in Pid : process[p] # "gone"},
             owner \in {"hits", "misses", "unknown"} :
              /\ matcher.type \in {"comm", "exec"} =>
                     owner = "unknown" \/ \E p \in pids : process[p] = owner
              /\ matcher.type = "cmd" => owner = "unknown"
              /\ matcher.type = "pid" =>
                     owner = IF pids \cap Hits # {} THEN "hits" ELSE "misses"
              /\ match' = [match EXCEPT
                     !.pc = "owner", !.pids = pids, !.owner = owner, !.todo = pids,
                     !.through = pids \cap Hits,
                     !.watched = IF ~matcher.closed THEN pids \cap tracked ELSE {}]
    /\ MatchOnly

\* Mutant: the owner alone decides.
MutDirect ==
    /\ match.pc = "owner"
    /\ Answer(IF ownerMatches(matcher.type, match.owner) THEN "yes" ELSE "no")
    /\ MatchOnly

direct ==
    /\ match.pc = "owner"
    /\ IF ownerMatches(matcher.type, match.owner)
         THEN Answer("yes") ELSE Goto("ids")
    /\ MatchOnly

\* The process of the owner that is next, or the end of the loop; the length of ruleIDs.
nextPid ==
    /\ match.pc = "ids"
    /\ IF match.todo = {}
         THEN Answer(IF match.err THEN "failed" ELSE "no")
         ELSE \E p \in match.todo :
                match' = [match EXCEPT !.pc = "rules", !.todo = @ \ {p}, !.pid = {p},
                                       !.len = IF matcher.ids THEN 1 ELSE 0]
    /\ MatchOnly

Skip(failed) ==
    match' = [match EXCEPT !.pc = "ids", !.pid = {}, !.len = 0, !.err = @ \/ failed]

\* The data of ruleIDs, and what the tracker says of the process.
MatchesPID(p) == registered /\ p \in tracked

matchRules ==
    /\ match.pc = "rules"
    /\ IF match.len = 1 /\ ~matcher.ids THEN Answer("panic")
       ELSE IF match.len = 1 /\ \E p \in match.pid : MatchesPID(p) THEN Answer("yes")
       ELSE IF matcherFields(matcher.type) = {} THEN Skip(FALSE)
       ELSE match' = [match EXCEPT !.pc = "read", !.len = 0]
    /\ MatchOnly

\* A process that cannot be read is not one that does not match.
ReadFailed == Skip(TRUE)

\* procfs may refuse, and does for a process that is gone.
readMatcherProcessInfo ==
    /\ match.pc = "read"
    /\ \/ ReadFailed
       \/ match.pid \subseteq Hits /\ Answer("yes")
       \/ /\ \A p \in match.pid : process[p] = "misses"
          /\ Skip(FALSE)
    /\ MatchOnly

----------------------------------------------------------------------------
(* Close.                                                                  *)

MatcherClose ==
    /\ matcher # NoMatcher /\ ~matcher.closed
    /\ matcher' = [matcher EXCEPT !.closed = TRUE, !.ids = FALSE]
    /\ closing' = TRUE
    /\ match' = [match EXCEPT !.watched = {}]
    /\ UNCHANGED <<registered, tracked, process, ever>>

UnregisterRule ==
    /\ closing
    /\ registered' = FALSE /\ tracked' = {} /\ closing' = FALSE
    /\ UNCHANGED <<matcher, process, match, ever>>

----------------------------------------------------------------------------
(* Processes, and the tracker, which sees them later or not at all.        *)

\* A process starts, with an identifier used before or not, executes another
\* program, changes its identity, or exits.  A rule on process numbers hits by
\* the number alone.
Process(p) ==
    /\ \E now \in {"hits", "misses", "gone"} \ {process[p]} :
           /\ matcher.type = "pid" => now = "gone"
           /\ process' = [process EXCEPT ![p] = now]
           /\ ever' = IF now = "hits" THEN ever \cup {p} ELSE ever
    /\ match' = [match EXCEPT !.through = @ \ {p}]
    /\ UNCHANGED <<matcher, registered, tracked, closing>>

Track(p) ==
    /\ registered
    /\ \/ process[p] = "hits" /\ tracked' = tracked \cup {p} /\ UNCHANGED match
       \/ /\ tracked' = tracked \ {p}
          /\ match' = [match EXCEPT !.watched = @ \ {p}]
    /\ UNCHANGED <<matcher, registered, process, closing, ever>>

MatcherInit ==
    /\ matcher = NoMatcher /\ registered = FALSE /\ tracked = {}
    /\ process \in [Pid -> {"hits", "misses", "gone"}]
    /\ match = NoMatch /\ closing = FALSE /\ ever = {}

MatcherNext ==
    \/ \E type \in RuleTypes : BuildMatcher(type)
    \/ Match \/ ownerLookup \/ direct \/ nextPid \/ matchRules
    \/ readMatcherProcessInfo
    \/ MatcherClose \/ UnregisterRule
    \/ \E p \in Pid : Process(p) \/ Track(p)

MatcherSpec == MatcherInit /\ [][MatcherNext]_matcherVars
----------------------------------------------------------------------------
\* Match says yes of a flow only if the owner, or a process that held its
\* socket, has satisfied the rule since the matcher was built.  It says no
\* without an error only if no process of the flow has satisfied a rule on
\* names or numbers of processes all along, also when Close unregisters the
\* rule meanwhile and when a process exits or cannot be read; a rule on users
\* or groups relies on the tracker, so there only for processes the tracker has
\* matched all along.  A read of ruleIDs that meets a Close is the only crash.
MatchAnswers ==
    /\ match.pc = "yes" =>
           match.owner = "hits" \/ match.pids \cap ever # {}
    /\ match.pc = "no" =>
           /\ match.owner # "hits"
           /\ match.watched = {}
           /\ matcher.type \notin {"uid", "gid"} => match.through = {}
    /\ match.pc = "panic" => matcher.closed
=============================================================================
