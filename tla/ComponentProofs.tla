-------------------------- MODULE ComponentProofs --------------------------
(***************************************************************************)
(* Proofs about three components that share nothing: connection marks of   *)
(* any width and number, matchers over any number of processes, and the    *)
(* default TUN over any number of builds, failures and lost links.         *)
(***************************************************************************)
EXTENDS Connmark, Matcher, DefaultTun, TLAPS

(***************************************************************************)
(* Connection marks.  The invariant says that the table holds accepted     *)
(* marks and that, once a packet is sent, its connection carries the whole *)
(* value of the mark that selects it.  Two accepted marks never select the *)
(* same packet, so each chain sets at most one value; and a value is       *)
(* selected by its own mark.                                               *)
(***************************************************************************)

FlowType == [ct : SUBSET Bit, sent : SUBSET Bit, reply : SUBSET Bit,
             pc : {"silent", "sent", "reply"}]

\* The table is made of marks that normalizeMarks accepts, and the connection
\* of a packet that was sent has the value of the mark that selects it.
CInv ==
    /\ config \subseteq Mark /\ rules \subseteq Mark /\ flow \in FlowType
    /\ normalizeMarks(rules)
    /\ flow.pc # "silent" =>
           \A a \in rules : Selects(a, flow.sent) => flow.ct = a.value
    /\ ReplySelected

\* A mark selects its own value, whatever bits lie outside its mask.
LEMMA SelectsOwnValue ==
    ASSUME NEW a \in Mark
    PROVE  Selects(a, a.value)
BY DEF Selects

\* No packet is selected by two marks that normalizeMarks accepts together.
LEMMA SelectedOnce ==
    ASSUME NEW set \in SUBSET Mark, normalizeMarks(set),
           NEW a \in set, NEW c \in set, NEW m \in SUBSET Bit,
           Selects(a, m), Selects(c, m)
    PROVE  a = c
<1>1. a.value \cap (a.mask \cap c.mask) = m \cap (a.mask \cap c.mask)
  BY DEF Selects
<1>2. c.value \cap (a.mask \cap c.mask) = m \cap (a.mask \cap c.mask)
  BY DEF Selects
<1>3. marksOverlap(a, c)
  BY <1>1, <1>2 DEF marksOverlap
<1> QED
  BY <1>3 DEF normalizeMarks

\* A chain leaves the value of the mark that selects the packet.
LEMMA ChainSetsValue ==
    ASSUME rules \subseteq Mark, normalizeMarks(rules),
           NEW a \in rules, NEW m \in SUBSET Bit, NEW x, Selects(a, m)
    PROVE  RunChain(m, x) = a.value
<1> DEFINE hits == {c \in rules : Selects(c, m)}
<1>1. a \in hits
  OBVIOUS
<1>2. (CHOOSE c \in hits : TRUE) \in hits
  BY <1>1
<1>3. (CHOOSE c \in hits : TRUE) = a
  BY <1>1, <1>2, SelectedOnce
<1> QED
  BY <1>1, <1>3, Zenon DEF RunChain

\* A chain leaves a mark.
LEMMA ChainType ==
    ASSUME rules \subseteq Mark, NEW m \in SUBSET Bit, NEW x \in SUBSET Bit
    PROVE  RunChain(m, x) \in SUBSET Bit
<1> DEFINE hits == {c \in rules : Selects(c, m)}
<1>1. CASE hits = {}
  BY <1>1 DEF RunChain
<1>2. CASE hits # {}
  <2>1. (CHOOSE c \in hits : TRUE) \in Mark
    BY <1>2
  <2>2. (CHOOSE c \in hits : TRUE).value \in SUBSET Bit
    BY <2>1 DEF Mark
  <2> QED
    BY <1>2, <2>2 DEF RunChain
<1> QED
  BY <1>1, <1>2

\* Without a table and a connection the invariant holds.
LEMMA CInvInit == ConnmarkInit => CInv
BY DEF ConnmarkInit, NoFlow, CInv, FlowType, normalizeMarks, ReplySelected

\* Requests to the kernel and packets keep the invariant.
LEMMA CInvNext == CInv /\ [ConnmarkNext]_connmarkVars => CInv'
<1> SUFFICES ASSUME CInv, [ConnmarkNext]_connmarkVars PROVE CInv'
  OBVIOUS
<1> USE DEF CInv
<1>0. ASSUME NEW marks \in SUBSET Mark, normalizeMarks(marks), Table(marks),
             UNCHANGED config
      PROVE  CInv'
  <2>1. flow' \in FlowType /\ flow'.pc = "silent"
    BY <1>0, Zenon DEF Table, FlowType
  <2>2. normalizeMarks(rules)'
    BY <1>0 DEF Table, normalizeMarks
  <2> QED
    BY <1>0, <2>1, <2>2 DEF Table, ReplySelected
<1>1. normalizeMarks({})
  BY DEF normalizeMarks
<1>2. CASE UNCHANGED connmarkVars
  BY <1>2 DEF connmarkVars, normalizeMarks, ReplySelected, Selects
<1>3. CASE Apply
  BY <1>0, <1>1, <1>2, <1>3 DEF Apply, connmarkVars
<1>4. CASE Rollback
  BY <1>0, <1>1, <1>2, <1>4 DEF Rollback, connmarkVars
<1>5. ASSUME NEW meta \in SUBSET Bit, Output(meta) PROVE CInv'
  <2>1. saveMark(meta, flow.ct) \in SUBSET Bit
    BY ChainType DEF FlowType, saveMark
  <2>2. flow' \in FlowType /\ flow'.pc = "sent" /\ flow'.sent = meta
        /\ flow'.ct = saveMark(meta, flow.ct)
    BY <1>5, <2>1 DEF Output, FlowType
  <2>3. \A a \in rules : Selects(a, meta) => flow'.ct = a.value
    BY <2>2, ChainSetsValue DEF saveMark
  <2>4. (\A a \in rules : Selects(a, flow.sent) => flow.ct = a.value)'
    BY <1>5, <2>2, <2>3 DEF Output, Selects
  <2>5. normalizeMarks(rules)'
    BY <1>5 DEF Output, normalizeMarks
  <2> QED
    BY <1>5, <2>2, <2>4, <2>5 DEF Output, ReplySelected
<1>6. CASE Prerouting
  <2>1. restoreMark(flow.ct, {}) \in SUBSET Bit
    BY ChainType DEF FlowType, restoreMark
  <2>2. flow' \in FlowType /\ flow'.sent = flow.sent /\ flow'.ct = flow.ct
        /\ flow'.reply = restoreMark(flow.ct, {})
    BY <1>6, <2>1, Zenon DEF Prerouting, FlowType
  <2>3. ASSUME NEW a \in rules, Selects(a, flow.sent), NEW c \in rules
        PROVE  Selects(c, flow'.reply) <=> a = c
    <3>1. flow.ct = a.value
      BY <1>6, <2>3 DEF Prerouting
    <3>2. a.value \in SUBSET Bit /\ Selects(a, a.value)
      BY SelectsOwnValue DEF Mark
    <3>3. flow'.reply = a.value
      BY <2>2, <3>1, <3>2, ChainSetsValue DEF restoreMark
    <3> QED
      BY <3>2, <3>3, SelectedOnce
  <2>4. ReplySelected'
    BY <1>6, <2>2, <2>3 DEF Prerouting, ReplySelected, Selects
  <2>5. normalizeMarks(rules)'
    BY <1>6 DEF Prerouting, normalizeMarks
  <2> QED
    BY <1>6, <2>2, <2>4, <2>5 DEF Prerouting, Selects
<1> QED
  BY <1>2, <1>3, <1>4, <1>5, <1>6 DEF ConnmarkNext

\* Both directions of a connection are selected by the same mark, for marks of
\* any width and configurations of any size (normalizeMarks, saveMarkExprs and
\* restoreMarkExprs together).
THEOREM ReplySelectedHolds == ConnmarkSpec => []ReplySelected
<1>1. CInv => ReplySelected
  BY DEF CInv
<1> QED
  BY CInvInit, CInvNext, <1>1, PTL DEF ConnmarkSpec
----------------------------------------------------------------------------
(***************************************************************************)
(* Matchers.  The invariant follows the loop of Match over the processes   *)
(* of a flow: a process that has hit all along is one the loop has still   *)
(* to look at, or its reading has failed and is remembered; one that the   *)
(* tracker has matched all along is one the loop has still to ask about.   *)
(***************************************************************************)

Compiled == {"none", "comm", "cmd", "exec", "pid", "uid", "gid"}

Loop == {"ids", "rules", "read"}

PC == {"idle", "lookup", "owner", "yes", "no", "failed", "unowned", "closed",
       "panic"} \cup Loop

MatchType ==
    [pc : PC, pids : SUBSET Pid, owner : {"hits", "misses", "unknown"},
     todo : SUBSET Pid, pid : SUBSET Pid, len : {0, 1}, err : BOOLEAN,
     through : SUBSET Pid, watched : SUBSET Pid]

TypeInv ==
    /\ matcher \in [type : Compiled, closed : BOOLEAN, ids : BOOLEAN]
    /\ registered \in BOOLEAN /\ closing \in BOOLEAN
    /\ tracked \in SUBSET Pid /\ ever \in SUBSET Pid
    /\ process \in [Pid -> {"hits", "misses", "gone"}]
    /\ match \in MatchType

\* The matcher and the tracker: an open matcher has its rule registered, and
\* what is tracked has hit.
TrackerInv ==
    /\ matcher.type = "none" => matcher = NoMatcher /\ ~registered /\ match = NoMatch
    /\ matcher.type # "none" /\ ~matcher.closed => matcher.ids /\ registered
    /\ matcher.type # "none" => Hits \subseteq ever
    /\ closing => matcher.closed
    /\ tracked \subseteq ever
    /\ ~registered => tracked = {}

\* What is left to look at.
LoopInv ==
    /\ match.through \subseteq Hits
    /\ match.watched \subseteq tracked
    /\ matcher.closed => match.watched = {}
    /\ match.pid \subseteq match.pids /\ match.todo \subseteq match.pids
    /\ match.pc = "owner" =>
           /\ matcher.type = "cmd" => match.owner # "hits"
           /\ match.through \subseteq match.todo /\ match.watched \subseteq match.todo
           /\ matcher.type = "pid" /\ match.owner # "hits" => match.through = {}
    /\ match.pc \in Loop =>
           /\ match.owner # "hits"
           /\ match.watched \subseteq match.todo \cup match.pid
           /\ matcher.type \notin {"uid", "gid"} /\ ~match.err =>
                  match.through \subseteq match.todo \cup match.pid
           /\ matcher.type = "pid" => match.through = {}
    /\ match.pc \notin {"rules", "read"} => match.pid = {}
    /\ match.pc \in {"rules", "read"} => match.pid # {}
    /\ match.pc = "rules" /\ ~matcher.closed => match.len = 1
    /\ match.pc \in {"rules", "read"} =>
           \A p, q \in match.pid : p = q
    /\ match.pc = "read" =>
           match.watched \cap match.pid = {} /\ matcherFields(matcher.type) # {}

MInv == TypeInv /\ TrackerInv /\ LoopInv /\ MatchAnswers

\* No matcher, no call.
LEMMA MInvInit == MatcherInit => MInv
<1> SUFFICES ASSUME MatcherInit PROVE MInv
  OBVIOUS
<1>1. NoMatch \in MatchType
  BY DEF NoMatch, MatchType, PC
<1>2. TypeInv
  BY <1>1, Zenon DEF MatcherInit, TypeInv, NoMatcher, Compiled
<1>3. TrackerInv
  BY DEF MatcherInit, TrackerInv, NoMatcher
<1>4. LoopInv
  BY DEF MatcherInit, LoopInv, NoMatch, Loop
<1>5. MatchAnswers
  BY DEF MatcherInit, MatchAnswers, NoMatch
<1> QED
  BY <1>2, <1>3, <1>4, <1>5 DEF MInv

\* Match is a method of a matcher that was built.
LEMMA Called == ASSUME MInv, match.pc # "idle" PROVE matcher.type # "none"
<1>1. match # NoMatch
  BY DEF NoMatch
<1> QED
  BY <1>1 DEF MInv, TrackerInv

\* A step of Match alone has to care for the call only.
LEMMA MatchStep ==
    ASSUME MInv, MatchOnly, matcher.type # "none", match' \in MatchType
    PROVE  TypeInv' /\ TrackerInv' /\ Hits' = Hits
BY DEF MInv, TypeInv, TrackerInv, MatchOnly, Hits

\* A call returns without a claim.
LEMMA AnswerInv ==
    ASSUME MInv, MatchOnly, matcher.type # "none",
           NEW to \in {"yes", "no", "failed", "unowned", "panic"}, Answer(to),
           to = "yes" => match.owner = "hits" \/ match.pids \cap ever # {},
           to = "no" => /\ match.owner # "hits" /\ match.watched = {}
                        /\ matcher.type \notin {"uid", "gid"} => match.through = {},
           to = "panic" => matcher.closed
    PROVE  MInv'
<1>1. match \in MatchType
  BY DEF MInv, TypeInv
<1>2. match' = [match EXCEPT !.pc = to, !.todo = {}, !.pid = {}, !.len = 0]
  BY DEF Answer
<1>3. match' \in MatchType
  BY <1>1, <1>2, Zenon DEF MatchType, PC
<1>4. /\ match'.pc = to /\ match'.pids = match.pids /\ match'.owner = match.owner
      /\ match'.todo = {} /\ match'.pid = {}
      /\ match'.through = match.through /\ match'.watched = match.watched
  BY <1>1, <1>2 DEF MatchType
<1>5. TypeInv' /\ TrackerInv' /\ Hits' = Hits
  BY <1>3, MatchStep
<1>6. LoopInv'
  BY <1>4, <1>5 DEF LoopInv, MInv, MatchOnly, Loop
<1>7. MatchAnswers'
  BY <1>4 DEF MatchAnswers, MatchOnly
<1> QED
  BY <1>5, <1>6, <1>7 DEF MInv

\* The matcher is built before any call of Match.
LEMMA BuildMatcherInv ==
    ASSUME MInv, NEW type \in RuleTypes, BuildMatcher(type) PROVE MInv'
<1>1. compileRule(type) \in Compiled \ {"none"}
  BY MatcherAssumption DEF compileRule, Compiled
<1>2. matcher = NoMatcher /\ match = NoMatch /\ tracked = {}
  BY DEF MInv, TrackerInv, BuildMatcher, NoMatcher
<1>3. /\ matcher' = [type |-> compileRule(type), closed |-> FALSE, ids |-> TRUE]
      /\ registered' = TRUE /\ ever' = Hits /\ match' = NoMatch /\ tracked' = {}
      /\ process' = process /\ closing' = closing /\ Hits' = Hits
  BY <1>2 DEF BuildMatcher, Hits
<1>4. TypeInv'
  BY <1>1, <1>3, <1>2 DEF TypeInv, MInv, Hits
<1>5. TrackerInv'
  BY <1>1, <1>3, <1>2 DEF TrackerInv, MInv, NoMatcher
<1>6. LoopInv' /\ MatchAnswers'
  BY <1>3 DEF LoopInv, MatchAnswers, NoMatch, Loop
<1> QED
  BY <1>4, <1>5, <1>6 DEF MInv

\* A call of Match begins.
LEMMA MatchInv == ASSUME MInv, Match PROVE MInv'
<1>1. matcher.type # "none"
  BY DEF MInv, TrackerInv, Match
<1>2. PICK to \in {"closed", "lookup"} : match' = [NoMatch EXCEPT !.pc = to]
  BY DEF Match
<1>3. match' \in MatchType
  BY <1>2, Zenon DEF MatchType, NoMatch, PC
<1>4. TypeInv' /\ TrackerInv' /\ Hits' = Hits
  BY <1>1, <1>3, MatchStep DEF Match
<1>5. LoopInv' /\ MatchAnswers'
  BY <1>2 DEF LoopInv, MatchAnswers, NoMatch, Loop
<1> QED
  BY <1>4, <1>5 DEF MInv

\* The owner of the socket is looked up.
LEMMA LookupInv == ASSUME MInv, ownerLookup PROVE MInv'
<1>0. matcher.type # "none" /\ match.pc = "lookup" /\ MatchOnly
  BY Called, Zenon DEF ownerLookup
<1>1. CASE Answer("failed") \/ Answer("unowned")
  BY <1>0, <1>1, AnswerInv
<1>2. CASE \E pids \in SUBSET {p \in Pid : process[p] # "gone"},
              owner \in {"hits", "misses", "unknown"} :
               /\ matcher.type = "cmd" => owner = "unknown"
               /\ matcher.type = "pid" =>
                      owner = IF pids \cap Hits # {} THEN "hits" ELSE "misses"
               /\ match' = [match EXCEPT
                      !.pc = "owner", !.pids = pids, !.owner = owner, !.todo = pids,
                      !.through = pids \cap Hits,
                      !.watched = IF ~matcher.closed THEN pids \cap tracked ELSE {}]
  <2>1. PICK pids \in SUBSET Pid, owner \in {"hits", "misses", "unknown"} :
               /\ matcher.type = "cmd" => owner = "unknown"
               /\ matcher.type = "pid" =>
                      owner = IF pids \cap Hits # {} THEN "hits" ELSE "misses"
               /\ match' = [match EXCEPT
                      !.pc = "owner", !.pids = pids, !.owner = owner, !.todo = pids,
                      !.through = pids \cap Hits,
                      !.watched = IF ~matcher.closed THEN pids \cap tracked ELSE {}]
    BY <1>2, Zenon
  <2>2. match \in MatchType /\ match.pid = {}
    BY <1>0 DEF MInv, TypeInv, LoopInv
  <2>3. /\ match'.pc = "owner" /\ match'.pids = pids /\ match'.owner = owner
        /\ match'.todo = pids /\ match'.pid = {}
        /\ match'.through = pids \cap Hits
        /\ match'.watched = IF ~matcher.closed THEN pids \cap tracked ELSE {}
    BY <2>1, <2>2 DEF MatchType
  <2>4. match' \in MatchType
    BY <2>1, <2>2, Zenon DEF MatchType, PC
  <2>5. TypeInv' /\ TrackerInv' /\ Hits' = Hits
    BY <1>0, <2>4, MatchStep
  <2>6. LoopInv'
    BY <1>0, <2>1, <2>3, <2>5 DEF LoopInv, MInv, MatchOnly, Loop
  <2>7. MatchAnswers'
    BY <2>3 DEF MatchAnswers
  <2> QED
    BY <2>5, <2>6, <2>7 DEF MInv
<1> QED
  BY <1>1, <1>2, Zenon DEF ownerLookup

\* The rule is tried on the owner.
LEMMA DirectInv == ASSUME MInv, direct PROVE MInv'
<1>0. matcher.type # "none" /\ match.pc = "owner" /\ MatchOnly
  BY Called DEF direct
<1>1. CASE ownerMatches(matcher.type, match.owner)
  BY <1>0, <1>1, AnswerInv DEF direct, ownerMatches
<1>2. CASE ~ownerMatches(matcher.type, match.owner)
  <2>1. match \in MatchType /\ match.pid = {}
    BY <1>0 DEF MInv, TypeInv, LoopInv
  <2>2. match' = [match EXCEPT !.pc = "ids"]
    BY <1>2 DEF direct, Goto
  <2>3. /\ match'.pc = "ids" /\ match'.pids = match.pids /\ match'.owner = match.owner
        /\ match'.todo = match.todo /\ match'.pid = {}
        /\ match'.through = match.through /\ match'.watched = match.watched
    BY <2>1, <2>2 DEF MatchType
  <2>4. match' \in MatchType
    BY <2>1, <2>2 DEF MatchType, PC, Loop
  <2>5. TypeInv' /\ TrackerInv' /\ Hits' = Hits
    BY <1>0, <2>4, MatchStep
  <2>6. match.owner # "hits"
    BY <1>0, <1>2 DEF ownerMatches, MInv, LoopInv
  <2>7. LoopInv'
    BY <1>0, <2>3, <2>5, <2>6 DEF LoopInv, MInv, MatchOnly, Loop
  <2>8. MatchAnswers'
    BY <2>3 DEF MatchAnswers
  <2> QED
    BY <2>5, <2>7, <2>8 DEF MInv
<1> QED
  BY <1>1, <1>2

\* The loop takes its next process, or ends.
LEMMA NextPidInv == ASSUME MInv, nextPid PROVE MInv'
<1>0. matcher.type # "none" /\ match.pc = "ids" /\ MatchOnly /\ match \in MatchType
  BY Called, Zenon DEF nextPid, MInv, TypeInv
<1>1. CASE match.todo = {} /\ match.err
  BY <1>0, <1>1, AnswerInv DEF nextPid
<1>2. CASE match.todo = {} /\ ~match.err
  <2>1. /\ match.owner # "hits" /\ match.watched = {}
        /\ matcher.type \notin {"uid", "gid"} => match.through = {}
    BY <1>0, <1>2 DEF MInv, LoopInv, Loop
  <2> QED
    BY <1>0, <1>2, <2>1, AnswerInv DEF nextPid
<1>3. CASE match.todo # {}
  <2>1. PICK p \in match.todo :
            match' = [match EXCEPT !.pc = "rules", !.todo = @ \ {p}, !.pid = {p},
                                   !.len = IF matcher.ids THEN 1 ELSE 0]
    BY <1>3, Zenon DEF nextPid
  <2>2. p \in Pid
    BY <1>0 DEF MatchType
  <2>3. /\ match'.pc = "rules" /\ match'.pids = match.pids
        /\ match'.owner = match.owner /\ match'.todo = match.todo \ {p}
        /\ match'.pid = {p} /\ match'.through = match.through
        /\ match'.watched = match.watched /\ match'.err = match.err
        /\ match'.len = IF matcher.ids THEN 1 ELSE 0
    BY <1>0, <2>1 DEF MatchType
  <2>4. match' \in MatchType
    BY <1>0, <2>1, <2>2, Zenon DEF MatchType, PC, Loop
  <2>5. TypeInv' /\ TrackerInv' /\ Hits' = Hits
    BY <1>0, <2>4, MatchStep
  <2>6. ~matcher.closed => match'.len = 1
    BY <1>0, <2>3 DEF MInv, TrackerInv
  <2>7. match.pid = {} /\ match.todo \subseteq match.pids
    BY <1>0 DEF MInv, LoopInv
  <2>8. LoopInv'
    BY <1>0, <2>3, <2>5, <2>6, <2>7 DEF LoopInv, MInv, MatchOnly, Loop
  <2>9. MatchAnswers'
    BY <2>3 DEF MatchAnswers
  <2> QED
    BY <2>5, <2>8, <2>9 DEF MInv
<1> QED
  BY <1>1, <1>2, <1>3

\* The loop leaves a process that cannot be one of those it must not leave.
LEMMA SkipInv ==
    ASSUME MInv, MatchOnly, match.pc \in {"rules", "read"},
           NEW failed \in BOOLEAN, Skip(failed),
           match.watched \cap match.pid = {},
           \/ failed
           \/ matcher.type \in {"uid", "gid", "pid"}
           \/ match.through \cap match.pid = {}
    PROVE  MInv'
<1>0. matcher.type # "none" /\ match \in MatchType
  BY Called DEF MInv, TypeInv
<1>1. match' = [match EXCEPT !.pc = "ids", !.pid = {}, !.len = 0,
                             !.err = match.err \/ failed]
  BY DEF Skip
<1>2. /\ match'.pc = "ids" /\ match'.pids = match.pids /\ match'.owner = match.owner
      /\ match'.todo = match.todo /\ match'.pid = {}
      /\ match'.through = match.through /\ match'.watched = match.watched
      /\ match'.err <=> match.err \/ failed
  BY <1>0, <1>1 DEF MatchType
<1>3. (match.err \/ failed) \in BOOLEAN
  OBVIOUS
<1>4. match' \in MatchType
  BY <1>0, <1>1, <1>3, Zenon DEF MatchType, PC, Loop
<1>5. TypeInv' /\ TrackerInv' /\ Hits' = Hits
  BY <1>0, <1>4, MatchStep
<1>6. LoopInv'
  BY <1>2, <1>5 DEF LoopInv, MInv, MatchOnly, Loop
<1>7. MatchAnswers'
  BY <1>2 DEF MatchAnswers
<1> QED
  BY <1>5, <1>6, <1>7 DEF MInv

\* The tracker is asked about a process.
LEMMA MatchRulesInv == ASSUME MInv, matchRules PROVE MInv'
<1>0. matcher.type # "none" /\ match.pc = "rules" /\ MatchOnly /\ match \in MatchType
  BY Called DEF matchRules, MInv, TypeInv
<1>1. CASE match.len = 1 /\ ~matcher.ids
  <2>1. matcher.closed
    BY <1>0, <1>1 DEF MInv, TrackerInv
  <2> QED
    BY <1>0, <1>1, <2>1, AnswerInv DEF matchRules
<1>2. CASE /\ ~(match.len = 1 /\ ~matcher.ids)
           /\ match.len = 1 /\ \E p \in match.pid : MatchesPID(p)
  <2>1. match.pids \cap ever # {}
    BY <1>2 DEF MInv, TrackerInv, LoopInv, MatchesPID
  <2> QED
    BY <1>0, <1>2, <2>1, AnswerInv, Zenon DEF matchRules
<1>3. CASE ~(match.len = 1 /\ (~matcher.ids \/ \E p \in match.pid : MatchesPID(p)))
  <2>1. match.watched \cap match.pid = {}
    <3>1. CASE matcher.closed
      BY <3>1 DEF MInv, LoopInv
    <3>2. CASE ~matcher.closed
      BY <1>0, <1>3, <3>2 DEF MInv, LoopInv, TrackerInv, MatchesPID
    <3> QED
      BY <3>1, <3>2
  <2>2. CASE matcherFields(matcher.type) = {}
    <3>1. matcher.type \in {"uid", "gid", "pid"}
      BY <1>0, <2>2 DEF matcherFields, MInv, TypeInv, Compiled
    <3>2. Skip(FALSE)
      BY <1>3, <2>2, Zenon DEF matchRules
    <3> QED
      BY <1>0, <2>1, <3>1, <3>2, SkipInv, Zenon
  <2>3. CASE matcherFields(matcher.type) # {}
    <3>1. match' = [match EXCEPT !.pc = "read", !.len = 0]
      BY <1>3, <2>3, Zenon DEF matchRules
    <3>2. /\ match'.pc = "read" /\ match'.pids = match.pids
          /\ match'.owner = match.owner /\ match'.todo = match.todo
          /\ match'.pid = match.pid /\ match'.through = match.through
          /\ match'.watched = match.watched /\ match'.err = match.err
      BY <1>0, <3>1 DEF MatchType
    <3>3. match' \in MatchType
      BY <1>0, <3>1, Zenon DEF MatchType, PC, Loop
    <3>4. TypeInv' /\ TrackerInv' /\ Hits' = Hits
      BY <1>0, <3>3, MatchStep
    <3>5. matcher' = matcher /\ tracked' = tracked
      BY <1>0 DEF MatchOnly
    <3>6. matcherFields(matcher'.type) # {}
      BY <2>3, <3>5
    <3>7. LoopInv'
      BY <1>0, <2>1, <3>2, <3>4, <3>5, <3>6 DEF LoopInv, MInv, Loop
    <3>8. MatchAnswers'
      BY <3>2 DEF MatchAnswers
    <3> QED
      BY <3>4, <3>7, <3>8 DEF MInv
  <2> QED
    BY <2>2, <2>3
<1> QED
  BY <1>1, <1>2, <1>3

\* A process is read.
LEMMA ReadInv == ASSUME MInv, readMatcherProcessInfo PROVE MInv'
<1>0. matcher.type # "none" /\ match.pc = "read" /\ MatchOnly
  BY Called DEF readMatcherProcessInfo
<1>1. match.watched \cap match.pid = {} /\ match.pid # {} /\ match.pid \subseteq match.pids
  BY <1>0 DEF MInv, LoopInv
<1>2. CASE ReadFailed
  BY <1>0, <1>1, <1>2, SkipInv, Zenon DEF ReadFailed
<1>3. CASE match.pid \subseteq Hits /\ Answer("yes")
  <2>1. match.pids \cap ever # {}
    BY <1>0, <1>1, <1>3 DEF MInv, TrackerInv
  <2> QED
    BY <1>0, <1>3, <2>1, AnswerInv
<1>4. CASE (\A p \in match.pid : process[p] = "misses") /\ Skip(FALSE)
  <2>1. match.through \cap match.pid = {}
    BY <1>4 DEF MInv, LoopInv, Hits
  <2> QED
    BY <1>0, <1>1, <1>4, <2>1, SkipInv, Zenon
<1> QED
  BY <1>2, <1>3, <1>4, Zenon DEF readMatcherProcessInfo

\* A step of the others takes processes out of the two histories at most.
LEMMA HistoryInv ==
    ASSUME MInv, TypeInv', TrackerInv',
           NEW a \in SUBSET Pid, NEW c \in SUBSET Pid,
           match' = [match EXCEPT !.through = @ \ a, !.watched = @ \ c],
           matcher'.type = matcher.type, matcher.closed => matcher'.closed,
           ever \subseteq ever',
           match'.through \subseteq Hits', match'.watched \subseteq tracked',
           matcher'.closed => match'.watched = {}
    PROVE  MInv'
<1>1. match \in MatchType
  BY DEF MInv, TypeInv
<1>2. /\ match'.pc = match.pc /\ match'.pids = match.pids
      /\ match'.owner = match.owner /\ match'.todo = match.todo
      /\ match'.pid = match.pid /\ match'.err = match.err /\ match'.len = match.len
      /\ match'.through = match.through \ a /\ match'.watched = match.watched \ c
  BY <1>1 DEF MatchType
<1>3. matcherFields(matcher'.type) = matcherFields(matcher.type)
  OBVIOUS
<1>4. LoopInv'
  BY <1>2, <1>3 DEF LoopInv, MInv
<1>5. MatchAnswers'
  BY <1>2 DEF MatchAnswers, MInv
<1> QED
  BY <1>4, <1>5 DEF MInv

\* Close clears ruleIDs.
LEMMA CloseInv == ASSUME MInv, MatcherClose PROVE MInv'
<1>1. match \in MatchType /\ matcher.type # "none"
  BY DEF MInv, TypeInv, TrackerInv, MatcherClose
<1>2. match' = [match EXCEPT !.watched = {}]
  BY DEF MatcherClose
<1>3. match' = [match EXCEPT !.through = @ \ {}, !.watched = @ \ Pid]
  BY <1>1, <1>2, Zenon DEF MatchType
<1>4. match' \in MatchType /\ match'.watched = {} /\ match'.through = match.through
  BY <1>1, <1>2 DEF MatchType
<1>5. /\ matcher' = [matcher EXCEPT !.closed = TRUE, !.ids = FALSE] /\ closing' = TRUE
      /\ registered' = registered /\ tracked' = tracked /\ process' = process
      /\ ever' = ever /\ Hits' = Hits
  BY DEF MatcherClose, Hits
<1>6. matcher \in [type : Compiled, closed : BOOLEAN, ids : BOOLEAN]
  BY DEF MInv, TypeInv
<1>7. matcher'.type = matcher.type /\ matcher'.closed
  BY <1>5, <1>6
<1>8. TypeInv'
  BY <1>4, <1>5, <1>6, Zenon DEF TypeInv, MInv
<1>9. TrackerInv'
  BY <1>1, <1>5, <1>7 DEF TrackerInv, MInv
<1> QED
  BY <1>3, <1>4, <1>5, <1>7, <1>8, <1>9, HistoryInv, Zenon DEF MInv, LoopInv

\* The rule is unregistered.
LEMMA UnregisterInv == ASSUME MInv, UnregisterRule PROVE MInv'
<1>1. match \in MatchType /\ matcher.closed /\ match.watched = {}
  BY Zenon DEF MInv, TypeInv, TrackerInv, LoopInv, UnregisterRule
<1>2. /\ registered' = FALSE /\ tracked' = {} /\ closing' = FALSE
      /\ matcher' = matcher /\ process' = process /\ match' = match /\ ever' = ever
      /\ Hits' = Hits
  BY DEF UnregisterRule, Hits
<1>3. match' = [match EXCEPT !.through = @ \ {}, !.watched = @ \ {}]
  BY <1>1, <1>2, Zenon DEF MatchType
<1>4. TypeInv'
  BY <1>2, Zenon DEF TypeInv, MInv
<1>5. TrackerInv'
  BY <1>1, <1>2 DEF TrackerInv, MInv
<1> QED
  BY <1>1, <1>2, <1>3, <1>4, <1>5, HistoryInv, Zenon DEF MInv, LoopInv

\* A process starts, changes or exits.
LEMMA ProcessInv == ASSUME MInv, NEW p \in Pid, Process(p) PROVE MInv'
<1>1. match \in MatchType /\ process \in [Pid -> {"hits", "misses", "gone"}]
  BY DEF MInv, TypeInv
<1>2. PICK now \in {"hits", "misses", "gone"} :
          /\ process' = [process EXCEPT ![p] = now]
          /\ ever' = IF now = "hits" THEN ever \cup {p} ELSE ever
  BY Zenon DEF Process
<1>3. match' = [match EXCEPT !.through = @ \ {p}]
  BY DEF Process
<1>4. match' = [match EXCEPT !.through = @ \ {p}, !.watched = @ \ {}]
  BY <1>1, <1>3, Zenon DEF MatchType
<1>5. /\ match' \in MatchType /\ match'.watched = match.watched
      /\ match'.through = match.through \ {p}
  BY <1>1, <1>3 DEF MatchType
<1>6. Hits' \ {p} = Hits \ {p} /\ (p \in Hits' => now = "hits")
  BY <1>1, <1>2 DEF Hits
<1>7. /\ matcher' = matcher /\ registered' = registered /\ tracked' = tracked
      /\ closing' = closing
  BY DEF Process
<1>8. TypeInv'
  BY <1>1, <1>2, <1>5, <1>7 DEF TypeInv, MInv
<1>9. match = NoMatch => match' = NoMatch
  BY <1>3 DEF NoMatch
<1>10. TrackerInv'
  BY <1>2, <1>6, <1>7, <1>9 DEF TrackerInv, MInv
<1> QED
  BY <1>2, <1>4, <1>5, <1>6, <1>7, <1>8, <1>10, HistoryInv, Zenon DEF MInv, LoopInv

\* The tracker follows a process.
LEMMA TrackInv == ASSUME MInv, NEW p \in Pid, Track(p) PROVE MInv'
<1>1. match \in MatchType /\ registered /\ matcher.type # "none"
  BY DEF MInv, TypeInv, TrackerInv, Track
<1>2. /\ matcher' = matcher /\ registered' = registered /\ process' = process
      /\ closing' = closing /\ ever' = ever /\ Hits' = Hits
  BY DEF Track, Hits
<1>3. CASE process[p] = "hits" /\ tracked' = tracked \cup {p} /\ match' = match
  <2>1. match' = [match EXCEPT !.through = @ \ {}, !.watched = @ \ {}]
    BY <1>1, <1>3, Zenon DEF MatchType
  <2>2. TypeInv'
    BY <1>2, <1>3 DEF TypeInv, MInv
  <2>3. p \in ever
    BY <1>1, <1>3 DEF MInv, TrackerInv, Hits
  <2>4. TrackerInv'
    BY <1>1, <1>2, <1>3, <2>3 DEF TrackerInv, MInv
  <2> QED
    BY <1>2, <1>3, <2>1, <2>2, <2>4, HistoryInv, ZenonT(30) DEF MInv, LoopInv
<1>4. CASE /\ tracked' = tracked \ {p}
           /\ match' = [match EXCEPT !.watched = @ \ {p}]
  <2>1. match' = [match EXCEPT !.through = @ \ {}, !.watched = @ \ {p}]
    BY <1>1, <1>4, Zenon DEF MatchType
  <2>2. /\ match' \in MatchType /\ match'.through = match.through
        /\ match'.watched = match.watched \ {p}
    BY <1>1, <1>4 DEF MatchType
  <2>3. TypeInv'
    BY <1>2, <1>4, <2>2 DEF TypeInv, MInv
  <2>4. TrackerInv'
    BY <1>1, <1>2, <1>4 DEF TrackerInv, MInv
  <2> QED
    BY <1>2, <1>4, <2>1, <2>2, <2>3, <2>4, HistoryInv, ZenonT(30) DEF MInv, LoopInv
<1> QED
  BY <1>3, <1>4 DEF Track

\* What Match says is true of the processes of the flow for any number of
\* processes, whatever they, the tracker and a concurrent Close do.
THEOREM MatchAnswersHolds == MatcherSpec => []MatchAnswers
<1>1. MInv /\ [MatcherNext]_matcherVars => MInv'
  <2> SUFFICES ASSUME MInv, [MatcherNext]_matcherVars PROVE MInv'
    OBVIOUS
  <2>1. CASE UNCHANGED matcherVars
    BY <2>1 DEF matcherVars, MInv, TypeInv, TrackerInv, LoopInv, MatchAnswers, Hits
  <2>2. CASE MatcherNext
    BY <2>2, BuildMatcherInv, MatchInv, LookupInv, DirectInv, NextPidInv,
       MatchRulesInv, ReadInv, CloseInv, UnregisterInv, ProcessInv, TrackInv
       DEF MatcherNext
  <2> QED
    BY <2>1, <2>2
<1>2. MInv => MatchAnswers
  BY DEF MInv
<1> QED
  BY MInvInit, <1>1, <1>2, PTL DEF MatcherSpec
----------------------------------------------------------------------------
(***************************************************************************)
(* The default TUN.  NothingLeft and StateMatchesHost speak of the times   *)
(* between operations only, so the invariant follows every operation: what *)
(* a build has put on the host beside what the state records (its locals   *)
(* and the step tell which), what a failed build may still hold, what      *)
(* closeActive has yet to release, and what a setter and its restore leave *)
(* of the policy routing.                                                  *)
(***************************************************************************)

\* The steps of a build that has not failed, up to the commit.
AfterDNS      == {"killswitch", "commit"}
AfterConnmark == AfterDNS \cup {"setdns"}
AfterRoute    == AfterConnmark \cup {"connmark"}
AfterChecker  == AfterRoute \cup {"dnsif", "route"}
AfterServer   == AfterChecker \cup {"checker"}
Building      == AfterServer \cup {"configure", "server"}

Server == [id : Nat, ip : IP, resolver : Resolver \cup {NoResolver}]

Build == [tun : SUBSET Nat, recreated : BOOLEAN, ip : SUBSET IP, server : SUBSET Server,
          replaced : BOOLEAN, oldServer : SUBSET Server, rules : SUBSET Nat,
          pmark : SUBSET Nat, route : SUBSET [tun : SUBSET Nat, version : Nat],
          connmark : SUBSET {"table"}, stale : [Resource -> SUBSET (Nat \cup Server)],
          todo : Seq(Resource \ {"rules"})]

\* What may stay behind is none of these.
Sure == {"server", "tun"}

DTypes ==
    /\ DOMAIN st = Resource /\ DOMAIN host = Resource
    /\ b \in Build /\ n \in Nat /\ gen \in Nat /\ id \in 0..n
    /\ reader \in [id : Nat, gen : Nat, tun : SUBSET Nat]
    /\ st.server \subseteq Server /\ host.server \subseteq Server
    /\ st.tun \subseteq 0..n /\ st.rules \subseteq 0..n
    /\ \A s \in st.server : s.id =< n
    /\ resolver \in Resolver \cup {NoResolver}
    /\ lost \subseteq Resource \ Sure
    /\ pc \in Building \cup {"idle", "finish", "fail", "close", "system", "rollback", "reapply"}
    /\ active \in BOOLEAN
    /\ pc \in Building \cup {"finish", "fail", "rollback", "reapply"} => active
    /\ pc \in {"close", "system"} => ~active

\* The state of a default TUN that has been built.
Complete ==
    /\ st.rules = st.pmark /\ st.rules # {}
    /\ \E s \in st.server : s.ip \in st.dns /\ s.resolver = resolver
    /\ \A rc \in st.route : rc.tun = st.tun

IdleInv ==
    /\ pc = "idle" /\ active => \A x \in Resource \ lost : host[x] = st[x]
    /\ pc \in {"rollback", "reapply"} => \A x \in Resource \ (lost \cup {"route"}) : host[x] = st[x]
    /\ pc = "finish" => \A x \in Resource \ lost : host[x] \ b.stale[x] = st[x]
    /\ pc \in {"idle", "rollback", "reapply", "finish"} /\ active => Complete
    /\ pc \in {"idle", "system"} /\ ~active =>
           st = Nothing /\ \A x \in Resource \ lost : host[x] = {}

\* The native TUN, and the one that replaces it.
TunInv ==
    pc \in Building \cup {"fail"} =>
        /\ host.tun = st.tun \cup b.tun
        /\ IF b.recreated THEN b.tun = {n} /\ n \notin st.tun ELSE b.tun = st.tun

RulesInv ==
    /\ pc \in Building => /\ "rules" \notin lost => host.rules = st.rules \cup b.rules
                          /\ n \notin st.rules
                          /\ b.rules = (IF pc \in AfterChecker THEN {n} ELSE {})
                          /\ b.pmark = b.rules
                          /\ "pmark" \notin lost =>
                               host.pmark = IF pc \in AfterChecker THEN {n} ELSE st.pmark
    /\ pc = "fail" => /\ "rules" \notin lost => host.rules \subseteq st.rules \cup b.rules
                      /\ "pmark" \notin lost =>
                           host.pmark = {} \/ st.pmark # {} \/ b.pmark # {}

PolicyInv ==
    /\ pc \in Building =>
         /\ b.route = IF pc \in AfterRoute THEN {RoutingConfig(b.tun, n)} ELSE {}
         /\ "route" \notin lost => host.route = IF pc \in AfterRoute THEN b.route ELSE st.route
         /\ pc \notin AfterConnmark => b.connmark = {}
         /\ "connmark" \notin lost =>
              host.connmark = IF pc \in AfterConnmark THEN b.connmark ELSE st.connmark
         /\ "dns" \notin lost => host.dns = IF pc \in AfterDNS THEN b.ip ELSE st.dns
    /\ pc \in Building \cup {"fail"} =>
         /\ \A x \in {"dnsif", "killswitch"} \ lost : host[x] = st[x]
         /\ "route" \notin lost => host.route = {} \/ st.route # {} \/ b.route # {}
         /\ "connmark" \notin lost => host.connmark = {} \/ st.connmark # {} \/ b.connmark # {}
    /\ pc = "rollback" /\ "route" \notin lost => host.route # {}

ServerInv ==
    /\ \A s \in st.server : active => s.resolver = resolver
    /\ pc \in Building => /\ \A s \in st.server : s.id # n
                          /\ \E a \in IP : b.ip = {a}
    /\ pc \in {"configure", "server"} =>
         /\ host.server = st.server /\ b.server = st.server /\ b.oldServer = st.server
         /\ ~b.replaced
    /\ pc \in AfterServer =>
         /\ IF b.replaced
              THEN /\ host.server = b.oldServer \cup b.server /\ b.oldServer \subseteq st.server
                   /\ \A s \in b.server : s.id = n
              ELSE host.server = st.server /\ b.server = st.server
         /\ \A s \in b.server : s.resolver = resolver
         /\ \E s \in b.server : s.ip \in b.ip
    /\ pc = "fail" => host.server \subseteq st.server \cup (IF b.replaced THEN b.server ELSE {})

\* What closeActive has still to release, and will.
Due(x) ==
    /\ \E i \in 1..Len(b.todo) : b.todo[i] = x
    /\ IF x \in {"server", "killswitch", "tun"} THEN host[x] \subseteq st[x]
       ELSE Owned(x)

ClosingInv ==
    pc = "close" => /\ b.todo # <<>>
                    /\ \A x \in Resource \ lost : host[x] = {} \/ Due(x)

ReaderInv ==
    /\ reader.gen =< gen /\ reader.id =< n
    /\ active /\ reader.id = id /\ reader.tun # {} /\ reader.gen = gen => reader.tun = st.tun

\* UnsetDNS and the provider's Close find what SetDNS has set.
ManagedInv ==
    /\ managed \in BOOLEAN
    /\ "dns" \notin lost /\ host.dns # {} => managed
    /\ pc \in AfterDNS \cup {"finish"} => managed
    /\ pc \in {"idle", "rollback", "reapply"} /\ active => managed

DInv == /\ DTypes /\ IdleInv /\ TunInv /\ RulesInv /\ PolicyInv /\ ServerInv
        /\ ClosingInv /\ ReaderInv /\ OneServerPerAddress

----------------------------------------------------------------------------
(* The resources. *)

\* Every resource but the rules is released in the order of closeActive.
LEMMA ResourceNames ==
    Resource = {"rules", "server", "dns", "dnsif", "route", "connmark", "killswitch",
                "pmark", "tun"}
<1>1. DOMAIN closeOrder = 1..8
  BY DEF closeOrder
<1>2. {closeOrder[i] : i \in 1..8} =
        {"server", "dns", "dnsif", "route", "connmark", "killswitch", "pmark", "tun"}
  BY DEF closeOrder
<1> QED
  BY <1>1, <1>2 DEF Resource

\* What is changed of one resource, and of no other.
LEMMA OneResource ==
    ASSUME NEW h, DOMAIN h = Resource, NEW x \in Resource, NEW v
    PROVE  /\ DOMAIN [h EXCEPT ![x] = v] = Resource
           /\ [h EXCEPT ![x] = v][x] = v
           /\ \A y \in Resource : y # x => [h EXCEPT ![x] = v][y] = h[y]
  OBVIOUS

\* A default TUN that is not active holds nothing.
LEMMA NothingHeld ==
    DOMAIN Nothing = Resource /\ \A x \in Resource : Nothing[x] = {}
  BY DEF Nothing

\* The releases of closeActive.
LEMMA CloseOrder ==
    /\ closeOrder \in Seq(Resource \ {"rules"}) /\ closeOrder # <<>>
    /\ \A x \in Resource \ {"rules"} : \E i \in 1..Len(closeOrder) : closeOrder[i] = x
<1>1. closeOrder \in Seq(Resource \ {"rules"}) /\ Len(closeOrder) = 8
  BY ResourceNames DEF closeOrder
<1>2. /\ closeOrder[1] = "server" /\ closeOrder[2] = "dns" /\ closeOrder[3] = "dnsif"
      /\ closeOrder[4] = "route" /\ closeOrder[5] = "connmark"
      /\ closeOrder[6] = "killswitch" /\ closeOrder[7] = "pmark" /\ closeOrder[8] = "tun"
  BY DEF closeOrder
<1> QED
  BY <1>1, <1>2, ResourceNames

\* One release done, the rest of the list is what was due but the first.
LEMMA TodoRest ==
    ASSUME NEW S, NEW q \in Seq(S), q # <<>>
    PROVE  /\ Head(q) \in S /\ Tail(q) \in Seq(S)
           /\ \A x : (\E i \in 1..Len(q) : q[i] = x) =>
                  x = Head(q) \/ \E i \in 1..Len(Tail(q)) : Tail(q)[i] = x
<1>1. Len(q) \in Nat \ {0} /\ Len(Tail(q)) = Len(q) - 1 /\ Tail(q) \in Seq(S)
  OBVIOUS
<1>2. Head(q) = q[1] /\ q[1] \in S
  BY <1>1
<1>3. ASSUME NEW i \in 1..Len(q), i # 1 PROVE i - 1 \in 1..Len(Tail(q)) /\ Tail(q)[i - 1] = q[i]
  BY <1>1, <1>3
<1> QED
  BY <1>1, <1>2, <1>3

\* The locals of BuildDefaultTun have their types.
LEMMA NewBuildType == NewBuild \in Build
<1>1. Nothing \in [Resource -> SUBSET (Nat \cup Server)]
  BY DEF Nothing
<1>2. <<>> \in Seq(Resource \ {"rules"})
  OBVIOUS
<1> QED
  BY <1>1, <1>2 DEF NewBuild, Build

----------------------------------------------------------------------------
(* The steps of a build. *)

\* A build gives up before it has put anything in the place of what there was, but
\* for what it has recorded itself.
LEMMA GivesUp ==
    ASSUME DInv, pc \in Building, pc' = "fail",
           UNCHANGED <<active, id, st, resolver, gen, b, reader, n>>,
           DOMAIN host' = Resource,
           \A x \in {"tun", "dnsif", "killswitch"} : host'[x] = host[x],
           host'.server \subseteq host.server,
           lost \subseteq lost', lost' \subseteq Resource \ Sure,
           \A x \in {"rules", "pmark", "route", "connmark"} :
               host'[x] = host[x] \/ host'[x] = {} \/ x \in lost'
    PROVE  DInv'
<1>1. DTypes'
  BY Zenon DEF DInv, DTypes
<1>2. IdleInv' /\ ClosingInv'
  BY DEF IdleInv, ClosingInv
<1>3. TunInv'
  BY DEF DInv, TunInv
<1>4. RulesInv'
  <2>1. "rules" \notin lost => host.rules = st.rules \cup b.rules
    BY DEF DInv, RulesInv
  <2>2. "pmark" \notin lost => host.pmark = {} \/ st.pmark # {} \/ b.pmark # {}
    BY DEF DInv, RulesInv
  <2> QED
    BY <2>1, <2>2 DEF RulesInv, Building, AfterServer, AfterChecker, AfterRoute, AfterConnmark, AfterDNS
<1>5. PolicyInv'
  BY DEF DInv, PolicyInv, Building, AfterServer, AfterChecker, AfterRoute, AfterConnmark, AfterDNS
<1>6. ServerInv'
  <2>1. host.server \subseteq st.server \cup (IF b.replaced THEN b.server ELSE {})
    BY DEF DInv, ServerInv, Building, AfterServer
  <2> QED
    BY <2>1 DEF DInv, ServerInv, Building, AfterServer, AfterChecker, AfterRoute, AfterConnmark, AfterDNS
<1>7. ReaderInv'
  BY DEF DInv, ReaderInv
<1>8. OneServerPerAddress'
  BY Zenon DEF DInv, OneServerPerAddress
<1> QED
  BY <1>1, <1>2, <1>3, <1>4, <1>5, <1>6, <1>7, <1>8 DEF DInv

\* A step of a build that changes nothing but the step.
LEMMA GoesOn ==
    ASSUME DInv, pc = "configure", pc' = "server",
           UNCHANGED <<active, id, st, resolver, gen, b, host, lost, reader, n>>
    PROVE  DInv'
<1>1. DTypes'
  BY Zenon DEF DInv, DTypes, Building
<1>2. IdleInv' /\ ClosingInv'
  BY DEF IdleInv, ClosingInv
<1>3. TunInv' /\ RulesInv' /\ PolicyInv'
  BY Zenon DEF DInv, TunInv, RulesInv, PolicyInv, Building, AfterServer, AfterChecker, AfterRoute,
         AfterConnmark, AfterDNS
<1>4. ServerInv'
  BY DEF DInv, ServerInv, Building, AfterServer, AfterChecker, AfterRoute, AfterConnmark, AfterDNS
<1>5. ReaderInv' /\ OneServerPerAddress'
  BY DEF DInv, ReaderInv, OneServerPerAddress
<1> QED
  BY <1>1, <1>2, <1>3, <1>4, <1>5 DEF DInv

\* Configuring the native TUN.
LEMMA ConfigureLinkKeeps == ASSUME DInv, ConfigureLink PROVE DInv'
<1>0. /\ pc = "configure"
      /\ UNCHANGED <<active, id, st, resolver, gen, b, host, lost, reader, n>>
  BY DEF ConfigureLink
<1>1. pc' = "server" \/ pc' = "fail"
  BY DEF ConfigureLink
<1>2. CASE pc' = "server"
  BY <1>0, <1>2, GoesOn
<1>3. CASE pc' = "fail"
  <2>1. DOMAIN host' = Resource /\ lost' \subseteq Resource \ Sure
    BY <1>0 DEF DInv, DTypes
  <2> QED
    BY <1>0, <1>3, <2>1, GivesUp DEF Building
<1> QED
  BY <1>1, <1>2, <1>3

\* A step of a build that goes on leaves what is not its own as it was.
LEMMA OtherParts ==
    ASSUME DInv, pc \in Building, pc' \in Building,
           UNCHANGED <<active, id, resolver, gen, reader, n>>
    PROVE  /\ DTypes' => IdleInv' /\ ClosingInv'
           /\ st'.tun = st.tun => ReaderInv'
           /\ host'.server = host.server => OneServerPerAddress'
<1>1. IdleInv' /\ ClosingInv'
  BY DEF IdleInv, ClosingInv, Building, AfterServer, AfterChecker, AfterRoute, AfterConnmark, AfterDNS
<1>2. st'.tun = st.tun => ReaderInv'
  BY DEF DInv, ReaderInv
<1>3. host'.server = host.server => OneServerPerAddress'
  BY Zenon DEF DInv, OneServerPerAddress
<1> QED
  BY <1>1, <1>2, <1>3

\* The one server that Listen makes.
LEMMA OneServer ==
    ASSUME NEW k, NEW a, NEW r
    PROVE  LET made == [id : {k}, ip : {a}, resolver : {r}]
           IN /\ \A s \in made : s.id = k /\ s.ip = a /\ s.resolver = r
              /\ \E s \in made : s.ip = a
<1> DEFINE made == [id : {k}, ip : {a}, resolver : {r}]
<1>1. \A s \in made : s.id = k /\ s.ip = a /\ s.resolver = r
  OBVIOUS
<1>2. [id |-> k, ip |-> a, resolver |-> r] \in made
  OBVIOUS
<1> QED
  BY <1>1, <1>2, Zenon

\* The DNS server, kept or replaced; an old one on the same address is closed first.
LEMMA ListenDNSKeeps == ASSUME DInv, ListenDNS PROVE DInv'
<1> DEFINE same == {s \in b.server : s.ip \in b.ip}
           new  == [id : {n}, ip : b.ip, resolver : {resolver}]
<1>0. /\ pc = "server" /\ UNCHANGED <<active, id, st, resolver, gen, lost, reader, n>>
      /\ pc \in Building
  BY DEF ListenDNS, Listen, Building
<1>1. /\ DOMAIN host = Resource /\ "server" \in Resource /\ b \in Build
      /\ host.server = st.server /\ b.server = st.server /\ b.oldServer = st.server
      /\ ~b.replaced /\ lost \subseteq Resource \ Sure
  BY <1>0, ResourceNames DEF DInv, DTypes, ServerInv
<1>2. \/ /\ same # {} /\ pc' = "checker" /\ UNCHANGED <<b, host>>
      \/ /\ host' = [host EXCEPT !["server"] = (host.server \ same) \cup new]
         /\ b' = [b EXCEPT !.server = new, !.replaced = TRUE, !.oldServer = @ \ same]
         /\ pc' = "checker"
      \/ /\ host' = [host EXCEPT !["server"] = host.server \ same]
         /\ pc' = "fail" /\ UNCHANGED b
  BY DEF ListenDNS, Listen, Set
<1>3. PICK a \in IP : b.ip = {a}
  BY <1>0 DEF DInv, ServerInv
<1>4. CASE same # {} /\ pc' = "checker" /\ UNCHANGED <<b, host>>
  <2>1. DTypes'
    BY <1>0, <1>4, Zenon DEF DInv, DTypes, Building, AfterServer
  <2>2. TunInv' /\ RulesInv' /\ PolicyInv'
    BY <1>0, <1>4, Zenon DEF DInv, TunInv, RulesInv, PolicyInv, Building, AfterServer, AfterChecker,
         AfterRoute, AfterConnmark, AfterDNS
  <2>3. ServerInv'
    BY <1>0, <1>1, <1>4, Zenon DEF DInv, DTypes, ServerInv, Building, AfterServer, AfterChecker,
         AfterRoute, AfterConnmark, AfterDNS
  <2> QED
    BY <1>0, <1>4, <2>1, <2>2, <2>3, OtherParts DEF DInv, Building, AfterServer
<1>5. CASE /\ host' = [host EXCEPT !["server"] = (host.server \ same) \cup new]
           /\ b' = [b EXCEPT !.server = new, !.replaced = TRUE, !.oldServer = @ \ same]
           /\ pc' = "checker"
  <2>0. /\ \A s \in new : s.id = n /\ s.ip = a /\ s.resolver = resolver
        /\ \E s \in new : s.ip = a
    <3>1. new = [id : {n}, ip : {a}, resolver : {resolver}]
      BY <1>3, Zenon
    <3> HIDE DEF new
    <3> QED
      BY <3>1, OneServer, Zenon
  <2>1. /\ DOMAIN host' = Resource /\ host'.server = (host.server \ same) \cup new
        /\ \A y \in Resource : y # "server" => host'[y] = host[y]
    BY <1>1, <1>5, OneResource
  <2>2. n \in Nat /\ new \subseteq Server
    BY <1>3 DEF DInv, DTypes, Server
  <2>3. /\ b' \in Build /\ b'.server = new /\ b'.replaced /\ b'.oldServer = st.server \ same
        /\ b'.ip = b.ip /\ b'.tun = b.tun /\ b'.recreated = b.recreated /\ b'.rules = b.rules
        /\ b'.pmark = b.pmark /\ b'.route = b.route /\ b'.connmark = b.connmark
    BY <1>1, <1>5, <2>2, Zenon DEF Build
  <2>4. DTypes'
    BY <1>0, <1>1, <1>5, <2>1, <2>2, <2>3 DEF DInv, DTypes, Building, AfterServer
  <2>5. TunInv' /\ RulesInv' /\ PolicyInv'
    BY <1>0, <1>5, <2>1, <2>3, ResourceNames DEF DInv, TunInv, RulesInv, PolicyInv, Building,
         AfterServer, AfterChecker, AfterRoute, AfterConnmark, AfterDNS
  <2>6. /\ host'.server = b'.oldServer \cup b'.server
        /\ \A s \in b'.server : s.id = n /\ s.ip = a /\ s.resolver = resolver
        /\ \E s \in b'.server : s.ip \in b'.ip
    <3> HIDE DEF new, same
    <3> QED
      BY <1>1, <1>3, <2>0, <2>1, <2>3
  <2>7. ServerInv'
    BY <1>0, <1>1, <1>3, <1>5, <2>3, <2>6 DEF DInv, ServerInv, Building, AfterServer,
         AfterChecker, AfterRoute, AfterConnmark, AfterDNS
  <2>8. OneServerPerAddress'
    <3>1. \A s \in b'.oldServer : s \in host.server /\ s.ip # a
      BY <1>1, <1>3, <2>3
    <3> QED
      BY <2>6, <3>1, Zenon DEF DInv, OneServerPerAddress
  <2> QED
    BY <1>0, <1>5, <2>4, <2>5, <2>7, <2>8, OtherParts DEF DInv, Building, AfterServer
<1>6. CASE /\ host' = [host EXCEPT !["server"] = host.server \ same]
           /\ pc' = "fail" /\ UNCHANGED b
  <2>1. /\ DOMAIN host' = Resource /\ host'.server = host.server \ same
        /\ \A y \in Resource : y # "server" => host'[y] = host[y]
    BY <1>1, <1>6, OneResource
  <2>2. \A x \in {"tun", "rules", "dnsif", "killswitch", "pmark", "route", "connmark"} :
            host'[x] = host[x]
    BY <2>1, ResourceNames
  <2> QED
    BY <1>0, <1>1, <1>6, <2>1, <2>2, GivesUp
<1> QED
  BY <1>2, <1>4, <1>5, <1>6

\* The new rules replace the old ones in the checker before those are closed.
LEMMA InstallCheckerKeeps == ASSUME DInv, InstallChecker PROVE DInv'
<1>0. /\ pc = "checker" /\ UNCHANGED <<active, id, st, resolver, gen, lost, reader, n>>
      /\ pc \in Building
  BY DEF InstallChecker, Building, AfterServer
<1>1. /\ DOMAIN host = Resource /\ "rules" \in Resource /\ "pmark" \in Resource
      /\ b \in Build /\ n \in Nat
  BY ResourceNames DEF DInv, DTypes
<1>2. PICK mark, mine :
         /\ host' = [host EXCEPT !.rules = @ \cup {n}, !.pmark = mark]
         /\ b' = [b EXCEPT !.rules = {n}, !.pmark = mine]
         /\ \/ mark = {n} /\ mine = {n} /\ pc' \in {"dnsif", "fail"}
            \/ mark = host.pmark /\ mine = {} /\ pc' = "fail"
  <2>1. PICK installed, traversed \in BOOLEAN :
           /\ traversed => installed
           /\ host' = [host EXCEPT !.rules = @ \cup {n},
                                   !.pmark = IF installed THEN {n} ELSE @]
           /\ b' = [b EXCEPT !.rules = {n}, !.pmark = IF installed THEN {n} ELSE {}]
           /\ pc' = IF traversed THEN "dnsif" ELSE "fail"
    BY Zenon DEF InstallChecker, defaultTunChecker
  <2>2. CASE installed
    BY <2>1, <2>2, Zenon
  <2>3. CASE ~installed
    BY <1>1, <2>1, <2>3, Zenon
  <2> QED
    BY <2>2, <2>3, Zenon
<1>3. /\ DOMAIN host' = Resource /\ host'.rules = host.rules \cup {n} /\ host'.pmark = mark
      /\ \A y \in Resource : y # "rules" /\ y # "pmark" => host'[y] = host[y]
  BY <1>1, <1>2, Zenon
<1>4. /\ b' \in Build /\ b'.rules = {n} /\ b'.pmark = mine /\ b'.server = b.server
      /\ b'.replaced = b.replaced /\ b'.oldServer = b.oldServer
      /\ b'.ip = b.ip /\ b'.tun = b.tun /\ b'.recreated = b.recreated
      /\ b'.route = b.route /\ b'.connmark = b.connmark
  BY <1>1, <1>2, Zenon DEF Build
<1>5. host'.server = host.server /\ host'.tun = host.tun
      /\ \A y \in {"dns", "dnsif", "route", "connmark", "killswitch"} : host'[y] = host[y]
  BY <1>3, ResourceNames
<1>6. DTypes' /\ pc' \in Building \cup {"fail"}
  BY <1>0, <1>2, <1>3, <1>4, <1>5, Zenon DEF DInv, DTypes, Building, AfterServer, AfterChecker
<1>7. TunInv'
  BY <1>0, <1>4, <1>5, <1>6, Zenon DEF DInv, TunInv
<1>8. RulesInv'
  <2>1. ("rules" \notin lost => host.rules = st.rules) /\ n \notin st.rules
        /\ ("pmark" \notin lost => host.pmark = st.pmark)
    BY <1>0 DEF DInv, RulesInv, AfterChecker, AfterRoute, AfterConnmark, AfterDNS
  <2>2. "rules" \notin lost => host'.rules = st.rules \cup {n}
    BY <1>3, <2>1
  <2> QED
    BY <1>0, <1>2, <1>3, <1>4, <2>1, <2>2 DEF RulesInv, Building, AfterServer, AfterChecker, AfterRoute, AfterConnmark, AfterDNS
<1>9. PolicyInv'
  <2>1. /\ b.route = {} /\ b.connmark = {}
        /\ \A x \in {"dns", "dnsif", "route", "connmark", "killswitch"} \ lost : host[x] = st[x]
    BY <1>0 DEF DInv, PolicyInv, Building, AfterServer, AfterChecker,
         AfterRoute, AfterConnmark, AfterDNS
  <2>2. /\ b'.route = {} /\ b'.connmark = {}
        /\ \A x \in {"dns", "dnsif", "route", "connmark", "killswitch"} \ lost' : host'[x] = st'[x]
    BY <1>0, <1>4, <1>5, <2>1, Zenon
  <2> QED
    BY <1>2, <2>2, Zenon DEF PolicyInv, Building, AfterServer, AfterChecker,
         AfterRoute, AfterConnmark, AfterDNS
<1>10. ServerInv'
  BY <1>0, <1>2, <1>4, <1>5, <1>6 DEF DInv, ServerInv, Building, AfterServer, AfterChecker, AfterRoute, AfterConnmark, AfterDNS
<1>11. IdleInv' /\ ClosingInv'
  BY <1>2 DEF IdleInv, ClosingInv
<1>12. ReaderInv' /\ OneServerPerAddress'
  BY <1>0, <1>5 DEF DInv, ReaderInv, OneServerPerAddress
<1> QED
  BY <1>6, <1>7, <1>8, <1>9, <1>10, <1>11, <1>12 DEF DInv

\* defaultTunChecker gives up, and the rules it has registered are nobody's.
LEMMA CheckerFailsKeeps == ASSUME DInv, CheckerFails PROVE DInv'
<1>0. /\ pc = "checker" /\ pc' = "fail" /\ UNCHANGED <<active, id, st, resolver, gen, b, reader, n>>
      /\ pc \in Building
  BY DEF CheckerFails, Building, AfterServer
<1>1. DOMAIN host = Resource /\ "rules" \in Resource /\ lost \subseteq Resource \ Sure
  BY ResourceNames DEF DInv, DTypes
<1>2. CASE UNCHANGED <<host, lost>>
  BY <1>0, <1>1, <1>2, GivesUp
<1>3. CASE /\ host' = [host EXCEPT !["rules"] = host.rules \cup defaultTunChecker]
           /\ lost' = lost \cup {"rules"}
  <2>1. /\ DOMAIN host' = Resource /\ \A y \in Resource : y # "rules" => host'[y] = host[y]
        /\ lost \subseteq lost' /\ lost' \subseteq Resource \ Sure /\ "rules" \in lost'
    BY <1>1, <1>3, OneResource DEF Sure
  <2>2. \A x \in {"tun", "dnsif", "killswitch", "server", "pmark", "route", "connmark"} :
            host'[x] = host[x]
    BY <2>1, ResourceNames
  <2> QED
    BY <1>0, <2>1, <2>2, GivesUp
<1> QED
  BY <1>2, <1>3, Zenon DEF CheckerFails, Set

\* The interface of the DNS provider.
LEMMA DNSInterfaceKeeps == ASSUME DInv, setDefaultTunDNSInterface PROVE DInv'
<1>0. /\ pc = "dnsif" /\ UNCHANGED <<active, id, resolver, gen, b, lost, reader, n>>
      /\ pc \in Building
  BY DEF setDefaultTunDNSInterface, Building, AfterServer, AfterChecker
<1>1. /\ DOMAIN host = Resource /\ DOMAIN st = Resource /\ "dnsif" \in Resource
      /\ lost \subseteq Resource \ Sure
  BY ResourceNames DEF DInv, DTypes
<1>2. CASE pc' = "fail" /\ UNCHANGED <<host, st>>
  BY <1>0, <1>1, <1>2, GivesUp
<1>3. CASE /\ pc' = "route"
           /\ \/ UNCHANGED <<host, st>>
              \/ host' = [host EXCEPT !["dnsif"] = b.tun] /\ st' = [st EXCEPT !["dnsif"] = b.tun]
  <2>1. /\ DOMAIN host' = Resource /\ DOMAIN st' = Resource
        /\ host'.dnsif = st'.dnsif \/ (host'.dnsif = host.dnsif /\ st'.dnsif = st.dnsif)
        /\ \A y \in Resource : y # "dnsif" => host'[y] = host[y] /\ st'[y] = st[y]
    BY <1>1, <1>3, OneResource
  <2>2. \A y \in {"rules", "server", "tun", "dns", "route", "connmark", "killswitch", "pmark"} :
           host'[y] = host[y] /\ st'[y] = st[y]
    BY <2>1, ResourceNames
  <2>3. DTypes'
    BY <1>0, <1>3, <2>1, <2>2, Zenon DEF DInv, DTypes, Building, AfterServer, AfterChecker
  <2>4. TunInv' /\ RulesInv'
    BY <1>0, <1>3, <2>2, Zenon DEF DInv, TunInv, RulesInv, Building, AfterServer, AfterChecker, AfterRoute, AfterConnmark, AfterDNS
  <2>5. PolicyInv'
    <3>1. /\ b.route = {} /\ b.connmark = {}
          /\ \A x \in {"dns", "dnsif", "route", "connmark", "killswitch"} \ lost : host[x] = st[x]
      BY <1>0, Zenon DEF DInv, PolicyInv, Building, AfterServer, AfterChecker, AfterRoute,
           AfterConnmark, AfterDNS
    <3>2. \A x \in {"dns", "dnsif", "route", "connmark", "killswitch"} \ lost' : host'[x] = st'[x]
      BY <1>0, <2>1, <2>2, <3>1
    <3> QED
      BY <1>0, <1>3, <3>1, <3>2 DEF PolicyInv, Building, AfterServer, AfterChecker, AfterRoute,
           AfterConnmark, AfterDNS
  <2>6. ServerInv'
    BY <1>0, <1>3, <2>2 DEF DInv, ServerInv, Building, AfterServer, AfterChecker, AfterRoute, AfterConnmark, AfterDNS
  <2> QED
    BY <1>0, <1>3, <2>2, <2>3, <2>4, <2>5, <2>6, OtherParts DEF DInv, Building, AfterServer, AfterChecker
<1> QED
  BY <1>2, <1>3, Zenon DEF setDefaultTunDNSInterface, Set

\* The policy routing of the new TUN, or a guard.
LEMMA ApplyRoutingKeeps == ASSUME DInv, ApplyRouting PROVE DInv'
<1>0. /\ pc = "route" /\ UNCHANGED <<active, id, st, resolver, gen, reader, n>>
      /\ pc \in Building
  BY DEF ApplyRouting, Building, AfterServer, AfterChecker
<1>1. /\ DOMAIN host = Resource /\ "route" \in Resource /\ "route" \notin Sure
      /\ lost \subseteq Resource \ Sure /\ b \in Build /\ n \in Nat
  BY ResourceNames DEF DInv, DTypes, Sure
<1>2. \/ /\ host' = [host EXCEPT !["route"] = {RoutingConfig(b.tun, n)}]
         /\ b' = [b EXCEPT !.route = {RoutingConfig(b.tun, n)}]
         /\ pc' = "connmark" /\ UNCHANGED lost
      \/ pc' = "fail" /\ UNCHANGED <<b, host, lost>>
      \/ /\ host' = [host EXCEPT !["route"] = {}]
         /\ pc' = "fail" /\ UNCHANGED <<b, lost>>
      \/ /\ host' = [host EXCEPT !["route"] = {Guard}] /\ lost' = lost \cup {"route"}
         /\ pc' = "fail" /\ UNCHANGED b
  BY Zenon DEF ApplyRouting, Set
<1>3. CASE pc' = "fail"
  <2>1. \/ UNCHANGED <<b, host, lost>>
        \/ host' = [host EXCEPT !["route"] = {}] /\ UNCHANGED <<b, lost>>
        \/ /\ host' = [host EXCEPT !["route"] = {Guard}] /\ lost' = lost \cup {"route"}
           /\ UNCHANGED b
    BY <1>2, <1>3
  <2>2. /\ DOMAIN host' = Resource /\ \A y \in Resource : y # "route" => host'[y] = host[y]
        /\ host'.route = host.route \/ host'.route = {} \/ "route" \in lost'
    BY <1>1, <2>1, OneResource
  <2>3. UNCHANGED b /\ lost \subseteq lost' /\ lost' \subseteq Resource \ Sure
    BY <1>1, <2>1
  <2>4. host'.server = host.server
        /\ \A y \in {"tun", "rules", "dnsif", "killswitch", "pmark", "connmark"} : host'[y] = host[y]
    BY <2>2, ResourceNames
  <2> QED
    BY <1>0, <1>3, <2>2, <2>3, <2>4, GivesUp
<1>4. CASE /\ host' = [host EXCEPT !["route"] = {RoutingConfig(b.tun, n)}]
           /\ b' = [b EXCEPT !.route = {RoutingConfig(b.tun, n)}]
           /\ pc' = "connmark" /\ UNCHANGED lost
  <2>1. /\ DOMAIN host' = Resource /\ host'.route = {RoutingConfig(b.tun, n)}
        /\ \A y \in Resource : y # "route" => host'[y] = host[y]
    BY <1>1, <1>4, OneResource
  <2>2. \A y \in {"rules", "server", "tun", "dns", "dnsif", "connmark", "killswitch", "pmark"} :
           host'[y] = host[y]
    BY <2>1, ResourceNames
  <2>3. b.tun \in SUBSET Nat /\ {RoutingConfig(b.tun, n)} \subseteq [tun : SUBSET Nat, version : Nat]
    BY <1>1 DEF Build, RoutingConfig
  <2>4. /\ b' \in Build /\ b'.route = {RoutingConfig(b.tun, n)}
        /\ b'.rules = b.rules /\ b'.pmark = b.pmark /\ b'.server = b.server
        /\ b'.replaced = b.replaced /\ b'.oldServer = b.oldServer
        /\ b'.ip = b.ip /\ b'.tun = b.tun /\ b'.recreated = b.recreated
        /\ b'.connmark = b.connmark
    <3> HIDE DEF RoutingConfig
    <3> QED
      BY <1>1, <1>4, <2>3, Zenon DEF Build
  <2>5. DTypes'
    BY <1>0, <1>4, <2>1, <2>2, <2>4, Zenon DEF DInv, DTypes, Building, AfterServer, AfterChecker, AfterRoute
  <2>6. TunInv' /\ RulesInv'
    BY <1>0, <1>4, <2>2, <2>4 DEF DInv, TunInv, RulesInv, Building, AfterServer, AfterChecker, AfterRoute, AfterConnmark, AfterDNS
  <2>7. PolicyInv'
    BY <1>0, <1>4, <2>1, <2>2, <2>4 DEF DInv, PolicyInv, Building, AfterServer, AfterChecker, AfterRoute, AfterConnmark, AfterDNS
  <2>8. ServerInv'
    BY <1>0, <1>4, <2>2, <2>4 DEF DInv, ServerInv, Building, AfterServer, AfterChecker, AfterRoute, AfterConnmark, AfterDNS
  <2> QED
    BY <1>0, <1>4, <2>2, <2>5, <2>6, <2>7, <2>8, OtherParts DEF DInv, Building, AfterServer, AfterChecker, AfterRoute
<1> QED
  BY <1>2, <1>3, <1>4

\* The table of connection marks.
LEMMA ApplyConnmarkKeeps == ASSUME DInv, applyConnmark PROVE DInv'
<1>0. /\ pc = "connmark" /\ UNCHANGED <<active, id, st, resolver, gen, reader, n>>
      /\ pc \in Building
  BY DEF applyConnmark, Building, AfterServer, AfterChecker, AfterRoute
<1>1. /\ DOMAIN host = Resource /\ "connmark" \in Resource /\ "connmark" \notin Sure
      /\ lost \subseteq Resource \ Sure /\ b \in Build
  BY ResourceNames DEF DInv, DTypes, Sure
<1>2. b.connmark = {}
  BY <1>0 DEF DInv, PolicyInv, Building, AfterServer, AfterChecker, AfterRoute, AfterConnmark, AfterDNS
<1>3. \/ /\ host' = [host EXCEPT !["connmark"] = {"table"}]
         /\ b' = [b EXCEPT !.connmark = {"table"}] /\ pc' = "setdns" /\ UNCHANGED lost
      \/ /\ host' = [host EXCEPT !["connmark"] = {}] \/ UNCHANGED host
         /\ UNCHANGED b
         /\ \/ /\ pc' = "setdns" /\ lost' \in {lost, lost \cup {"connmark"}}
               /\ host'.connmark = {} \/ "connmark" \in lost'
            \/ pc' = "fail" /\ UNCHANGED lost
  BY Zenon DEF applyConnmark, Set
<1>4. /\ DOMAIN host' = Resource /\ \A y \in Resource : y # "connmark" => host'[y] = host[y]
      /\ \/ /\ host'.connmark = {"table"} /\ b' = [b EXCEPT !.connmark = {"table"}]
            /\ pc' = "setdns" /\ UNCHANGED lost
         \/ /\ pc' = "setdns" /\ UNCHANGED b /\ lost' \in {lost, lost \cup {"connmark"}}
            /\ host'.connmark = {} \/ "connmark" \in lost'
         \/ pc' = "fail" /\ UNCHANGED <<b, lost>> /\ host'.connmark \in {{}, host.connmark}
  BY <1>1, <1>3, OneResource
<1>5. \A y \in {"rules", "server", "tun", "dns", "dnsif", "route", "killswitch", "pmark"} :
         host'[y] = host[y]
  BY <1>4, ResourceNames
<1>6. /\ lost \subseteq lost' /\ lost' \subseteq Resource \ Sure
      /\ \A y \in Resource : y # "connmark" => (y \in lost' <=> y \in lost)
  BY <1>1, <1>4
<1>7. CASE pc' = "fail"
  BY <1>0, <1>4, <1>5, <1>6, <1>7, GivesUp
<1>8. CASE pc' = "setdns"
  <2>1. /\ b'.connmark = host'.connmark \/ "connmark" \in lost'
        /\ b'.rules = b.rules /\ b'.pmark = b.pmark /\ b'.server = b.server
        /\ b'.replaced = b.replaced /\ b'.oldServer = b.oldServer
        /\ b'.ip = b.ip /\ b'.tun = b.tun /\ b'.recreated = b.recreated
        /\ b'.route = b.route
    <3>1. CASE b' = [b EXCEPT !.connmark = {"table"}] /\ host'.connmark = {"table"}
      BY <1>1, <3>1, Zenon DEF Build
    <3>2. CASE UNCHANGED b /\ (host'.connmark = {} \/ "connmark" \in lost')
      BY <1>1, <1>2, <3>2, Zenon
    <3> QED
      BY <1>4, <1>8, <3>1, <3>2
  <2>2. b' \in Build
    <3>1. CASE b' = [b EXCEPT !.connmark = {"table"}] /\ host'.connmark = {"table"}
      BY <1>1, <3>1, Zenon DEF Build
    <3> QED
      BY <1>1, <1>4, <1>8, <3>1
  <2>5. DTypes'
    BY <1>0, <1>4, <1>5, <1>6, <1>8, <2>1, <2>2, Zenon DEF DInv, DTypes, Building, AfterServer, AfterChecker, AfterRoute, AfterConnmark
  <2>6. ("pmark" \notin lost' => "pmark" \notin lost) /\ ("rules" \notin lost' => "rules" \notin lost)
    BY <1>6
  <2>7. TunInv' /\ RulesInv'
    BY <1>0, <1>5, <1>8, <2>1, <2>6, Zenon DEF DInv, TunInv, RulesInv, Building, AfterServer, AfterChecker, AfterRoute, AfterConnmark, AfterDNS
  <2>8. PolicyInv'
    BY <1>0, <1>4, <1>5, <1>6, <1>8, <2>1 DEF DInv, PolicyInv, Building, AfterServer, AfterChecker, AfterRoute, AfterConnmark, AfterDNS
  <2>9. ServerInv'
    BY <1>0, <1>5, <1>8, <2>1, Zenon DEF DInv, ServerInv, Building, AfterServer, AfterChecker, AfterRoute, AfterConnmark, AfterDNS
  <2> QED
    BY <1>0, <1>5, <1>8, <2>5, <2>7, <2>8, <2>9, OtherParts DEF DInv, Building, AfterServer, AfterChecker, AfterRoute, AfterConnmark
<1> QED
  BY <1>4, <1>7, <1>8

\* The DNS address at the provider.
LEMMA SetProviderDNSKeeps == ASSUME DInv, SetProviderDNS PROVE DInv'
<1>0. /\ pc = "setdns" /\ UNCHANGED <<active, id, st, resolver, gen, b, reader, n>>
      /\ pc \in Building
  BY DEF SetProviderDNS, Building, AfterServer, AfterChecker, AfterRoute, AfterConnmark
<1>1. DOMAIN host = Resource /\ "dns" \in Resource /\ lost \subseteq Resource \ Sure
  BY ResourceNames DEF DInv, DTypes
<1>2. ASSUME NEW kept, pc' = "fail", host' = [host EXCEPT !["dns"] = kept],
             lost' = lost \cup {x \in {"dns"} : kept # host.dns}
      PROVE  DInv'
  <2>1. /\ DOMAIN host' = Resource /\ \A y \in Resource : y # "dns" => host'[y] = host[y]
        /\ lost \subseteq lost' /\ lost' \subseteq Resource \ Sure
    BY <1>1, <1>2, OneResource DEF Sure
  <2>2. \A x \in {"rules", "tun", "dnsif", "killswitch", "server", "pmark", "route", "connmark"} :
            host'[x] = host[x]
    BY <2>1, ResourceNames
  <2> QED
    BY <1>0, <1>2, <2>1, <2>2, GivesUp
<1>3. CASE pc' = "killswitch" /\ host' = [host EXCEPT !["dns"] = b.ip] /\ UNCHANGED lost
  <2>1. /\ DOMAIN host' = Resource /\ host'.dns = b.ip
        /\ \A y \in Resource : y # "dns" => host'[y] = host[y]
    BY <1>1, <1>3, OneResource
  <2>2. \A y \in {"rules", "server", "tun", "dnsif", "route", "connmark", "killswitch", "pmark"} :
           host'[y] = host[y]
    BY <2>1, ResourceNames
  <2>3. DTypes'
    BY <1>0, <1>3, <2>1, <2>2, Zenon DEF DInv, DTypes, Building, AfterServer, AfterChecker,
         AfterRoute, AfterConnmark, AfterDNS
  <2>4. TunInv' /\ RulesInv'
    BY <1>0, <1>3, <2>2, Zenon DEF DInv, TunInv, RulesInv, Building, AfterServer, AfterChecker, AfterRoute, AfterConnmark, AfterDNS
  <2>5. PolicyInv'
    BY <1>0, <1>3, <2>1, <2>2, Zenon DEF DInv, PolicyInv, Building, AfterServer, AfterChecker, AfterRoute, AfterConnmark, AfterDNS
  <2>6. ServerInv'
    BY <1>0, <1>3, <2>2, Zenon DEF DInv, ServerInv, Building, AfterServer, AfterChecker, AfterRoute, AfterConnmark, AfterDNS
  <2> QED
    BY <1>0, <1>3, <2>2, <2>3, <2>4, <2>5, <2>6, OtherParts
       DEF DInv, Building, AfterServer, AfterChecker, AfterRoute, AfterConnmark, AfterDNS
<1> QED
  BY <1>2, <1>3, Zenon DEF SetProviderDNS, Set

\* The killswitch, after which a build only commits.
LEMMA UpdateKillswitchKeeps == ASSUME DInv, updateKillswitch PROVE DInv'
<1>0. /\ pc = "killswitch" /\ UNCHANGED <<active, id, resolver, gen, b, lost, reader, n>>
      /\ pc \in Building
  BY DEF updateKillswitch, Building, AfterServer, AfterChecker, AfterRoute, AfterConnmark, AfterDNS
<1>1. /\ DOMAIN host = Resource /\ DOMAIN st = Resource /\ "killswitch" \in Resource
      /\ lost \subseteq Resource \ Sure
      /\ "killswitch" \notin lost => host.killswitch = st.killswitch
  BY <1>0, ResourceNames, Zenon DEF DInv, DTypes, PolicyInv
<1>2. CASE pc' = "fail" /\ UNCHANGED <<host, st>>
  BY <1>0, <1>1, <1>2, GivesUp, Zenon
<1>3. CASE /\ pc' = "commit"
           /\ \/ UNCHANGED <<host, st>>
              \/ /\ st.killswitch = {}
                 /\ host' = [host EXCEPT !["killswitch"] = host.killswitch \cup {n}]
                 /\ st' = [st EXCEPT !["killswitch"] = {n}]
  <2>1. /\ DOMAIN host' = Resource /\ DOMAIN st' = Resource
        /\ "killswitch" \notin lost => host'.killswitch = st'.killswitch
        /\ \A y \in Resource : y # "killswitch" => host'[y] = host[y] /\ st'[y] = st[y]
    BY <1>1, <1>3, OneResource
  <2>2. \A y \in {"rules", "server", "tun", "dnsif", "route", "connmark", "dns", "pmark"} :
           host'[y] = host[y] /\ st'[y] = st[y]
    BY <2>1, ResourceNames
  <2>3. DTypes'
    BY <1>0, <1>3, <2>1, <2>2, Zenon DEF DInv, DTypes, Building, AfterServer, AfterChecker,
         AfterRoute, AfterConnmark, AfterDNS
  <2>4. TunInv' /\ RulesInv'
    BY <1>0, <1>3, <2>2, Zenon DEF DInv, TunInv, RulesInv, Building, AfterServer, AfterChecker, AfterRoute, AfterConnmark, AfterDNS
  <2>5. PolicyInv'
    <3>1. /\ b.route = {RoutingConfig(b.tun, n)}
          /\ "route" \notin lost => host.route = b.route
          /\ "connmark" \notin lost =>
               host.connmark = b.connmark /\ (host.connmark = {} \/ st.connmark # {} \/ b.connmark # {})
          /\ "dns" \notin lost => host.dns = b.ip
          /\ "dnsif" \notin lost => host.dnsif = st.dnsif
      BY <1>0 DEF DInv, PolicyInv, Building, AfterServer, AfterChecker, AfterRoute,
           AfterConnmark, AfterDNS
    <3>2. \A x \in {"dnsif", "killswitch"} \ lost' : host'[x] = st'[x]
      BY <1>0, <2>1, <2>2, <3>1, Zenon
    <3>3. UNCHANGED <<b, n, lost, host.route, host.connmark, host.dns, st.connmark>>
      BY <1>0, <2>2, Zenon
    <3> QED
      BY <1>3, <3>1, <3>2, <3>3 DEF PolicyInv, Building, AfterServer, AfterChecker, AfterRoute,
           AfterConnmark, AfterDNS
  <2>6. ServerInv'
    BY <1>0, <1>3, <2>2, Zenon DEF DInv, ServerInv, Building, AfterServer, AfterChecker, AfterRoute, AfterConnmark, AfterDNS
  <2> QED
    BY <1>0, <1>3, <2>2, <2>3, <2>4, <2>5, <2>6, OtherParts, Zenon
       DEF DInv, Building, AfterServer, AfterChecker, AfterRoute, AfterConnmark, AfterDNS
<1> QED
  BY <1>2, <1>3, Zenon DEF updateKillswitch, Set

\* The commit makes the state what the build has put on the host.
LEMMA CommitKeeps == ASSUME DInv, Commit PROVE DInv'
<1>0. /\ pc = "commit" /\ pc' = "finish"
      /\ UNCHANGED <<active, id, resolver, host, lost, reader, n>>
  BY DEF Commit, CommitWith
<1>1. gen' = IF b.recreated THEN gen + 1 ELSE gen
  BY DEF Commit, CommitWith
<1>2. /\ DOMAIN host = Resource /\ DOMAIN st = Resource /\ b \in Build /\ n \in Nat
      /\ gen \in Nat /\ st.server \subseteq Server /\ st.tun \subseteq 0..n
      /\ \A s \in st.server : s.id =< n
  BY DEF DInv, DTypes
<1>3. /\ DOMAIN st' = Resource /\ st'.server = b.server /\ st'.dns = b.ip
      /\ st'.rules = b.rules /\ st'.route = b.route /\ st'.pmark = b.pmark
      /\ st'.connmark = b.connmark /\ st'.tun = b.tun
      /\ st'.dnsif = st.dnsif /\ st'.killswitch = st.killswitch
  BY <1>2, ResourceNames DEF Commit, CommitWith
<1> DEFINE stale == [Nothing EXCEPT !.tun = st.tun \ b.tun, !.rules = st.rules,
                                    !.server = IF b.replaced THEN b.oldServer ELSE {}]
<1>4. /\ stale.tun = st.tun \ b.tun /\ stale.rules = st.rules
      /\ stale.server = (IF b.replaced THEN b.oldServer ELSE {})
      /\ \A y \in {"dns", "dnsif", "route", "connmark", "killswitch", "pmark"} : stale[y] = {}
  BY NothingHeld, ResourceNames
<1>5. stale \in [Resource -> SUBSET (Nat \cup Server)]
  <2>1. st.tun \ b.tun \subseteq Nat /\ st.rules \subseteq Nat
    BY DEF DInv, DTypes
  <2>2. (IF b.replaced THEN b.oldServer ELSE {}) \subseteq Server
    BY <1>2 DEF Build
  <2>3. \A y \in Resource : stale[y] \subseteq Nat \cup Server
    BY <1>4, <2>1, <2>2, ResourceNames, Zenon
  <2> QED
    BY <2>3, NothingHeld
<1>6. b' = [b EXCEPT !.stale = stale]
  BY DEF Commit, CommitWith
<1>7. b' \in Build /\ b'.stale = stale
  <2> HIDE DEF stale
  <2> QED
    BY <1>2, <1>5, <1>6, Zenon DEF Build
<1>8. /\ host.tun = st.tun \cup b.tun
      /\ IF b.recreated THEN b.tun = {n} ELSE b.tun = st.tun
      /\ ("rules" \notin lost => host.rules = st.rules \cup b.rules) /\ n \notin st.rules
      /\ b.rules = {n} /\ b.pmark = {n} /\ ("pmark" \notin lost => host.pmark = {n})
  BY <1>0, Zenon DEF DInv, TunInv, RulesInv, Building, AfterServer, AfterChecker, AfterRoute, AfterConnmark, AfterDNS
<1>9. /\ b.route = {RoutingConfig(b.tun, n)} /\ ("route" \notin lost => host.route = b.route)
      /\ ("connmark" \notin lost => host.connmark = b.connmark)
      /\ ("dns" \notin lost => host.dns = b.ip)
      /\ \A x \in {"dnsif", "killswitch"} \ lost : host[x] = st[x]
  BY <1>0 DEF DInv, PolicyInv, Building, AfterServer, AfterChecker, AfterRoute, AfterConnmark, AfterDNS
<1>10. /\ IF b.replaced
            THEN /\ host.server = b.oldServer \cup b.server /\ b.oldServer \subseteq st.server
                 /\ \A s \in b.server : s.id = n
            ELSE host.server = st.server /\ b.server = st.server
       /\ \A s \in b.server : s.resolver = resolver
       /\ \E s \in b.server : s.ip \in b.ip
       /\ \A s \in st.server : s.id # n
  BY <1>0 DEF DInv, ServerInv, Building, AfterServer, AfterChecker, AfterRoute, AfterConnmark, AfterDNS
<1>11. \A x \in Resource \ lost : host[x] \ stale[x] = st'[x]
  <2> HIDE DEF stale
  <2>1. /\ host.tun \ stale.tun = st'.tun
        /\ "rules" \notin lost => host.rules \ stale.rules = st'.rules
    BY <1>3, <1>4, <1>8
  <2>2. host.server \ stale.server = st'.server
    <3>1. CASE b.replaced
      <4>1. b.oldServer \cap b.server = {}
        BY <1>10, <3>1
      <4>2. (b.oldServer \cup b.server) \ b.oldServer = b.server
        BY <4>1
      <4> QED
        BY <1>3, <1>4, <1>10, <3>1, <4>2
    <3>2. CASE ~b.replaced
      BY <1>3, <1>4, <1>10, <3>2, Zenon
    <3> QED
      BY <3>1, <3>2
  <2>3. \A x \in {"dns", "dnsif", "route", "connmark", "killswitch", "pmark"} \ lost :
            host[x] \ stale[x] = st'[x]
    <3>1. \A x \in {"dns", "dnsif", "route", "connmark", "killswitch", "pmark"} \ lost :
              host[x] = st'[x]
      BY <1>3, <1>8, <1>9, Zenon
    <3> QED
      BY <1>4, <3>1
  <2> QED
    BY <2>1, <2>2, <2>3, ResourceNames, Zenon
<1>12. Complete'
  <2>1. RoutingConfig(b.tun, n).tun = b.tun
    BY DEF RoutingConfig
  <2> QED
    BY <1>0, <1>3, <1>8, <1>9, <1>10, <2>1, Zenon DEF Complete
<1>13. DTypes'
  <2>1. st'.tun \subseteq 0..n /\ st'.rules \subseteq 0..n /\ gen' \in Nat
    BY <1>1, <1>2, <1>3, <1>8
  <2>2. st'.server \subseteq Server
    BY <1>2, <1>3 DEF Build
  <2>3. \A s \in st'.server : s.id =< n
    BY <1>2, <1>3, <1>10
  <2> QED
    BY <1>0, <1>3, <1>7, <2>1, <2>2, <2>3, Zenon DEF DInv, DTypes, Building, AfterServer, AfterChecker,
         AfterRoute, AfterConnmark, AfterDNS
<1>14. IdleInv'
  BY <1>0, <1>7, <1>11, <1>12, <1>13, Zenon DEF IdleInv, DTypes
<1>15. TunInv' /\ RulesInv' /\ PolicyInv' /\ ClosingInv'
  BY <1>0, Zenon DEF TunInv, RulesInv, PolicyInv, ClosingInv, Building, AfterServer, AfterChecker,
         AfterRoute, AfterConnmark, AfterDNS
<1>16. ServerInv'
  BY <1>0, <1>3, <1>10, Zenon DEF ServerInv, Building, AfterServer, AfterChecker, AfterRoute, AfterConnmark, AfterDNS
<1>17. ReaderInv'
  <2>1. CASE b.recreated
    BY <1>0, <1>1, <1>2, <2>1 DEF DInv, ReaderInv, DTypes
  <2>2. CASE ~b.recreated
    BY <1>0, <1>1, <1>3, <1>8, <2>2 DEF DInv, ReaderInv
  <2> QED
    BY <2>1, <2>2
<1>18. OneServerPerAddress'
  BY <1>0 DEF DInv, OneServerPerAddress
<1> QED
  BY <1>13, <1>14, <1>15, <1>16, <1>17, <1>18 DEF DInv

\* What the build has replaced is closed.
LEMMA FinishKeeps == ASSUME DInv, Finish PROVE DInv'
<1>0. /\ pc = "finish" /\ pc' = "idle" /\ b' = NewBuild
      /\ host' = [x \in Resource |-> host[x] \ b.stale[x]]
      /\ UNCHANGED <<active, id, st, resolver, gen, lost, reader, n>>
  BY DEF Finish
<1>1. active /\ Complete /\ \A x \in Resource \ lost : host[x] \ b.stale[x] = st[x]
  BY <1>0, Zenon DEF DInv, DTypes, IdleInv
<1>2. DOMAIN host' = Resource /\ \A x \in Resource : host'[x] = host[x] \ b.stale[x]
  BY <1>0
<1>3. host'.server \subseteq host.server
  BY <1>2, ResourceNames
<1>4. DTypes'
  BY <1>0, <1>2, <1>3, NewBuildType, Zenon DEF DInv, DTypes
<1>5. IdleInv'
  BY <1>0, <1>1, <1>2, Zenon DEF IdleInv, Complete
<1>6. TunInv' /\ RulesInv' /\ PolicyInv' /\ ClosingInv'
  BY <1>0, Zenon DEF TunInv, RulesInv, PolicyInv, ClosingInv, Building, AfterServer, AfterChecker,
         AfterRoute, AfterConnmark, AfterDNS
<1>7. ServerInv'
  BY <1>0, Zenon DEF DInv, ServerInv, Building, AfterServer, AfterChecker, AfterRoute, AfterConnmark, AfterDNS
<1>8. ReaderInv'
  BY <1>0, Zenon DEF DInv, ReaderInv
<1>9. OneServerPerAddress'
  BY <1>3, Zenon DEF DInv, OneServerPerAddress
<1> QED
  BY <1>4, <1>5, <1>6, <1>7, <1>8, <1>9 DEF DInv

\* closeActive begins with the rules gone and everything else still to be released.
LEMMA BeginsToClose ==
    ASSUME DInv, pc' = "close", active' = FALSE, b' = [NewBuild EXCEPT !.todo = closeOrder],
           UNCHANGED <<id, resolver, gen, reader, n>>,
           DOMAIN host' = Resource, DOMAIN st' = Resource,
           st'.server = st.server, st'.tun = st.tun, st'.rules = st.rules,
           host'.server \subseteq host.server, lost' \subseteq Resource \ Sure,
           host'.rules = {} \/ "rules" \in lost',
           host'.dns = {} \/ "dns" \in lost' \/ managed',
           \A x \in {"server", "killswitch", "tun"} \ lost' : host'[x] \subseteq st'[x],
           \A x \in {"dnsif", "route", "connmark", "pmark"} \ lost' :
               host'[x] = {} \/ st'[x] # {}
    PROVE  DInv'
<1>1. b' \in Build /\ b'.todo = closeOrder
  <2>1. NewBuild \in Build /\ closeOrder \in Seq(Resource \ {"rules"})
    BY NewBuildType, CloseOrder
  <2> QED
    BY <2>1, Zenon DEF Build
<1>2. DTypes'
  <2>1. active' \in BOOLEAN /\ ~active'
    BY Zenon
  <2> QED
    BY <1>1, <2>1, Zenon DEF DInv, DTypes, Building, AfterServer, AfterChecker, AfterRoute,
         AfterConnmark, AfterDNS
<1>3. ClosingInv'
  <2>1. b'.todo # <<>>
    BY <1>1, CloseOrder
  <2>2. ASSUME NEW x \in Resource \ lost', host'[x] # {} PROVE Due(x)'
    <3>1. x # "rules"
      BY <2>2
    <3>2. \E i \in 1..Len(b'.todo) : b'.todo[i] = x
      BY <1>1, <3>1, CloseOrder, Zenon
    <3>3. IF x \in {"server", "killswitch", "tun"} THEN host'[x] \subseteq st'[x]
          ELSE IF x = "dns" THEN managed' ELSE st'[x] # {}
      BY <2>2, <3>1, ResourceNames
    <3> QED
      BY <3>2, <3>3, Zenon DEF Due, Owned
  <2> QED
    BY <2>1, <2>2, Zenon DEF ClosingInv
<1>4. IdleInv' /\ TunInv' /\ RulesInv' /\ PolicyInv'
  BY DEF IdleInv, TunInv, RulesInv, PolicyInv, Building, AfterServer, AfterChecker,
         AfterRoute, AfterConnmark, AfterDNS
<1>5. ServerInv'
  BY DEF ServerInv, Building, AfterServer, AfterChecker, AfterRoute, AfterConnmark, AfterDNS
<1>6. ReaderInv'
  BY DEF DInv, ReaderInv
<1>7. OneServerPerAddress'
  BY Zenon DEF DInv, OneServerPerAddress
<1> QED
  BY <1>2, <1>3, <1>4, <1>5, <1>6, <1>7 DEF DInv

\* A build fails, and closeActive takes over.
LEMMA FailKeeps == ASSUME DInv, ManagedInv, Fail PROVE DInv'
<1> DEFINE undo == (IF st.pmark = {} /\ b.pmark # {} THEN {"pmark"} ELSE {})
                   \cup (IF b.connmark # {} THEN {"connmark"} ELSE {})
<1>0. /\ pc = "fail" /\ pc' = "close" /\ active' = FALSE
      /\ b' = [NewBuild EXCEPT !.todo = closeOrder]
      /\ st' = [st EXCEPT !["route"] = IF b.route # {} THEN b.route ELSE st.route]
      /\ UNCHANGED <<id, resolver, gen, reader, n>>
  BY DEF Fail, FailWith
<1>1. PICK bad \in SUBSET undo :
         /\ lost' = lost \cup bad
         /\ host' = [host EXCEPT
                !.tun = IF b.recreated THEN @ \ b.tun ELSE @,
                !.rules = @ \ (b.rules \cup st.rules),
                !.server = IF b.replaced THEN @ \ b.server ELSE @,
                !.pmark = IF "pmark" \in undo \ bad THEN {} ELSE @,
                !.connmark = IF "connmark" \in undo \ bad THEN {} ELSE @]
  BY Zenon DEF Fail, FailWith
<1>2. /\ DOMAIN host = Resource /\ DOMAIN st = Resource /\ lost \subseteq Resource \ Sure
  BY DEF DInv, DTypes
<1>3. /\ DOMAIN st' = Resource /\ st'.route = (IF b.route # {} THEN b.route ELSE st.route)
      /\ \A y \in Resource : y # "route" => st'[y] = st[y]
  BY <1>0, <1>2, OneResource, ResourceNames
<1> HIDE DEF undo
<1>4. /\ DOMAIN host' = Resource
      /\ host'.tun = (IF b.recreated THEN host.tun \ b.tun ELSE host.tun)
      /\ host'.rules = host.rules \ (b.rules \cup st.rules)
      /\ host'.server = (IF b.replaced THEN host.server \ b.server ELSE host.server)
      /\ host'.pmark = (IF "pmark" \in undo \ bad THEN {} ELSE host.pmark)
      /\ host'.connmark = (IF "connmark" \in undo \ bad THEN {} ELSE host.connmark)
      /\ \A y \in {"dns", "dnsif", "route", "killswitch"} : host'[y] = host[y]
  BY <1>1, <1>2, ResourceNames
<1>5. lost \subseteq lost' /\ lost' \subseteq Resource \ Sure
  BY <1>1, <1>2, ResourceNames DEF undo, Sure
<1>6. host'.rules = {} \/ "rules" \in lost'
  BY <1>0, <1>4, <1>5 DEF DInv, RulesInv, Building
<1>7. host'.server \subseteq host.server /\ host'.server \subseteq st.server
  BY <1>0, <1>4 DEF DInv, ServerInv
<1>8. host'.tun \subseteq st.tun
  BY <1>0, <1>4 DEF DInv, TunInv
<1>9. \A x \in {"dnsif", "killswitch"} \ lost : host[x] = st[x]
  BY <1>0 DEF DInv, PolicyInv
<1>10. \A x \in {"server", "killswitch", "tun"} \ lost' : host'[x] \subseteq st'[x]
  BY <1>3, <1>4, <1>5, <1>7, <1>8, <1>9, ResourceNames
<1>11. "pmark" \notin lost' => host'.pmark = {} \/ st'.pmark # {}
  <2>1. "pmark" \notin lost => host.pmark = {} \/ st.pmark # {} \/ b.pmark # {}
    BY <1>0 DEF DInv, RulesInv
  <2>2. st.pmark = {} /\ b.pmark # {} => "pmark" \in undo
    BY DEF undo
  <2> QED
    BY <1>1, <1>3, <1>4, <2>1, <2>2, ResourceNames
<1>12. "connmark" \notin lost' => host'.connmark = {} \/ st'.connmark # {}
  <2>1. "connmark" \notin lost => host.connmark = {} \/ st.connmark # {} \/ b.connmark # {}
    BY <1>0 DEF DInv, PolicyInv
  <2>2. b.connmark # {} => "connmark" \in undo
    BY DEF undo
  <2> QED
    BY <1>1, <1>3, <1>4, <2>1, <2>2, ResourceNames
<1>13. "route" \notin lost' => host'.route = {} \/ st'.route # {}
  <2>1. "route" \notin lost => host.route = {} \/ st.route # {} \/ b.route # {}
    BY <1>0 DEF DInv, PolicyInv
  <2> QED
    BY <1>1, <1>3, <1>4, <2>1
<1>14. "dnsif" \notin lost' => host'.dnsif = {} \/ st'.dnsif # {}
  BY <1>3, <1>4, <1>5, <1>9, ResourceNames
<1>15. st'.server = st.server /\ st'.tun = st.tun /\ st'.rules = st.rules
  BY <1>3, ResourceNames
<1>16. host'.dns = {} \/ "dns" \in lost' \/ managed'
  <2>1. managed' = managed
    BY DEF Fail, FailWith, Beside
  <2> QED
    BY <1>4, <1>5, <2>1 DEF ManagedInv
<1> QED
  BY <1>0, <1>3, <1>4, <1>5, <1>6, <1>7, <1>10, <1>16, <1>11, <1>12, <1>13, <1>14, <1>15,
     BeginsToClose, Zenon

----------------------------------------------------------------------------
(* The teardown. *)

\* A release of closeActive, or its failure.
LEMMA CloseStepKeeps == ASSUME DInv, ManagedInv, CloseStep PROVE DInv'
<1> DEFINE x == Head(b.todo)
           rest == Tail(b.todo)
<1>0. /\ pc = "close" /\ b' = [b EXCEPT !.todo = rest]
      /\ UNCHANGED <<active, id, resolver, gen, reader, n>>
  BY DEF CloseStep
<1>1. /\ DOMAIN host = Resource /\ DOMAIN st = Resource /\ lost \subseteq Resource \ Sure
      /\ b \in Build /\ b.todo \in Seq(Resource \ {"rules"}) /\ b.todo # <<>> /\ ~active
  BY <1>0 DEF DInv, DTypes, ClosingInv, Build
<1>2. /\ x \in Resource \ {"rules"} /\ rest \in Seq(Resource \ {"rules"})
      /\ \A y : (\E i \in 1..Len(b.todo) : b.todo[i] = y) =>
                  y = x \/ \E i \in 1..Len(rest) : rest[i] = y
  BY <1>1, TodoRest
<1>3. /\ \/ /\ host' = [host EXCEPT ![x] = IF Owned(x) THEN Left(x) ELSE host[x]]
            /\ UNCHANGED lost
         \/ UNCHANGED <<host, lost>> /\ x \in lost
         \/ UNCHANGED host /\ lost' = lost \cup {x} /\ x \notin {"server", "tun"}
            /\ host[x] # {}
      /\ x # "dns" => managed' = managed
      /\ st' = (IF rest = <<>> THEN Nothing ELSE st)
      /\ pc' \in {"close", "idle", "system"} /\ (pc' = "close" <=> rest # <<>>)
  <2>1. x # "dns" => managed' = managed
    BY DEF CloseStep, ManagedInv
  <2> QED
    BY <2>1, Zenon DEF CloseStep, Set
<1> HIDE DEF x, rest
<1>4. /\ DOMAIN host' = Resource /\ \A y \in Resource : y # x => host'[y] = host[y]
      /\ lost \subseteq lost' /\ DOMAIN st' = Resource
  BY <1>1, <1>2, <1>3, OneResource, NothingHeld
<1>5. b' \in Build /\ b'.todo = rest
  BY <1>0, <1>1, <1>2, Zenon DEF Build
<1>6. ASSUME NEW y \in Resource \ lost PROVE host[y] = {} \/ Due(y)
  BY <1>0, <1>6 DEF DInv, ClosingInv
<1>7. x \notin lost' => host'[x] = {}
  <2>1. ASSUME x \notin lost, host' = [host EXCEPT ![x] = IF Owned(x) THEN Left(x) ELSE host[x]]
        PROVE  host'[x] = {}
    <3>1. host'[x] = IF Owned(x) THEN Left(x) ELSE host[x]
      BY <1>1, <1>2, <2>1
    <3>2. host[x] = {} \/ Due(x)
      BY <1>2, <1>6, <2>1
    <3>3. CASE x \in {"server", "killswitch", "tun"}
      BY <3>1, <3>2, <3>3 DEF Due, Left, Owned
    <3>4. CASE x \notin {"server", "killswitch", "tun"}
      BY <3>1, <3>2, <3>4 DEF Due, Left
    <3> QED
      BY <3>3, <3>4
  <2> QED
    BY <1>3, <2>1
<1>8. host'.server \subseteq host.server /\ lost' \subseteq Resource \ Sure
  <2>1. lost' \subseteq Resource \ Sure
    BY <1>1, <1>2, <1>3 DEF Sure
  <2>2. "server" \in Resource \ lost'
    BY <2>1, ResourceNames DEF Sure
  <2> QED
    BY <1>4, <1>7, <2>1, <2>2
<1>9. DTypes'
  <2>1. /\ st'.server \subseteq Server /\ st'.tun \subseteq 0..n /\ st'.rules \subseteq 0..n
        /\ \A s \in st'.server : s.id =< n
    <3>1. \/ st' = st
          \/ st'.server = {} /\ st'.tun = {} /\ st'.rules = {}
      BY <1>3, NothingHeld, ResourceNames
    <3> QED
      BY <3>1 DEF DInv, DTypes
  <2>2. pc' \in {"close", "idle", "system"}
    BY <1>3
  <2> QED
    BY <1>0, <1>1, <1>4, <1>5, <1>8, <2>1, <2>2, Zenon DEF DInv, DTypes, Building, AfterServer,
         AfterChecker, AfterRoute, AfterConnmark, AfterDNS
<1>10. ASSUME NEW y \in Resource \ lost' PROVE host'[y] = {} \/ (rest # <<>> /\ Due(y)')
  <2>1. CASE y = x
    BY <1>7, <1>10, <2>1
  <2>2. CASE y # x
    <3>1. host'[y] = host[y] /\ (host[y] = {} \/ Due(y))
      BY <1>4, <1>6, <1>10, <2>2
    <3>2. ASSUME Due(y) PROVE \E i \in 1..Len(rest) : rest[i] = y
      BY <1>2, <2>2, <3>2, Zenon DEF Due
    <3>3. ASSUME Due(y) PROVE rest # <<>>
      BY <3>2, <3>3
    <3>4. ASSUME Due(y) PROVE Due(y)'
      <4>1. st' = st
        BY <1>3, <3>3, <3>4
      <4>2. Owned(y) => Owned(y)'
        BY <1>3, <2>2, <4>1 DEF Owned
      <4> QED
        BY <1>5, <3>1, <3>2, <3>4, <4>1, <4>2, Zenon DEF Due
    <3> QED
      BY <3>1, <3>3, <3>4
  <2> QED
    BY <2>1, <2>2
<1>11. ClosingInv'
  BY <1>3, <1>5, <1>10, Zenon DEF ClosingInv
<1>12. IdleInv'
  <2>1. CASE rest = <<>>
    BY <1>0, <1>1, <1>3, <1>10, <2>1 DEF IdleInv
  <2>2. CASE rest # <<>>
    BY <1>3, <2>2, Zenon DEF IdleInv
  <2> QED
    BY <2>1, <2>2
<1>13. TunInv' /\ RulesInv' /\ PolicyInv'
  BY <1>3, Zenon DEF TunInv, RulesInv, PolicyInv, Building, AfterServer, AfterChecker,
         AfterRoute, AfterConnmark, AfterDNS
<1>14. ServerInv' /\ ReaderInv'
  BY <1>0, <1>1, <1>3 DEF DInv, ServerInv, ReaderInv, Building, AfterServer, AfterChecker,
         AfterRoute, AfterConnmark, AfterDNS
<1>15. OneServerPerAddress'
  BY <1>8, Zenon DEF DInv, OneServerPerAddress
<1> QED
  BY <1>9, <1>11, <1>12, <1>13, <1>14, <1>15 DEF DInv

\* closeActive as defaultTun.Close and System.Close call it.
LEMMA CloseActiveKeeps ==
    ASSUME DInv, ManagedInv, pc = "idle", active, closeActive,
           UNCHANGED <<id, st, resolver, gen, lost, reader, n>>, managed' = managed
    PROVE  DInv'
<1>1. /\ DOMAIN host = Resource /\ DOMAIN st = Resource /\ lost \subseteq Resource \ Sure
      /\ \A x \in Resource \ lost : host[x] = st[x]
  BY Zenon DEF DInv, DTypes, IdleInv
<1>2. /\ pc' = "close" /\ active' = FALSE /\ b' = [NewBuild EXCEPT !.todo = closeOrder]
      /\ host' = [host EXCEPT !["rules"] = host.rules \ st.rules]
  BY Zenon DEF closeActive, Set
<1>3. /\ DOMAIN host' = Resource /\ host'.rules = host.rules \ st.rules
      /\ \A y \in Resource : y # "rules" => host'[y] = host[y]
  BY <1>1, <1>2, OneResource, ResourceNames
<1>4. (host'.rules = {} \/ "rules" \in lost') /\ (host'.dns = {} \/ "dns" \in lost' \/ managed')
  BY <1>1, <1>3, ResourceNames DEF ManagedInv
<1>5. /\ \A x \in {"server", "killswitch", "tun"} \ lost' : host'[x] \subseteq st'[x]
      /\ \A x \in {"dnsif", "route", "connmark", "pmark"} \ lost' : host'[x] = {} \/ st'[x] # {}
      /\ host'.server \subseteq host.server
  BY <1>1, <1>3, ResourceNames
<1> QED
  BY <1>1, <1>2, <1>3, <1>4, <1>5, BeginsToClose, Zenon

\* defaultTun.Close.
LEMMA CloseKeeps == ASSUME DInv, ManagedInv, Close PROVE DInv'
<1>1. managed' = managed
  BY DEF Close, Beside
<1> QED
  BY <1>1, CloseActiveKeeps, Zenon DEF Close

\* System.Close finds the default TUN active or not.
LEMMA SystemCloseKeeps == ASSUME DInv, ManagedInv, SystemClose PROVE DInv'
<1>0. pc = "idle" /\ UNCHANGED <<id, st, resolver, gen, lost, reader, n>> /\ managed' = managed
  BY DEF SystemClose, Beside
<1>1. CASE active
  BY <1>0, <1>1, CloseActiveKeeps, Zenon DEF SystemClose
<1>2. CASE ~active
  <2>1. pc' = "system" /\ UNCHANGED <<active, host, b>>
    BY <1>2, Zenon DEF SystemClose
  <2>2. DTypes'
    BY <1>0, <1>2, <2>1, Zenon DEF DInv, DTypes, Building, AfterServer, AfterChecker, AfterRoute,
         AfterConnmark, AfterDNS
  <2>3. IdleInv'
    BY <1>0, <1>2, <2>1 DEF DInv, IdleInv
  <2>4. TunInv' /\ RulesInv' /\ PolicyInv' /\ ClosingInv'
    BY <2>1, Zenon DEF TunInv, RulesInv, PolicyInv, ClosingInv, Building, AfterServer, AfterChecker,
         AfterRoute, AfterConnmark, AfterDNS
  <2>5. ServerInv' /\ ReaderInv' /\ OneServerPerAddress'
    BY <1>0, <1>2, <2>1, Zenon DEF DInv, ServerInv, ReaderInv, OneServerPerAddress, Building, AfterServer,
         AfterChecker, AfterRoute, AfterConnmark, AfterDNS
  <2> QED
    BY <2>2, <2>3, <2>4, <2>5 DEF DInv
<1> QED
  BY <1>1, <1>2

\* System.Close releases the DNS provider and the checker.
LEMMA SystemReleaseKeeps == ASSUME DInv, SystemRelease PROVE DInv'
<1>0. /\ pc = "system" /\ pc' = "idle" /\ ~active
      /\ UNCHANGED <<active, id, st, resolver, gen, b, reader, n>>
  BY DEF SystemRelease, DInv, DTypes
<1>1. /\ DOMAIN host = Resource /\ lost \subseteq Resource \ Sure /\ st = Nothing
      /\ \A x \in Resource \ lost : host[x] = {}
  BY <1>0 DEF DInv, DTypes, IdleInv
<1> DEFINE rest == [host EXCEPT !.dnsif = {}, !.killswitch = {}, !.pmark = {}]
<1>2. /\ host' = rest \/ host' = [rest EXCEPT !["dns"] = IF managed THEN {} ELSE rest.dns]
      /\ UNCHANGED lost \/ lost' = lost \cup {"dns"}
  BY Zenon DEF SystemRelease
<1>a. DOMAIN rest = Resource /\ \A y \in Resource : rest[y] = {} \/ rest[y] = host[y]
  BY <1>1, ResourceNames, Zenon
<1> HIDE DEF rest
<1>3. /\ DOMAIN host' = Resource /\ \A y \in Resource : host'[y] = {} \/ host'[y] = host[y]
      /\ lost \subseteq lost' /\ lost' \subseteq Resource \ Sure
  <2>1. lost \subseteq lost' /\ lost' \subseteq Resource \ Sure
    BY <1>1, <1>2, ResourceNames DEF Sure
  <2>2. "dns" \in Resource
    BY ResourceNames
  <2> QED
    BY <1>2, <1>a, <2>1, <2>2, OneResource
<1>4. host'.server \subseteq host.server
  BY <1>3, ResourceNames
<1>5. DTypes'
  BY <1>0, <1>3, <1>4, Zenon DEF DInv, DTypes, Building, AfterServer, AfterChecker, AfterRoute,
       AfterConnmark, AfterDNS
<1>6. IdleInv'
  BY <1>0, <1>1, <1>3 DEF IdleInv
<1>7. TunInv' /\ RulesInv' /\ PolicyInv' /\ ClosingInv'
  BY <1>0, Zenon DEF TunInv, RulesInv, PolicyInv, ClosingInv, Building, AfterServer, AfterChecker,
       AfterRoute, AfterConnmark, AfterDNS
<1>8. ServerInv' /\ ReaderInv'
  BY <1>0, Zenon DEF DInv, ServerInv, ReaderInv, Building, AfterServer,
       AfterChecker, AfterRoute, AfterConnmark, AfterDNS
<1>9. OneServerPerAddress'
  BY <1>4, Zenon DEF DInv, OneServerPerAddress
<1> QED
  BY <1>5, <1>6, <1>7, <1>8, <1>9 DEF DInv

----------------------------------------------------------------------------
(* The setters, SetDNS, and the readers of packets. *)

\* Identifiers that were given are still below the next one when it grows.
LEMMA CountedOn ==
    ASSUME NEW i \in Nat, NEW j \in Nat, i =< j
    PROVE  0..i \subseteq 0..j /\ \A k \in Nat : k =< i => k =< j
  OBVIOUS

\* A step of a setter changes the policy routing, and nothing else that is held.
LEMMA SetterStep ==
    ASSUME DInv, active, pc \in {"idle", "rollback", "reapply"},
           UNCHANGED <<active, id, resolver, gen, b, reader>>,
           n' \in Nat, n \in Nat, n =< n',
           DOMAIN host' = Resource, DOMAIN st' = Resource,
           \A x \in Resource : x # "route" => host'[x] = host[x] /\ st'[x] = st[x],
           \A rc \in st'.route : rc.tun = st.tun,
           lost \subseteq lost', lost' \subseteq Resource \ Sure,
           \/ pc' = "idle" /\ (host'.route = st'.route \/ "route" \in lost')
           \/ pc' = "rollback" /\ (host'.route # {} \/ "route" \in lost')
           \/ pc' = "reapply"
    PROVE  DInv'
<1>1. \A x \in {"rules", "server", "tun", "dns", "dnsif", "connmark", "killswitch", "pmark"} :
         host'[x] = host[x] /\ st'[x] = st[x]
  BY ResourceNames, Zenon
<1>2. DTypes'
  <2>1. /\ st.tun \subseteq 0..n' /\ st.rules \subseteq 0..n' /\ id \in 0..n'
        /\ \A s \in st.server : s.id =< n'
    <3>1. /\ st.tun \subseteq 0..n /\ st.rules \subseteq 0..n /\ id \in 0..n
          /\ \A s \in st.server : s \in Server /\ s.id =< n
      BY Zenon DEF DInv, DTypes
    <3>2. \A s \in st.server : s.id \in Nat
      BY <3>1, Zenon DEF Server
    <3>3. 0..n \subseteq 0..n' /\ \A k \in Nat : k =< n => k =< n'
      BY CountedOn, Zenon
    <3> QED
      BY <3>1, <3>2, <3>3, Zenon
  <2>2. pc' \in {"idle", "rollback", "reapply"}
    OBVIOUS
  <2> QED
    BY <1>1, <2>1, <2>2, Zenon DEF DInv, DTypes, Building, AfterServer, AfterChecker, AfterRoute,
         AfterConnmark, AfterDNS
<1>3. Complete'
  BY <1>1, Zenon DEF DInv, IdleInv, Complete
<1>4. \A x \in Resource \ (lost \cup {"route"}) : host[x] = st[x]
  BY Zenon DEF DInv, IdleInv
<1>5. IdleInv'
  <2>1. \A x \in Resource \ (lost' \cup {"route"}) : host'[x] = st'[x]
    BY <1>4, Zenon
  <2>2. pc' = "idle" => \A x \in Resource \ lost' : host'[x] = st'[x]
    BY <2>1, Zenon
  <2> QED
    BY <1>3, <2>1, <2>2, Zenon DEF IdleInv
<1>6. TunInv' /\ RulesInv' /\ PolicyInv' /\ ClosingInv'
  BY Zenon DEF TunInv, RulesInv, PolicyInv, ClosingInv, Building, AfterServer, AfterChecker,
         AfterRoute, AfterConnmark, AfterDNS
<1>7. ServerInv'
  BY <1>1, Zenon DEF DInv, ServerInv, Building, AfterServer, AfterChecker, AfterRoute, AfterConnmark, AfterDNS
<1>8. ReaderInv'
  <2>1. reader.gen =< gen /\ reader.id =< n /\ reader.id \in Nat
        /\ (active /\ reader.id = id /\ reader.tun # {} /\ reader.gen = gen => reader.tun = st.tun)
    BY Zenon DEF DInv, DTypes, ReaderInv
  <2>2. reader.id =< n'
    BY <2>1
  <2> QED
    BY <1>1, <2>1, <2>2, Zenon DEF ReaderInv
<1>9. OneServerPerAddress'
  BY <1>1, Zenon DEF DInv, OneServerPerAddress
<1> QED
  BY <1>2, <1>5, <1>6, <1>7, <1>8, <1>9, Zenon DEF DInv

\* What is known of the state when a setter makes a step.
LEMMA SetterFacts ==
    ASSUME DInv, active, pc \in {"idle", "rollback", "reapply"}
    PROVE  /\ n \in Nat /\ DOMAIN host = Resource /\ DOMAIN st = Resource
           /\ "route" \in Resource /\ lost \subseteq Resource \ Sure
           /\ lost \cup {"route"} \subseteq Resource \ Sure
           /\ \A rc \in st.route : rc.tun = st.tun
           /\ pc = "idle" => host.route = st.route \/ "route" \in lost
  BY ResourceNames, Zenon DEF DInv, DTypes, IdleInv, Complete, Sure

\* A setter applies its routing, or fails with the old one gone or not.
LEMMA ReconfigureKeeps == ASSUME DInv, Reconfigure PROVE DInv'
<1> DEFINE rc == RoutingConfig(st.tun, n')
<1>0. /\ pc = "idle" /\ active /\ st.route # {} /\ n' = n + 1
      /\ UNCHANGED <<active, id, resolver, gen, b, lost, reader>>
      /\ \/ /\ host' = [host EXCEPT !["route"] = {rc}] /\ st' = [st EXCEPT !["route"] = {rc}]
            /\ pc' = "idle"
         \/ /\ host' = [host EXCEPT !["route"] = {Guard}] \/ UNCHANGED host
            /\ pc' = "rollback" /\ UNCHANGED st
  BY Zenon DEF Reconfigure, resolveTunLocked, Set
<1>1. rc.tun = st.tun
  BY DEF RoutingConfig
<1> HIDE DEF rc
<1>2. /\ DOMAIN host' = Resource /\ DOMAIN st' = Resource /\ n' \in Nat /\ n =< n'
      /\ \A x \in Resource : x # "route" => host'[x] = host[x] /\ st'[x] = st[x]
      /\ \/ pc' = "idle" /\ host'.route = {rc} /\ st'.route = {rc}
         \/ /\ pc' = "rollback" /\ UNCHANGED st
            /\ host'.route = {Guard} \/ host'.route = host.route
  <2>1. n' \in Nat /\ n =< n' /\ DOMAIN host = Resource /\ DOMAIN st = Resource /\ "route" \in Resource
    BY <1>0, SetterFacts
  <2>2. CASE pc' = "idle"
    <3>1. host' = [host EXCEPT !["route"] = {rc}] /\ st' = [st EXCEPT !["route"] = {rc}]
      BY <1>0, <2>2, Zenon
    <3> QED
      BY <2>1, <2>2, <3>1, OneResource, Zenon
  <2>3. CASE pc' = "rollback" /\ UNCHANGED st /\ host' = [host EXCEPT !["route"] = {Guard}]
    BY <2>1, <2>3, OneResource, Zenon
  <2>4. CASE pc' = "rollback" /\ UNCHANGED <<st, host>>
    BY <2>1, <2>4, Zenon
  <2> QED
    BY <1>0, <2>2, <2>3, <2>4, Zenon
<1>3. \A c \in st'.route : c.tun = st.tun
  BY <1>0, <1>1, <1>2, SetterFacts, Zenon
<1>4. \/ pc' = "idle" /\ host'.route = st'.route
      \/ pc' = "rollback" /\ (host'.route # {} \/ "route" \in lost')
  BY <1>0, <1>2, SetterFacts, Zenon
<1> QED
  BY <1>0, <1>2, <1>3, <1>4, SetterStep, SetterFacts, Zenon

\* The restore after a failed setter: Rollback.
LEMMA RestoreRollbackKeeps == ASSUME DInv, RestoreRollback PROVE DInv'
<1>0. /\ pc = "rollback" /\ pc' = "reapply" /\ active
      /\ UNCHANGED <<active, id, st, resolver, gen, b, reader, n>>
      /\ \/ host' = [host EXCEPT !["route"] = {}] /\ UNCHANGED lost
         \/ UNCHANGED host /\ lost' = lost \cup {"route"}
  BY Zenon DEF RestoreRollback, Set, DInv, DTypes
<1>1. /\ DOMAIN host' = Resource /\ DOMAIN st' = Resource /\ n' \in Nat /\ n =< n'
      /\ \A x \in Resource : x # "route" => host'[x] = host[x] /\ st'[x] = st[x]
      /\ lost \subseteq lost' /\ lost' \subseteq Resource \ Sure
  BY <1>0, SetterFacts, OneResource
<1> QED
  BY <1>0, <1>1, SetterStep, SetterFacts

\* The restore after a failed setter: Apply of the previous routing.
LEMMA RestoreApplyKeeps == ASSUME DInv, RestoreApply PROVE DInv'
<1>0. /\ pc = "reapply" /\ pc' = "idle" /\ active
      /\ UNCHANGED <<active, id, st, resolver, gen, b, reader, n>>
      /\ \/ host' = [host EXCEPT !["route"] = st.route] /\ UNCHANGED lost
         \/ /\ host' = [host EXCEPT !["route"] = {Guard}] \/ UNCHANGED host
            /\ lost' = lost \cup {"route"}
  BY Zenon DEF RestoreApply, Set, DInv, DTypes
<1>1. /\ DOMAIN host' = Resource /\ DOMAIN st' = Resource /\ n' \in Nat /\ n =< n'
      /\ \A x \in Resource : x # "route" => host'[x] = host[x] /\ st'[x] = st[x]
      /\ lost \subseteq lost' /\ lost' \subseteq Resource \ Sure
      /\ host'.route = st'.route \/ "route" \in lost'
  BY <1>0, SetterFacts, OneResource
<1> QED
  BY <1>0, <1>1, SetterStep, SetterFacts, Zenon

\* SetDNS gives the server another resolver.
LEMMA SetDNSKeeps ==
    ASSUME DInv, NEW r \in Resolver \cup {NoResolver}, SetDNS(r)
    PROVE  DInv'
<1> DEFINE with(s) == IF s \in st.server THEN [s EXCEPT !.resolver = r] ELSE s
<1>0. /\ pc = "idle" /\ active /\ resolver' = r
      /\ UNCHANGED <<active, id, gen, pc, b, lost, reader, n>>
      /\ host' = [host EXCEPT !["server"] = {with(s) : s \in host.server}]
      /\ st' = [st EXCEPT !["server"] = {with(s) : s \in st.server}]
  BY Zenon DEF SetDNS, Set
<1>1. /\ DOMAIN host = Resource /\ DOMAIN st = Resource /\ "server" \in Resource
      /\ st.server \subseteq Server /\ host.server = st.server /\ n \in Nat
      /\ \A s \in st.server : s.id =< n
  BY <1>0, ResourceNames DEF DInv, DTypes, IdleInv, Sure
<1>2. /\ DOMAIN host' = Resource /\ DOMAIN st' = Resource
      /\ st'.server = {with(s) : s \in st.server} /\ host'.server = st'.server
      /\ \A x \in Resource : x # "server" => host'[x] = host[x] /\ st'[x] = st[x]
  BY <1>0, <1>1, OneResource
<1>3. \A s \in st.server : /\ with(s) \in Server /\ with(s).id = s.id /\ with(s).ip = s.ip
                           /\ with(s).resolver = r
  BY <1>1 DEF Server
<1> HIDE DEF with
<1>4. \A x \in {"rules", "tun", "dns", "dnsif", "route", "connmark", "killswitch", "pmark"} :
         host'[x] = host[x] /\ st'[x] = st[x]
  BY <1>2, ResourceNames
<1>5. DTypes'
  <2>1. st'.server \subseteq Server /\ \A s \in st'.server : s.id =< n
    BY <1>1, <1>2, <1>3
  <2> QED
    BY <1>0, <1>2, <1>4, <2>1, Zenon DEF DInv, DTypes
<1>6. Complete'
  <2>1. PICK s \in st.server : s.ip \in st.dns
    BY <1>0, Zenon DEF DInv, IdleInv, Complete
  <2>2. with(s) \in st'.server /\ with(s).ip \in st.dns /\ with(s).resolver = r
    BY <1>2, <1>3, <2>1, Zenon
  <2> QED
    BY <1>0, <1>4, <2>2, Zenon DEF DInv, IdleInv, Complete
<1>7. IdleInv'
  <2>1. \A x \in Resource \ lost : host'[x] = st'[x]
    BY <1>0, <1>2, Zenon DEF DInv, IdleInv
  <2> QED
    BY <1>0, <1>6, <2>1, Zenon DEF IdleInv
<1>8. TunInv' /\ RulesInv' /\ PolicyInv' /\ ClosingInv'
  BY <1>0, Zenon DEF TunInv, RulesInv, PolicyInv, ClosingInv, Building, AfterServer, AfterChecker,
         AfterRoute, AfterConnmark, AfterDNS
<1>9. ServerInv'
  <2>1. \A s \in st'.server : s.resolver = r
    BY <1>2, <1>3, Zenon
  <2> QED
    BY <1>0, <2>1, Zenon DEF ServerInv, Building, AfterServer, AfterChecker, AfterRoute, AfterConnmark, AfterDNS
<1>10. ReaderInv'
  BY <1>0, <1>4, Zenon DEF DInv, ReaderInv
<1>11. OneServerPerAddress'
  BY <1>1, <1>2, <1>3 DEF DInv, OneServerPerAddress
<1> QED
  BY <1>5, <1>7, <1>8, <1>9, <1>10, <1>11 DEF DInv

\* A step of a reader or of the kernel leaves everything but the reader's locals.
LEMMA ReaderStep ==
    ASSUME DInv, UNCHANGED <<active, id, st, resolver, gen, pc, b, host, lost, n>>, managed' = managed,
           reader' \in [id : Nat, gen : Nat, tun : SUBSET Nat],
           ReaderInv'
    PROVE  DInv'
<1>1. DTypes'
  BY Zenon DEF DInv, DTypes
<1>2. IdleInv'
  BY Zenon DEF DInv, IdleInv, Complete
<1>3. TunInv' /\ RulesInv' /\ PolicyInv'
  BY Zenon DEF DInv, TunInv, RulesInv, PolicyInv
<1>4. ServerInv' /\ OneServerPerAddress'
  BY Zenon DEF DInv, ServerInv, OneServerPerAddress
<1>5. ClosingInv'
  BY Zenon DEF DInv, ClosingInv, Due, Owned
<1> QED
  BY <1>1, <1>2, <1>3, <1>4, <1>5 DEF DInv

\* The steps of a reader, and the loss of a link.
LEMMA ReadersKeep ==
    ASSUME DInv, SourceGeneration \/ nativeTun \/ ReadReturns \/ LinkLost
    PROVE  DInv'
<1>0. UNCHANGED <<active, id, st, resolver, gen, pc, b, host, lost, n>> /\ managed' = managed
  BY DEF SourceGeneration, nativeTun, ReadReturns, LinkLost, Beside
<1>1. /\ reader \in [id : Nat, gen : Nat, tun : SUBSET Nat] /\ id \in 0..n /\ n \in Nat
      /\ gen \in Nat /\ st.tun \subseteq 0..n /\ reader.gen =< gen /\ reader.id =< n
  BY DEF DInv, DTypes, ReaderInv
<1>2. NoReader \in [id : Nat, gen : Nat, tun : SUBSET Nat] /\ NoReader.tun = {}
      /\ NoReader.id = 0 /\ NoReader.gen = 0
  BY DEF NoReader
<1>3. CASE SourceGeneration
  <2>1. reader' = [NoReader EXCEPT !.id = id, !.gen = gen]
    BY <1>3 DEF SourceGeneration
  <2>2. /\ reader' \in [id : Nat, gen : Nat, tun : SUBSET Nat]
        /\ reader'.tun = {} /\ reader'.id = id /\ reader'.gen = gen
    <3>1. reader' = [id |-> id, gen |-> gen, tun |-> {}]
      BY <2>1, Zenon DEF NoReader
    <3>2. id \in Nat /\ gen \in Nat
      BY <1>1
    <3> QED
      BY <3>1, <3>2
  <2> QED
    BY <1>0, <1>1, <2>2, ReaderStep DEF ReaderInv
<1>4. CASE nativeTun /\ reader' = [reader EXCEPT !.tun = st.tun]
  <2>1. /\ reader' \in [id : Nat, gen : Nat, tun : SUBSET Nat]
        /\ reader'.tun = st.tun /\ reader'.id = reader.id /\ reader'.gen = reader.gen
    BY <1>1, <1>4
  <2> QED
    BY <1>0, <1>1, <2>1, ReaderStep DEF ReaderInv
<1>5. CASE reader' = NoReader
  BY <1>0, <1>1, <1>2, <1>5, ReaderStep DEF ReaderInv
<1>6. CASE reader' = reader
  BY <1>0, <1>1, <1>6, ReaderStep, Zenon DEF DInv, ReaderInv
<1>7. nativeTun => reader' = [reader EXCEPT !.tun = st.tun] \/ reader' = NoReader
  BY Zenon DEF nativeTun
<1> QED
  BY <1>3, <1>4, <1>5, <1>6, <1>7 DEF ReadReturns, LinkLost

----------------------------------------------------------------------------
(* The beginning of a build, and the whole. *)

\* BuildDefaultTun with its first TUN, with the one it has or with a replacement.
LEMMA BuildDefaultTunKeeps ==
    ASSUME DInv, NEW ip \in IP, BuildDefaultTun(ip)
    PROVE  DInv'
<1> DEFINE create == ~active \/ prepareDefaultTunLink
           tun    == IF create THEN {n'} ELSE st.tun
           first  == [Nothing EXCEPT !["tun"] = tun]
           kept   == IF active THEN st ELSE first
<1>0. /\ pc = "idle" /\ pc' = "configure" /\ active' = TRUE /\ n' = n + 1
      /\ UNCHANGED <<lost, reader>>
      /\ st' = kept /\ host' = [host EXCEPT !["tun"] = host.tun \cup tun]
      /\ id' = (IF active THEN id ELSE n') /\ gen' = (IF active THEN gen ELSE gen + 1)
      /\ resolver' = (IF active THEN resolver ELSE NoResolver)
      /\ b' = [NewBuild EXCEPT !.tun = tun, !.ip = {ip}, !.recreated = prepareDefaultTunLink,
                               !.server = kept.server, !.oldServer = kept.server]
  BY DEF BuildDefaultTun
<1>1. /\ n \in Nat /\ n' \in Nat /\ n' # 0 /\ gen \in Nat /\ id \in 0..n
      /\ DOMAIN host = Resource /\ DOMAIN st = Resource /\ "tun" \in Resource
      /\ lost \subseteq Resource \ Sure
      /\ st.tun \subseteq 0..n /\ st.rules \subseteq 0..n /\ st.server \subseteq Server
      /\ host.server \subseteq Server /\ \A s \in st.server : s.id =< n
  BY <1>0, ResourceNames DEF DInv, DTypes
<1>2. /\ tun \subseteq Nat
      /\ prepareDefaultTunLink \in BOOLEAN /\ (prepareDefaultTunLink => active)
  <2>1. tun \subseteq Nat
    BY <1>1
  <2>2. prepareDefaultTunLink \in BOOLEAN /\ (prepareDefaultTunLink => active)
    BY Zenon DEF prepareDefaultTunLink
  <2> QED
    BY <2>1, <2>2
<1>3. /\ DOMAIN host' = Resource /\ host'.tun = host.tun \cup tun
      /\ \A x \in Resource : x # "tun" => host'[x] = host[x]
  BY <1>0, <1>1, OneResource
<1>4. /\ DOMAIN st' = Resource
      /\ active => st' = st
      /\ ~active => st'.tun = {n'} /\ \A x \in Resource : x # "tun" => st'[x] = {}
  BY <1>0, <1>1, OneResource, NothingHeld
<1>5. st'.server \subseteq Server
  BY <1>1, <1>4, ResourceNames
<1>6. /\ b' \in Build /\ b'.tun = tun /\ b'.ip = {ip} /\ b'.recreated = prepareDefaultTunLink
      /\ b'.server = st'.server /\ b'.oldServer = st'.server /\ ~b'.replaced
      /\ b'.rules = {} /\ b'.pmark = {} /\ b'.route = {} /\ b'.connmark = {}
  <2>1. NewBuild \in Build /\ ~NewBuild.replaced /\ NewBuild.rules = {} /\ NewBuild.pmark = {}
        /\ NewBuild.route = {} /\ NewBuild.connmark = {}
    BY NewBuildType, Zenon DEF NewBuild
  <2>2. b' = [NewBuild EXCEPT !.tun = tun, !.ip = {ip}, !.recreated = prepareDefaultTunLink,
                               !.server = st'.server, !.oldServer = st'.server]
    BY <1>0
  <2> HIDE DEF tun
  <2> QED
    BY <1>2, <1>5, <2>1, <2>2, Zenon DEF Build
<1>7. /\ host.tun = (IF active THEN st.tun ELSE {})
      /\ \A x \in Resource \ lost : host[x] = (IF active THEN st[x] ELSE {})
  <2>1. \A x \in Resource \ lost : host[x] = (IF active THEN st[x] ELSE {})
    BY <1>0 DEF DInv, IdleInv
  <2> QED
    BY <1>1, <2>1, Zenon DEF Sure
<1>8. \A x \in Resource \ lost : x # "tun" => host'[x] = st'[x]
  BY <1>3, <1>4, <1>7
<1>9. host'.tun = st'.tun \cup tun
      /\ IF prepareDefaultTunLink THEN tun = {n'} /\ n' \notin st'.tun ELSE tun = st'.tun
  BY <1>0, <1>1, <1>2, <1>3, <1>4, <1>7
<1> HIDE DEF tun, create, kept, first
<1>10. DTypes'
  <2>1. id' \in 0..n' /\ gen' \in Nat
    BY <1>0, <1>1
  <2>2. /\ st'.tun \subseteq 0..n' /\ st'.rules \subseteq 0..n'
        /\ \A s \in st'.server : s.id =< n'
    <3>1. CASE active
      BY <1>0, <1>1, <1>4, <3>1 DEF Server
    <3>2. CASE ~active
      BY <1>0, <1>1, <1>4, <3>2, ResourceNames
    <3> QED
      BY <3>1, <3>2
  <2>3. resolver' \in Resolver \cup {NoResolver}
    BY <1>0 DEF DInv, DTypes
  <2>4. host'.server \subseteq Server
    BY <1>1, <1>3, ResourceNames
  <2>5. active' \in BOOLEAN /\ active'
    BY <1>0, Zenon
  <2> QED
    BY <1>0, <1>1, <1>3, <1>4, <1>5, <1>6, <2>1, <2>2, <2>3, <2>4, <2>5, Zenon
       DEF DInv, DTypes, Building
<1>11. IdleInv' /\ ClosingInv'
  BY <1>0 DEF IdleInv, ClosingInv
<1>12. TunInv'
  BY <1>6, <1>9, Zenon DEF TunInv
<1>13. RulesInv'
  <2>1. n' \notin st'.rules
    BY <1>0, <1>1, <1>4, ResourceNames
  <2>2. ("rules" \notin lost => host'.rules = st'.rules) /\ ("pmark" \notin lost => host'.pmark = st'.pmark)
    BY <1>1, <1>8, ResourceNames DEF Sure
  <2> QED
    BY <1>0, <1>6, <2>1, <2>2 DEF RulesInv, AfterChecker, AfterRoute, AfterConnmark, AfterDNS
<1>14. PolicyInv'
  <2>1. \A x \in {"dns", "dnsif", "route", "connmark", "killswitch"} \ lost : host'[x] = st'[x]
    BY <1>8, ResourceNames
  <2> QED
    BY <1>0, <1>6, <2>1 DEF PolicyInv, Building, AfterServer, AfterChecker, AfterRoute, AfterConnmark, AfterDNS
<1>15. ServerInv'
  <2>1. \A s \in st'.server : s.resolver = resolver' /\ s.id # n'
    <3>1. CASE active
      BY <1>0, <1>1, <1>4, <3>1 DEF DInv, ServerInv, Server
    <3>2. CASE ~active
      BY <1>4, <3>2, ResourceNames
    <3> QED
      BY <3>1, <3>2
  <2>2. host'.server = st'.server
    BY <1>1, <1>8, ResourceNames DEF Sure
  <2> QED
    BY <1>0, <1>6, <2>1, <2>2 DEF ServerInv, Building, AfterServer, AfterChecker, AfterRoute, AfterConnmark, AfterDNS
<1>16. ReaderInv'
  <2>1. reader.gen =< gen /\ reader.id =< n /\ reader \in [id : Nat, gen : Nat, tun : SUBSET Nat]
    BY DEF DInv, DTypes, ReaderInv
  <2>2. CASE active
    BY <1>0, <1>1, <1>4, <2>1, <2>2 DEF DInv, ReaderInv
  <2>3. CASE ~active
    BY <1>0, <1>1, <2>1, <2>3 DEF ReaderInv
  <2> QED
    BY <2>2, <2>3
<1>17. OneServerPerAddress'
  <2>1. host'.server = host.server
    BY <1>3, ResourceNames
  <2> QED
    BY <2>1, Zenon DEF DInv, OneServerPerAddress
<1> QED
  BY <1>10, <1>11, <1>12, <1>13, <1>14, <1>15, <1>16, <1>17 DEF DInv

\* A System starts without a default TUN.
LEMMA DefaultTunInit == Init => DInv
<1> SUFFICES ASSUME Init PROVE DInv
  OBVIOUS
<1>0. /\ active = FALSE /\ id = 0 /\ gen = 0 /\ n = 0 /\ st = Nothing /\ host = Nothing
      /\ lost = {} /\ resolver = NoResolver /\ reader = NoReader /\ pc = "idle"
      /\ b = NewBuild
  BY Zenon DEF Init
<1>1. /\ reader \in [id : Nat, gen : Nat, tun : SUBSET Nat] /\ reader.tun = {}
      /\ reader.gen = 0 /\ reader.id = 0
  BY <1>0, Zenon DEF NoReader
<1>2. st.server = {} /\ host.server = {} /\ st.tun = {} /\ st.rules = {}
      /\ DOMAIN st = Resource /\ DOMAIN host = Resource
  BY <1>0, NothingHeld, ResourceNames
<1>3. DTypes
  <2>1. id \in 0..n /\ n \in Nat /\ gen \in Nat
    BY <1>0
  <2> QED
    BY <1>0, <1>1, <1>2, <2>1, NewBuildType, Zenon DEF DTypes, Building, AfterServer, AfterChecker, AfterRoute,
         AfterConnmark, AfterDNS
<1>4. IdleInv
  BY <1>0, NothingHeld DEF IdleInv
<1>5. TunInv /\ RulesInv /\ PolicyInv /\ ClosingInv
  BY <1>0, Zenon DEF TunInv, RulesInv, PolicyInv, ClosingInv, Building, AfterServer, AfterChecker,
         AfterRoute, AfterConnmark, AfterDNS
<1>6. ServerInv /\ OneServerPerAddress
  BY <1>0, <1>2, Zenon DEF ServerInv, OneServerPerAddress, Building, AfterServer, AfterChecker,
         AfterRoute, AfterConnmark, AfterDNS
<1>7. ReaderInv
  BY <1>0, <1>1 DEF ReaderInv
<1> QED
  BY <1>3, <1>4, <1>5, <1>6, <1>7 DEF DInv

\* A step that leaves the provider alone, and the times at which it must have a server.
LEMMA ManagedKept ==
    ASSUME ManagedInv, managed' = managed, host'.dns = host.dns, lost \subseteq lost',
           \/ pc' \in {"configure", "server", "checker", "dnsif", "route", "connmark", "setdns",
                       "fail", "close", "system"}
           \/ pc' = "idle" /\ ~active'
           \/ pc \in AfterDNS \cup {"finish"}
           \/ pc \in {"idle", "rollback", "reapply"} /\ active
    PROVE  ManagedInv'
BY DEF ManagedInv, AfterDNS

LEMMA ManagedBuild ==
    ASSUME DInv, ManagedInv, BuildStep
    PROVE  ManagedInv'
<1>0. DOMAIN host = Resource /\ "dns" \in Resource
  BY ResourceNames DEF DInv, DTypes
<1>1. CASE ConfigureLink \/ ListenDNS
  <2>1. managed' = managed /\ host'.dns = host.dns /\ lost' = lost
        /\ pc' \in {"server", "checker", "fail"}
    BY <1>0, <1>1 DEF ConfigureLink, ListenDNS, Listen, Set, Beside
  <2> QED
    BY <2>1, ManagedKept
<1>2. CASE InstallChecker \/ CheckerFails
  <2>1. managed' = managed /\ lost \subseteq lost' /\ pc' \in {"dnsif", "fail"}
    BY <1>2 DEF InstallChecker, CheckerFails, Beside
  <2>2. host'.dns = host.dns
    <3>1. CASE InstallChecker
      <4>1. PICK k, m : host' = [host EXCEPT !.rules = k, !.pmark = m]
        BY <3>1, Zenon DEF InstallChecker
      <4> QED
        BY <1>0, <4>1
    <3>2. CASE CheckerFails
      BY <1>0, <3>2 DEF CheckerFails, Set
    <3> QED
      BY <1>2, <3>1, <3>2
  <2> QED
    BY <2>1, <2>2, ManagedKept
<1>3. CASE setDefaultTunDNSInterface \/ ApplyRouting
  <2>1. managed' = managed /\ lost \subseteq lost' /\ pc' \in {"route", "connmark", "fail"}
    BY <1>3 DEF setDefaultTunDNSInterface, ApplyRouting, Beside
  <2>2. host'.dns = host.dns
    BY <1>0, <1>3 DEF setDefaultTunDNSInterface, ApplyRouting, Set
  <2> QED
    BY <2>1, <2>2, ManagedKept
<1>4. CASE applyConnmark
  <2>1. managed' = managed /\ lost \subseteq lost' /\ pc' \in {"setdns", "fail"}
    BY <1>4 DEF applyConnmark, Beside
  <2>2. host'.dns = host.dns
    BY <1>0, <1>4 DEF applyConnmark, Set
  <2> QED
    BY <2>1, <2>2, ManagedKept
<1>5. CASE SetProviderDNS
  <2>1. CASE managed' = TRUE
    BY <2>1 DEF ManagedInv
  <2>2. CASE /\ managed' = managed /\ pc' = "fail"
             /\ \E kept : /\ host' = [host EXCEPT !["dns"] = kept]
                          /\ lost' = lost \cup {x \in {"dns"} : kept # host.dns}
    <3>1. PICK kept : /\ host' = [host EXCEPT !["dns"] = kept]
                      /\ lost' = lost \cup {x \in {"dns"} : kept # host.dns}
      BY <2>2
    <3>2. CASE kept = host.dns
      <4>1. host'.dns = host.dns /\ lost \subseteq lost'
        BY <1>0, <3>1, <3>2
      <4> QED
        BY <2>2, <4>1, ManagedKept
    <3>3. CASE kept # host.dns
      <4>1. "dns" \in lost'
        BY <3>1, <3>3, Zenon
      <4> QED
        BY <2>2, <4>1 DEF ManagedInv, AfterDNS
    <3> QED
      BY <3>2, <3>3
  <2> QED
    BY <1>5, <2>1, <2>2, Zenon DEF SetProviderDNS, Set
<1>6. CASE updateKillswitch \/ Commit
  <2>1. managed' = managed /\ lost' = lost /\ pc \in AfterDNS
    BY <1>6 DEF updateKillswitch, Commit, CommitWith, Beside, AfterDNS
  <2>2. host'.dns = host.dns
    BY <1>0, <1>6 DEF updateKillswitch, Commit, CommitWith, Set
  <2> QED
    BY <2>1, <2>2, ManagedKept
<1>7. CASE Finish
  <2>1. managed' = managed /\ lost' = lost /\ pc = "finish" /\ pc' = "idle"
        /\ host' = [x \in Resource |-> host[x] \ b.stale[x]]
    BY <1>7 DEF Finish, Beside
  <2>2. managed
    BY <2>1 DEF ManagedInv
  <2> QED
    BY <2>1, <2>2 DEF ManagedInv
<1>8. CASE Fail
  <2>1. managed' = managed /\ lost \subseteq lost' /\ pc' = "close"
    BY <1>8 DEF Fail, FailWith, Beside
  <2> DEFINE undo == (IF st.pmark = {} /\ b.pmark # {} THEN {"pmark"} ELSE {})
                     \cup (IF b.connmark # {} THEN {"connmark"} ELSE {})
  <2>2. PICK bad \in SUBSET undo :
           /\ lost' = lost \cup bad
           /\ host' = [host EXCEPT
                  !.tun = IF b.recreated THEN @ \ b.tun ELSE @,
                  !.rules = @ \ (b.rules \cup st.rules),
                  !.server = IF b.replaced THEN @ \ b.server ELSE @,
                  !.pmark = IF "pmark" \in undo \ bad THEN {} ELSE @,
                  !.connmark = IF "connmark" \in undo \ bad THEN {} ELSE @]
    BY <1>8, Zenon DEF Fail, FailWith
  <2> HIDE DEF undo
  <2>3. host'.dns = host.dns
    BY <1>0, <2>2
  <2> QED
    BY <2>1, <2>3, ManagedKept
<1> QED
  BY <1>1, <1>2, <1>3, <1>4, <1>5, <1>6, <1>7, <1>8 DEF BuildStep

LEMMA ManagedClose ==
    ASSUME DInv, ManagedInv, CloseStep \/ Close \/ SystemClose \/ SystemRelease
    PROVE  ManagedInv'
<1>0. /\ DOMAIN host = Resource /\ "dns" \in Resource
      /\ pc \in {"close", "system"} => ~active
  BY ResourceNames DEF DInv, DTypes
<1>1. CASE CloseStep
  <2> DEFINE x == Head(b.todo)
  <2>1. /\ \/ /\ host' = [host EXCEPT ![x] = IF Owned(x) THEN Left(x) ELSE host[x]]
              /\ managed' = (managed /\ x # "dns") /\ UNCHANGED lost
           \/ /\ x = "dns" /\ x \in lost /\ UNCHANGED <<host, lost>>
              /\ managed' = (managed /\ x # "dns")
           \/ UNCHANGED <<host, managed>> /\ lost' = lost \cup {x}
        /\ active' = active /\ pc = "close" /\ pc' \in {"close", "system", "idle"}
    BY <1>1 DEF CloseStep, Set
  <2>2. ~active'
    BY <1>0, <2>1
  <2> HIDE DEF x
  <2>3. CASE x = "dns" /\ managed' = (managed /\ x # "dns") /\ UNCHANGED lost
    <3>1. managed' = FALSE
      BY <2>3
    <3>2. "dns" \notin lost => host'.dns = {}
      <4>1. CASE managed
        BY <1>0, <2>1, <2>3, <3>1, <4>1 DEF Owned, Left
      <4>2. CASE ~managed
        BY <1>0, <2>1, <2>3, <4>2 DEF Owned, ManagedInv
      <4> QED
        BY <4>1, <4>2
    <3> QED
      BY <2>1, <2>2, <2>3, <3>1, <3>2 DEF ManagedInv, AfterDNS
  <2>4. CASE x # "dns" /\ managed' = (managed /\ x # "dns") /\ UNCHANGED lost
    <3>1. managed' = managed /\ host'.dns = host.dns
      BY <1>0, <2>1, <2>4 DEF ManagedInv
    <3> QED
      BY <2>1, <2>2, <2>4, <3>1, ManagedKept
  <2>5. CASE UNCHANGED <<host, managed>> /\ lost' = lost \cup {x}
    <3>1. host'.dns = host.dns /\ managed' = managed /\ lost \subseteq lost'
      BY <2>5
    <3> QED
      BY <2>1, <2>2, <3>1, ManagedKept
  <2> QED
    BY <2>1, <2>3, <2>4, <2>5, Zenon
<1>2. CASE Close \/ SystemClose
  <2>1. /\ managed' = managed /\ lost' = lost /\ pc' \in {"close", "system"}
        /\ host' = host \/ host' = [host EXCEPT !["rules"] = host.rules \ st.rules]
    BY <1>2 DEF Close, SystemClose, closeActive, Beside, Set
  <2>2. host'.dns = host.dns
    BY <1>0, <2>1
  <2> QED
    BY <2>1, <2>2, ManagedKept
<1>3. CASE SystemRelease
  <2> DEFINE rest == [host EXCEPT !.dnsif = {}, !.killswitch = {}, !.pmark = {}]
  <2>1. rest.dns = host.dns /\ DOMAIN rest = Resource
    BY <1>0
  <2>2. /\ active' = active /\ pc = "system" /\ pc' = "idle"
        /\ \/ host' = [rest EXCEPT !["dns"] = IF managed THEN {} ELSE rest.dns] /\ UNCHANGED lost
           \/ "dns" \in lost /\ UNCHANGED lost
           \/ lost' = lost \cup {"dns"}
        /\ managed' = FALSE \/ managed' = managed
    BY <1>3, Zenon DEF SystemRelease
  <2> HIDE DEF rest
  <2>3. "dns" \notin lost' => host'.dns = {}
    BY <1>0, <2>1, <2>2 DEF ManagedInv
  <2> QED
    BY <1>0, <2>2, <2>3 DEF ManagedInv, AfterDNS
<1> QED
  BY <1>1, <1>2, <1>3

LEMMA ManagedNext ==
    ASSUME DInv, ManagedInv, [Next]_vars
    PROVE  ManagedInv'
<1>0. DOMAIN host = Resource /\ "dns" \in Resource /\ (pc \in {"rollback", "reapply"} => active)
  BY ResourceNames DEF DInv, DTypes
<1>1. CASE Reconfigure \/ RestoreRollback \/ RestoreApply
  <2>1. managed' = managed /\ lost \subseteq lost' /\ pc \in {"idle", "rollback", "reapply"} /\ active
    BY <1>0, <1>1 DEF Reconfigure, resolveTunLocked, RestoreRollback, RestoreApply, Beside
  <2>2. host'.dns = host.dns
    BY <1>0, <1>1 DEF Reconfigure, RestoreRollback, RestoreApply, Set
  <2> QED
    BY <2>1, <2>2, ManagedKept
<1>2. ASSUME NEW r \in Resolver \cup {NoResolver}, SetDNS(r) PROVE ManagedInv'
  <2>1. managed' = managed /\ lost' = lost /\ pc = "idle" /\ active /\ host'.dns = host.dns
    BY <1>0, <1>2 DEF SetDNS, Set, Beside
  <2> QED
    BY <2>1, ManagedKept
<1>3. CASE SourceGeneration \/ nativeTun \/ ReadReturns \/ LinkLost \/ UNCHANGED vars
  <2>1. UNCHANGED <<pc, active, host, lost>> /\ managed' = managed
    BY <1>3 DEF SourceGeneration, nativeTun, ReadReturns, LinkLost, Beside, vars
  <2> QED
    BY <2>1 DEF ManagedInv
<1>4. ASSUME NEW ip \in IP, BuildDefaultTun(ip) PROVE ManagedInv'
  <2>1. managed' = managed /\ lost' = lost /\ pc' = "configure" /\ host'.dns = host.dns
    BY <1>0, <1>4 DEF BuildDefaultTun, Beside
  <2> QED
    BY <2>1, ManagedKept
<1> QED
  BY <1>1, <1>2, <1>3, <1>4, ManagedBuild, ManagedClose DEF Next

\* Every step keeps the invariant.
LEMMA DefaultTunNext == DInv /\ ManagedInv /\ [Next]_vars => DInv'
<1> SUFFICES ASSUME DInv, ManagedInv, [Next]_vars PROVE DInv'
  OBVIOUS
<1>1. CASE UNCHANGED vars
  <2>1. UNCHANGED <<active, id, st, resolver, gen, pc, b, host, lost, n, reader>> /\ managed' = managed
    BY <1>1 DEF vars
  <2> QED
    BY <2>1, ReaderStep, Zenon DEF DInv, DTypes, ReaderInv
<1>2. CASE BuildStep
  BY <1>2, ConfigureLinkKeeps, ListenDNSKeeps, InstallCheckerKeeps, CheckerFailsKeeps, DNSInterfaceKeeps,
     ApplyRoutingKeeps, ApplyConnmarkKeeps, SetProviderDNSKeeps, UpdateKillswitchKeeps,
     CommitKeeps, FinishKeeps, FailKeeps, Zenon DEF BuildStep
<1>3. CASE CloseStep \/ Close \/ SystemClose \/ SystemRelease
  BY <1>3, CloseStepKeeps, CloseKeeps, SystemCloseKeeps, SystemReleaseKeeps, Zenon
<1>4. CASE Reconfigure \/ RestoreRollback \/ RestoreApply
  BY <1>4, ReconfigureKeeps, RestoreRollbackKeeps, RestoreApplyKeeps, Zenon
<1>5. CASE \E r \in Resolver \cup {NoResolver} : SetDNS(r)
  BY <1>5, SetDNSKeeps, Zenon
<1>6. CASE SourceGeneration \/ nativeTun \/ ReadReturns \/ LinkLost
  BY <1>6, ReadersKeep, Zenon
<1>7. CASE \E ip \in IP : BuildDefaultTun(ip)
  BY <1>7, BuildDefaultTunKeeps, Zenon
<1> QED
  BY <1>1, <1>2, <1>3, <1>4, <1>5, <1>6, <1>7, Zenon DEF Next

\* The invariant holds.
LEMMA DefaultTunInvariant == Spec => [](DInv /\ ManagedInv)
<1>1. Init => ManagedInv
  BY NothingHeld, ResourceNames DEF Init, ManagedInv, AfterDNS
<1> QED
  BY <1>1, DefaultTunInit, DefaultTunNext, ManagedNext, PTL DEF Spec

\* At whichever step BuildDefaultTun fails, and after Close and System.Close, the host holds
\* nothing of the default TUN.  What is left out: a resource whose release failed, the rules
\* that a failing defaultTunChecker had registered, and what a SetDNS that returned an error
\* had changed.
THEOREM NothingLeftHolds == Spec => []NothingLeft
<1>1. DInv => NothingLeft
  BY Zenon DEF DInv, IdleInv, NothingLeft
<1> QED
  BY <1>1, DefaultTunInvariant, PTL

\* Between operations the defaultTunState is what the host holds, after any sequence of
\* builds, rebuilds, failed setters and link losses, with the same three left out, and the
\* DNS provider has recorded the server that closeActive will have it unset.
THEOREM StateMatchesHostHolds == Spec => []StateMatchesHost
<1>1. DInv /\ ManagedInv => StateMatchesHost
  BY Zenon DEF DInv, IdleInv, Complete, StateMatchesHost, ManagedInv
<1> QED
  BY <1>1, DefaultTunInvariant, PTL

\* BuildDefaultTun never has two DNS servers listen on one address.
THEOREM OneServerPerAddressHolds == Spec => []OneServerPerAddress
  BY DefaultTunInvariant, PTL DEF DInv

\* A reader whose native TUN is closed by a rebuild sees a new source generation.
THEOREM RetryVisibleHolds == Spec => []RetryVisible
<1>1. ASSUME DInv PROVE RetryVisible
  <2>1. active => st.tun \subseteq host.tun
    <3>1. pc \in Building \cup {"fail"} => st.tun \subseteq host.tun
      BY <1>1 DEF DInv, TunInv
    <3>2. "tun" \in Resource \ lost
      BY <1>1, ResourceNames DEF DInv, DTypes, Sure
    <3>3. pc = "finish" => host.tun \ b.stale.tun = st.tun
      BY <1>1, <3>2, Zenon DEF DInv, IdleInv
    <3>4. pc \in {"idle", "rollback", "reapply"} /\ active => host.tun = st.tun
      BY <1>1, <3>2 DEF DInv, IdleInv
    <3> QED
      BY <1>1, <3>1, <3>3, <3>4, Zenon DEF DInv, DTypes
  <2> QED
    BY <1>1, <2>1, Zenon DEF DInv, ReaderInv, RetryVisible
<1> QED
  BY <1>1, DefaultTunInvariant, PTL

\* A rebuild, or a setter outside the restore that follows its failure, never leaves
\* an active default TUN without its policy routing or a guard.
THEOREM ProtectedOutsideRestoreHolds == Spec => []ProtectedOutsideRestore
<1>1. ASSUME DInv, active, st.route # {}, pc \notin {"fail", "reapply"}, "route" \notin lost
      PROVE  host.route # {}
  <2>1. CASE pc \in Building
    BY <1>1, <2>1 DEF DInv, PolicyInv
  <2>2. CASE pc = "finish"
    BY <1>1, <2>2, ResourceNames DEF DInv, IdleInv
  <2>3. CASE pc = "idle"
    BY <1>1, <2>3, ResourceNames DEF DInv, IdleInv
  <2>4. CASE pc = "rollback"
    BY <1>1, <2>4 DEF DInv, PolicyInv
  <2> QED
    BY <1>1, <2>1, <2>2, <2>3, <2>4 DEF DInv, DTypes
<1>2. DInv => ProtectedOutsideRestore
  BY <1>1, Zenon DEF ProtectedOutsideRestore
<1> QED
  BY <1>2, DefaultTunInvariant, PTL

=============================================================================
