------------------------------ MODULE Connmark ------------------------------
(***************************************************************************)
(* Connection marks (connmark/connmark.go): the nftables table that saves  *)
(* the mark of a packet that leaves in its connection and restores it in   *)
(* the packets that come back, and one connection that passes through it.  *)
(*                                                                         *)
(* A mark is the set of its bits that are set, so that & is \cap.          *)
(***************************************************************************)
EXTENDS Integers, FiniteSets

CONSTANTS
    Bit,     \* bits of a mark
    MaxMarks \* marks of a configuration

VARIABLES
    config, \* the marks of the System
    rules,  \* the marks of the table in the kernel; empty when there is none
    flow    \* the connection: its mark, and the last packet of each direction

connmarkVars == <<config, rules, flow>>

Mark == [value : SUBSET Bit, mask : SUBSET Bit]

\* matchMarkExprs on a packet's or a connection's mark.
Selects(mark, m) == m \cap mark.mask = mark.value \cap mark.mask

\* Mutant: only marks with the same mask are compared.
MutMarksOverlap(a, b) == a.mask = b.mask /\ Selects(a, b.value)

marksOverlap(a, b) ==
    LET common == a.mask \cap b.mask
    IN a.value \cap common = b.value \cap common

\* normalizeMarks refuses a mask of zero and marks that overlap.  Duplicates
\* are dropped: a configuration is a set.
normalizeMarks(marks) ==
    /\ \A a \in marks : a.mask # {}
    /\ \A a, b \in marks : a # b => ~marksOverlap(a, b)

\* Every rule of a chain is tried on the mark it matches, which the chain does
\* not change; one that matches has set the other mark.
RunChain(matched, set) ==
    LET hits == {a \in rules : Selects(a, matched)}
    IN IF hits = {} THEN set ELSE (CHOOSE a \in hits : TRUE).value

saveMark(meta, ct) == RunChain(meta, ct)

restoreMark(ct, meta) == RunChain(ct, meta)

----------------------------------------------------------------------------
NoFlow == [ct |-> {}, sent |-> {}, reply |-> {}, pc |-> "silent"]

\* The table changes: a packet on its way is no longer followed.
Table(marks) ==
    /\ rules' = marks
    /\ flow' = [flow EXCEPT !.sent = {}, !.reply = {}, !.pc = "silent"]

\* The table is deleted, then the new one is added in one transaction.  The
\* first request may fail and leave the table, the second may leave none.
Apply ==
    /\ normalizeMarks(config)
    /\ Table(config) \/ Table({}) \/ UNCHANGED <<rules, flow>>
    /\ UNCHANGED config

Rollback ==
    /\ Table({}) \/ UNCHANGED <<rules, flow>>
    /\ UNCHANGED config

\* A packet leaves with the mark of its socket (the output chain).
Output(meta) ==
    /\ flow' = [ct |-> saveMark(meta, flow.ct), sent |-> meta, reply |-> {},
                pc |-> "sent"]
    /\ UNCHANGED <<config, rules>>

\* A packet of the connection arrives without a mark (the prerouting chain).
Prerouting ==
    /\ flow.pc = "sent"
    /\ flow' = [flow EXCEPT !.reply = restoreMark(flow.ct, {}), !.pc = "reply"]
    /\ UNCHANGED <<config, rules>>

ConnmarkInit ==
    /\ config \in {marks \in SUBSET Mark : Cardinality(marks) <= MaxMarks}
    /\ rules = {}
    /\ flow = NoFlow

ConnmarkNext ==
    \/ Apply \/ Rollback \/ Prerouting
    \/ \E meta \in SUBSET Bit : Output(meta)

ConnmarkSpec == ConnmarkInit /\ [][ConnmarkNext]_connmarkVars

\* The answer to a packet that a mark selects is selected by that mark and by
\* no other, so that the policy rules of routing treat both directions alike.
\* Relies on normalizeMarks refusing selectors that overlap, since a rule saves
\* the whole value, the bits outside its mask included.
ReplySelected ==
    flow.pc = "reply" =>
        \A a \in rules :
            Selects(a, flow.sent) =>
                \A b \in rules : Selects(b, flow.reply) <=> a = b
=============================================================================
