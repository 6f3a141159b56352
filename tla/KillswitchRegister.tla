------------------------- MODULE KillswitchRegister -------------------------
(***************************************************************************)
(* What killswitch.Client promises its callers: a register that lags        *)
(* behind.  The policy in force is nothing at all or exactly what all the   *)
(* callers together wanted at one moment (never a mixture of two edits),    *)
(* and those moments never go backwards, not even across reconnections.     *)
(***************************************************************************)
EXTENDS Integers, Sequences

CONSTANT Want   \* what the callers together may want

VARIABLES
    log,        \* what the callers wanted, after each edit
    pos,        \* the moment the policy in force comes from
    enforced    \* the policy in force: a singleton, or {}

Init == log = <<{}>> /\ pos = 1 /\ enforced = {}

\* A caller creates, replaces or deletes a ruleset.
Edit ==
    /\ \E p \in Want : log' = Append(log, p)
    /\ UNCHANGED <<pos, enforced>>

\* The policy in force catches up, possibly not with the latest edit.
Enforce ==
    /\ \E i \in pos..Len(log) : pos' = i /\ enforced' \in {{}, {log[i]}}
    /\ UNCHANGED log

\* The connection is gone.
Drop == enforced' = {} /\ UNCHANGED <<log, pos>>

Next == Edit \/ Enforce \/ Drop

Spec == Init /\ [][Next]_<<log, pos, enforced>>
=============================================================================
