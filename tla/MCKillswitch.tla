---------------------------- MODULE MCKillswitch ----------------------------
(* Small instances of Killswitch. *)
EXTENDS Killswitch

\* Two rulesets that overlap, so that a merge differs from both.
MCPolicy == {{"v4", "port"}, {"v6", "port"}}

\* Two edits against a rejection and an outage, and one edit against a changing
\* interface and an outage.
MCBudgets == {[edit |-> 2, change |-> 0, outage |-> 1, reject |-> 1],
              [edit |-> 1, change |-> 1, outage |-> 1, reject |-> 0]}

\* Interfaces that come and go while the daemon is away.
MCStaleBudgets == {[edit |-> 1, change |-> 2, outage |-> 1, reject |-> 0]}
=============================================================================
