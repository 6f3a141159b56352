------------------------------ MODULE MCSystem ------------------------------
(***************************************************************************)
(* Model of System and FileDNS for TLC.  The two share no variable: the    *)
(* DNS provider is a component of its own, which System opens, calls and   *)
(* closes like the others.  A behaviour of the run is one of either while  *)
(* the other rests.                                                        *)
(***************************************************************************)
EXTENDS System, FileDNS, TLC

\* Every feature asked for, every one but one, and none.
MCFeatureSets == {Feature, {}} \cup {Feature \ {f} : f \in Feature}

\* The goroutines of System differ in nothing but their names.
MCSymmetry == Permutations(Proc)

SystemRests ==
    /\ phase = "inject"
    /\ env = [requested |-> {}, netAdmin |-> TRUE, currentNamespace |-> FALSE,
              pinPath |-> FALSE]

FileRests == FileInit /\ kind = "direct" /\ conf = [by |-> "host", servers |-> Server]

MCInit == Init /\ FileInit /\ (SystemRests \/ FileRests)

MCNext ==
    \/ FileRests /\ Next /\ UNCHANGED fileVars
    \/ SystemRests /\ FileNext /\ UNCHANGED vars

MCSpec == MCInit /\ [][MCNext]_<<vars, fileVars>>
=============================================================================
