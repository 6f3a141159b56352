----------------------------- MODULE MCResolved -----------------------------
(***************************************************************************)
(* Model of Resolved for TLC.                                              *)
(***************************************************************************)
EXTENDS Resolved

\* No domain, or a search domain of a site; another program may also configure
\* the routing-only root domain.
MCDomainSets == {{}, {[name |-> <<"corp">>, routingOnly |-> FALSE]}}

\* A name of the site and a public one.
MCName == {<<"corp", "host">>, <<"org">>}

\* Two calls and Close around a failure, two calls around a change by another
\* program, and one call and Close around such a change.
Failing  == [calls |-> 2, faults |-> 1, changes |-> 0, closes |-> 1]
Changing == [calls |-> 2, faults |-> 0, changes |-> 1, closes |-> 0]
Closing  == [calls |-> 1, faults |-> 0, changes |-> 1, closes |-> 1]

MCBudgets == {Failing, Changing, Closing}

\* Where another program may change something, the provider begins with a link
\* and with servers for all names.  A resolved that does not know default routes
\* is looked at in the shortest histories.
MCInit ==
    /\ Init
    /\ budget # Failing => r.ifidx = 1 /\ link[0].domains = {}
    /\ budget = Changing => link[0].servers = Server
    /\ budget # Closing => \A i \in Link : link[i].defaultRoute = "no"

MCSpec == MCInit /\ [][Next]_vars

\* Two calls and nothing else: no failure, no other program.
MCQuiet == {[calls |-> 2, faults |-> 0, changes |-> 0, closes |-> 0]}

\* The servers differ in nothing but their addresses.
MCSymmetry == Permutations(Server)
=============================================================================
