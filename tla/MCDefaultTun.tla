---------------------------- MODULE MCDefaultTun ----------------------------
(***************************************************************************)
(* Model of DefaultTun, TunLink, Connmark, Matcher and Subnet for TLC.     *)
(* defaultTunMu makes the updates of the default TUN, of its link and of   *)
(* the connection marks follow one another, and a matcher and the filters  *)
(* of the allocator use nothing of the others, so that the five share no   *)
(* variable: a behaviour of the run is one of any of them while the other  *)
(* four rest.                                                              *)
(***************************************************************************)
EXTENDS DefaultTun, TunLink, Connmark, Matcher, Subnet

DefaultTunRests == Init /\ indexer = FALSE /\ required = FALSE

LinkRests ==
    /\ addrs = <<>> /\ routes = {} /\ promote = TRUE /\ known = {} /\ job = Idle

ConnmarkRests == config = {} /\ rules = {} /\ flow = NoFlow

MatcherRests ==
    /\ matcher = NoMatcher /\ registered = FALSE /\ tracked = {} /\ match = NoMatch
    /\ process = [p \in Pid |-> "gone"] /\ closing = FALSE /\ ever = {}

SubnetRests == local = {} /\ tuns = {} /\ given = NothingGiven

MCInit ==
    \/ LinkRests /\ ConnmarkRests /\ MatcherRests /\ SubnetRests /\ Init
    \/ DefaultTunRests /\ ConnmarkRests /\ MatcherRests /\ SubnetRests /\ LinkInit
    \/ DefaultTunRests /\ LinkRests /\ MatcherRests /\ SubnetRests /\ ConnmarkInit
    \/ DefaultTunRests /\ LinkRests /\ ConnmarkRests /\ SubnetRests /\ MatcherInit
    \/ DefaultTunRests /\ LinkRests /\ ConnmarkRests /\ MatcherRests /\ SubnetInit

MCNext ==
    \/ /\ LinkRests /\ ConnmarkRests /\ MatcherRests /\ SubnetRests /\ Next
       /\ UNCHANGED <<linkVars, connmarkVars, matcherVars, subnetVars>>
    \/ /\ DefaultTunRests /\ ConnmarkRests /\ MatcherRests /\ SubnetRests /\ LinkNext
       /\ UNCHANGED <<vars, connmarkVars, matcherVars, subnetVars>>
    \/ /\ DefaultTunRests /\ LinkRests /\ MatcherRests /\ SubnetRests /\ ConnmarkNext
       /\ UNCHANGED <<vars, linkVars, matcherVars, subnetVars>>
    \/ /\ DefaultTunRests /\ LinkRests /\ ConnmarkRests /\ SubnetRests /\ MatcherNext
       /\ UNCHANGED <<vars, linkVars, connmarkVars, subnetVars>>
    \/ /\ DefaultTunRests /\ LinkRests /\ ConnmarkRests /\ MatcherRests /\ SubnetNext
       /\ UNCHANGED <<vars, linkVars, connmarkVars, matcherVars>>

MCSpec ==
    MCInit /\ [][MCNext]_<<vars, linkVars, connmarkVars, matcherVars, subnetVars>>
=============================================================================
