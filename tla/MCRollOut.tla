----------------------------- MODULE MCRollOut -----------------------------
(***************************************************************************)
(* Small instances of RollOut.                                             *)
(***************************************************************************)
EXTENDS RollOut

CONSTANTS a1, a2, c1, c2   \* addresses and the configurations for them

Down == NoHealth
Up   == [available |-> TRUE, replicas |-> 1, readyReplicas |-> 1]

UpAndDown == {Down, Up}

NoObjects   == {}
UnlikeEach  == {"upf-config", "upf-service"}   \* one is watched, the other is not
SomeWatched == {"smf-config", "upf-config", "upf"}

WellBehaved == {"start", "deletion"}

OneAddr   == {a1}
TwoAddrs  == {a1, a2}
ConfigOf1 == [a \in OneAddr |-> c1]
ConfigOf2 == [a \in TwoAddrs |-> IF a = a1 THEN c1 ELSE c2]

OnlySDCore == {"sdcore"}
OnlyUPF    == {"upf.sdcore.io"}
Either     == {"sdcore", "upf.sdcore.io"}
=============================================================================
