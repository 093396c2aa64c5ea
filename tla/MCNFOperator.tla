---------------------------- MODULE MCNFOperator ----------------------------
(***************************************************************************)
(* Small instances of NFOperator.                                          *)
(***************************************************************************)
EXTENDS NFOperator, ConfigGen

CONSTANTS
  a1, a2,  \* addresses
  c1, c2   \* the configurations generated for them

Down == NoHealth
Up   == [available |-> TRUE, replicas |-> 1, readyReplicas |-> 1]
\* Scaled to nothing by somebody else: available, and no pod is ready.
Idle == [available |-> TRUE, replicas |-> 0, readyReplicas |-> 0]

AllHealths == {Down, Up, Idle}
UpAndDown  == {Down, Up}

NoObjects  == {}
SMFWatched == {"smf-config", "smf"}

OneAddr  == {a1}
TwoAddrs == {a1, a2}

ConfigOf1 == [a \in OneAddr |-> c1]
ConfigOf2 == [a \in TwoAddrs |-> IF a = a1 THEN c1 ELSE c2]

\* Specs that stand behind the addresses, for the N2 and the N4 interface alike,
\* and the module that makes configurations of them.
SpecOf(a) ==
  LET host == IF a = a2 THEN <<"4", ".", "5">> ELSE <<"1", ".", "2">>
  IN  [i \in 1..2 |-> [name |-> IF i = 1 THEN "n2" ELSE "n4",
                       ipv4 |-> <<CIDR(host, <<"2", "4">>)>>]]

\* Two addresses have the same configuration in an instance iff the code
\* generates the same for them.
ASSUME ConfigIsGenerated ==
  \A a, b \in Addrs :
    /\ Config[a] = Config[b] <=>
         GenerateAMFConfig(SpecOf(a)) = GenerateAMFConfig(SpecOf(b))
    /\ Config[a] = Config[b] <=>
         GenerateSMFConfig(SpecOf(a)) = GenerateSMFConfig(SpecOf(b))

OnlySDCore == {"sdcore"}
OnlyUPF    == {"upf.sdcore.io"}
Switching  == {"sdcore", "upf.sdcore.io", "foreign"}
=============================================================================
