------------------------------ MODULE Cluster ------------------------------
(***************************************************************************)
(* What the API server may hold for one NFDeployment: the NFDeployment and *)
(* the objects the operator keeps for it.                                  *)
(*                                                                         *)
(* An owned object is named by the suffix GetNamespacedName appends to the *)
(* name of the NFDeployment.                                               *)
(***************************************************************************)
EXTENDS Naturals, Sequences, Routing

CONSTANTS
  Name,       \* metadata.name of the NFDeployment
  Providers,  \* the values of spec.provider its users choose from
  Addrs,      \* the values of its N2 (AMF) or N4 (SMF) address
  Config,     \* the configuration that is generated for each address
  Contested,  \* the owned objects that others than the operator touch
  Healths,    \* the values of a Deployment's status
  Foreign,    \* the controller reference of some other controller
  Foreground, \* users delete the NFDeployment in the foreground, too
  MaxEdits,   \* bound on what the users do to the NFDeployment
  MaxMoves,   \* bound on what others do to the owned objects
  MaxFaults,  \* bound on failing calls and restarts of the operator
  MaxLag      \* bound on the versions an informer is behind when somebody
              \* other than the operator writes

AMFObjects == {"amf-config", "amf", "amf-service", "amf-headless"}
SMFObjects == {"smf-config", "smf", "smf-service"}
UPFObjects == {"upf-config", "upf", "upf-service"}

\* The suffixes of all objects the operator may keep for it.
Objects     == AMFObjects \cup SMFObjects \cup UPFObjects
ConfigMaps  == {"amf-config", "smf-config", "upf-config"}
Deployments == NetworkFunctions
Names       == {"nf"} \cup Objects

NoHealth == [available |-> FALSE, replicas |-> 0, readyReplicas |-> 0]

ASSUME ParametersAssumption ==
  /\ Providers \subseteq AllProviders
  /\ Addrs # {}
  /\ DOMAIN Config = Addrs
  /\ \A a \in Addrs : Config[a] \notin {"fixed", "drift", "hidden"}
  /\ Contested \subseteq Objects
  /\ NoHealth \in Healths
  /\ Healths \subseteq [available: BOOLEAN, replicas: Nat, readyReplicas: Nat]
  /\ Foreign \notin Nat
  /\ Foreground \in BOOLEAN
  /\ MaxEdits \in Nat /\ MaxMoves \in Nat /\ MaxFaults \in Nat
  /\ MaxLag \in Nat \ {0}

-----------------------------------------------------------------------------
\* The dependents whose watch events reach the controller: For and Owns.
Watched == ConfigMaps \cup Deployments

\* Labels put on the metadata of a new object: by the AMF and the SMF only.
Labelled == Objects \ UPFObjects

\* Condition statuses; a condition the list does not hold is "Unset".
Conds == {"Unset", "True", "False"}

\* "data" is what the operator manages of an object: the configuration made
\* for an address, or "fixed" where nothing depends on the spec.
\* "drift" is an edit by others that the comparison of the AMF's and SMF's
\* reconcilers notices, "hidden" one it does not.
Data == {Config[a] : a \in Addrs} \cup {"fixed", "drift", "hidden"}

\* uids are not reused: that of a deleted NFDeployment is kept to count on.
\* "deleting" is a deletionTimestamp: it is there, but on its way out.
NFRecord ==
  [live: BOOLEAN, deleting: BOOLEAN, uid: Nat, gen: Nat, addr: Addrs,
   provider: AllProviders, obs: Nat, available: Conds, ready: Conds]

\* "owner" is the uid of the NFDeployment in the controller reference, 0 when
\* there is none.  "gen" is 0 until an object of that name has existed, and
\* counts the generations of a Deployment.
OwnedRecord ==
  [live: BOOLEAN, owner: Nat \cup {Foreign}, data: Data, gen: Nat, health: Healths,
   labelled: BOOLEAN]

Record(x) == IF x = "nf" THEN NFRecord ELSE OwnedRecord

NoNF ==
  [live |-> FALSE, deleting |-> FALSE, uid |-> 0, gen |-> 0,
   addr |-> CHOOSE a \in Addrs : TRUE, provider |-> "foreign",
   obs |-> 0, available |-> "Unset", ready |-> "Unset"]

NoObject ==
  [live |-> FALSE, owner |-> 0, data |-> "fixed", gen |-> 0,
   health |-> NoHealth, labelled |-> FALSE]

Nothing == [x \in Names |-> IF x = "nf" THEN NoNF ELSE NoObject]

ByNF(owner) == owner \notin {0, Foreign}

\* The objects kept for each network function.
KeptFor(k) == CASE k = "amf" -> AMFObjects
                [] k = "smf" -> SMFObjects
                [] k = "upf" -> UPFObjects

\* Of the owned objects, Deployments alone have generations.
Rewritten(x, v, d) ==
  [v EXCEPT !.data = d,
            !.gen = IF x \in Deployments /\ d # v.data THEN @ + 1 ELSE @]
=============================================================================
