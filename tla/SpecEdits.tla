----------------------------- MODULE SpecEdits -----------------------------
(***************************************************************************)
(* Users edit the interfaces of an NFDeployment; after every edit each     *)
(* reconciler would generate the configuration of its network function.    *)
(***************************************************************************)
EXTENDS ConfigGen, Functions

CONSTANTS
  Characters,    \* what texts are made of; a default is one piece, it is never cut
  Hosts,         \* the texts of IPv4 addresses
  Lengths,       \* the texts of prefix lengths: one or two digits
  InterfaceNames,
  MaxInterfaces  \* bound on the interfaces of an NFDeployment

\* The shortest IPv4 address has seven characters; all that matters is that
\* three can be taken away.
ASSUME EditsAssumption ==
  /\ {"/", "upf.jsonc", DefaultN2[1], DefaultN4[1]} \subseteq Characters
  /\ \A h \in Hosts : h \in Seq(Characters) /\ Len(h) >= 3
  /\ \A d \in Lengths : d \in Seq(Characters) /\ Len(d) \in 1..2
  /\ InterfaceNames \subseteq STRING
  /\ MaxInterfaces \in Nat

VARIABLE interfaces

\* An IPv4 part may be missing, and its address may be empty.
Addresses  == {CIDR(h, d) : h \in Hosts, d \in Lengths} \cup {<<>>}
Interfaces == [name: InterfaceNames, ipv4: {<<>>} \cup {<<a>> : a \in Addresses}]

TypeOK ==
  /\ interfaces \in Seq(Interfaces)
  /\ \A generated \in {GenerateAMFConfig(interfaces), GenerateSMFConfig(interfaces),
                       GenerateUPFConfig(interfaces)} :
       generated \in Seq(Characters) /\ generated # <<>>

Init == interfaces = <<>>

Add ==
  /\ Len(interfaces) < MaxInterfaces
  /\ \E f \in Interfaces : interfaces' = Append(interfaces, f)

Change ==
  \E i \in DOMAIN interfaces : \E f \in Interfaces \ {interfaces[i]} :
    interfaces' = [interfaces EXCEPT ![i] = f]

Drop ==
  \E i \in DOMAIN interfaces :
    interfaces' = [j \in 1..Len(interfaces) - 1 |->
                     interfaces[IF j < i THEN j ELSE j + 1]]

Next == Add \/ Change \/ Drop

Spec == Init /\ [][Next]_interfaces

-----------------------------------------------------------------------------
\* The interface at i is the one whose address counts for the function that
\* looks for "name".
Counts(i, name) ==
  /\ interfaces[i].name = name /\ interfaces[i].ipv4 # <<>>
  /\ \A j \in 1..i - 1 : interfaces[j].name = name => interfaces[j].ipv4 = <<>>

\* Whenever the address that counts has a prefix length of the given numbers of
\* digits, what the AMF and the SMF get is the address without it.
StripsPrefixes(numbers) ==
  \A i \in DOMAIN interfaces, h \in Hosts, d \in Lengths :
    interfaces[i].ipv4 = <<CIDR(h, d)>> /\ Len(d) \in numbers =>
      /\ Counts(i, "n2") => GenerateAMFConfig(interfaces) = h
      /\ Counts(i, "n4") => GenerateSMFConfig(interfaces) = h

\* generateAMFConfig and generateSMFConfig fill in the right host for prefix
\* lengths of two digits, which all manifests of the repository have, whatever
\* other interfaces there are and in whatever order.
TwoDigitsStripped == StripsPrefixes({2})

Positions(list, name) == {i \in DOMAIN list : list[i].name = name}

\* The interfaces of that name are the same ones in the same order.
SameNamed(name, before, after) ==
  \E moved \in Bijection(Positions(before, name), Positions(after, name)) :
    \A i, j \in Positions(before, name) :
      after[moved[i]] = before[i] /\ (i < j => moved[i] < moved[j])

\* An edit that leaves the interfaces called n2 (n4) as they are, in their
\* order, does not touch the ConfigMap of the AMF (SMF).
OthersDoNotMatter ==
  [][/\ SameNamed("n2", interfaces, interfaces') =>
          GenerateAMFConfig(interfaces') = GenerateAMFConfig(interfaces)
     /\ SameNamed("n4", interfaces, interfaces') =>
          GenerateSMFConfig(interfaces') = GenerateSMFConfig(interfaces)]_interfaces

\* controllers/nf/amf/resources.go:455 and smf/resources.go:352, "Extract the IP
\* address without the CIDR": whatever the prefix length.
WithoutCIDR == StripsPrefixes({1, 2})
=============================================================================
