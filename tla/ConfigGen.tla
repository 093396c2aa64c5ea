----------------------------- MODULE ConfigGen -----------------------------
(***************************************************************************)
(* How the interfaces of an NFDeployment's spec get into the configuration *)
(* of its network function: generateAMFConfig, generateSMFConfig and       *)
(* generateUPFConfig.  Of a configuration only the part that varies is     *)
(* kept, the address that is filled in.                                    *)
(*                                                                         *)
(* A text is a sequence of characters, which the code cuts by length.  An  *)
(* interface has a name and an IPv4 pointer: <<>> when it is nil, <<text>> *)
(* when it is not.                                                         *)
(***************************************************************************)
EXTENDS Naturals, Sequences

\* An address in CIDR notation; the digits of the prefix length are a text.
CIDR(host, digits) == host \o <<"/">> \o digits

\* The addresses for an NFDeployment that gives none.
DefaultN2 == <<"192.168.251.5">>
DefaultN4 == <<"192.168.250.4">>

\* The interfaces the search for an address stops at.
Usable(interfaces, name) ==
  {i \in DOMAIN interfaces : interfaces[i].name = name /\ interfaces[i].ipv4 # <<>>}

\* Mutant: the search goes on to the end.
LastAddress(interfaces, name) ==
  LET found == Usable(interfaces, name)
  IN  IF found = {} THEN <<>>
      ELSE interfaces[CHOOSE i \in found : \A j \in found : i >= j].ipv4[1]

\* Mutant: the name is not looked at.
AnyAddress(interfaces, name) ==
  LET found == {i \in DOMAIN interfaces : interfaces[i].ipv4 # <<>>}
  IN  IF found = {} THEN <<>>
      ELSE interfaces[CHOOSE i \in found : \A j \in found : i <= j].ipv4[1]

\* The address of the first interface of that name with an IPv4 part, <<>> if
\* there is none.
SelectedAddress(interfaces, name) ==
  LET found == Usable(interfaces, name)
  IN  IF found = {} THEN <<>>
      ELSE interfaces[CHOOSE i \in found : \A j \in found : i <= j].ipv4[1]

\* The address without its last three characters.
Shortened(address) == SubSeq(address, 1, Len(address) - 3)

\* Mutant: no default.
FilledInAlways(address, default) == Shortened(address)

\* An empty address counts as none.
FilledIn(address, default) == IF address # <<>> THEN Shortened(address) ELSE default

GenerateAMFConfig(interfaces) == FilledIn(SelectedAddress(interfaces, "n2"), DefaultN2)
GenerateSMFConfig(interfaces) == FilledIn(SelectedAddress(interfaces, "n4"), DefaultN4)

\* The same text for every spec.
GenerateUPFConfig(interfaces) == <<"upf.jsonc">>
=============================================================================
