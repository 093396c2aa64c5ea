-------------------------- MODULE SpecEditsProofs --------------------------
(***************************************************************************)
(* Proofs about SpecEdits, for any hosts, prefix lengths and interfaces.   *)
(***************************************************************************)
EXTENDS SpecEdits, SequenceTheorems, WellFoundedInduction, TLAPS

\* The part of the type invariant the proofs need.
IsList == interfaces \in Seq(Interfaces)

\* A set of positions that has any has a first one: what "the first interface"
\* of the search stands on.
LEMMA FirstPosition ==
  ASSUME NEW positions \in SUBSET Nat, positions # {}
  PROVE  \E i \in positions : \A j \in positions : i <= j
  <1> DEFINE less == {ss \in Nat \X Nat : ss[1] < ss[2]}
  <1>1. IsWellFoundedOn(less, Nat)
    <2>1. IsWellFoundedOn(OpToRel(<, Nat), Nat) => IsWellFoundedOn(less, Nat)
      BY Zenon DEF OpToRel
    <2> QED
      BY <2>1, NatLessThanWellFounded
  <1>2. \A a, b \in Nat : a < b => <<a, b>> \in less
    OBVIOUS
  <1> HIDE DEF less
  <1>3. PICK i \in positions : \A j \in positions : ~(<<j, i>> \in less)
    BY <1>1, WFMin
  <1>4. \A j \in positions : i <= j
    <2> SUFFICES ASSUME NEW j \in positions
                 PROVE  i <= j
      OBVIOUS
    <2>1. i \in Nat /\ j \in Nat
      OBVIOUS
    <2>2. ~(<<j, i>> \in less)
      BY <1>3
    <2>3. ~(j < i)
      BY <1>2, <2>1, <2>2, Zenon
    <2> QED
      BY <2>1, <2>3
  <1> QED
    BY <1>4

\* The search for an address in a list of interfaces stops at an interface, the
\* first it can stop at, unless there is none.
LEMMA SelectedFirst ==
  ASSUME NEW list \in Seq(Interfaces), NEW name
  PROVE  \/ Usable(list, name) = {} /\ SelectedAddress(list, name) = <<>>
         \/ \E i \in Usable(list, name) :
              /\ \A j \in Usable(list, name) : i <= j
              /\ SelectedAddress(list, name) = list[i].ipv4[1]
  <1>1. CASE Usable(list, name) = {}
    BY <1>1 DEF SelectedAddress
  <1>2. CASE Usable(list, name) # {}
    <2> DEFINE found == Usable(list, name)
    <2>1. found \in SUBSET Nat
      BY DEF Usable
    <2>2. \E i \in found : \A j \in found : i <= j
      BY <1>2, <2>1, FirstPosition
    <2> HIDE DEF found
    <2>3. PICK i \in found : /\ \A j \in found : i <= j
                             /\ i = CHOOSE k \in found : \A j \in found : k <= j
      BY <2>2
    <2>4. SelectedAddress(list, name) = list[i].ipv4[1]
      BY <1>2, <2>3 DEF SelectedAddress, found
    <2> QED
      BY <2>3, <2>4 DEF found
  <1> QED
    BY <1>1, <1>2

\* An address in CIDR notation is the host's text, a slash and the digits.
LEMMA CIDRText ==
  ASSUME NEW h \in Hosts, NEW d \in Lengths
  PROVE  /\ CIDR(h, d) \in Seq(Characters) /\ Len(CIDR(h, d)) = Len(h) + 1 + Len(d)
         /\ \A i \in 1..Len(h) : CIDR(h, d)[i] = h[i]
  <1> DEFINE slash == <<"/">>
  <1> DEFINE s == h \o slash
  <1>1. h \in Seq(Characters) /\ d \in Seq(Characters) /\ Len(h) \in Nat
    BY EditsAssumption
  <1>2. slash \in Seq(Characters) /\ Len(slash) = 1
    BY EditsAssumption
  <1>3. CIDR(h, d) = s \o d
    BY DEF CIDR
  <1> HIDE DEF slash
  <1>4. /\ s \in Seq(Characters) /\ Len(s) = Len(h) + 1
        /\ \A i \in 1..Len(h) : s[i] = h[i]
    <2>1. s \in Seq(Characters) /\ Len(s) = Len(h) + Len(slash)
      BY <1>1, <1>2, ConcatProperties
    <2>2. \A i \in 1..Len(h) : s[i] = h[i]
      BY <1>1, <1>2, ConcatProperties
    <2> QED
      BY <1>2, <2>1, <2>2
  <1> HIDE DEF s
  <1>5. s \o d \in Seq(Characters) /\ Len(s \o d) = Len(s) + Len(d)
    BY <1>1, <1>4, ConcatProperties
  <1>6. \A i \in 1..Len(s) : (s \o d)[i] = s[i]
    BY <1>1, <1>4, ConcatProperties
  <1> QED
    BY <1>1, <1>3, <1>4, <1>5, <1>6

\* What is cut off an address with a prefix length of two digits is the prefix.
LEMMA ShortenedCIDR ==
  ASSUME NEW h \in Hosts, NEW d \in Lengths, Len(d) = 2
  PROVE  CIDR(h, d) # <<>> /\ Shortened(CIDR(h, d)) = h
  <1>1. Len(h) \in Nat /\ Len(h) >= 3 /\ h \in Seq(Characters)
    BY EditsAssumption
  <1>2. /\ CIDR(h, d) \in Seq(Characters) /\ Len(CIDR(h, d)) = Len(h) + 3
        /\ \A i \in 1..Len(h) : CIDR(h, d)[i] = h[i]
    <2>1. /\ CIDR(h, d) \in Seq(Characters) /\ Len(CIDR(h, d)) = Len(h) + 1 + Len(d)
          /\ \A i \in 1..Len(h) : CIDR(h, d)[i] = h[i]
      BY CIDRText
    <2> QED
      BY <1>1, <2>1
  <1>3. SubSeq(CIDR(h, d), 1, Len(h)) = h
    BY <1>1, <1>2
  <1> QED
    BY <1>1, <1>2, <1>3, EmptySeq DEF Shortened

\* The interface whose address counts is the one that is selected.
LEMMA CountsIsSelected ==
  ASSUME IsList, NEW name, NEW i \in DOMAIN interfaces, Counts(i, name)
  PROVE  SelectedAddress(interfaces, name) = interfaces[i].ipv4[1]
  <1> DEFINE found == Usable(interfaces, name)
  <1>1. DOMAIN interfaces = 1..Len(interfaces) /\ Len(interfaces) \in Nat
    BY DEF IsList
  <1>2. i \in found /\ \A j \in found : i <= j
    BY <1>1 DEF Counts, Usable
  <1>3. \A k \in found : (\A j \in found : k <= j) => k = i
    BY <1>1, <1>2 DEF Usable
  <1>4. (CHOOSE k \in found : \A j \in found : k <= j) = i
    BY <1>2, <1>3
  <1> QED
    BY <1>2, <1>4 DEF SelectedAddress

\* Edits keep the interfaces a list of interfaces.
LEMMA EditsKeepList == Spec => []IsList
  <1>1. Init => IsList
    BY EmptySeq DEF Init, IsList
  <1>2. ASSUME IsList, [Next]_interfaces PROVE IsList'
    <2>1. CASE Add
      BY <1>2, <2>1 DEF Add, IsList
    <2>2. CASE Change
      BY <1>2, <2>2 DEF Change, IsList
    <2>3. CASE Drop
      <3>1. PICK i \in DOMAIN interfaces :
              interfaces' = [j \in 1..Len(interfaces) - 1 |->
                               interfaces[IF j < i THEN j ELSE j + 1]]
        BY <2>3 DEF Drop
      <3>2. \A j \in 1..Len(interfaces) - 1 :
              interfaces[IF j < i THEN j ELSE j + 1] \in Interfaces
        BY <1>2 DEF IsList
      <3>3. Len(interfaces) - 1 \in Nat
        BY <1>2 DEF IsList
      <3> QED
        BY <3>1, <3>2, <3>3, IsASeq DEF IsList
    <2> QED
      BY <1>2, <2>1, <2>2, <2>3 DEF Next, IsList
  <1> QED
    BY <1>1, <1>2, PTL DEF Spec

\* The AMF and the SMF are configured with the host of the N2 or N4 address,
\* without its prefix length, whatever the two digits of that are, whatever the
\* host, and whichever other interfaces there are before and after it.
THEOREM HostsConfigured == Spec => []TwoDigitsStripped
  <1>1. ASSUME IsList PROVE TwoDigitsStripped
    <2> SUFFICES ASSUME NEW i \in DOMAIN interfaces, NEW h \in Hosts, NEW d \in Lengths,
                        interfaces[i].ipv4 = <<CIDR(h, d)>>, Len(d) = 2
                 PROVE  /\ Counts(i, "n2") => GenerateAMFConfig(interfaces) = h
                        /\ Counts(i, "n4") => GenerateSMFConfig(interfaces) = h
      BY DEF TwoDigitsStripped, StripsPrefixes
    <2>1. interfaces[i].ipv4[1] = CIDR(h, d)
      OBVIOUS
    <2>2. CIDR(h, d) # <<>> /\ Shortened(CIDR(h, d)) = h
      BY ShortenedCIDR
    <2>3. Counts(i, "n2") => SelectedAddress(interfaces, "n2") = CIDR(h, d)
      BY <1>1, <2>1, CountsIsSelected
    <2>4. Counts(i, "n4") => SelectedAddress(interfaces, "n4") = CIDR(h, d)
      BY <1>1, <2>1, CountsIsSelected
    <2> QED
      BY <2>2, <2>3, <2>4 DEF GenerateAMFConfig, GenerateSMFConfig, FilledIn
  <1> QED
    BY <1>1, EditsKeepList, PTL

\* An address of an interface is empty, or long enough for its last three
\* characters to be cut off, with some left.
LEMMA AddressText ==
  ASSUME NEW a \in Addresses
  PROVE  a \in Seq(Characters) /\ (a # <<>> => Len(a) >= 5)
  <1>1. CASE a = <<>>
    BY <1>1, EmptySeq
  <1>2. ASSUME NEW h \in Hosts, NEW d \in Lengths, a = CIDR(h, d)
        PROVE  a \in Seq(Characters) /\ Len(a) >= 5
    <2>1. h \in Seq(Characters) /\ Len(h) >= 3
      BY EditsAssumption
    <2>2. d \in Seq(Characters) /\ Len(d) \in 1..2
      BY EditsAssumption
    <2>3. Len(h) \in Nat /\ Len(d) \in Nat
      BY <2>1, <2>2, LenProperties
    <2>4. CIDR(h, d) \in Seq(Characters) /\ Len(CIDR(h, d)) = Len(h) + 1 + Len(d)
      BY CIDRText
    <2>5. Len(d) >= 1
      BY <2>2, <2>3
    <2> QED
      BY <1>2, <2>1, <2>3, <2>4, <2>5
  <1> QED
    BY <1>1, <1>2 DEF Addresses

\* What is filled in for an address is a text, and not an empty one.
LEMMA FilledInText ==
  ASSUME NEW a \in Addresses, NEW default \in Seq(Characters), default # <<>>
  PROVE  FilledIn(a, default) \in Seq(Characters) /\ FilledIn(a, default) # <<>>
  <1>1. CASE a = <<>>
    BY <1>1 DEF FilledIn
  <1>2. CASE a # <<>>
    <2> DEFINE rest == SubSeq(a, 1, Len(a) - 3)
    <2>1. a \in Seq(Characters) /\ Len(a) >= 5 /\ Len(a) \in Nat
      BY <1>2, AddressText
    <2>2. rest \in Seq(Characters) /\ Len(rest) = Len(a) - 3
      BY <2>1, SubSeqProperties
    <2>3. FilledIn(a, default) = rest
      BY <1>2 DEF FilledIn, Shortened
    <2> HIDE DEF rest
    <2>4. Len(rest) # 0
      BY <2>1, <2>2
    <2> QED
      BY <2>2, <2>3, <2>4
  <1> QED
    BY <1>1, <1>2

\* The address that is selected is one of those the interfaces can have.
LEMMA SelectedIsAddress ==
  ASSUME NEW list \in Seq(Interfaces), NEW name
  PROVE  SelectedAddress(list, name) \in Addresses
  <1>1. <<>> \in Addresses
    BY DEF Addresses
  <1>2. \A i \in Usable(list, name) : list[i].ipv4[1] \in Addresses
    <2> SUFFICES ASSUME NEW i \in Usable(list, name)
                 PROVE  list[i].ipv4[1] \in Addresses
      OBVIOUS
    <2>1. list[i] \in Interfaces /\ list[i].ipv4 # <<>>
      BY DEF Usable
    <2> QED
      BY <2>1 DEF Interfaces
  <1> QED
    BY <1>1, <1>2, SelectedFirst

\* The defaults are texts.
LEMMA DefaultTexts ==
  /\ DefaultN2 \in Seq(Characters) /\ DefaultN2 # <<>>
  /\ DefaultN4 \in Seq(Characters) /\ DefaultN4 # <<>>
  /\ <<"upf.jsonc">> \in Seq(Characters) /\ <<"upf.jsonc">> # <<>>
  <1>1. \A text \in Characters : <<text>> \in Seq(Characters) /\ <<text>> # <<>>
    OBVIOUS
  <1>2. {"192.168.251.5", "192.168.250.4", "upf.jsonc"} \subseteq Characters
    BY EditsAssumption DEF DefaultN2, DefaultN4
  <1> QED
    BY <1>1, <1>2, Zenon DEF DefaultN2, DefaultN4

\* However the interfaces are edited, they remain a list of interfaces, and every
\* configuration has a text where the address goes.
THEOREM EditsTypes == Spec => []TypeOK
  <1>1. ASSUME IsList
        PROVE  TypeOK
    <2>1. /\ SelectedAddress(interfaces, "n2") \in Addresses
          /\ SelectedAddress(interfaces, "n4") \in Addresses
      BY <1>1, SelectedIsAddress DEF IsList
    <2>2. \A text \in {GenerateAMFConfig(interfaces), GenerateSMFConfig(interfaces),
                       GenerateUPFConfig(interfaces)} :
            text \in Seq(Characters) /\ text # <<>>
      BY <2>1, DefaultTexts, FilledInText
      DEF GenerateAMFConfig, GenerateSMFConfig, GenerateUPFConfig
    <2> QED
      BY <1>1, <2>2 DEF IsList, TypeOK
  <1> QED
    BY <1>1, EditsKeepList, PTL

\* Two lists with the same interfaces of a name, in the same order, give the same
\* address for that name: the first one that counts is the same in both.
LEMMA SameNamedSameAddress ==
  ASSUME NEW before \in Seq(Interfaces), NEW after \in Seq(Interfaces), NEW name,
         SameNamed(name, before, after)
  PROVE  SelectedAddress(after, name) = SelectedAddress(before, name)
  <1>1. PICK moved \in Bijection(Positions(before, name), Positions(after, name)) :
          \A i, j \in Positions(before, name) :
            after[moved[i]] = before[i] /\ (i < j => moved[i] < moved[j])
    BY DEF SameNamed
  <1>2. /\ \A i \in Positions(before, name) : moved[i] \in Positions(after, name)
        /\ \A k \in Positions(after, name) :
             \E i \in Positions(before, name) : moved[i] = k
    BY DEF Bijection, Injection, Surjection
  <1>3. \A list \in Seq(Interfaces) :
          /\ Positions(list, name) \subseteq Nat
          /\ Usable(list, name) = {i \in Positions(list, name) : list[i].ipv4 # <<>>}
    BY DEF Positions, Usable
  <1>4. \A k \in Usable(after, name) : \E i \in Usable(before, name) : moved[i] = k
    BY <1>1, <1>2, <1>3
  <1>5. CASE Usable(before, name) = {}
    <2>1. Usable(after, name) = {}
      BY <1>4, <1>5
    <2> QED
      BY <1>5, <2>1 DEF SelectedAddress
  <1>6. ASSUME NEW i \in Usable(before, name), \A j \in Usable(before, name) : i <= j
        PROVE  /\ moved[i] \in Usable(after, name)
               /\ \A k \in Usable(after, name) : moved[i] <= k
    <2>1. moved[i] \in Usable(after, name)
      BY <1>1, <1>2, <1>3
    <2>2. ASSUME NEW k \in Usable(after, name)
          PROVE  moved[i] <= k
      <3>1. PICK j \in Usable(before, name) : moved[j] = k
        BY <1>4
      <3>2. i \in Nat /\ j \in Nat /\ moved[i] \in Nat /\ k \in Nat /\ i <= j
        BY <1>3, <1>6, <2>1
      <3>3. i < j => moved[i] < moved[j]
        BY <1>1, <1>3
      <3>4. i < j \/ i = j
        BY <3>2
      <3> QED
        BY <3>1, <3>2, <3>3, <3>4
    <2> QED
      BY <2>1, <2>2
  <1>7. CASE Usable(before, name) # {}
    <2>1. PICK i \in Usable(before, name) :
            /\ \A j \in Usable(before, name) : i <= j
            /\ SelectedAddress(before, name) = before[i].ipv4[1]
      BY <1>7, SelectedFirst
    <2>2. /\ moved[i] \in Usable(after, name)
          /\ \A k \in Usable(after, name) : moved[i] <= k
          /\ after[moved[i]] = before[i]
      BY <1>1, <1>3, <1>6, <2>1
    <2>3. PICK k \in Usable(after, name) :
            /\ \A j \in Usable(after, name) : k <= j
            /\ SelectedAddress(after, name) = after[k].ipv4[1]
      BY <2>2, SelectedFirst
    <2>4. k = moved[i]
      BY <1>3, <2>2, <2>3
    <2> QED
      BY <2>1, <2>2, <2>3, <2>4
  <1> QED
    BY <1>5, <1>7

\* No edit of interfaces other than those called n2 (n4) touches the ConfigMap of
\* the AMF (SMF), wherever in the list it is, and whatever moves because of it.
THEOREM OthersHaveNoEffect == Spec => OthersDoNotMatter
  <1>1. ASSUME IsList, IsList'
        PROVE  /\ SameNamed("n2", interfaces, interfaces') =>
                    GenerateAMFConfig(interfaces') = GenerateAMFConfig(interfaces)
               /\ SameNamed("n4", interfaces, interfaces') =>
                    GenerateSMFConfig(interfaces') = GenerateSMFConfig(interfaces)
    BY <1>1, SameNamedSameAddress DEF IsList, GenerateAMFConfig, GenerateSMFConfig
  <1> QED
    BY <1>1, EditsKeepList, PTL DEF OthersDoNotMatter
=============================================================================
