------------------------- MODULE KeepsPromiseProofs -------------------------
(***************************************************************************)
(* NFOperator implements the safety part of LevelTriggered, for any values *)
(* of the constants.                                                       *)
(***************************************************************************)
EXTENDS KeepsPromise, NFOperatorProofs

Asks == [uid: Nat, gen: Nat, addr: Addrs, provider: AllProviders]

\* v was written by users when they had asked for s[i], and nothing later.
StandsAt(s, v, i) ==
  /\ i \in 1..Len(s)
  /\ s[i].uid = v.uid /\ s[i].addr = v.addr /\ s[i].provider = v.provider
  /\ UpTo(s[i], v)
  /\ \A j \in 1..Len(s) : UpTo(s[j], v) => j <= i

\* Versions of the NFDeployment follow each other like this.
Precedes(v, w) ==
  v.uid <= w.uid /\ (v.live /\ w.live /\ v.uid = w.uid => v.gen <= w.gen)

\* The versions an informer has, and has yet to see, in their order.
Seen(c, q, i) == IF i = 0 THEN c ELSE q[i]

\* They are in order, and each stands for something that was asked, not earlier
\* than what the operator acts for.
InOrder(c, q) ==
  \A i, j \in 0..Len(q) : i <= j => Precedes(Seen(c, q, i), Seen(c, q, j))

Answers(c, q, s, a) ==
  \A i \in 0..Len(q) : Seen(c, q, i).live =>
    \E p \in a..Len(s) : StandsAt(s, Seen(c, q, i), p)

HistoryTypes == asked \in Seq(Asks) /\ acting \in 0..Len(asked)

\* The stored NFDeployment stands for the last thing asked, the copy Reconcile
\* works on for what the operator acts for.
CopiesStand ==
  /\ store["nf"].live => StandsAt(asked, store["nf"], Len(asked))
  /\ nf.live => StandsAt(asked, nf, acting) /\ Precedes(nf, store["nf"])

\* The reconciler that was chosen is the one this name can lead to.
Routed ==
  kind = Route(Name, IF kind = "upf" THEN "upf.sdcore.io" ELSE "sdcore")

HistoryInv ==
  /\ HistoryTypes
  /\ InOrder(cache["nf"], watch["nf"])
  /\ Answers(cache["nf"], watch["nf"], asked, acting)
  /\ CopiesStand
  /\ Routed
  /\ store["nf"].deleting => store["nf"].live
  /\ store = [x \in Names |-> store[x]]

PromiseInv == IInv /\ HistoryInv

-----------------------------------------------------------------------------
(* Where versions stand in what was asked.                                 *)

\* Position finds it.
LEMMA PositionIs ==
  ASSUME HistoryTypes, NEW v, NEW i, StandsAt(asked, v, i)
  PROVE  Position(v) = i
  <1>1. DOMAIN asked = 1..Len(asked) /\ Len(asked) \in Nat
    BY DEF HistoryTypes
  <1>2. \E k \in DOMAIN asked :
          UpTo(asked[k], v) /\ \A j \in DOMAIN asked : UpTo(asked[j], v) => j <= k
    BY <1>1 DEF StandsAt
  <1>3. /\ Position(v) \in DOMAIN asked /\ UpTo(asked[Position(v)], v)
        /\ \A j \in DOMAIN asked : UpTo(asked[j], v) => j <= Position(v)
    BY <1>2 DEF Position
  <1> QED
    BY <1>1, <1>3 DEF StandsAt

\* A later version does not stand earlier.
LEMMA PositionsInOrder ==
  ASSUME NEW s \in Seq(Asks), NEW v \in Identified, NEW w \in Identified,
         v.live, w.live, Precedes(v, w),
         NEW i, NEW j, StandsAt(s, v, i), StandsAt(s, w, j)
  PROVE  i <= j
  <1>1. s[i].uid \in Nat /\ s[i].gen \in Nat
    <2>1. s[i] \in Asks
      BY ElementOfSeq DEF StandsAt
    <2> QED
      BY <2>1 DEF Asks
  <1>2. v.uid \in Nat /\ v.gen \in Nat /\ w.uid \in Nat /\ w.gen \in Nat
    BY DEF Identified, NFRecord
  <1>3. UpTo(s[i], w)
    BY <1>1, <1>2 DEF StandsAt, UpTo, Precedes
  <1> QED
    BY <1>3 DEF StandsAt

\* What is asked later leaves a version where it stands.
LEMMA StandsStill ==
  ASSUME NEW s \in Seq(Asks), NEW e \in Asks, NEW v, NEW i, StandsAt(s, v, i),
         ~UpTo(e, v)
  PROVE  StandsAt(Append(s, e), v, i)
  <1>1. /\ Len(Append(s, e)) = Len(s) + 1 /\ Len(s) \in Nat
        /\ \A k \in 1..Len(s) : Append(s, e)[k] = s[k]
        /\ Append(s, e)[Len(s) + 1] = e
    BY AppendProperties
  <1>2. ASSUME NEW j \in 1..Len(Append(s, e)), UpTo(Append(s, e)[j], v)
        PROVE  j \in 1..Len(s) /\ UpTo(s[j], v)
    BY <1>1, <1>2
  <1> QED
    BY <1>1, <1>2 DEF StandsAt

-----------------------------------------------------------------------------
(* What an informer has seen and has yet to see.                           *)

\* The versions before and after a write.
LEMMA SeenAfterWrite ==
  ASSUME NEW c \in Identified, NEW q \in Seq(Identified), NEW v \in Identified
  PROVE  /\ Append(q, v) \in Seq(Identified)
         /\ Len(Append(q, v)) = Len(q) + 1 /\ Len(q) \in Nat
         /\ \A i \in 0..Len(q) : /\ Seen(c, Append(q, v), i) = Seen(c, q, i)
                                /\ Seen(c, q, i) \in Identified
         /\ Seen(c, Append(q, v), Len(q) + 1) = v
  <1>1. /\ Append(q, v) \in Seq(Identified)
        /\ Len(Append(q, v)) = Len(q) + 1 /\ Len(q) \in Nat
        /\ \A k \in 1..Len(q) : Append(q, v)[k] = q[k] /\ q[k] \in Identified
        /\ Append(q, v)[Len(q) + 1] = v
    BY AppendProperties, ElementOfSeq
  <1> QED
    BY <1>1 DEF Seen

\* Precedes is transitive for the steps the store takes: from one version to
\* the next, which has a new uid, or the same and no earlier generation.
LEMMA WriteKeepsOrder ==
  ASSUME NEW c \in Identified, NEW q \in Seq(Identified), NEW v \in Identified,
         InOrder(c, q),
         LET w == Seen(c, q, Len(q))
         IN  /\ w.uid <= v.uid
             /\ v.live => \/ w.uid < v.uid
                          \/ w.live /\ w.gen <= v.gen
  PROVE  /\ InOrder(c, Append(q, v))
         /\ \A u \in Identified : Precedes(u, Seen(c, q, Len(q))) => Precedes(u, v)
  <1> DEFINE n == Len(q)
             w == Seen(c, q, n)
  <1>1. /\ Len(Append(q, v)) = n + 1 /\ n \in Nat
        /\ \A i \in 0..n : /\ Seen(c, Append(q, v), i) = Seen(c, q, i)
                           /\ Seen(c, q, i) \in Identified
        /\ Seen(c, Append(q, v), n + 1) = v
    BY SeenAfterWrite
  <1>2. w \in Identified
    BY <1>1
  <1>3. ASSUME NEW u \in Identified, Precedes(u, w)
        PROVE  Precedes(u, v)
    BY <1>2, <1>3 DEF Precedes, Identified, NFRecord
  <1>4. ASSUME NEW i \in 0..n + 1, NEW j \in 0..n + 1, i <= j
        PROVE  Precedes(Seen(c, Append(q, v), i), Seen(c, Append(q, v), j))
    <2>1. CASE j <= n
      BY <2>1, <1>1, <1>4 DEF InOrder
    <2>2. CASE j = n + 1 /\ i <= n
      <3>1. Precedes(Seen(c, q, i), w)
        BY <2>2, <1>1 DEF InOrder
      <3> QED
        BY <3>1, <2>2, <1>1, <1>3
    <2>3. CASE j = n + 1 /\ i = n + 1
      BY <2>3, <1>1 DEF Precedes, Identified, NFRecord
    <2> QED
      BY <2>1, <2>2, <2>3, <1>1, <1>4
  <1> QED
    BY <1>1, <1>3, <1>4 DEF InOrder

\* The informer that sees the next version has fewer to see.
LEMMA DeliveryKeepsHistory ==
  ASSUME NEW c \in Identified, NEW q \in Seq(Identified), q # <<>>,
         NEW s \in Seq(Asks), NEW a \in Nat,
         InOrder(c, q), Answers(c, q, s, a)
  PROVE  InOrder(Head(q), Tail(q)) /\ Answers(Head(q), Tail(q), s, a)
  <1>1. /\ Len(q) \in Nat /\ Len(q) >= 1 /\ Len(Tail(q)) = Len(q) - 1
        /\ Head(q) = q[1]
        /\ \A k \in 1..Len(Tail(q)) : Tail(q)[k] = q[k + 1]
    BY HeadTailProperties, EmptySeq
  <1>2. \A i \in 0..Len(Tail(q)) :
          i + 1 \in 0..Len(q) /\ Seen(Head(q), Tail(q), i) = Seen(c, q, i + 1)
    BY <1>1 DEF Seen
  <1>3. ASSUME NEW i \in 0..Len(Tail(q)), NEW j \in 0..Len(Tail(q)), i <= j
        PROVE  Precedes(Seen(Head(q), Tail(q), i), Seen(Head(q), Tail(q), j))
    <2>1. i + 1 <= j + 1 /\ i + 1 \in 0..Len(q) /\ j + 1 \in 0..Len(q)
      BY <1>1, <1>2, <1>3
    <2> QED
      BY <2>1, <1>2 DEF InOrder
  <1>4. ASSUME NEW i \in 0..Len(Tail(q)), Seen(Head(q), Tail(q), i).live
        PROVE  \E p \in a..Len(s) : StandsAt(s, Seen(Head(q), Tail(q), i), p)
    BY <1>2, <1>4 DEF Answers
  <1> QED
    BY <1>3, <1>4 DEF InOrder, Answers

-----------------------------------------------------------------------------
(* Steps of the history.                                                   *)

\* The types the history lemmas need.
LEMMA HistoryFacts ==
  ASSUME PromiseInv
  PROVE  /\ cache["nf"] \in Identified /\ store["nf"] \in Identified /\ nf \in Identified
         /\ watch["nf"] \in Seq(Identified)
         /\ asked \in Seq(Asks) /\ acting \in Nat /\ Len(asked) \in Nat
         /\ Seen(cache["nf"], watch["nf"], Len(watch["nf"])) = store["nf"]
  <1>1. /\ cache["nf"] \in Identified /\ store["nf"] \in Identified
        /\ watch["nf"] \in Seq(Identified)
        /\ watch["nf"] = <<>> => cache["nf"] = store["nf"]
        /\ watch["nf"] # <<>> => watch["nf"][Len(watch["nf"])] = store["nf"]
    BY NamesAre DEF PromiseInv, IInv, ServerInv, ServerTypes, Trails
  <1>2. watch["nf"] = <<>> <=> Len(watch["nf"]) = 0
    BY <1>1, EmptySeq
  <1>3. asked \in Seq(Asks) /\ acting \in Nat /\ Len(asked) \in Nat
    BY LenProperties DEF PromiseInv, HistoryInv, HistoryTypes
  <1> QED
    BY <1>1, <1>2, <1>3 DEF Seen, PromiseInv, IInv, WorkerTypes

\* The operator acts for what it acted for until it reads the NFDeployment anew.
LEMMA ActingKept ==
  ASSUME PromiseInv, Remember, nf' = nf \/ nf' = NoNF
  PROVE  acting' = acting
  <1>1. nf.live => Position(nf) = acting
    BY PositionIs DEF PromiseInv, HistoryInv, CopiesStand
  <1>2. nf'.live => nf' = nf
    BY DEF NoNF
  <1>3. acting' = IF nf'.live THEN Position(nf') ELSE acting
    BY DEF Remember
  <1> QED
    BY <1>1, <1>2, <1>3

\* A version that asks for something new: it is asked last, and everything that
\* stood somewhere stands there still.
LEMMA NewSpecKeepsHistory ==
  ASSUME PromiseInv, NEW v \in Identified, v.live,
         LET w == store["nf"] IN w.uid < v.uid \/ (w.live /\ w.uid = v.uid /\ w.gen < v.gen)
  PROVE  LET q == Append(watch["nf"], v)
             s == Append(asked, Promise!Ask(v))
         IN  /\ s \in Seq(Asks) /\ Len(s) = Len(asked) + 1
             /\ InOrder(cache["nf"], q) /\ Answers(cache["nf"], q, s, acting)
             /\ StandsAt(s, v, Len(s))
             /\ nf.live => StandsAt(s, nf, acting) /\ Precedes(nf, v)
  <1> DEFINE c == cache["nf"]
             n == Len(watch["nf"])
             w == store["nf"]
             q == Append(watch["nf"], v)
             e == Promise!Ask(v)
             s == Append(asked, e)
  <1>1. /\ c \in Identified /\ w \in Identified /\ nf \in Identified
        /\ watch["nf"] \in Seq(Identified) /\ asked \in Seq(Asks)
        /\ acting \in Nat /\ Len(asked) \in Nat
        /\ Seen(c, watch["nf"], n) = w
    BY HistoryFacts
  <1>2. e \in Asks /\ e.uid = v.uid /\ e.gen = v.gen
        /\ e.addr = v.addr /\ e.provider = v.provider
    BY DEF Promise!Ask, Asks, Identified, NFRecord
  <1>3. /\ s \in Seq(Asks) /\ Len(s) = Len(asked) + 1 /\ s[Len(asked) + 1] = e
    BY <1>1, <1>2, AppendProperties
  <1>4. /\ InOrder(c, watch["nf"]) /\ Answers(c, watch["nf"], asked, acting)
        /\ nf.live => StandsAt(asked, nf, acting) /\ Precedes(nf, w)
    BY DEF PromiseInv, HistoryInv, CopiesStand
  <1>5. w.uid <= v.uid /\ (w.uid < v.uid \/ (w.live /\ w.gen <= v.gen))
    BY <1>1 DEF Identified, NFRecord
  <1>6. /\ InOrder(c, q)
        /\ \A u \in Identified : Precedes(u, w) => Precedes(u, v)
    BY <1>1, <1>4, <1>5, WriteKeepsOrder, SMTT(30)
  <1>7. ASSUME NEW u \in Identified, u.live, Precedes(u, w)
        PROVE  ~UpTo(e, u)
    <2>1. u.uid <= w.uid /\ (w.live /\ u.uid = w.uid => u.gen <= w.gen)
      BY <1>7 DEF Precedes
    <2>2. /\ u.uid \in Nat /\ w.uid \in Nat /\ v.uid \in Nat
          /\ u.gen \in Nat /\ w.gen \in Nat /\ v.gen \in Nat
      BY <1>1, <1>7 DEF Identified, NFRecord
    <2>3. \/ w.uid < v.uid
          \/ w.live /\ w.uid = v.uid /\ w.gen < v.gen
      OBVIOUS
    <2>4. u.uid < v.uid \/ (u.uid = v.uid /\ u.gen < v.gen)
      BY <2>1, <2>2, <2>3
    <2> QED
      BY <1>2, <2>2, <2>4 DEF UpTo
  <1>8. StandsAt(s, v, Len(s))
    <2>1. UpTo(e, v)
      BY <1>2 DEF UpTo, Identified, NFRecord
    <2> QED
      BY <1>1, <1>2, <1>3, <2>1 DEF StandsAt
  <1>9. nf.live => StandsAt(s, nf, acting) /\ Precedes(nf, v)
    BY <1>1, <1>2, <1>4, <1>6, <1>7, StandsStill
  <1>10. Answers(c, q, s, acting)
    <2>1. /\ Len(q) = n + 1 /\ n \in Nat
          /\ \A i \in 0..n : /\ Seen(c, q, i) = Seen(c, watch["nf"], i)
                             /\ Seen(c, watch["nf"], i) \in Identified
          /\ Seen(c, q, n + 1) = v
      BY <1>1, SeenAfterWrite
    <2>2. ASSUME NEW i \in 0..n, Seen(c, q, i).live
          PROVE  \E p \in acting..Len(s) : StandsAt(s, Seen(c, q, i), p)
      <3>1. PICK p \in acting..Len(asked) : StandsAt(asked, Seen(c, watch["nf"], i), p)
        BY <2>1, <2>2, <1>4 DEF Answers
      <3>2. Precedes(Seen(c, watch["nf"], i), w)
        BY <2>1, <1>1, <1>4 DEF InOrder
      <3>3. ~UpTo(e, Seen(c, watch["nf"], i))
        BY <3>2, <2>1, <2>2, <1>7
      <3>4. StandsAt(s, Seen(c, watch["nf"], i), p)
        BY <3>1, <3>3, <1>1, <1>2, StandsStill
      <3> QED
        BY <3>4, <2>1, <1>1, <1>3
    <2>3. Len(s) \in acting..Len(s)
      BY <1>1, <1>3 DEF PromiseInv, HistoryInv, HistoryTypes
    <2> QED
      BY <2>1, <2>2, <2>3, <1>8 DEF Answers
  <1> QED
    BY <1>3, <1>6, <1>8, <1>9, <1>10

\* A version that asks for nothing new, or the end of the NFDeployment: it stands
\* where the version before it stood.
LEMMA OldSpecKeepsHistory ==
  ASSUME PromiseInv, NEW v \in Identified,
         LET w == store["nf"]
         IN  /\ w.uid <= v.uid
             /\ v.live => /\ w.live /\ w.gen <= v.gen
                         /\ v.uid = w.uid /\ v.addr = w.addr /\ v.provider = w.provider
  PROVE  LET q == Append(watch["nf"], v)
         IN  /\ InOrder(cache["nf"], q) /\ Answers(cache["nf"], q, asked, acting)
             /\ v.live => StandsAt(asked, v, Len(asked))
             /\ nf.live => Precedes(nf, v)
  <1> DEFINE c == cache["nf"]
             n == Len(watch["nf"])
             w == store["nf"]
             q == Append(watch["nf"], v)
  <1>1. /\ c \in Identified /\ w \in Identified /\ nf \in Identified
        /\ watch["nf"] \in Seq(Identified) /\ asked \in Seq(Asks)
        /\ acting \in 0..Len(asked) /\ Len(asked) \in Nat
        /\ Seen(c, watch["nf"], n) = w
    BY HistoryFacts DEF PromiseInv, HistoryInv, HistoryTypes
  <1>2. /\ InOrder(c, watch["nf"]) /\ Answers(c, watch["nf"], asked, acting)
        /\ w.live => StandsAt(asked, w, Len(asked))
        /\ nf.live => Precedes(nf, w)
    BY DEF PromiseInv, HistoryInv, CopiesStand
  <1>3. /\ InOrder(c, q)
        /\ \A u \in Identified : Precedes(u, w) => Precedes(u, v)
    BY <1>1, <1>2, WriteKeepsOrder, SMTT(30)
  <1>4. ASSUME v.live
        PROVE  StandsAt(asked, v, Len(asked))
    <2>1. StandsAt(asked, w, Len(asked)) /\ asked[Len(asked)] \in Asks
      BY <1>1, <1>2, <1>4, ElementOfSeq DEF StandsAt
    <2>2. UpTo(asked[Len(asked)], v)
      <3> DEFINE e == asked[Len(asked)]
      <3>1. e.uid = w.uid /\ e.gen <= w.gen
        BY <2>1, <1>1 DEF StandsAt, UpTo, Identified, NFRecord
      <3>2. e.gen \in Nat /\ w.gen \in Nat /\ v.gen \in Nat
        BY <2>1, <1>1 DEF Asks, Identified, NFRecord
      <3>3. v.uid = w.uid /\ w.gen <= v.gen
        BY <1>4
      <3> HIDE DEF e
      <3> QED
        BY <3>1, <3>2, <3>3 DEF UpTo, e
    <2> QED
      BY <2>1, <2>2, <1>1, <1>4 DEF StandsAt
  <1>5. Answers(c, q, asked, acting)
    <2>1. /\ Len(q) = n + 1 /\ n \in Nat
          /\ \A i \in 0..n : Seen(c, q, i) = Seen(c, watch["nf"], i)
          /\ Seen(c, q, n + 1) = v
      BY <1>1, SeenAfterWrite
    <2>2. Len(asked) \in acting..Len(asked)
      BY <1>1
    <2> QED
      BY <2>1, <2>2, <1>2, <1>4 DEF Answers
  <1> QED
    BY <1>1, <1>2, <1>3, <1>4, <1>5

\* A write to the NFDeployment keeps the invariant of the history.
LEMMA NFWriteKeepsHistory ==
  ASSUME PromiseInv, Remember, NEW v \in Identified, Commit("nf", v), UNCHANGED cache,
         kind' = kind, nf' = nf \/ nf' = NoNF,
         v.deleting => v.live,
         LET w == store["nf"]
         IN  /\ w.uid <= v.uid
             /\ v.live => w.uid < v.uid \/ (w.live /\ w.gen <= v.gen)
             /\ NewSpec(w, v) => w.uid < v.uid \/ w.gen < v.gen
  PROVE  /\ HistoryInv' /\ acting' = acting
         /\ asked' = IF NewSpec(store["nf"], v) THEN Append(asked, Promise!Ask(v)) ELSE asked
  <1>1. /\ store'["nf"] = v /\ watch'["nf"] = Append(watch["nf"], v)
        /\ cache' = cache
    <2>1. "nf" \in Names /\ DOMAIN store = Names /\ DOMAIN watch = Names
      BY NamesAre DEF PromiseInv, IInv, ServerInv, ServerTypes
    <2> QED
      BY <2>1 DEF Commit
  <1>2. acting' = acting
    BY ActingKept
  <1>3. asked' = IF NewSpec(store["nf"], v) THEN Append(asked, Promise!Ask(v)) ELSE asked
    BY <1>1 DEF Remember
  <1>4. /\ store["nf"] \in Identified /\ nf \in Identified
        /\ Len(asked) \in Nat /\ acting \in 0..Len(asked) /\ asked \in Seq(Asks)
        /\ nf.live => StandsAt(asked, nf, acting)
    BY HistoryFacts DEF PromiseInv, HistoryInv, HistoryTypes, CopiesStand
  <1>5. Routed' /\ store' = [x \in Names |-> store'[x]]
    BY DEF PromiseInv, HistoryInv, Routed, Commit
  <1>6. nf'.live => nf' = nf
    BY DEF NoNF
  <1>7. CASE NewSpec(store["nf"], v)
    <2>1. /\ v.live
          /\ \/ store["nf"].uid < v.uid
             \/ store["nf"].live /\ store["nf"].uid = v.uid /\ store["nf"].gen < v.gen
      BY <1>4, <1>7 DEF NewSpec, Identified, NFRecord
    <2>2. /\ asked' \in Seq(Asks) /\ Len(asked') = Len(asked) + 1
          /\ InOrder(cache["nf"], watch'["nf"])
          /\ Answers(cache["nf"], watch'["nf"], asked', acting)
          /\ StandsAt(asked', v, Len(asked'))
          /\ nf.live => StandsAt(asked', nf, acting) /\ Precedes(nf, v)
      BY <2>1, <1>1, <1>3, <1>7, NewSpecKeepsHistory
    <2>3. HistoryTypes' /\ CopiesStand'
      BY <2>2, <1>1, <1>2, <1>4, <1>6 DEF HistoryTypes, CopiesStand
    <2> QED
      BY <2>2, <2>3, <1>1, <1>2, <1>3, <1>5 DEF HistoryInv
  <1>8. CASE ~NewSpec(store["nf"], v)
    <2>1. v.live => /\ v.uid = store["nf"].uid
                    /\ v.addr = store["nf"].addr /\ v.provider = store["nf"].provider
      BY <1>8 DEF NewSpec
    <2>2. v.live => store["nf"].live /\ store["nf"].gen <= v.gen
      BY <2>1, <1>4 DEF Identified, NFRecord
    <2>3. /\ InOrder(cache["nf"], watch'["nf"])
          /\ Answers(cache["nf"], watch'["nf"], asked, acting)
          /\ v.live => StandsAt(asked, v, Len(asked))
          /\ nf.live => Precedes(nf, v)
      BY <2>1, <2>2, <1>1, OldSpecKeepsHistory
    <2>4. HistoryTypes' /\ CopiesStand'
      BY <2>3, <1>1, <1>2, <1>3, <1>4, <1>6, <1>8 DEF HistoryTypes, CopiesStand
    <2> QED
      BY <2>3, <2>4, <1>1, <1>2, <1>3, <1>5, <1>8 DEF HistoryInv
  <1> QED
    BY <1>2, <1>3, <1>7, <1>8

\* So does a step that leaves the NFDeployment and all copies of it alone.
LEMMA OtherStepKeepsHistory ==
  ASSUME PromiseInv, Remember, nf' = nf \/ nf' = NoNF, Routed',
         store'["nf"] = store["nf"], cache'["nf"] = cache["nf"], watch'["nf"] = watch["nf"],
         store' = store \/ \E x \in Objects : \E v : Commit(x, v)
  PROVE  HistoryInv' /\ UNCHANGED <<asked, acting>>
  <1>1. acting' = acting
    BY ActingKept
  <1>2. asked' = asked
    BY DEF Remember, NewSpec
  <1>3. nf'.live => nf' = nf
    BY DEF NoNF
  <1>4. store' = [x \in Names |-> store'[x]]
    BY DEF PromiseInv, HistoryInv, Commit
  <1> QED
    BY <1>1, <1>2, <1>3, <1>4
    DEF PromiseInv, HistoryInv, HistoryTypes, CopiesStand

-----------------------------------------------------------------------------
(* Users and others, as LevelTriggered has them.                           *)

\* The terms LevelTriggered takes from Cluster are those NFOperator takes.
LEMMA SameTerms ==
  /\ Promise!Names = Names /\ Promise!Objects = Objects
  /\ Promise!ConfigMaps = ConfigMaps /\ Promise!UPFObjects = UPFObjects
  /\ Promise!NoNF = NoNF /\ Promise!NoObject = NoObject
  /\ Promise!Labelled = Labelled /\ Promise!Nothing = Nothing
  /\ \A x, v, d : Promise!Rewritten(x, v, d) = Rewritten(x, v, d)
  /\ \A o : Promise!ByNF(o) = ByNF(o)
  BY DEF Promise!Names, Names, Promise!Objects, Objects, Promise!ConfigMaps, ConfigMaps,
         Promise!NoNF, NoNF, Promise!NoObject, NoObject, Promise!Labelled, Labelled,
         Promise!Nothing, Nothing, Promise!Rewritten, Rewritten, Promise!ByNF, ByNF,
         Promise!NoHealth, NoHealth, Promise!Deployments, Deployments,
         Promise!NetworkFunctions, NetworkFunctions, Promise!AMFObjects, AMFObjects,
         Promise!SMFObjects, SMFObjects, Promise!UPFObjects, UPFObjects

PromiseStep == HistoryInv' /\ [Promise!Next]_Promise!levelVars

\* Users who ask for something new.
LEMMA RequestImplements ==
  ASSUME PromiseInv, Remember, CreateNF \/ EditNF
  PROVE  PromiseStep
  <1> DEFINE w == store["nf"]
             created(a, p) == Created(w.uid + 1, a, p)
             edited(a, p) == [w EXCEPT !.gen = @ + 1, !.addr = a, !.provider = p]
  <1>1. /\ w \in Identified /\ Providers \subseteq AllProviders
        /\ w.uid \in Nat /\ w.gen \in Nat
    BY HistoryFacts, ParametersAssumption DEF Identified, NFRecord
  <1>2. ASSUME NEW v \in Identified, UserWrites(v), v.live, NewSpec(w, v),
               w.uid < v.uid \/ (w.live /\ w.uid = v.uid /\ w.gen < v.gen)
        PROVE  /\ HistoryInv' /\ acting' = acting /\ asked' = Append(asked, Promise!Ask(v))
               /\ store' = [store EXCEPT !["nf"] = v]
    <2>1. Commit("nf", v) /\ cache' = cache /\ kind' = kind /\ nf' = nf
      BY <1>2 DEF UserWrites, Writes
    <2>2. /\ w.uid <= v.uid
          /\ v.live => w.uid < v.uid \/ (w.live /\ w.gen <= v.gen)
          /\ w.uid < v.uid \/ w.gen < v.gen
      BY <1>1, <1>2 DEF Identified, NFRecord
    <2>3. v.deleting => v.live
      BY <1>2
    <2> QED
      BY <2>1, <2>2, <2>3, <1>2, NFWriteKeepsHistory DEF Commit
  <1>3. CASE CreateNF
    <2>1. PICK a \in Addrs, p \in Providers : UserWrites(created(a, p))
      BY <1>3 DEF CreateNF, Created
    <2>2. ~w.live
      BY <1>3 DEF CreateNF
    <2>3. created(a, p) \in Identified /\ created(a, p).live /\ created(a, p).uid = w.uid + 1
      <3>1. p \in AllProviders
        BY <1>1
      <3> QED
        BY <1>1, <3>1, CreatedType
    <2> HIDE DEF created
    <2>4. w.uid < created(a, p).uid /\ NewSpec(w, created(a, p))
      BY <1>1, <2>3 DEF NewSpec
    <2>5. /\ HistoryInv' /\ acting' = acting
          /\ asked' = Append(asked, Promise!Ask(created(a, p)))
          /\ store' = [store EXCEPT !["nf"] = created(a, p)]
      BY <2>1, <2>3, <2>4, <1>2
    <2>6. Promise!NoNF = NoNF
      BY SameTerms
    <2>7. Promise!Request
      BY <2>2, <2>5, <2>6 DEF Promise!Request, created, Created
    <2> QED
      BY <2>5, <2>7 DEF PromiseStep, Promise!Next
  <1>4. CASE EditNF
    <2>1. PICK a \in Addrs, p \in Providers :
            <<a, p>> # <<w.addr, w.provider>> /\ UserWrites(edited(a, p))
      BY <1>4 DEF EditNF
    <2>2. w.live
      BY <1>4 DEF EditNF
    <2>3. /\ edited(a, p) \in Identified /\ edited(a, p).live /\ edited(a, p).uid = w.uid
          /\ edited(a, p).gen = w.gen + 1
          /\ edited(a, p).addr = a /\ edited(a, p).provider = p
      BY <1>1, <2>2, EditedType DEF Identified, NFRecord
    <2> HIDE DEF edited
    <2>4. w.gen < edited(a, p).gen /\ NewSpec(w, edited(a, p))
      BY <1>1, <2>1, <2>3 DEF NewSpec
    <2>5. /\ HistoryInv' /\ acting' = acting
          /\ asked' = Append(asked, Promise!Ask(edited(a, p)))
          /\ store' = [store EXCEPT !["nf"] = edited(a, p)]
      BY <2>1, <2>2, <2>3, <2>4, <1>2
    <2>6. Promise!Request
      BY <2>2, <2>5 DEF Promise!Request, edited
    <2> QED
      BY <2>5, <2>6 DEF PromiseStep, Promise!Next
  <1> QED
    BY <1>3, <1>4

\* The other writes to the NFDeployment from outside.
LEMMA WithdrawImplements ==
  ASSUME PromiseInv, Remember, TouchNF \/ DeleteNF \/ DeleteInForeground \/ FinishDeletion
  PROVE  PromiseStep
  <1> DEFINE w == store["nf"]
             gone == [NoNF EXCEPT !.uid = w.uid]
             marked == [w EXCEPT !.deleting = TRUE, !.gen = @ + 1]
  <1>1. /\ w \in Identified /\ w.uid \in Nat /\ w.gen \in Nat /\ w.live \in BOOLEAN
        /\ "nf" \in Names /\ DOMAIN store = Names
    BY HistoryFacts, NamesAre DEF Identified, NFRecord, PromiseInv, IInv, ServerInv,
                                  ServerTypes
  <1>2. gone \in Identified /\ ~gone.live /\ ~gone.deleting /\ gone.uid = w.uid
    BY <1>1, BlankTypes DEF Identified, NFRecord, NoNF
  <1>3. /\ marked \in Identified /\ marked.live = w.live /\ marked.uid = w.uid
        /\ marked.gen = w.gen + 1 /\ marked.addr = w.addr /\ marked.provider = w.provider
    BY <1>1, MarkedType DEF Identified, NFRecord
  <1>4. w.deleting => w.live
    BY DEF PromiseInv, HistoryInv
  <1> HIDE DEF gone, marked
  <1>5. CASE TouchNF
    <2>1. Commit("nf", w) /\ UNCHANGED <<cache, kind, nf>> /\ w.live
      BY <1>5 DEF TouchNF, UserWrites, Writes
    <2>2. ~NewSpec(w, w)
      BY DEF NewSpec
    <2>3. HistoryInv' /\ UNCHANGED <<asked, acting>>
      BY <1>1, <2>1, <2>2, NFWriteKeepsHistory
    <2>4. store' = store
      <3>1. store' = [x \in Names |-> IF x = "nf" THEN w ELSE store[x]]
        BY <1>1, <2>1 DEF Commit
      <3>2. store = [x \in Names |-> store[x]]
        BY DEF PromiseInv, HistoryInv
      <3> QED
        BY <3>1, <3>2
    <2> QED
      BY <2>3, <2>4 DEF PromiseStep, Promise!levelVars
  <1>6. CASE DeleteNF \/ FinishDeletion
    <2>1. Commit("nf", gone) /\ UNCHANGED <<cache, kind, nf>> /\ w.live
      BY <1>4, <1>6 DEF DeleteNF, UserWrites, FinishDeletion, Writes, gone
    <2>2. ~NewSpec(w, gone)
      BY <1>2 DEF NewSpec
    <2>3. HistoryInv' /\ UNCHANGED <<asked, acting>>
      BY <1>1, <1>2, <2>1, <2>2, NFWriteKeepsHistory
    <2>4. store' = [store EXCEPT !["nf"] = gone] /\ Promise!NoNF = NoNF
      BY <2>1, SameTerms DEF Commit
    <2>5. Promise!Withdraw
      BY <2>1, <2>3, <2>4 DEF Promise!Withdraw, gone
    <2> QED
      BY <2>3, <2>5 DEF PromiseStep, Promise!Next
  <1>7. CASE DeleteInForeground
    <2>1. Commit("nf", marked) /\ UNCHANGED <<cache, kind, nf>> /\ w.live
      BY <1>7 DEF DeleteInForeground, UserWrites, Writes, marked
    <2>2. ~NewSpec(w, marked)
      BY <1>3 DEF NewSpec
    <2>3. HistoryInv' /\ UNCHANGED <<asked, acting>>
      <3>1. w.uid <= marked.uid /\ w.gen <= marked.gen /\ marked.live
        BY <1>1, <1>3, <2>1
      <3>2. cache' = cache /\ kind' = kind /\ nf' = nf
        BY <2>1
      <3> QED
        BY <1>3, <2>1, <2>2, <3>1, <3>2, NFWriteKeepsHistory
    <2>4. store' = [store EXCEPT !["nf"] = marked] /\ Promise!NoNF = NoNF
      BY <2>1, SameTerms DEF Commit
    <2>5. Promise!Withdraw
      BY <2>1, <2>3, <2>4 DEF Promise!Withdraw, marked
    <2> QED
      BY <2>3, <2>5 DEF PromiseStep, Promise!Next
  <1> QED
    BY <1>5, <1>6, <1>7

-----------------------------------------------------------------------------
(* Steps that the API server does not see, and what others do.             *)

\* The worker, or the queue, takes a step without a write.
LEMMA QuietImplements ==
  ASSUME PromiseInv, Remember, nf' = nf \/ nf' = NoNF, Routed',
         UNCHANGED serverVars, cache' = cache
  PROVE  PromiseStep
  <1>1. store' = store /\ watch' = watch
    BY DEF serverVars
  <1>2. HistoryInv' /\ UNCHANGED <<asked, acting>>
    BY <1>1, OtherStepKeepsHistory
  <1> QED
    BY <1>1, <1>2 DEF PromiseStep, Promise!levelVars

\* An owned object is written.
LEMMA OwnedWriteKeepsHistory ==
  ASSUME PromiseInv, Remember, nf' = nf \/ nf' = NoNF, kind' = kind, cache' = cache,
         NEW x \in Objects, NEW v, Commit(x, v)
  PROVE  /\ HistoryInv' /\ UNCHANGED <<asked, acting>>
         /\ DOMAIN store' = Names /\ store'[x] = v
         /\ \A y \in Names \ {x} : store'[y] = store[y]
         /\ store' = [store EXCEPT ![x] = v]
  <1>1. /\ DOMAIN store = Names /\ DOMAIN watch = Names
        /\ x \in Names /\ x # "nf" /\ "nf" \in Names
    BY NamesAre DEF PromiseInv, IInv, ServerInv, ServerTypes
  <1>2. /\ store'["nf"] = store["nf"] /\ watch'["nf"] = watch["nf"]
        /\ DOMAIN store' = Names /\ store'[x] = v
        /\ \A y \in Names \ {x} : store'[y] = store[y]
        /\ store' = [store EXCEPT ![x] = v]
    BY <1>1 DEF Commit
  <1>3. Routed'
    BY DEF PromiseInv, HistoryInv, Routed
  <1> QED
    BY <1>2, <1>3, OtherStepKeepsHistory

\* Others, and the garbage collector, disturb the objects.
LEMMA OthersImplement ==
  ASSUME PromiseInv, Remember, NEW x \in Objects,
         (x \in Contested /\ Others(x)) \/ CollectGarbage(x)
  PROVE  PromiseStep
  <1>1. /\ store[x] \in OwnedRecord
        /\ Tombstone(x) \in OwnedRecord /\ Tombstone(x).live = FALSE
    BY TombstoneType DEF PromiseInv
  <1>2. PICK v :
          /\ Commit(x, v) /\ nf' = nf /\ kind' = kind /\ cache' = cache
          /\ \/ ~v.live
             \/ ~store[x].live /\ v.live /\ ~ByNF(v.owner) /\ v.data = "drift"
             \/ /\ store[x].live /\ v.live
                /\ v.owner = store[x].owner /\ v.labelled = store[x].labelled
                /\ v.data \in {store[x].data, "drift", "hidden"}
    <2>1. CASE CollectGarbage(x) \/ Remove(x)
      BY <2>1, <1>1 DEF CollectGarbage, Remove, Moves, Writes
    <2>2. CASE ReportHealth(x)
      <3>1. PICK h \in Healths : Moves(x, [store[x] EXCEPT !.health = h])
        BY <2>2 DEF ReportHealth
      <3>2. store[x].live
        BY <2>2 DEF ReportHealth
      <3> DEFINE v == [store[x] EXCEPT !.health = h]
      <3>3. /\ v.live /\ v.owner = store[x].owner /\ v.labelled = store[x].labelled
            /\ v.data = store[x].data
        BY <3>2, <1>1 DEF OwnedRecord
      <3> QED
        BY <3>1, <3>2, <3>3 DEF Moves, Writes
    <2>3. CASE Tamper(x)
      <3>1. PICK d \in {"drift", "hidden"} : Moves(x, Rewritten(x, store[x], d))
        BY <2>3 DEF Tamper
      <3>2. store[x].live /\ d \in Data
        BY <2>3 DEF Tamper, Data
      <3>3. LET v == Rewritten(x, store[x], d)
            IN  v.live /\ v.owner = store[x].owner /\ v.labelled = store[x].labelled
                /\ v.data = d
        BY <3>2, <1>1, RewrittenType
      <3> QED
        BY <3>1, <3>2, <3>3 DEF Moves, Writes
    <2>4. CASE Occupy(x)
      <3> DEFINE w(o) == [NoObject EXCEPT !.live = TRUE, !.owner = o, !.data = "drift",
                                          !.gen = 1]
      <3>1. PICK o \in {0, Foreign} : Moves(x, w(o))
        BY <2>4 DEF Occupy
      <3>2. w(o).live /\ w(o).owner = o /\ w(o).data = "drift"
        BY DEF NoObject
      <3>3. ~ByNF(w(o).owner) /\ ~store[x].live
        BY <3>2, <2>4 DEF ByNF, Occupy
      <3> QED
        BY <3>1, <3>2, <3>3 DEF Moves, Writes
    <2> QED
      BY <2>1, <2>2, <2>3, <2>4 DEF Others
  <1>3. /\ HistoryInv' /\ UNCHANGED <<asked, acting>>
        /\ DOMAIN store' = Names /\ store'[x] = v
        /\ \A y \in Names \ {x} : store'[y] = store[y]
    BY <1>2, OwnedWriteKeepsHistory
  <1>4. \/ x \in Contested
        \/ ByNF(store[x].owner) /\ (\/ store[x].owner # store["nf"].uid
                                   \/ ~store["nf"].live \/ store["nf"].deleting)
    BY DEF CollectGarbage, Doomed
  <1>5. Promise!Disturb(x)
    BY <1>2, <1>3, <1>4, SameTerms DEF Promise!Disturb
  <1>6. x \in Promise!Objects
    BY SameTerms
  <1> QED
    BY <1>3, <1>5, <1>6 DEF PromiseStep, Promise!Next

\* An informer sees the next version.
LEMMA DeliverImplements ==
  ASSUME PromiseInv, Remember, NEW x \in Names, Deliver(x)
  PROVE  PromiseStep
  <1>1. /\ store' = store /\ nf' = nf /\ kind' = kind /\ watch[x] # <<>>
        /\ cache' = [cache EXCEPT ![x] = Head(watch[x])]
        /\ watch' = [watch EXCEPT ![x] = Tail(watch[x])]
        /\ DOMAIN cache = Names /\ DOMAIN watch = Names /\ "nf" \in Names
    BY NamesAre DEF Deliver, PromiseInv, IInv, ServerInv, ServerTypes
  <1>2. Routed'
    BY <1>1 DEF PromiseInv, HistoryInv, Routed
  <1>3. CASE x # "nf"
    <2>1. cache'["nf"] = cache["nf"] /\ watch'["nf"] = watch["nf"]
      BY <1>1, <1>3
    <2>2. HistoryInv' /\ UNCHANGED <<asked, acting>>
      BY <1>1, <1>2, <2>1, OtherStepKeepsHistory
    <2> QED
      BY <1>1, <2>2 DEF PromiseStep, Promise!levelVars
  <1>4. CASE x = "nf"
    <2>1. cache'["nf"] = Head(watch["nf"]) /\ watch'["nf"] = Tail(watch["nf"])
      BY <1>1, <1>4
    <2>2. acting' = acting /\ asked' = asked
      BY <1>1, ActingKept DEF Remember, NewSpec
    <2>3. /\ InOrder(cache'["nf"], watch'["nf"])
          /\ Answers(cache'["nf"], watch'["nf"], asked, acting)
      BY <2>1, <1>1, <1>4, HistoryFacts, DeliveryKeepsHistory DEF PromiseInv, HistoryInv
    <2>4. HistoryInv'
      BY <2>2, <2>3, <1>1, <1>2
      DEF PromiseInv, HistoryInv, HistoryTypes, CopiesStand
    <2> QED
      BY <1>1, <2>2, <2>4 DEF PromiseStep, Promise!levelVars
  <1> QED
    BY <1>3, <1>4

\* A new process starts from the store as it is, or from the copies of the old.
LEMMA RestartImplements ==
  ASSUME PromiseInv, Remember, Restart
  PROVE  PromiseStep
  <1>1. store' = store /\ nf' = NoNF /\ kind' = kind
    BY DEF Restart
  <1>2. acting' = acting /\ asked' = asked
    BY <1>1, ActingKept DEF Remember, NewSpec
  <1>3. \/ cache'["nf"] = cache["nf"] /\ watch'["nf"] = watch["nf"]
        \/ cache'["nf"] = store["nf"] /\ watch'["nf"] = <<>>
    BY NamesAre DEF Restart
  <1>4. /\ InOrder(cache'["nf"], watch'["nf"])
        /\ Answers(cache'["nf"], watch'["nf"], asked, acting)
    <2>1. CASE cache'["nf"] = cache["nf"] /\ watch'["nf"] = watch["nf"]
      BY <2>1 DEF PromiseInv, HistoryInv
    <2>2. CASE cache'["nf"] = store["nf"] /\ watch'["nf"] = <<>>
      <3>1. \A i \in 0..Len(<<>>) : i = 0 /\ Seen(store["nf"], <<>>, i) = store["nf"]
        BY EmptySeq DEF Seen
      <3>2. Precedes(store["nf"], store["nf"])
        <4>1. store["nf"].uid \in Nat /\ store["nf"].gen \in Nat
          BY HistoryFacts DEF Identified, NFRecord
        <4> QED
          BY <4>1 DEF Precedes
      <3>3. store["nf"].live => /\ StandsAt(asked, store["nf"], Len(asked))
                                /\ Len(asked) \in acting..Len(asked)
        BY HistoryFacts DEF PromiseInv, HistoryInv, HistoryTypes, CopiesStand
      <3> QED
        BY <2>2, <3>1, <3>2, <3>3 DEF InOrder, Answers
    <2> QED
      BY <1>3, <2>1, <2>2
  <1>5. HistoryInv'
    BY <1>1, <1>2, <1>4
    DEF PromiseInv, HistoryInv, HistoryTypes, CopiesStand, Routed, NoNF
  <1> QED
    BY <1>1, <1>2, <1>5 DEF PromiseStep, Promise!levelVars

-----------------------------------------------------------------------------
(* The worker.                                                             *)

\* The routing terms LevelTriggered takes are those of NFOperator, too.
LEMMA SameRouting ==
  /\ Promise!NetworkFunctions = NetworkFunctions
  /\ \A p : Promise!IsProviderSDCoreUPF(p) = IsProviderSDCoreUPF(p)
  /\ \A k, p : Promise!Accepts(k, p) = Accepts(k, p)
  /\ \A n, p : Promise!Route(n, p) = Route(n, p)
  /\ \A k \in NetworkFunctions : Promise!KeptFor(k) = KeptFor(k)
  BY DEF Promise!NetworkFunctions, NetworkFunctions, Promise!IsProviderSDCoreUPF,
         IsProviderSDCoreUPF, Promise!IsProviderSDCore, IsProviderSDCore,
         Promise!DotSDCore, DotSDCore, Promise!Accepts, Accepts, Promise!Route, Route,
         Promise!KeptFor, KeptFor, Promise!AMFObjects, AMFObjects,
         Promise!SMFObjects, SMFObjects, Promise!UPFObjects, UPFObjects

\* The main Reconcile chooses a reconciler this name can lead to.
LEMMA BeginImplements ==
  ASSUME PromiseInv, Remember, Begin
  PROVE  PromiseStep
  <1>1. \A p : LET k == Route(Name, p)
               IN  k # "none" => k = Route(Name, IF k = "upf" THEN "upf.sdcore.io" ELSE "sdcore")
    BY DEF Route, IsProviderSDCoreUPF, IsProviderSDCore, DotSDCore
  <1>2. Routed'
    BY <1>1 DEF Begin, PromiseInv, HistoryInv, Routed
  <1> QED
    BY <1>2, QuietImplements DEF Begin

\* A network function's Reconcile reads the NFDeployment: a version no earlier
\* than the one the operator acts for.
LEMMA FetchImplements ==
  ASSUME PromiseInv, Remember, NEW k \in NetworkFunctions, NEW first, Fetch(k, first)
  PROVE  PromiseStep
  <1> DEFINE c == cache["nf"]
             q == watch["nf"]
  <1>1. /\ store' = store /\ watch' = watch /\ cache' = cache /\ kind' = kind
        /\ UNCHANGED serverVars
    BY DEF Fetch, serverVars
  <1>2. Routed'
    BY <1>1 DEF PromiseInv, HistoryInv, Routed
  <1>3. CASE nf' = NoNF
    BY <1>1, <1>2, <1>3, QuietImplements
  <1>4. CASE nf' = c /\ c.live
    <2>1. /\ c \in Identified /\ q \in Seq(Identified) /\ asked \in Seq(Asks)
          /\ acting \in 0..Len(asked) /\ Len(asked) \in Nat
          /\ Seen(c, q, Len(q)) = store["nf"] /\ Len(q) \in Nat
      BY HistoryFacts, LenProperties DEF PromiseInv, HistoryInv, HistoryTypes
    <2>2. Seen(c, q, 0) = c /\ 0 \in 0..Len(q)
      BY <2>1 DEF Seen
    <2>3. PICK p \in acting..Len(asked) : StandsAt(asked, c, p)
      BY <2>2, <1>4 DEF PromiseInv, HistoryInv, Answers
    <2>4. Position(c) = p
      BY <2>3, PositionIs DEF PromiseInv, HistoryInv
    <2>5. acting' = p
      BY <2>4, <1>4 DEF Remember
    <2>6. asked' = asked
      BY <1>1 DEF Remember, NewSpec
    <2>7. Answers(c, q, asked, p)
      <3>1. ASSUME NEW i \in 0..Len(q), Seen(c, q, i).live
            PROVE  \E r \in p..Len(asked) : StandsAt(asked, Seen(c, q, i), r)
        <4>1. PICK r \in acting..Len(asked) : StandsAt(asked, Seen(c, q, i), r)
          BY <3>1 DEF PromiseInv, HistoryInv, Answers
        <4>2. Precedes(c, Seen(c, q, i))
          <5>1. 0 <= i
            BY <2>1
          <5>2. Precedes(Seen(c, q, 0), Seen(c, q, i))
            BY <5>1, <2>2, <3>1 DEF PromiseInv, HistoryInv, InOrder
          <5> QED
            BY <5>2, <2>2
        <4>3. Seen(c, q, i) \in Identified
          <5>1. i = 0 \/ i \in 1..Len(q)
            BY <2>1
          <5> QED
            BY <5>1, <2>1, ElementOfSeq DEF Seen
        <4>4. p <= r
          BY <4>1, <4>2, <4>3, <2>1, <2>3, <1>4, <3>1, PositionsInOrder
        <4>5. r \in p..Len(asked)
          BY <4>4, <2>1, <2>3
        <4> QED
          BY <4>1, <4>5
      <3> QED
        BY <3>1 DEF Answers
    <2>8. Precedes(c, store["nf"])
      <3>1. Len(q) \in 0..Len(q) /\ 0 <= Len(q)
        BY <2>1
      <3>2. Precedes(Seen(c, q, 0), Seen(c, q, Len(q)))
        BY <3>1, <2>2 DEF PromiseInv, HistoryInv, InOrder
      <3> QED
        BY <3>2, <2>1, <2>2
    <2>9. HistoryInv'
      <3>1. p \in 0..Len(asked) /\ 1 <= p
        BY <2>1, <2>3 DEF StandsAt
      <3>2. HistoryTypes' /\ CopiesStand'
        BY <3>1, <2>1, <2>3, <2>5, <2>6, <2>8, <1>1, <1>4
        DEF PromiseInv, HistoryInv, HistoryTypes, CopiesStand
      <3> QED
        BY <3>2, <2>5, <2>6, <2>7, <1>1, <1>2 DEF PromiseInv, HistoryInv
    <2>10. CASE p = acting
      BY <2>5, <2>6, <2>9, <2>10, <1>1 DEF PromiseStep, Promise!levelVars
    <2>11. CASE p # acting
      <3>1. p > acting /\ p \in DOMAIN asked
        BY <2>1, <2>3, <2>11 DEF StandsAt
      <3>2. Promise!TurnTo(p)
        BY <3>1, <2>5, <2>6, <1>1 DEF Promise!TurnTo
      <3> QED
        BY <3>1, <3>2, <2>9 DEF PromiseStep, Promise!Next
    <2> QED
      BY <2>10, <2>11
  <1> QED
    BY <1>3, <1>4 DEF Fetch, Return

\* While Reconcile works, its copy stands for what the operator acts for.
LEMMA CopyActs ==
  ASSUME PromiseInv, pc \notin {"idle", "fetch"}
  PROVE  /\ nf.live /\ Accepts(kind, nf.provider)
         /\ acting # 0 /\ acting \in DOMAIN asked /\ StandsAt(asked, nf, acting)
         /\ asked[acting].uid = nf.uid /\ asked[acting].addr = nf.addr
         /\ asked[acting].provider = nf.provider
  <1>1. nf.live /\ Accepts(kind, nf.provider)
    BY DEF PromiseInv, IInv, CopyInv
  <1>2. StandsAt(asked, nf, acting) /\ asked \in Seq(Asks)
    BY <1>1 DEF PromiseInv, HistoryInv, HistoryTypes, CopiesStand
  <1> QED
    BY <1>1, <1>2 DEF StandsAt

\* A call for an object, with what the version acted for asks of it.
LEMMA CallImplements ==
  ASSUME PromiseInv, Remember, NEW x \in Objects, NEW v, NEW valid, NEW next,
         Call(x, v, valid, next), pc = x, x \in KeptFor(kind),
         valid => /\ v = Promise!Applied(x, asked[acting])
                  /\ x \in UPFObjects => ~(store[x].live /\ store[x].owner = Foreign)
  PROVE  PromiseStep
  <1>1. /\ nf' = nf \/ nf' = NoNF
        /\ kind' = kind /\ cache' = cache
        /\ UNCHANGED serverVars \/ (valid /\ Commit(x, v))
    BY DEF Call, Put, Return
  <1>2. CASE UNCHANGED serverVars
    <2>1. Routed'
      BY <1>1 DEF PromiseInv, HistoryInv, Routed
    <2> QED
      BY <2>1, <1>1, <1>2, QuietImplements
  <1>3. CASE valid /\ Commit(x, v)
    <2>1. HistoryInv' /\ UNCHANGED <<asked, acting>> /\ store' = [store EXCEPT ![x] = v]
      BY <1>1, <1>3, OwnedWriteKeepsHistory
    <2>2. pc \notin {"idle", "fetch"} /\ kind \in NetworkFunctions
      BY DEF Objects, AMFObjects, SMFObjects, UPFObjects, PromiseInv, IInv, WorkerTypes
    <2>3. /\ acting # 0 /\ asked[acting].provider = nf.provider
          /\ Accepts(kind, nf.provider)
      BY <2>2, CopyActs
    <2>4. Promise!Concerns(x, asked[acting])
      <3>1. kind = "upf" => Route(Name, nf.provider) = "upf"
        BY <2>3 DEF Accepts, Route
      <3>2. kind # "upf" => /\ kind = Route(Name, "sdcore")
                            /\ Route(Name, nf.provider) \in {kind, "upf"}
        BY <2>3 DEF Accepts, Route, IsProviderSDCore, IsProviderSDCoreUPF, DotSDCore,
                    PromiseInv, HistoryInv, Routed
      <3> QED
        BY <2>2, <2>3, <3>1, <3>2, SameRouting DEF Promise!Concerns
    <2>5. Promise!Keep(x)
      BY <2>1, <2>3, <2>4, <1>3, SameTerms DEF Promise!Keep
    <2>6. x \in Promise!Objects
      BY SameTerms
    <2> QED
      BY <2>1, <2>5, <2>6 DEF PromiseStep, Promise!Next
  <1> QED
    BY <1>1, <1>2, <1>3

\* Nothing is written for this object, or Reconcile returns.
LEMMA SkipImplements ==
  ASSUME PromiseInv, Remember, NEW next, Skip(next)
  PROVE  PromiseStep
  <1>1. nf' = nf /\ kind' = kind /\ UNCHANGED serverVars /\ cache' = cache
    BY DEF Skip
  <1>2. Routed'
    BY <1>1 DEF PromiseInv, HistoryInv, Routed
  <1> QED
    BY <1>1, <1>2, QuietImplements

LEMMA GiveUpImplements ==
  ASSUME PromiseInv, Remember, NEW again, Return(again),
         UNCHANGED <<serverVars, cache, queued, kind, budgets>>
  PROVE  PromiseStep
  <1>1. nf' = NoNF /\ kind' = kind /\ UNCHANGED serverVars /\ cache' = cache
    BY DEF Return
  <1>2. Routed'
    BY <1>1 DEF PromiseInv, HistoryInv, Routed
  <1> QED
    BY <1>1, <1>2, QuietImplements

\* An AMF's or SMF's object is made, or brought, to what the copy asks.
LEMMA ReconcileObjectImplements ==
  ASSUME PromiseInv, Remember, NEW k \in SDCoreKinds, NEW x \in KeptFor(k), NEW next,
         ReconcileObject(k, x, next)
  PROVE  PromiseStep
  <1>1. /\ x \in Objects /\ x \notin UPFObjects /\ pc = x /\ kind = k
        /\ x \in KeptFor(kind)
    BY DEF SDCoreKinds, KeptFor, Objects, AMFObjects, SMFObjects, UPFObjects,
           ReconcileObject
  <1>2. pc \notin {"idle", "fetch"}
    BY <1>1 DEF Objects, AMFObjects, SMFObjects, UPFObjects
  <1>3. asked[acting].uid = nf.uid /\ asked[acting].addr = nf.addr
    BY <1>2, CopyActs
  <1>4. x \notin Promise!UPFObjects
    BY <1>1, SameTerms
  <1>5. CASE Skip(next)
    BY <1>5, SkipImplements
  <1>6. CASE CreateObject(x, Wanted(x), next)
    <2>1. ~store[x].live => Wanted(x) = Promise!Applied(x, asked[acting])
      BY <1>1, <1>3, SameTerms DEF Wanted, WantedData, Promise!Applied
    <2> QED
      BY <2>1, <1>1, <1>6, CallImplements DEF CreateObject
  <1>7. CASE cache[x].live /\ UpdateObject(x, Updated(x, cache[x]), next)
    <2>1. /\ store[x] \in OwnedRecord
          /\ watch[x] = <<>> => cache[x] = store[x]
      BY <1>1, NamesAre DEF PromiseInv, IInv, ServerInv, ServerTypes, Trails
    <2>2. Updated(x, store[x]) \in OwnedRecord
      BY <1>1, <2>1, SDCoreWriteTypes DEF PromiseInv
    <2>3. store[x].live => Promise!Applied(x, asked[acting]) = Updated(x, store[x])
      <3> DEFINE r == Updated(x, store[x])
      <3>1. store[x].live => Promise!Applied(x, asked[acting]) = [r EXCEPT !.owner = r.owner]
        BY <1>1, <1>3, <1>4, SameTerms DEF Updated, WantedData, Promise!Applied
      <3>2. \A w \in OwnedRecord : [w EXCEPT !.owner = w.owner] = w
        BY DEF OwnedRecord
      <3> QED
        BY <3>1, <3>2, <2>2
    <2>4. watch[x] = <<>> => Updated(x, cache[x]) = Promise!Applied(x, asked[acting])
      BY <2>1, <2>3, <1>7
    <2> QED
      BY <2>4, <1>1, <1>7, CallImplements DEF UpdateObject
  <1> QED
    BY <1>5, <1>6, <1>7 DEF ReconcileObject

\* So is an object of the UPF, which changes hands, unless it is another
\* controller's.
LEMMA CreateOrUpdateImplements ==
  ASSUME PromiseInv, Remember, NEW x \in UPFObjects, NEW next, CreateOrUpdate(x, next)
  PROVE  PromiseStep
  <1>1. /\ x \in Objects /\ x \notin Labelled /\ pc = x /\ kind = "upf"
        /\ x \in KeptFor(kind)
    BY DEF KeptFor, Objects, Labelled, CreateOrUpdate
  <1>2. pc \notin {"idle", "fetch"}
    BY <1>1 DEF Objects, AMFObjects, SMFObjects, UPFObjects
  <1>3. asked[acting].uid = nf.uid
    BY <1>2, CopyActs
  <1>4. x \in Promise!UPFObjects
    BY SameTerms
  <1>5. CASE Skip(next)
    BY <1>5, SkipImplements
  <1>6. CASE Return(TRUE) /\ UNCHANGED <<serverVars, cache, queued, kind, budgets>>
    BY <1>6, GiveUpImplements
  <1>7. CASE CreateObject(x, [Mutated(x, NoObject) EXCEPT !.gen = 1], next)
    <2> DEFINE made(w, u) == [w EXCEPT !.live = TRUE, !.owner = u, !.data = "fixed",
                                       !.gen = 1, !.labelled = FALSE]
    <2>1. ASSUME NEW w \in OwnedRecord, w.data = "fixed", ~w.labelled, NEW u
          PROVE  [[Rewritten(x, w, "fixed") EXCEPT !.live = TRUE, !.owner = u]
                    EXCEPT !.gen = 1] = made(w, u)
      <3>1. Rewritten(x, w, "fixed") = w
        BY <2>1 DEF Rewritten, OwnedRecord
      <3> QED
        BY <3>1, <2>1 DEF OwnedRecord
    <2>2. [Mutated(x, NoObject) EXCEPT !.gen = 1] = made(NoObject, nf.uid)
      <3>1. NoObject \in OwnedRecord /\ NoObject.data = "fixed" /\ ~NoObject.labelled
        BY BlankTypes DEF NoObject
      <3> HIDE DEF made
      <3> QED
        BY <3>1, <2>1 DEF Mutated, Configured
    <2>3. ~store[x].live => [Mutated(x, NoObject) EXCEPT !.gen = 1]
                              = Promise!Applied(x, asked[acting])
      <3>1. (x \in Labelled) = FALSE
        BY <1>1
      <3>2. ~store[x].live => Promise!Applied(x, asked[acting]) =
              [NoObject EXCEPT !.live = TRUE, !.owner = nf.uid, !.data = "fixed",
                               !.gen = 1, !.labelled = x \in Labelled]
        BY <1>3, <1>4, SameTerms DEF Promise!Applied
      <3> QED
        BY <2>2, <3>1, <3>2
    <2> QED
      BY <2>3, <1>1, <1>7, CallImplements DEF CreateObject
  <1>8. CASE /\ cache[x].live /\ ~AlreadyOwned(cache[x])
             /\ UpdateObject(x, Mutated(x, cache[x]), next)
    <2>1. /\ store[x] \in OwnedRecord
          /\ watch[x] = <<>> => cache[x] = store[x]
      BY <1>1, NamesAre DEF PromiseInv, IInv, ServerInv, ServerTypes, Trails
    <2>2. store[x].live => Promise!Applied(x, asked[acting]) = Mutated(x, store[x])
      <3>1. PICK r \in OwnedRecord : r = Rewritten(x, store[x], "fixed")
                                     /\ r.live = store[x].live
        BY <1>1, <2>1, RewrittenType DEF Data
      <3>2. store[x].live =>
              Promise!Applied(x, asked[acting]) = [r EXCEPT !.owner = nf.uid]
        BY <1>1, <1>3, <1>4, <3>1, SameTerms DEF Promise!Applied
      <3>3. r.live => [r EXCEPT !.live = TRUE, !.owner = nf.uid] = [r EXCEPT !.owner = nf.uid]
        BY DEF OwnedRecord
      <3> QED
        BY <3>1, <3>2, <3>3 DEF Mutated, Configured
    <2>3. watch[x] = <<>> =>
            /\ Mutated(x, cache[x]) = Promise!Applied(x, asked[acting])
            /\ ~(store[x].live /\ store[x].owner = Foreign)
      BY <2>1, <2>2, <1>8 DEF AlreadyOwned
    <2> QED
      BY <2>3, <1>1, <1>8, CallImplements DEF UpdateObject
  <1> QED
    BY <1>5, <1>6, <1>7, <1>8 DEF CreateOrUpdate

\* A status is written for the latest version.
LEMMA StatusUpdateImplements ==
  ASSUME PromiseInv, Remember, pc = "status",
         NEW s \in [obs: Nat, available: Conds, ready: Conds], NEW restamped, NEW again,
         UpdateStatusOfNF(s, restamped, again),
         kind # "upf" => s.obs = nf.gen
  PROVE  PromiseStep
  <1> DEFINE w == store["nf"]
             v == WithStatus(s)
  <1>1. /\ nf' = NoNF /\ kind' = kind /\ cache' = cache
        /\ UNCHANGED serverVars \/ (~overtaken /\ Commit("nf", v))
    BY DEF UpdateStatusOfNF, Put, Return
  <1>2. CASE UNCHANGED serverVars
    <2>1. Routed'
      BY <1>1 DEF PromiseInv, HistoryInv, Routed
    <2> QED
      BY <2>1, <1>1, <1>2, QuietImplements
  <1>3. CASE ~overtaken /\ Commit("nf", v)
    <2>1. /\ nf.live /\ Accepts(kind, nf.provider)
          /\ StandsAt(asked, nf, acting) /\ acting \in DOMAIN asked
          /\ asked[acting].provider = nf.provider
      BY CopyActs
    <2>2. nf = w /\ w \in Identified /\ w.live
      BY <1>3, <2>1, HistoryFacts DEF PromiseInv, IInv, CopyInv
    <2>3. acting = Len(asked)
      <3>1. StandsAt(asked, w, Len(asked)) /\ acting \in Nat /\ Len(asked) \in Nat
        BY <2>2, HistoryFacts DEF PromiseInv, HistoryInv, CopiesStand
      <3> QED
        BY <2>1, <2>2, <3>1 DEF StandsAt
    <2>4. /\ v \in Identified /\ v.obs = s.obs /\ v.gen = w.gen
          /\ v.available = s.available /\ v.ready = s.ready
          /\ v.uid = w.uid /\ v.live = w.live /\ v.deleting = w.deleting
          /\ v.addr = w.addr /\ v.provider = w.provider
          /\ v = [w EXCEPT !.obs = s.obs, !.available = s.available, !.ready = s.ready]
      BY <2>2 DEF WithStatus, Identified, NFRecord
    <2> HIDE DEF v
    <2>5. ~NewSpec(w, v)
      BY <2>4 DEF NewSpec
    <2>6. HistoryInv' /\ UNCHANGED <<asked, acting>>
      <3>1. w.uid <= v.uid /\ w.gen <= v.gen /\ v.live
        BY <2>2, <2>4 DEF Identified, NFRecord
      <3> QED
        BY <2>2, <2>4, <2>5, <3>1, <1>1, <1>3, NFWriteKeepsHistory
    <2>7. store' = [store EXCEPT !["nf"] = v] /\ store'["nf"] = v
      <3>1. "nf" \in DOMAIN store
        BY NamesAre DEF PromiseInv, IInv, ServerInv, ServerTypes
      <3> QED
        BY <3>1, <1>3 DEF Commit
    <2>8. IsProviderSDCoreUPF(nf.provider) \/ v.obs = v.gen
      BY <2>1, <2>2, <2>4 DEF Accepts
    <2>9. Promise!Report
      BY <2>1, <2>2, <2>3, <2>4, <2>6, <2>7, <2>8, SameRouting DEF Promise!Report
    <2> QED
      BY <2>6, <2>9 DEF PromiseStep, Promise!Next
  <1> QED
    BY <1>1, <1>2, <1>3

-----------------------------------------------------------------------------
(* All steps.                                                              *)

\* The AMF's and the SMF's Reconcile report on the generation they read.
LEMMA UpdateStatusImplements ==
  ASSUME PromiseInv, Remember, NEW k \in SDCoreKinds, UpdateStatus(k)
  PROVE  PromiseStep
  <1>1. CASE DeploymentMissing(k)
    BY <1>1, GiveUpImplements DEF DeploymentMissing
  <1>2. CASE \E restamped \in BOOLEAN :
               UpdateStatusOfNF(SDCoreStatus(cache[k]), restamped, changed)
    <2>1. SDCoreStatus(cache[k]) \in [obs: Nat, available: Conds, ready: Conds]
      BY DEF PromiseInv, IInv, WorkerTypes, Identified, NFRecord, SDCoreStatus, Conds
    <2>2. SDCoreStatus(cache[k]).obs = nf.gen
      BY DEF SDCoreStatus
    <2> QED
      BY <1>2, <2>1, <2>2, StatusUpdateImplements DEF UpdateStatus
  <1> QED
    BY <1>1, <1>2 DEF UpdateStatus

LEMMA UpdateUPFStatusImplements ==
  ASSUME PromiseInv, Remember, UpdateUPFStatus
  PROVE  PromiseStep
  <1>1. cache["upf"] \in OwnedRecord /\ kind = "upf" /\ pc = "status"
    BY TombstoneType DEF UpdateUPFStatus, Objects, UPFObjects, PromiseInv
  <1>2. CASE /\ \E b \in BOOLEAN : Return(b)
             /\ UNCHANGED <<serverVars, cache, queued, kind, budgets>>
    BY <1>2, GiveUpImplements
  <1>3. CASE UpdateStatusOfNF(UPFStatus(cache["upf"]), TRUE, FALSE)
    <2>1. UPFStatus(cache["upf"]) \in [obs: Nat, available: Conds, ready: Conds]
      BY <1>1 DEF UPFStatus, OwnedRecord, Conds
    <2> QED
      BY <1>1, <1>3, <2>1, StatusUpdateImplements
  <1> QED
    BY <1>2, <1>3 DEF UpdateUPFStatus

\* Every step of the worker.
LEMMA WorkerImplements ==
  ASSUME PromiseInv, Remember, Worker
  PROVE  PromiseStep
  <1>1. /\ {"amf", "smf"} = SDCoreKinds /\ {"amf", "smf", "upf"} = NetworkFunctions
        /\ KeptFor("amf") = {"amf-config", "amf", "amf-service", "amf-headless"}
        /\ KeptFor("smf") = {"smf-config", "smf", "smf-service"}
        /\ UPFObjects = {"upf-config", "upf", "upf-service"}
    BY DEF SDCoreKinds, NetworkFunctions, KeptFor, AMFObjects, SMFObjects, UPFObjects
  <1>2. CASE Begin
    BY <1>2, BeginImplements
  <1>3. CASE \E k \in NetworkFunctions, first \in Objects : Fetch(k, first)
    BY <1>3, FetchImplements
  <1>4. CASE \E k \in SDCoreKinds : \E x \in KeptFor(k), next \in Objects \cup {"status"} :
               ReconcileObject(k, x, next)
    BY <1>4, ReconcileObjectImplements
  <1>5. CASE \E x \in UPFObjects, next \in Objects \cup {"status"} : CreateOrUpdate(x, next)
    BY <1>5, CreateOrUpdateImplements
  <1>6. CASE UpdateUPFStatus \/ \E k \in SDCoreKinds : UpdateStatus(k)
    BY <1>6, UpdateUPFStatusImplements, UpdateStatusImplements
  <1>7. {"amf-config", "amf", "amf-service", "amf-headless", "smf-config", "smf",
         "smf-service", "upf-config", "upf", "upf-service"} = Objects
    BY DEF Objects, AMFObjects, SMFObjects, UPFObjects
  <1>8. CASE AMFReconcile
    BY <1>8, <1>1, <1>3, <1>4, <1>6, <1>7 DEF AMFReconcile
  <1>9. CASE SMFReconcile
    BY <1>9, <1>1, <1>3, <1>4, <1>6, <1>7 DEF SMFReconcile
  <1>10. CASE UPFReconcile
    BY <1>10, <1>1, <1>3, <1>5, <1>6, <1>7 DEF UPFReconcile
  <1> QED
    BY <1>2, <1>8, <1>9, <1>10 DEF Worker

\* Every step around it.
LEMMA EnvironmentImplements ==
  ASSUME PromiseInv, Remember, Environment
  PROVE  PromiseStep
  <1>1. CASE Users \/ FinishDeletion
    BY <1>1, RequestImplements, WithdrawImplements DEF Users
  <1>2. CASE (\E x \in Objects : CollectGarbage(x)) \/ (\E x \in Contested : Others(x))
    BY <1>2, NamesAre, OthersImplement
  <1>3. CASE \E x \in Names : Deliver(x)
    BY <1>3, DeliverImplements
  <1>4. CASE Timer
    <2>1. Routed'
      BY <1>4 DEF Timer, PromiseInv, HistoryInv, Routed
    <2> QED
      BY <1>4, <2>1, QuietImplements DEF Timer
  <1>5. CASE Restart
    BY <1>5, RestartImplements
  <1> QED
    BY <1>1, <1>2, <1>3, <1>4, <1>5 DEF Environment, Outside

\* And the step that is none.
LEMMA StutterImplements ==
  ASSUME PromiseInv, UNCHANGED promiseVars
  PROVE  PromiseStep
  BY DEF promiseVars, vars, PromiseStep, Promise!levelVars, PromiseInv, HistoryInv,
         HistoryTypes, CopiesStand, Routed

LEMMA StepImplements ==
  ASSUME PromiseInv, [PromiseNext]_promiseVars
  PROVE  PromiseInv' /\ [Promise!Next]_Promise!levelVars
  <1>1. [Next]_vars
    BY DEF PromiseNext, promiseVars
  <1>2. IInv'
    BY <1>1, NextKeepsIInv DEF PromiseInv
  <1>3. PromiseStep
    BY WorkerImplements, EnvironmentImplements, StutterImplements DEF PromiseNext, Next
  <1> QED
    BY <1>2, <1>3 DEF PromiseInv, PromiseStep

\* It starts as it should.
LEMMA InitImplements ==
  ASSUME PromiseInit
  PROVE  PromiseInv /\ Promise!Init
  <1>1. IInv
    BY InitEstablishesIInv DEF PromiseInit
  <1>2. HistoryTypes
    BY EmptySeq DEF PromiseInit, HistoryTypes
  <1>3. /\ store["nf"] = NoNF /\ cache["nf"] = NoNF /\ watch["nf"] = <<>> /\ nf = NoNF
        /\ store = [x \in Names |-> store[x]]
    BY NamesAre DEF PromiseInit, Init, Nothing
  <1>4. InOrder(cache["nf"], watch["nf"]) /\ Answers(cache["nf"], watch["nf"], asked, acting)
    <2>1. \A i \in 0..Len(<<>>) : Seen(NoNF, <<>>, i) = NoNF
      BY EmptySeq DEF Seen
    <2> QED
      BY <2>1, <1>3 DEF InOrder, Answers, Precedes, NoNF
  <1>5. CopiesStand /\ (store["nf"].deleting => store["nf"].live)
    BY <1>3 DEF CopiesStand, NoNF
  <1>6. Routed
    BY DEF PromiseInit, Init, Routed, Route, IsProviderSDCoreUPF
  <1>7. Promise!Init
    BY SameTerms DEF PromiseInit, Init, Promise!Init
  <1> QED
    BY <1>1, <1>2, <1>3, <1>4, <1>5, <1>6, <1>7 DEF PromiseInv, HistoryInv

\* The operator acts as promised: seen from the API server, it turns from one
\* version of the spec to a later one only, writes its objects for that version
\* and the status for the latest, whatever is stale, fails or starts anew.
THEOREM Implements == PromiseSpec => ActsAsPromised
  <1>1. PromiseInit => PromiseInv /\ Promise!Init
    BY InitImplements
  <1>2. PromiseInv /\ [PromiseNext]_promiseVars =>
          PromiseInv' /\ [Promise!Next]_Promise!levelVars
    BY StepImplements
  <1> QED
    BY <1>1, <1>2, PTL DEF PromiseSpec, ActsAsPromised
=============================================================================
