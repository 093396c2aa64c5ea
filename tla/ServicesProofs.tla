-------------------------- MODULE ServicesProofs --------------------------
(***************************************************************************)
(* The Services are there: proofs of ServicesCreated and UPFServiceKept,   *)
(* for any values of the constants.                                        *)
(*                                                                         *)
(* No event tells the operator that a Service is gone, so it is not enough *)
(* that nothing is missed.  What a Reconcile has found or made must stay,  *)
(* as long as its NFDeployment does: the garbage collector does not touch  *)
(* what the present NFDeployment owns, and no Reconcile for an earlier one *)
(* takes it back, because uids only grow.                                  *)
(***************************************************************************)
EXTENDS ConvergenceProofs

\* The NFDeployment is there to stay.
Present == store["nf"].live /\ ~store["nf"].deleting

\* The versions of the NFDeployment reach the operator in the order of their uids.
UidInv ==
  /\ cache["nf"].uid <= store["nf"].uid
  /\ nf.live => nf.uid <= cache["nf"].uid
  /\ \A i \in 1..Len(watch["nf"]) :
       /\ cache["nf"].uid <= watch["nf"][i].uid
       /\ watch["nf"][i].uid <= store["nf"].uid
       /\ \A j \in 1..Len(watch["nf"]) : i <= j => watch["nf"][i].uid <= watch["nf"][j].uid

\* The versions of an object that are stored, cached or on their way.
Versions(x) == {cache[x], store[x]} \cup {watch[x][i] : i \in 1..Len(watch[x])}

\* While nobody else has touched the objects, each belongs to an NFDeployment that
\* the running Reconcile's copy does not precede; and one of which some version
\* is known that the present NFDeployment owns is there.
Backed(x, v) ==
  v.live =>
    /\ ByNF(v.owner) /\ v.owner <= cache["nf"].uid
    /\ nf.live => v.owner <= nf.uid
    /\ Present /\ v.owner = store["nf"].uid => Mine(x)

BackedInv == \A x \in Objects : \A v \in Versions(x) : Backed(x, v)

\* Unless an event is pending for the NFDeployment, x is there and its own.  The
\* AMF and the SMF see to that for the first NFDeployment of the name only.
Placed(k, x) ==
  /\ Present /\ store["nf"].uid = cache["nf"].uid
  /\ k # "upf" => store["nf"].uid = 1
  => Mine(x)

\* The objects that a Reconcile at its present step has dealt with, Services
\* included.
Behind == CASE pc \in ConfigMaps                                   -> {}
            [] pc \in Deployments                                  -> ConfigMaps
            [] pc \in {"amf-service", "smf-service", "upf-service"} -> Watched
            [] pc = "amf-headless" -> Watched \cup {"amf-service"}
            [] OTHER               -> Objects

PlacedInv ==
  ~queued /\ ~delayed =>
    /\ pc = "idle" /\ cache["nf"].live =>
         \A k \in NetworkFunctions : Route(Name, cache["nf"].provider) = k =>
           \A x \in KeptFor(k) : Placed(k, x)
    /\ pc \notin {"idle", "fetch"} => \A x \in KeptFor(kind) \cap Behind : Placed(kind, x)

Untouched == moves = 0 => BackedInv /\ PlacedInv

SInv == CInv /\ UidInv /\ Untouched

-----------------------------------------------------------------------------
(* Writes.                                                                 *)

\* The NFDeployment's versions are well typed.
LEMMA UidTypes ==
  ASSUME CInv
  PROVE  /\ store["nf"] \in Identified /\ cache["nf"] \in Identified /\ nf \in Identified
         /\ store["nf"].uid \in Nat /\ cache["nf"].uid \in Nat /\ nf.uid \in Nat
         /\ watch["nf"] \in Seq(Identified) /\ Len(watch["nf"]) \in Nat
         /\ \A i \in 1..Len(watch["nf"]) : watch["nf"][i] \in Identified
                                           /\ watch["nf"][i].uid \in Nat
  <1>1. /\ store["nf"] \in Identified /\ cache["nf"] \in Identified /\ nf \in Identified
        /\ watch["nf"] \in Seq(Identified)
    BY NamesAre DEF CInv, IInv, ServerInv, ServerTypes, WorkerTypes
  <1>2. \A i \in 1..Len(watch["nf"]) : watch["nf"][i] \in Identified
    BY <1>1, ElementOfSeq
  <1> QED
    BY <1>1, <1>2, LenProperties DEF Identified, NFRecord

\* So are those of the owned objects.
LEMMA VersionTypes ==
  ASSUME CInv, NEW x \in Objects, NEW v \in Versions(x)
  PROVE  v \in OwnedRecord
  <1>1. /\ store[x] \in OwnedRecord /\ cache[x] \in OwnedRecord
        /\ watch[x] \in Seq(OwnedRecord)
    BY ServedTypes
  <1>2. \A i \in 1..Len(watch[x]) : watch[x][i] \in OwnedRecord
    BY <1>1, ElementOfSeq
  <1> QED
    BY <1>1, <1>2 DEF Versions

\* A commit adds one version of one object.
LEMMA CommitAddsVersion ==
  ASSUME CInv, NEW x \in Objects, NEW v \in OwnedRecord, Commit(x, v), UNCHANGED cache
  PROVE  /\ store'["nf"] = store["nf"] /\ watch'["nf"] = watch["nf"] /\ store'[x] = v
         /\ Versions(x)' \subseteq Versions(x) \cup {v}
         /\ \A y \in Objects \ {x} : store'[y] = store[y] /\ Versions(y)' = Versions(y)
  <1>1. /\ Len(watch[x]) \in Nat /\ Len(watch'[x]) = Len(watch[x]) + 1
        /\ watch'[x][Len(watch[x]) + 1] = v
        /\ \A i \in 1..Len(watch[x]) : watch'[x][i] = watch[x][i]
        /\ \A y \in Names \ {x} : watch'[y] = watch[y]
    BY NamesAre, CommitAppends
  <1>2. store'[x] = v /\ \A y \in Names \ {x} : store'[y] = store[y]
    BY NamesAre DEF Commit, CInv, IInv, ServerInv, ServerTypes
  <1>3. \A i \in 1..Len(watch'[x]) : i = Len(watch[x]) + 1 \/ i \in 1..Len(watch[x])
    BY <1>1
  <1>4. Versions(x)' \subseteq Versions(x) \cup {v}
    BY <1>1, <1>2, <1>3 DEF Versions
  <1>5. \A y \in Objects \ {x} : store'[y] = store[y] /\ Versions(y)' = Versions(y)
    BY <1>1, <1>2, NamesAre DEF Versions
  <1> QED
    BY <1>1, <1>2, <1>4, <1>5, NamesAre

\* What is written to an owned object keeps what is backed and placed, if it
\* leaves the present NFDeployment's own in its hands.
LEMMA OwnedWriteKeepsBacked ==
  ASSUME SInv, moves = 0, NEW x \in Objects, NEW v \in OwnedRecord, Commit(x, v),
         UNCHANGED cache,
         UNCHANGED nf \/ ~nf'.live,
         v.live => ByNF(v.owner) /\ nf.live /\ v.owner <= nf.uid,
         Present /\ Mine(x) => v.live /\ v.owner = store["nf"].uid
  PROVE  /\ BackedInv'
         /\ \A k \in NetworkFunctions, y \in Objects : Placed(k, y) => Placed(k, y)'
  <1>1. /\ store'["nf"] = store["nf"] /\ watch'["nf"] = watch["nf"] /\ store'[x] = v
        /\ Versions(x)' \subseteq Versions(x) \cup {v}
        /\ \A y \in Objects \ {x} : store'[y] = store[y] /\ Versions(y)' = Versions(y)
    BY CommitAddsVersion DEF SInv
  <1>2. Present' = Present
    BY <1>1 DEF Present
  <1>3. \A y \in Objects : Present /\ Mine(y) => Mine(y)'
    BY <1>1 DEF Mine
  <1>4. Present /\ v.live /\ v.owner = store["nf"].uid => Mine(x)'
    BY <1>1 DEF Mine
  <1>5. v.live => v.owner <= cache["nf"].uid /\ v.owner <= nf.uid
    <2>1. v.live => v.owner \in Nat
      BY DEF OwnedRecord, ByNF
    <2> QED
      BY <2>1, UidTypes DEF SInv, UidInv
  <1>6. BackedInv
    BY DEF SInv, Untouched
  <1>7. ASSUME NEW y \in Objects, NEW w \in Versions(y)' PROVE Backed(y, w)'
    <2>1. CASE w \in Versions(y)
      BY <1>1, <1>2, <1>3, <1>6, <2>1 DEF BackedInv, Backed, ByNF
    <2>2. CASE w = v /\ y = x
      BY <1>1, <1>2, <1>4, <1>5, <2>2 DEF Backed, ByNF
    <2> QED
      BY <1>1, <1>7, <2>1, <2>2
  <1>8. BackedInv'
    BY <1>7 DEF BackedInv
  <1>9. \A k \in NetworkFunctions, y \in Objects : Placed(k, y) => Placed(k, y)'
    BY <1>1, <1>2, <1>3 DEF Placed
  <1> QED
    BY <1>8, <1>9

\* Versions of the NFDeployment keep their order when one is added whose uid is
\* not below the stored one's.
LEMMA NFWriteKeepsUids ==
  ASSUME CInv, UidInv, NEW v \in Identified, Commit("nf", v), UNCHANGED cache,
         UNCHANGED nf \/ ~nf'.live, store["nf"].uid <= v.uid
  PROVE  /\ UidInv' /\ store'["nf"] = v
         /\ \A x \in Objects : store'[x] = store[x] /\ Versions(x)' = Versions(x)
  <1>1. /\ Len(watch["nf"]) \in Nat /\ Len(watch'["nf"]) = Len(watch["nf"]) + 1
        /\ watch'["nf"][Len(watch["nf"]) + 1] = v
        /\ \A i \in 1..Len(watch["nf"]) : watch'["nf"][i] = watch["nf"][i]
        /\ \A y \in Names \ {"nf"} : watch'[y] = watch[y]
    BY NamesAre, CommitAppends
  <1>2. store'["nf"] = v /\ \A y \in Names \ {"nf"} : store'[y] = store[y]
    BY NamesAre DEF Commit, CInv, IInv, ServerInv, ServerTypes
  <1>3. \A i \in 1..Len(watch'["nf"]) : i = Len(watch["nf"]) + 1 \/ i \in 1..Len(watch["nf"])
    BY <1>1
  <1>4. v.uid \in Nat
    BY DEF Identified, NFRecord
  <1>5. ASSUME NEW i \in 1..Len(watch'["nf"])
        PROVE  /\ cache["nf"].uid <= watch'["nf"][i].uid
               /\ watch'["nf"][i].uid <= v.uid
    <2>1. cache["nf"].uid <= store["nf"].uid /\ store["nf"].uid \in Nat /\ cache["nf"].uid \in Nat
      BY UidTypes DEF UidInv
    <2>2. CASE i \in 1..Len(watch["nf"])
      <3>1. /\ watch["nf"][i].uid \in Nat /\ watch["nf"][i].uid <= store["nf"].uid
            /\ cache["nf"].uid <= watch["nf"][i].uid
        BY <2>2, UidTypes DEF UidInv
      <3>2. watch'["nf"][i] = watch["nf"][i]
        BY <2>2, <1>1
      <3>3. watch["nf"][i].uid <= v.uid
        BY <3>1, <2>1, <1>4
      <3> QED
        BY <3>1, <3>2, <3>3
    <2>3. CASE i = Len(watch["nf"]) + 1
      BY <2>1, <2>3, <1>1, <1>4
    <2> QED
      BY <2>2, <2>3, <1>3
  <1>6. ASSUME NEW i \in 1..Len(watch'["nf"]), NEW j \in 1..Len(watch'["nf"]), i <= j
        PROVE  watch'["nf"][i].uid <= watch'["nf"][j].uid
    <2>1. CASE j = Len(watch["nf"]) + 1
      BY <2>1, <1>1, <1>5
    <2>2. CASE j \in 1..Len(watch["nf"])
      <3>1. i \in 1..Len(watch["nf"])
        BY <2>2, <1>1, <1>6
      <3> QED
        BY <2>2, <3>1, <1>1, <1>6 DEF UidInv
    <2> QED
      BY <2>1, <2>2, <1>3
  <1>7. cache["nf"].uid <= v.uid
    BY <1>4, UidTypes DEF UidInv
  <1>8. UidInv'
    BY <1>2, <1>5, <1>6, <1>7 DEF UidInv
  <1> QED
    BY <1>1, <1>2, <1>8, NamesAre DEF Versions

\* A write to the NFDeployment keeps what is backed and placed: a new one has a
\* new uid, and one that waits to go does not come back.
LEMMA NFWriteKeepsBacked ==
  ASSUME SInv, moves = 0, NEW v \in Identified, Commit("nf", v), UNCHANGED cache,
         UNCHANGED nf \/ ~nf'.live,
         \/ store["nf"].uid < v.uid
         \/ store["nf"].uid = v.uid /\ (v.live /\ ~v.deleting => Present)
  PROVE  /\ BackedInv'
         /\ \A k \in NetworkFunctions, y \in Objects : Placed(k, y) => Placed(k, y)'
  <1>1. v.uid \in Nat /\ store["nf"].uid \in Nat /\ cache["nf"].uid \in Nat
    BY UidTypes DEF SInv, Identified, NFRecord
  <1>2. /\ store'["nf"] = v
        /\ \A x \in Objects : store'[x] = store[x] /\ Versions(x)' = Versions(x)
    BY <1>1, NFWriteKeepsUids DEF SInv
  <1>3. cache["nf"].uid <= store["nf"].uid /\ BackedInv
    BY DEF SInv, UidInv, Untouched
  <1>4. ASSUME NEW x \in Objects, NEW w \in Versions(x) PROVE Backed(x, w)'
    <2>1. Backed(x, w)
      BY <1>3 DEF BackedInv
    <2>2. w.live /\ Present' /\ w.owner = v.uid => Present /\ w.owner = store["nf"].uid
      <3>1. w.live => w.owner \in Nat /\ w.owner <= store["nf"].uid
        <4>1. w \in OwnedRecord
          BY VersionTypes DEF SInv
        <4> QED
          BY <4>1, <2>1, <1>1, <1>3 DEF Backed, OwnedRecord, ByNF
      <3> QED
        BY <3>1, <1>1, <1>2 DEF Present
    <2> QED
      BY <2>1, <2>2, <1>2 DEF Backed, ByNF, Mine
  <1>5. BackedInv'
    BY <1>2, <1>4 DEF BackedInv
  <1>6. \A k \in NetworkFunctions, y \in Objects : Placed(k, y) => Placed(k, y)'
    BY <1>1, <1>2, <1>3 DEF Placed, Present, Mine
  <1> QED
    BY <1>5, <1>6

-----------------------------------------------------------------------------
(* The environment.                                                        *)

\* While the registers stay, so does all that a Reconcile has placed.
LEMMA LoopKeepsPlaced ==
  ASSUME SInv, moves = 0, UNCHANGED loop,
         \A k \in NetworkFunctions, y \in Objects : Placed(k, y) => Placed(k, y)'
  PROVE  PlacedInv'
  <1>1. UNCHANGED <<cache, queued, delayed, pc, kind>> /\ Behind' = Behind
    BY DEF loop, Behind
  <1>2. kind \in NetworkFunctions /\ \A k \in NetworkFunctions : KeptFor(k) \subseteq Objects
    BY DEF SInv, CInv, IInv, WorkerTypes, NetworkFunctions, KeptFor, Objects
  <1>3. PlacedInv
    BY DEF SInv, Untouched
  <1> QED
    BY <1>1, <1>2, <1>3 DEF PlacedInv

\* Users, and the end of a deletion in the foreground, write the NFDeployment: a
\* new one with the next uid, or the one that was there, or its end.
LEMMA UsersWriteNF ==
  ASSUME CInv, Users \/ FinishDeletion
  PROVE  \E v \in Identified :
           /\ Commit("nf", v) /\ UNCHANGED loop /\ UNCHANGED moves
           /\ \/ v.uid = store["nf"].uid + 1
              \/ v.uid = store["nf"].uid /\ (v.live /\ ~v.deleting => Present)
  <1>1. store["nf"] \in Identified /\ store["nf"].uid \in Nat
    BY UidTypes
  <1>2. CASE CreateNF
    <2>1. PICK a \in Addrs, p \in Providers :
            UserWrites(Created(store["nf"].uid + 1, a, p))
      BY <1>2 DEF CreateNF, Created
    <2>2. p \in AllProviders
      BY ParametersAssumption
    <2>3. /\ Created(store["nf"].uid + 1, a, p) \in Identified
          /\ Created(store["nf"].uid + 1, a, p).uid = store["nf"].uid + 1
      BY <1>1, <2>2, CreatedType
    <2> QED
      BY <2>1, <2>3 DEF UserWrites, Writes, loop
  <1>3. CASE EditNF
    <2>1. PICK a \in Addrs, p \in Providers :
            UserWrites([store["nf"] EXCEPT !.gen = @ + 1, !.addr = a, !.provider = p])
      BY <1>3 DEF EditNF
    <2> DEFINE v == [store["nf"] EXCEPT !.gen = @ + 1, !.addr = a, !.provider = p]
    <2>2. p \in AllProviders
      BY ParametersAssumption
    <2>3. v \in Identified
      BY <1>1, <2>2, EditedType
    <2>4. v.uid = store["nf"].uid /\ v.deleting = store["nf"].deleting
      BY <1>1 DEF Identified, NFRecord
    <2> QED
      BY <2>1, <2>3, <2>4, <1>3 DEF EditNF, UserWrites, Writes, loop, Present
  <1>4. CASE TouchNF
    BY <1>4, <1>1 DEF TouchNF, UserWrites, Writes, loop, Present
  <1>5. CASE DeleteNF \/ FinishDeletion
    <2> DEFINE v == [NoNF EXCEPT !.uid = store["nf"].uid]
    <2>1. v \in Identified /\ v.uid = store["nf"].uid /\ ~v.live
      BY <1>1, BlankTypes DEF Identified, NFRecord, NoNF
    <2>2. Commit("nf", v) /\ UNCHANGED loop /\ UNCHANGED moves
      BY <1>5 DEF DeleteNF, FinishDeletion, UserWrites, Writes, loop, budgets
    <2> QED
      BY <2>1, <2>2
  <1>6. CASE DeleteInForeground
    <2> DEFINE v == [store["nf"] EXCEPT !.deleting = TRUE, !.gen = @ + 1]
    <2>1. v \in Identified
      BY <1>1, MarkedType
    <2>2. v.uid = store["nf"].uid /\ v.deleting
      BY <1>1 DEF Identified, NFRecord
    <2> QED
      BY <2>1, <2>2, <1>6 DEF DeleteInForeground, UserWrites, Writes, loop
  <1> QED
    BY <1>2, <1>3, <1>4, <1>5, <1>6 DEF Users

LEMMA UsersKeepServices ==
  ASSUME SInv, Users \/ FinishDeletion
  PROVE  UidInv' /\ Untouched'
  <1>1. store["nf"] \in Identified /\ store["nf"].uid \in Nat /\ CInv
    BY UidTypes DEF SInv
  <1>2. PICK v \in Identified :
          /\ Commit("nf", v) /\ UNCHANGED loop /\ UNCHANGED moves
          /\ \/ v.uid = store["nf"].uid + 1
             \/ v.uid = store["nf"].uid /\ (v.live /\ ~v.deleting => Present)
    BY UsersWriteNF DEF SInv
  <1>3. store["nf"].uid <= v.uid /\ UNCHANGED nf /\ UNCHANGED cache
    BY <1>1, <1>2 DEF loop
  <1>4. UidInv'
    BY <1>2, <1>3, NFWriteKeepsUids DEF SInv
  <1>5. ASSUME moves = 0
        PROVE  /\ BackedInv'
               /\ \A k \in NetworkFunctions, y \in Objects : Placed(k, y) => Placed(k, y)'
    <2>1. store["nf"].uid < v.uid \/ (store["nf"].uid = v.uid /\ (v.live /\ ~v.deleting => Present))
      BY <1>1, <1>2
    <2> QED
      BY <1>2, <1>3, <1>5, <2>1, NFWriteKeepsBacked
  <1>6. Untouched'
    BY <1>2, <1>5, LoopKeepsPlaced DEF Untouched
  <1> QED
    BY <1>4, <1>6

\* The garbage collector leaves alone what the present NFDeployment owns; others
\* who touch an object are counted.
LEMMA OthersKeepServices ==
  ASSUME SInv, NEW x \in Objects, Others(x) \/ CollectGarbage(x)
  PROVE  UidInv' /\ Untouched'
  <1>1. UNCHANGED <<cache, nf>> /\ store'["nf"] = store["nf"] /\ watch'["nf"] = watch["nf"]
    <2>1. PICK v : Commit(x, v) /\ UNCHANGED <<cache, nf>>
      BY DEF Others, CollectGarbage, ReportHealth, Tamper, Remove, Occupy, Moves, Writes
    <2>2. x # "nf"
      BY NamesAre
    <2> QED
      BY <2>1, <2>2, NamesAre DEF Commit, SInv, CInv, IInv, ServerInv, ServerTypes
  <1>2. UidInv'
    BY <1>1 DEF SInv, UidInv
  <1>3. CASE Others(x)
    <2>1. moves' = moves + 1
      BY <1>3 DEF Others, ReportHealth, Tamper, Remove, Occupy, Moves
    <2>2. moves \in 0..MaxMoves /\ MaxMoves \in Nat
      BY ParametersAssumption DEF SInv, CInv, IInv, WorkerTypes
    <2>3. moves' # 0
      BY <2>1, <2>2
    <2> QED
      BY <1>2, <2>3 DEF Untouched
  <1>4. CASE CollectGarbage(x)
    <2>1. /\ Commit(x, Tombstone(x)) /\ Doomed(x) /\ UNCHANGED loop /\ UNCHANGED moves
          /\ UNCHANGED <<cache, nf>>
      BY <1>4 DEF CollectGarbage, Writes, loop, budgets
    <2>2. Tombstone(x) \in OwnedRecord /\ ~Tombstone(x).live
      BY TombstoneType DEF SInv, CInv
    <2>3. ~(Present /\ Mine(x))
      BY <2>1 DEF Doomed, Present, Mine
    <2>4. ASSUME moves = 0
          PROVE  /\ BackedInv'
                 /\ \A k \in NetworkFunctions, y \in Objects : Placed(k, y) => Placed(k, y)'
      BY <2>1, <2>2, <2>3, <2>4, OwnedWriteKeepsBacked
    <2>5. Untouched'
      BY <2>1, <2>4, LoopKeepsPlaced DEF Untouched
    <2> QED
      BY <1>2, <2>5
  <1> QED
    BY <1>3, <1>4

\* Delivery and restart bring no version that was not known.
LEMMA DeliverBringsNone ==
  ASSUME CInv, NEW y \in Names, Deliver(y), NEW x \in Objects
  PROVE  Versions(x)' \subseteq Versions(x)
  <1>1. /\ watch[y] \in Seq(Version(y)) /\ watch[y] # <<>>
        /\ cache'[y] = Head(watch[y]) /\ watch'[y] = Tail(watch[y])
        /\ \A z \in Names \ {y} : cache'[z] = cache[z] /\ watch'[z] = watch[z]
        /\ UNCHANGED store
    BY DEF Deliver, CInv, IInv, ServerInv, ServerTypes
  <1>2. /\ Len(watch'[y]) = Len(watch[y]) - 1 /\ Len(watch[y]) \in Nat
        /\ 1 \in 1..Len(watch[y]) /\ Head(watch[y]) = watch[y][1]
        /\ \A i \in 1..Len(watch'[y]) : watch'[y][i] = watch[y][i + 1]
    BY <1>1, HeadTailProperties, EmptySeq, LenProperties
  <1>3. \A i \in 1..Len(watch'[y]) : i + 1 \in 1..Len(watch[y])
    BY <1>2
  <1>4. CASE x = y
    BY <1>4, <1>1, <1>2, <1>3 DEF Versions
  <1>5. CASE x # y
    BY <1>5, <1>1, NamesAre DEF Versions
  <1> QED
    BY <1>4, <1>5

LEMMA RestartBringsNone ==
  ASSUME Restart, NEW x \in Objects
  PROVE  Versions(x)' \subseteq Versions(x)
  <1>1. PICK fresh \in {Names, {}} :
          /\ cache' = [z \in Names |-> IF z \in fresh THEN store[z] ELSE cache[z]]
          /\ watch' = [z \in Names |-> IF z \in fresh THEN <<>> ELSE watch[z]]
    BY DEF Restart
  <1>2. UNCHANGED store /\ 1..Len(<<>>) = {}
    BY DEF Restart
  <1>3. CASE x \in fresh
    BY <1>1, <1>2, <1>3, NamesAre DEF Versions
  <1>4. CASE x \notin fresh
    BY <1>1, <1>2, <1>4, NamesAre DEF Versions
  <1> QED
    BY <1>3, <1>4

\* The informers: what was on its way is now in the cache.
LEMMA DeliverKeepsServices ==
  ASSUME SInv, NEW y \in Names, Deliver(y)
  PROVE  UidInv' /\ Untouched'
  <1>1. /\ watch[y] \in Seq(Version(y)) /\ watch[y] # <<>>
        /\ cache'[y] = Head(watch[y]) /\ watch'[y] = Tail(watch[y])
        /\ \A x \in Names \ {y} : cache'[x] = cache[x] /\ watch'[x] = watch[x]
        /\ queued' = (queued \/ Enqueues(y, cache[y], Head(watch[y])))
        /\ UNCHANGED <<store, delayed, pc, kind, nf, changed, moves>>
    BY DEF Deliver, SInv, CInv, IInv, ServerInv, ServerTypes, budgets
  <1>2. /\ Len(watch'[y]) = Len(watch[y]) - 1 /\ Len(watch[y]) \in Nat
        /\ 1 \in 1..Len(watch[y]) /\ Head(watch[y]) = watch[y][1]
        /\ \A i \in 1..Len(watch'[y]) : watch'[y][i] = watch[y][i + 1]
    BY <1>1, HeadTailProperties, EmptySeq, LenProperties
  <1>3. \A i \in 1..Len(watch'[y]) : i + 1 \in 1..Len(watch[y])
    BY <1>2
  <1>4. cache["nf"].uid <= cache'["nf"].uid /\ cache'["nf"].uid \in Nat
    <2>1. cache["nf"].uid \in Nat
      BY UidTypes DEF SInv
    <2>2. CASE y = "nf"
      <3>1. watch["nf"][1].uid \in Nat /\ cache["nf"].uid <= watch["nf"][1].uid
        BY <2>2, <1>2, UidTypes DEF SInv, UidInv
      <3> QED
        BY <3>1, <2>2, <1>1, <1>2
    <2>3. CASE y # "nf"
      <3>1. cache'["nf"] = cache["nf"]
        BY <2>3, <1>1, NamesAre
      <3> QED
        BY <3>1, <2>1
    <2> QED
      BY <2>2, <2>3
  <1>5. UidInv'
    <2>1. CASE y # "nf"
      BY <1>1, <2>1, NamesAre DEF SInv, UidInv
    <2>2. CASE y = "nf"
      <3>1. cache'["nf"].uid <= store'["nf"].uid
        BY <1>1, <1>2, <2>2 DEF SInv, UidInv
      <3>2. nf'.live => nf'.uid <= cache'["nf"].uid
        BY <1>1, <1>4, UidTypes DEF SInv, UidInv
      <3>3. ASSUME NEW i \in 1..Len(watch'["nf"])
            PROVE  /\ cache'["nf"].uid <= watch'["nf"][i].uid
                   /\ watch'["nf"][i].uid <= store'["nf"].uid
                   /\ \A j \in 1..Len(watch'["nf"]) :
                        i <= j => watch'["nf"][i].uid <= watch'["nf"][j].uid
        <4>1. i + 1 \in 1..Len(watch["nf"]) /\ 1 <= i + 1
          BY <1>3, <2>2
        <4>2. \A j \in 1..Len(watch'["nf"]) :
                /\ j + 1 \in 1..Len(watch["nf"]) /\ (i <= j => i + 1 <= j + 1)
                /\ watch'["nf"][j] = watch["nf"][j + 1]
          BY <1>2, <1>3, <2>2
        <4>3. /\ watch["nf"][1].uid <= watch["nf"][i + 1].uid
              /\ watch["nf"][i + 1].uid <= store["nf"].uid
          BY <4>1, <1>2, <2>2 DEF SInv, UidInv
        <4>4. ASSUME NEW j \in 1..Len(watch'["nf"]), i <= j
              PROVE  watch["nf"][i + 1].uid <= watch["nf"][j + 1].uid
          BY <4>1, <4>2, <4>4 DEF SInv, UidInv
        <4> QED
          BY <4>2, <4>3, <4>4, <1>1, <1>2, <2>2
      <3> QED
        BY <3>1, <3>2, <3>3 DEF UidInv
    <2> QED
      BY <2>1, <2>2
  <1>6. \A x \in Objects : Versions(x)' \subseteq Versions(x)
    BY DeliverBringsNone DEF SInv
  <1>7. ASSUME moves = 0
        PROVE  BackedInv'
    <2> SUFFICES ASSUME NEW x \in Objects, NEW v \in Versions(x)' PROVE Backed(x, v)'
      BY DEF BackedInv
    <2>1. Backed(x, v) /\ v \in OwnedRecord
      BY <1>6, <1>7, VersionTypes DEF SInv, Untouched, BackedInv
    <2>2. v.live /\ ByNF(v.owner) => v.owner \in Nat
      BY <2>1 DEF OwnedRecord, ByNF
    <2>3. cache["nf"].uid \in Nat
      BY UidTypes DEF SInv
    <2> QED
      BY <2>1, <2>2, <2>3, <1>1, <1>4 DEF Backed, ByNF, Present, Mine
  <1>8. ASSUME moves = 0
        PROVE  PlacedInv'
    <2>1. CASE y = "nf"
      BY <2>1, <1>1 DEF PlacedInv, Enqueues
    <2>2. CASE y # "nf"
      <3>1. cache'["nf"] = cache["nf"]
        BY <2>2, <1>1, NamesAre
      <3>2. \A k \in NetworkFunctions, x \in Objects : Placed(k, x) => Placed(k, x)'
        BY <3>1, <1>1 DEF Placed, Present, Mine
      <3>3. Behind' = Behind /\ kind \in NetworkFunctions
            /\ \A k \in NetworkFunctions : KeptFor(k) \subseteq Objects
        BY <1>1 DEF Behind, SInv, CInv, IInv, WorkerTypes, NetworkFunctions, KeptFor, Objects
      <3> QED
        BY <3>1, <3>2, <3>3, <1>1, <1>8 DEF SInv, Untouched, PlacedInv
    <2> QED
      BY <2>1, <2>2
  <1> QED
    BY <1>1, <1>5, <1>7, <1>8 DEF Untouched

\* A step of the operator that writes nothing leaves what is backed and placed.
LEMMA NoWriteKeepsServices ==
  ASSUME SInv, UNCHANGED <<store, cache, watch>>,
         \/ UNCHANGED nf
         \/ ~nf'.live
         \/ nf' = cache["nf"]
  PROVE  /\ UidInv'
         /\ moves = 0 => BackedInv'
         /\ \A k \in NetworkFunctions, y \in Objects : Placed(k, y) => Placed(k, y)'
  <1>1. cache["nf"].uid \in Nat
    BY UidTypes DEF SInv
  <1>2. UidInv'
    BY <1>1 DEF SInv, UidInv
  <1>3. ASSUME moves = 0, NEW x \in Objects, NEW v \in Versions(x)
        PROVE  Backed(x, v)'
    BY <1>3 DEF SInv, Untouched, BackedInv, Backed, ByNF, Present, Mine
  <1>4. \A x \in Objects : Versions(x)' = Versions(x)
    BY DEF Versions
  <1> QED
    BY <1>2, <1>3, <1>4 DEF BackedInv, Placed, Present, Mine

\* The delays of the queue.
LEMMA TimerKeepsServices ==
  ASSUME SInv, Timer
  PROVE  UidInv' /\ Untouched'
  <1>1. UNCHANGED <<store, cache, watch, nf, moves>> /\ queued'
    BY DEF Timer, serverVars, budgets
  <1> QED
    BY <1>1, NoWriteKeepsServices DEF Untouched, PlacedInv

\* A new process.
LEMMA RestartKeepsServices ==
  ASSUME SInv, Restart
  PROVE  UidInv' /\ Untouched'
  <1>1. PICK fresh \in {Names, {}} :
          /\ cache' = [x \in Names |-> IF x \in fresh THEN store[x] ELSE cache[x]]
          /\ watch' = [x \in Names |-> IF x \in fresh THEN <<>> ELSE watch[x]]
    BY DEF Restart
  <1>2. UNCHANGED <<store, moves>> /\ pc' = "idle" /\ ~nf'.live
    BY DEF Restart, NoNF
  <1>3. 1..Len(<<>>) = {}
    OBVIOUS
  <1>4. /\ cache["nf"].uid \in Nat /\ cache'["nf"].uid \in Nat
        /\ cache["nf"].uid <= cache'["nf"].uid
        /\ cache'["nf"].uid <= store["nf"].uid
    BY <1>1, UidTypes, NamesAre DEF SInv, UidInv
  <1>5. UidInv'
    <2>1. CASE fresh = Names
      BY <1>1, <1>2, <1>3, <1>4, <2>1, NamesAre DEF UidInv
    <2>2. CASE fresh = {}
      <3>1. watch'["nf"] = watch["nf"] /\ cache'["nf"] = cache["nf"]
        BY <1>1, <2>2, NamesAre
      <3> QED
        BY <3>1, <1>2 DEF SInv, UidInv
    <2> QED
      BY <2>1, <2>2
  <1>6. \A x \in Objects : Versions(x)' \subseteq Versions(x)
    BY RestartBringsNone
  <1>7. ASSUME moves = 0
        PROVE  BackedInv'
    <2> SUFFICES ASSUME NEW x \in Objects, NEW v \in Versions(x)' PROVE Backed(x, v)'
      BY DEF BackedInv
    <2>1. Backed(x, v) /\ v \in OwnedRecord
      BY <1>6, <1>7, VersionTypes DEF SInv, Untouched, BackedInv
    <2>2. v.live /\ ByNF(v.owner) => v.owner \in Nat
      BY <2>1 DEF OwnedRecord, ByNF
    <2> QED
      BY <2>1, <2>2, <1>2, <1>4 DEF Backed, ByNF, Present, Mine
  <1>8. ~queued' => ~cache'["nf"].live
    <2>1. queued' = Lists(cache')
      BY DEF Restart
    <2>2. "nf" \in Names /\ Enqueues("nf", Nothing["nf"], cache'["nf"])
      BY NamesAre DEF Enqueues
    <2> QED
      BY <2>1, <2>2 DEF Lists
  <1> QED
    BY <1>2, <1>5, <1>7, <1>8 DEF Untouched, PlacedInv

-----------------------------------------------------------------------------
(* The worker.                                                             *)

\* The main Reconcile.
LEMMA BeginKeepsServices ==
  ASSUME SInv, Begin
  PROVE  UidInv' /\ Untouched'
  <1>1. UNCHANGED <<store, cache, watch, nf, moves>> /\ pc = "idle"
    BY DEF Begin, serverVars, budgets
  <1>2. \/ pc' = "fetch"
        \/ pc' = "idle" /\ (~cache["nf"].live \/ Route(Name, cache["nf"].provider) = "none")
    BY <1>1 DEF Begin
  <1>3. "none" \notin NetworkFunctions
    BY DEF NetworkFunctions
  <1>4. PlacedInv'
    BY <1>1, <1>2, <1>3 DEF PlacedInv
  <1> QED
    BY <1>1, <1>4, NoWriteKeepsServices DEF Untouched

\* A reconciler's own read.
LEMMA FetchKeepsServices ==
  ASSUME SInv, NEW k \in NetworkFunctions, NEW first \in ConfigMaps, Fetch(k, first)
  PROVE  UidInv' /\ Untouched'
  <1>1. UNCHANGED <<store, cache, watch, queued, kind, moves>> /\ pc = "fetch" /\ kind = k
    BY DEF Fetch, serverVars, budgets
  <1>2. ~nf'.live \/ nf' = cache["nf"]
    BY DEF Fetch, Return, NoNF
  <1>3. PlacedInv'
    <2> SUFFICES ASSUME ~queued', ~delayed'
                 PROVE  /\ pc' \notin {"idle", "fetch"}
                        /\ KeptFor(kind') \cap Behind' = {}
      BY DEF PlacedInv
    <2>1. ~queued /\ ~delayed
      BY <1>1 DEF Fetch, Return, SInv, CInv, IInv, WorkerTypes
    <2>2. cache["nf"].live /\ Route(Name, cache["nf"].provider) = k
      BY <1>1, <2>1 DEF SInv, CInv, NothingMissed, FetchInv
    <2>3. Accepts(k, cache["nf"].provider)
      BY <2>2 DEF Accepts, Route, NetworkFunctions
    <2>4. pc' = first
      BY <2>2, <2>3 DEF Fetch
    <2> QED
      BY <2>4 DEF Behind, ConfigMaps, Deployments, NetworkFunctions
  <1> QED
    BY <1>1, <1>2, <1>3, NoWriteKeepsServices DEF Untouched

\* After each object one more is behind a Reconcile, in its order.
LEMMA BehindOneMore ==
  ASSUME NEW k \in NetworkFunctions, NEW x \in Objects, NEW next \in Objects \cup {"status"},
         pc = x, pc' = next, Follows(k, x, next)
  PROVE  KeptFor(k) \cap Behind' \subseteq (KeptFor(k) \cap Behind) \cup {x}
  BY DEF Follows, Behind, ConfigMaps, Deployments, Watched, NetworkFunctions, KeptFor,
         AMFObjects, SMFObjects, UPFObjects, Objects

\* A Reconcile that goes on has placed the object it leaves.
LEMMA GoingOnKeepsPlaced ==
  ASSUME SInv, moves = 0, NEW k \in NetworkFunctions, NEW x \in Objects,
         NEW next \in Objects \cup {"status"}, Follows(k, x, next),
         pc = x, kind = k, pc' = next, UNCHANGED <<cache, queued, delayed, kind>>,
         \A y \in Objects : Placed(k, y) => Placed(k, y)',
         ~queued /\ ~delayed => Placed(k, x)'
  PROVE  PlacedInv'
  <1>1. /\ pc \notin {"idle", "fetch"} /\ pc' \notin {"idle", "fetch"}
        /\ KeptFor(k) \subseteq Objects
    BY DEF Objects, AMFObjects, SMFObjects, UPFObjects, KeptFor, NetworkFunctions
  <1>2. PlacedInv
    BY DEF SInv, Untouched
  <1>3. KeptFor(k) \cap Behind' \subseteq (KeptFor(k) \cap Behind) \cup {x}
    BY BehindOneMore
  <1> QED
    BY <1>1, <1>2, <1>3 DEF PlacedInv

\* One that has come to its end has placed them all.
LEMMA ReturningKeepsPlaced ==
  ASSUME SInv, moves = 0, NEW k \in NetworkFunctions, pc = "status", kind = k,
         NEW again \in BOOLEAN, Return(again), UNCHANGED <<cache, queued, kind>>,
         \A y \in Objects : Placed(k, y) => Placed(k, y)'
  PROVE  PlacedInv'
  <1> SUFFICES ASSUME ~queued', ~delayed' PROVE PlacedInv'
    BY DEF PlacedInv
  <1>1. ~queued /\ ~delayed /\ pc' = "idle"
    BY DEF Return, SInv, CInv, IInv, WorkerTypes
  <1>2. Behind = Objects /\ KeptFor(k) \subseteq Objects
    BY DEF Behind, ConfigMaps, Deployments, NetworkFunctions, KeptFor, Objects
  <1>3. \A x \in KeptFor(k) : Placed(k, x)'
    BY <1>1, <1>2 DEF SInv, Untouched, PlacedInv
  <1>4. Route(Name, cache["nf"].provider) = k
    BY <1>1 DEF SInv, CInv, NothingMissed, WorkInv
  <1> QED
    BY <1>1, <1>3, <1>4 DEF PlacedInv

\* A Reconcile that gives up will be called again.
LEMMA GivingUpKeepsServices ==
  ASSUME SInv, Return(TRUE), UNCHANGED <<serverVars, cache, queued, kind, budgets>>
  PROVE  UidInv' /\ Untouched'
  <1>1. UNCHANGED <<store, cache, watch, moves>> /\ ~nf'.live /\ delayed'
    BY DEF Return, NoNF, serverVars, budgets
  <1> QED
    BY <1>1, NoWriteKeepsServices DEF Untouched, PlacedInv

\* What is written is the NFDeployment's of the Reconcile or an earlier one's, and
\* the present one's wherever that has the object already or ought to have it.
Rightful(k, x, v) ==
  /\ v.live /\ ByNF(v.owner) /\ v.owner <= nf.uid
  /\ \/ Present /\ Mine(x)
     \/ nf.uid = store["nf"].uid /\ (k # "upf" => store["nf"].uid = 1)
     => v.owner = store["nf"].uid

\* A call that writes no more than that keeps what is backed and placed.
LEMMA CallKeepsServices ==
  ASSUME SInv, NEW k \in NetworkFunctions, NEW x \in Objects,
         NEW next \in Objects \cup {"status"}, Follows(k, x, next), pc = x, kind = k,
         NEW v \in OwnedRecord, NEW valid \in BOOLEAN, Call(x, v, valid, next),
         valid /\ moves = 0 => Rightful(k, x, v)
  PROVE  UidInv' /\ Untouched'
  <1>1. UNCHANGED <<cache, queued, kind, moves>>
    BY DEF Call
  <1>2. nf.live /\ pc \notin {"idle", "fetch"}
    BY DEF SInv, CInv, IInv, CopyInv, Objects, AMFObjects, SMFObjects, UPFObjects
  <1>3. UNCHANGED nf \/ ~nf'.live
    BY DEF Call, Return, NoNF
  <1>4. UNCHANGED <<store, watch>> \/ (valid /\ Commit(x, v))
    BY DEF Call, Put, serverVars
  <1>5. /\ UidInv'
        /\ moves = 0 =>
             /\ BackedInv'
             /\ \A j \in NetworkFunctions, y \in Objects : Placed(j, y) => Placed(j, y)'
    <2>1. CASE UNCHANGED <<store, watch>>
      BY <1>1, <1>3, <2>1, NoWriteKeepsServices
    <2>2. CASE valid /\ Commit(x, v)
      <3>1. store'["nf"] = store["nf"] /\ watch'["nf"] = watch["nf"]
        BY <1>1, <2>2, CommitAddsVersion DEF SInv
      <3>2. UidInv'
        BY <1>1, <1>3, <3>1 DEF SInv, UidInv
      <3>3. ASSUME moves = 0
            PROVE  /\ BackedInv'
                   /\ \A j \in NetworkFunctions, y \in Objects : Placed(j, y) => Placed(j, y)'
        BY <1>1, <1>2, <1>3, <2>2, <3>3, OwnedWriteKeepsBacked DEF Rightful
      <3> QED
        BY <3>2, <3>3
    <2> QED
      BY <1>4, <2>1, <2>2
  <1>6. ASSUME moves = 0
        PROVE  PlacedInv'
    <2>1. CASE Return(TRUE)
      BY <2>1 DEF Return, PlacedInv
    <2>2. CASE valid /\ Put(x, v) /\ pc' = next /\ UNCHANGED <<delayed, nf>>
      <3>1. store'[x] = v /\ store'["nf"] = store["nf"]
        <4>1. CASE v = store[x]
          BY <2>2, <4>1 DEF Put, serverVars
        <4>2. CASE v # store[x]
          BY <1>1, <2>2, <4>2, CommitAddsVersion DEF Put, SInv
        <4> QED
          BY <4>1, <4>2
      <3>2. ~queued /\ ~delayed => nf = cache["nf"]
        BY <1>2 DEF SInv, CInv, NothingMissed, WorkInv
      <3>3. ~queued /\ ~delayed => Placed(k, x)'
        BY <1>1, <1>6, <2>2, <3>1, <3>2 DEF Rightful, Placed, Present, Mine
      <3> QED
        BY <1>1, <1>5, <1>6, <2>2, <3>3, GoingOnKeepsPlaced
    <2> QED
      BY <2>1, <2>2 DEF Call
  <1> QED
    BY <1>1, <1>5, <1>6 DEF Untouched

\* Going on without a call keeps them if the object that was found is placed.
LEMMA SkipKeepsServices ==
  ASSUME SInv, NEW k \in NetworkFunctions, NEW x \in Objects,
         NEW next \in Objects \cup {"status"}, Follows(k, x, next), pc = x, kind = k,
         Skip(next),
         moves = 0 /\ nf = cache["nf"] => Placed(k, x)
  PROVE  UidInv' /\ Untouched'
  <1>1. /\ UNCHANGED <<store, cache, watch, nf, moves, queued, delayed, kind>>
        /\ pc' = next
    BY DEF Skip, serverVars, budgets
  <1>2. /\ UidInv'
        /\ moves = 0 => BackedInv'
        /\ \A j \in NetworkFunctions, y \in Objects : Placed(j, y) => Placed(j, y)'
    BY <1>1, NoWriteKeepsServices
  <1>3. pc \notin {"idle", "fetch"}
    BY DEF Objects, AMFObjects, SMFObjects, UPFObjects
  <1>4. ~queued /\ ~delayed => nf = cache["nf"]
    BY <1>3 DEF SInv, CInv, NothingMissed, WorkInv
  <1>5. moves = 0 => PlacedInv'
    BY <1>1, <1>2, <1>4, GoingOnKeepsPlaced
  <1> QED
    BY <1>1, <1>2, <1>5 DEF Untouched

\* What the cached version says of its owner.
LEMMA CachedIsBacked ==
  ASSUME SInv, moves = 0, NEW x \in Objects, pc = x, cache[x].live
  PROVE  /\ ByNF(cache[x].owner) /\ cache[x].owner \in Nat /\ cache[x].owner # 0
         /\ cache[x].owner <= nf.uid /\ nf.uid <= cache["nf"].uid
         /\ cache["nf"].uid <= store["nf"].uid
         /\ nf.uid \in Nat /\ cache["nf"].uid \in Nat /\ store["nf"].uid \in Nat
         /\ Present /\ cache[x].owner = store["nf"].uid => Mine(x)
  <1>1. nf.live
    BY DEF SInv, CInv, IInv, CopyInv, Objects, AMFObjects, SMFObjects, UPFObjects
  <1>2. cache[x] \in Versions(x) /\ cache[x] \in OwnedRecord
    BY ServedTypes DEF Versions, SInv
  <1>3. Backed(x, cache[x])
    BY <1>2 DEF SInv, Untouched, BackedInv
  <1>4. cache[x].owner \in Nat /\ cache[x].owner # 0 /\ ByNF(cache[x].owner)
    BY <1>2, <1>3 DEF Backed, ByNF, OwnedRecord
  <1> QED
    BY <1>1, <1>3, <1>4, UidTypes DEF Backed, SInv, UidInv

\* The AMF's and the SMF's steps for an object.
LEMMA ReconcileObjectKeepsServices ==
  ASSUME SInv, NEW k \in SDCoreKinds, NEW x \in Objects,
         NEW next \in Objects \cup {"status"}, Follows(k, x, next),
         ReconcileObject(k, x, next)
  PROVE  UidInv' /\ Untouched'
  <1>1. /\ pc = x /\ kind = k /\ k \in NetworkFunctions /\ k # "upf"
        /\ cache[x] \in OwnedRecord /\ IInv /\ ByNF(nf.uid) /\ nf.uid \in Nat
    BY ServedTypes, CopyHasUid, UidTypes
    DEF ReconcileObject, SDCoreKinds, NetworkFunctions, SInv, CInv
  <1>2. CASE cache[x].live /\ Skip(next)
    <2>1. moves = 0 => Placed(k, x)
      BY <1>1, <1>2, CachedIsBacked DEF Placed
    <2> QED
      BY <1>1, <1>2, <2>1, SkipKeepsServices
  <1>3. CASE CreateObject(x, Wanted(x), next)
    <2>1. Call(x, Wanted(x), ~store[x].live, next)
      BY <1>3 DEF CreateObject
    <2>2. Wanted(x) \in OwnedRecord /\ Wanted(x).owner = nf.uid
      BY <1>1, SDCoreWriteTypes
    <2>3. Wanted(x).live
      BY DEF Wanted, NoObject
    <2> DEFINE free == ~store[x].live
    <2>4. free \in BOOLEAN /\ (free => ~Mine(x))
      BY DEF Mine
    <2>5. Call(x, Wanted(x), free, next)
      BY <2>1
    <2> HIDE DEF free
    <2>6. free /\ moves = 0 => Rightful(k, x, Wanted(x))
      BY <1>1, <2>2, <2>3, <2>4 DEF Rightful
    <2> QED
      BY <1>1, <2>2, <2>4, <2>5, <2>6, CallKeepsServices
  <1>4. CASE cache[x].live /\ UpdateObject(x, Updated(x, cache[x]), next)
    <2>1. Call(x, Updated(x, cache[x]), watch[x] = <<>>, next)
      BY <1>4 DEF UpdateObject
    <2> DEFINE v == Updated(x, cache[x])
    <2>2. v \in OwnedRecord /\ v.live = cache[x].live /\ v.owner = cache[x].owner
      BY <1>1, SDCoreWriteTypes
    <2>3. watch[x] = <<>> => cache[x] = store[x]
      BY ServedTypes DEF SInv
    <2>4. ASSUME watch[x] = <<>>, moves = 0
          PROVE  Rightful(k, x, v)
      <3>1. cache[x] = store[x]
        BY <2>3, <2>4
      <3>2. Mine(x) => v.owner = store["nf"].uid
        BY <3>1, <2>2 DEF Mine
      <3> HIDE DEF v
      <3> QED
        BY <1>1, <1>4, <2>2, <2>4, <3>2, CachedIsBacked DEF Rightful
    <2> DEFINE fresh == watch[x] = <<>>
    <2>5. Call(x, v, fresh, next) /\ fresh \in BOOLEAN /\ (fresh /\ moves = 0 => Rightful(k, x, v))
      BY <2>1, <2>4 DEF v
    <2> HIDE DEF v, fresh
    <2> QED
      BY <1>1, <2>2, <2>5, CallKeepsServices
  <1> QED
    BY <1>2, <1>3, <1>4 DEF ReconcileObject

\* The UPF's: an object found in place is taken over, unless it is the present
\* NFDeployment's already.
LEMMA CreateOrUpdateKeepsServices ==
  ASSUME SInv, NEW x \in Objects, NEW next \in Objects \cup {"status"},
         Follows("upf", x, next), CreateOrUpdate(x, next)
  PROVE  UidInv' /\ Untouched'
  <1>1. /\ pc = x /\ kind = "upf" /\ "upf" \in NetworkFunctions
        /\ cache[x] \in OwnedRecord /\ IInv /\ ByNF(nf.uid) /\ nf.uid \in Nat
    BY ServedTypes, CopyHasUid, UidTypes DEF CreateOrUpdate, NetworkFunctions, SInv, CInv
  <1>2. CASE Return(TRUE) /\ UNCHANGED <<serverVars, cache, queued, kind, budgets>>
    BY <1>2, GivingUpKeepsServices
  <1>3. /\ Mutated(x, cache[x]) \in OwnedRecord /\ Mutated(x, cache[x]).live
        /\ Mutated(x, cache[x]).owner = nf.uid
    <2>1. Mutated(x, cache[x]) \in OwnedRecord /\ Mutated(x, cache[x]).owner = nf.uid
      BY <1>1, MutatedType
    <2>2. PICK w \in OwnedRecord : w = Rewritten(x, cache[x], "fixed")
      BY <1>1, RewrittenType DEF Data
    <2>3. Mutated(x, cache[x]).live
      BY <2>2 DEF Mutated, Configured, OwnedRecord
    <2> QED
      BY <2>1, <2>3
  <1>4. CASE cache[x].live /\ Mutated(x, cache[x]) = cache[x] /\ Skip(next)
    <2>1. moves = 0 /\ nf = cache["nf"] => Placed("upf", x)
      BY <1>1, <1>3, <1>4, CachedIsBacked DEF Placed
    <2> QED
      BY <1>1, <1>4, <2>1, SkipKeepsServices
  <1>5. CASE CreateObject(x, [Mutated(x, NoObject) EXCEPT !.gen = 1], next)
    <2> DEFINE v == [Mutated(x, NoObject) EXCEPT !.gen = 1]
    <2>1. v \in OwnedRecord /\ v.owner = nf.uid /\ Mutated(x, NoObject) \in OwnedRecord
      BY <1>1, MutatedType, BlankTypes
    <2>2. Mutated(x, NoObject).live
      BY DEF Mutated, Configured, Rewritten, NoObject
    <2>3. v.live
      BY <2>1, <2>2 DEF OwnedRecord
    <2> DEFINE free == ~store[x].live
    <2>4. Call(x, v, free, next) /\ free \in BOOLEAN /\ (free => ~Mine(x))
      BY <1>5 DEF CreateObject, Mine
    <2> HIDE DEF v, free
    <2>5. free /\ moves = 0 => Rightful("upf", x, v)
      BY <1>1, <2>1, <2>3, <2>4 DEF Rightful
    <2> QED
      BY <1>1, <2>1, <2>4, <2>5, CallKeepsServices
  <1>6. CASE cache[x].live /\ UpdateObject(x, Mutated(x, cache[x]), next)
    <2>1. Call(x, Mutated(x, cache[x]), watch[x] = <<>>, next)
      BY <1>6 DEF UpdateObject
    <2>2. watch[x] = <<>> => cache[x] = store[x]
      BY ServedTypes DEF SInv
    <2>3. ASSUME watch[x] = <<>>, moves = 0, Mine(x)
          PROVE  nf.uid = store["nf"].uid
      <3>1. cache[x].owner = store["nf"].uid
        BY <2>2, <2>3 DEF Mine
      <3> QED
        BY <3>1, <1>1, <1>6, <2>3, CachedIsBacked
    <2> DEFINE v == Mutated(x, cache[x])
               fresh == watch[x] = <<>>
    <2>4. /\ Call(x, v, fresh, next) /\ fresh \in BOOLEAN
          /\ v \in OwnedRecord /\ v.live /\ v.owner = nf.uid
      BY <2>1, <1>3
    <2>5. fresh /\ moves = 0 /\ Mine(x) => nf.uid = store["nf"].uid
      BY <2>3
    <2> HIDE DEF v, fresh
    <2>6. fresh /\ moves = 0 => Rightful("upf", x, v)
      BY <1>1, <2>4, <2>5 DEF Rightful
    <2> QED
      BY <1>1, <2>4, <2>6, CallKeepsServices
  <1> QED
    BY <1>2, <1>4, <1>5, <1>6 DEF CreateOrUpdate

\* The write of a status neither replaces the NFDeployment nor brings it back.
LEMMA StatusUpdateKeepsServices ==
  ASSUME SInv, NEW k \in NetworkFunctions, pc = "status", kind = k,
         NEW s \in [obs: Nat, available: Conds, ready: Conds],
         NEW restamped \in BOOLEAN, NEW again \in BOOLEAN,
         UpdateStatusOfNF(s, restamped, again)
  PROVE  UidInv' /\ Untouched'
  <1>1. store["nf"] \in Identified /\ WithStatus(s) \in Identified /\ CInv
    <2>1. store["nf"] \in Identified
      BY UidTypes DEF SInv
    <2> QED
      BY <2>1, StatusedType DEF SInv
  <1>2. /\ WithStatus(s).uid = store["nf"].uid
        /\ WithStatus(s).live = store["nf"].live
        /\ WithStatus(s).deleting = store["nf"].deleting
    BY <1>1 DEF WithStatus, Identified, NFRecord
  <1>3. /\ UNCHANGED <<cache, queued, kind, moves>> /\ ~nf'.live
        /\ Return(TRUE) \/ Return(again)
        /\ UNCHANGED <<store, watch>> \/ Commit("nf", WithStatus(s))
    BY DEF UpdateStatusOfNF, Put, Return, NoNF, serverVars
  <1>4. /\ UidInv'
        /\ moves = 0 =>
             /\ BackedInv'
             /\ \A j \in NetworkFunctions, y \in Objects : Placed(j, y) => Placed(j, y)'
    <2>1. CASE UNCHANGED <<store, watch>>
      BY <1>3, <2>1, NoWriteKeepsServices
    <2>2. CASE Commit("nf", WithStatus(s))
      <3>1. store["nf"].uid <= WithStatus(s).uid
        BY <1>1, <1>2, UidTypes
      <3>2. UidInv'
        BY <1>1, <1>3, <2>2, <3>1, NFWriteKeepsUids DEF SInv
      <3>3. WithStatus(s).live /\ ~WithStatus(s).deleting => Present
        BY <1>2 DEF Present
      <3>4. ASSUME moves = 0
            PROVE  /\ BackedInv'
                   /\ \A j \in NetworkFunctions, y \in Objects : Placed(j, y) => Placed(j, y)'
        BY <1>1, <1>2, <1>3, <2>2, <3>3, <3>4, NFWriteKeepsBacked
      <3> QED
        BY <3>2, <3>4
    <2> QED
      BY <1>3, <2>1, <2>2
  <1>5. ASSUME moves = 0
        PROVE  PlacedInv'
    <2>1. CASE Return(TRUE)
      BY <2>1 DEF Return, PlacedInv
    <2>2. CASE Return(again)
      BY <1>3, <1>4, <1>5, <2>2, ReturningKeepsPlaced
    <2> QED
      BY <1>3, <2>1, <2>2
  <1> QED
    BY <1>3, <1>4, <1>5 DEF Untouched

\* The last steps of the three.
LEMMA UpdateStatusKeepsServices ==
  ASSUME SInv, NEW k \in SDCoreKinds, UpdateStatus(k)
  PROVE  UidInv' /\ Untouched'
  <1>1. CASE DeploymentMissing(k)
    BY <1>1, GivingUpKeepsServices DEF DeploymentMissing
  <1>2. ASSUME NEW restamped \in BOOLEAN,
               UpdateStatusOfNF(SDCoreStatus(cache[k]), restamped, changed)
        PROVE  UidInv' /\ Untouched'
    <2>1. /\ SDCoreStatus(cache[k]) \in [obs: Nat, available: Conds, ready: Conds]
          /\ pc = "status" /\ kind = k /\ changed \in BOOLEAN
      BY DEF SInv, CInv, IInv, WorkerTypes, Identified, NFRecord, SDCoreStatus, Conds,
             UpdateStatus
    <2>2. k \in NetworkFunctions
      BY DEF SDCoreKinds, NetworkFunctions
    <2> QED
      BY <1>2, <2>1, <2>2, StatusUpdateKeepsServices
  <1> QED
    BY <1>1, <1>2 DEF UpdateStatus

LEMMA UpdateUPFStatusKeepsServices ==
  ASSUME SInv, UpdateUPFStatus
  PROVE  UidInv' /\ Untouched'
  <1>1. /\ cache["upf"] \in OwnedRecord /\ kind = "upf" /\ pc = "status"
        /\ "upf" \in NetworkFunctions
    BY ServedTypes DEF SInv, UpdateUPFStatus, Objects, UPFObjects, NetworkFunctions
  <1>2. CASE Return(TRUE) /\ UNCHANGED <<serverVars, cache, queued, kind, budgets>>
    BY <1>2, GivingUpKeepsServices
  <1>3. CASE UpdateStatusOfNF(UPFStatus(cache["upf"]), TRUE, FALSE)
    <2>1. UPFStatus(cache["upf"]) \in [obs: Nat, available: Conds, ready: Conds]
      BY <1>1 DEF UPFStatus, OwnedRecord, Conds
    <2> QED
      BY <1>1, <1>3, <2>1, StatusUpdateKeepsServices
  <1>4. CASE Return(FALSE) /\ UNCHANGED <<serverVars, cache, queued, kind, budgets>>
    <2>1. UNCHANGED <<store, cache, watch, queued, kind, moves>> /\ ~nf'.live
      BY <1>4 DEF serverVars, budgets, Return, NoNF
    <2> QED
      BY <1>1, <1>4, <2>1, NoWriteKeepsServices, ReturningKeepsPlaced DEF Untouched
  <1> QED
    BY <1>2, <1>3, <1>4 DEF UpdateUPFStatus

-----------------------------------------------------------------------------
(* The theorems.                                                           *)

\* An empty cluster.
LEMMA InitHasServices == Init => SInv
  <1> SUFFICES ASSUME Init PROVE SInv
    OBVIOUS
  <1>1. /\ cache["nf"] = NoNF /\ store["nf"] = NoNF /\ nf = NoNF
        /\ watch["nf"] = <<>> /\ pc = "idle"
        /\ \A x \in Objects : /\ cache[x] = NoObject /\ store[x] = NoObject
                              /\ watch[x] = <<>>
    BY NamesAre DEF Init, Nothing
  <1>2. 1..Len(<<>>) = {}
    OBVIOUS
  <1>3. UidInv
    BY <1>1, <1>2 DEF UidInv, NoNF
  <1>4. BackedInv
    BY <1>1, <1>2 DEF BackedInv, Versions, Backed, NoObject
  <1>5. PlacedInv
    BY <1>1 DEF PlacedInv, NoNF
  <1> QED
    BY <1>3, <1>4, <1>5, InitMissesNothing DEF SInv, Untouched

\* The steps of the three Reconciles.
LEMMA ReconcilersKeepServices ==
  ASSUME SInv, AMFReconcile \/ SMFReconcile \/ UPFReconcile
  PROVE  UidInv' /\ Untouched'
  <1>1. /\ SDCoreKinds = {"amf", "smf"} /\ NetworkFunctions = {"amf", "smf", "upf"}
        /\ ConfigMaps = {"amf-config", "smf-config", "upf-config"}
        /\ AMFObjects \cup SMFObjects \cup UPFObjects \subseteq Objects
    BY DEF SDCoreKinds, NetworkFunctions, ConfigMaps, Objects
  <1>2. CASE AMFReconcile
    <2>1. CASE Fetch("amf", "amf-config")
      BY <1>1, <2>1, FetchKeepsServices
    <2>2. ASSUME NEW x \in Objects, NEW next \in Objects \cup {"status"},
                 Follows("amf", x, next), ReconcileObject("amf", x, next)
          PROVE  UidInv' /\ Untouched'
      BY <1>1, <2>2, ReconcileObjectKeepsServices
    <2>3. CASE UpdateStatus("amf")
      BY <1>1, <2>3, UpdateStatusKeepsServices
    <2> QED
      BY <1>1, <1>2, <2>1, <2>2, <2>3 DEF AMFReconcile, Follows, AMFObjects
  <1>3. CASE SMFReconcile
    <2>1. CASE Fetch("smf", "smf-config")
      BY <1>1, <2>1, FetchKeepsServices
    <2>2. ASSUME NEW x \in Objects, NEW next \in Objects \cup {"status"},
                 Follows("smf", x, next), ReconcileObject("smf", x, next)
          PROVE  UidInv' /\ Untouched'
      BY <1>1, <2>2, ReconcileObjectKeepsServices
    <2>3. CASE UpdateStatus("smf")
      BY <1>1, <2>3, UpdateStatusKeepsServices
    <2> QED
      BY <1>1, <1>3, <2>1, <2>2, <2>3 DEF SMFReconcile, Follows, SMFObjects
  <1>4. CASE UPFReconcile
    <2>1. CASE Fetch("upf", "upf-config")
      BY <1>1, <2>1, FetchKeepsServices
    <2>2. ASSUME NEW x \in Objects, NEW next \in Objects \cup {"status"},
                 Follows("upf", x, next), CreateOrUpdate(x, next)
          PROVE  UidInv' /\ Untouched'
      BY <2>2, CreateOrUpdateKeepsServices
    <2>3. CASE UpdateUPFStatus
      BY <2>3, UpdateUPFStatusKeepsServices
    <2> QED
      BY <1>1, <1>4, <2>1, <2>2, <2>3 DEF UPFReconcile, Follows, UPFObjects
  <1> QED
    BY <1>2, <1>3, <1>4

\* Every step keeps the invariant.
LEMMA NextKeepsServices ==
  ASSUME SInv, [Next]_vars
  PROVE  SInv'
  <1>1. CInv'
    BY NextMissesNothing DEF SInv
  <1>2. CASE UNCHANGED vars
    <2>1. UNCHANGED <<store, cache, watch, nf, queued, delayed, pc, kind, moves>>
      BY <1>2 DEF vars, serverVars, budgets
    <2>2. UNCHANGED loop
      BY <2>1, <1>2 DEF loop, vars
    <2> QED
      BY <1>1, <2>1, <2>2, NoWriteKeepsServices, LoopKeepsPlaced DEF SInv, Untouched
  <1>3. CASE Environment
    <2>1. CASE Users \/ FinishDeletion
      BY <1>1, <2>1, UsersKeepServices DEF SInv
    <2>2. ASSUME NEW x \in Objects, Others(x) \/ CollectGarbage(x)
          PROVE  SInv'
      BY <1>1, <2>2, OthersKeepServices DEF SInv
    <2>3. ASSUME NEW x \in Names, Deliver(x)
          PROVE  SInv'
      BY <1>1, <2>3, DeliverKeepsServices DEF SInv
    <2>4. CASE Timer
      BY <1>1, <2>4, TimerKeepsServices DEF SInv
    <2>5. CASE Restart
      BY <1>1, <2>5, RestartKeepsServices DEF SInv
    <2> QED
      BY <1>3, <2>1, <2>2, <2>3, <2>4, <2>5, NamesAre DEF Environment, Outside
  <1>4. CASE Worker
    <2>1. UidInv' /\ Untouched'
      BY <1>4, BeginKeepsServices, ReconcilersKeepServices DEF Worker
    <2> QED
      BY <1>1, <2>1 DEF SInv
  <1> QED
    BY <1>2, <1>3, <1>4 DEF Next

\* The invariant holds throughout: what a Reconcile has placed for the present
\* NFDeployment stays in place.
THEOREM StaysPlaced == Spec => []SInv
  <1>1. SInv /\ [Next]_vars => SInv'
    BY NextKeepsServices
  <1> QED
    BY InitHasServices, <1>1, PTL DEF Spec

\* At rest, all that the reconciler of the NFDeployment keeps is placed.
LEMMA PlacedAtRest ==
  ASSUME SInv, Quiet, moves = 0, NEW k \in NetworkFunctions, Handled(k),
         NEW x \in KeptFor(k), k # "upf" => store["nf"].uid = 1
  PROVE  Mine(x)
  <1>1. cache["nf"] = store["nf"]
    BY AtRest DEF SInv
  <1>2. Placed(k, x)
    BY <1>1 DEF SInv, Untouched, PlacedInv, Quiet, Handled
  <1> QED
    BY <1>1, <1>2 DEF Placed, Present, Handled

\* The Services of the first NFDeployment of a name, left alone by others, are
\* there once nothing is on its way, although no event tells of them: no failed
\* call, conflict or restart makes a Reconcile leave one out.
THEOREM ServicesThere == Spec => []ServicesCreated
  <1>1. SInv => ServicesCreated
    BY PlacedAtRest DEF ServicesCreated
  <1> QED
    BY StaysPlaced, <1>1, PTL

\* ... the UPF's Service in every life of the NFDeployment: createService takes
\* over the one of the life before, and the garbage collector then lets it be.
THEOREM UPFServiceStays == Spec => []UPFServiceKept
  <1>1. SInv => UPFServiceKept
    <2> SUFFICES ASSUME SInv, Quiet, moves = 0, Handled("upf") PROVE Mine("upf-service")
      BY DEF UPFServiceKept
    <2>1. "upf" \in NetworkFunctions /\ "upf-service" \in KeptFor("upf")
      BY DEF NetworkFunctions, KeptFor, UPFObjects
    <2> QED
      BY <2>1, PlacedAtRest
  <1> QED
    BY StaysPlaced, <1>1, PTL
=============================================================================
