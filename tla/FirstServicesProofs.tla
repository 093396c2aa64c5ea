------------------------ MODULE FirstServicesProofs ------------------------
(***************************************************************************)
(* The Services of the first NFDeployment of a name: proof of              *)
(* ServicesCreated, for any values of the constants.                       *)
(*                                                                         *)
(* The invariant speaks of the store and of what one operator has seen of  *)
(* it, and of no order between the copies of the NFDeployment, so that it  *)
(* holds for an operator that is not the only one.                         *)
(***************************************************************************)
EXTENDS ServicesProofs

\* Nobody else has touched the objects, and no NFDeployment of the name came
\* before the present one.
First == moves = 0 /\ store["nf"].uid <= 1

\* x is there as long as the NFDeployment is there to stay.
Kept(x) == Present => Mine(x)

\* No copy of the NFDeployment is of a later one than the stored.
NotAhead ==
  /\ cache["nf"].uid <= store["nf"].uid
  /\ nf.live => nf.uid <= store["nf"].uid
  /\ \A i \in 1..Len(watch["nf"]) : watch["nf"][i].uid <= store["nf"].uid

\* An object of which some version is known belongs to the NFDeployment, and is kept.
Known(x, v) == v.live => ByNF(v.owner) /\ v.owner = store["nf"].uid /\ Kept(x)

AllKnown == \A x \in Objects : \A v \in Versions(x) : Known(x, v)

\* What a Reconcile has behind it is kept, unless another one will follow.
DoneInv ==
  ~queued /\ ~delayed =>
    /\ pc = "idle" /\ cache["nf"].live =>
         \A k \in NetworkFunctions : Route(Name, cache["nf"].provider) = k =>
           \A x \in KeptFor(k) : Kept(x)
    /\ pc \notin {"idle", "fetch"} => \A x \in KeptFor(kind) \cap Behind : Kept(x)

FInv == CInv /\ NotAhead /\ (First => AllKnown /\ DoneInv)

\* What a step, whoever takes it, leaves of the objects: whatever is written
\* belongs to the NFDeployment, and what is kept stays.
FirstStep ==
  /\ First' => First
  /\ store'["nf"].uid \in Nat
  /\ \/ store'["nf"].uid = store["nf"].uid /\ (Present' => Present)
     \/ store["nf"].uid < store'["nf"].uid
  /\ First' => \A x \in Objects :
       /\ store'[x].live => ByNF(store'[x].owner) /\ store'[x].owner = store'["nf"].uid
       /\ store'["nf"].uid = store["nf"].uid /\ Kept(x) => Kept(x)'

\* What the informers have yet to see is what they had yet to see, or stored now.
Appended ==
  \A x \in Names : \A i \in 1..Len(watch'[x]) :
    \/ watch'[x][i] = store'[x]
    \/ \E j \in 1..Len(watch[x]) : watch'[x][i] = watch[x][j]

-----------------------------------------------------------------------------
(* Writes, by this operator or by anybody else.                            *)

\* Before the first NFDeployment there are no objects.
LEMMA NothingBefore ==
  ASSUME FInv, First, store["nf"].uid = 0
  PROVE  /\ \A x \in Objects : \A v \in Versions(x) : ~v.live
         /\ ~cache["nf"].live /\ ~nf.live
  <1>1. \A x \in Objects : \A v \in Versions(x) : ~v.live
    BY DEF FInv, AllKnown, Known, ByNF
  <1>2. /\ cache["nf"] \in Identified /\ nf \in Identified
        /\ cache["nf"].uid \in Nat /\ nf.uid \in Nat
        /\ cache["nf"].uid <= 0 /\ (nf.live => nf.uid <= 0)
    BY UidTypes DEF FInv, NotAhead
  <1>3. \A v \in Identified : v.live => v.uid # 0
    BY DEF Identified
  <1> QED
    BY <1>1, <1>2, <1>3

\* What an operator knows remains true, and what was kept is kept, or there was
\* nothing yet.
LEMMA SeenKeepsFirst ==
  ASSUME FInv, FirstStep, Appended, UNCHANGED cache,
         nf' = nf \/ ~nf'.live \/ nf' = cache["nf"]
  PROVE  /\ NotAhead'
         /\ First' => AllKnown'
         /\ First' => \/ \A x \in Objects : Kept(x) => Kept(x)'
                      \/ ~cache["nf"].live /\ ~nf.live
  <1>1. /\ store["nf"].uid \in Nat /\ cache["nf"].uid \in Nat /\ nf.uid \in Nat
        /\ \A i \in 1..Len(watch["nf"]) : watch["nf"][i].uid \in Nat
        /\ store'["nf"].uid \in Nat /\ store["nf"].uid <= store'["nf"].uid
    BY UidTypes DEF FInv, FirstStep
  <1>2. NotAhead'
    <2>1. /\ cache["nf"].uid <= store'["nf"].uid
          /\ nf'.live => nf'.uid <= store'["nf"].uid
      BY <1>1 DEF FInv, NotAhead
    <2>2. \A i \in 1..Len(watch["nf"]) : watch["nf"][i].uid <= store'["nf"].uid
      BY <1>1 DEF FInv, NotAhead
    <2>3. \A i \in 1..Len(watch'["nf"]) : watch'["nf"][i].uid <= store'["nf"].uid
      BY <1>1, <2>2, NamesAre DEF Appended
    <2> QED
      BY <2>1, <2>3 DEF NotAhead
  <1>3. ASSUME First', store'["nf"].uid # store["nf"].uid
        PROVE  First /\ store["nf"].uid = 0
    BY <1>1, <1>3 DEF FirstStep, First
  <1>4. \A x \in Objects : \A v \in Versions(x)' : v \in Versions(x) \/ v = store'[x]
    BY NamesAre DEF Appended, Versions
  <1>5. ASSUME First', NEW x \in Objects, NEW v \in Versions(x)', v.live
        PROVE  Known(x, v)'
    <2>1. CASE v = store'[x]
      BY <1>5, <2>1 DEF FirstStep, Known, Kept, Mine
    <2>2. CASE v \in Versions(x)
      <3>1. store'["nf"].uid = store["nf"].uid
        BY <1>3, <1>5, <2>2, NothingBefore
      <3>2. Known(x, v)
        BY <1>5, <2>2 DEF FInv, FirstStep, AllKnown
      <3> QED
        BY <1>5, <3>1, <3>2 DEF FirstStep, Known, ByNF
    <2> QED
      BY <1>4, <1>5, <2>1, <2>2
  <1>6. First' => AllKnown'
    BY <1>5 DEF AllKnown, Known
  <1>7. First' => \/ \A x \in Objects : Kept(x) => Kept(x)'
                  \/ ~cache["nf"].live /\ ~nf.live
    BY <1>3, NothingBefore DEF FirstStep
  <1> QED
    BY <1>2, <1>6, <1>7

\* While the registers stay, so does all that a Reconcile has behind it.
LEMMA LoopKeepsFirst ==
  ASSUME FInv, FirstStep, Appended, UNCHANGED loop
  PROVE  NotAhead' /\ (First' => AllKnown' /\ DoneInv')
  <1>1. UNCHANGED <<cache, queued, delayed, pc, kind, nf>> /\ Behind' = Behind
    BY DEF loop, Behind
  <1>2. /\ kind \in NetworkFunctions /\ \A k \in NetworkFunctions : KeptFor(k) \subseteq Objects
        /\ pc \notin {"idle", "fetch"} => nf.live
    BY DEF FInv, CInv, IInv, WorkerTypes, CopyInv, NetworkFunctions, KeptFor, Objects
  <1>3. /\ NotAhead'
        /\ First' => AllKnown'
        /\ First' => \/ \A x \in Objects : Kept(x) => Kept(x)'
                     \/ ~cache["nf"].live /\ ~nf.live
    BY <1>1, SeenKeepsFirst
  <1>4. First' => DoneInv
    BY DEF FInv, FirstStep
  <1>5. ASSUME First'
        PROVE  DoneInv'
    BY <1>1, <1>2, <1>3, <1>4, <1>5 DEF DoneInv
  <1> QED
    BY <1>3, <1>5

\* A step that writes nothing.
LEMMA NoWriteIsFirst ==
  ASSUME FInv, UNCHANGED <<store, moves>>
  PROVE  FirstStep
  <1>1. store["nf"].uid \in Nat
    BY UidTypes DEF FInv
  <1>2. \A x \in Objects : store[x] \in Versions(x)
    BY DEF Versions
  <1> QED
    BY <1>1, <1>2 DEF FInv, FirstStep, First, AllKnown, Known, Kept, Present, Mine

\* A write of an object.
LEMMA ObjectWriteIsFirst ==
  ASSUME FInv, NEW x \in Objects, NEW v \in OwnedRecord, Commit(x, v), UNCHANGED moves,
         First /\ v.live => ByNF(v.owner) /\ v.owner = store["nf"].uid,
         First /\ Present /\ Mine(x) => v.live
  PROVE  FirstStep
  <1>1. /\ store'["nf"] = store["nf"] /\ store'[x] = v
        /\ \A y \in Objects \ {x} : store'[y] = store[y]
    BY NamesAre DEF Commit, FInv, CInv, IInv, ServerInv, ServerTypes
  <1>2. store["nf"].uid \in Nat /\ (First' <=> First) /\ (Present' <=> Present)
    BY <1>1, UidTypes DEF FInv, First, Present
  <1>3. ASSUME First, NEW y \in Objects
        PROVE  /\ store'[y].live => ByNF(store'[y].owner) /\ store'[y].owner = store["nf"].uid
               /\ Kept(y) => Kept(y)'
    <2>1. CASE y = x
      BY <1>1, <1>2, <1>3, <2>1 DEF Kept, Mine
    <2>2. CASE y # x
      <3>1. Known(y, store[y])
        BY <1>3 DEF FInv, AllKnown, Versions
      <3> QED
        BY <1>1, <1>2, <2>2, <3>1 DEF Known, Kept, Mine
    <2> QED
      BY <2>1, <2>2
  <1> QED
    BY <1>1, <1>2, <1>3 DEF FirstStep

\* A write of the NFDeployment.
LEMMA NFWriteIsFirst ==
  ASSUME FInv, NEW v \in Identified, Commit("nf", v), UNCHANGED moves,
         \/ v.uid = store["nf"].uid + 1
         \/ v.uid = store["nf"].uid /\ (v.live /\ ~v.deleting => Present)
  PROVE  FirstStep
  <1>1. /\ store'["nf"] = v
        /\ \A y \in Objects : store'[y] = store[y]
    BY NamesAre DEF Commit, FInv, CInv, IInv, ServerInv, ServerTypes
  <1>2. store["nf"].uid \in Nat /\ v.uid \in Nat
    BY UidTypes DEF FInv, Identified, NFRecord
  <1>3. First' => First
    BY <1>1, <1>2 DEF First
  <1>4. v.uid = store["nf"].uid => (Present' => Present)
    BY <1>1, <1>2 DEF Present
  <1>5. ASSUME First', NEW y \in Objects
        PROVE  /\ store'[y].live => ByNF(store'[y].owner) /\ store'[y].owner = v.uid
               /\ v.uid = store["nf"].uid /\ Kept(y) => Kept(y)'
    <2>1. store[y] \in Versions(y) /\ Known(y, store[y])
      BY <1>3, <1>5 DEF FInv, AllKnown, Versions
    <2>2. v.uid # store["nf"].uid => store["nf"].uid = 0
      BY <1>1, <1>2, <1>5 DEF First
    <2>3. v.uid # store["nf"].uid => ~store[y].live
      BY <1>3, <1>5, <2>1, <2>2, NothingBefore
    <2> QED
      BY <1>1, <1>4, <2>1, <2>3 DEF Known, Kept, Mine
  <1> QED
    BY <1>1, <1>2, <1>3, <1>4, <1>5 DEF FirstStep

\* What is committed is appended.
LEMMA CommitAppended ==
  ASSUME CInv, NEW x \in Names, NEW v \in Version(x), Commit(x, v)
  PROVE  Appended
  <1>1. /\ Len(watch[x]) \in Nat /\ Len(watch'[x]) = Len(watch[x]) + 1
        /\ watch'[x][Len(watch[x]) + 1] = v
        /\ \A i \in 1..Len(watch[x]) : watch'[x][i] = watch[x][i]
        /\ \A y \in Names \ {x} : watch'[y] = watch[y]
    BY CommitAppends
  <1>2. store'[x] = v
    BY DEF Commit, CInv, IInv, ServerInv, ServerTypes
  <1>3. \A i \in 1..Len(watch'[x]) : i = Len(watch[x]) + 1 \/ i \in 1..Len(watch[x])
    BY <1>1
  <1> QED
    BY <1>1, <1>2, <1>3 DEF Appended

\* A step that writes nothing leaves everything known and kept.
LEMMA NoWriteKeepsFirst ==
  ASSUME FInv, UNCHANGED <<store, watch, cache, moves>>,
         nf' = nf \/ ~nf'.live \/ nf' = cache["nf"]
  PROVE  /\ FirstStep /\ NotAhead'
         /\ First' => First /\ AllKnown'
         /\ \A x \in Objects : Kept(x) => Kept(x)'
  <1>1. FirstStep /\ Appended
    BY NoWriteIsFirst DEF Appended
  <1>2. NotAhead' /\ (First' => AllKnown')
    BY <1>1, SeenKeepsFirst
  <1> QED
    BY <1>1, <1>2 DEF First, Kept, Present, Mine

\* A write of what belongs to the first NFDeployment, or none.
LEMMA WriteKeepsFirst ==
  ASSUME FInv, NEW x \in Objects, NEW v \in OwnedRecord,
         UNCHANGED <<store, watch>> \/ Commit(x, v), UNCHANGED <<cache, moves>>,
         nf' = nf \/ ~nf'.live,
         First => ByNF(v.owner) /\ v.owner = store["nf"].uid /\ v.live,
         nf.live
  PROVE  /\ FirstStep /\ NotAhead'
         /\ First' => First /\ AllKnown' /\ \A y \in Objects : Kept(y) => Kept(y)'
  <1>1. CASE UNCHANGED <<store, watch>>
    BY <1>1, NoWriteKeepsFirst
  <1>2. CASE Commit(x, v)
    <2>1. x \in Names /\ v \in Version(x) /\ CInv
      BY NamesAre DEF Version, FInv
    <2>2. FirstStep
      BY <1>2, ObjectWriteIsFirst
    <2>3. Appended
      BY <1>2, <2>1, CommitAppended
    <2> QED
      BY <2>2, <2>3, SeenKeepsFirst DEF FirstStep
  <1> QED
    BY <1>1, <1>2

-----------------------------------------------------------------------------
(* The environment.                                                        *)

\* Users, and the end of a deletion in the foreground.
LEMMA UsersKeepFirst ==
  ASSUME FInv, Users \/ FinishDeletion
  PROVE  FirstStep /\ NotAhead' /\ (First' => AllKnown' /\ DoneInv')
  <1>1. PICK v \in Identified :
          /\ Commit("nf", v) /\ UNCHANGED loop /\ UNCHANGED moves
          /\ \/ v.uid = store["nf"].uid + 1
             \/ v.uid = store["nf"].uid /\ (v.live /\ ~v.deleting => Present)
    BY UsersWriteNF DEF FInv
  <1>2. FirstStep
    BY <1>1, NFWriteIsFirst
  <1>3. Appended
    BY <1>1, NamesAre, CommitAppended DEF Version, FInv
  <1> QED
    BY <1>1, <1>2, <1>3, LoopKeepsFirst

\* Others who touch an object are counted; the garbage collector leaves alone
\* what is kept.
LEMMA OthersKeepFirst ==
  ASSUME FInv, NEW x \in Objects, Others(x) \/ CollectGarbage(x)
  PROVE  FirstStep /\ NotAhead' /\ (First' => AllKnown' /\ DoneInv')
  <1>1. PICK v \in OwnedRecord : Commit(x, v) /\ UNCHANGED loop
    BY OthersWrite DEF FInv
  <1>2. Appended
    BY <1>1, NamesAre, CommitAppended DEF Version, FInv
  <1>3. FirstStep
    <2>1. CASE Others(x)
      <3>1. moves' = moves + 1 /\ moves \in 0..MaxMoves /\ MaxMoves \in Nat
        BY <2>1, ParametersAssumption
        DEF Others, ReportHealth, Tamper, Remove, Occupy, Moves, FInv, CInv, IInv, WorkerTypes
      <3>2. store'["nf"] = store["nf"] /\ store["nf"].uid \in Nat
        BY <1>1, NamesAre, UidTypes DEF Commit, FInv, CInv, IInv, ServerInv, ServerTypes
      <3> QED
        BY <3>1, <3>2 DEF FirstStep, First, Present
    <2>2. CASE CollectGarbage(x)
      <3>1. /\ Commit(x, Tombstone(x)) /\ Doomed(x) /\ UNCHANGED moves
        BY <2>2 DEF CollectGarbage, Writes, budgets
      <3>2. Tombstone(x) \in OwnedRecord /\ ~Tombstone(x).live
        BY TombstoneType DEF FInv, CInv
      <3>3. ~(Present /\ Mine(x))
        BY <3>1 DEF Doomed, Present, Mine
      <3> QED
        BY <3>1, <3>2, <3>3, ObjectWriteIsFirst
    <2> QED
      BY <2>1, <2>2
  <1> QED
    BY <1>1, <1>2, <1>3, LoopKeepsFirst

\* The informers.
LEMMA DeliverKeepsFirst ==
  ASSUME FInv, NEW y \in Names, Deliver(y)
  PROVE  FirstStep /\ NotAhead' /\ (First' => AllKnown' /\ DoneInv')
  <1>1. /\ watch[y] \in Seq(Version(y)) /\ watch[y] # <<>>
        /\ cache'[y] = Head(watch[y]) /\ watch'[y] = Tail(watch[y])
        /\ \A x \in Names \ {y} : cache'[x] = cache[x] /\ watch'[x] = watch[x]
        /\ queued' = (queued \/ Enqueues(y, cache[y], Head(watch[y])))
        /\ UNCHANGED <<store, delayed, pc, kind, nf, moves>>
    BY DEF Deliver, FInv, CInv, IInv, ServerInv, ServerTypes, budgets
  <1>2. /\ 1 \in 1..Len(watch[y]) /\ Head(watch[y]) = watch[y][1]
        /\ \A i \in 1..Len(watch'[y]) : i + 1 \in 1..Len(watch[y])
                                       /\ watch'[y][i] = watch[y][i + 1]
    BY <1>1, HeadTailProperties, EmptySeq, LenProperties
  <1>3. FirstStep
    BY <1>1, NoWriteIsFirst
  <1>4. NotAhead'
    <2>1. CASE y = "nf"
      BY <1>1, <1>2, <2>1 DEF FInv, NotAhead
    <2>2. CASE y # "nf"
      BY <1>1, <2>2, NamesAre DEF FInv, NotAhead
    <2> QED
      BY <2>1, <2>2
  <1>5. (First' <=> First) /\ \A x \in Objects : Kept(x) <=> Kept(x)'
    BY <1>1 DEF First, Kept, Present, Mine
  <1>6. First => AllKnown'
    BY <1>1, <1>5, DeliverBringsNone DEF FInv, AllKnown, Known
  <1>7. ASSUME First
        PROVE  DoneInv'
    <2>1. CASE y = "nf"
      BY <2>1, <1>1 DEF DoneInv, Enqueues
    <2>2. CASE y # "nf"
      <3>1. cache'["nf"] = cache["nf"] /\ Behind' = Behind
        BY <2>2, <1>1, NamesAre DEF Behind
      <3>2. kind \in NetworkFunctions /\ \A k \in NetworkFunctions : KeptFor(k) \subseteq Objects
        BY DEF FInv, CInv, IInv, WorkerTypes, NetworkFunctions, KeptFor, Objects
      <3> QED
        BY <3>1, <3>2, <1>1, <1>5, <1>7 DEF FInv, DoneInv
    <2> QED
      BY <2>1, <2>2
  <1> QED
    BY <1>3, <1>4, <1>5, <1>6, <1>7

\* The delays of the queue.
LEMMA TimerKeepsFirst ==
  ASSUME FInv, Timer
  PROVE  FirstStep /\ NotAhead' /\ (First' => AllKnown' /\ DoneInv')
  <1>1. UNCHANGED <<store, cache, watch, nf, moves>> /\ queued'
    BY DEF Timer, serverVars, budgets
  <1> QED
    BY <1>1, NoWriteKeepsFirst DEF DoneInv

\* A new process lists what is stored, or what the old one had cached.
LEMMA RestartKeepsFirst ==
  ASSUME FInv, Restart
  PROVE  FirstStep /\ NotAhead' /\ (First' => AllKnown' /\ DoneInv')
  <1>1. PICK fresh \in {Names, {}} :
          /\ cache' = [x \in Names |-> IF x \in fresh THEN store[x] ELSE cache[x]]
          /\ watch' = [x \in Names |-> IF x \in fresh THEN <<>> ELSE watch[x]]
    BY DEF Restart
  <1>2. UNCHANGED <<store, moves>> /\ pc' = "idle" /\ ~nf'.live
    BY DEF Restart, NoNF
  <1>3. FirstStep
    BY <1>2, NoWriteIsFirst
  <1>4. NotAhead'
    <2>1. CASE fresh = Names
      <3>1. cache'["nf"] = store["nf"] /\ 1..Len(watch'["nf"]) = {} /\ store["nf"].uid \in Nat
        BY <1>1, <2>1, NamesAre, UidTypes DEF FInv
      <3> QED
        BY <3>1, <1>2 DEF NotAhead
    <2>2. CASE fresh = {}
      <3>1. watch'["nf"] = watch["nf"] /\ cache'["nf"] = cache["nf"]
        BY <1>1, <2>2, NamesAre
      <3> QED
        BY <3>1, <1>2 DEF FInv, NotAhead
    <2> QED
      BY <2>1, <2>2
  <1>5. (First' <=> First) /\ \A x \in Objects : Kept(x) <=> Kept(x)'
    BY <1>2 DEF First, Kept, Present, Mine
  <1>6. First => AllKnown'
    BY <1>2, <1>5, RestartBringsNone DEF FInv, AllKnown, Known
  <1>7. ~queued' => ~cache'["nf"].live
    <2>1. queued' = Lists(cache')
      BY DEF Restart
    <2>2. "nf" \in Names /\ Enqueues("nf", Nothing["nf"], cache'["nf"])
      BY NamesAre DEF Enqueues
    <2> QED
      BY <2>1, <2>2 DEF Lists
  <1> QED
    BY <1>2, <1>3, <1>4, <1>5, <1>6, <1>7 DEF DoneInv

-----------------------------------------------------------------------------
(* The worker.                                                             *)

\* The main Reconcile.
LEMMA BeginKeepsFirst ==
  ASSUME FInv, Begin
  PROVE  FirstStep /\ NotAhead' /\ (First' => AllKnown' /\ DoneInv')
  <1>1. UNCHANGED <<store, cache, watch, nf, moves>> /\ pc = "idle"
    BY DEF Begin, serverVars, budgets
  <1>2. \/ pc' = "fetch"
        \/ pc' = "idle" /\ (~cache["nf"].live \/ Route(Name, cache["nf"].provider) = "none")
    BY <1>1 DEF Begin
  <1>3. "none" \notin NetworkFunctions
    BY DEF NetworkFunctions
  <1>4. DoneInv'
    BY <1>1, <1>2, <1>3 DEF DoneInv
  <1> QED
    BY <1>1, <1>4, NoWriteKeepsFirst

\* A reconciler's own read.
LEMMA FetchKeepsFirst ==
  ASSUME FInv, NEW k \in NetworkFunctions, NEW first \in ConfigMaps, Fetch(k, first)
  PROVE  FirstStep /\ NotAhead' /\ (First' => AllKnown' /\ DoneInv')
  <1>1. UNCHANGED <<store, cache, watch, queued, kind, moves>> /\ pc = "fetch" /\ kind = k
    BY DEF Fetch, serverVars, budgets
  <1>2. ~nf'.live \/ nf' = cache["nf"]
    BY DEF Fetch, Return, NoNF
  <1>3. DoneInv'
    <2> SUFFICES ASSUME ~queued', ~delayed'
                 PROVE  /\ pc' \notin {"idle", "fetch"}
                        /\ KeptFor(kind') \cap Behind' = {}
      BY DEF DoneInv
    <2>1. ~queued /\ ~delayed
      BY <1>1 DEF Fetch, Return, FInv, CInv, IInv, WorkerTypes
    <2>2. cache["nf"].live /\ Route(Name, cache["nf"].provider) = k
      BY <1>1, <2>1 DEF FInv, CInv, NothingMissed, FetchInv
    <2>3. Accepts(k, cache["nf"].provider)
      BY <2>2 DEF Accepts, Route, NetworkFunctions
    <2>4. pc' = first
      BY <2>2, <2>3 DEF Fetch
    <2> QED
      BY <2>4 DEF Behind, ConfigMaps, Deployments, NetworkFunctions
  <1> QED
    BY <1>1, <1>2, <1>3, NoWriteKeepsFirst

\* A Reconcile that goes on has seen to the object it leaves.
LEMMA GoingOnKeepsDone ==
  ASSUME FInv, First, NEW k \in NetworkFunctions, NEW x \in Objects,
         NEW next \in Objects \cup {"status"}, Follows(k, x, next),
         pc = x, kind = k, pc' = next, UNCHANGED <<queued, delayed, kind>>,
         \A y \in Objects : Kept(y) => Kept(y)', Kept(x)'
  PROVE  DoneInv'
  <1>1. /\ pc \notin {"idle", "fetch"} /\ pc' \notin {"idle", "fetch"}
        /\ KeptFor(k) \subseteq Objects
    BY DEF Objects, AMFObjects, SMFObjects, UPFObjects, KeptFor, NetworkFunctions
  <1>2. KeptFor(k) \cap Behind' \subseteq (KeptFor(k) \cap Behind) \cup {x}
    BY BehindOneMore
  <1> QED
    BY <1>1, <1>2 DEF FInv, DoneInv

\* One that has come to its end has seen to them all.
LEMMA ReturningKeepsDone ==
  ASSUME FInv, First, NEW k \in NetworkFunctions, pc = "status", kind = k,
         NEW again \in BOOLEAN, Return(again), UNCHANGED <<cache, queued, kind>>,
         \A y \in Objects : Kept(y) => Kept(y)'
  PROVE  DoneInv'
  <1> SUFFICES ASSUME ~queued', ~delayed' PROVE DoneInv'
    BY DEF DoneInv
  <1>1. ~queued /\ ~delayed /\ pc' = "idle"
    BY DEF Return, FInv, CInv, IInv, WorkerTypes
  <1>2. Behind = Objects /\ KeptFor(k) \subseteq Objects
    BY DEF Behind, ConfigMaps, Deployments, NetworkFunctions, KeptFor, Objects
  <1>3. \A x \in KeptFor(k) : Kept(x)'
    BY <1>1, <1>2 DEF FInv, DoneInv
  <1>4. Route(Name, cache["nf"].provider) = k
    BY <1>1 DEF FInv, CInv, NothingMissed, WorkInv
  <1> QED
    BY <1>1, <1>3, <1>4 DEF DoneInv

\* A Reconcile that gives up will be called again.
LEMMA GivingUpKeepsFirst ==
  ASSUME FInv, Return(TRUE), UNCHANGED <<serverVars, cache, queued, kind, budgets>>
  PROVE  FirstStep /\ NotAhead' /\ (First' => AllKnown' /\ DoneInv')
  <1>1. UNCHANGED <<store, cache, watch, moves>> /\ ~nf'.live /\ delayed'
    BY DEF Return, NoNF, serverVars, budgets
  <1> QED
    BY <1>1, NoWriteKeepsFirst DEF DoneInv

\* While there has been only one NFDeployment of the name, it is the one that a
\* Reconcile works for.
LEMMA CopyIsFirst ==
  ASSUME FInv, First, pc \notin {"idle", "fetch"}
  PROVE  nf.live /\ nf.uid = store["nf"].uid /\ ByNF(nf.uid)
  <1>1. nf.live /\ nf.uid \in Nat /\ nf.uid <= store["nf"].uid /\ store["nf"].uid \in Nat
    BY UidTypes DEF FInv, CInv, IInv, CopyInv, NotAhead
  <1>2. nf.uid # 0
    BY <1>1, UidTypes DEF FInv, Identified
  <1>3. ByNF(nf.uid)
    BY <1>1, <1>2, ParametersAssumption DEF ByNF
  <1> QED
    BY <1>1, <1>2, <1>3 DEF First

\* A call that writes what belongs to that NFDeployment.
LEMMA CallKeepsFirst ==
  ASSUME FInv, NEW k \in NetworkFunctions, NEW x \in Objects,
         NEW next \in Objects \cup {"status"}, Follows(k, x, next), pc = x, kind = k,
         NEW v \in OwnedRecord, NEW valid \in BOOLEAN, Call(x, v, valid, next),
         First => v.live /\ v.owner = store["nf"].uid /\ ByNF(v.owner)
  PROVE  FirstStep /\ NotAhead' /\ (First' => AllKnown' /\ DoneInv')
  <1>1. UNCHANGED <<cache, queued, kind, moves>>
    BY DEF Call
  <1>2. nf.live
    BY DEF FInv, CInv, IInv, CopyInv, Objects, AMFObjects, SMFObjects, UPFObjects
  <1>3. UNCHANGED nf \/ ~nf'.live
    BY DEF Call, Return, NoNF
  <1>4. UNCHANGED <<store, watch>> \/ Commit(x, v)
    BY DEF Call, Put, serverVars
  <1>5. /\ FirstStep /\ NotAhead'
        /\ First' => First /\ AllKnown' /\ \A y \in Objects : Kept(y) => Kept(y)'
    BY <1>1, <1>2, <1>3, <1>4, WriteKeepsFirst
  <1>6. ASSUME First'
        PROVE  DoneInv'
    <2>1. CASE Return(TRUE)
      BY <2>1 DEF Return, DoneInv
    <2>2. CASE Put(x, v) /\ pc' = next /\ UNCHANGED <<delayed, nf>>
      <3>1. store'[x] = v /\ store'["nf"] = store["nf"]
        <4>1. CASE v = store[x]
          BY <2>2, <4>1 DEF Put, serverVars
        <4>2. CASE v # store[x]
          BY <1>1, <2>2, <4>2, CommitAddsVersion DEF Put, FInv
        <4> QED
          BY <4>1, <4>2
      <3>2. Kept(x)'
        BY <1>5, <1>6, <3>1 DEF Kept, Mine
      <3> QED
        BY <1>1, <1>5, <1>6, <2>2, <3>2, GoingOnKeepsDone
    <2> QED
      BY <2>1, <2>2 DEF Call
  <1> QED
    BY <1>5, <1>6

\* Going on without a call, for what the cache shows is kept.
LEMMA SkipKeepsFirst ==
  ASSUME FInv, NEW k \in NetworkFunctions, NEW x \in Objects,
         NEW next \in Objects \cup {"status"}, Follows(k, x, next), pc = x, kind = k,
         Skip(next), cache[x].live
  PROVE  FirstStep /\ NotAhead' /\ (First' => AllKnown' /\ DoneInv')
  <1>1. /\ UNCHANGED <<store, cache, watch, nf, moves, queued, delayed, kind>>
        /\ pc' = next
    BY DEF Skip, serverVars, budgets
  <1>2. /\ FirstStep /\ NotAhead'
        /\ First' => First /\ AllKnown'
        /\ \A y \in Objects : Kept(y) => Kept(y)'
    BY <1>1, NoWriteKeepsFirst
  <1>3. First => Kept(x)
    BY DEF FInv, AllKnown, Known, Versions
  <1> QED
    BY <1>1, <1>2, <1>3, GoingOnKeepsDone

\* The AMF's and the SMF's steps for an object.
LEMMA ReconcileObjectKeepsFirst ==
  ASSUME FInv, NEW k \in SDCoreKinds, NEW x \in Objects,
         NEW next \in Objects \cup {"status"}, Follows(k, x, next),
         ReconcileObject(k, x, next)
  PROVE  FirstStep /\ NotAhead' /\ (First' => AllKnown' /\ DoneInv')
  <1>1. /\ pc = x /\ kind = k /\ k \in NetworkFunctions
        /\ cache[x] \in OwnedRecord /\ IInv
        /\ pc \notin {"idle", "fetch"}
    BY ServedTypes
    DEF ReconcileObject, SDCoreKinds, NetworkFunctions, FInv, CInv, Objects, AMFObjects,
        SMFObjects, UPFObjects
  <1>2. CASE cache[x].live /\ Skip(next)
    BY <1>1, <1>2, SkipKeepsFirst
  <1>3. CASE CreateObject(x, Wanted(x), next)
    <2>1. Wanted(x) \in OwnedRecord /\ Wanted(x).owner = nf.uid /\ Wanted(x).live
      BY <1>1, SDCoreWriteTypes DEF Wanted, NoObject
    <2>2. First => Wanted(x).owner = store["nf"].uid /\ ByNF(Wanted(x).owner)
      BY <1>1, <2>1, CopyIsFirst
    <2> DEFINE v == Wanted(x)
               free == ~store[x].live
    <2>3. Call(x, v, free, next) /\ free \in BOOLEAN
      BY <1>3 DEF CreateObject
    <2>4. v \in OwnedRecord /\ (First => v.live /\ v.owner = store["nf"].uid /\ ByNF(v.owner))
      BY <2>1, <2>2
    <2> HIDE DEF v, free
    <2> QED
      BY <1>1, <2>3, <2>4, CallKeepsFirst
  <1>4. CASE cache[x].live /\ UpdateObject(x, Updated(x, cache[x]), next)
    <2> DEFINE v == Updated(x, cache[x])
               fresh == watch[x] = <<>>
    <2>1. v \in OwnedRecord /\ v.live = cache[x].live /\ v.owner = cache[x].owner
      BY <1>1, SDCoreWriteTypes
    <2>2. First => cache[x].owner = store["nf"].uid /\ ByNF(cache[x].owner)
      BY <1>4 DEF FInv, AllKnown, Known, Versions
    <2>3. Call(x, v, fresh, next) /\ fresh \in BOOLEAN
      BY <1>4 DEF UpdateObject
    <2>4. First => v.live /\ v.owner = store["nf"].uid /\ ByNF(v.owner)
      BY <1>4, <2>1, <2>2
    <2> HIDE DEF v, fresh
    <2> QED
      BY <1>1, <2>1, <2>3, <2>4, CallKeepsFirst
  <1> QED
    BY <1>2, <1>3, <1>4 DEF ReconcileObject

\* The UPF's.
LEMMA CreateOrUpdateKeepsFirst ==
  ASSUME FInv, NEW x \in Objects, NEW next \in Objects \cup {"status"},
         Follows("upf", x, next), CreateOrUpdate(x, next)
  PROVE  FirstStep /\ NotAhead' /\ (First' => AllKnown' /\ DoneInv')
  <1>1. /\ pc = x /\ kind = "upf" /\ "upf" \in NetworkFunctions
        /\ cache[x] \in OwnedRecord /\ IInv /\ pc \notin {"idle", "fetch"}
    BY ServedTypes
    DEF CreateOrUpdate, NetworkFunctions, FInv, CInv, Objects, AMFObjects, SMFObjects, UPFObjects
  <1>2. CASE Return(TRUE) /\ UNCHANGED <<serverVars, cache, queued, kind, budgets>>
    BY <1>2, GivingUpKeepsFirst
  <1>3. ASSUME NEW v \in OwnedRecord
        PROVE  Mutated(x, v) \in OwnedRecord /\ Mutated(x, v).live /\ Mutated(x, v).owner = nf.uid
    <2>1. Mutated(x, v) \in OwnedRecord /\ Mutated(x, v).owner = nf.uid
      BY <1>1, MutatedType
    <2>2. PICK w \in OwnedRecord : w = Rewritten(x, v, "fixed")
      BY RewrittenType DEF Data
    <2>3. Mutated(x, v).live
      BY <2>2 DEF Mutated, Configured, OwnedRecord
    <2> QED
      BY <2>1, <2>3
  <1>4. CASE cache[x].live /\ Skip(next)
    BY <1>1, <1>4, SkipKeepsFirst
  <1>5. ASSUME NEW v \in OwnedRecord, v.live, v.owner = nf.uid, NEW valid \in BOOLEAN,
               Call(x, v, valid, next)
        PROVE  FirstStep /\ NotAhead' /\ (First' => AllKnown' /\ DoneInv')
    <2>1. First => v.owner = store["nf"].uid /\ ByNF(v.owner)
      BY <1>1, <1>5, CopyIsFirst
    <2> QED
      BY <1>1, <1>5, <2>1, CallKeepsFirst
  <1>6. CASE CreateObject(x, [Mutated(x, NoObject) EXCEPT !.gen = 1], next)
    <2> DEFINE v == [Mutated(x, NoObject) EXCEPT !.gen = 1]
               free == ~store[x].live
    <2>1. /\ Mutated(x, NoObject) \in OwnedRecord /\ Mutated(x, NoObject).live
          /\ Mutated(x, NoObject).owner = nf.uid
      BY <1>3, BlankTypes
    <2>2. v \in OwnedRecord /\ v.live /\ v.owner = nf.uid
      BY <2>1 DEF OwnedRecord
    <2>3. Call(x, v, free, next) /\ free \in BOOLEAN
      BY <1>6 DEF CreateObject
    <2> HIDE DEF v, free
    <2> QED
      BY <1>5, <2>2, <2>3
  <1>7. CASE UpdateObject(x, Mutated(x, cache[x]), next)
    <2> DEFINE v == Mutated(x, cache[x])
               fresh == watch[x] = <<>>
    <2>1. /\ Call(x, v, fresh, next) /\ fresh \in BOOLEAN
          /\ v \in OwnedRecord /\ v.live /\ v.owner = nf.uid
      BY <1>1, <1>3, <1>7 DEF UpdateObject
    <2> HIDE DEF v, fresh
    <2> QED
      BY <1>5, <2>1
  <1> QED
    BY <1>2, <1>4, <1>6, <1>7 DEF CreateOrUpdate

\* The write of a status neither replaces the NFDeployment nor brings it back.
LEMMA StatusUpdateKeepsFirst ==
  ASSUME FInv, NEW k \in NetworkFunctions, pc = "status", kind = k,
         NEW s \in [obs: Nat, available: Conds, ready: Conds],
         NEW restamped \in BOOLEAN, NEW again \in BOOLEAN,
         UpdateStatusOfNF(s, restamped, again)
  PROVE  FirstStep /\ NotAhead' /\ (First' => AllKnown' /\ DoneInv')
  <1>1. store["nf"] \in Identified /\ WithStatus(s) \in Identified /\ CInv
    <2>1. store["nf"] \in Identified
      BY UidTypes DEF FInv
    <2> QED
      BY <2>1, StatusedType DEF FInv
  <1>2. /\ WithStatus(s).uid = store["nf"].uid
        /\ WithStatus(s).live = store["nf"].live
        /\ WithStatus(s).deleting = store["nf"].deleting
    BY <1>1 DEF WithStatus, Identified, NFRecord
  <1>3. /\ UNCHANGED <<cache, queued, kind, moves>> /\ ~nf'.live
        /\ Return(TRUE) \/ Return(again)
        /\ UNCHANGED <<store, watch>> \/ Commit("nf", WithStatus(s))
    BY DEF UpdateStatusOfNF, Put, Return, NoNF, serverVars
  <1>4. FirstStep /\ Appended
    <2>1. CASE UNCHANGED <<store, watch>>
      BY <1>3, <2>1, NoWriteIsFirst DEF Appended
    <2>2. CASE Commit("nf", WithStatus(s))
      <3>1. WithStatus(s).live /\ ~WithStatus(s).deleting => Present
        BY <1>2 DEF Present
      <3> QED
        BY <1>1, <1>2, <1>3, <2>2, <3>1, NFWriteIsFirst, CommitAppended, NamesAre DEF Version
    <2> QED
      BY <1>3, <2>1, <2>2
  <1>5. nf.live
    BY <1>1 DEF CInv, IInv, CopyInv
  <1>6. NotAhead' /\ (First' => AllKnown' /\ \A y \in Objects : Kept(y) => Kept(y)')
    BY <1>3, <1>4, <1>5, SeenKeepsFirst
  <1>7. ASSUME First'
        PROVE  DoneInv'
    <2>1. CASE Return(TRUE)
      BY <2>1 DEF Return, DoneInv
    <2>2. CASE Return(again)
      BY <1>3, <1>4, <1>6, <1>7, <2>2, ReturningKeepsDone DEF FirstStep
    <2> QED
      BY <1>3, <2>1, <2>2
  <1> QED
    BY <1>4, <1>6, <1>7

\* The last steps of the three.
LEMMA UpdateStatusKeepsFirst ==
  ASSUME FInv, NEW k \in SDCoreKinds, UpdateStatus(k)
  PROVE  FirstStep /\ NotAhead' /\ (First' => AllKnown' /\ DoneInv')
  <1>1. CASE DeploymentMissing(k)
    BY <1>1, GivingUpKeepsFirst DEF DeploymentMissing
  <1>2. ASSUME NEW restamped \in BOOLEAN,
               UpdateStatusOfNF(SDCoreStatus(cache[k]), restamped, changed)
        PROVE  FirstStep /\ NotAhead' /\ (First' => AllKnown' /\ DoneInv')
    <2>1. /\ SDCoreStatus(cache[k]) \in [obs: Nat, available: Conds, ready: Conds]
          /\ pc = "status" /\ kind = k /\ changed \in BOOLEAN
      BY DEF FInv, CInv, IInv, WorkerTypes, Identified, NFRecord, SDCoreStatus, Conds,
             UpdateStatus
    <2>2. k \in NetworkFunctions
      BY DEF SDCoreKinds, NetworkFunctions
    <2> QED
      BY <1>2, <2>1, <2>2, StatusUpdateKeepsFirst
  <1> QED
    BY <1>1, <1>2 DEF UpdateStatus

LEMMA UpdateUPFStatusKeepsFirst ==
  ASSUME FInv, UpdateUPFStatus
  PROVE  FirstStep /\ NotAhead' /\ (First' => AllKnown' /\ DoneInv')
  <1>1. /\ cache["upf"] \in OwnedRecord /\ kind = "upf" /\ pc = "status"
        /\ "upf" \in NetworkFunctions
    BY ServedTypes DEF FInv, UpdateUPFStatus, Objects, UPFObjects, NetworkFunctions
  <1>2. CASE Return(TRUE) /\ UNCHANGED <<serverVars, cache, queued, kind, budgets>>
    BY <1>2, GivingUpKeepsFirst
  <1>3. CASE UpdateStatusOfNF(UPFStatus(cache["upf"]), TRUE, FALSE)
    <2>1. UPFStatus(cache["upf"]) \in [obs: Nat, available: Conds, ready: Conds]
      BY <1>1 DEF UPFStatus, OwnedRecord, Conds
    <2> QED
      BY <1>1, <1>3, <2>1, StatusUpdateKeepsFirst
  <1>4. CASE Return(FALSE) /\ UNCHANGED <<serverVars, cache, queued, kind, budgets>>
    <2>1. UNCHANGED <<store, cache, watch, queued, kind, moves>> /\ ~nf'.live
      BY <1>4 DEF serverVars, budgets, Return, NoNF
    <2> QED
      BY <1>1, <1>4, <2>1, NoWriteKeepsFirst, ReturningKeepsDone
  <1> QED
    BY <1>2, <1>3, <1>4 DEF UpdateUPFStatus

\* The steps of the three Reconciles.
LEMMA ReconcilersKeepFirst ==
  ASSUME FInv, AMFReconcile \/ SMFReconcile \/ UPFReconcile
  PROVE  FirstStep /\ NotAhead' /\ (First' => AllKnown' /\ DoneInv')
  <1>1. /\ SDCoreKinds = {"amf", "smf"} /\ NetworkFunctions = {"amf", "smf", "upf"}
        /\ ConfigMaps = {"amf-config", "smf-config", "upf-config"}
        /\ AMFObjects \cup SMFObjects \cup UPFObjects \subseteq Objects
    BY DEF SDCoreKinds, NetworkFunctions, ConfigMaps, Objects
  <1>2. ASSUME NEW k \in NetworkFunctions, NEW first \in ConfigMaps, Fetch(k, first)
        PROVE  FirstStep /\ NotAhead' /\ (First' => AllKnown' /\ DoneInv')
    BY <1>2, FetchKeepsFirst
  <1>3. ASSUME NEW k \in SDCoreKinds, NEW x \in Objects,
               NEW next \in Objects \cup {"status"}, Follows(k, x, next),
               ReconcileObject(k, x, next)
        PROVE  FirstStep /\ NotAhead' /\ (First' => AllKnown' /\ DoneInv')
    BY <1>3, ReconcileObjectKeepsFirst
  <1>4. ASSUME NEW x \in Objects, NEW next \in Objects \cup {"status"},
               Follows("upf", x, next), CreateOrUpdate(x, next)
        PROVE  FirstStep /\ NotAhead' /\ (First' => AllKnown' /\ DoneInv')
    BY <1>4, CreateOrUpdateKeepsFirst
  <1>5. CASE AMFReconcile
    BY <1>1, <1>2, <1>3, <1>5, UpdateStatusKeepsFirst DEF AMFReconcile, Follows, AMFObjects
  <1>6. CASE SMFReconcile
    BY <1>1, <1>2, <1>3, <1>6, UpdateStatusKeepsFirst DEF SMFReconcile, Follows, SMFObjects
  <1>7. CASE UPFReconcile
    BY <1>1, <1>2, <1>4, <1>7, UpdateUPFStatusKeepsFirst DEF UPFReconcile, Follows, UPFObjects
  <1> QED
    BY <1>5, <1>6, <1>7

-----------------------------------------------------------------------------
(* All steps.                                                              *)

\* An empty cluster.
LEMMA InitHasFirst == Init => FInv
  <1> SUFFICES ASSUME Init PROVE FInv
    OBVIOUS
  <1>1. /\ cache["nf"] = NoNF /\ store["nf"] = NoNF /\ nf = NoNF
        /\ watch["nf"] = <<>> /\ pc = "idle"
        /\ \A x \in Objects : /\ cache[x] = NoObject /\ store[x] = NoObject
                              /\ watch[x] = <<>>
    BY NamesAre DEF Init, Nothing
  <1>2. 1..Len(<<>>) = {}
    OBVIOUS
  <1>3. NotAhead
    BY <1>1, <1>2 DEF NotAhead, NoNF
  <1>4. AllKnown
    BY <1>1, <1>2 DEF AllKnown, Versions, Known, NoObject
  <1>5. DoneInv
    BY <1>1 DEF DoneInv, NoNF
  <1> QED
    BY <1>3, <1>4, <1>5, InitMissesNothing DEF FInv

\* Every step keeps the invariant, and leaves what another operator relies on.
LEMMA NextKeepsFirst ==
  ASSUME FInv, [Next]_vars
  PROVE  FInv' /\ FirstStep
  <1>1. CInv'
    BY NextMissesNothing DEF FInv
  <1> SUFFICES FirstStep /\ NotAhead' /\ (First' => AllKnown' /\ DoneInv')
    BY <1>1 DEF FInv
  <1>2. CASE UNCHANGED vars
    <2>1. UNCHANGED <<store, cache, watch, nf, queued, delayed, pc, kind, moves, loop>>
      BY <1>2 DEF vars, serverVars, budgets, loop
    <2>2. FirstStep /\ Appended
      BY <2>1, NoWriteIsFirst DEF Appended
    <2> QED
      BY <2>1, <2>2, LoopKeepsFirst
  <1>3. CASE Environment
    BY <1>3, UsersKeepFirst, OthersKeepFirst, DeliverKeepsFirst, TimerKeepsFirst,
       RestartKeepsFirst, NamesAre
    DEF Environment, Outside
  <1>4. CASE Worker
    BY <1>4, BeginKeepsFirst, ReconcilersKeepFirst DEF Worker
  <1> QED
    BY <1>2, <1>3, <1>4 DEF Next

\* At rest, all that the reconciler of the first NFDeployment keeps is there.
LEMMA FirstAtRest == FInv => ServicesCreated
  <1> SUFFICES ASSUME FInv, Quiet, moves = 0, store["nf"].uid = 1,
                      NEW k \in NetworkFunctions, Handled(k), NEW x \in KeptFor(k)
               PROVE  Mine(x)
    BY DEF ServicesCreated
  <1>1. cache["nf"] = store["nf"]
    BY AtRest DEF FInv
  <1>2. First /\ Present
    BY DEF First, Present, Handled
  <1>3. Kept(x)
    BY <1>1, <1>2 DEF FInv, DoneInv, Quiet, Handled
  <1> QED
    BY <1>2, <1>3 DEF Kept

-----------------------------------------------------------------------------
(* Another writer.                                                         *)

\* The steps of others, seen as events to come, keep the invariant if they leave
\* the objects as a step of the operator would.
LEMMA AnotherKeepsFirst ==
  ASSUME FInv, CInv', FirstStep, Appended, UNCHANGED loop
  PROVE  FInv'
  BY LoopKeepsFirst DEF FInv

\* An operator that has just started knows what is stored.
LEMMA StartKeepsFirst ==
  ASSUME CInv', cache' = store', watch' = [x \in Names |-> <<>>],
         pc' = "idle", nf' = NoNF,
         store'["nf"].live => queued',
         First' => \A x \in Objects : Known(x, store[x])'
  PROVE  FInv'
  <1>1. store'["nf"].uid \in Nat
    BY NamesAre DEF CInv, IInv, ServerInv, ServerTypes, Identified, NFRecord
  <1>2. \A x \in Names : 1..Len(watch'[x]) = {}
    OBVIOUS
  <1>3. NotAhead'
    BY <1>1, <1>2, NamesAre DEF NotAhead, NoNF
  <1>4. \A x \in Objects : Versions(x)' = {store'[x]}
    BY <1>2, NamesAre DEF Versions
  <1>5. First' => AllKnown'
    BY <1>4 DEF AllKnown
  <1>6. DoneInv'
    BY DEF DoneInv
  <1> QED
    BY <1>3, <1>5, <1>6 DEF FInv
=============================================================================
