------------------------- MODULE ConvergenceProofs -------------------------
(***************************************************************************)
(* The operator does not come to rest at the wrong place: proofs of        *)
(* SettledMeansConverged and SettledMeansRepaired, for any values of the   *)
(* constants.                                                              *)
(*                                                                         *)
(* The invariant says what must be true while nothing is queued or delayed, *)
(* and says it of the caches, which are all that the operator sees.  Every *)
(* step that could make it false wakes the operator.                       *)
(***************************************************************************)
EXTENDS NFOperatorProofs

\* The objects that a Reconcile at its present step has dealt with.
Passed == CASE pc \in ConfigMaps  -> {}
            [] pc \in Deployments -> ConfigMaps
            [] OTHER              -> Watched

\* An event is pending that will wake the operator.
Coming(x) == \E i \in 1..Len(watch[x]) : ByNF(watch[x][i].owner)

\* Somebody else's object stands, or stood, in the operator's place, as far as
\* the cache knows.
Lost(x) == cache[x].gen > 0 /\ ~ByNF(cache[x].owner)

\* There is nothing to do for x, or an event is pending that will show what.
Met(k, x) ==
  \/ /\ k # "upf"
     /\ \/ Lost(x)
        \/ /\ cache[x].live
           /\ IF x \in ConfigMaps THEN cache[x].data = Config[cache["nf"].addr]
                                  ELSE cache[x].data # "drift"
  \/ /\ k = "upf"
     /\ \/ Coming(x)
        \/ cache[x].live /\ ByNF(cache[x].owner) /\ cache[x].data = "fixed"

\* The status says what there is to say, unless an event is pending.
Told(k) ==
  \/ watch["nf"] # <<>>
  \/ /\ k # "upf"
     /\ \/ Lost(k)
        \/ /\ cache["nf"].obs = cache["nf"].gen
           /\ (cache["nf"].ready = "True") <=> (cache[k].health.readyReplicas > 0)
  \/ /\ k = "upf"
     /\ Coming("upf") \/ StatusOf(cache["nf"]) = UPFStatus(cache["upf"])

\* Between two Reconciles all is done that the last of them could see.
RestInv ==
  pc = "idle" /\ cache["nf"].live =>
    \A k \in NetworkFunctions : Route(Name, cache["nf"].provider) = k =>
      Told(k) /\ \A x \in KeptFor(k) \cap Watched : Met(k, x)

\* A Reconcile is by the reconciler for the NFDeployment in the cache, works for
\* just that one, and has done all it could see up to its present step, or else
\* will ask to be called again.
FetchInv ==
  pc = "fetch" => cache["nf"].live /\ Route(Name, cache["nf"].provider) = kind

WorkInv ==
  pc \notin {"idle", "fetch"} =>
    /\ nf = cache["nf"] /\ Route(Name, nf.provider) = kind
    /\ \/ kind # "upf" /\ changed
       \/ \A x \in KeptFor(kind) \cap Passed : Met(kind, x)

NothingMissed == ~queued /\ ~delayed => RestInv /\ FetchInv /\ WorkInv

\* What exists has a generation; so has all that an informer has yet to see.
HasGeneration ==
  \A x \in Objects :
    /\ cache[x].live => cache[x].gen > 0
    /\ \A i \in 1..Len(watch[x]) : watch[x][i].gen > 0

CInv == IInv /\ HasGeneration /\ NothingMissed

-----------------------------------------------------------------------------
(* Events and writes.                                                      *)

\* The watched objects of each network function.
LEMMA WatchedAre ==
  /\ KeptFor("amf") \cap Watched = {"amf-config", "amf"}
  /\ KeptFor("smf") \cap Watched = {"smf-config", "smf"}
  /\ KeptFor("upf") \cap Watched = {"upf-config", "upf"}
  /\ Watched \subseteq Objects /\ "nf" \notin Objects
  /\ \A k \in NetworkFunctions : k \in KeptFor(k) \cap Watched
  /\ Passed \subseteq Watched
  BY DEF KeptFor, Watched, Objects, AMFObjects, SMFObjects, UPFObjects, ConfigMaps,
         Deployments, NetworkFunctions, Passed

\* What is stored, cached and pending is well typed; what exists in the store has
\* a generation.
LEMMA ServedTypes ==
  ASSUME CInv, NEW x \in Objects
  PROVE  /\ store[x] \in OwnedRecord /\ cache[x] \in OwnedRecord
         /\ watch[x] \in Seq(OwnedRecord)
         /\ store[x].live => store[x].gen > 0
         /\ watch[x] = <<>> => cache[x] = store[x]
  <1>1. /\ store[x] \in OwnedRecord /\ cache[x] \in OwnedRecord
        /\ watch[x] \in Seq(OwnedRecord)
        /\ watch[x] = <<>> => cache[x] = store[x]
        /\ watch[x] # <<>> => watch[x][Len(watch[x])] = store[x]
    BY NamesAre DEF CInv, IInv, ServerInv, ServerTypes, Trails
  <1>2. watch[x] # <<>> => Len(watch[x]) \in 1..Len(watch[x])
    BY <1>1, EmptySeq, LenProperties
  <1> QED
    BY <1>1, <1>2 DEF CInv, HasGeneration

\* A commit appends to what is pending for one object, and leaves the others.
LEMMA CommitAppends ==
  ASSUME CInv, NEW x \in Names, NEW v \in Version(x), Commit(x, v)
  PROVE  /\ watch'[x] # <<>> /\ Len(watch[x]) \in Nat
         /\ Len(watch'[x]) = Len(watch[x]) + 1
         /\ watch'[x][Len(watch[x]) + 1] = v
         /\ \A i \in 1..Len(watch[x]) : watch'[x][i] = watch[x][i]
         /\ \A y \in Names \ {x} : watch'[y] = watch[y]
  <1>1. /\ watch[x] \in Seq(Version(x))
        /\ watch'[x] = Append(watch[x], v)
        /\ \A y \in Names \ {x} : watch'[y] = watch[y]
    BY DEF Commit, CInv, IInv, ServerInv, ServerTypes
  <1> QED
    BY <1>1, AppendProperties, LenProperties

\* The invariant speaks of the caches: a write leaves it alone, whoever makes
\* it, if what is written has a generation.
LEMMA CommitMissesNothing ==
  ASSUME CInv, NEW x \in Names, NEW v \in Version(x), Commit(x, v),
         x # "nf" => v.gen > 0, UNCHANGED cache
  PROVE  /\ HasGeneration'
         /\ \A k \in NetworkFunctions :
              /\ Told(k) => Told(k)'
              /\ \A y \in Objects : Met(k, y) => Met(k, y)'
         /\ ByNF(v.owner) => Coming(x)'
  <1>1. /\ watch'[x] # <<>> /\ Len(watch[x]) \in Nat
        /\ Len(watch'[x]) = Len(watch[x]) + 1
        /\ watch'[x][Len(watch[x]) + 1] = v
        /\ \A i \in 1..Len(watch[x]) : watch'[x][i] = watch[x][i]
        /\ \A y \in Names \ {x} : watch'[y] = watch[y]
    BY CommitAppends
  <1>2. \A i \in 1..Len(watch'[x]) :
          i = Len(watch[x]) + 1 \/ i \in 1..Len(watch[x])
    BY <1>1
  <1>3. /\ \A i \in 1..Len(watch[x]) : i \in 1..Len(watch'[x])
        /\ Len(watch[x]) + 1 \in 1..Len(watch'[x])
    BY <1>1
  <1>4. HasGeneration'
    BY <1>1, <1>2, NamesAre DEF CInv, HasGeneration, Objects
  <1>5. \A y \in Objects : Coming(y) => Coming(y)'
    <2> TAKE y \in Objects
    <2>1. CASE y = x
      BY <2>1, <1>1, <1>3 DEF Coming, ByNF
    <2>2. CASE y # x
      BY <2>2, <1>1, NamesAre DEF Coming, ByNF
    <2> QED
      BY <2>1, <2>2
  <1>6. \A k \in NetworkFunctions, y \in Objects : Met(k, y) => Met(k, y)'
    BY <1>5 DEF Met, Lost, ByNF
  <1>7. watch["nf"] # <<>> => watch'["nf"] # <<>>
    BY <1>1, NamesAre
  <1>8. \A k \in NetworkFunctions : Told(k) => Told(k)'
    BY <1>5, <1>7 DEF Told, Lost, ByNF, Objects, UPFObjects, StatusOf, UPFStatus
  <1>9. ByNF(v.owner) => Coming(x)'
    BY <1>1, <1>3 DEF Coming, ByNF
  <1> QED
    BY <1>4, <1>6, <1>8, <1>9

\* The registers that the invariant is about.
loop == <<cache, queued, delayed, pc, kind, nf, changed>>

\* So it does while nothing in the loop itself moves.
LEMMA OutsideMissesNothing ==
  ASSUME CInv, NEW x \in Names, NEW v \in Version(x), Commit(x, v),
         x # "nf" => v.gen > 0, UNCHANGED loop
  PROVE  HasGeneration' /\ NothingMissed'
  <1>1. /\ HasGeneration'
        /\ \A k \in NetworkFunctions :
             /\ Told(k) => Told(k)'
             /\ \A y \in Objects : Met(k, y) => Met(k, y)'
    BY CommitMissesNothing DEF loop
  <1>2. Passed' = Passed /\ Passed \subseteq Objects
    BY WatchedAre DEF Passed, loop
  <1>3. kind \in NetworkFunctions
    BY DEF CInv, IInv, WorkerTypes
  <1> SUFFICES ASSUME ~queued', ~delayed' PROVE RestInv' /\ FetchInv' /\ WorkInv'
    BY <1>1 DEF NothingMissed
  <1>4. RestInv /\ FetchInv /\ WorkInv
    BY DEF CInv, NothingMissed, loop
  <1>5. RestInv'
    BY <1>1, <1>4, WatchedAre DEF RestInv, loop
  <1>6. FetchInv'
    BY <1>4 DEF FetchInv, loop
  <1>7. WorkInv'
    BY <1>1, <1>2, <1>3, <1>4 DEF WorkInv, loop
  <1> QED
    BY <1>5, <1>6, <1>7

\* A step that leaves the key in the queue, or on its way there, misses nothing.
LEMMA AwakeMissesNothing ==
  ASSUME queued' \/ delayed'
  PROVE  NothingMissed'
  BY DEF NothingMissed

\* Generations stay as they are while cache and events do.
LEMMA SameGenerations ==
  ASSUME CInv, UNCHANGED <<cache, watch>>
  PROVE  HasGeneration'
  BY DEF CInv, HasGeneration

-----------------------------------------------------------------------------
(* The environment.                                                        *)

\* An edit keeps or raises the generation.
LEMMA RewrittenGeneration ==
  ASSUME NEW x \in Objects, NEW v \in OwnedRecord, NEW d \in Data, v.gen > 0
  PROVE  Rewritten(x, v, d).gen > 0
  BY DEF Rewritten, OwnedRecord

\* Users, and the garbage collector's last step for the NFDeployment.
LEMMA UsersMissNothing ==
  ASSUME CInv, Users \/ FinishDeletion
  PROVE  HasGeneration' /\ NothingMissed'
  <1>1. store["nf"] \in Identified
    BY NamesAre DEF CInv, IInv, ServerInv, ServerTypes
  <1>2. PICK v \in Identified : Commit("nf", v) /\ UNCHANGED loop
    <2>1. CASE CreateNF
      <3>1. PICK a \in Addrs, p \in Providers :
              UserWrites(Created(store["nf"].uid + 1, a, p))
        BY <2>1 DEF CreateNF, Created
      <3>2. p \in AllProviders
        BY ParametersAssumption
      <3>3. Created(store["nf"].uid + 1, a, p) \in Identified
        BY <1>1, <3>2, CreatedType
      <3> QED
        BY <3>1, <3>3 DEF UserWrites, Writes, loop
    <2>2. CASE EditNF
      <3>1. PICK a \in Addrs, p \in Providers :
              UserWrites([store["nf"] EXCEPT !.gen = @ + 1, !.addr = a, !.provider = p])
        BY <2>2 DEF EditNF
      <3> DEFINE v == [store["nf"] EXCEPT !.gen = @ + 1, !.addr = a, !.provider = p]
      <3>2. p \in AllProviders
        BY ParametersAssumption
      <3>3. v \in Identified
        BY <1>1, <3>2, EditedType
      <3> QED
        BY <3>1, <3>3 DEF UserWrites, Writes, loop
    <2>3. CASE TouchNF
      BY <2>3, <1>1 DEF TouchNF, UserWrites, Writes, loop
    <2>4. CASE DeleteNF \/ FinishDeletion
      <3> DEFINE v == [NoNF EXCEPT !.uid = store["nf"].uid]
      <3>1. v \in Identified
        BY <1>1, BlankTypes DEF Identified, NFRecord, NoNF
      <3>2. Commit("nf", v) /\ UNCHANGED loop
        BY <2>4 DEF DeleteNF, FinishDeletion, UserWrites, Writes, loop
      <3> QED
        BY <3>1, <3>2
    <2>5. CASE DeleteInForeground
      <3> DEFINE v == [store["nf"] EXCEPT !.deleting = TRUE, !.gen = @ + 1]
      <3>1. v \in Identified
        BY <1>1, MarkedType
      <3> QED
        BY <3>1, <2>5 DEF DeleteInForeground, UserWrites, Writes, loop
    <2> QED
      BY <2>1, <2>2, <2>3, <2>4, <2>5 DEF Users
  <1> QED
    BY <1>2, NamesAre, OutsideMissesNothing

\* Others who touch an object and the garbage collector write a version of it.
LEMMA OthersWrite ==
  ASSUME CInv, NEW x \in Objects, Others(x) \/ CollectGarbage(x)
  PROVE  \E v \in OwnedRecord : v.gen > 0 /\ Commit(x, v) /\ UNCHANGED loop
  <1>1. /\ store[x] \in OwnedRecord
        /\ store[x].live => store[x].gen > 0
        /\ Tombstone(x) \in OwnedRecord /\ Tombstone(x).gen > 0
    <2>1. store[x] \in OwnedRecord /\ (store[x].live => store[x].gen > 0)
      BY ServedTypes
    <2>2. Tombstone(x) \in OwnedRecord
      BY TombstoneType DEF CInv
    <2>3. Tombstone(x).gen = 1
      BY DEF Tombstone, NoObject
    <2> QED
      BY <2>1, <2>2, <2>3
  <1>2. CASE ReportHealth(x)
    <2>1. PICK h \in Healths : Moves(x, [store[x] EXCEPT !.health = h])
      BY <1>2 DEF ReportHealth
    <2>2. /\ [store[x] EXCEPT !.health = h] \in OwnedRecord
          /\ [store[x] EXCEPT !.health = h].gen = store[x].gen
      BY <1>1 DEF OwnedRecord
    <2>3. store[x].gen > 0
      BY <1>1, <1>2 DEF ReportHealth
    <2> QED
      BY <2>1, <2>2, <2>3 DEF Moves, Writes, loop
  <1>3. CASE Tamper(x)
    <2>1. PICK d \in {"drift", "hidden"} : Moves(x, Rewritten(x, store[x], d))
      BY <1>3 DEF Tamper
    <2>2. d \in Data /\ store[x].gen > 0
      BY <1>1, <1>3 DEF Tamper, Data
    <2>3. Rewritten(x, store[x], d) \in OwnedRecord /\ Rewritten(x, store[x], d).gen > 0
      BY <1>1, <2>2, RewrittenType, RewrittenGeneration
    <2> QED
      BY <2>1, <2>3 DEF Moves, Writes, loop
  <1>4. CASE Remove(x) \/ CollectGarbage(x)
    BY <1>4, <1>1 DEF Remove, CollectGarbage, Moves, Writes, loop
  <1>5. CASE Occupy(x)
    <2>1. PICK o \in {0, Foreign} :
            Moves(x, [NoObject EXCEPT !.live = TRUE, !.owner = o, !.data = "drift",
                                      !.gen = 1])
      BY <1>5 DEF Occupy
    <2> DEFINE v == [NoObject EXCEPT !.live = TRUE, !.owner = o, !.data = "drift",
                                     !.gen = 1]
    <2>2. "drift" \in Data /\ o \in Nat \cup {Foreign}
      BY DEF Data
    <2>3. v \in OwnedRecord /\ v.gen = 1
      BY <2>2, BlankTypes DEF OwnedRecord, NoObject
    <2>4. Commit(x, v) /\ UNCHANGED loop
      BY <2>1 DEF Moves, Writes, loop
    <2> HIDE DEF v
    <2> QED
      BY <2>3, <2>4
  <1> QED
    BY <1>2, <1>3, <1>4, <1>5 DEF Others

\* Other clients, and the garbage collector.
LEMMA OthersMissNothing ==
  ASSUME CInv, NEW x \in Objects, Others(x) \/ CollectGarbage(x)
  PROVE  HasGeneration' /\ NothingMissed'
  <1>1. PICK v \in OwnedRecord : v.gen > 0 /\ Commit(x, v) /\ UNCHANGED loop
    BY OthersWrite
  <1> QED
    BY <1>1, NamesAre, OutsideMissesNothing

\* An event that does not wake the operator is for an object of somebody else,
\* or for a Service.
LEMMA DeliverMissesNothing ==
  ASSUME CInv, NEW y \in Names, Deliver(y)
  PROVE  HasGeneration' /\ NothingMissed'
  <1>1. /\ watch[y] \in Seq(Version(y)) /\ watch[y] # <<>>
        /\ cache'[y] = Head(watch[y]) /\ watch'[y] = Tail(watch[y])
        /\ \A x \in Names \ {y} : cache'[x] = cache[x] /\ watch'[x] = watch[x]
        /\ queued' = (queued \/ Enqueues(y, cache[y], Head(watch[y])))
        /\ UNCHANGED <<delayed, pc, kind, nf, changed>>
    BY DEF Deliver, CInv, IInv, ServerInv, ServerTypes
  <1>2. /\ Len(watch'[y]) = Len(watch[y]) - 1 /\ Len(watch[y]) \in Nat
        /\ 1 \in 1..Len(watch[y]) /\ Head(watch[y]) = watch[y][1]
        /\ \A i \in 1..Len(watch'[y]) : watch'[y][i] = watch[y][i + 1]
    BY <1>1, HeadTailProperties, EmptySeq, LenProperties
  <1>3. \A i \in 1..Len(watch'[y]) : i + 1 \in 1..Len(watch[y])
    BY <1>2
  <1>4. HasGeneration'
    <2> SUFFICES ASSUME NEW x \in Objects
                 PROVE  /\ cache'[x].live => cache'[x].gen > 0
                        /\ \A i \in 1..Len(watch'[x]) : watch'[x][i].gen > 0
      BY DEF HasGeneration
    <2>1. /\ cache[x].live => cache[x].gen > 0
          /\ \A i \in 1..Len(watch[x]) : watch[x][i].gen > 0
      BY DEF CInv, HasGeneration
    <2>2. CASE x = y
      BY <2>1, <2>2, <1>1, <1>2, <1>3
    <2>3. CASE x # y
      BY <2>1, <2>3, <1>1, NamesAre
    <2> QED
      BY <2>2, <2>3
  <1> SUFFICES ASSUME ~queued', ~delayed' PROVE RestInv' /\ FetchInv' /\ WorkInv'
    BY <1>4 DEF NothingMissed
  <1>5. RestInv /\ FetchInv /\ WorkInv
    BY <1>1 DEF CInv, NothingMissed
  <1>6. /\ y \in Objects
        /\ y \in Watched => /\ cache[y].live => ~ByNF(cache[y].owner)
                           /\ ~ByNF(cache'[y].owner) /\ Lost(y)'
    <2>1. y \in Objects
      BY <1>1 DEF Enqueues, Names
    <2> QED
      BY <2>1, <1>1, <1>2 DEF Enqueues, Lost, ByNF, CInv, HasGeneration
  <1>7. \A x \in Watched : Coming(x) /\ (x = y => ~ByNF(cache'[x].owner)) => Coming(x)'
    <2> SUFFICES ASSUME NEW x \in Watched, Coming(x), x = y => ~ByNF(cache'[x].owner)
                 PROVE  Coming(x)'
      OBVIOUS
    <2>1. CASE x # y
      BY <2>1, <1>1, WatchedAre, NamesAre DEF Coming, ByNF
    <2>2. CASE x = y
      <3>1. PICK i \in 1..Len(watch[x]) : ByNF(watch[x][i].owner)
        BY DEF Coming
      <3>2. i # 1
        BY <3>1, <2>2, <1>1, <1>2
      <3>3. i - 1 \in 1..Len(watch'[x]) /\ watch'[x][i - 1] = watch[x][i]
        BY <3>2, <2>2, <1>2
      <3> QED
        BY <3>1, <3>3 DEF Coming, ByNF
    <2> QED
      BY <2>1, <2>2
  <1>8. \A k \in NetworkFunctions, x \in Watched : Met(k, x) => Met(k, x)'
    BY <1>1, <1>6, <1>7, WatchedAre, NamesAre DEF Met, Lost, ByNF
  <1>9. ASSUME NEW k \in NetworkFunctions, Told(k), Met(k, k)
        PROVE  Told(k)'
    <2>1. k \in Watched
      BY WatchedAre
    <2>2. cache'["nf"] = cache["nf"] /\ watch'["nf"] = watch["nf"]
      BY <1>1, <1>6, NamesAre
    <2>3. CASE k # y
      BY <2>1, <2>2, <2>3, <1>1, <1>7, <1>9, WatchedAre, NamesAre
      DEF Told, Lost, ByNF, StatusOf, UPFStatus
    <2>4. CASE k = y
      BY <2>1, <2>2, <2>4, <1>6, <1>7, <1>9
      DEF Told, Met, Lost, ByNF, StatusOf, UPFStatus
    <2> QED
      BY <2>3, <2>4
  <1>10. cache'["nf"] = cache["nf"]
    BY <1>1, <1>6, NamesAre
  <1>11. Passed' = Passed /\ kind \in NetworkFunctions
    BY <1>1 DEF Passed, CInv, IInv, WorkerTypes
  <1>12. RestInv'
    BY <1>1, <1>5, <1>8, <1>9, <1>10, WatchedAre DEF RestInv
  <1>13. FetchInv' /\ WorkInv'
    BY <1>1, <1>5, <1>8, <1>10, <1>11, WatchedAre DEF FetchInv, WorkInv
  <1> QED
    BY <1>12, <1>13

\* The delays of the queue.
LEMMA TimerMissesNothing ==
  ASSUME CInv, Timer
  PROVE  HasGeneration' /\ NothingMissed'
  BY SameGenerations, AwakeMissesNothing DEF Timer, serverVars

\* A new process is awake if there is an NFDeployment for it to see.
LEMMA RestartMissesNothing ==
  ASSUME CInv, Restart
  PROVE  HasGeneration' /\ NothingMissed'
  <1>1. PICK fresh \in {Names, {}} :
          /\ cache' = [x \in Names |-> IF x \in fresh THEN store[x] ELSE cache[x]]
          /\ watch' = [x \in Names |-> IF x \in fresh THEN <<>> ELSE watch[x]]
    BY DEF Restart
  <1>2. HasGeneration'
    <2> SUFFICES ASSUME NEW x \in Objects
                 PROVE  /\ cache'[x].live => cache'[x].gen > 0
                        /\ \A i \in 1..Len(watch'[x]) : watch'[x][i].gen > 0
      BY DEF HasGeneration
    <2>1. /\ cache[x].live => cache[x].gen > 0
          /\ store[x].live => store[x].gen > 0
          /\ \A i \in 1..Len(watch[x]) : watch[x][i].gen > 0
      BY ServedTypes DEF CInv, HasGeneration
    <2>2. 1..Len(<<>>) = {}
      OBVIOUS
    <2> QED
      BY <1>1, <2>1, <2>2, NamesAre
  <1>3. ~queued' => ~cache'["nf"].live
    <2>1. queued' = Lists(cache')
      BY DEF Restart
    <2>2. "nf" \in Names /\ Enqueues("nf", Nothing["nf"], cache'["nf"])
      BY NamesAre DEF Enqueues
    <2> QED
      BY <2>1, <2>2 DEF Lists
  <1>4. pc' = "idle"
    BY DEF Restart
  <1>5. NothingMissed'
    BY <1>3, <1>4 DEF NothingMissed, RestInv, FetchInv, WorkInv
  <1> QED
    BY <1>2, <1>5

-----------------------------------------------------------------------------
(* The worker.                                                             *)

\* The choice of the reconciler, or none.
LEMMA BeginMissesNothing ==
  ASSUME CInv, Begin
  PROVE  HasGeneration' /\ NothingMissed'
  <1>1. UNCHANGED <<cache, watch, delayed>>
    BY DEF Begin, serverVars
  <1>2. "none" \notin NetworkFunctions
    BY DEF NetworkFunctions
  <1>3. CASE pc' = "fetch"
    <2>1. pc = "idle"
      BY DEF Begin
    <2>2. cache["nf"].live /\ kind' = Route(Name, cache["nf"].provider)
      BY <2>1, <1>3 DEF Begin
    <2>3. RestInv' /\ WorkInv'
      BY <1>3 DEF RestInv, WorkInv
    <2>4. FetchInv'
      BY <1>1, <2>2 DEF FetchInv
    <2> QED
      BY <1>1, <2>3, <2>4, SameGenerations DEF NothingMissed
  <1>4. CASE pc' # "fetch"
    <2>1. pc' = "idle" /\ (~cache["nf"].live \/ Route(Name, cache["nf"].provider) = "none")
      BY <1>4 DEF Begin
    <2>2. RestInv'
      BY <1>1, <1>2, <2>1 DEF RestInv
    <2>3. FetchInv' /\ WorkInv'
      BY <2>1 DEF FetchInv, WorkInv
    <2> QED
      BY <1>1, <2>2, <2>3, SameGenerations DEF NothingMissed
  <1> QED
    BY <1>3, <1>4

\* A Reconcile that is not awaited by another finds what it was sent for.
LEMMA FetchMissesNothing ==
  ASSUME CInv, NEW k \in NetworkFunctions, NEW first \in ConfigMaps, Fetch(k, first)
  PROVE  HasGeneration' /\ NothingMissed'
  <1>1. UNCHANGED <<cache, watch, queued, kind>> /\ pc = "fetch" /\ kind = k
    BY DEF Fetch, serverVars
  <1> SUFFICES ASSUME ~queued', ~delayed' PROVE RestInv' /\ FetchInv' /\ WorkInv'
    BY <1>1, SameGenerations DEF NothingMissed
  <1>2. ~delayed
    BY DEF Fetch, Return, CInv, IInv, WorkerTypes
  <1>3. cache["nf"].live /\ Route(Name, cache["nf"].provider) = k
    BY <1>1, <1>2 DEF CInv, NothingMissed, FetchInv
  <1>4. Accepts(k, cache["nf"].provider)
    BY <1>3 DEF Accepts, Route, NetworkFunctions
  <1>5. nf' = cache["nf"] /\ pc' = first
    BY <1>3, <1>4 DEF Fetch
  <1>6. Passed' = {} /\ first \notin {"idle", "fetch"}
    BY <1>5 DEF Passed, ConfigMaps, Deployments, NetworkFunctions
  <1> QED
    BY <1>1, <1>3, <1>5, <1>6 DEF RestInv, FetchInv, WorkInv

\* The order in which each Reconcile deals with its objects.
Follows(k, x, next) ==
  <<x, next>> \in
    CASE k = "amf" -> {<<"amf-config", "amf">>, <<"amf", "amf-service">>,
                       <<"amf-service", "amf-headless">>, <<"amf-headless", "status">>}
      [] k = "smf" -> {<<"smf-config", "smf">>, <<"smf", "smf-service">>,
                       <<"smf-service", "status">>}
      [] k = "upf" -> {<<"upf-config", "upf">>, <<"upf", "upf-service">>,
                       <<"upf-service", "status">>}

\* After each object a Reconcile has dealt with one more of those it is about.
LEMMA PassedOneMore ==
  ASSUME NEW k \in NetworkFunctions, NEW x \in Objects, NEW next \in Objects \cup {"status"},
         pc = x, pc' = next, Follows(k, x, next)
  PROVE  KeptFor(k) \cap Passed' \subseteq (KeptFor(k) \cap Passed) \cup ({x} \cap Watched)
  BY DEF Follows, Passed, ConfigMaps, Deployments, Watched, NetworkFunctions, KeptFor,
         AMFObjects, SMFObjects, UPFObjects

\* A Reconcile that goes on misses nothing if it has seen to x, or will be back.
LEMMA GoingOnMissesNothing ==
  ASSUME CInv, NEW k \in NetworkFunctions, NEW x \in Objects,
         NEW next \in Objects \cup {"status"}, Follows(k, x, next),
         pc = x, kind = k, pc' = next, UNCHANGED <<cache, queued, delayed, kind, nf>>,
         \A y \in Objects : Met(k, y) => Met(k, y)',
         \/ k # "upf" /\ changed'
         \/ (k = "upf" \/ UNCHANGED changed) /\ (x \in Watched => Met(k, x)')
  PROVE  NothingMissed'
  <1> SUFFICES ASSUME ~queued', ~delayed' PROVE RestInv' /\ FetchInv' /\ WorkInv'
    BY DEF NothingMissed
  <1>1. /\ pc \notin {"idle", "fetch"} /\ pc' \notin {"idle", "fetch"}
        /\ KeptFor(k) \cap Passed \subseteq Objects
    BY WatchedAre DEF Objects, AMFObjects, SMFObjects, UPFObjects
  <1>2. /\ nf = cache["nf"] /\ Route(Name, nf.provider) = k
        /\ (k # "upf" /\ changed) \/ \A y \in KeptFor(k) \cap Passed : Met(k, y)
    BY <1>1 DEF CInv, NothingMissed, WorkInv
  <1>3. KeptFor(k) \cap Passed' \subseteq (KeptFor(k) \cap Passed) \cup ({x} \cap Watched)
    BY PassedOneMore
  <1>4. (k # "upf" /\ changed') \/ \A y \in KeptFor(k) \cap Passed' : Met(k, y)'
    BY <1>1, <1>2, <1>3
  <1> QED
    BY <1>1, <1>2, <1>4 DEF RestInv, FetchInv, WorkInv

\* A call ends in an error, and a Reconcile to come, or with the object written.
LEMMA CallMissesNothing ==
  ASSUME CInv, NEW x \in Objects, NEW v \in OwnedRecord, NEW valid \in BOOLEAN,
         NEW next \in Objects \cup {"status"}, Call(x, v, valid, next),
         valid => v.gen > 0
  PROVE  /\ HasGeneration' /\ UNCHANGED <<cache, queued, kind>>
         /\ \/ delayed'
            \/ /\ valid /\ pc' = next /\ changed' /\ UNCHANGED <<delayed, nf>>
               /\ \A k \in NetworkFunctions, y \in Objects : Met(k, y) => Met(k, y)'
               /\ v = store[x] \/ (ByNF(v.owner) => Coming(x)')
  <1>1. UNCHANGED <<cache, queued, kind>>
    BY DEF Call
  <1>2. UNCHANGED serverVars \/ (valid /\ Commit(x, v))
    BY DEF Call, Put
  <1>3. ASSUME UNCHANGED serverVars
        PROVE  /\ HasGeneration'
               /\ \A k \in NetworkFunctions, y \in Objects : Met(k, y) => Met(k, y)'
    BY <1>1, <1>3, SameGenerations DEF serverVars, Met, Lost, Coming, ByNF
  <1>4. ASSUME valid, Commit(x, v)
        PROVE  /\ HasGeneration'
               /\ \A k \in NetworkFunctions, y \in Objects : Met(k, y) => Met(k, y)'
               /\ ByNF(v.owner) => Coming(x)'
    BY <1>1, <1>4, NamesAre, CommitMissesNothing
  <1>5. CASE Return(TRUE)
    <2>1. delayed'
      BY <1>5 DEF Return
    <2> QED
      BY <1>1, <1>2, <1>3, <1>4, <2>1
  <1>6. CASE /\ valid /\ Put(x, v) /\ pc' = next /\ changed' = TRUE
             /\ UNCHANGED <<delayed, nf, overtaken, faults>>
    <2>1. CASE v = store[x]
      BY <1>1, <1>3, <1>6, <2>1 DEF Put
    <2>2. CASE v # store[x]
      BY <1>1, <1>4, <1>6, <2>2 DEF Put
    <2> QED
      BY <2>1, <2>2
  <1> QED
    BY <1>5, <1>6 DEF Call

\* The AMF's and the SMF's steps for an owned object: what is written brings the
\* Reconcile back, what is left alone is right.
LEMMA ReconcileObjectMissesNothing ==
  ASSUME CInv, NEW k \in SDCoreKinds, NEW x \in Objects,
         NEW next \in Objects \cup {"status"}, Follows(k, x, next),
         ReconcileObject(k, x, next)
  PROVE  HasGeneration' /\ NothingMissed'
  <1>1. /\ pc = x /\ kind = k /\ k \in NetworkFunctions /\ k # "upf"
        /\ cache[x] \in OwnedRecord /\ IInv
    BY ServedTypes DEF ReconcileObject, SDCoreKinds, NetworkFunctions, CInv
  <1>2. CASE cache[x].live /\ Equal(x, cache[x]) /\ Skip(next)
    <2>1. UNCHANGED <<cache, watch, queued, delayed, kind, nf, changed>> /\ pc' = next
      BY <1>2 DEF Skip, serverVars
    <2>2. \A y \in Objects : Met(k, y) => Met(k, y)'
      BY <2>1 DEF Met, Lost, Coming, ByNF
    <2>3. ASSUME ~queued, ~delayed
          PROVE  Met(k, x)'
      <3>1. pc \notin {"idle", "fetch"}
        BY <1>1 DEF Objects, AMFObjects, SMFObjects, UPFObjects
      <3>2. nf = cache["nf"]
        BY <2>3, <3>1 DEF CInv, NothingMissed, WorkInv
      <3> QED
        BY <1>1, <1>2, <2>1, <3>2 DEF Met, Equal, WantedData
    <2>4. NothingMissed'
      <3>1. CASE queued \/ delayed
        BY <2>1, <3>1, AwakeMissesNothing
      <3>2. CASE ~queued /\ ~delayed
        BY <1>1, <2>1, <2>2, <2>3, <3>2, GoingOnMissesNothing
      <3> QED
        BY <3>1, <3>2
    <2> QED
      BY <2>1, <2>4, SameGenerations
  <1>3. ASSUME NEW v \in OwnedRecord, NEW valid \in BOOLEAN, Call(x, v, valid, next),
               valid => v.gen > 0
        PROVE  HasGeneration' /\ NothingMissed'
    <2>1. /\ HasGeneration' /\ UNCHANGED <<cache, queued, kind>>
          /\ \/ delayed'
             \/ /\ pc' = next /\ changed' /\ UNCHANGED <<delayed, nf>>
                /\ \A y \in Objects : Met(k, y) => Met(k, y)'
      BY <1>1, <1>3, CallMissesNothing
    <2>2. CASE delayed'
      BY <2>1, <2>2, AwakeMissesNothing
    <2>3. CASE ~delayed'
      BY <1>1, <2>1, <2>3, GoingOnMissesNothing
    <2> QED
      BY <2>2, <2>3
  <1>4. CASE CreateObject(x, Wanted(x), next)
    <2>1. Wanted(x) \in OwnedRecord /\ Wanted(x).gen > 0
      <3>1. Wanted(x) \in OwnedRecord
        BY <1>1, SDCoreWriteTypes
      <3>2. Wanted(x).gen = 1
        BY DEF Wanted, NoObject
      <3> QED
        BY <3>1, <3>2
    <2>2. Call(x, Wanted(x), ~store[x].live, next)
      BY <1>4 DEF CreateObject
    <2> QED
      BY <2>1, <2>2, <1>3
  <1>5. CASE cache[x].live /\ UpdateObject(x, Updated(x, cache[x]), next)
    <2>1. cache[x].gen > 0
      BY <1>5 DEF CInv, HasGeneration
    <2>2. WantedData(x) \in Data
      BY <1>1, ParametersAssumption
      DEF IInv, WorkerTypes, Identified, NFRecord, WantedData, Data
    <2>3. Updated(x, cache[x]) \in OwnedRecord /\ Updated(x, cache[x]).gen > 0
      BY <1>1, <2>1, <2>2, RewrittenType, RewrittenGeneration DEF Updated
    <2>4. Call(x, Updated(x, cache[x]), watch[x] = <<>>, next)
      BY <1>5 DEF UpdateObject
    <2> QED
      BY <2>3, <2>4, <1>3
  <1> QED
    BY <1>2, <1>4, <1>5 DEF ReconcileObject

\* A Reconcile that is called back or has told all misses nothing.
LEMMA ReturningMissesNothing ==
  ASSUME CInv, NEW k \in NetworkFunctions, pc = "status", kind = k,
         NEW again \in BOOLEAN, Return(again), UNCHANGED <<cache, queued, kind>>,
         k # "upf" /\ changed => again,
         ~queued /\ ~again /\ nf = cache["nf"] => Told(k)',
         \A y \in Objects : Met(k, y) => Met(k, y)'
  PROVE  NothingMissed'
  <1>1. CASE queued \/ delayed \/ again
    BY <1>1, AwakeMissesNothing DEF Return
  <1>2. CASE ~queued /\ ~delayed /\ ~again
    <2>1. nf = cache["nf"] /\ Route(Name, nf.provider) = k /\ ~(k # "upf" /\ changed)
          /\ \A y \in KeptFor(k) \cap Passed : Met(k, y)
      BY <1>2 DEF CInv, NothingMissed, WorkInv
    <2>2. Passed = Watched
      BY DEF Passed, ConfigMaps, Deployments, NetworkFunctions
    <2>3. Told(k)' /\ \A y \in KeptFor(k) \cap Watched : Met(k, y)'
      BY <1>2, <2>1, <2>2, WatchedAre
    <2>4. pc' = "idle"
      BY DEF Return
    <2>5. RestInv'
      BY <2>1, <2>3 DEF RestInv
    <2> QED
      BY <2>4, <2>5 DEF NothingMissed, FetchInv, WorkInv
  <1> QED
    BY <1>1, <1>2

\* A Reconcile that gives up, to be called again.
LEMMA GivingUpMissesNothing ==
  ASSUME CInv, Return(TRUE), UNCHANGED <<serverVars, cache, queued, kind, budgets>>
  PROVE  HasGeneration' /\ NothingMissed'
  BY SameGenerations, AwakeMissesNothing DEF Return, serverVars

\* A status update that is made is an event, or says again what the stored
\* status says.
LEMMA StatusUpdateMissesNothing ==
  ASSUME CInv, NEW k \in NetworkFunctions, pc = "status", kind = k,
         NEW s \in [obs: Nat, available: Conds, ready: Conds],
         NEW restamped \in BOOLEAN, NEW again \in BOOLEAN,
         UpdateStatusOfNF(s, restamped, again),
         k # "upf" /\ changed => again,
         k = "upf" => restamped,
         k # "upf" => s.obs = nf.gen
                      /\ ((s.ready = "True") <=> (cache[k].health.readyReplicas > 0))
  PROVE  HasGeneration' /\ NothingMissed'
  <1>1. store["nf"] \in Identified /\ WithStatus(s) \in Identified
        /\ WithStatus(s).obs = s.obs /\ WithStatus(s).gen = store["nf"].gen
        /\ WithStatus(s).ready = s.ready
    <2>1. store["nf"] \in Identified
      BY NamesAre DEF CInv, IInv, ServerInv, ServerTypes
    <2>2. WithStatus(s).ready = s.ready
      BY <2>1 DEF WithStatus, Identified, NFRecord
    <2> QED
      BY <2>1, <2>2, StatusedType
  <1>2. UNCHANGED <<cache, queued, kind>>
    BY DEF UpdateStatusOfNF
  <1>3. ASSUME UNCHANGED serverVars
        PROVE  /\ HasGeneration'
               /\ \A y \in Objects : Met(k, y) => Met(k, y)'
    BY <1>2, <1>3, SameGenerations DEF serverVars, Met, Lost, Coming, ByNF
  <1>4. ASSUME Commit("nf", WithStatus(s))
        PROVE  /\ HasGeneration' /\ watch'["nf"] # <<>>
               /\ \A y \in Objects : Met(k, y) => Met(k, y)'
    BY <1>1, <1>2, <1>4, NamesAre, CommitMissesNothing, CommitAppends
  <1>5. UNCHANGED serverVars \/ Commit("nf", WithStatus(s))
    BY DEF UpdateStatusOfNF, Put
  <1>6. CASE Return(TRUE)
    BY <1>2, <1>3, <1>4, <1>5, <1>6, AwakeMissesNothing DEF Return
  <1>7. CASE Commit("nf", WithStatus(s)) /\ Return(again)
    <2>1. HasGeneration' /\ Told(k)' /\ \A y \in Objects : Met(k, y) => Met(k, y)'
      BY <1>4, <1>7 DEF Told
    <2> QED
      BY <1>2, <1>7, <2>1, ReturningMissesNothing
  <1>8. CASE /\ ~overtaken /\ ~restamped /\ WithStatus(s) = store["nf"]
             /\ UNCHANGED serverVars /\ Return(again)
    <2>1. nf = store["nf"]
      BY <1>8 DEF CInv, IInv, CopyInv
    <2>2. nf = cache["nf"] => Told(k)'
      BY <1>1, <1>2, <1>8, <2>1 DEF Told
    <2> QED
      BY <1>2, <1>3, <1>8, <2>2, ReturningMissesNothing
  <1> QED
    BY <1>6, <1>7, <1>8 DEF UpdateStatusOfNF, Put

\* The AMF's and the SMF's last step.
LEMMA UpdateStatusMissesNothing ==
  ASSUME CInv, NEW k \in SDCoreKinds, UpdateStatus(k)
  PROVE  HasGeneration' /\ NothingMissed'
  <1>1. CASE DeploymentMissing(k)
    BY <1>1, GivingUpMissesNothing DEF DeploymentMissing
  <1>2. ASSUME NEW restamped \in BOOLEAN,
               UpdateStatusOfNF(SDCoreStatus(cache[k]), restamped, changed)
        PROVE  HasGeneration' /\ NothingMissed'
    <2>1. /\ SDCoreStatus(cache[k]) \in [obs: Nat, available: Conds, ready: Conds]
          /\ pc = "status" /\ kind = k /\ changed \in BOOLEAN
      BY DEF CInv, IInv, WorkerTypes, Identified, NFRecord, SDCoreStatus, Conds,
             UpdateStatus
    <2>2. /\ SDCoreStatus(cache[k]).obs = nf.gen
          /\ (SDCoreStatus(cache[k]).ready = "True") <=> (cache[k].health.readyReplicas > 0)
      BY DEF SDCoreStatus
    <2>3. k \in NetworkFunctions /\ k # "upf"
      BY DEF SDCoreKinds, NetworkFunctions
    <2> QED
      BY <1>2, <2>1, <2>2, <2>3, StatusUpdateMissesNothing
  <1> QED
    BY <1>1, <1>2 DEF UpdateStatus

\* The UPF's steps for an object: what is written is the NFDeployment's, and
\* an event to come.
LEMMA CreateOrUpdateMissesNothing ==
  ASSUME CInv, NEW x \in Objects, NEW next \in Objects \cup {"status"},
         Follows("upf", x, next), CreateOrUpdate(x, next)
  PROVE  HasGeneration' /\ NothingMissed'
  <1>1. /\ pc = x /\ kind = "upf" /\ "upf" \in NetworkFunctions
        /\ cache[x] \in OwnedRecord /\ IInv /\ ByNF(nf.uid)
    BY ServedTypes, CopyHasUid DEF CreateOrUpdate, NetworkFunctions, CInv
  <1>2. CASE Return(TRUE) /\ UNCHANGED <<serverVars, cache, queued, kind, budgets>>
    BY <1>2, GivingUpMissesNothing
  <1>3. /\ Mutated(x, cache[x]).live /\ Mutated(x, cache[x]).owner = nf.uid
        /\ Mutated(x, cache[x]).data = "fixed"
        /\ cache[x].gen > 0 => Mutated(x, cache[x]).gen > 0
    <2>1. PICK w \in OwnedRecord : w = Rewritten(x, cache[x], "fixed") /\ w.data = "fixed"
      BY <1>1, RewrittenType DEF Data
    <2>2. cache[x].gen > 0 => w.gen > 0
      BY <1>1, <2>1, RewrittenGeneration DEF Data
    <2>3. Mutated(x, cache[x]) = [w EXCEPT !.live = TRUE, !.owner = nf.uid]
      BY <2>1 DEF Mutated, Configured
    <2> QED
      BY <2>1, <2>2, <2>3 DEF OwnedRecord
  <1>4. Mutated(x, cache[x]) = cache[x] => Met("upf", x)
    BY <1>1, <1>3 DEF Met
  <1>5. CASE cache[x].live /\ Mutated(x, cache[x]) = cache[x] /\ Skip(next)
    <2>1. UNCHANGED <<cache, watch, queued, delayed, kind, nf, changed>> /\ pc' = next
      BY <1>5 DEF Skip, serverVars
    <2>2. \A y \in Objects : Met("upf", y) => Met("upf", y)'
      BY <2>1 DEF Met, Lost, Coming, ByNF
    <2>3. NothingMissed'
      BY <1>1, <1>4, <1>5, <2>1, <2>2, GoingOnMissesNothing
    <2> QED
      BY <2>1, <2>3, SameGenerations
  <1>6. ASSUME NEW v \in OwnedRecord, NEW valid \in BOOLEAN, Call(x, v, valid, next),
               v.gen > 0, ByNF(v.owner),
               valid /\ v = store[x] => Met("upf", x)
        PROVE  HasGeneration' /\ NothingMissed'
    <2>1. /\ HasGeneration' /\ UNCHANGED <<cache, queued, kind>>
          /\ \/ delayed'
             \/ /\ valid /\ pc' = next /\ UNCHANGED <<delayed, nf>>
                /\ \A y \in Objects : Met("upf", y) => Met("upf", y)'
                /\ v = store[x] \/ Coming(x)'
      BY <1>1, <1>6, CallMissesNothing
    <2>2. CASE delayed'
      BY <2>1, <2>2, AwakeMissesNothing
    <2>3. CASE ~delayed'
      <3>1. Met("upf", x)'
        BY <1>6, <2>1, <2>3 DEF Met
      <3> QED
        BY <1>1, <2>1, <2>3, <3>1, GoingOnMissesNothing
    <2> QED
      BY <2>2, <2>3
  <1>7. CASE CreateObject(x, [Mutated(x, NoObject) EXCEPT !.gen = 1], next)
    <2> DEFINE v == [Mutated(x, NoObject) EXCEPT !.gen = 1]
    <2>1. v \in OwnedRecord /\ v.owner = nf.uid /\ Mutated(x, NoObject) \in OwnedRecord
      BY <1>1, MutatedType, BlankTypes
    <2>2. v.gen > 0 /\ v.live = Mutated(x, NoObject).live
      BY <2>1 DEF OwnedRecord
    <2>3. Mutated(x, NoObject).live
      BY DEF Mutated, Configured, Rewritten, NoObject
    <2>4. Call(x, v, ~store[x].live, next)
      BY <1>7 DEF CreateObject
    <2>5. (~store[x].live) \in BOOLEAN /\ (~store[x].live => v # store[x])
      BY <2>2, <2>3
    <2> HIDE DEF v
    <2> QED
      BY <1>1, <1>6, <2>1, <2>2, <2>4, <2>5
  <1>8. CASE cache[x].live /\ UpdateObject(x, Mutated(x, cache[x]), next)
    <2>1. Mutated(x, cache[x]) \in OwnedRecord
      BY <1>1, MutatedType
    <2>2. cache[x].gen > 0
      BY <1>8 DEF CInv, HasGeneration
    <2>3. watch[x] = <<>> => cache[x] = store[x]
      BY ServedTypes
    <2>4. Call(x, Mutated(x, cache[x]), watch[x] = <<>>, next)
      BY <1>8 DEF UpdateObject
    <2> QED
      BY <1>1, <1>3, <1>4, <1>6, <2>1, <2>2, <2>3, <2>4
  <1> QED
    BY <1>2, <1>5, <1>7, <1>8 DEF CreateOrUpdate

\* The UPF's last step.
LEMMA UpdateUPFStatusMissesNothing ==
  ASSUME CInv, UpdateUPFStatus
  PROVE  HasGeneration' /\ NothingMissed'
  <1>1. /\ cache["upf"] \in OwnedRecord /\ kind = "upf" /\ pc = "status"
        /\ "upf" \in NetworkFunctions
    BY ServedTypes DEF UpdateUPFStatus, Objects, UPFObjects, NetworkFunctions
  <1>2. CASE Return(TRUE) /\ UNCHANGED <<serverVars, cache, queued, kind, budgets>>
    BY <1>2, GivingUpMissesNothing
  <1>3. CASE UpdateStatusOfNF(UPFStatus(cache["upf"]), TRUE, FALSE)
    <2>1. UPFStatus(cache["upf"]) \in [obs: Nat, available: Conds, ready: Conds]
      BY <1>1 DEF UPFStatus, OwnedRecord, Conds
    <2> QED
      BY <1>1, <1>3, <2>1, StatusUpdateMissesNothing
  <1>4. CASE /\ UPFStatus(cache["upf"]) = StatusOf(nf) /\ Return(FALSE)
             /\ UNCHANGED <<serverVars, cache, queued, kind, budgets>>
    <2>1. UNCHANGED <<cache, watch, queued, kind>>
      BY <1>4 DEF serverVars
    <2>2. \A y \in Objects : Met("upf", y) => Met("upf", y)'
      BY <2>1 DEF Met, Lost, Coming, ByNF
    <2>3. nf = cache["nf"] => Told("upf")'
      BY <1>4, <2>1 DEF Told
    <2> QED
      BY <1>1, <1>4, <2>1, <2>2, <2>3, SameGenerations, ReturningMissesNothing
  <1> QED
    BY <1>2, <1>3, <1>4 DEF UpdateUPFStatus

-----------------------------------------------------------------------------
(* The theorems.                                                           *)

\* An empty cluster.
LEMMA InitMissesNothing == Init => CInv
  <1> SUFFICES ASSUME Init PROVE CInv
    OBVIOUS
  <1>1. \A x \in Objects : ~cache[x].live /\ watch[x] = <<>>
    BY NamesAre DEF Init, Nothing, NoObject
  <1>2. 1..Len(<<>>) = {}
    OBVIOUS
  <1>3. HasGeneration
    BY <1>1, <1>2 DEF HasGeneration
  <1>4. NothingMissed
    BY NamesAre DEF Init, Nothing, NoNF, NothingMissed, RestInv, FetchInv, WorkInv
  <1> QED
    BY <1>3, <1>4, InitEstablishesIInv DEF CInv

\* The steps of the three Reconciles.
LEMMA ReconcilersMissNothing ==
  ASSUME CInv, AMFReconcile \/ SMFReconcile \/ UPFReconcile
  PROVE  HasGeneration' /\ NothingMissed'
  <1>1. /\ SDCoreKinds = {"amf", "smf"} /\ NetworkFunctions = {"amf", "smf", "upf"}
        /\ ConfigMaps = {"amf-config", "smf-config", "upf-config"}
        /\ AMFObjects \cup SMFObjects \cup UPFObjects \subseteq Objects
    BY DEF SDCoreKinds, NetworkFunctions, ConfigMaps, Objects
  <1>2. CASE AMFReconcile
    <2>1. CASE Fetch("amf", "amf-config")
      BY <1>1, <2>1, FetchMissesNothing
    <2>2. ASSUME NEW x \in Objects, NEW next \in Objects \cup {"status"},
                 Follows("amf", x, next), ReconcileObject("amf", x, next)
          PROVE  HasGeneration' /\ NothingMissed'
      BY <1>1, <2>2, ReconcileObjectMissesNothing
    <2>3. CASE UpdateStatus("amf")
      BY <1>1, <2>3, UpdateStatusMissesNothing
    <2> QED
      BY <1>1, <1>2, <2>1, <2>2, <2>3 DEF AMFReconcile, Follows, AMFObjects
  <1>3. CASE SMFReconcile
    <2>1. CASE Fetch("smf", "smf-config")
      BY <1>1, <2>1, FetchMissesNothing
    <2>2. ASSUME NEW x \in Objects, NEW next \in Objects \cup {"status"},
                 Follows("smf", x, next), ReconcileObject("smf", x, next)
          PROVE  HasGeneration' /\ NothingMissed'
      BY <1>1, <2>2, ReconcileObjectMissesNothing
    <2>3. CASE UpdateStatus("smf")
      BY <1>1, <2>3, UpdateStatusMissesNothing
    <2> QED
      BY <1>1, <1>3, <2>1, <2>2, <2>3 DEF SMFReconcile, Follows, SMFObjects
  <1>4. CASE UPFReconcile
    <2>1. CASE Fetch("upf", "upf-config")
      BY <1>1, <2>1, FetchMissesNothing
    <2>2. ASSUME NEW x \in Objects, NEW next \in Objects \cup {"status"},
                 Follows("upf", x, next), CreateOrUpdate(x, next)
          PROVE  HasGeneration' /\ NothingMissed'
      BY <2>2, CreateOrUpdateMissesNothing
    <2>3. CASE UpdateUPFStatus
      BY <2>3, UpdateUPFStatusMissesNothing
    <2> QED
      BY <1>1, <1>4, <2>1, <2>2, <2>3 DEF UPFReconcile, Follows, UPFObjects
  <1> QED
    BY <1>2, <1>3, <1>4

\* Every step keeps the invariant.
LEMMA NextMissesNothing ==
  ASSUME CInv, [Next]_vars
  PROVE  CInv'
  <1>1. IInv'
    BY NextKeepsIInv DEF CInv
  <1>2. CASE UNCHANGED vars
    <2>1. UNCHANGED <<cache, watch, queued, delayed, pc, kind, nf, changed>>
      BY <1>2 DEF vars
    <2>2. HasGeneration' /\ NothingMissed'
      BY <2>1 DEF CInv, HasGeneration, NothingMissed, RestInv, FetchInv, WorkInv, Met, Told,
             Lost, Coming, ByNF, Passed, StatusOf, UPFStatus
    <2> QED
      BY <1>1, <2>2 DEF CInv
  <1>3. CASE Environment
    <2>1. CASE Users \/ FinishDeletion
      BY <1>1, <2>1, UsersMissNothing DEF CInv
    <2>2. ASSUME NEW x \in Objects, Others(x) \/ CollectGarbage(x)
          PROVE  CInv'
      BY <1>1, <2>2, OthersMissNothing DEF CInv
    <2>3. ASSUME NEW x \in Names, Deliver(x)
          PROVE  CInv'
      BY <1>1, <2>3, DeliverMissesNothing DEF CInv
    <2>4. CASE Timer
      BY <1>1, <2>4, TimerMissesNothing DEF CInv
    <2>5. CASE Restart
      BY <1>1, <2>5, RestartMissesNothing DEF CInv
    <2> QED
      BY <1>3, <2>1, <2>2, <2>3, <2>4, <2>5, NamesAre DEF Environment, Outside
  <1>4. CASE Worker
    <2>1. HasGeneration' /\ NothingMissed'
      BY <1>4, BeginMissesNothing, ReconcilersMissNothing DEF Worker
    <2> QED
      BY <1>1, <2>1 DEF CInv
  <1> QED
    BY <1>2, <1>3, <1>4 DEF Next

\* The invariant holds throughout: while nothing is queued or delayed, all is
\* done that can be seen to be missing.
THEOREM NeverMisses == Spec => []CInv
  <1>1. CInv /\ [Next]_vars => CInv'
    BY NextMissesNothing
  <1> QED
    BY InitMissesNothing, <1>1, PTL DEF Spec

-----------------------------------------------------------------------------
(* Another writer: what the operator's own steps are to somebody who only  *)
(* sees the versions they make, and what such steps of others are to it.   *)

\* The store only ever changes by the commit of a version that is on its way to
\* the informers, then.
LEMMA StepsCommit ==
  ASSUME CInv, [Next]_vars
  PROVE  \/ UNCHANGED store /\ \A x \in Names : Len(watch'[x]) <= Len(watch[x])
         \/ \E x \in Names : \E v : Commit(x, v)
  <1>1. ASSUME NEW x \in Names
        PROVE  watch[x] \in Seq(Version(x)) /\ Len(watch[x]) \in Nat
    BY LenProperties DEF CInv, IInv, ServerInv, ServerTypes
  <1>2. UNCHANGED serverVars =>
          UNCHANGED store /\ \A x \in Names : Len(watch'[x]) <= Len(watch[x])
    BY <1>1 DEF serverVars
  <1>3. CASE Users \/ FinishDeletion
    <2>1. ASSUME NEW v, UserWrites(v)
          PROVE  Commit("nf", v)
      BY <2>1 DEF UserWrites, Writes
    <2>2. Users => \E v : Commit("nf", v)
      BY <2>1, Zenon
      DEF Users, CreateNF, EditNF, TouchNF, DeleteNF, DeleteInForeground
    <2>3. FinishDeletion => \E v : Commit("nf", v)
      BY DEF FinishDeletion, Writes
    <2> QED
      BY <1>3, <2>2, <2>3, NamesAre
  <1>4. ASSUME NEW x \in Objects, Others(x) \/ CollectGarbage(x)
        PROVE  \E v : Commit(x, v)
    BY <1>4 DEF Others, ReportHealth, Tamper, Remove, Occupy, Moves, CollectGarbage, Writes
  <1>5. CASE Worker
    <2>1. ASSUME NEW x \in Objects, NEW v, NEW valid, NEW next, Call(x, v, valid, next)
          PROVE  UNCHANGED serverVars \/ Commit(x, v)
      BY <2>1 DEF Call, Put
    <2>2. ASSUME NEW s, NEW restamped, NEW again, UpdateStatusOfNF(s, restamped, again)
          PROVE  UNCHANGED serverVars \/ Commit("nf", WithStatus(s))
      BY <2>2 DEF UpdateStatusOfNF, Put
    <2>3. ASSUME NEW k, NEW x \in Objects, NEW next, ReconcileObject(k, x, next)
          PROVE  UNCHANGED serverVars \/ \E v : Commit(x, v)
      BY <2>1, <2>3 DEF ReconcileObject, CreateObject, UpdateObject, Skip
    <2>4. ASSUME NEW x \in Objects, NEW next, CreateOrUpdate(x, next)
          PROVE  UNCHANGED serverVars \/ \E v : Commit(x, v)
      BY <2>1, <2>4 DEF CreateOrUpdate, CreateObject, UpdateObject, Skip
    <2>5. ASSUME NEW k, UpdateStatus(k)
          PROVE  UNCHANGED serverVars \/ \E v : Commit("nf", v)
      BY <2>2, <2>5 DEF UpdateStatus, DeploymentMissing
    <2>6. UpdateUPFStatus => UNCHANGED serverVars \/ \E v : Commit("nf", v)
      BY <2>2 DEF UpdateUPFStatus
    <2>7. (\E k, first : Fetch(k, first)) \/ Begin => UNCHANGED serverVars
      BY DEF Fetch, Begin
    <2> QED
      BY <1>2, <1>5, <2>3, <2>4, <2>5, <2>6, <2>7, NamesAre
      DEF Worker, AMFReconcile, SMFReconcile, UPFReconcile, Objects, AMFObjects,
          SMFObjects, UPFObjects
  <1>6. ASSUME NEW y \in Names, Deliver(y)
        PROVE  UNCHANGED store /\ \A x \in Names : Len(watch'[x]) <= Len(watch[x])
    <2>1. /\ store' = store /\ watch[y] # <<>> /\ watch'[y] = Tail(watch[y])
          /\ \A x \in Names \ {y} : watch'[x] = watch[x]
      BY <1>6 DEF Deliver, CInv, IInv, ServerInv, ServerTypes
    <2>2. Len(watch'[y]) = Len(watch[y]) - 1
      BY <1>1, <2>1, HeadTailProperties
    <2>3. ASSUME NEW x \in Names
          PROVE  Len(watch'[x]) <= Len(watch[x])
      <3>1. CASE x = y
        BY <1>1, <2>2, <3>1
      <3>2. CASE x # y
        BY <1>1, <2>1, <3>2
      <3> QED
        BY <3>1, <3>2
    <2> QED
      BY <2>1, <2>3
  <1>7. CASE Restart
    <2>1. store' = store /\ \A x \in Names : watch'[x] \in {<<>>, watch[x]}
      BY <1>7 DEF Restart
    <2> QED
      BY <1>1, <2>1
  <1>8. CASE Timer \/ UNCHANGED vars
    BY <1>2, <1>8 DEF Timer, vars, serverVars
  <1> QED
    BY <1>3, <1>4, <1>5, <1>6, <1>7, <1>8, NamesAre DEF Next, Environment, Outside

\* So what a step stores can be told from the events it sends: it is a version of
\* the object whose informer has one more to see.
LEMMA StepsStore ==
  ASSUME CInv, [Next]_vars
  PROVE  \/ UNCHANGED store /\ \A x \in Names : ~(Len(watch'[x]) > Len(watch[x]))
         \/ \E x \in Names :
              /\ Commit(x, store'[x]) /\ store'[x] \in Version(x)
              /\ x # "nf" => store'[x].gen > 0
              /\ \A y \in Names : Len(watch'[y]) > Len(watch[y]) <=> y = x
  <1>1. CInv'
    BY NextMissesNothing
  <1>2. \A x \in Names : Len(watch[x]) \in Nat /\ Len(watch'[x]) \in Nat
    BY <1>1, LenProperties DEF CInv, IInv, ServerInv, ServerTypes
  <1>3. CASE UNCHANGED store /\ \A x \in Names : Len(watch'[x]) <= Len(watch[x])
    BY <1>2, <1>3
  <1>4. ASSUME NEW x \in Names, NEW v, Commit(x, v)
        PROVE  /\ Commit(x, store'[x]) /\ store'[x] \in Version(x)
               /\ x # "nf" => store'[x].gen > 0
               /\ \A y \in Names : Len(watch'[y]) > Len(watch[y]) <=> y = x
    <2>1. v = store'[x] /\ v \in Version(x)
      BY <1>1, <1>4 DEF Commit, CInv, IInv, ServerInv, ServerTypes
    <2>2. /\ Len(watch'[x]) = Len(watch[x]) + 1
          /\ watch'[x][Len(watch[x]) + 1] = v
          /\ \A y \in Names \ {x} : watch'[y] = watch[y]
      BY <1>4, <2>1, CommitAppends
    <2>3. x # "nf" => v.gen > 0
      BY <1>1, <1>2, <2>2, NamesAre DEF CInv, HasGeneration, Names
    <2>4. \A y \in Names : Len(watch'[y]) > Len(watch[y]) <=> y = x
      BY <1>2, <2>2
    <2> QED
      BY <1>4, <2>1, <2>3, <2>4
  <1> QED
    BY <1>3, <1>4, StepsCommit

\* To the operator a step that writes nothing is none, if it but counts.
LEMMA OthersCounting ==
  ASSUME CInv, UNCHANGED <<store, loop>>,
         DOMAIN watch' = Names, \A x \in Names : watch'[x] = watch[x],
         overtaken => overtaken', WorkerTypes'
  PROVE  CInv'
  <1>1. IInv'
    BY DEF loop, CInv, IInv, ServerInv, ServerTypes, Trails, CopyInv, OwnerInv
  <1>2. \A x \in Objects : watch'[x] = watch[x] /\ (Coming(x)' <=> Coming(x))
    BY NamesAre DEF Coming, ByNF
  <1>3. HasGeneration'
    BY <1>2 DEF loop, CInv, HasGeneration
  <1>4. \A k \in NetworkFunctions :
          (Told(k)' <=> Told(k)) /\ \A x \in Objects : Met(k, x)' <=> Met(k, x)
    BY <1>2, NamesAre
    DEF loop, Told, Met, Lost, ByNF, StatusOf, UPFStatus, Objects, UPFObjects
  <1>5. NothingMissed'
    BY <1>4, WatchedAre
    DEF loop, CInv, IInv, WorkerTypes, NothingMissed, RestInv, FetchInv, WorkInv, Passed
  <1> QED
    BY <1>1, <1>3, <1>5 DEF CInv

\* What another writer stores is an event like any other, and overtakes the copy
\* a Reconcile is working on.
LEMMA OthersCommit ==
  ASSUME CInv, NEW x \in Names, NEW v \in Version(x), Commit(x, v),
         x # "nf" => v.gen > 0, UNCHANGED loop,
         overtaken \/ (x = "nf" /\ nf.live) => overtaken',
         WorkerTypes', OwnerInv'
  PROVE  CInv'
  <1>1. /\ ServerInv' /\ store'[x] = v
        /\ \A y \in Names \ {x} : store'[y] = store[y]
    BY CommitKeepsServerInv DEF CInv, IInv, loop
  <1>2. CopyInv'
    BY <1>1, NamesAre DEF loop, CInv, IInv, CopyInv
  <1>3. HasGeneration' /\ NothingMissed'
    BY OutsideMissesNothing
  <1> QED
    BY <1>1, <1>2, <1>3 DEF CInv, IInv

\* One that has just started has listed what there is, and goes to work if the
\* NFDeployment is there.
LEMMA StartMissesNothing ==
  ASSUME cache' = store', watch' = [x \in Names |-> <<>>],
         pc' = "idle", nf' = NoNF,
         store'["nf"].live => queued',
         DOMAIN store' = Names, \A x \in Names : store'[x] \in Version(x),
         \A x \in Objects : store'[x].live => store'[x].gen > 0,
         WorkerTypes', OwnerInv'
  PROVE  CInv'
  <1>1. \A x \in Names : watch'[x] = <<>> /\ <<>> \in Seq(Version(x))
    BY EmptySeq
  <1>2. ServerInv'
    BY <1>1 DEF ServerInv, ServerTypes, Trails, Version
  <1>3. CopyInv'
    BY DEF CopyInv, NoNF
  <1>4. HasGeneration'
    BY <1>1, NamesAre DEF HasGeneration
  <1>5. NothingMissed'
    BY DEF NothingMissed, RestInv, FetchInv, WorkInv
  <1> QED
    BY <1>2, <1>3, <1>4, <1>5 DEF CInv, IInv

-----------------------------------------------------------------------------
(* At rest.                                                                *)

\* At rest the caches hold what is stored, and what an NFDeployment owns is the
\* present one's.
LEMMA AtRest ==
  ASSUME CInv, Quiet
  PROVE  /\ cache["nf"] = store["nf"] /\ watch["nf"] = <<>>
         /\ \A x \in Objects :
              /\ cache[x] = store[x] /\ ~Coming(x)
              /\ store[x].live => store[x].gen > 0
              /\ store[x].live /\ ByNF(store[x].owner) => Mine(x)
         /\ RestInv
  <1>1. \A x \in Names : watch[x] = <<>> /\ cache[x] = store[x]
    BY DEF Quiet, CInv, IInv, ServerInv, Trails
  <1>2. 1..Len(<<>>) = {}
    OBVIOUS
  <1> QED
    BY <1>1, <1>2, NamesAre, ServedTypes DEF Quiet, Coming, Doomed, Mine, CInv, NothingMissed

\* So where nothing has been missed nothing is missing: in the objects and the
\* status of an AMF or SMF ...
LEMMA RestIsConverged == CInv => SettledMeansConverged
  <1>1. ASSUME CInv, Quiet, NEW k \in SDCoreKinds, Handled(k)
        PROVE  AsWanted(k) /\ Reported(k)
    <2>1. k \in NetworkFunctions /\ k # "upf"
      BY DEF SDCoreKinds, NetworkFunctions
    <2>2. Told(k) /\ \A x \in KeptFor(k) \cap Watched : Met(k, x)
      BY <1>1, <2>1, AtRest DEF RestInv, Handled, Quiet
    <2>3. ASSUME NEW x \in KeptFor(k) \cap Watched
          PROVE  \/ Usurped(x)
                 \/ /\ Mine(x)
                    /\ IF x \in ConfigMaps THEN store[x].data = Config[store["nf"].addr]
                                           ELSE store[x].data # "drift"
      BY <1>1, <2>1, <2>2, <2>3, AtRest, WatchedAre DEF Met, Lost, Usurped
    <2>4. Reported(k)
      BY <1>1, <2>1, <2>2, AtRest, WatchedAre DEF Told, Lost, Reported, Usurped
    <2> QED
      BY <2>3, <2>4 DEF AsWanted
  <1> QED
    BY <1>1 DEF SettledMeansConverged

\* ... and in those of a UPF.
LEMMA RestIsRepaired == CInv => SettledMeansRepaired
  <1>1. ASSUME CInv, Quiet, Handled("upf")
        PROVE  /\ \A x \in KeptFor("upf") \cap Watched : Mine(x) /\ store[x].data = "fixed"
               /\ StatusOf(store["nf"]) = UPFStatus(store["upf"])
    <2>1. "upf" \in NetworkFunctions /\ "upf" \in Objects
      BY DEF NetworkFunctions, Objects, UPFObjects
    <2>2. Told("upf") /\ \A x \in KeptFor("upf") \cap Watched : Met("upf", x)
      BY <1>1, <2>1, AtRest DEF RestInv, Handled, Quiet
    <2>3. \A x \in KeptFor("upf") \cap Watched : Mine(x) /\ store[x].data = "fixed"
      BY <1>1, <2>2, AtRest, WatchedAre DEF Met
    <2>4. StatusOf(store["nf"]) = UPFStatus(store["upf"])
      BY <1>1, <2>1, <2>2, AtRest DEF Told
    <2> QED
      BY <2>3, <2>4
  <1> QED
    BY <1>1 DEF SettledMeansRepaired

\* Once nothing is on its way, the AMF's or the SMF's ConfigMap and Deployment are
\* as wanted and its status is true, whatever happened before: SetupWithManager's
\* events, errors and RequeueAfter leave no want unattended.
THEOREM Converged == Spec => []SettledMeansConverged
  BY NeverMisses, RestIsConverged, PTL

\* ... the UPF's belong to the present NFDeployment, every edit of what the
\* operator manages is undone, and the status is that of the Deployment.
THEOREM Repaired == Spec => []SettledMeansRepaired
  BY NeverMisses, RestIsRepaired, PTL
=============================================================================
