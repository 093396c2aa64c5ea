-------------------------- MODULE NFOperatorProofs --------------------------
(***************************************************************************)
(* Proofs about NFOperator, for any values of its constants.               *)
(***************************************************************************)
EXTENDS NFOperator, SequenceTheorems, TLAPS

\* An NFDeployment that is there has a uid, in every version of it.
Identified == {v \in NFRecord : v.live => v.uid # 0}

Version(x) == IF x = "nf" THEN Identified ELSE OwnedRecord

\* What TypeOK says of the API server and the informers, and how these trail
\* it: an informer that has seen every version of an object has the stored one,
\* and the last version any other will see is the stored one.
ServerTypes ==
  /\ DOMAIN store = Names /\ \A x \in Names : store[x] \in Version(x)
  /\ DOMAIN cache = Names /\ \A x \in Names : cache[x] \in Version(x)
  /\ DOMAIN watch = Names /\ \A x \in Names : watch[x] \in Seq(Version(x))

Trails ==
  \A x \in Names :
    /\ watch[x] = <<>> => cache[x] = store[x]
    /\ watch[x] # <<>> => watch[x][Len(watch[x])] = store[x]

ServerInv == ServerTypes /\ Trails

\* What TypeOK says of the rest.
WorkerTypes ==
  /\ queued \in BOOLEAN /\ delayed \in BOOLEAN
  /\ pc \in {"idle", "fetch", "status"} \cup Objects
  /\ kind \in NetworkFunctions
  /\ nf \in Identified
  /\ overtaken \in BOOLEAN /\ changed \in BOOLEAN
  /\ edits \in 0..MaxEdits /\ moves \in 0..MaxMoves /\ faults \in 0..MaxFaults

\* From its read on, a Reconcile works for an NFDeployment that passed its
\* check; unless it has been overtaken, that is the stored version.
CopyInv ==
  /\ pc \notin {"idle", "fetch"} => nf.live /\ Accepts(kind, nf.provider)
  /\ nf.live /\ ~overtaken => nf = store["nf"]

\* The operator's marks on an object: labels, or the data it writes for a UPF.
Made(x, v) == v.labelled \/ (x \in UPFObjects /\ v.data = "fixed")

\* What bears them belongs to an NFDeployment.
OwnerInv ==
  \A x \in Objects : store[x].live /\ Made(x, store[x]) => ByNF(store[x].owner)

IInv == ServerInv /\ WorkerTypes /\ CopyInv /\ OwnerInv

-----------------------------------------------------------------------------
(* The values that are written.                                            *)

\* The records for what does not exist are well typed.
LEMMA BlankTypes == NoNF \in Identified /\ NoObject \in OwnedRecord
  <1>1. (CHOOSE a \in Addrs : TRUE) \in Addrs
    BY ParametersAssumption
  <1>2. "foreign" \in AllProviders
    BY DEF AllProviders
  <1> QED
    BY <1>1, <1>2, ParametersAssumption
    DEF NoNF, Identified, NFRecord, NoObject, OwnedRecord, Conds, Data

\* So is a new NFDeployment, which has a uid.
Created(n, a, p) ==
  [NoNF EXCEPT !.live = TRUE, !.uid = n, !.gen = 1, !.addr = a, !.provider = p]

LEMMA CreatedType ==
  ASSUME NEW v \in Identified, NEW a \in Addrs, NEW p \in AllProviders
  PROVE  /\ Created(v.uid + 1, a, p) \in Identified
         /\ Created(v.uid + 1, a, p).live /\ ~Created(v.uid + 1, a, p).deleting
         /\ Created(v.uid + 1, a, p).uid = v.uid + 1
  <1>1. v.uid + 1 \in Nat /\ v.uid + 1 # 0
    BY DEF Identified, NFRecord
  <1>2. NoNF \in NFRecord /\ ~NoNF.deleting
    BY BlankTypes DEF Identified, NoNF
  <1>3. ASSUME NEW n \in Nat, n # 0
        PROVE  /\ Created(n, a, p) \in Identified
               /\ Created(n, a, p).live /\ ~Created(n, a, p).deleting
               /\ Created(n, a, p).uid = n
    BY <1>2, <1>3 DEF Created, Identified, NFRecord
  <1> QED
    BY <1>1, <1>3

\* An edited NFDeployment is well typed and keeps its status.
LEMMA EditedType ==
  ASSUME NEW v \in Identified, NEW a \in Addrs, NEW p \in AllProviders
  PROVE  /\ [v EXCEPT !.gen = @ + 1, !.addr = a, !.provider = p] \in Identified
         /\ [v EXCEPT !.gen = @ + 1, !.addr = a, !.provider = p].obs = v.obs
  <1>1. v.gen + 1 \in Nat
    BY DEF Identified, NFRecord
  <1>2. \A g \in Nat : /\ [v EXCEPT !.gen = g, !.addr = a, !.provider = p] \in Identified
                        /\ [v EXCEPT !.gen = g, !.addr = a, !.provider = p].obs = v.obs
    BY DEF Identified, NFRecord
  <1> QED
    BY <1>1, <1>2

\* So does one that is marked for deletion.
LEMMA MarkedType ==
  ASSUME NEW v \in Identified
  PROVE  /\ [v EXCEPT !.deleting = TRUE, !.gen = @ + 1] \in Identified
         /\ [v EXCEPT !.deleting = TRUE, !.gen = @ + 1].obs = v.obs
  <1>1. v.gen + 1 \in Nat
    BY DEF Identified, NFRecord
  <1>2. \A g \in Nat : /\ [v EXCEPT !.deleting = TRUE, !.gen = g] \in Identified
                        /\ [v EXCEPT !.deleting = TRUE, !.gen = g].obs = v.obs
    BY DEF Identified, NFRecord
  <1> QED
    BY <1>1, <1>2

\* A status update is well typed and keeps the generation.
LEMMA StatusedType ==
  ASSUME NEW v \in Identified, NEW s \in [obs: Nat, available: Conds, ready: Conds],
         v = store["nf"]
  PROVE  /\ WithStatus(s) \in Identified
         /\ WithStatus(s).obs = s.obs /\ WithStatus(s).gen = v.gen
  <1>1. WithStatus(s) = [v EXCEPT !.obs = s.obs, !.available = s.available,
                                  !.ready = s.ready]
    BY DEF WithStatus
  <1> QED
    BY <1>1 DEF Identified, NFRecord

\* An object with new data is well typed and keeps owner and existence.
LEMMA RewrittenType ==
  ASSUME NEW x \in Objects, NEW v \in OwnedRecord, NEW d \in Data
  PROVE  /\ Rewritten(x, v, d) \in OwnedRecord
         /\ Rewritten(x, v, d).owner = v.owner
         /\ Rewritten(x, v, d).data = d
         /\ Rewritten(x, v, d).live = v.live
         /\ Rewritten(x, v, d).labelled = v.labelled
  <1>1. CASE x \in Deployments /\ d # v.data
    <2> DEFINE W(g) == [v EXCEPT !.data = d, !.gen = g]
    <2>1. Rewritten(x, v, d) = W(v.gen + 1)
      BY <1>1 DEF Rewritten, OwnedRecord
    <2>2. v.gen + 1 \in Nat
      BY DEF OwnedRecord
    <2>3. \A g \in Nat : /\ W(g) \in OwnedRecord /\ W(g).owner = v.owner
                         /\ W(g).data = d /\ W(g).live = v.live
                         /\ W(g).labelled = v.labelled
      BY DEF OwnedRecord
    <2> HIDE DEF W
    <2> QED
      BY <2>1, <2>2, <2>3
  <1>2. CASE ~(x \in Deployments /\ d # v.data)
    <2>1. Rewritten(x, v, d) = [v EXCEPT !.data = d]
      BY <1>2 DEF Rewritten, OwnedRecord
    <2> QED
      BY <2>1 DEF OwnedRecord
  <1> QED
    BY <1>1, <1>2

\* The names of the owned objects, and what is recorded under each name.
LEMMA NamesAre ==
  /\ Version("nf") = Identified
  /\ \A x \in Objects : x \in Names /\ x # "nf" /\ Version(x) = OwnedRecord
  /\ "nf" \in Names
  /\ Contested \subseteq Objects
  BY ParametersAssumption
  DEF Version, Names, Objects, AMFObjects, SMFObjects, UPFObjects

\* Commit keeps the informers trailing the store.
LEMMA CommitKeepsServerInv ==
  ASSUME ServerInv, NEW x \in Names, NEW v \in Version(x), Commit(x, v),
         UNCHANGED cache
  PROVE  ServerInv' /\ store'[x] = v /\ \A y \in Names \ {x} : store'[y] = store[y]
  <1>1. /\ DOMAIN store' = Names /\ DOMAIN watch' = Names
        /\ store'[x] = v /\ watch'[x] = Append(watch[x], v)
        /\ \A y \in Names \ {x} : store'[y] = store[y] /\ watch'[y] = watch[y]
    BY DEF Commit, ServerInv, ServerTypes
  <1>2. /\ watch'[x] \in Seq(Version(x))
        /\ Len(watch'[x]) = Len(watch[x]) + 1
        /\ watch'[x][Len(watch[x]) + 1] = v
        /\ watch'[x] # <<>>
    BY <1>1, AppendProperties DEF ServerInv, ServerTypes
  <1>3. ServerTypes'
    BY <1>1, <1>2 DEF ServerInv, ServerTypes, Version
  <1>4. Trails'
    BY <1>1, <1>2 DEF ServerInv, Trails
  <1> QED
    BY <1>1, <1>3, <1>4 DEF ServerInv

\* An informer that sees the next version keeps trailing the store.
LEMMA DeliverKeepsServerInv ==
  ASSUME ServerInv, NEW x \in Names, Deliver(x)
  PROVE  ServerInv'
  <1>1. /\ DOMAIN cache' = Names /\ DOMAIN watch' = Names /\ store' = store
        /\ watch[x] # <<>> /\ watch[x] \in Seq(Version(x))
        /\ cache'[x] = Head(watch[x]) /\ watch'[x] = Tail(watch[x])
        /\ \A y \in Names \ {x} : cache'[y] = cache[y] /\ watch'[y] = watch[y]
    BY DEF Deliver, ServerInv, ServerTypes
  <1>2. /\ Head(watch[x]) \in Version(x) /\ Tail(watch[x]) \in Seq(Version(x))
        /\ Len(Tail(watch[x])) = Len(watch[x]) - 1
        /\ \A i \in 1..Len(Tail(watch[x])) : Tail(watch[x])[i] = watch[x][i + 1]
    BY <1>1, HeadTailProperties
  <1>3. ServerTypes'
    BY <1>1, <1>2 DEF ServerInv, ServerTypes, Version
  <1>4. Tail(watch[x]) = <<>> => Head(watch[x]) = store[x]
    <2> SUFFICES ASSUME Tail(watch[x]) = <<>> PROVE Head(watch[x]) = store[x]
      OBVIOUS
    <2>1. Len(Tail(watch[x])) = 0 /\ Len(watch[x]) \in Nat
      BY <1>1, EmptySeq, LenProperties
    <2>2. Len(watch[x]) = 1
      BY <2>1, <1>2
    <2> QED
      BY <2>2, <1>1 DEF ServerInv, Trails
  <1>5. Tail(watch[x]) # <<>> => Tail(watch[x])[Len(Tail(watch[x]))] = store[x]
    <2> SUFFICES ASSUME Tail(watch[x]) # <<>>
                 PROVE  Tail(watch[x])[Len(Tail(watch[x]))] = store[x]
      OBVIOUS
    <2>1. Len(Tail(watch[x])) \in 1..Len(Tail(watch[x]))
      BY <1>2, EmptySeq
    <2>2. Len(watch[x]) \in Nat
      BY <1>1
    <2> QED
      BY <2>1, <2>2, <1>1, <1>2 DEF ServerInv, Trails
  <1>6. Trails'
    BY <1>1, <1>4, <1>5 DEF ServerInv, Trails
  <1> QED
    BY <1>3, <1>6 DEF ServerInv

-----------------------------------------------------------------------------
(* Users, other clients, the garbage collector.                            *)

\* What users write touches the NFDeployment alone; the copy a Reconcile works
\* on counts as overtaken.
LEMMA UserWritesKeepsIInv ==
  ASSUME IInv, NEW v \in Identified, UserWrites(v)
  PROVE  IInv' /\ store'["nf"] = v /\ \A x \in Objects : store'[x] = store[x]
  <1>1. ServerInv' /\ store'["nf"] = v /\ \A x \in Names \ {"nf"} : store'[x] = store[x]
    BY NamesAre, CommitKeepsServerInv DEF UserWrites, Writes, IInv
  <1>2. \A x \in Objects : store'[x] = store[x]
    BY <1>1, NamesAre
  <1>3. WorkerTypes'
    BY ParametersAssumption DEF IInv, WorkerTypes, UserWrites, Identified, NFRecord
  <1>4. CopyInv'
    BY DEF IInv, CopyInv, UserWrites
  <1>5. OwnerInv'
    BY <1>2 DEF IInv, OwnerInv, Objects
  <1> QED
    BY <1>1, <1>2, <1>3, <1>4, <1>5 DEF IInv

\* What becomes of the invariant when an owned object is written.
LEMMA OwnedWriteKeeps ==
  ASSUME IInv, NEW x \in Objects, NEW v \in OwnedRecord, Commit(x, v),
         UNCHANGED cache,
         v.live /\ Made(x, v) => ByNF(v.owner)
  PROVE  /\ ServerInv' /\ OwnerInv' /\ store'["nf"] = store["nf"]
         /\ store'[x] = v /\ \A y \in Objects \ {x} : store'[y] = store[y]
  <1>1. /\ ServerInv' /\ store'[x] = v
        /\ \A y \in Names \ {x} : store'[y] = store[y]
    BY NamesAre, CommitKeepsServerInv DEF IInv
  <1>2. store'["nf"] = store["nf"] /\ \A y \in Objects \ {x} : store'[y] = store[y]
    BY <1>1, NamesAre
  <1>3. OwnerInv'
    BY <1>1, <1>2 DEF IInv, OwnerInv, Objects
  <1> QED
    BY <1>1, <1>2, <1>3

\* What others write to an owned object touches that object alone.
LEMMA MovesKeepsIInv ==
  ASSUME IInv, NEW x \in Objects, NEW v \in OwnedRecord, Moves(x, v),
         v.live /\ Made(x, v) => ByNF(v.owner)
  PROVE  /\ IInv' /\ store'["nf"] = store["nf"]
         /\ store'[x] = v /\ \A y \in Objects \ {x} : store'[y] = store[y]
  <1>1. /\ ServerInv' /\ OwnerInv' /\ store'["nf"] = store["nf"]
        /\ store'[x] = v /\ \A y \in Objects \ {x} : store'[y] = store[y]
    BY OwnedWriteKeeps DEF Moves, Writes
  <1>2. WorkerTypes'
    BY ParametersAssumption DEF IInv, WorkerTypes, Moves
  <1>3. CopyInv'
    BY <1>1 DEF IInv, CopyInv, Moves
  <1> QED
    BY <1>1, <1>2, <1>3 DEF IInv

\* Stored and cached objects are well typed, and so is what deletion leaves.
LEMMA TombstoneType ==
  ASSUME IInv, NEW x \in Objects
  PROVE  /\ store[x] \in OwnedRecord /\ cache[x] \in OwnedRecord
         /\ Tombstone(x) \in OwnedRecord /\ Tombstone(x).live = FALSE
  <1>1. store[x] \in OwnedRecord /\ cache[x] \in OwnedRecord
    BY NamesAre DEF IInv, ServerInv, ServerTypes
  <1> QED
    BY <1>1, BlankTypes DEF Tombstone, OwnedRecord, NoObject

\* The two action properties, as formulas about one step.  The first holds of an
\* NFDeployment that is not a UPF's whatever Reconcile is running.
StatusStep ==
  /\ store["nf"].live /\ store'["nf"].obs # store["nf"].obs
  /\ kind \in SDCoreKinds \/ ~IsProviderSDCoreUPF(store["nf"].provider)
  => store'["nf"].obs = store'["nf"].gen

ForeignStep ==
  \A x \in KeptFor("upf") :
    store[x].live /\ store[x].owner = Foreign /\ store'[x].live =>
      store'[x].owner = Foreign /\ store'[x].data # "fixed"

\* Users: creation, edits and deletion of the NFDeployment.
LEMMA UsersKeepIInv ==
  ASSUME IInv, Users
  PROVE  IInv' /\ StatusStep /\ ForeignStep
  <1>1. store["nf"] \in Identified
    BY NamesAre DEF IInv, ServerInv, ServerTypes
  <1>2. PICK v \in Identified :
          /\ UserWrites(v)
          /\ store["nf"].live => v.obs = store["nf"].obs \/ v.obs = v.gen
    <2>1. CASE CreateNF
      <3>1. PICK a \in Addrs, p \in Providers :
              UserWrites(Created(store["nf"].uid + 1, a, p))
        BY <2>1 DEF CreateNF, Created
      <3>2. p \in AllProviders
        BY ParametersAssumption
      <3>3. Created(store["nf"].uid + 1, a, p) \in Identified
        BY <1>1, <3>2, CreatedType
      <3> QED
        BY <3>1, <3>3, <2>1 DEF CreateNF
    <2>2. CASE EditNF
      <3>1. PICK a \in Addrs, p \in Providers :
              UserWrites([store["nf"] EXCEPT !.gen = @ + 1, !.addr = a, !.provider = p])
        BY <2>2 DEF EditNF
      <3> DEFINE v == [store["nf"] EXCEPT !.gen = @ + 1, !.addr = a, !.provider = p]
      <3>2. p \in AllProviders
        BY ParametersAssumption
      <3>3. v \in Identified /\ v.obs = store["nf"].obs
        BY <1>1, <3>2, EditedType
      <3> QED
        BY <3>1, <3>3
    <2>3. CASE TouchNF
      BY <2>3, <1>1 DEF TouchNF
    <2>4. CASE DeleteNF
      <3> DEFINE v == [NoNF EXCEPT !.uid = store["nf"].uid]
      <3>1. v \in Identified /\ v.obs = v.gen
        BY <1>1, BlankTypes DEF Identified, NFRecord, NoNF
      <3> QED
        BY <3>1, <2>4 DEF DeleteNF
    <2>5. CASE DeleteInForeground
      <3> DEFINE v == [store["nf"] EXCEPT !.deleting = TRUE, !.gen = @ + 1]
      <3>1. v \in Identified /\ v.obs = store["nf"].obs
        BY <1>1, MarkedType
      <3> QED
        BY <3>1, <2>5 DEF DeleteInForeground
    <2> QED
      BY <2>1, <2>2, <2>3, <2>4, <2>5 DEF Users
  <1>3. IInv' /\ store'["nf"] = v /\ \A x \in Objects : store'[x] = store[x]
    BY <1>2, UserWritesKeepsIInv
  <1> QED
    BY <1>2, <1>3
    DEF StatusStep, ForeignStep, KeptFor, Objects, IInv, OwnerInv, Made, ByNF

\* Other clients of the API server: the Deployment controller and people.
LEMMA OthersKeepIInv ==
  ASSUME IInv, NEW x \in Objects, Others(x)
  PROVE  IInv' /\ StatusStep /\ ForeignStep
  <1>1. /\ store[x] \in OwnedRecord
        /\ Tombstone(x) \in OwnedRecord /\ Tombstone(x).live = FALSE
    BY TombstoneType
  <1>2. PICK v \in OwnedRecord :
          /\ Moves(x, v)
          /\ store[x].live /\ v.live =>
               /\ v.owner = store[x].owner /\ v.labelled = store[x].labelled
               /\ v.data = "fixed" => store[x].data = "fixed"
          /\ ~store[x].live => v.data # "fixed" /\ ~v.labelled
    <2>1. CASE ReportHealth(x)
      BY <2>1, <1>1 DEF ReportHealth, OwnedRecord
    <2>2. CASE Tamper(x)
      <3>1. PICK d \in {"drift", "hidden"} : Moves(x, Rewritten(x, store[x], d))
        BY <2>2 DEF Tamper
      <3> DEFINE v == Rewritten(x, store[x], d)
      <3>2. /\ v \in OwnedRecord /\ v.owner = store[x].owner /\ v.data = d
            /\ v.labelled = store[x].labelled
        BY <1>1, RewrittenType DEF Data
      <3> QED
        BY <3>1, <3>2, <2>2 DEF Tamper
    <2>3. CASE Remove(x)
      BY <2>3, <1>1 DEF Remove
    <2>4. CASE Occupy(x)
      <3>1. PICK o \in {0, Foreign} :
              Moves(x, [NoObject EXCEPT !.live = TRUE, !.owner = o, !.data = "drift",
                                        !.gen = 1])
        BY <2>4 DEF Occupy
      <3> DEFINE v == [NoObject EXCEPT !.live = TRUE, !.owner = o, !.data = "drift",
                                       !.gen = 1]
      <3>2. v \in OwnedRecord /\ v.data = "drift" /\ ~v.labelled
        BY BlankTypes DEF OwnedRecord, NoObject, Data
      <3> QED
        BY <3>1, <3>2, <2>4 DEF Occupy
    <2> QED
      BY <2>1, <2>2, <2>3, <2>4 DEF Others
  <1>3. v.live /\ Made(x, v) => ByNF(v.owner)
    BY <1>1, <1>2 DEF IInv, OwnerInv, Made, OwnedRecord
  <1>4. /\ IInv' /\ store'["nf"] = store["nf"]
        /\ store'[x] = v /\ \A y \in Objects \ {x} : store'[y] = store[y]
    BY <1>2, <1>3, MovesKeepsIInv
  <1>5. ForeignStep
    BY <1>1, <1>2, <1>4 DEF ForeignStep, KeptFor, Objects, IInv, OwnerInv, Made, ByNF
  <1> QED
    BY <1>4, <1>5 DEF StatusStep

\* The garbage collector.
LEMMA CollectGarbageKeepsIInv ==
  ASSUME IInv, NEW x \in Objects, CollectGarbage(x)
  PROVE  IInv' /\ StatusStep /\ ForeignStep
  <1>1. Tombstone(x) \in OwnedRecord /\ Tombstone(x).live = FALSE
    BY TombstoneType
  <1>2. /\ ServerInv' /\ OwnerInv' /\ store'["nf"] = store["nf"]
        /\ store'[x] = Tombstone(x) /\ \A y \in Objects \ {x} : store'[y] = store[y]
    BY <1>1, OwnedWriteKeeps DEF CollectGarbage, Writes
  <1>3. WorkerTypes' /\ CopyInv'
    BY <1>2 DEF IInv, WorkerTypes, CopyInv, CollectGarbage, budgets
  <1>4. ForeignStep
    BY <1>1, <1>2 DEF ForeignStep, KeptFor, Objects, IInv, OwnerInv, Made, ByNF
  <1> QED
    BY <1>2, <1>3, <1>4 DEF IInv, StatusStep

\* Its last step for an NFDeployment that is deleted in the foreground: a write
\* to the NFDeployment like those of the users.
LEMMA FinishDeletionKeepsIInv ==
  ASSUME IInv, FinishDeletion
  PROVE  IInv' /\ StatusStep /\ ForeignStep
  <1> DEFINE v == [NoNF EXCEPT !.uid = store["nf"].uid]
  <1>1. v \in Identified /\ v.obs = v.gen
    <2>1. store["nf"] \in Identified
      BY NamesAre DEF IInv, ServerInv, ServerTypes
    <2>2. store["nf"].uid \in Nat
      BY <2>1 DEF Identified, NFRecord
    <2> QED
      BY <2>2, BlankTypes DEF Identified, NFRecord, NoNF
  <1>2. ServerInv' /\ store'["nf"] = v /\ \A x \in Names \ {"nf"} : store'[x] = store[x]
    <2>1. Commit("nf", v) /\ UNCHANGED cache /\ ServerInv
      BY DEF FinishDeletion, Writes, IInv
    <2>2. v \in Version("nf") /\ "nf" \in Names
      BY <1>1, NamesAre
    <2> HIDE DEF v
    <2> QED
      BY <2>1, <2>2, CommitKeepsServerInv
  <1>3. \A x \in Objects : store'[x] = store[x]
    BY <1>2, NamesAre
  <1>4. WorkerTypes' /\ CopyInv'
    BY DEF IInv, WorkerTypes, CopyInv, FinishDeletion, budgets, Identified, NFRecord
  <1>5. OwnerInv' /\ ForeignStep
    BY <1>3 DEF IInv, OwnerInv, Made, ByNF, ForeignStep, KeptFor, Objects
  <1> QED
    BY <1>1, <1>2, <1>4, <1>5 DEF IInv, StatusStep

-----------------------------------------------------------------------------
(* Informers, timers, restarts, and the read that opens a Reconcile.       *)

\* Faults stay within their bound.
LEMMA FaultsBounded ==
  ASSUME IInv, UNCHANGED faults \/ (faults < MaxFaults /\ faults' = faults + 1)
  PROVE  faults' \in 0..MaxFaults
  BY ParametersAssumption DEF IInv, WorkerTypes

\* A step that leaves the store as it is keeps the two step properties.
LEMMA QuietStep ==
  ASSUME IInv, store' = store
  PROVE  StatusStep /\ ForeignStep
  BY DEF StatusStep, ForeignStep, KeptFor, Objects, IInv, OwnerInv, Made, ByNF

\* The informers.
LEMMA DeliverKeepsIInv ==
  ASSUME IInv, NEW x \in Names, Deliver(x)
  PROVE  IInv' /\ StatusStep /\ ForeignStep
  <1>1. ServerInv'
    BY DeliverKeepsServerInv DEF IInv
  <1>2. WorkerTypes' /\ CopyInv' /\ OwnerInv' /\ store' = store
    BY DEF IInv, WorkerTypes, CopyInv, OwnerInv, Deliver, Enqueues, budgets
  <1> QED
    BY <1>1, <1>2, QuietStep DEF IInv

\* The delays of the work queue.
LEMMA TimerKeepsIInv ==
  ASSUME IInv, Timer
  PROVE  IInv' /\ StatusStep /\ ForeignStep
  <1>1. ServerInv'
    BY DEF IInv, ServerInv, ServerTypes, Trails, Timer, serverVars
  <1>2. WorkerTypes' /\ CopyInv' /\ OwnerInv' /\ store' = store
    BY DEF IInv, WorkerTypes, CopyInv, OwnerInv, Timer, serverVars, budgets
  <1> QED
    BY <1>1, <1>2, QuietStep DEF IInv

\* A new process, whichever caches it starts with.
LEMMA RestartKeepsIInv ==
  ASSUME IInv, Restart
  PROVE  IInv' /\ StatusStep /\ ForeignStep
  <1>1. store' = store
    BY DEF Restart
  <1>2. PICK fresh \in {Names, {}} :
          /\ cache' = [x \in Names |-> IF x \in fresh THEN store[x] ELSE cache[x]]
          /\ watch' = [x \in Names |-> IF x \in fresh THEN <<>> ELSE watch[x]]
    BY DEF Restart
  <1>3. ASSUME NEW x \in Names
        PROVE  /\ cache'[x] \in Version(x) /\ watch'[x] \in Seq(Version(x))
               /\ watch'[x] = <<>> => cache'[x] = store[x]
               /\ watch'[x] # <<>> => watch'[x][Len(watch'[x])] = store[x]
    <2>1. /\ store[x] \in Version(x) /\ cache[x] \in Version(x)
          /\ watch[x] \in Seq(Version(x)) /\ <<>> \in Seq(Version(x))
      BY EmptySeq DEF IInv, ServerInv, ServerTypes
    <2>2. CASE x \in fresh
      BY <1>2, <2>1, <2>2
    <2>3. CASE x \notin fresh
      BY <1>2, <2>1, <2>3 DEF IInv, ServerInv, Trails
    <2> QED
      BY <2>2, <2>3
  <1>4. ServerInv'
    BY <1>1, <1>2, <1>3 DEF IInv, ServerInv, ServerTypes, Trails, Version
  <1>5. WorkerTypes'
    <2>1. queued' \in BOOLEAN
      BY DEF Restart, Lists
    <2>2. NoNF \in Identified
      BY BlankTypes
    <2>3. faults' \in 0..MaxFaults
      BY FaultsBounded DEF Restart
    <2> QED
      BY <2>1, <2>2, <2>3 DEF IInv, WorkerTypes, Restart
  <1>6. CopyInv' /\ OwnerInv'
    BY DEF IInv, CopyInv, OwnerInv, Restart, NoNF
  <1> QED
    BY <1>1, <1>4, <1>5, <1>6, QuietStep DEF IInv

\* What a Reconcile leaves behind when it returns.
LEMMA ReturnKeeps ==
  ASSUME IInv, NEW again \in BOOLEAN, Return(again),
         UNCHANGED <<queued, kind, edits, moves>>, faults' \in 0..MaxFaults
  PROVE  WorkerTypes' /\ CopyInv'
  BY BlankTypes DEF IInv, WorkerTypes, CopyInv, Return, NoNF

\* The main Reconcile's read and choice.
LEMMA BeginKeepsIInv ==
  ASSUME IInv, Begin
  PROVE  IInv' /\ StatusStep /\ ForeignStep
  <1>1. ServerInv' /\ OwnerInv' /\ store' = store
    BY DEF IInv, ServerInv, ServerTypes, Trails, OwnerInv, Begin, serverVars
  <1>2. Route(Name, cache["nf"].provider) # "none" =>
          Route(Name, cache["nf"].provider) \in NetworkFunctions
    BY DEF Route, NetworkFunctions
  <1>3. WorkerTypes'
    BY <1>2 DEF IInv, WorkerTypes, Begin, budgets
  <1>4. CopyInv'
    BY <1>1 DEF IInv, CopyInv, Begin
  <1> QED
    BY <1>1, <1>3, <1>4, QuietStep DEF IInv

\* A reconciler's own read: what it goes on with has passed the check, and is the
\* stored version if no event is pending.
LEMMA FetchKeepsIInv ==
  ASSUME IInv, NEW k \in NetworkFunctions, NEW first \in Objects, Fetch(k, first)
  PROVE  IInv' /\ StatusStep /\ ForeignStep
  <1>1. ServerInv' /\ OwnerInv' /\ store' = store
    BY DEF IInv, ServerInv, ServerTypes, Trails, OwnerInv, Fetch, serverVars
  <1>2. CASE ~(cache["nf"].live /\ Accepts(k, cache["nf"].provider))
    <2>1. Return(FALSE) /\ UNCHANGED <<queued, kind, edits, moves>>
          /\ faults' \in 0..MaxFaults
      BY <1>2 DEF Fetch, budgets, IInv, WorkerTypes
    <2> QED
      BY <2>1, <1>1, ReturnKeeps, QuietStep DEF IInv
  <1>3. CASE cache["nf"].live /\ Accepts(k, cache["nf"].provider)
    <2>1. /\ nf' = cache["nf"] /\ overtaken' = (watch["nf"] # <<>>)
          /\ pc' = first /\ changed' = FALSE /\ kind' = k
          /\ UNCHANGED <<delayed, queued, budgets>>
      BY <1>3 DEF Fetch
    <2>2. cache["nf"] \in Identified /\ (watch["nf"] = <<>> => cache["nf"] = store["nf"])
      BY NamesAre DEF IInv, ServerInv, ServerTypes, Trails
    <2>3. WorkerTypes'
      BY <2>1, <2>2 DEF IInv, WorkerTypes, budgets
    <2>4. CopyInv'
      BY <2>1, <2>2, <1>1, <1>3 DEF CopyInv
    <2> QED
      BY <1>1, <2>3, <2>4, QuietStep DEF IInv
  <1> QED
    BY <1>2, <1>3

-----------------------------------------------------------------------------
(* The calls of a Reconcile.                                               *)

\* A call leaves the invariant as it was, if what it would write does; and if
\* it changes an object, the server has accepted it.
LEMMA CallKeepsIInv ==
  ASSUME IInv, NEW x \in Objects, NEW v \in OwnedRecord, NEW valid \in BOOLEAN,
         NEW next \in Objects \cup {"status"}, pc = x, Call(x, v, valid, next),
         valid /\ v.live /\ Made(x, v) => ByNF(v.owner)
  PROVE  /\ IInv' /\ StatusStep
         /\ \A y \in Objects :
              store'[y] = store[y] \/ (y = x /\ valid /\ store'[y] = v)
  <1>1. /\ ServerInv' /\ OwnerInv' /\ store'["nf"] = store["nf"]
        /\ \A y \in Objects :
             store'[y] = store[y] \/ (y = x /\ valid /\ store'[y] = v)
    <2>1. CASE UNCHANGED serverVars
      BY <2>1 DEF IInv, ServerInv, ServerTypes, Trails, OwnerInv, Call, serverVars
    <2>2. CASE valid /\ Commit(x, v)
      BY <2>2, OwnedWriteKeeps DEF Call
    <2> QED
      BY <2>1, <2>2 DEF Call, Put
  <1>2. WorkerTypes' /\ CopyInv'
    <2>1. CASE Return(TRUE)
      <3>1. faults' \in 0..MaxFaults /\ UNCHANGED <<queued, kind, edits, moves>>
        BY FaultsBounded DEF Call
      <3> QED
        BY <2>1, <3>1, ReturnKeeps
    <2>2. CASE /\ pc' = next /\ changed' = TRUE
               /\ UNCHANGED <<delayed, nf, overtaken, faults>>
      <3>1. WorkerTypes'
        BY <2>2 DEF Call, IInv, WorkerTypes
      <3>2. CopyInv'
        BY <1>1, <2>2, NamesAre
        DEF Call, IInv, CopyInv, Objects, AMFObjects, SMFObjects, UPFObjects
      <3> QED
        BY <3>1, <3>2
    <2> QED
      BY <2>1, <2>2 DEF Call
  <1> QED
    BY <1>1, <1>2 DEF IInv, StatusStep

\* Going on without a call.
LEMMA SkipKeepsIInv ==
  ASSUME IInv, NEW x \in Objects, NEW next \in Objects \cup {"status"}, pc = x,
         Skip(next)
  PROVE  IInv' /\ StatusStep /\ ForeignStep
  <1>1. ServerInv' /\ OwnerInv' /\ store' = store
    BY DEF IInv, ServerInv, ServerTypes, Trails, OwnerInv, Skip, serverVars
  <1>2. WorkerTypes'
    BY DEF IInv, WorkerTypes, Skip, budgets
  <1>3. CopyInv'
    BY <1>1 DEF Skip, IInv, CopyInv, Objects, AMFObjects, SMFObjects, UPFObjects
  <1> QED
    BY <1>1, <1>2, <1>3, QuietStep DEF IInv

\* A Reconcile gives up without a call.
LEMMA GiveUpKeepsIInv ==
  ASSUME IInv, NEW again \in BOOLEAN, Return(again),
         UNCHANGED <<serverVars, cache, queued, kind, budgets>>
  PROVE  IInv' /\ StatusStep /\ ForeignStep
  <1>1. ServerInv' /\ OwnerInv' /\ store' = store
    BY DEF IInv, ServerInv, ServerTypes, Trails, OwnerInv, serverVars
  <1>2. WorkerTypes' /\ CopyInv'
    BY ReturnKeeps DEF budgets, IInv, WorkerTypes
  <1> QED
    BY <1>1, <1>2, QuietStep DEF IInv

\* A status update leaves everything but the status of the NFDeployment; what
\* it claims as observed is what it was given, and nf is the stored version.
LEMMA StatusUpdateKeepsIInv ==
  ASSUME IInv, pc = "status",
         NEW s \in [obs: Nat, available: Conds, ready: Conds],
         NEW restamped \in BOOLEAN, NEW again \in BOOLEAN,
         UpdateStatusOfNF(s, restamped, again)
  PROVE  /\ IInv' /\ ForeignStep
         /\ \/ store'["nf"] = store["nf"]
            \/ nf = store["nf"] /\ store'["nf"].obs = s.obs
                                /\ store'["nf"].gen = nf.gen
  <1>1. store["nf"] \in Identified /\ WithStatus(s) \in Identified
        /\ WithStatus(s).obs = s.obs /\ WithStatus(s).gen = store["nf"].gen
    <2>1. store["nf"] \in Identified
      BY NamesAre DEF IInv, ServerInv, ServerTypes
    <2> QED
      BY <2>1, StatusedType
  <1>2. nf.live /\ (~overtaken => nf = store["nf"])
    BY DEF IInv, CopyInv
  <1>3. \/ UNCHANGED serverVars
        \/ ~overtaken /\ Commit("nf", WithStatus(s))
    BY DEF UpdateStatusOfNF, Put
  <1>4. /\ ServerInv' /\ \A y \in Objects : store'[y] = store[y]
        /\ \/ store'["nf"] = store["nf"]
           \/ ~overtaken /\ store'["nf"] = WithStatus(s)
    <2>1. CASE UNCHANGED serverVars
      BY <2>1 DEF IInv, ServerInv, ServerTypes, Trails, serverVars, UpdateStatusOfNF
    <2>2. CASE ~overtaken /\ Commit("nf", WithStatus(s))
      BY <2>2, <1>1, NamesAre, CommitKeepsServerInv DEF IInv, UpdateStatusOfNF
    <2> QED
      BY <1>3, <2>1, <2>2
  <1>5. OwnerInv' /\ ForeignStep
    BY <1>4 DEF IInv, OwnerInv, Made, ByNF, ForeignStep, KeptFor, Objects
  <1>6. WorkerTypes' /\ CopyInv'
    <2>1. \E b \in BOOLEAN : Return(b)
      BY DEF UpdateStatusOfNF
    <2>2. faults' \in 0..MaxFaults /\ UNCHANGED <<queued, kind, edits, moves>>
      BY FaultsBounded DEF UpdateStatusOfNF
    <2> QED
      BY <2>1, <2>2, ReturnKeeps
  <1> QED
    BY <1>1, <1>2, <1>4, <1>5, <1>6 DEF IInv

-----------------------------------------------------------------------------
(* The reconcilers.                                                        *)

\* A Reconcile that is past its read works for an NFDeployment with a uid.
LEMMA CopyHasUid ==
  ASSUME IInv, NEW x \in Objects, pc = x
  PROVE  ByNF(nf.uid)
  <1>1. pc \notin {"idle", "fetch"}
    BY DEF Objects, AMFObjects, SMFObjects, UPFObjects
  <1>2. nf.uid \in Nat /\ nf.uid # 0
    BY <1>1 DEF IInv, WorkerTypes, CopyInv, Identified, NFRecord
  <1> QED
    BY <1>2, ParametersAssumption DEF ByNF

\* What the AMF and the SMF write is well typed.
LEMMA SDCoreWriteTypes ==
  ASSUME IInv, NEW x \in Objects, NEW v \in OwnedRecord
  PROVE  /\ Wanted(x) \in OwnedRecord /\ Updated(x, v) \in OwnedRecord
         /\ Wanted(x).owner = nf.uid
         /\ Updated(x, v).live = v.live /\ Updated(x, v).owner = v.owner
         /\ Updated(x, v).labelled = v.labelled
  <1>1. WantedData(x) \in Data
    BY ParametersAssumption
    DEF IInv, WorkerTypes, Identified, NFRecord, WantedData, Data
  <1>2. nf.uid \in Nat /\ (x \in Labelled) \in BOOLEAN
    BY DEF IInv, WorkerTypes, Identified, NFRecord
  <1>3. Wanted(x) \in OwnedRecord /\ Wanted(x).owner = nf.uid
    BY <1>1, <1>2, BlankTypes DEF Wanted, OwnedRecord, NoObject
  <1> QED
    BY <1>1, <1>3, RewrittenType DEF Updated

\* A step of the AMF's or SMF's Reconcile for an owned object.
LEMMA ReconcileObjectKeepsIInv ==
  ASSUME IInv, NEW k \in SDCoreKinds, NEW x \in Objects \ UPFObjects,
         NEW next \in Objects \cup {"status"}, ReconcileObject(k, x, next)
  PROVE  IInv' /\ StatusStep /\ ForeignStep
  <1>1. pc = x /\ cache[x] \in OwnedRecord
    BY TombstoneType DEF ReconcileObject
  <1>2. CASE Skip(next)
    BY <1>1, <1>2, SkipKeepsIInv
  <1>3. ASSUME NEW v \in OwnedRecord, NEW valid \in BOOLEAN, Call(x, v, valid, next),
               valid /\ v.live /\ v.labelled => ByNF(v.owner)
        PROVE  IInv' /\ StatusStep /\ ForeignStep
    <2>1. /\ IInv' /\ StatusStep
          /\ \A y \in Objects :
               store'[y] = store[y] \/ (y = x /\ valid /\ store'[y] = v)
      BY <1>1, <1>3, CallKeepsIInv DEF Made
    <2> QED
      BY <2>1 DEF ForeignStep, KeptFor, Objects, IInv, OwnerInv, Made, ByNF
  <1>4. CASE CreateObject(x, Wanted(x), next)
    <2>1. Call(x, Wanted(x), ~store[x].live, next)
      BY <1>4 DEF CreateObject
    <2>2. ByNF(Wanted(x).owner)
      BY <1>1, CopyHasUid, SDCoreWriteTypes
    <2> QED
      BY <2>1, <2>2, <1>1, <1>3, SDCoreWriteTypes
  <1>5. CASE UpdateObject(x, Updated(x, cache[x]), next)
    <2>1. Call(x, Updated(x, cache[x]), watch[x] = <<>>, next)
      BY <1>5 DEF UpdateObject
    <2>2. watch[x] = <<>> => cache[x] = store[x]
      BY NamesAre DEF IInv, ServerInv, Trails
    <2>3. watch[x] = <<>> /\ cache[x].live /\ cache[x].labelled => ByNF(cache[x].owner)
      BY <2>2 DEF IInv, OwnerInv, Made
    <2>4. /\ Updated(x, cache[x]) \in OwnedRecord
          /\ watch[x] = <<>> /\ Updated(x, cache[x]).live /\ Updated(x, cache[x]).labelled
               => ByNF(Updated(x, cache[x]).owner)
      BY <2>3, <1>1, SDCoreWriteTypes
    <2> QED
      BY <2>1, <2>4, <1>3
  <1> QED
    BY <1>2, <1>4, <1>5 DEF ReconcileObject

\* Its last step: the generation reported is that of the copy, which is the stored
\* version if the update is accepted.
LEMMA UpdateStatusKeepsIInv ==
  ASSUME IInv, NEW k \in SDCoreKinds, UpdateStatus(k)
  PROVE  IInv' /\ StatusStep /\ ForeignStep
  <1>1. CASE DeploymentMissing(k)
    BY <1>1, GiveUpKeepsIInv DEF DeploymentMissing
  <1>2. CASE \E restamped \in BOOLEAN :
               UpdateStatusOfNF(SDCoreStatus(cache[k]), restamped, changed)
    <2>1. PICK restamped \in BOOLEAN :
            UpdateStatusOfNF(SDCoreStatus(cache[k]), restamped, changed)
      BY <1>2
    <2>2. SDCoreStatus(cache[k]) \in [obs: Nat, available: Conds, ready: Conds]
      BY DEF IInv, WorkerTypes, Identified, NFRecord, SDCoreStatus, Conds
    <2>3. SDCoreStatus(cache[k]).obs = nf.gen
      BY DEF SDCoreStatus
    <2>4. pc = "status" /\ changed \in BOOLEAN
      BY DEF UpdateStatus, IInv, WorkerTypes
    <2>5. /\ IInv' /\ ForeignStep
          /\ \/ store'["nf"] = store["nf"]
             \/ nf = store["nf"] /\ store'["nf"].obs = SDCoreStatus(cache[k]).obs
                                 /\ store'["nf"].gen = nf.gen
      BY <2>1, <2>2, <2>4, StatusUpdateKeepsIInv
    <2> QED
      BY <2>3, <2>5 DEF StatusStep
  <1> QED
    BY <1>1, <1>2 DEF UpdateStatus

\* All steps of the AMF's Reconcile.
LEMMA AMFReconcileKeepsIInv ==
  ASSUME IInv, AMFReconcile
  PROVE  IInv' /\ StatusStep /\ ForeignStep
  <1>1. /\ "amf" \in SDCoreKinds /\ "amf" \in NetworkFunctions
        /\ AMFObjects \subseteq Objects \ UPFObjects
        /\ {"amf-config", "amf", "amf-service", "amf-headless"} \subseteq AMFObjects
    BY DEF SDCoreKinds, NetworkFunctions, Objects, AMFObjects, UPFObjects
  <1>2. CASE Fetch("amf", "amf-config")
    BY <1>1, <1>2, FetchKeepsIInv
  <1>3. CASE ReconcileObject("amf", "amf-config", "amf")
    BY <1>1, <1>3, ReconcileObjectKeepsIInv
  <1>4. CASE ReconcileObject("amf", "amf", "amf-service")
    BY <1>1, <1>4, ReconcileObjectKeepsIInv
  <1>5. CASE ReconcileObject("amf", "amf-service", "amf-headless")
    BY <1>1, <1>5, ReconcileObjectKeepsIInv
  <1>6. CASE ReconcileObject("amf", "amf-headless", "status")
    BY <1>1, <1>6, ReconcileObjectKeepsIInv
  <1>7. CASE UpdateStatus("amf")
    BY <1>1, <1>7, UpdateStatusKeepsIInv
  <1> QED
    BY <1>2, <1>3, <1>4, <1>5, <1>6, <1>7 DEF AMFReconcile

\* All steps of the SMF's Reconcile.
LEMMA SMFReconcileKeepsIInv ==
  ASSUME IInv, SMFReconcile
  PROVE  IInv' /\ StatusStep /\ ForeignStep
  <1>1. /\ "smf" \in SDCoreKinds /\ "smf" \in NetworkFunctions
        /\ SMFObjects \subseteq Objects \ UPFObjects
        /\ {"smf-config", "smf", "smf-service"} \subseteq SMFObjects
    BY DEF SDCoreKinds, NetworkFunctions, Objects, SMFObjects, UPFObjects
  <1>2. CASE Fetch("smf", "smf-config")
    BY <1>1, <1>2, FetchKeepsIInv
  <1>3. CASE ReconcileObject("smf", "smf-config", "smf")
    BY <1>1, <1>3, ReconcileObjectKeepsIInv
  <1>4. CASE ReconcileObject("smf", "smf", "smf-service")
    BY <1>1, <1>4, ReconcileObjectKeepsIInv
  <1>5. CASE ReconcileObject("smf", "smf-service", "status")
    BY <1>1, <1>5, ReconcileObjectKeepsIInv
  <1>6. CASE UpdateStatus("smf")
    BY <1>1, <1>6, UpdateStatusKeepsIInv
  <1> QED
    BY <1>2, <1>3, <1>4, <1>5, <1>6 DEF SMFReconcile

\* What CreateOrUpdate writes is well typed and belongs to the NFDeployment.
LEMMA MutatedType ==
  ASSUME IInv, NEW x \in Objects, NEW v \in OwnedRecord
  PROVE  /\ Mutated(x, v) \in OwnedRecord /\ Mutated(x, v).owner = nf.uid
         /\ [Mutated(x, v) EXCEPT !.gen = 1] \in OwnedRecord
         /\ [Mutated(x, v) EXCEPT !.gen = 1].owner = nf.uid
  <1>1. nf.uid \in Nat
    BY DEF IInv, WorkerTypes, Identified, NFRecord
  <1>2. "fixed" \in Data
    BY DEF Data
  <1>3. PICK w \in OwnedRecord : w = Rewritten(x, v, "fixed")
    BY <1>2, RewrittenType
  <1>4. Mutated(x, v) = [w EXCEPT !.live = TRUE, !.owner = nf.uid]
    BY <1>3 DEF Mutated, Configured
  <1>5. PICK m \in OwnedRecord : m = Mutated(x, v) /\ m.owner = nf.uid
    BY <1>1, <1>4 DEF OwnedRecord
  <1>6. [m EXCEPT !.gen = 1] \in OwnedRecord /\ [m EXCEPT !.gen = 1].owner = m.owner
    BY DEF OwnedRecord
  <1> QED
    BY <1>1, <1>5, <1>6

\* The one place where the optimistic concurrency of the update matters: what
\* it overwrites is what was read, and that was not another controller's.
LEMMA CreateOrUpdateKeepsIInv ==
  ASSUME IInv, NEW x \in Objects, NEW next \in Objects \cup {"status"},
         CreateOrUpdate(x, next)
  PROVE  IInv' /\ StatusStep /\ ForeignStep
  <1>1. pc = x /\ cache[x] \in OwnedRecord
    BY TombstoneType DEF CreateOrUpdate
  <1>2. CASE Skip(next)
    BY <1>1, <1>2, SkipKeepsIInv
  <1>3. CASE Return(TRUE) /\ UNCHANGED <<serverVars, cache, queued, kind, budgets>>
    BY <1>3, GiveUpKeepsIInv
  <1>4. ASSUME NEW v \in OwnedRecord, NEW valid \in BOOLEAN, Call(x, v, valid, next),
               ByNF(v.owner),
               valid => ~(store[x].live /\ store[x].owner = Foreign)
        PROVE  IInv' /\ StatusStep /\ ForeignStep
    <2>1. /\ IInv' /\ StatusStep
          /\ \A y \in Objects :
               store'[y] = store[y] \/ (y = x /\ valid /\ store'[y] = v)
      BY <1>1, <1>4, CallKeepsIInv
    <2> QED
      BY <2>1, <1>4 DEF ForeignStep, KeptFor, Objects, IInv, OwnerInv, Made, ByNF
  <1>5. CASE CreateObject(x, [Mutated(x, NoObject) EXCEPT !.gen = 1], next)
    <2>1. Call(x, [Mutated(x, NoObject) EXCEPT !.gen = 1], ~store[x].live, next)
      BY <1>5 DEF CreateObject
    <2>2. /\ [Mutated(x, NoObject) EXCEPT !.gen = 1] \in OwnedRecord
          /\ ByNF([Mutated(x, NoObject) EXCEPT !.gen = 1].owner)
      BY <1>1, MutatedType, BlankTypes, CopyHasUid
    <2> QED
      BY <2>1, <2>2, <1>4
  <1>6. CASE ~AlreadyOwned(cache[x]) /\ UpdateObject(x, Mutated(x, cache[x]), next)
    <2>1. Call(x, Mutated(x, cache[x]), watch[x] = <<>>, next)
      BY <1>6 DEF UpdateObject
    <2>2. watch[x] = <<>> => store[x].owner # Foreign
      BY <1>6, NamesAre DEF AlreadyOwned, IInv, ServerInv, Trails
    <2>3. Mutated(x, cache[x]) \in OwnedRecord /\ ByNF(Mutated(x, cache[x]).owner)
      BY <1>1, MutatedType, CopyHasUid
    <2> QED
      BY <2>1, <2>2, <2>3, <1>4
  <1> QED
    BY <1>2, <1>3, <1>5, <1>6 DEF CreateOrUpdate

\* The UPF's status update.
LEMMA UpdateUPFStatusKeepsIInv ==
  ASSUME IInv, UpdateUPFStatus
  PROVE  IInv' /\ StatusStep /\ ForeignStep
  <1>1. /\ cache["upf"] \in OwnedRecord /\ kind = "upf" /\ pc = "status"
        /\ "upf" \notin SDCoreKinds
    BY TombstoneType DEF UpdateUPFStatus, Objects, UPFObjects, SDCoreKinds
  <1>2. CASE /\ \E b \in BOOLEAN : Return(b)
             /\ UNCHANGED <<serverVars, cache, queued, kind, budgets>>
    BY <1>2, GiveUpKeepsIInv
  <1>3. CASE UpdateStatusOfNF(UPFStatus(cache["upf"]), TRUE, FALSE)
    <2>1. UPFStatus(cache["upf"]) \in [obs: Nat, available: Conds, ready: Conds]
      BY <1>1 DEF UPFStatus, OwnedRecord, Conds
    <2>2. IInv' /\ ForeignStep /\ (store'["nf"] = store["nf"] \/ nf = store["nf"])
      BY <2>1, <1>1, <1>3, StatusUpdateKeepsIInv
    <2>3. IsProviderSDCoreUPF(nf.provider)
      BY <1>1 DEF IInv, CopyInv, Accepts
    <2> QED
      BY <2>2, <2>3, <1>1 DEF StatusStep
  <1> QED
    BY <1>2, <1>3 DEF UpdateUPFStatus

\* All steps of the UPF's Reconcile.
LEMMA UPFReconcileKeepsIInv ==
  ASSUME IInv, UPFReconcile
  PROVE  IInv' /\ StatusStep /\ ForeignStep
  <1>1. {"upf-config", "upf", "upf-service"} \subseteq Objects /\ "upf" \in NetworkFunctions
    BY DEF Objects, UPFObjects, NetworkFunctions
  <1>2. CASE Fetch("upf", "upf-config")
    BY <1>1, <1>2, FetchKeepsIInv
  <1>3. CASE CreateOrUpdate("upf-config", "upf")
    BY <1>1, <1>3, CreateOrUpdateKeepsIInv
  <1>4. CASE CreateOrUpdate("upf", "upf-service")
    BY <1>1, <1>4, CreateOrUpdateKeepsIInv
  <1>5. CASE CreateOrUpdate("upf-service", "status")
    BY <1>1, <1>5, CreateOrUpdateKeepsIInv
  <1>6. CASE UpdateUPFStatus
    BY <1>6, UpdateUPFStatusKeepsIInv
  <1> QED
    BY <1>2, <1>3, <1>4, <1>5, <1>6 DEF UPFReconcile

-----------------------------------------------------------------------------
(* The theorems.                                                           *)

\* The invariant holds of an empty cluster.
LEMMA InitEstablishesIInv == Init => IInv
  <1> SUFFICES ASSUME Init PROVE IInv
    OBVIOUS
  <1>1. \A x \in Names : Nothing[x] \in Version(x) /\ <<>> \in Seq(Version(x))
    BY BlankTypes, EmptySeq DEF Nothing, Version
  <1>2. ServerInv
    BY <1>1 DEF Init, ServerInv, ServerTypes, Trails, Nothing
  <1>3. WorkerTypes
    <2>1. 0 \in 0..MaxEdits /\ 0 \in 0..MaxMoves /\ 0 \in 0..MaxFaults
      BY ParametersAssumption
    <2> QED
      BY <2>1, BlankTypes DEF Init, WorkerTypes, NetworkFunctions
  <1>4. CopyInv
    BY DEF Init, CopyInv, NoNF
  <1>5. OwnerInv
    BY DEF Init, OwnerInv, Nothing, NoObject, Names, Objects, AMFObjects, SMFObjects,
           UPFObjects
  <1> QED
    BY <1>2, <1>3, <1>4, <1>5 DEF IInv

\* The invariant does not depend on anything outside vars.
LEMMA StutterKeepsIInv ==
  ASSUME IInv, UNCHANGED vars
  PROVE  IInv' /\ StatusStep /\ ForeignStep
  <1>1. ServerInv' /\ WorkerTypes' /\ CopyInv' /\ OwnerInv' /\ store' = store
    BY DEF vars, budgets, IInv, ServerInv, ServerTypes, Trails, WorkerTypes, CopyInv,
           OwnerInv
  <1> QED
    BY <1>1, QuietStep DEF IInv

\* Every step keeps the invariant and obeys the two step properties.
LEMMA NextKeepsIInv ==
  ASSUME IInv, [Next]_vars
  PROVE  IInv' /\ StatusStep /\ ForeignStep
  <1>1. CASE UNCHANGED vars
    BY <1>1, StutterKeepsIInv
  <1>2. CASE Environment
    <2>1. CASE Users
      BY <2>1, UsersKeepIInv
    <2>2. ASSUME NEW x \in Objects, CollectGarbage(x)
          PROVE  IInv' /\ StatusStep /\ ForeignStep
      BY <2>2, CollectGarbageKeepsIInv
    <2>3. ASSUME NEW x \in Contested, Others(x)
          PROVE  IInv' /\ StatusStep /\ ForeignStep
      BY <2>3, NamesAre, OthersKeepIInv
    <2>4. ASSUME NEW x \in Names, Deliver(x)
          PROVE  IInv' /\ StatusStep /\ ForeignStep
      BY <2>4, DeliverKeepsIInv
    <2>5. CASE Timer
      BY <2>5, TimerKeepsIInv
    <2>6. CASE Restart
      BY <2>6, RestartKeepsIInv
    <2>7. CASE FinishDeletion
      BY <2>7, FinishDeletionKeepsIInv
    <2> QED
      BY <1>2, <2>1, <2>2, <2>3, <2>4, <2>5, <2>6, <2>7 DEF Environment, Outside
  <1>3. CASE Worker
    <2>1. CASE Begin
      BY <2>1, BeginKeepsIInv
    <2>2. CASE AMFReconcile
      BY <2>2, AMFReconcileKeepsIInv
    <2>3. CASE SMFReconcile
      BY <2>3, SMFReconcileKeepsIInv
    <2>4. CASE UPFReconcile
      BY <2>4, UPFReconcileKeepsIInv
    <2> QED
      BY <1>3, <2>1, <2>2, <2>3, <2>4 DEF Worker
  <1> QED
    BY <1>1, <1>2, <1>3 DEF Next

\* The invariant the theorems rest on holds throughout.
THEOREM Invariance == Spec => []IInv
  <1>1. IInv /\ [Next]_vars => IInv'
    BY NextKeepsIInv
  <1> QED
    BY InitEstablishesIInv, <1>1, PTL DEF Spec

\* The invariant says more than that the types are right.
LEMMA InvariantTypes == IInv => TypeOK
  <1>1. ASSUME NEW x \in Names, NEW q \in Seq(Version(x))
        PROVE  Version(x) \subseteq Record(x) /\ q \in Seq(Record(x))
    <2>1. Version(x) \subseteq Record(x)
      BY DEF Version, Record, Identified
    <2>2. \A i \in 1..Len(q) : q[i] \in Version(x)
      BY ElementOfSeq
    <2> QED
      BY <2>1, <2>2, SeqDef, LenProperties
  <1> QED
    BY <1>1 DEF IInv, ServerInv, ServerTypes, WorkerTypes, TypeOK, Identified

\* Every variable keeps its type, whatever the constants.
THEOREM TypeCorrect == Spec => []TypeOK
  BY Invariance, InvariantTypes, PTL

\* An AMF's or SMF's status only ever starts to claim the generation that is
\* current: the status update carries the version of the NFDeployment that was
\* read, and is accepted only while that is the stored one.
THEOREM StatusCurrent == Spec => StatusIsOfCurrentSpec
  <1>1. IInv /\ [Next]_vars =>
          (store["nf"].live /\ kind \in SDCoreKinds /\ store'["nf"].obs # store["nf"].obs
             => store'["nf"].obs = store'["nf"].gen)
    BY NextKeepsIInv DEF StatusStep
  <1> QED
    BY Invariance, <1>1, PTL DEF Spec, StatusIsOfCurrentSpec

\* What belongs to another controller under the name of a UPF's object is
\* neither overwritten nor taken over.
THEOREM ForeignSafe == Spec => ForeignUntouched
  <1>1. IInv /\ [Next]_vars => ForeignStep
    BY NextKeepsIInv
  <1>2. Spec => [][ForeignStep]_vars
    BY Invariance, <1>1, PTL DEF Spec
  <1> QED
    BY <1>2 DEF ForeignUntouched, ForeignStep

\* At rest there is nothing for the garbage collector to remove: what bears the
\* operator's marks belongs to the NFDeployment that is there.
LEMMA RestLeavesNothing ==
  ASSUME IInv, Quiet, ~store["nf"].live, NEW x \in Objects, store[x].live
  PROVE  ~Made(x, store[x])
  BY DEF IInv, OwnerInv, Quiet, Doomed

LEMMA RestIsClean == IInv => SettledLeavesNothing /\ SettledLeavesNoUPF
  <1>1. UPFObjects \subseteq Objects
    BY DEF Objects
  <1> QED
    BY <1>1, RestLeavesNothing
    DEF SettledLeavesNothing, SettledLeavesNoUPF, Made, KeptFor

\* Whatever the operator has created for an AMF or SMF is gone with it: even
\* what a Reconcile creates after the deletion, from a cached copy, carries a
\* controller reference to the uid that is gone.
THEOREM NothingLeft == Spec => []SettledLeavesNothing
  BY Invariance, RestIsClean, PTL

\* So is whatever it wrote for a UPF, what it took over from others included.
THEOREM NoUPFLeft == Spec => []SettledLeavesNoUPF
  BY Invariance, RestIsClean, PTL
=============================================================================
