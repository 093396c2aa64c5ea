---------------------------- MODULE RollOutProofs ----------------------------
(***************************************************************************)
(* Two operators at once: proofs about RollOut, for any values of the      *)
(* constants.                                                              *)
(***************************************************************************)
EXTENDS RollOut, TLAPS

\* What is proved about one operator holds of each of the two: the theorems and
\* lemmas about NFOperator, taken for the variables of the old one and for those
\* of the new one.
OldP == INSTANCE FirstServicesProofs WITH
  cache <- oldCache, watch <- oldWatch, queued <- oldQueued,
  delayed <- oldDelayed, pc <- oldPc, kind <- oldKind, nf <- oldNf,
  overtaken <- oldOvertaken, changed <- oldChanged

NewP == INSTANCE FirstServicesProofs WITH
  cache <- newCache, watch <- newWatch, queued <- newQueued,
  delayed <- newDelayed, pc <- newPc, kind <- newKind, nf <- newNf,
  overtaken <- newOvertaken, changed <- newChanged

\* What is assumed of the parameters here is what was assumed for the old one.
LEMMA OldParameters == OldP!ParametersAssumption
  BY ParametersAssumption, Zenon
  DEF OldP!ParametersAssumption, DotSDCore, OldP!DotSDCore, AllProviders,
      OldP!AllProviders, NetworkFunctions, OldP!NetworkFunctions, AMFObjects,
      OldP!AMFObjects, SMFObjects, OldP!SMFObjects, UPFObjects, OldP!UPFObjects,
      Objects, OldP!Objects, NoHealth, OldP!NoHealth

\* The same for the new one.
LEMMA NewParameters == NewP!ParametersAssumption
  BY ParametersAssumption, Zenon
  DEF NewP!ParametersAssumption, DotSDCore, NewP!DotSDCore, AllProviders,
      NewP!AllProviders, NetworkFunctions, NewP!NetworkFunctions, AMFObjects,
      NewP!AMFObjects, SMFObjects, NewP!SMFObjects, UPFObjects, NewP!UPFObjects,
      Objects, NewP!Objects, NoHealth, NewP!NoHealth

\* The old operator of the roll-out is the one the theorems are about.
LEMMA OldIsTheOperator ==
  /\ Old!Init <=> OldP!Init
  /\ Old!TypeOK <=> OldP!TypeOK
  /\ Old!Worker <=> OldP!Worker
  /\ Old!Timer <=> OldP!Timer
  /\ Old!Restart <=> OldP!Restart
  /\ Old!Outside <=> OldP!Outside
  /\ \A x \in Names : Old!Deliver(x) => x \in OldP!Names /\ OldP!Deliver(x)
  /\ Old!SettledMeansConverged <=> OldP!SettledMeansConverged
  /\ Old!SettledMeansRepaired <=> OldP!SettledMeansRepaired
  /\ Old!SettledLeavesNothing <=> OldP!SettledLeavesNothing
  /\ Old!SettledLeavesNoUPF <=> OldP!SettledLeavesNoUPF
  /\ Old!ServicesCreated <=> OldP!ServicesCreated
  <1> USE DEF
        Old!DotSDCore, OldP!DotSDCore, Old!AllProviders, OldP!AllProviders,
        Old!IsProviderSDCoreUPF, OldP!IsProviderSDCoreUPF, Old!IsProviderSDCore,
        OldP!IsProviderSDCore, Old!NetworkFunctions, OldP!NetworkFunctions,
        Old!Route, OldP!Route, Old!Accepts, OldP!Accepts, AMFObjects,
        Old!AMFObjects, OldP!AMFObjects, SMFObjects, Old!SMFObjects,
        OldP!SMFObjects, UPFObjects, Old!UPFObjects, OldP!UPFObjects, Objects,
        Old!Objects, OldP!Objects, Old!ConfigMaps, OldP!ConfigMaps, Old!Deployments,
        OldP!Deployments, Names, Old!Names, OldP!Names, Old!NoHealth, OldP!NoHealth,
        Old!Watched, OldP!Watched, Old!Labelled, OldP!Labelled, Old!Conds,
        OldP!Conds, Old!Data, OldP!Data, Old!NFRecord, OldP!NFRecord,
        Old!OwnedRecord, OldP!OwnedRecord, Old!Record, OldP!Record, Old!NoNF,
        OldP!NoNF, Old!NoObject, OldP!NoObject, Old!Nothing, OldP!Nothing, Old!ByNF,
        OldP!ByNF, Old!KeptFor, OldP!KeptFor, Old!Rewritten, OldP!Rewritten,
        Old!serverVars, OldP!serverVars, Old!budgets, OldP!budgets, Old!TypeOK,
        OldP!TypeOK, Old!Init, OldP!Init, Old!Commit, OldP!Commit, Old!Writes,
        OldP!Writes, Old!Put, OldP!Put, Old!Tombstone, OldP!Tombstone, Old!Mine,
        OldP!Mine, Old!Doomed, OldP!Doomed, Old!CollectGarbage, OldP!CollectGarbage,
        Old!FinishDeletion, OldP!FinishDeletion, Old!UserWrites, OldP!UserWrites,
        Old!CreateNF, OldP!CreateNF, Old!EditNF, OldP!EditNF, Old!TouchNF,
        OldP!TouchNF, Old!DeleteNF, OldP!DeleteNF, Old!DeleteInForeground,
        OldP!DeleteInForeground, Old!Users, OldP!Users, Old!Moves, OldP!Moves,
        Old!ReportHealth, OldP!ReportHealth, Old!Tamper, OldP!Tamper, Old!Remove,
        OldP!Remove, Old!Occupy, OldP!Occupy, Old!Others, OldP!Others, Old!Enqueues,
        OldP!Enqueues, Old!Lists, OldP!Lists, Old!Deliver, OldP!Deliver,
        Old!Timer, OldP!Timer, Old!Restart, OldP!Restart, Old!Return, OldP!Return, Old!Begin, OldP!Begin,
        Old!Fetch, OldP!Fetch, Old!Call, OldP!Call, Old!CreateObject,
        OldP!CreateObject, Old!UpdateObject, OldP!UpdateObject, Old!Skip, OldP!Skip,
        Old!WithStatus, OldP!WithStatus, Old!UpdateStatusOfNF,
        OldP!UpdateStatusOfNF, Old!Outside, OldP!Outside, Old!Quiet, OldP!Quiet,
        Old!Handled, OldP!Handled, Old!SDCoreKinds, OldP!SDCoreKinds,
        Old!WantedData, OldP!WantedData, Old!Wanted, OldP!Wanted, Old!Equal,
        OldP!Equal, Old!Updated, OldP!Updated, Old!ReconcileObject,
        OldP!ReconcileObject, Old!DeploymentMissing, OldP!DeploymentMissing,
        Old!SDCoreStatus, OldP!SDCoreStatus, Old!UpdateStatus, OldP!UpdateStatus,
        Old!AMFReconcile, OldP!AMFReconcile, Old!SMFReconcile, OldP!SMFReconcile,
        Old!Configured, OldP!Configured, Old!Mutated, OldP!Mutated, Old!AlreadyOwned, OldP!AlreadyOwned,
        Old!CreateOrUpdate, OldP!CreateOrUpdate, Old!UPFStatus, OldP!UPFStatus,
        Old!StatusOf, OldP!StatusOf, Old!UpdateUPFStatus, OldP!UpdateUPFStatus,
        Old!UPFReconcile, OldP!UPFReconcile, Old!Worker, OldP!Worker, Old!Usurped,
        OldP!Usurped, Old!AsWanted, OldP!AsWanted, Old!Reported, OldP!Reported,
        Old!SettledMeansConverged, OldP!SettledMeansConverged,
        Old!SettledLeavesNothing, OldP!SettledLeavesNothing,
        Old!SettledMeansRepaired, OldP!SettledMeansRepaired, Old!SettledLeavesNoUPF,
        OldP!SettledLeavesNoUPF, Old!ServicesCreated, OldP!ServicesCreated
  <1>1. Old!Init <=> OldP!Init
    BY Zenon
  <1>2. Old!TypeOK <=> OldP!TypeOK
    BY Zenon
  <1>3. Old!Worker <=> OldP!Worker
    BY Zenon
  <1>4. Old!Timer <=> OldP!Timer
    BY Zenon
  <1>5. Old!Restart <=> OldP!Restart
    BY Zenon
  <1>6. Old!Outside <=> OldP!Outside
    BY Zenon
  <1>7. \A x \in Names : Old!Deliver(x) => x \in OldP!Names /\ OldP!Deliver(x)
    BY Zenon
  <1>8. Old!SettledMeansConverged <=> OldP!SettledMeansConverged
    BY Zenon
  <1>9. Old!SettledMeansRepaired <=> OldP!SettledMeansRepaired
    BY Zenon
  <1>10. Old!SettledLeavesNothing <=> OldP!SettledLeavesNothing
    BY Zenon
  <1>11. Old!SettledLeavesNoUPF <=> OldP!SettledLeavesNoUPF
    BY Zenon
  <1>12. Old!ServicesCreated <=> OldP!ServicesCreated
    BY Zenon
  <1> QED
    BY <1>1, <1>2, <1>3, <1>4, <1>5, <1>6, <1>7, <1>8, <1>9, <1>10, <1>11, <1>12

\* And so is the new one.
LEMMA NewIsTheOperator ==
  /\ New!Init <=> NewP!Init
  /\ New!TypeOK <=> NewP!TypeOK
  /\ New!Worker <=> NewP!Worker
  /\ New!Timer <=> NewP!Timer
  /\ New!Restart <=> NewP!Restart
  /\ New!Outside <=> NewP!Outside
  /\ \A x \in Names : New!Deliver(x) => x \in NewP!Names /\ NewP!Deliver(x)
  /\ New!SettledMeansConverged <=> NewP!SettledMeansConverged
  /\ New!SettledMeansRepaired <=> NewP!SettledMeansRepaired
  /\ New!SettledLeavesNothing <=> NewP!SettledLeavesNothing
  /\ New!SettledLeavesNoUPF <=> NewP!SettledLeavesNoUPF
  /\ New!ServicesCreated <=> NewP!ServicesCreated
  <1> USE DEF
        New!DotSDCore, NewP!DotSDCore, New!AllProviders, NewP!AllProviders,
        New!IsProviderSDCoreUPF, NewP!IsProviderSDCoreUPF, New!IsProviderSDCore,
        NewP!IsProviderSDCore, New!NetworkFunctions, NewP!NetworkFunctions,
        New!Route, NewP!Route, New!Accepts, NewP!Accepts, AMFObjects,
        New!AMFObjects, NewP!AMFObjects, SMFObjects, New!SMFObjects,
        NewP!SMFObjects, UPFObjects, New!UPFObjects, NewP!UPFObjects, Objects,
        New!Objects, NewP!Objects, New!ConfigMaps, NewP!ConfigMaps, New!Deployments,
        NewP!Deployments, Names, New!Names, NewP!Names, New!NoHealth, NewP!NoHealth,
        New!Watched, NewP!Watched, New!Labelled, NewP!Labelled, New!Conds,
        NewP!Conds, New!Data, NewP!Data, New!NFRecord, NewP!NFRecord,
        New!OwnedRecord, NewP!OwnedRecord, New!Record, NewP!Record, New!NoNF,
        NewP!NoNF, New!NoObject, NewP!NoObject, New!Nothing, NewP!Nothing, New!ByNF,
        NewP!ByNF, New!KeptFor, NewP!KeptFor, New!Rewritten, NewP!Rewritten,
        New!serverVars, NewP!serverVars, New!budgets, NewP!budgets, New!TypeOK,
        NewP!TypeOK, New!Init, NewP!Init, New!Commit, NewP!Commit, New!Writes,
        NewP!Writes, New!Put, NewP!Put, New!Tombstone, NewP!Tombstone, New!Mine,
        NewP!Mine, New!Doomed, NewP!Doomed, New!CollectGarbage, NewP!CollectGarbage,
        New!FinishDeletion, NewP!FinishDeletion, New!UserWrites, NewP!UserWrites,
        New!CreateNF, NewP!CreateNF, New!EditNF, NewP!EditNF, New!TouchNF,
        NewP!TouchNF, New!DeleteNF, NewP!DeleteNF, New!DeleteInForeground,
        NewP!DeleteInForeground, New!Users, NewP!Users, New!Moves, NewP!Moves,
        New!ReportHealth, NewP!ReportHealth, New!Tamper, NewP!Tamper, New!Remove,
        NewP!Remove, New!Occupy, NewP!Occupy, New!Others, NewP!Others, New!Enqueues,
        NewP!Enqueues, New!Lists, NewP!Lists, New!Deliver, NewP!Deliver,
        New!Timer, NewP!Timer, New!Restart, NewP!Restart, New!Return, NewP!Return, New!Begin, NewP!Begin,
        New!Fetch, NewP!Fetch, New!Call, NewP!Call, New!CreateObject,
        NewP!CreateObject, New!UpdateObject, NewP!UpdateObject, New!Skip, NewP!Skip,
        New!WithStatus, NewP!WithStatus, New!UpdateStatusOfNF,
        NewP!UpdateStatusOfNF, New!Outside, NewP!Outside, New!Quiet, NewP!Quiet,
        New!Handled, NewP!Handled, New!SDCoreKinds, NewP!SDCoreKinds,
        New!WantedData, NewP!WantedData, New!Wanted, NewP!Wanted, New!Equal,
        NewP!Equal, New!Updated, NewP!Updated, New!ReconcileObject,
        NewP!ReconcileObject, New!DeploymentMissing, NewP!DeploymentMissing,
        New!SDCoreStatus, NewP!SDCoreStatus, New!UpdateStatus, NewP!UpdateStatus,
        New!AMFReconcile, NewP!AMFReconcile, New!SMFReconcile, NewP!SMFReconcile,
        New!Configured, NewP!Configured, New!Mutated, NewP!Mutated, New!AlreadyOwned, NewP!AlreadyOwned,
        New!CreateOrUpdate, NewP!CreateOrUpdate, New!UPFStatus, NewP!UPFStatus,
        New!StatusOf, NewP!StatusOf, New!UpdateUPFStatus, NewP!UpdateUPFStatus,
        New!UPFReconcile, NewP!UPFReconcile, New!Worker, NewP!Worker, New!Usurped,
        NewP!Usurped, New!AsWanted, NewP!AsWanted, New!Reported, NewP!Reported,
        New!SettledMeansConverged, NewP!SettledMeansConverged,
        New!SettledLeavesNothing, NewP!SettledLeavesNothing,
        New!SettledMeansRepaired, NewP!SettledMeansRepaired, New!SettledLeavesNoUPF,
        NewP!SettledLeavesNoUPF, New!ServicesCreated, NewP!ServicesCreated
  <1>1. New!Init <=> NewP!Init
    BY Zenon
  <1>2. New!TypeOK <=> NewP!TypeOK
    BY Zenon
  <1>3. New!Worker <=> NewP!Worker
    BY Zenon
  <1>4. New!Timer <=> NewP!Timer
    BY Zenon
  <1>5. New!Restart <=> NewP!Restart
    BY Zenon
  <1>6. New!Outside <=> NewP!Outside
    BY Zenon
  <1>7. \A x \in Names : New!Deliver(x) => x \in NewP!Names /\ NewP!Deliver(x)
    BY Zenon
  <1>8. New!SettledMeansConverged <=> NewP!SettledMeansConverged
    BY Zenon
  <1>9. New!SettledMeansRepaired <=> NewP!SettledMeansRepaired
    BY Zenon
  <1>10. New!SettledLeavesNothing <=> NewP!SettledLeavesNothing
    BY Zenon
  <1>11. New!SettledLeavesNoUPF <=> NewP!SettledLeavesNoUPF
    BY Zenon
  <1>12. New!ServicesCreated <=> NewP!ServicesCreated
    BY Zenon
  <1> QED
    BY <1>1, <1>2, <1>3, <1>4, <1>5, <1>6, <1>7, <1>8, <1>9, <1>10, <1>11, <1>12

-----------------------------------------------------------------------------
(* The invariant.                                                          *)

\* The registers of an operator that does not run.
Unused ==
  <<Nothing, [x \in Names |-> <<>>], FALSE, FALSE, "idle", "upf", NoNF, FALSE, FALSE>>

\* Each operator that runs keeps the invariant it keeps alone: it does not speak
\* of what others do, but of what the operator has seen of it.
PairInv ==
  \/ phase = "old" /\ OldP!FInv /\ newVars = Unused
  \/ phase = "both" /\ OldP!FInv /\ NewP!FInv
  \/ phase = "new" /\ NewP!FInv /\ oldVars = Unused

\* The two know the same names and versions.
LEMMA SameTerms ==
  /\ OldP!Names = Names /\ NewP!Names = Names
  /\ OldP!Objects = Objects /\ NewP!Objects = Objects
  /\ OldP!Nothing = Nothing /\ NewP!Nothing = Nothing
  /\ OldP!NoNF = NoNF /\ NewP!NoNF = NoNF
  /\ OldP!NoObject = NoObject /\ NewP!NoObject = NoObject
  /\ \A x : OldP!Record(x) = NewP!Record(x)
  /\ \A x : OldP!Version(x) = NewP!Version(x)
  BY Zenon
  DEF DotSDCore, OldP!DotSDCore, NewP!DotSDCore, AllProviders, OldP!AllProviders,
      NewP!AllProviders, AMFObjects, OldP!AMFObjects, NewP!AMFObjects, SMFObjects,
      OldP!SMFObjects, NewP!SMFObjects, UPFObjects, OldP!UPFObjects,
      NewP!UPFObjects, Objects, OldP!Objects, NewP!Objects, Names, OldP!Names,
      NewP!Names, NoHealth, OldP!NoHealth, NewP!NoHealth, Conds, OldP!Conds,
      NewP!Conds, Data, OldP!Data, NewP!Data, NFRecord, OldP!NFRecord,
      NewP!NFRecord, OwnedRecord, OldP!OwnedRecord, NewP!OwnedRecord, Record,
      OldP!Record, NewP!Record, NoNF, OldP!NoNF, NewP!NoNF, NoObject, OldP!NoObject,
      NewP!NoObject, Nothing, OldP!Nothing, NewP!Nothing, OldP!Version,
      NewP!Version, OldP!Identified, NewP!Identified

\* What the old operator does keeps its own invariant, and the two properties of steps.
LEMMA OldAlone ==
  ASSUME OldP!FInv, OldLoop \/ Old!Outside
  PROVE  /\ [OldP!Next]_(OldP!vars) /\ OldP!FInv' /\ OldP!FirstStep
         /\ OldP!StatusStep /\ OldP!ForeignStep
  <1>1. OldP!Next
    BY OldIsTheOperator DEF OldLoop, OldP!Next, OldP!Environment
  <1>2. OldP!FInv' /\ OldP!FirstStep
    BY <1>1, OldP!NextKeepsFirst, OldParameters
  <1>3. OldP!StatusStep /\ OldP!ForeignStep
    BY <1>1, OldP!NextKeepsIInv, OldParameters DEF OldP!FInv, OldP!CInv
  <1> QED
    BY <1>1, <1>2, <1>3

\* What the new operator does keeps its own invariant, and the two properties of steps.
LEMMA NewAlone ==
  ASSUME NewP!FInv, NewLoop \/ New!Outside
  PROVE  /\ [NewP!Next]_(NewP!vars) /\ NewP!FInv' /\ NewP!FirstStep
         /\ NewP!StatusStep /\ NewP!ForeignStep
  <1>1. NewP!Next
    BY NewIsTheOperator DEF NewLoop, NewP!Next, NewP!Environment
  <1>2. NewP!FInv' /\ NewP!FirstStep
    BY <1>1, NewP!NextKeepsFirst, NewParameters
  <1>3. NewP!StatusStep /\ NewP!ForeignStep
    BY <1>1, NewP!NextKeepsIInv, NewParameters DEF NewP!FInv, NewP!CInv
  <1> QED
    BY <1>1, <1>2, <1>3

\* What the old operator or its environment does keeps the invariant of the new
\* one, which sees it happen.
LEMMA NewSeesIt ==
  ASSUME OldP!CInv, NewP!CInv, [OldP!Next]_(OldP!vars), OldP!CInv',
         NewSees(Written(oldWatch, oldWatch'))
  PROVE  NewP!CInv'
  <1>1. UNCHANGED NewP!loop
    BY DEF NewSees, NewP!loop
  <1>2. NewP!WorkerTypes'
    BY DEF NewSees, OldP!CInv, OldP!IInv, OldP!WorkerTypes, NewP!CInv, NewP!IInv, NewP!WorkerTypes
  <1>3. NewP!OwnerInv'
    BY SameTerms
    DEF OldP!CInv, OldP!IInv, OldP!OwnerInv, NewP!OwnerInv, OldP!Made, NewP!Made, OldP!ByNF, NewP!ByNF,
        OldP!UPFObjects, NewP!UPFObjects
  <1>4. DOMAIN newWatch = Names
    BY SameTerms DEF NewP!CInv, NewP!IInv, NewP!ServerInv, NewP!ServerTypes
  <1>5. CASE UNCHANGED store /\ \A x \in Names : ~(Len(oldWatch'[x]) > Len(oldWatch[x]))
    <2>1. Written(oldWatch, oldWatch') = {}
      BY <1>5 DEF Written
    <2>2. /\ DOMAIN newWatch' = Names /\ \A x \in Names : newWatch'[x] = newWatch[x]
          /\ newOvertaken => newOvertaken'
      BY <2>1, <1>4 DEF NewSees
    <2> QED
      BY <1>1, <1>2, <1>5, <2>2, SameTerms, NewP!OthersCounting, NewParameters
  <1>6. ASSUME NEW x \in Names,
               OldP!Commit(x, store'[x]), store'[x] \in OldP!Version(x),
               x # "nf" => store'[x].gen > 0,
               \A y \in Names : Len(oldWatch'[y]) > Len(oldWatch[y]) <=> y = x
        PROVE  NewP!CInv'
    <2>1. Written(oldWatch, oldWatch') = {x}
      BY <1>6 DEF Written
    <2>2. NewP!Commit(x, store'[x])
      BY <1>4, <1>6, <2>1 DEF NewSees, OldP!Commit, NewP!Commit
    <2>3. newOvertaken \/ (x = "nf" /\ newNf.live) => newOvertaken'
      BY <2>1 DEF NewSees
    <2> QED
      BY <1>1, <1>2, <1>3, <1>6, <2>2, <2>3, SameTerms, NewP!OthersCommit, NewParameters
  <1> QED
    BY <1>5, <1>6, SameTerms, OldP!StepsStore, OldParameters

\* What the new operator or its environment does keeps the invariant of the old
\* one, which sees it happen.
LEMMA OldSeesIt ==
  ASSUME NewP!CInv, OldP!CInv, [NewP!Next]_(NewP!vars), NewP!CInv',
         OldSees(Written(newWatch, newWatch'))
  PROVE  OldP!CInv'
  <1>1. UNCHANGED OldP!loop
    BY DEF OldSees, OldP!loop
  <1>2. OldP!WorkerTypes'
    BY DEF OldSees, NewP!CInv, NewP!IInv, NewP!WorkerTypes, OldP!CInv, OldP!IInv, OldP!WorkerTypes
  <1>3. OldP!OwnerInv'
    BY SameTerms
    DEF NewP!CInv, NewP!IInv, NewP!OwnerInv, OldP!OwnerInv, NewP!Made, OldP!Made, NewP!ByNF, OldP!ByNF,
        NewP!UPFObjects, OldP!UPFObjects
  <1>4. DOMAIN oldWatch = Names
    BY SameTerms DEF OldP!CInv, OldP!IInv, OldP!ServerInv, OldP!ServerTypes
  <1>5. CASE UNCHANGED store /\ \A x \in Names : ~(Len(newWatch'[x]) > Len(newWatch[x]))
    <2>1. Written(newWatch, newWatch') = {}
      BY <1>5 DEF Written
    <2>2. /\ DOMAIN oldWatch' = Names /\ \A x \in Names : oldWatch'[x] = oldWatch[x]
          /\ oldOvertaken => oldOvertaken'
      BY <2>1, <1>4 DEF OldSees
    <2> QED
      BY <1>1, <1>2, <1>5, <2>2, SameTerms, OldP!OthersCounting, OldParameters
  <1>6. ASSUME NEW x \in Names,
               NewP!Commit(x, store'[x]), store'[x] \in NewP!Version(x),
               x # "nf" => store'[x].gen > 0,
               \A y \in Names : Len(newWatch'[y]) > Len(newWatch[y]) <=> y = x
        PROVE  OldP!CInv'
    <2>1. Written(newWatch, newWatch') = {x}
      BY <1>6 DEF Written
    <2>2. OldP!Commit(x, store'[x])
      BY <1>4, <1>6, <2>1 DEF OldSees, NewP!Commit, OldP!Commit
    <2>3. oldOvertaken \/ (x = "nf" /\ oldNf.live) => oldOvertaken'
      BY <2>1 DEF OldSees
    <2> QED
      BY <1>1, <1>2, <1>3, <1>6, <2>2, <2>3, SameTerms, OldP!OthersCommit, OldParameters
  <1> QED
    BY <1>5, <1>6, SameTerms, NewP!StepsStore, NewParameters

\* What a step leaves of the objects is the same to both.
LEMMA SameFirstStep == OldP!FirstStep <=> NewP!FirstStep
  BY Zenon
  DEF OldP!FirstStep, NewP!FirstStep, OldP!First, NewP!First, OldP!Kept, NewP!Kept,
      OldP!Present, NewP!Present, OldP!Mine, NewP!Mine, OldP!ByNF, NewP!ByNF,
      OldP!Objects, NewP!Objects, OldP!AMFObjects, NewP!AMFObjects, OldP!SMFObjects,
      NewP!SMFObjects, OldP!UPFObjects, NewP!UPFObjects

\* ... and so what either does keeps what the other knows of the Services.
LEMMA NewKnowsIt ==
  ASSUME OldP!FInv, NewP!FInv, [OldP!Next]_(OldP!vars), OldP!FInv', OldP!FirstStep,
         NewSees(Written(oldWatch, oldWatch'))
  PROVE  NewP!FInv'
  <1>1. NewP!CInv' /\ UNCHANGED NewP!loop
    BY NewSeesIt DEF OldP!FInv, NewP!FInv, NewSees, NewP!loop
  <1>2. NewP!FirstStep
    BY SameFirstStep
  <1>3. NewP!Appended
    <2> SUFFICES ASSUME NEW x \in Names, NEW i \in 1..Len(newWatch'[x])
                 PROVE  \/ newWatch'[x][i] = store'[x]
                        \/ \E j \in 1..Len(newWatch[x]) : newWatch'[x][i] = newWatch[x][j]
      BY SameTerms, Zenon DEF NewP!Appended
    <2>1. newWatch[x] \in Seq(NewP!Version(x))
      BY SameTerms DEF NewP!FInv, NewP!CInv, NewP!IInv, NewP!ServerInv, NewP!ServerTypes
    <2>2. newWatch'[x] = newWatch[x] \/ newWatch'[x] = Append(newWatch[x], store'[x])
      BY DEF NewSees
    <2>3. CASE newWatch'[x] = newWatch[x]
      BY <2>3
    <2>4. CASE newWatch'[x] = Append(newWatch[x], store'[x])
      <3>1. /\ Len(newWatch[x]) \in Nat /\ Len(newWatch'[x]) = Len(newWatch[x]) + 1
            /\ newWatch'[x][Len(newWatch[x]) + 1] = store'[x]
            /\ \A j \in 1..Len(newWatch[x]) : newWatch'[x][j] = newWatch[x][j]
        BY <2>1, <2>4
      <3>2. i = Len(newWatch[x]) + 1 \/ i \in 1..Len(newWatch[x])
        BY <3>1
      <3> QED
        BY <3>1, <3>2
    <2> QED
      BY <2>2, <2>3, <2>4
  <1> QED
    BY <1>1, <1>2, <1>3, NewP!AnotherKeepsFirst, NewParameters

LEMMA OldKnowsIt ==
  ASSUME NewP!FInv, OldP!FInv, [NewP!Next]_(NewP!vars), NewP!FInv', NewP!FirstStep,
         OldSees(Written(newWatch, newWatch'))
  PROVE  OldP!FInv'
  <1>1. OldP!CInv' /\ UNCHANGED OldP!loop
    BY OldSeesIt DEF NewP!FInv, OldP!FInv, OldSees, OldP!loop
  <1>2. OldP!FirstStep
    BY SameFirstStep
  <1>3. OldP!Appended
    <2> SUFFICES ASSUME NEW x \in Names, NEW i \in 1..Len(oldWatch'[x])
                 PROVE  \/ oldWatch'[x][i] = store'[x]
                        \/ \E j \in 1..Len(oldWatch[x]) : oldWatch'[x][i] = oldWatch[x][j]
      BY SameTerms, Zenon DEF OldP!Appended
    <2>1. oldWatch[x] \in Seq(OldP!Version(x))
      BY SameTerms DEF OldP!FInv, OldP!CInv, OldP!IInv, OldP!ServerInv, OldP!ServerTypes
    <2>2. oldWatch'[x] = oldWatch[x] \/ oldWatch'[x] = Append(oldWatch[x], store'[x])
      BY DEF OldSees
    <2>3. CASE oldWatch'[x] = oldWatch[x]
      BY <2>3
    <2>4. CASE oldWatch'[x] = Append(oldWatch[x], store'[x])
      <3>1. /\ Len(oldWatch[x]) \in Nat /\ Len(oldWatch'[x]) = Len(oldWatch[x]) + 1
            /\ oldWatch'[x][Len(oldWatch[x]) + 1] = store'[x]
            /\ \A j \in 1..Len(oldWatch[x]) : oldWatch'[x][j] = oldWatch[x][j]
        BY <2>1, <2>4
      <3>2. i = Len(oldWatch[x]) + 1 \/ i \in 1..Len(oldWatch[x])
        BY <3>1
      <3> QED
        BY <3>1, <3>2
    <2> QED
      BY <2>2, <2>3, <2>4
  <1> QED
    BY <1>1, <1>2, <1>3, OldP!AnotherKeepsFirst, OldParameters

\* An empty cluster, and the old operator alone.
LEMMA InitPair == Init => PairInv
  <1> SUFFICES ASSUME Init PROVE PairInv
    OBVIOUS
  <1>1. OldP!FInv
    BY OldIsTheOperator, OldP!InitHasFirst, OldParameters DEF Init
  <1>2. newVars = Unused
    BY NewIsTheOperator, SameTerms DEF Init, NewP!Init, newVars, Unused
  <1> QED
    BY <1>1, <1>2 DEF Init, PairInv

\* The new operator starts with a list of all there is.
LEMMA StartKeepsPair ==
  ASSUME PairInv, StartNew
  PROVE  PairInv' /\ UNCHANGED store
  <1>1. OldP!FInv /\ OldP!CInv /\ newVars = Unused /\ phase' = "both"
    BY DEF PairInv, StartNew, OldP!FInv
  <1>2. OldP!FInv' /\ OldP!CInv' /\ UNCHANGED <<store, edits, moves, faults>>
    <2>1. UNCHANGED OldP!vars /\ UNCHANGED <<store, edits, moves, faults>>
      BY DEF StartNew, sharedVars, oldVars, OldP!vars, OldP!budgets
    <2> QED
      BY <1>1, <2>1, OldP!NextKeepsFirst, OldParameters DEF OldP!FInv
  <1>3. /\ newCache' = store' /\ newWatch' = [x \in Names |-> <<>>]
        /\ newPc' = "idle" /\ newNf' = NoNF /\ newKind' = "upf"
        /\ newDelayed' = FALSE /\ newOvertaken' = FALSE /\ newChanged' = FALSE
        /\ newQueued' \in BOOLEAN
    BY <1>1, <1>2 DEF StartNew, New!Lists, newVars, Unused
  <1>4. store'["nf"].live => newQueued'
    BY <1>2 DEF StartNew, New!Lists, New!Enqueues, New!Names, Names, New!AMFObjects,
                New!SMFObjects, New!UPFObjects, New!Objects
  <1>5. /\ DOMAIN store' = Names /\ \A x \in Names : store'[x] \in NewP!Version(x)
        /\ \A x \in Objects : store'[x].live => store'[x].gen > 0
    <2>1. /\ DOMAIN store = Names /\ \A x \in Names : store[x] \in NewP!Version(x)
      BY <1>1, SameTerms DEF OldP!CInv, OldP!IInv, OldP!ServerInv, OldP!ServerTypes
    <2>2. \A x \in Objects : store[x].live => store[x].gen > 0
      BY <1>1, SameTerms, OldP!ServedTypes, OldParameters
    <2> QED
      BY <1>2, <2>1, <2>2
  <1>6. NewP!WorkerTypes'
    <2>1. NoNF \in NewP!Identified
      BY SameTerms, NewP!BlankTypes, NewParameters
    <2>2. edits' \in 0..MaxEdits /\ moves' \in 0..MaxMoves /\ faults' \in 0..MaxFaults
      BY <1>2 DEF OldP!CInv, OldP!IInv, OldP!WorkerTypes
    <2> QED
      BY <1>3, <2>1, <2>2 DEF NewP!WorkerTypes, NewP!NetworkFunctions
  <1>7. NewP!OwnerInv'
    BY <1>2, SameTerms
    DEF OldP!CInv, OldP!IInv, OldP!OwnerInv, NewP!OwnerInv, OldP!Made, NewP!Made,
        OldP!ByNF, NewP!ByNF, OldP!UPFObjects, NewP!UPFObjects
  <1>8. NewP!CInv'
    BY <1>3, <1>4, <1>5, <1>6, <1>7, SameTerms, NewP!StartMissesNothing, NewParameters
  <1>9. NewP!First' => \A x \in NewP!Objects : NewP!Known(x, store[x])'
    BY <1>2, Zenon
    DEF OldP!FInv, OldP!AllKnown, OldP!Versions, OldP!First, NewP!First, OldP!Known, NewP!Known,
        OldP!Kept, NewP!Kept, OldP!Present, NewP!Present, OldP!Mine, NewP!Mine, OldP!ByNF,
        NewP!ByNF, OldP!Objects, NewP!Objects, OldP!AMFObjects, NewP!AMFObjects,
        OldP!SMFObjects, NewP!SMFObjects, OldP!UPFObjects, NewP!UPFObjects
  <1>10. NewP!FInv'
    BY <1>3, <1>4, <1>8, <1>9, SameTerms, NewP!StartKeepsFirst, NewParameters
  <1> QED
    BY <1>1, <1>2, <1>10 DEF PairInv

\* The old operator's end is nothing to the new one.
LEMMA StopKeepsPair ==
  ASSUME PairInv, StopOld
  PROVE  PairInv' /\ UNCHANGED store
  <1>1. UNCHANGED NewP!vars /\ UNCHANGED store
    BY DEF StopOld, sharedVars, newVars, NewP!vars, NewP!budgets
  <1>2. NewP!FInv'
    BY <1>1, NewP!NextKeepsFirst, NewParameters DEF PairInv, StopOld
  <1>3. oldVars' = Unused /\ phase' = "new"
    BY DEF StopOld, oldVars, Unused
  <1> QED
    BY <1>1, <1>2, <1>3 DEF PairInv

\* The two properties of steps, as far as they speak of the store alone.
PairStatusStep ==
  /\ store["nf"].live /\ store'["nf"].obs # store["nf"].obs
  /\ ~IsProviderSDCoreUPF(store["nf"].provider)
  => store'["nf"].obs = store'["nf"].gen

PairForeignStep ==
  \A x \in KeptFor("upf") :
    phase # "old" /\ store[x].live /\ store[x].owner = Foreign /\ store'[x].live =>
      store'[x].owner = Foreign /\ store'[x].data # "fixed"

\* They are those of each operator.
LEMMA SameSteps ==
  /\ OldP!StatusStep => PairStatusStep
  /\ NewP!StatusStep => PairStatusStep
  /\ OldP!ForeignStep => PairForeignStep
  /\ NewP!ForeignStep => PairForeignStep
  BY Zenon
  DEF OldP!StatusStep, NewP!StatusStep, PairStatusStep, OldP!ForeignStep,
      NewP!ForeignStep, PairForeignStep, IsProviderSDCoreUPF,
      OldP!IsProviderSDCoreUPF, NewP!IsProviderSDCoreUPF, KeptFor, OldP!KeptFor,
      NewP!KeptFor, AMFObjects, OldP!AMFObjects, NewP!AMFObjects, SMFObjects,
      OldP!SMFObjects, NewP!SMFObjects, UPFObjects, OldP!UPFObjects, NewP!UPFObjects

\* A step that leaves the store alone obeys them.
LEMMA NoWriteObeys ==
  ASSUME PairInv, UNCHANGED store
  PROVE  PairStatusStep /\ PairForeignStep
  <1>1. CASE OldP!FInv
    BY <1>1, SameSteps, OldP!QuietStep, OldParameters DEF OldP!FInv, OldP!CInv
  <1>2. CASE NewP!FInv
    BY <1>2, SameSteps, NewP!QuietStep, NewParameters DEF NewP!FInv, NewP!CInv
  <1> QED
    BY <1>1, <1>2 DEF PairInv

\* Every step keeps the invariant, and obeys the two.
LEMMA NextKeepsPair ==
  ASSUME PairInv, [Next]_rollOutVars
  PROVE  PairInv' /\ PairStatusStep /\ PairForeignStep
  <1>1. ASSUME OldLoop \/ Old!Outside, OldActs(TRUE)
        PROVE  PairInv' /\ PairStatusStep /\ PairForeignStep
    <2>1. OldP!FInv /\ phase' = phase /\ phase \in {"old", "both"}
      BY <1>1 DEF PairInv, OldActs
    <2>2. /\ [OldP!Next]_(OldP!vars) /\ OldP!FInv' /\ OldP!FirstStep
          /\ PairStatusStep /\ PairForeignStep
      BY <1>1, <2>1, OldAlone, SameSteps
    <2>3. CASE phase = "old"
      BY <1>1, <2>1, <2>2, <2>3 DEF PairInv, OldActs, newVars, Unused
    <2>4. CASE phase = "both"
      <3>1. NewSees(Written(oldWatch, oldWatch'))
        BY <1>1, <2>4 DEF OldActs
      <3> QED
        BY <3>1, <2>1, <2>2, <2>4, NewKnowsIt DEF PairInv
    <2> QED
      BY <2>1, <2>2, <2>3, <2>4
  <1>2. ASSUME NewLoop \/ New!Outside, NewActs(TRUE)
        PROVE  PairInv' /\ PairStatusStep /\ PairForeignStep
    <2>1. NewP!FInv /\ phase' = phase /\ phase \in {"new", "both"}
      BY <1>2 DEF PairInv, NewActs
    <2>2. /\ [NewP!Next]_(NewP!vars) /\ NewP!FInv' /\ NewP!FirstStep
          /\ PairStatusStep /\ PairForeignStep
      BY <1>2, <2>1, NewAlone, SameSteps
    <2>3. CASE phase = "new"
      BY <1>2, <2>1, <2>2, <2>3 DEF PairInv, NewActs, oldVars, Unused
    <2>4. CASE phase = "both"
      <3>1. OldSees(Written(newWatch, newWatch'))
        BY <1>2, <2>4 DEF NewActs
      <3> QED
        BY <3>1, <2>1, <2>2, <2>4, OldKnowsIt DEF PairInv
    <2> QED
      BY <2>1, <2>2, <2>3, <2>4
  <1>3. CASE StartNew \/ StopOld
    BY <1>3, StartKeepsPair, StopKeepsPair, NoWriteObeys
  <1>4. CASE UNCHANGED rollOutVars
    <2>1. /\ UNCHANGED OldP!vars /\ UNCHANGED NewP!vars
          /\ UNCHANGED <<store, phase, oldVars, newVars>>
      BY <1>4 DEF rollOutVars, sharedVars, oldVars, newVars, OldP!vars, OldP!budgets,
                  NewP!vars, NewP!budgets
    <2>2. (OldP!FInv => OldP!FInv') /\ (NewP!FInv => NewP!FInv')
      BY <2>1, OldP!NextKeepsFirst, OldParameters, NewP!NextKeepsFirst, NewParameters
    <2>3. PairInv'
      BY <2>1, <2>2 DEF PairInv, Unused
    <2> QED
      BY <2>1, <2>3, NoWriteObeys
  <1> QED
    BY <1>1, <1>2, <1>3, <1>4 DEF Next, Outside, OldActs, NewActs

-----------------------------------------------------------------------------
(* The theorems.                                                           *)

\* Each operator that runs has missed nothing it could have seen, all along.
THEOREM PairInvariance == Spec => []PairInv
  <1>1. PairInv /\ [Next]_rollOutVars => PairInv'
    BY NextKeepsPair
  <1> QED
    BY InitPair, <1>1, PTL DEF Spec

\* An operator that does not run has registers of the right types.
LEMMA UnusedTypes ==
  /\ OldP!TypeOK /\ newVars = Unused => NewP!TypeOK
  /\ NewP!TypeOK /\ oldVars = Unused => OldP!TypeOK
  <1>1. \A x : OldP!Record(x) = NewP!Record(x)
    BY SameTerms
  <1>2. /\ NoNF \in OldP!NFRecord /\ NoNF \in NewP!NFRecord
        /\ \A x \in Names : Nothing[x] \in OldP!Record(x)
    <2>1. NoNF \in OldP!Identified /\ NoObject \in OldP!OwnedRecord
      BY SameTerms, OldP!BlankTypes, OldParameters
    <2>2. NoNF \in NewP!Identified
      BY SameTerms, NewP!BlankTypes, NewParameters
    <2> QED
      BY <2>1, <2>2 DEF OldP!Identified, NewP!Identified, OldP!Record, Nothing
  <1>3. /\ DOMAIN Nothing = Names
        /\ "upf" \in OldP!NetworkFunctions /\ "upf" \in NewP!NetworkFunctions
    BY DEF Nothing, OldP!NetworkFunctions, NewP!NetworkFunctions
  <1>4. ASSUME OldP!TypeOK, newVars = Unused
        PROVE  NewP!TypeOK
    BY <1>1, <1>2, <1>3, <1>4, SameTerms DEF OldP!TypeOK, NewP!TypeOK, newVars, Unused
  <1>5. ASSUME NewP!TypeOK, oldVars = Unused
        PROVE  OldP!TypeOK
    BY <1>1, <1>2, <1>3, <1>5, SameTerms DEF OldP!TypeOK, NewP!TypeOK, oldVars, Unused
  <1> QED
    BY <1>4, <1>5

\* Every variable keeps its type, whatever the two do.
THEOREM PairTypes == Spec => []TypeOK
  <1>1. ASSUME PairInv
        PROVE  TypeOK
    <2>1. (OldP!FInv => OldP!TypeOK) /\ (NewP!FInv => NewP!TypeOK)
      BY OldP!InvariantTypes, OldParameters, NewP!InvariantTypes, NewParameters
      DEF OldP!FInv, NewP!FInv, OldP!CInv, NewP!CInv
    <2> QED
      BY <1>1, <2>1, UnusedTypes, OldIsTheOperator, NewIsTheOperator DEF PairInv, TypeOK
  <1> QED
    BY PairInvariance, <1>1, PTL

\* What is at rest is converged, and complete.
LEMMA PairAtRest ==
  /\ OldP!FInv => /\ Old!SettledMeansConverged /\ Old!SettledMeansRepaired
                  /\ Old!ServicesCreated
  /\ NewP!FInv => /\ New!SettledMeansConverged /\ New!SettledMeansRepaired
                  /\ New!SettledLeavesNothing /\ New!SettledLeavesNoUPF
                  /\ New!ServicesCreated
  <1>1. OldP!FInv => OldP!SettledMeansConverged /\ OldP!SettledMeansRepaired
    BY OldP!RestIsConverged, OldP!RestIsRepaired, OldParameters DEF OldP!FInv
  <1>2. NewP!FInv => NewP!SettledMeansConverged /\ NewP!SettledMeansRepaired
    BY NewP!RestIsConverged, NewP!RestIsRepaired, NewParameters DEF NewP!FInv
  <1>3. NewP!FInv => NewP!SettledLeavesNothing /\ NewP!SettledLeavesNoUPF
    BY NewP!RestIsClean, NewParameters DEF NewP!FInv, NewP!CInv
  <1>4. (OldP!FInv => OldP!ServicesCreated) /\ (NewP!FInv => NewP!ServicesCreated)
    BY OldP!FirstAtRest, OldParameters, NewP!FirstAtRest, NewParameters
  <1> QED
    BY <1>1, <1>2, <1>3, <1>4, OldIsTheOperator, NewIsTheOperator

\* When the one that is left comes to rest everything is as wanted and truly
\* reported, wherever the other was cut off, and whatever the two had read and
\* overwritten of each other's.
THEOREM SurvivorIsConverged == Spec => []SurvivorConverges
  <1>1. PairInv => SurvivorConverges
    BY PairAtRest DEF PairInv, SurvivorConverges
  <1> QED
    BY PairInvariance, <1>1, PTL

\* So it is for each of the two while both run.
THEOREM PairIsConverged == Spec => []PairConverges
  <1>1. PairInv => PairConverges
    BY PairAtRest DEF PairInv, PairConverges
  <1> QED
    BY PairInvariance, <1>1, PTL

\* What either of them has made is gone with its NFDeployment: what the old one
\* created just before it was cut off, too, though the new one never knew of it.
SurvivorLeavesNothing ==
  phase # "old" => New!SettledLeavesNothing /\ New!SettledLeavesNoUPF

THEOREM PairLeavesNothing == Spec => []SurvivorLeavesNothing
  <1>1. PairInv => SurvivorLeavesNothing
    BY PairAtRest DEF PairInv, SurvivorLeavesNothing
  <1> QED
    BY PairInvariance, <1>1, PTL

\* Whichever of the two writes the status of an AMF or SMF, the generation it
\* starts to claim is the current one.
THEOREM PairStatusCurrent == Spec => PairReportsCurrentSpec
  <1>1. PairInv /\ [Next]_rollOutVars => PairStatusStep
    BY NextKeepsPair
  <1> QED
    BY PairInvariance, <1>1, PTL DEF Spec, PairReportsCurrentSpec, PairStatusStep

\* Neither of the two touches what another controller owns, be it that it came
\* by that while both were at work.
THEOREM PairForeignSafe == Spec => PairRespectsForeign
  <1>1. PairInv /\ [Next]_rollOutVars => PairForeignStep
    BY NextKeepsPair
  <1> QED
    BY PairInvariance, <1>1, PTL DEF Spec, PairRespectsForeign, PairForeignStep

\* Either of the two that is at rest finds the Services of the first NFDeployment of
\* the name in place, if nobody else has touched them, although none of their events
\* wakes it: what one has made the other does not undo, and the garbage collector
\* does not take, wherever the old one was cut off.
PairServicesCreated ==
  /\ phase # "new" => Old!ServicesCreated
  /\ phase # "old" => New!ServicesCreated

THEOREM PairHasServices == Spec => []PairServicesCreated
  <1>1. PairInv => PairServicesCreated
    BY PairAtRest DEF PairInv, PairServicesCreated
  <1> QED
    BY PairInvariance, <1>1, PTL
=============================================================================
