------------------------------ MODULE RollOut ------------------------------
(***************************************************************************)
(* Two operators on the same NFDeployment while one replaces the other:    *)
(* leader election is off unless asked for (main.go), so that during a     *)
(* roll-out the old process and the new one are both at work, each with    *)
(* informers, a queue and a worker of its own.                             *)
(***************************************************************************)
EXTENDS Cluster

CONSTANT Confined  \* which of the bounds "start" and "deletion" are in force

VARIABLES
  store, edits, moves, faults,   \* shared: the API server, and the bounds
  oldCache, oldWatch, oldQueued, oldDelayed, oldPc, oldKind, oldNf,
  oldOvertaken, oldChanged,
  newCache, newWatch, newQueued, newDelayed, newPc, newKind, newNf,
  newOvertaken, newChanged,
  phase                          \* who is running: "old", "both", "new"

Old == INSTANCE NFOperator WITH
  cache <- oldCache, watch <- oldWatch, queued <- oldQueued,
  delayed <- oldDelayed, pc <- oldPc, kind <- oldKind, nf <- oldNf,
  overtaken <- oldOvertaken, changed <- oldChanged

New == INSTANCE NFOperator WITH
  cache <- newCache, watch <- newWatch, queued <- newQueued,
  delayed <- newDelayed, pc <- newPc, kind <- newKind, nf <- newNf,
  overtaken <- newOvertaken, changed <- newChanged

oldVars == <<oldCache, oldWatch, oldQueued, oldDelayed, oldPc, oldKind, oldNf,
             oldOvertaken, oldChanged>>
newVars == <<newCache, newWatch, newQueued, newDelayed, newPc, newKind, newNf,
             newOvertaken, newChanged>>
sharedVars == <<store, edits, moves, faults>>
rollOutVars == <<sharedVars, oldVars, newVars, phase>>

TypeOK ==
  /\ Old!TypeOK /\ New!TypeOK
  /\ phase \in {"old", "both", "new"}

Init == Old!Init /\ New!Init /\ phase = "old"

-----------------------------------------------------------------------------
\* The names a step that one operator sees as its own, or as the outside's, has
\* made a new version of.
Written(before, after) == {x \in Names : Len(after[x]) > Len(before[x])}

\* The informers of the other operator get these versions too, and the copy of
\* the NFDeployment its Reconcile may be working on is outdated.  As for any
\* writer other than the operator itself, its lag is bounded by MaxLag.
NewSees(written) ==
  /\ \A x \in written : Len(newWatch[x]) < MaxLag
  /\ newWatch' = [x \in Names |-> IF x \in written THEN Append(newWatch[x], store'[x])
                                                   ELSE newWatch[x]]
  /\ newOvertaken' = (newOvertaken \/ ("nf" \in written /\ newNf.live))
  /\ UNCHANGED <<newCache, newQueued, newDelayed, newPc, newKind, newNf, newChanged>>

OldSees(written) ==
  /\ \A x \in written : Len(oldWatch[x]) < MaxLag
  /\ oldWatch' = [x \in Names |-> IF x \in written THEN Append(oldWatch[x], store'[x])
                                                   ELSE oldWatch[x]]
  /\ oldOvertaken' = (oldOvertaken \/ ("nf" \in written /\ oldNf.live))
  /\ UNCHANGED <<oldCache, oldQueued, oldDelayed, oldPc, oldKind, oldNf, oldChanged>>

\* A step of one operator, or of the outside as it sees it: alone, or beside the
\* other one.
OldActs(step) ==
  \/ phase = "old" /\ step /\ UNCHANGED <<newVars, phase>>
  \/ phase = "both" /\ step /\ UNCHANGED phase
     /\ \E written \in {Written(oldWatch, oldWatch')} : NewSees(written)

NewActs(step) ==
  \/ phase = "new" /\ step /\ UNCHANGED <<oldVars, phase>>
  \/ phase = "both" /\ step /\ UNCHANGED phase
     /\ \E written \in {Written(newWatch, newWatch')} : OldSees(written)

\* Bounds: the NFDeployment is there and the old operator at rest when the new
\* one starts, and nobody deletes it while both are at work.
AtRest == "start" \in Confined => store["nf"].live /\ Old!Quiet
Stays  == "deletion" \in Confined /\ phase = "both" => store'["nf"].live

\* Outside steps, as seen by one operator that runs.
Outside ==
  \/ OldActs(Old!Outside /\ Stays)
  \/ phase = "new" /\ NewActs(New!Outside)

\* The new process comes up: its informers list what the API server holds, and
\* report an add for everything they find.
StartNew ==
  /\ phase = "old" /\ phase' = "both"
  /\ AtRest
  /\ newCache' = store
  /\ newQueued' = New!Lists(store)
  /\ UNCHANGED <<sharedVars, oldVars, newWatch, newDelayed, newPc, newKind, newNf,
                 newOvertaken, newChanged>>

\* The old process ends, wherever its Reconcile is.
StopOld ==
  /\ phase = "both" /\ phase' = "new"
  /\ oldCache' = Nothing /\ oldWatch' = [x \in Names |-> <<>>]
  /\ oldQueued' = FALSE /\ oldDelayed' = FALSE
  /\ oldPc' = "idle" /\ oldKind' = "upf" /\ oldNf' = NoNF
  /\ oldOvertaken' = FALSE /\ oldChanged' = FALSE
  /\ UNCHANGED <<sharedVars, newVars>>

\* What each does by itself, a restart included.
OldLoop == Old!Worker \/ (\E x \in Names : Old!Deliver(x)) \/ Old!Timer \/ Old!Restart
NewLoop == New!Worker \/ (\E x \in Names : New!Deliver(x)) \/ New!Timer \/ New!Restart

Next == OldActs(OldLoop) \/ NewActs(NewLoop) \/ Outside \/ StartNew \/ StopOld

\* Each operator that runs is as fair as it is alone.  Nothing obliges the new
\* one to start, or the old one to end.
Fairness ==
  /\ \A x \in Names : WF_rollOutVars(OldActs(Old!Deliver(x)))
                      /\ WF_rollOutVars(NewActs(New!Deliver(x)))
  /\ WF_rollOutVars(OldActs(Old!Timer)) /\ WF_rollOutVars(NewActs(New!Timer))
  /\ WF_rollOutVars(OldActs(Old!Worker)) /\ WF_rollOutVars(NewActs(New!Worker))
  /\ \A x \in Objects : WF_rollOutVars(\/ OldActs(Old!CollectGarbage(x))
                                       \/ phase = "new" /\ NewActs(New!CollectGarbage(x)))

Spec == Init /\ [][Next]_rollOutVars /\ Fairness

-----------------------------------------------------------------------------
\* Whatever the two have done to each other's objects and caches, and wherever
\* the old one was cut off: when the new one comes to rest, everything is as
\* wanted and truly reported.
SurvivorConverges ==
  phase = "new" => New!SettledMeansConverged /\ New!SettledMeansRepaired

\* So it is for each of the two while both run: one that is at rest has missed
\* nothing, whatever the other is in the middle of.
PairConverges ==
  phase = "both" =>
    /\ Old!SettledMeansConverged /\ Old!SettledMeansRepaired
    /\ New!SettledMeansConverged /\ New!SettledMeansRepaired

\* Two operators for a UPF do not keep each other going for ever.
PairComesToRest ==
  <>[](\/ ~IsProviderSDCoreUPF(store["nf"].provider)
       \/ Old!Quiet /\ New!Quiet
       \/ \E x \in Objects : store[x].live /\ store[x].owner = Foreign)

\* Two operators for an SMF or AMF do, each status being an event for the other,
\* but get to the wanted state all the same, and stay in it, when something is
\* amiss after the new one has started.
PairEventuallyConverges ==
  \A k \in Old!SDCoreKinds :
    <>[](phase # "old" /\ Old!Handled(k) => Old!AsWanted(k) /\ Old!Reported(k))

\* Neither lets the status claim a generation that is not the current one, not
\* even when the other has written the status meanwhile.
PairReportsCurrentSpec ==
  [][/\ store["nf"].live /\ store'["nf"].obs # store["nf"].obs
     /\ ~IsProviderSDCoreUPF(store["nf"].provider)
     => store'["nf"].obs = store'["nf"].gen]_rollOutVars

\* What another controller makes under the name of a UPF's object, once two have
\* been at work on that, stays its own: neither takes it for the other's.
PairRespectsForeign ==
  [][\A x \in KeptFor("upf") :
       phase # "old" /\ store[x].live /\ store[x].owner = Foreign /\ store'[x].live =>
         store'[x].owner = Foreign /\ store'[x].data # "fixed"]_rollOutVars
=============================================================================
