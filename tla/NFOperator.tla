----------------------------- MODULE NFOperator -----------------------------
(***************************************************************************)
(* The SD-Core operator at work on one NFDeployment: the control loop, with *)
(* the main Reconcile handing over to the reconciler of the AMF, the SMF or *)
(* the UPF as name and provider say.                                       *)
(***************************************************************************)
EXTENDS SDCoreReconciler, UPFReconciler

Worker == Begin \/ AMFReconcile \/ SMFReconcile \/ UPFReconcile

Next == Environment \/ Worker

\* Nothing obliges users, other controllers, or the faults of the system.  The
\* worker goes on for as long as it has a step to take.
Fairness == InformerFairness /\ CollectorFairness /\ WF_vars(Worker)

Spec == Init /\ [][Next]_vars /\ Fairness

-----------------------------------------------------------------------------
(* What the operator promises.                                             *)

\* Somebody else's object stands, or stood, where the operator wants its own.
Usurped(x) == store[x].gen > 0 /\ ~ByNF(store[x].owner)

\* The ConfigMap and the Deployment of an AMF or SMF are what its current spec
\* asks for, as far as the comparisons of its reconciler can tell.
AsWanted(k) ==
  \A x \in KeptFor(k) \cap Watched :
    \/ Usurped(x)
    \/ /\ Mine(x)
       /\ IF x \in ConfigMaps THEN store[x].data = Config[store["nf"].addr]
                              ELSE store[x].data # "drift"

\* The status of an AMF or SMF tells of its current spec, and of the pods.
Reported(k) ==
  \/ Usurped(k)
  \/ /\ store["nf"].obs = store["nf"].gen
     /\ (store["nf"].ready = "True") <=> (store[k].health.readyReplicas > 0)

-----------------------------------------------------------------------------
(* The AMF and the SMF                                                     *)

\* A status starts to claim a generation only while it is the current one: when
\* a spec comes in after Reconcile has read the NFDeployment, the API server
\* refuses the status it writes in the end (updateStatus in status.go).
StatusIsOfCurrentSpec ==
  [][store["nf"].live /\ kind \in SDCoreKinds /\ store'["nf"].obs # store["nf"].obs
     => store'["nf"].obs = store'["nf"].gen]_vars

\* Once nothing is on its way, ConfigMap and Deployment stand as wanted and the
\* status tells the truth, whatever was created, edited, removed, or failed
\* before: every step that reads a stale copy, fails, or is cut short by a
\* restart leaves something on the way.
SettledMeansConverged ==
  Quiet => \A k \in SDCoreKinds : Handled(k) => AsWanted(k) /\ Reported(k)

\* When users and others have done what they do, the operator gets to that
\* state and stays in it, even though it may never come to rest: each status it
\* writes can start the next Reconcile.
EventuallyConverged ==
  \A k \in SDCoreKinds : <>[](Handled(k) => AsWanted(k) /\ Reported(k))

\* Whatever the operator created is gone in the end when its NFDeployment is:
\* what a Reconcile created from a cached copy after the deletion, too.
SettledLeavesNothing ==
  Quiet /\ ~store["nf"].live =>
    \A x \in Objects : ~(store[x].live /\ store[x].labelled)

\* The Services of an NFDeployment that has not been deleted and created anew,
\* and that nobody else has touched, are there: no failed call, conflict or
\* restart makes Reconcile leave one out.
ServicesCreated ==
  Quiet /\ moves = 0 /\ store["nf"].uid = 1 =>
    \A k \in NetworkFunctions : Handled(k) => \A x \in KeptFor(k) : Mine(x)

-----------------------------------------------------------------------------
(* The UPF                                                                 *)

\* An object that belongs to another controller is neither overwritten nor
\* taken over, not even by an update based on a stale copy of it from before.
ForeignUntouched ==
  [][\A x \in KeptFor("upf") :
       store[x].live /\ store[x].owner = Foreign /\ store'[x].live =>
         store'[x].owner = Foreign /\ store'[x].data # "fixed"]_vars

\* Once nothing is on its way, ConfigMap and Deployment belong to the current
\* NFDeployment and no edit of what the operator sets in them is left, and the
\* status is that of the Deployment as it is.
SettledMeansRepaired ==
  Quiet /\ Handled("upf") =>
    /\ \A x \in KeptFor("upf") \cap Watched : Mine(x) /\ store[x].data = "fixed"
    /\ StatusOf(store["nf"]) = UPFStatus(store["upf"])

\* The Service of a UPF outlives the garbage collection of an earlier
\* NFDeployment of the same name: Reconcile has adopted it, or makes another.
UPFServiceKept ==
  Quiet /\ moves = 0 /\ Handled("upf") => Mine("upf-service")

\* In the end everything the operator wrote for a UPF is gone with it.
SettledLeavesNoUPF ==
  Quiet /\ ~store["nf"].live =>
    \A x \in KeptFor("upf") : store[x].live => store[x].data # "fixed"

\* The operator comes to rest: what it writes for a UPF does not set it going
\* again for ever.  Only a name taken by another controller's object keeps it
\* trying.
EventuallyIdle ==
  <>[](Quiet \/ \E x \in Objects : store[x].live /\ store[x].owner = Foreign)

-----------------------------------------------------------------------------
(* What the documentation says, and the code does not do.                  *)

\* controllers/nf/upf/resources.go:46, "Set the owner reference so the ConfigMap
\* is automatically cleaned up" (:83 and :117 say it of Deployment and Service):
\* an NFDeployment that is deleted in the foreground, which waits for just that,
\* goes away.
CleanedUp == store["nf"].deleting ~> ~store["nf"].live

\* README.md:8, "The operator creates and maintains the necessary Kubernetes
\* resources (Deployments, ConfigMaps, Services)": once nothing is on its way,
\* the Services of an AMF or SMF are there as well.
ServicesMaintained ==
  Quiet => \A k \in SDCoreKinds : Handled(k) =>
    \A x \in KeptFor(k) \ Watched : store[x].live
=============================================================================
