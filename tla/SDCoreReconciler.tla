-------------------------- MODULE SDCoreReconciler --------------------------
(***************************************************************************)
(* The reconcilers of the AMF and the SMF: controllers/nf/amf and          *)
(* controllers/nf/smf, which differ in the objects they keep and the       *)
(* interface whose address they put in the configuration.  k is the        *)
(* network function, and the name of its Deployment.                       *)
(*                                                                         *)
(* Each step is one cached Get and the write that follows from it.  They   *)
(* are one action because a write that somebody else makes between them    *)
(* has the effect it has when it comes just before and its event is still  *)
(* pending: the call is refused.                                           *)
(***************************************************************************)
EXTENDS ControlLoop

SDCoreKinds == {"amf", "smf"}

\* Mutant: the address goes into the configuration as it is.
WantedVerbatim(x) == IF x \in ConfigMaps THEN nf.addr ELSE "fixed"

\* The generated configuration is the only part of an object that depends on
\* the spec.
WantedData(x) == IF x \in ConfigMaps THEN Config[nf.addr] ELSE "fixed"

\* Mutant: no controller reference.
WantedUnowned(x) ==
  [NoObject EXCEPT !.live = TRUE, !.data = WantedData(x), !.gen = 1,
                   !.labelled = x \in Labelled]

\* The object as built from nf, with its labels and controller reference.
Wanted(x) ==
  [NoObject EXCEPT !.live = TRUE, !.owner = nf.uid, !.data = WantedData(x),
                   !.gen = 1, !.labelled = x \in Labelled]

\* mapsEqual compares all the data of a ConfigMap; deploymentEqual looks at the
\* image and serviceEqual at the number of ports only.
Equal(x, v) == IF x \in ConfigMaps THEN v.data = WantedData(x)
                                   ELSE v.data # "drift"

\* The update writes data or spec over the object that was read: owner and
\* labels stay as they are.
Updated(x, v) == Rewritten(x, v, WantedData(x))

\* reconcileConfigMap, reconcileDeployment, reconcileService: the steps to
\* create x or to bring it up to date, then go on to "next".
ReconcileObject(k, x, next) ==
  /\ pc = x /\ kind = k
  /\ LET seen == cache[x]
     IN  \/ ~seen.live /\ CreateObject(x, Wanted(x), next)
         \/ seen.live /\ ~Equal(x, seen) /\ UpdateObject(x, Updated(x, seen), next)
         \/ seen.live /\ Equal(x, seen) /\ Skip(next)

\* updateStatus: an error while the cache has no Deployment.  The conditions
\* are replaced by a Ready one that carries the time of writing.
DeploymentMissing(k) ==
  /\ ~cache[k].live
  /\ Return(TRUE)
  /\ UNCHANGED <<serverVars, cache, queued, kind, budgets>>

SDCoreStatus(dep) ==
  [obs |-> nf.gen, available |-> "Unset",
   ready |-> IF dep.health.readyReplicas > 0 THEN "True" ELSE "False"]

UpdateStatus(k) ==
  /\ pc = "status" /\ kind = k
  /\ \/ DeploymentMissing(k)
     \/ /\ cache[k].live
        /\ \E restamped \in BOOLEAN :
             UpdateStatusOfNF(SDCoreStatus(cache[k]), restamped, changed)

\* The calls of the AMF's Reconcile, in their order.
AMFReconcile ==
  \/ Fetch("amf", "amf-config")
  \/ ReconcileObject("amf", "amf-config", "amf")
  \/ ReconcileObject("amf", "amf", "amf-service")
  \/ ReconcileObject("amf", "amf-service", "amf-headless")
  \/ ReconcileObject("amf", "amf-headless", "status")
  \/ UpdateStatus("amf")

\* Mutant: the Service is made along with the Deployment, and only then.
ServiceAlongWithDeployment ==
  \/ Fetch("smf", "smf-config")
  \/ ReconcileObject("smf", "smf-config", "smf")
  \/ ReconcileObject("smf", "smf", IF cache["smf"].live THEN "status" ELSE "smf-service")
  \/ ReconcileObject("smf", "smf-service", "status")
  \/ UpdateStatus("smf")

\* The calls of the SMF's Reconcile, which makes no headless Service.
SMFReconcile ==
  \/ Fetch("smf", "smf-config")
  \/ ReconcileObject("smf", "smf-config", "smf")
  \/ ReconcileObject("smf", "smf", "smf-service")
  \/ ReconcileObject("smf", "smf-service", "status")
  \/ UpdateStatus("smf")
=============================================================================
