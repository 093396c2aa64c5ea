--------------------------- MODULE UPFReconciler ---------------------------
(***************************************************************************)
(* The reconciler of the UPF: controllers/nf/upf.  It leaves the choice    *)
(* between creating and updating to controllerutil.CreateOrUpdate, whose   *)
(* mutate function sets the controller reference as well, and writes the   *)
(* status of the NFDeployment only when it differs.                        *)
(***************************************************************************)
EXTENDS ControlLoop

\* configureDeploymentSpec, and what is set of the ConfigMap and the Service:
\* nothing of it depends on the spec.
Configured(x, v) == Rewritten(x, v, "fixed")

\* Mutant: a reference to an NFDeployment of that name is good enough.
MutatedKeepingOwner(x, v) ==
  [Configured(x, v) EXCEPT !.live = TRUE, !.owner = IF ByNF(@) THEN @ ELSE nf.uid]

\* Mutant: no controller reference.
MutatedUnowned(x, v) == [Configured(x, v) EXCEPT !.live = TRUE]

\* Mutant: an object that is there is only adopted.
MutatedOnce(x, v) ==
  [v EXCEPT !.live = TRUE, !.owner = nf.uid, !.data = IF v.live THEN @ ELSE "fixed"]

\* What the mutate function makes of an object, a blank one or the one read; it
\* sets no labels.
Mutated(x, v) == [Configured(x, v) EXCEPT !.live = TRUE, !.owner = nf.uid]

\* SetControllerReference refuses to replace another controller, and takes a
\* reference to an NFDeployment of the same name for its own.
AlreadyOwned(v) == v.owner = Foreign

\* CreateOrUpdate writes when the mutated object differs from the one read.  A
\* Deployment always does: the server fills in defaults that the mutate
\* function does not repeat.
CreateOrUpdate(x, next) ==
  /\ pc = x /\ kind = "upf"
  /\ LET seen == cache[x]
     IN  \/ /\ ~seen.live
            /\ CreateObject(x, [Mutated(x, NoObject) EXCEPT !.gen = 1], next)
         \/ /\ seen.live /\ AlreadyOwned(seen)
            /\ Return(TRUE)
            /\ UNCHANGED <<serverVars, cache, queued, kind, budgets>>
         \/ /\ seen.live /\ ~AlreadyOwned(seen)
            /\ x \in Deployments \/ Mutated(x, seen) # seen
            /\ UpdateObject(x, Mutated(x, seen), next)
         \/ /\ seen.live /\ ~AlreadyOwned(seen)
            /\ x \notin Deployments /\ Mutated(x, seen) = seen
            /\ Skip(next)

\* createNfDeploymentStatus: the generation is that of the Deployment.
UPFStatus(dep) ==
  LET h == dep.health
  IN  [obs |-> dep.gen,
       available |-> IF h.available THEN "True" ELSE "False",
       ready |-> IF h.available /\ h.readyReplicas = h.replicas THEN "True"
                                                                ELSE "False"]

\* Mutant: the generation is compared with the wrong one.
StatusOfGeneration(v) ==
  [obs |-> v.gen, available |-> v.available, ready |-> v.ready]

\* The status to compare with.
StatusOf(v) == [obs |-> v.obs, available |-> v.available, ready |-> v.ready]

\* The last steps of Reconcile: getDeployment, then a status update if called
\* for.  A Deployment the cache lacks is waited for with a RequeueAfter.
UpdateUPFStatus ==
  /\ pc = "status" /\ kind = "upf"
  /\ LET dep == cache["upf"]
     IN  \/ /\ ~dep.live /\ Return(TRUE)
            /\ UNCHANGED <<serverVars, cache, queued, kind, budgets>>
         \/ /\ dep.live /\ UPFStatus(dep) # StatusOf(nf)
            /\ UpdateStatusOfNF(UPFStatus(dep), TRUE, FALSE)
         \/ /\ dep.live /\ UPFStatus(dep) = StatusOf(nf)
            /\ Return(FALSE)
            /\ UNCHANGED <<serverVars, cache, queued, kind, budgets>>

UPFReconcile ==
  \/ Fetch("upf", "upf-config")
  \/ CreateOrUpdate("upf-config", "upf")
  \/ CreateOrUpdate("upf", "upf-service")
  \/ CreateOrUpdate("upf-service", "status")
  \/ UpdateUPFStatus
=============================================================================
