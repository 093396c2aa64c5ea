------------------------------ MODULE Routing ------------------------------
(***************************************************************************)
(* How an NFDeployment is matched with the reconciler of a network         *)
(* function: the predicates on spec.provider of controllers/common.go and  *)
(* the branches of the main Reconcile in controllers/nf/reconciler.go.     *)
(*                                                                         *)
(* Every comparison in the code folds case, so a provider stands here for  *)
(* its lower-cased form.                                                   *)
(***************************************************************************)

\* The providers under the suffix ".sdcore.io".  "x.sdcore.io" stands for
\* every one but the UPF's own.
DotSDCore == {"upf.sdcore.io", "x.sdcore.io"}

\* One representative of each class of provider the predicates tell apart.
AllProviders == DotSDCore \cup {"sdcore", "foreign"}

IsProviderSDCoreUPF(provider) == provider = "upf.sdcore.io"

IsProviderSDCore(provider) == provider = "sdcore" \/ provider \in DotSDCore

NetworkFunctions == {"amf", "smf", "upf"}

\* The reconciler the main Reconcile hands an NFDeployment to, "none" when it
\* ignores it.  The UPF is found by its provider alone, and is tried first:
\* its provider has the suffix of the others too.  The SMF and the AMF are
\* found by metadata.name.
Route(name, provider) ==
  CASE IsProviderSDCoreUPF(provider)                        -> "upf"
    [] /\ ~IsProviderSDCoreUPF(provider)
       /\ IsProviderSDCore(provider) /\ name = "test-smf"   -> "smf"
    [] /\ ~IsProviderSDCoreUPF(provider)
       /\ IsProviderSDCore(provider) /\ name = "test-amf"   -> "amf"
    [] OTHER                                                -> "none"

\* Mutant: the UPF's Reconcile makes the check of the other two.
AcceptsAnySDCore(nfkind, provider) == IsProviderSDCore(provider)

\* The check each network function's Reconcile repeats on its own copy.
Accepts(nfkind, provider) ==
  IF nfkind = "upf" THEN IsProviderSDCoreUPF(provider)
                    ELSE IsProviderSDCore(provider)
=============================================================================
