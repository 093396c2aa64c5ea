--------------------------- MODULE LevelTriggered ---------------------------
(***************************************************************************)
(* What the operator promises, seen from the API server: no caches, no     *)
(* queue, no Reconcile that is half done.  Each write to an owned object   *)
(* is made for one version of what the users asked for; the operator never *)
(* turns back to an earlier version, reports on the latest only, and keeps *)
(* up with it.                                                             *)
(***************************************************************************)
EXTENDS Cluster

VARIABLES
  store,   \* what the API server holds under each name
  asked,   \* the specs the NFDeployment has had, oldest first
  acting   \* the one the operator acts for; 0 is none so far

levelVars == <<store, asked, acting>>

\* What one version of the NFDeployment asks for.
Ask(v) == [uid |-> v.uid, gen |-> v.gen, addr |-> v.addr, provider |-> v.provider]

Init == store = Nothing /\ asked = <<>> /\ acting = 0

-----------------------------------------------------------------------------
(* Users, other clients, the garbage collector.                            *)

\* An NFDeployment is created, or its spec edited.
Request ==
  \E a \in Addrs, p \in Providers :
    LET old == store["nf"]
        new == IF old.live
               THEN [old EXCEPT !.gen = @ + 1, !.addr = a, !.provider = p]
               ELSE [NoNF EXCEPT !.live = TRUE, !.uid = old.uid + 1, !.gen = 1,
                                 !.addr = a, !.provider = p]
    IN  /\ store' = [store EXCEPT !["nf"] = new]
        /\ asked' = Append(asked, Ask(new))
        /\ UNCHANGED acting

\* It is deleted, or marked for deletion.
Withdraw ==
  /\ store["nf"].live
  /\ \E new \in {[NoNF EXCEPT !.uid = store["nf"].uid],
                 [store["nf"] EXCEPT !.deleting = TRUE, !.gen = @ + 1]} :
       store' = [store EXCEPT !["nf"] = new]
  /\ UNCHANGED <<asked, acting>>

\* An object that others touch, or whose NFDeployment is not there to stay, is
\* edited, removed or replaced.  Nobody but the operator puts into it what the
\* operator wants there.
Disturb(x) ==
  LET old == store[x]
      new == store'[x]
      own == store["nf"]
  IN  /\ DOMAIN store' = Names /\ \A y \in Names \ {x} : store'[y] = store[y]
      /\ \/ x \in Contested
         \/ ByNF(old.owner) /\ (old.owner # own.uid \/ ~own.live \/ own.deleting)
      /\ \/ ~new.live
         \/ /\ ~old.live /\ new.live
            /\ ~ByNF(new.owner) /\ new.data = "drift"
         \/ /\ old.live /\ new.live
            /\ new.owner = old.owner /\ new.labelled = old.labelled
            /\ new.data \in {old.data, "drift", "hidden"}
      /\ UNCHANGED <<asked, acting>>

-----------------------------------------------------------------------------
(* The operator.                                                           *)

\* It turns to a later version, not necessarily the latest.
TurnTo(i) ==
  /\ i \in DOMAIN asked /\ i > acting
  /\ acting' = i
  /\ UNCHANGED <<store, asked>>

\* x may be kept for what s asks.  That of an AMF or SMF may be kept for a UPF as
\* well: the provider has become a UPF's after the reconciler was chosen.
Concerns(x, s) ==
  \E k \in NetworkFunctions :
    /\ x \in KeptFor(k)
    /\ \/ Route(Name, s.provider) = k
       \/ k = Route(Name, "sdcore") /\ Route(Name, s.provider) = "upf"

\* The object is made as s asks, or brought to what s asks.  An object of the
\* AMF or SMF keeps its owner, one of the UPF changes hands.
Applied(x, s) ==
  LET old  == store[x]
      data == IF x \in ConfigMaps \ UPFObjects THEN Config[s.addr] ELSE "fixed"
  IN  IF ~old.live
      THEN [NoObject EXCEPT !.live = TRUE, !.owner = s.uid, !.data = data,
                            !.gen = 1, !.labelled = x \in Labelled]
      ELSE [Rewritten(x, old, data) EXCEPT
              !.owner = IF x \in UPFObjects THEN s.uid ELSE @]

Keep(x) ==
  /\ acting # 0 /\ Concerns(x, asked[acting])
  /\ x \in UPFObjects => ~(store[x].live /\ store[x].owner = Foreign)
  /\ store' = [store EXCEPT ![x] = Applied(x, asked[acting])]
  /\ UNCHANGED <<asked, acting>>

\* A status is written for the latest version only.  The UPF's does not say
\* which one.
Report ==
  LET new == store'["nf"]
  IN  /\ store["nf"].live /\ acting = Len(asked)
      /\ store' = [store EXCEPT !["nf"] =
                     [@ EXCEPT !.obs = new.obs, !.available = new.available,
                               !.ready = new.ready]]
      /\ IsProviderSDCoreUPF(asked[acting].provider) \/ new.obs = new.gen
      /\ UNCHANGED <<asked, acting>>

Next ==
  \/ Request \/ Withdraw \/ (\E x \in Objects : Disturb(x))
  \/ (\E i \in DOMAIN asked : TurnTo(i)) \/ (\E x \in Objects : Keep(x)) \/ Report

-----------------------------------------------------------------------------
(* Keeping up.                                                             *)

\* The NFDeployment is there for the AMF's or SMF's reconciler to look after.
Wanting(k) ==
  /\ store["nf"].live /\ ~store["nf"].deleting
  /\ Route(Name, store["nf"].provider) = k /\ k # "upf"

\* An object of its own, or none, where something else is wanted.
Amiss(x) ==
  \/ ~store[x].live /\ (store[x].gen = 0 \/ ByNF(store[x].owner))
  \/ store[x].live /\ store[x].owner = store["nf"].uid
     /\ IF x \in ConfigMaps THEN store[x].data # Config[store["nf"].addr]
                            ELSE store[x].data = "drift"

CatchUp == (\E k \in NetworkFunctions : Wanting(k)) /\ TurnTo(Len(asked))

Restore(x) ==
  /\ \E k \in NetworkFunctions : Wanting(k) /\ x \in KeptFor(k)
  /\ acting = Len(asked) /\ Amiss(x)
  /\ Keep(x)

\* The latest spec is reported on.
Acknowledge ==
  /\ \E k \in NetworkFunctions : Wanting(k) /\ store[k].live
  /\ store["nf"].obs # store["nf"].gen
  /\ acting = Len(asked)
  /\ store' = [store EXCEPT !["nf"].obs = store["nf"].gen]
  /\ UNCHANGED <<asked, acting>>

KeepingUp ==
  /\ WF_levelVars(CatchUp)
  /\ \A x \in Watched : WF_levelVars(Restore(x))
  /\ WF_levelVars(Acknowledge)

Spec == Init /\ [][Next]_levelVars /\ KeepingUp
=============================================================================
