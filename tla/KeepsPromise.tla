---------------------------- MODULE KeepsPromise ----------------------------
(***************************************************************************)
(* NFOperator with two history variables, and that it implements           *)
(* LevelTriggered.                                                         *)
(***************************************************************************)
EXTENDS NFOperator

VARIABLES
  asked,   \* the specs the NFDeployment has had, oldest first
  acting   \* how far into them the operator has got

promiseVars == <<vars, asked, acting>>

Promise == INSTANCE LevelTriggered

\* A version of the NFDeployment is known by its uid and generation.
UpTo(v, w) == v.uid < w.uid \/ (v.uid = w.uid /\ v.gen <= w.gen)

\* Where the spec of a copy of the NFDeployment stands in asked.
Position(v) ==
  CHOOSE i \in DOMAIN asked :
    /\ UpTo(asked[i], v)
    /\ \A j \in DOMAIN asked : UpTo(asked[j], v) => j <= i

\* Users have created the NFDeployment or edited its spec.
NewSpec(v, w) ==
  w.live /\ <<v.uid, v.addr, v.provider>> # <<w.uid, w.addr, w.provider>>

PromiseInit == Init /\ asked = <<>> /\ acting = 0

\* What each step adds to the history.
Remember ==
  /\ asked' = IF NewSpec(store["nf"], store'["nf"])
              THEN Append(asked, Promise!Ask(store'["nf"]))
              ELSE asked
  /\ acting' = IF nf'.live THEN Position(nf') ELSE acting

PromiseNext == Next /\ Remember

PromiseSpec == PromiseInit /\ [][PromiseNext]_promiseVars /\ Fairness

-----------------------------------------------------------------------------
\* Through stale caches, conflicts, failing calls and restarts, every write of
\* the operator is one LevelTriggered allows: owned objects are made for a spec
\* that was asked for, never for an earlier one after a later one, the status
\* for the latest only; the objects of others are left alone, and nothing is
\* removed.
ActsAsPromised == Promise!Init /\ [][Promise!Next]_Promise!levelVars

\* In addition the operator keeps up with what is asked: it turns to the latest
\* spec, brings what is amiss to it, and reports on it.
KeepsPromise == Promise!Spec
=============================================================================
