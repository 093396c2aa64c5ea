---------------------------- MODULE ControlLoop ----------------------------
(***************************************************************************)
(* The control loop around one NFDeployment: the objects the API server    *)
(* stores, the informer caches of the manager that trail them, the work    *)
(* queue of the controller SetupWithManager builds, and the registers of   *)
(* the one goroutine that runs Reconcile.  The reconcilers of the network  *)
(* functions extend this module with the calls they make.                  *)
(*                                                                         *)
(* resourceVersions are not numbers here: what matters is whether the      *)
(* version a caller holds is still the stored one.                         *)
(* A cached object is the stored version iff no watch event for it is      *)
(* pending; for the one copy that lives across several calls, the          *)
(* NFDeployment a Reconcile works for, "overtaken" keeps the answer.       *)
(***************************************************************************)
EXTENDS Cluster

VARIABLES
  store,      \* what the API server holds under each name
  cache,      \* what the manager's client reads: the informers' copies
  watch,      \* for each name, the versions its informer has yet to see
  queued,     \* the NFDeployment's key waits in the work queue
  delayed,    \* ... or will be added when a back-off or RequeueAfter ends
  pc,         \* the step of Reconcile the worker is at: a call, or its object
  kind,       \* the network function whose Reconcile it runs
  nf,         \* the copy of the NFDeployment that Reconcile works for
  overtaken,  \* ... which is no longer the stored version
  changed,    \* this Reconcile has created or updated some object
  edits, moves, faults   \* what has been used of the three bounds

serverVars == <<store, watch>>
budgets    == <<edits, moves, faults>>
vars == <<store, cache, watch, queued, delayed, pc, kind, nf, overtaken,
          changed, budgets>>

TypeOK ==
  /\ DOMAIN store = Names /\ \A x \in Names : store[x] \in Record(x)
  /\ DOMAIN cache = Names /\ \A x \in Names : cache[x] \in Record(x)
  /\ DOMAIN watch = Names /\ \A x \in Names : watch[x] \in Seq(Record(x))
  /\ queued \in BOOLEAN /\ delayed \in BOOLEAN
  /\ pc \in {"idle", "fetch", "status"} \cup Objects
  /\ kind \in NetworkFunctions
  /\ nf \in NFRecord
  /\ overtaken \in BOOLEAN /\ changed \in BOOLEAN
  /\ edits \in 0..MaxEdits /\ moves \in 0..MaxMoves /\ faults \in 0..MaxFaults

Init ==
  /\ store = Nothing /\ cache = Nothing
  /\ watch = [x \in Names |-> <<>>]
  /\ queued = FALSE /\ delayed = FALSE
  /\ pc = "idle" /\ kind = "upf" /\ nf = NoNF
  /\ overtaken = FALSE /\ changed = FALSE
  /\ edits = 0 /\ moves = 0 /\ faults = 0

-----------------------------------------------------------------------------
(* The API server                                                          *)

\* A new version of x: stored, and on its way to the informer.
Commit(x, v) ==
  /\ store' = [store EXCEPT ![x] = v]
  /\ watch' = [watch EXCEPT ![x] = Append(@, v)]

\* Somebody other than the operator writes v.
Writes(x, v) == Len(watch[x]) < MaxLag /\ Commit(x, v)

\* A write that changes nothing makes no new version.
Put(x, v) == IF v = store[x] THEN UNCHANGED serverVars ELSE Commit(x, v)

\* What is left of a deleted object: what its delete event still tells.
Tombstone(x) == [NoObject EXCEPT !.owner = store[x].owner, !.gen = 1]

\* The object is there, and the NFDeployment's own.
Mine(x) == store[x].live /\ store[x].owner = store["nf"].uid

\* The object's controller reference names an NFDeployment that is gone, or
\* waits for its dependents to go.
Doomed(x) ==
  /\ store[x].live /\ ByNF(store[x].owner)
  /\ store["nf"].uid = store[x].owner => ~store["nf"].live \/ store["nf"].deleting

\* The garbage collector removes what a deleted NFDeployment left behind, and
\* the dependents of one that is deleted in the foreground.
CollectGarbage(x) ==
  /\ Doomed(x)
  /\ Writes(x, Tombstone(x))
  /\ UNCHANGED <<cache, queued, delayed, pc, kind, nf, overtaken, changed, budgets>>

\* It lets go of the NFDeployment when no dependent is left to wait for.
FinishDeletion ==
  /\ store["nf"].deleting /\ \A x \in Objects : ~Mine(x)
  /\ Writes("nf", [NoNF EXCEPT !.uid = store["nf"].uid])
  /\ overtaken' = nf.live
  /\ UNCHANGED <<cache, queued, delayed, pc, kind, nf, changed, budgets>>

-----------------------------------------------------------------------------
(* What users do to the NFDeployment.                                      *)

UserWrites(v) ==
  /\ edits < MaxEdits /\ edits' = edits + 1
  /\ Writes("nf", v)
  /\ overtaken' = nf.live
  /\ UNCHANGED <<cache, queued, delayed, pc, kind, nf, changed, moves, faults>>

CreateNF ==
  /\ ~store["nf"].live
  /\ \E a \in Addrs, p \in Providers :
       UserWrites([NoNF EXCEPT !.live = TRUE, !.uid = store["nf"].uid + 1, !.gen = 1,
                               !.addr = a, !.provider = p])

EditNF ==
  /\ store["nf"].live
  /\ \E a \in Addrs, p \in Providers :
       /\ <<a, p>> # <<store["nf"].addr, store["nf"].provider>>
       /\ UserWrites([store["nf"] EXCEPT !.gen = @ + 1, !.addr = a,
                                         !.provider = p])

\* An edit of the metadata: a new version of the same generation.
TouchNF == store["nf"].live /\ UserWrites(store["nf"])

DeleteNF ==
  /\ store["nf"].live
  /\ UserWrites([NoNF EXCEPT !.uid = store["nf"].uid])

\* Deletion in the foreground is a mark at first, and a new generation.
DeleteInForeground ==
  /\ Foreground /\ store["nf"].live /\ ~store["nf"].deleting
  /\ UserWrites([store["nf"] EXCEPT !.deleting = TRUE, !.gen = @ + 1])

Users == CreateNF \/ EditNF \/ TouchNF \/ DeleteNF \/ DeleteInForeground

-----------------------------------------------------------------------------
(* What others do to the objects the operator keeps.                       *)

Moves(x, v) ==
  /\ moves < MaxMoves /\ moves' = moves + 1
  /\ Writes(x, v)
  /\ UNCHANGED <<cache, queued, delayed, pc, kind, nf, overtaken, changed,
                 edits, faults>>

\* The Deployment controller reports on the pods.
ReportHealth(x) ==
  /\ x \in Deployments /\ store[x].live
  /\ \E h \in Healths \ {store[x].health} :
       Moves(x, [store[x] EXCEPT !.health = h])

Tamper(x) ==
  /\ store[x].live
  /\ \E d \in {"drift", "hidden"} :
       /\ d # store[x].data
       /\ d = "hidden" => x \notin ConfigMaps
       /\ Moves(x, Rewritten(x, store[x], d))

Remove(x) == store[x].live /\ Moves(x, Tombstone(x))

\* Somebody else has made an object of that name first.
Occupy(x) ==
  /\ ~store[x].live
  /\ \E o \in {0, Foreign} :
       Moves(x, [NoObject EXCEPT !.live = TRUE, !.owner = o, !.data = "drift",
                                 !.gen = 1])

Others(x) == ReportHealth(x) \/ Tamper(x) \/ Remove(x) \/ Occupy(x)

-----------------------------------------------------------------------------
(* Informers and the work queue.                                           *)

\* Mutant: the controller is set up without Owns.
EnqueuesForOnly(x, old, new) == x = "nf"

\* Mutant: with a GenerationChangedPredicate, to leave out updates of the status:
\* an update of a ConfigMap does not change its generation either.
EnqueuesNewGenerations(x, old, new) ==
  /\ x = "nf" \/ (x \in Watched /\ (\/ old.live /\ ByNF(old.owner)
                                    \/ ByNF(new.owner)))
  /\ old.live /\ new.live => old.gen # new.gen

\* The event handlers For and Owns install: an event for the NFDeployment
\* adds its key, one for a watched dependent adds that of its owner; on an
\* update, also that of its owner before.
Enqueues(x, old, new) ==
  x = "nf" \/ (x \in Watched /\ (\/ old.live /\ ByNF(old.owner)
                                 \/ ByNF(new.owner)))

\* An informer that starts reports an add for all it finds.
Lists(found) == \E x \in Names : found[x].live /\ Enqueues(x, Nothing[x], found[x])

Deliver(x) ==
  /\ watch[x] # <<>>
  /\ cache' = [cache EXCEPT ![x] = Head(watch[x])]
  /\ watch' = [watch EXCEPT ![x] = Tail(@)]
  /\ queued' = (queued \/ Enqueues(x, cache[x], Head(watch[x])))
  /\ UNCHANGED <<store, delayed, pc, kind, nf, overtaken, changed, budgets>>

Timer ==
  /\ delayed /\ delayed' = FALSE
  /\ queued' = TRUE
  /\ UNCHANGED <<serverVars, cache, pc, kind, nf, overtaken, changed, budgets>>

\* The manager's process is replaced.  The queue and the running Reconcile
\* are lost; the new informers list each name, from the store or from a copy
\* that trails it as the old cache did, and report an add for all they find.
Restart ==
  /\ faults < MaxFaults /\ faults' = faults + 1
  /\ pc' = "idle" /\ nf' = NoNF /\ overtaken' = FALSE /\ changed' = FALSE
  /\ delayed' = FALSE
  /\ \E fresh \in {Names, {}} :
       /\ cache' = [x \in Names |-> IF x \in fresh THEN store[x] ELSE cache[x]]
       /\ watch' = [x \in Names |-> IF x \in fresh THEN <<>> ELSE watch[x]]
  /\ queued' = Lists(cache')
  /\ UNCHANGED <<store, kind, edits, moves>>

-----------------------------------------------------------------------------
(* The worker                                                              *)

\* Mutant: errors are logged and swallowed.
ReturnAlwaysDone(again) ==
  /\ pc' = "idle" /\ nf' = NoNF /\ overtaken' = FALSE /\ changed' = FALSE
  /\ UNCHANGED delayed

\* A Reconcile returns; "again" when with an error or a RequeueAfter.
Return(again) ==
  /\ pc' = "idle" /\ nf' = NoNF /\ overtaken' = FALSE /\ changed' = FALSE
  /\ delayed' = (delayed \/ again)

\* The main Reconcile: it reads the NFDeployment from the cache to choose the
\* reconciler to call.
Begin ==
  /\ pc = "idle" /\ queued /\ queued' = FALSE
  /\ LET seen  == cache["nf"]
         route == Route(Name, seen.provider)
     IN  \/ /\ seen.live /\ route # "none"
            /\ pc' = "fetch" /\ kind' = route
         \/ /\ ~seen.live \/ route = "none"
            /\ UNCHANGED <<pc, kind>>
  /\ UNCHANGED <<serverVars, cache, delayed, nf, overtaken, changed, budgets>>

\* A network function's Reconcile reads the NFDeployment again, and checks the
\* provider of the copy it goes on with.
Fetch(k, first) ==
  /\ pc = "fetch" /\ kind = k
  /\ LET seen == cache["nf"]
     IN  \/ /\ seen.live /\ Accepts(k, seen.provider)
            /\ nf' = seen /\ overtaken' = (watch["nf"] # <<>>)
            /\ pc' = first /\ changed' = FALSE
            /\ UNCHANGED delayed
         \/ /\ ~(seen.live /\ Accepts(k, seen.provider))
            /\ Return(FALSE)
  /\ UNCHANGED <<serverVars, cache, queued, kind, budgets>>

\* A call that asks the server to make v of x.  The server refuses it unless
\* "valid"; it may also fail on the way in, or on the way back with the write
\* done.  Reconcile goes on to "next", or returns the error.
Call(x, v, valid, next) ==
  /\ \/ /\ valid /\ Put(x, v)
        /\ pc' = next /\ changed' = TRUE
        /\ UNCHANGED <<delayed, nf, overtaken, faults>>
     \/ /\ ~valid /\ Return(TRUE)
        /\ UNCHANGED <<serverVars, faults>>
     \/ /\ faults < MaxFaults /\ faults' = faults + 1
        /\ Return(TRUE)
        /\ \/ UNCHANGED serverVars
           \/ valid /\ Put(x, v)
  /\ UNCHANGED <<cache, queued, kind, edits, moves>>

\* Create is refused when the name is taken.
CreateObject(x, v, next) == Call(x, v, ~store[x].live, next)

\* Mutant: a patch without a resourceVersion in place of the update.
PatchObject(x, v, next) == Call(x, v, store[x].live, next)

\* Update is refused when the version that was read is not the stored one.
UpdateObject(x, v, next) == Call(x, v, watch[x] = <<>>, next)

\* Nothing to do for x.
Skip(next) ==
  /\ pc' = next
  /\ UNCHANGED <<serverVars, cache, queued, delayed, kind, nf, overtaken,
                 changed, budgets>>

\* The rest of the object stays as stored.
WithStatus(s) == [store["nf"] EXCEPT !.obs = s.obs, !.available = s.available,
                                     !.ready = s.ready]

\* Mutant: the status is patched, whatever became of the copy.
PatchStatusOfNF(s, restamped, again) ==
  /\ IF restamped THEN Commit("nf", WithStatus(s)) ELSE Put("nf", WithStatus(s))
  /\ Return(again)
  /\ UNCHANGED <<cache, queued, kind, budgets>>

\* Status().Update with the status in s: refused when nf is outdated.
\* Unless the status is the stored one to the second, the write makes a new
\* version.
UpdateStatusOfNF(s, restamped, again) ==
  LET Written == IF restamped THEN Commit("nf", WithStatus(s))
                              ELSE Put("nf", WithStatus(s))
  IN  /\ \/ /\ ~overtaken /\ Written
            /\ Return(again)
            /\ UNCHANGED faults
         \/ /\ overtaken /\ Return(TRUE)
            /\ UNCHANGED <<serverVars, faults>>
         \/ /\ faults < MaxFaults /\ faults' = faults + 1
            /\ Return(TRUE)
            /\ UNCHANGED serverVars \/ (~overtaken /\ Written)
      /\ UNCHANGED <<cache, queued, kind, edits, moves>>

-----------------------------------------------------------------------------
\* What happens to the objects in the API server without the operator.
Outside ==
  \/ Users \/ FinishDeletion
  \/ \E x \in Objects : CollectGarbage(x)
  \/ \E x \in Contested : Others(x)

Environment == Outside \/ (\E x \in Names : Deliver(x)) \/ Timer \/ Restart

\* Informers, timers and the garbage collector get to what they have to do.
InformerFairness == (\A x \in Names : WF_vars(Deliver(x))) /\ WF_vars(Timer)
CollectorFairness ==
  (\A x \in Objects : WF_vars(CollectGarbage(x))) /\ SF_vars(FinishDeletion)

\* Nothing is on its way: the loop is at rest until somebody disturbs it.
Quiet ==
  /\ pc = "idle" /\ ~queued /\ ~delayed
  /\ \A x \in Names : watch[x] = <<>>
  /\ \A x \in Objects : ~Doomed(x)
  /\ ~store["nf"].deleting

\* The NFDeployment is one that the reconciler of k has to look after.
Handled(k) == /\ store["nf"].live /\ ~store["nf"].deleting
              /\ Route(Name, store["nf"].provider) = k
=============================================================================
