# A verification project for the SD-Core operator

TLA+ models of the operator in this repository, the TLC configurations that
check them, and TLAPS proofs. The operator is a Kubernetes controller (Go,
controller-runtime v0.15): it watches Nephio `NFDeployment` objects and keeps a
ConfigMap, a Deployment and one or two Services for each UPF, SMF or AMF.

## 1. The system

| Part | Source | State it keeps | Operations | Modelled in |
|---|---|---|---|---|
| Main controller | `controllers/nf/reconciler.go`, `controllers/common.go` | none | read the NFDeployment, choose a reconciler by provider and name | `Routing`, `ControlLoop` (`Begin`) |
| AMF reconciler | `controllers/nf/amf/` | ConfigMap, Deployment, Service, headless Service, status of the NFDeployment | get, create or update each object, update the status, ask to be called again | `SDCoreReconciler` |
| SMF reconciler | `controllers/nf/smf/` | the same without the headless Service | the same | `SDCoreReconciler` |
| UPF reconciler | `controllers/nf/upf/` | ConfigMap, Deployment, Service, status | `CreateOrUpdate` of each with ownership, update the status if it differs | `UPFReconciler` |
| Control loop | `SetupWithManager`, `main.go`; controller-runtime | caches, work queue, timers | watch events, de-duplication, back-off, restart | `ControlLoop` |
| Configuration generation | `generateAMFConfig`, `generateSMFConfig`, `generateUPFConfig` | none | choose an address, cut off its prefix, fill it in | `ConfigGen`, `SpecEdits`; in the control loop the constant `Config` |
| Overlapping instances | `main.go:41`, `--leader-elect` off by default | two of everything but the API server | a new process starts while the old one works, the old one ends anywhere | `RollOut` |
| Start-up, flags, health checks, manifest | `main.go`, `config/deploy.yaml` | none that matters here | | only `Init` and `Restart` |
| NRF controller | README.md:243 only | | | there is no code |

How the parts interact. Everything goes through the API server. Users write the
NFDeployment; the garbage collector and other clients write the owned objects;
the operator writes both. The operator *reads* only its informers' caches, which
trail the server, one object at a time. Events for the NFDeployment, and for
ConfigMaps and Deployments that an NFDeployment owns, put its key in a work
queue; one worker takes the key and runs a Reconcile to its end. The main
Reconcile reads the NFDeployment to choose a reconciler, which reads it *again*
and then works on that copy for several API calls. Optimistic concurrency is the
only protection: an update carrying an outdated resourceVersion is refused, and
so is the creation of a name that is taken.

What is hard about it: stale reads (of what the operator itself has just
written, too), the order in which events of different objects arrive, calls that
fail half-way through a Reconcile or whose reply is lost, restarts,
re-creation under the same name while garbage collection of the predecessor is
under way, changes of provider between two reads, and writes that trigger
the writer. `PROJECT.json` lists these hazards at their lines, with the
properties that cover them.

What makes each part correct:

- routing: objects are kept by the reconciler that provider and name call for, and the UPF's for nothing but a UPF;
- AMF and SMF: at rest the objects are those of the current spec, the status
  tells the truth, nothing outlives the NFDeployment; the status never claims a
  spec that came in later; the loop converges in spite of triggering itself;
- UPF: in addition it repairs every edit of what it manages, respects other
  controllers' objects, and comes to rest;
- control loop: no event or error is lost between two Reconciles; what is written for an
  earlier spec is never written after what a later one asks;
- configuration: the host of the first interface of the function's own name, and nothing else;
- overlapping instances: neither undoes the other's work for good, or keeps it going for ever.

## 2. The modules

```
Routing              predicates on the provider, Route, Accepts
  Cluster            constants; what the API server may hold
    ControlLoop        server, caches, queue, users, faults; the calls of a worker
      SDCoreReconciler   the AMF's and the SMF's Reconcile
      UPFReconciler      the UPF's Reconcile
        NFOperator         both under one Next, the specification, the properties
          KeepsPromise       ... with the history that maps it to LevelTriggered
    LevelTriggered     what the operator promises, without caches or queue
    RollOut            two instances of NFOperator on one store
ConfigGen            from interfaces to the address in a configuration
  SpecEdits            ... while users edit the interfaces

MCNFOperator, MCKeepsPromise, MCRollOut, MCSpecEdits        values for TLC
NFOperatorProofs, ConvergenceProofs, ServicesProofs,        theorems
  FirstServicesProofs, KeepsPromiseProofs, RollOutProofs,
  SpecEditsProofs
```

**Cluster.** The parameters with their assumptions, the names and types of the objects, the
records for what does not exist. Everything that the detailed and the abstract
specification have to agree on is here, and nothing else.

**ControlLoop.** `store[x]` is what the API server holds under a name, `cache[x]`
what the manager's client reads, `watch[x]` the versions between the two. A name
is `"nf"` or the suffix that `GetNamespacedName` appends. resourceVersions are not
numbers: a cached object is current iff `watch[x]` is empty, and for the copy of
the NFDeployment that a Reconcile holds, `overtaken` records whether the stored
one has moved on. This keeps the state space finite where a Reconcile rewrites
the same status again and again, so that liveness is checked on real cycles.
`queued` is the key in the queue, `delayed` the key under back-off or
`RequeueAfter`; `pc`, `kind`, `nf`, `changed` are the registers of the one
goroutine that runs Reconcile.

The contents of an object are one value, `data`: a generated configuration
(`Config[addr]`; two addresses may have the same one), `"fixed"` where nothing
depends on the spec, `"drift"` for an edit that the AMF's and SMF's comparisons
notice and `"hidden"` for one they do not (`deploymentEqual` looks at the image
only, `serviceEqual` at the number of ports only, `mapsEqual` at everything).

**SDCoreReconciler, UPFReconciler.** One action per step of Reconcile; a step is a
cached Get together with the write that follows. The two are one action because
a foreign write that falls between them has the effect it has just before them,
with its event still pending: the call is refused. A call succeeds, is refused,
fails on the way in, or fails on the way back with the write done (`Call`). After
an error Reconcile returns and the key is queued again after a delay; the
`RequeueAfter` that the UPF returns *along with* an error is ignored by
controller-runtime, and by the model.

Points where the two differ, and the model with them: the AMF and SMF set labels
and the controller reference on objects they create and restore neither on
objects they find; the UPF sets no labels and restores the reference, unless it is
another controller's. The UPF updates its Deployment on every pass, because the
server's defaults make it differ from what the mutate function leaves; the server
makes no new version of it, but may refuse it. The AMF and SMF write the status on
every pass with a new time stamp, which is a new version unless the second is the
same (`restamped`); the UPF writes it when it differs. The UPF's observedGeneration
is the generation of the *Deployment*.

**Environment.** Users create, edit, touch and delete the NFDeployment, in the background or
(`Foreground`) in the foreground: then it stays, marked `deleting`, until the garbage collector
finds no dependent of it. Others report
on pods, edit, remove and replace owned objects. The garbage collector removes
objects whose owner's uid is gone or waits to go. The informers deliver; timers fire; the process
restarts with fresh caches or with lagging ones.

**LevelTriggered** is the abstract specification: the store, the list `asked` of all specs the
NFDeployment has had, and `acting`, the one the operator acts for. It may turn to a later one
(`TurnTo`, skipping some, as level-triggered controllers do), never back; make an object what
`asked[acting]` wants (`Keep`: an AMF's or SMF's object keeps its owner, a UPF's changes hands
unless it is another controller's; those of an AMF or SMF may be kept for a UPF's spec, too: `Concerns`, and see `Accepts` in section 3); write a status (`Report`) only while it acts for the latest spec.
Users ask (`Request`) and withdraw, others disturb. Under `KeepingUp` it does turn to the latest
spec, restore what is amiss and acknowledge.

**KeepsPromise** adds the two variables to NFOperator as history variables: `Remember` appends to
`asked` when a step writes a new spec, and sets `acting` to the place of the copy of the
NFDeployment that Reconcile goes on with (versions are known by uid and generation). It adds no
condition to a step. The refinement mapping is the identity on `store` and these two; caches, watch
events, queue and registers are the detail that the abstract specification does not have.
`ActsAsPromised` is its safety part, `KeepsPromise` all of it.

**RollOut** instantiates NFOperator twice, with two sets of caches, queue and registers, and one
store. What one of them commits the other's informers see as well, and overtakes its copy of the
NFDeployment (`NewSees`, `OldSees`). The new process comes up with what the API server lists
(`StartNew`); the old one ends in any state (`StopOld`), and need not; either may crash and restart.
`Confined` says which of two bounds are in force: that the old one is at rest when the new one starts
(`AtRest`), and that nobody deletes the NFDeployment while both are at work (`Stays`). The runs need them, the proofs do not. Unlike a single operator, which by
`ActsAsPromised` never falls back to an earlier spec, two may do so for a while, one of them being
behind; the properties of RollOut are about where they end.

**ConfigGen, SpecEdits.** The two loops over `Spec.Interfaces`, the slice and the default. An
address is a sequence of characters, since the slice is about its length; of the generated
configuration only the address is kept, all else in it is fixed text. The UPF's configuration does
not depend on the spec. SpecEdits lets users add, change and drop interfaces; `Characters` is what addresses are written with.

Definitions whose comment begins with "Mutant" are deliberately wrong variants of
the definition that follows them, used to show that each property can fail.

## 3. The runs

Deadlock checking is off: with nothing to do the operator stops, once the bounds on what users
do are used up. (In `edits` and `doc_cidr`, too, a list may be full and have nothing to be changed to.)

| Run | Instance | Checks | Shows |
|---|---|---|---|
| `smf` | 3 edits, also deletion in the foreground, 1 fault, 2 addresses | `TypeOK`, `SettledMeansConverged`, `SettledLeavesNothing`, `ServicesCreated`, `StatusIsOfCurrentSpec` | failures, lost replies, restarts, and re-creation in the middle of garbage collection: at rest all is as wanted and truly reported, and gone after deletion |
| `smf_live` | 2 edits, 1 move on ConfigMap or Deployment, 2 addresses | `SettledMeansConverged`, `EventuallyConverged`, `KeepsPromise` | the SMF's reconciler implements `LevelTriggered`, keeping up included; its self-triggering status updates do not keep it from its goal |
| `upf` | 1 edit, 3 moves on any object, 3 kinds of pod status, informers 2 versions behind | `SettledMeansRepaired`, `ForeignUntouched` | repair of every managed field, adoption, blocking by foreign objects, which an update from a stale copy never hits |
| `upf_faults` | 3 edits, 1 fault, 2 addresses | `SettledMeansRepaired`, `UPFServiceKept`, `SettledLeavesNoUPF`, `EventuallyIdle`, `ActsAsPromised` | the UPF's reconciler writes only what `LevelTriggered` allows and does not trigger itself for ever; the Service survives the garbage collection of its predecessor |
| `switch` | 2 edits among 3 providers, 1 fault, an NFDeployment called test-amf | `SettledMeansConverged`, `SettledMeansRepaired`, `KeepsPromise` | the AMF, and changes of provider, also between the two reads; the UPF's reconciler keeps objects for a UPF only |
| `edits` | 3 interfaces, 3 names, 2 hosts, prefixes of one and two digits | `TypeOK`, `TwoDigitsStripped`, `OthersDoNotMatter` | the right host for any list of interfaces, and no change of it by edits of others |
| `rollout` | an SMF, 2 edits, 1 fault, 2 addresses | `TypeOK`, `SurvivorConverges`, `PairConverges`, `PairReportsCurrentSpec` | two operators whose spec changes under them leave what one would leave, restarts included, and never report a spec that is no longer the current one |
| `rollout_upf` | a UPF, 3 moves on its ConfigMap and Service, informers 2 versions behind | `SurvivorConverges`, `PairConverges`, `PairRespectsForeign` | two operators repair the same edits; what another controller makes in the place of an object both work on stays its own |
| `rollout_live` | an SMF or a UPF, 1 move on ConfigMap or Deployment | `PairConverges`, `PairEventuallyConverges`, `PairComesToRest` | two SMF operators that keep waking each other repair what is done to it all the same; two UPF operators do, and come to rest |

Three runs check what the documentation says and find it violated:

| Run | Says | Does |
|---|---|---|
| `doc_services` | README.md:8 "creates and maintains ... (Deployments, ConfigMaps, Services)" | delete and re-create an SMF: Reconcile finds the predecessor's Service still there, the garbage collector then removes it, and as Services are not watched nothing brings it back (38 states, no one else interfering) |
| `doc_cleanup` | `upf/resources.go:46` "Set the owner reference so the ConfigMap is automatically cleaned up" | deletion in the foreground does not end: each object removed is an event, and the Reconcile it starts creates the object again, `deletionTimestamp` or not |
| `doc_cidr` | `amf/resources.go:455`, `smf/resources.go:352` "Extract the IP address without the CIDR" | a one-digit prefix length costs the host its last digit |

Three more places where code and text differ follow from single definitions and have no run:
README.md:78-83 looks the UPF's objects up by a label that the UPF's reconciler does not set
(`Labelled`); README.md:196 has the routing depend on the `provider` field, while provider `sdcore`
works for the names test-smf and test-amf only (`Route`); `smf/reconciler.go:35` and
`amf/reconciler.go:34` "verify" an SMF (AMF) with a check that the UPF's provider passes too
(`Accepts`), so that one may be built for an NFDeployment that has become a UPF between the two reads.

**Bounds.** `MaxEdits` bounds what users do (3 is create, delete, create or create and
two edits: enough for the hazards of re-creation and of a spec that overtakes a
Reconcile), `MaxMoves` what others do to owned objects (2 allow a removal followed
by a replacement, 3 a third change before anybody has seen them), `MaxFaults` the failing calls and restarts (1: each property has
to survive a fault at any point), `MaxLag` how far an informer may be behind when
somebody other than the operator writes. With 1 every cached read may still be
stale; with 2 (`upf`) it may be older than a version that has been replaced in turn. Without
this bound the state space is infinite: creation and garbage collection can
alternate while no event is delivered. `Contested` restricts the objects others
touch to those the run is about, `Foreground` the deletions to those in the background. No bound
limits the operator itself. In RollOut the bounds are tighter, for there are two of everything, and `MaxLag` also bounds what one operator may
write while the other is behind. Both members of
`Confined` are in force: without them these instances are beyond TLC. What each run is about comes
after the start of the new operator, at any point of both Reconciles and with the end of the old one at any point of its own: a second edit of the spec and
a fault in `rollout`; in `rollout_upf` up to three moves, enough for an edit that makes both go for an update, the removal of
the object and its replacement by another controller; in `rollout_live` an edit, a removal or a change of health.
`PairRespectsForeign` and `PairEventuallyConverges` speak of the time after that start only. The theorems about RollOut
hold for any `Confined`. In `edits` hosts of five
and six characters stand for all: the proof of `HostsConfigured` has no such bound.

**Fairness.** Weak fairness of each informer, of the timers, of the garbage collector and of
the worker; none for users, other clients, restarts or failing calls. A worker goroutine that
has work proceeds, client-go's informers deliver what the server has sent, the
delaying queue adds when the delay is over: all three are what the code relies on.
Strong fairness of `FinishDeletion`: the garbage collector
looks again and again whether a deletion in the foreground can end, and weak fairness would let it
always miss the moments when no dependent is there. In RollOut each instance is as fair as it is alone, and nothing obliges the new
one to start or the old one to end. `KeepingUp`, the fairness of LevelTriggered, is not assumed but
checked. The liveness properties speak of what holds after the last disturbance, which the
bounds guarantee to come.

**Settled.** `Quiet` says that nothing is on its way: no key queued or delayed, no event
pending, no Reconcile running, nothing to collect. Properties of the form
`Quiet => ...` say that the loop does not come to rest at the wrong place: whatever was missed must have left an
event or a retry behind. The manager's ten-hourly resync is left out; it would only hide, hours
later, what these properties find.

## 4. The proofs

All hold for any values of the constants that meet `ParametersAssumption` (`EditsAssumption` for
SpecEdits). `NFOperatorProofs`:

- `Invariance`: `Spec => []IInv`, on which the others rest;
- `TypeCorrect`: `Spec => []TypeOK`;
- `StatusCurrent`: `Spec => StatusIsOfCurrentSpec`;
- `ForeignSafe`: `Spec => ForeignUntouched`;
- `NothingLeft`, `NoUPFLeft`: `Spec => []SettledLeavesNothing`, `Spec => []SettledLeavesNoUPF`.

None of these properties is inductive: each depends on what the operator's
copies have to do with the store. `IInv` adds three facts to the types. `Trails`: if no
event is pending for a name the cache has the stored version, otherwise the last pending
event carries it; so an update that the server accepts was computed from what it
overwrites. `CopyInv`: from its read on, a Reconcile works on an NFDeployment that
passed its check and, unless overtaken, is the stored one; so the generation put into
an accepted status is the current one. `OwnerInv`: an
object that bears the operator's labels, or a UPF's data, belongs to an NFDeployment. It needs
`Identified`, that every version of an NFDeployment that exists has a uid, and gives both the respect for other
controllers' objects and, since the garbage collector is done at rest, that nothing is left
behind. `NextKeepsIInv` goes through the actions one by one and shows for each that it keeps
`IInv` and obeys the two step properties; server-side reasoning is done once, in
`CommitKeepsServerInv` and `DeliverKeepsServerInv`, and that of the calls in `CallKeepsIInv`
and `StatusUpdateKeepsIInv`.

`ConvergenceProofs` proves that the loop does not come to rest at the wrong place: `Converged`,
`Spec => []SettledMeansConverged`, and `Repaired`, `Spec => []SettledMeansRepaired`, both from
`NeverMisses`, `Spec => []CInv`. To say that nothing is amiss at rest, one has to say of every other
state who will see to what is amiss there. Whatever is queued or delayed will be looked at afresh, so
`NothingMissed` speaks of the rest: with nothing queued or delayed, the copy that a Reconcile works on is the
one in the cache (`WorkInv`, `FetchInv`), and each object it has `Passed` is `Met`: as wanted in the
cache, lost to somebody else, or (for a UPF) with an event on its way (`Coming`). An AMF's or SMF's Reconcile
that has written anything (`changed`) need not show that, for it will ask to be called again. With
no Reconcile running all objects are `Met` and the status is `Told` (`RestInv`). It is about
*caches*, as the operator can react to nothing else; `Trails` turns it into a statement about the store
once no event is pending. Each step that could falsify it wakes the operator: what an informer delivers is queued
(`Enqueues`), what an operator's write changes is an event to come, an error is a delay, a restart
lists everything. `HasGeneration` says that an object that is there has a generation, which the
properties need to tell somebody else's object from none.

`ServicesProofs` proves `ServicesThere`, `Spec => []ServicesCreated`, and `UPFServiceStays`,
`Spec => []UPFServiceKept`. Nothing wakes the operator when a Service goes, so what has been placed must
*stay*. `SInv` adds to `CInv`, as long as nobody else touches the objects: versions of the NFDeployment reach the
operator in the order of their uids (`UidInv`); each known version of an object is owned by an
NFDeployment that Reconcile's copy does not precede, and if any version that ever was bears the present
uid, so does the stored one (`BackedInv`); and what a Reconcile has behind it is `Placed`
(`PlacedInv`). The garbage collector keeps this because it takes only what is not the present NFDeployment's, a
Reconcile because it never writes a uid that is older than its copy's over a newer one. For the AMF and
the SMF, which do not take over what they find, it holds for the first NFDeployment of a name only, and
`doc_services` shows that it fails for the second.

`KeepsPromiseProofs` proves the refinement: `Implements`, `PromiseSpec => ActsAsPromised`. What has to
be shown is that the copy Reconcile works on is never older than one it worked on before, though
each is read from a cache that trails the store, and a restart replaces the cache. `HistoryInv` says
why: the versions of the NFDeployment that the informer has and has yet to see come in their order
(`InOrder`), each stands for something that was asked, at or after `acting` (`Answers`), the stored one for the
last thing asked, Reconcile's for `asked[acting]` (`CopiesStand`). `NewSpecKeepsHistory` and
`OldSpecKeepsHistory` show that writes to the NFDeployment keep this, `DeliveryKeepsHistory` that the
informer's progress does, `FetchImplements` that a new copy is a `TurnTo` or a stutter. A call that
writes is a `Keep`, because an update is accepted only if its copy of the object is the stored one
(`Trails`), and an accepted status is a `Report`, because it means that Reconcile's copy is the stored
one, which stands last (`CopyInv`).

`RollOutProofs` proves of the two what is proved of one: `PairTypes`, `SurvivorIsConverged`, `PairIsConverged`,
`PairLeavesNothing`, `PairStatusCurrent`, `PairForeignSafe` and `PairHasServices`. It instantiates the proofs of the
single operator for each of them (`OldP`, `NewP`) and shows that the invariant holds of both (`PairInvariance`). A
step of one keeps its own invariant by those proofs. It keeps the other's as well, because the invariant speaks of
caches and registers, which the other's step leaves alone, and of what the informers have yet to see: whatever one
operator commits is to the other a write like a user's, with its event to come
(`NewSeesIt`, `OldSeesIt`, from `OthersCommit`). No bound of the runs is used, so that the start of the new process at any
moment, deletion while both are at work and crashes of either are covered.

What does not carry over is what rests on an order between the copies of one operator. `SInv` does, and `UPFServiceKept`,
which needs it, fails for two (section 5). `ServicesCreated` holds of them, and `FirstServicesProofs` gives the invariant
for it, `FInv`: as long as there has been one NFDeployment of the name and nobody else has touched the objects (`First`),
every version of an object that anybody knows of is owned by that one, and is kept until it is deleted (`AllKnown`); what a
Reconcile has behind it is kept, too (`DoneInv`). Besides keeping `FInv`, a step of one operator leaves of the objects what the
other relies on: `FirstStep`, which speaks of the store alone and is therefore the same for both
(`SameFirstStep`, `NewKnowsIt`, `OldKnowsIt`). `PairServicesCreated` and `SurvivorLeavesNothing` have no run: with the new
process starting at rest and no deletion beside it they say little, and instances without these bounds are beyond TLC.

`SpecEditsProofs` proves, for lists of interfaces, names and addresses of any length, `EditsTypes`
(`Spec => []TypeOK`), `HostsConfigured` (`Spec => []TwoDigitsStripped`) and `OthersHaveNoEffect`
(`Spec => OthersDoNotMatter`). The search for the first interface of a name is a choice of the least
position; that there is one (`FirstPosition`) follows from the order of the natural numbers being
well founded. An edit of other interfaces shifts positions, but keeps the order of those of the name
(`SameNamed`), hence which one comes first (`SameNamedSameAddress`).

Every invariant and step property that a run checks and that is not refuted is thus proved. Only
model-checked, because it is out of the prover's reach, is liveness: `EventuallyConverged`, `EventuallyIdle`,
`PairComesToRest`, `PairEventuallyConverges`, and the `KeepingUp` part of `KeepsPromise`.

## 5. What is not modelled

- Several NFDeployments: they share nothing but the worker, and the queue hands
  each key to one worker at a time.
- The work queue beyond `queued` and `delayed`: with one key and the default of one worker its dirty and
  processing sets say no more than these, and the rate at which back-off grows is no matter of order.
- More than two operators at a time. With two, runs leave out what `Confined` does, and one
  behaviour known from there has no run. Let the old operator be in the middle of a
  Reconcile for a UPF, at its Service, when the NFDeployment is deleted and created again. The new operator gives the Service
  the new uid. The old one sees that, and since `SetControllerReference` compares names it accepts
  the reference and replaces it by that of its copy, with the old uid. If the old process now
  ends, the garbage collector removes the Service, and as Services are not watched the new one does
  not bring it back: `UPFServiceKept`, which is proved of one operator, fails for two.
- A garbage collector that is overtaken between its check of an owner and its deletion: `CollectGarbage` is one
  step. One that makes the deletion conditional on the object's uid only can remove a Service
  that the UPF's reconciler has adopted (`upf/resources.go:118`) after the check; `UPFServiceKept` is about one whose
  deletion is refused when the object has changed.
- An API server whose lists go back in time, and a write of a dead process that arrives late.
- Rejection of updates by validation (an existing Deployment with another selector), and
  the failure of cached reads, which do not fail once the cache has synced.
- The contents of the objects beyond `data`: templates of scripts and manifests without a decision in
  them, apart from the address.
- Addresses of fewer than three characters, on which the slice panics, and generations beyond the
  int32 that the AMF's and SMF's status holds.
- Pods: the ConfigMap's change does not restart them; nothing in the code does.
- Start-up, flags, health checks, RBAC, the manifest: nothing in them is state that the reconcilers
  read. The NRF controller of README.md:243 has no code.

## 6. What is left to do

Runs that lift `Confined`, should the state space allow it, and a run for the behaviour of section 5 that loses
a UPF's Service to two operators. Liveness remains with TLC.
