# TLA+ models of the KubevirtMachine controller

This directory holds TLA+ models of the KubevirtMachine reconciler of
cluster-api-provider-kubevirt (`src/controllers/kubevirtmachine_controller.go`).
It also holds the TLC configurations that model-check the models and the TLAPS
proofs of their main safety invariants.

## 1. The system

The controller turns a Cluster API `Machine` into a KubeVirt VM. It does this
through a `KubevirtMachine` object. A reconcile of one KubevirtMachine reads
several objects, makes at most one step of progress, and returns. Progress
comes in three forms:

- it adds a finalizer;
- it creates a secret or a VM;
- it waits for something external and returns.

A deferred function (lines 130-138) then patches the object back. That patch
is CAPI's `patch.Helper`, which issues three independent API calls:

1. the conditions;
2. metadata and spec (finalizers, `providerID`, `bootstrapped`);
3. the status (`ready`, `addresses`).

Each of the three calls can fail on its own.

### Parts and how they interact

| Part | Code | State it reads or writes |
|---|---|---|
| Reconcile entry | `Reconcile` 64-160 | It fetches the KubevirtMachine, the owner Machine, the Cluster and the KubevirtCluster. It adds the finalizer. It checks that the infrastructure is ready. It branches on the deletion timestamp. |
| Normal path | `reconcileNormal` 162-311 | It handles the providerID short-circuit, bootstrap data, SSH keys, the userdata secret, VM creation and boot, the Bootstrapping patch, the guest bootstrap probe, addresses, and the providerID on the workload node. |
| Delete path | `reconcileDelete` 313-329 | It patches VMProvisioned=False/Deleting, then removes the finalizer. |
| Userdata secret | `reconcileKubevirtBootstrapSecret` 395-460 | It creates `<dataSecret>-userdata` with a nested `CreateOrUpdate`. |
| Workload client | 462-501 | It reads the `-kubeconfig` secret and builds a client. |
| Watches | `SetupWithManager` 332-358, `KubevirtClusterToKubevirtMachines` 361-392 | These decide which changes enqueue a request. |
| Dead helpers | `updateUserDataUsers`, `usersCloudConfig` 503-542 | Nothing calls them; the call is commented out at 418-421. |
| kubevirtci script | `src/unnamed/part_000` | Developer tooling. |

Outside this repository, the other actors only change the world the reconciler
reads:

- the Machine controller (owner reference);
- the bootstrap provider (data secret);
- the KubevirtCluster controller (SSH keys, the KubevirtCluster, infrastructure ready);
- the control plane (initialized, kubeconfig);
- KubeVirt (VM boot);
- the guest (bootstrap, node registration);
- the user (delete).

A reconcile runs again only in three cases:

- a watched object changes: the KubevirtMachine; the Machine; the Cluster, when
  infrastructure becomes ready; or the KubevirtCluster, through the index;
- it returned `RequeueAfter` or an error;
- the informer's periodic resync fires.

Secrets, VMs and the workload cluster are not watched.

### What makes it hard

- **Partial patches.** Spec can be written and status lost, or the reverse
  (line 132).
- **Sticky decisions taken from stored state.** A stored `providerID` skips
  everything (164). A stored `bootstrapped` skips the guest probe (255).
- **Waits without requeue.** Several branches return `Result{}` and rely on a
  watch event: missing bootstrap data (173-183), a secret error (202-205), and a
  missing KubevirtCluster (107-110).
- **Deletion racing a reconcile.** Deletion can arrive at any point, and the
  reconcile works on a stale copy (154).
- **Ordered steps.** The finalizer is persisted before anything is created
  (140-144). Deleting is persisted before the finalizer goes (320-326).

## 2. The model: `KubevirtMachine.tla`

### State

| Variable | Models |
|---|---|
| `kvm` | The stored KubevirtMachine. It records whether it exists, the finalizer, the deletion timestamp, `providerID`, `Spec.Bootstrapped`, `Status.Ready`, whether addresses are set, and the VMProvisioned and BootstrapExecSucceeded conditions (reason or Absent). |
| `machine`, `cluster`, `kvcExists`, `sshKeys`, `userdata`, `vm`, `kubeconfig`, `nodeUp` | The owner reference and dataSecretName; InfrastructureReady and ControlPlaneInitialized; the KubevirtCluster; the SSH key secret; the `-userdata` secret; the VM (exists, booted, guest bootstrapped); the kubeconfig secret; the node registered in the workload cluster. |
| `pc`, `loc`, `res` | The reconcile in flight: the point reached in the handler, the in-memory copy it mutates, and the return value the deferred patch will see. |
| `queued` | A request for this object is in the workqueue. |
| `faults` | Injected failures so far, bounded by `MaxFaults`. |

The data is abstracted to what the properties tell apart. Names, addresses,
key material and cloud-init text are Booleans ("set" or "not set"). A condition
is its reason.

### Actions

A reconcile is split at every point where the code calls the API server or
another system. Each step ends either at the next step or in `Finish`, which
hands the copy and the result to `DeferredPatch`. Between the steps, the
environment and the user may act. This interleaving is the real one, because
the reconcile reads each object when it reaches it.

| Action | Code |
|---|---|
| `Reconcile` (+ `Found`, `ReconcileNormalStart`) | 64-183 |
| `FetchSSHKeys` | 185-200 |
| `ReconcileBootstrapSecret` | 202-206 with 395-460 |
| `ProvisionVM` | 208-241 |
| `PatchBootstrapping` | 243-252 |
| `WaitBootstrap` | 254-281 |
| `SetProviderID` | 283-311 (the client of 462-501 reduced to `kubeconfig`) |
| `ReconcileDelete` | 313-329 |
| `DeferredPatch` (+ `Patched`, `PatchOutcomes`) | 124-138 |
| environment actions, `ChangeEvent` | the watches of 332-392 decide `queued'` |
| `Resync` | the informer resync (controller-runtime) |

`Patched(l, o)` applies the three calls of the patch helper, and each call is
allowed to fail:

- the conditions call copies `vmProv` and `bootExec` from the copy `l`;
- the spec call copies the finalizer, `providerID` and `bootstrapped`;
- if the spec call leaves a deleting object without a finalizer, the API server
  purges the object, and the status call finds nothing.

A failed patch becomes the reconcile's error and requeues the object. A change
to the stored object is a watch event on the `For()` kind.

Two code paths are not separate actions, and the model loses nothing by that:

- **Manager crash mid-reconcile.** It leaves the same state as a deferred patch
  whose three calls all fail. Nothing was written, and the object is requeued
  (by the initial list after the restart), so `DeferredPatch` with an all-fail
  outcome already covers it.
- **The `NewHelper` errors** (125, 237, 316). They need a failing conversion of
  a typed object, which the scheme rules out.

### Constants and bounds (`MC_KubevirtMachine.tla`)

- `IsControlPlane = FALSE`. A worker has the longer path: it also waits for the
  control plane to be initialized.
- `IndexHitsMachine = FALSE`. The KubevirtMachine and its Machine have
  different names, as they do when a MachineDeployment stamps them from
  templates. A KubevirtCluster change therefore never reaches this object
  (line 387).
- `MaxFaults = 2`. Two faults allow a failed create followed by a partial
  patch, or two partial patches of one pass. The pass that stores `providerID`
  needs only one fault to lose the status.
- `Init` lets `cpInitialized` and `kvcExists` start either way. Everything else
  starts where a freshly created KubevirtMachine starts.

The safety run has 9,783 distinct states and fires every action and every
disjunct.

## 3. The other modules

### `MachineLifecycle.tla`: what a KubevirtMachine promises

This is an abstract spec with one variable, `phase`, and four values:
Pending, Provisioned, Deleting and Gone.

- `Provision` moves Pending to Provisioned.
- `RequestDelete` moves Pending to Deleting or Gone, and Provisioned to Deleting.
  An object that never got the finalizer may vanish at once, but only while
  nothing was provisioned for it.
- `Purge` moves Deleting to Gone.

Its `Spec` adds weak fairness on `Provision` and `Purge`.

`KubevirtMachine.tla` maps its state to a phase with `Phase`:

- `Gone` when the object does not exist;
- otherwise `Deleting` when the deletion timestamp is set;
- otherwise `Provisioned` when `providerID` is stored;
- otherwise `Pending`.

`Lifecycle == INSTANCE MachineLifecycle WITH phase <- Phase` is the
refinement, and `ImplementsLifecycle == Lifecycle!Spec` is checked as a
PROPERTY. In code terms, the refinement says three things:

- a stored `providerID` is never lost;
- a provisioned object never disappears without the finalizer holding it in
  Deleting (lines 141-143);
- with the fairness of section 4, every machine is provisioned or deleted, and
  every deleted one is purged.

### `ClusterToMachines.tla`: the KubevirtCluster watch

This module models the watch of lines 346-349 and its map function
`KubevirtClusterToKubevirtMachines` (363-392) over several Machines of two
clusters.

| Variable | Models |
|---|---|
| `created` | The Machines that exist. |
| `kvcOwner` | The owner Cluster of the KubevirtCluster, or `NoOwner`. |
| `gen` | Flips on every change of the KubevirtCluster. |
| `queue` | The names with a request in the workqueue. |
| `faults` | Failed lookups so far, bounded by `MaxFaults`. |

The constants `MachineCluster` and `MachineInfraRef` give each Machine its
cluster label and its `Spec.InfrastructureRef.Name` (`NoRef` when empty).

`KubevirtClusterChanged` is one event. When the owner lookup and the list
succeed, it enqueues the mapper's result. Otherwise it enqueues nothing: a
map function cannot return an error (372-375, 380-382), and spec section 4.2
prescribes exactly this empty, non-fatal result. `CreateMachine`,
`SetClusterOwner` and `Dispatch` are the environment and the workers.

`MC_ClusterToMachines.tla` has two clusters and four Machines. One of them
has no infrastructure reference yet, and one belongs to the other cluster.
The KubevirtMachines are named differently from their Machines
(`MCOwn...`), as when a MachineDeployment stamps both from templates; the
model has no passing run, because its only question is the index_names
counterexample, and its safety fact is proved (section 5).

## 4. Runs

| Run | cfg | Expect | Shows |
|---|---|---|---|
| safety | `KubevirtMachine_safety.cfg` | pass | See the four properties below. |
| liveness | `KubevirtMachine_liveness.cfg` | pass | With resync and finitely many faults, every live machine is eventually provisioned (`EventuallyProvisioned`), and every deleted one is eventually purged (`DeletionCompletes`). |
| status | `KubevirtMachine_status.cfg` | violation | `ProviderIDStatusComplete` fails. |
| noresync | `KubevirtMachine_noresync.cfg` | violation | Without resync, `EventuallyProvisioned` fails. |
| lifecycle | `KubevirtMachine_lifecycle.cfg` | pass | `ImplementsLifecycle`: the reconcile loop implements `MachineLifecycle`, liveness included (9,783 states). |
| index_names | `ClusterToMachines_names.cfg` | violation | `EveryDependentRequested` fails when names differ. |

The safety run checks four properties:

- `TypeOK`.
- `BootstrapFlagsTruthful`: the stored `bootstrapped` flag implies the guest
  bootstrapped, and a stored `providerID` implies `bootstrapped` and a
  registered node.
- `VMOnlyUnderFinalizer`: the VM is created only while the stored object has
  the finalizer.
- `FinalizerReleasedAfterDeleting`: the finalizer leaves the store only after
  Deleting has been stored.

Every property of the passing runs has a mutant in `KubevirtMachine.tla`
(`...NoReady`, `...NoReturnAfterFinalizer`, `...IgnorePatchError`,
`...KeepsFinalizer`, `...WrongCondition`, `...NoProbe`, and
`ReconcileNoFinalizer` for `ImplementsLifecycle`). Each mutant is a plausible bug in the mapped code, and TLC
finds each one.

### Findings

1. **The userdata secret stalls without resync** (lines 430-453, 202-205).
   - The nested `CreateOrUpdate` creates the `-userdata` secret. The outer
     `CreateOrUpdate` then issues its own `Create`, which fails, so the first
     call always errors.
   - `reconcileNormal` treats the error as "waiting for bootstrap data" and
     returns `Result{}` with no requeue.
   - If that condition is already stored, the patch changes nothing and no
     event fires. Only the periodic resync (about 10 hours by default) moves
     the machine on.
   - The second call then finds the secret and proceeds.
2. **A partial patch leaves providerID with an incomplete status** (131, 164).
   - The pass that sets `providerID` also sets the addresses and
     BootstrapExecSucceeded=True.
   - If the patch's spec call succeeds and the status or conditions call fails,
     the `providerID` is stored without them.
   - Every later pass returns at the short-circuit at 164. The short-circuit
     restores `Ready` and VMProvisioned, but never the addresses or
     BootstrapExecSucceeded.
3. **The KubevirtCluster watch requests Machines, not KubevirtMachines**
   (line 387).
   - The mapper tests `m.Spec.InfrastructureRef.Name` but builds the request
     from `m.Name`.
   - A KubevirtMachine whose name differs from its Machine's is never
     re-triggered by a KubevirtCluster change. This is the usual case when a
     MachineDeployment stamps both from templates.
   - A KubevirtMachine that happens to share a Machine's name is requested
     instead.

A failed owner lookup or Machine list in the mapper (374, 381) also leaves
the KubevirtCluster event without requests, and only a later change or a
resync recovers it. That is the behaviour spec section 4.2 prescribes
("empty result, non-fatal"), so it is listed as a hazard, not as a finding.

### Fairness

- `WF(ReconcileStep)`: the controller's workers take a queued request and run a
  reconcile to its end.
- Weak fairness on each environment action: the other controllers, KubeVirt
  and the guest eventually do their part. These are the preconditions of any
  provisioning.
- `WF(Resync)`: the informer resync period. `SpecNoResync` drops it, to show
  what the watches alone guarantee.
- The user is never forced to delete.
- Faults are bounded, so eventually patches succeed.

## 5. Proofs

There are four proof modules:

- `KubevirtMachine_proofs.tla`;
- `KubevirtMachineLifecycle_proofs.tla`;
- `KubevirtMachineFinalizer_proofs.tla`;
- `ClusterToMachines_proofs.tla`.

All proofs are checked by `tlapm` for every value of the constants. The
KubevirtMachine proofs assume only `ConstantsAssumption`: both flags are
Booleans and `MaxFaults \in Nat`. The mapper theorem takes
`MapperAssumption` as its hypothesis (the module has no TLC run to evaluate
an ASSUME): the cluster labels and infrastructure references are
functions into their sets, and `NoRef` and `NoOwner` are distinct from real
names.

- **`TypeCorrect`**: `Spec => []TypeOK`. It rests on two lemmas:
  - `TypeOKInit`;
  - `TypeOKStep`, with one case per action.

  `TypeOKStep` in turn uses lemmas on the patch helper: `PatchedType` (and
  `ExistsUpdate`), `OutcomeFacts` and `FinishType`.
- **`BootstrapFlagsSound`**: `Spec => []BootstrapFlagsTruthful`.
  - `BootstrapFlagsTruthful` is not inductive as it stands. The deferred patch
    copies `bootstrapped` and `providerID` from the in-flight copy `loc`, so
    `loc` must satisfy the same implications (`LocalSound`). When
    `SetProviderID` runs, `loc.bootstrapped` must already hold
    (`pc = "ProviderID" => loc.bootstrapped`).
  - The inductive invariant is
    `IInv == TypeOK /\ StoreSound /\ LocalSound /\ (pc = "ProviderID" => loc.bootstrapped)`.
    It was checked with TLC on the safety instance before it was proved.
  - `PatchedSpecFields` shows that a patch takes both flags either from the
    store or from the copy.
  - `PatchKeepsStoreSound` shows that a patch of a sound copy keeps the store
    sound.
  - The step proof has one case per action. The `vm` and `nodeUp` facts only
    grow, so the environment cannot falsify the invariant.

- **`RefinesLifecycle`**: `Spec => Lifecycle!SafetySpec`, in
  `KubevirtMachineLifecycle_proofs.tla`. It is the safety half of
  `ImplementsLifecycle`.
  - The initial state maps to Pending.
  - Every step maps to a `MachineLifecycle` step or a stutter (`RefineStep`).
    The only steps that change the phase are the deferred patch, the user's
    delete and the API server's purge.
  - A patch writes the copy `loc`. It must not take the phase backwards, so
    the step proof needs the invariant
    `RInv == TypeOK /\ StoreFin /\ (pc # "Idle" => CopyOK(loc)) /\ (pc = "Delete" => loc.deleting)`.
    - `StoreFin`: a live, provisioned, undeleted object has the finalizer.
    - `CopyOK(loc)`: the copy's `providerID` is at least the stored one; the
      copy keeps the finalizer unless it is deleting; and a deleting copy is
      deleting in the store too, or the object is gone.
    - In the delete path, the copy is deleting.
  - `RInv` was checked with TLC on two constant configurations before it was
    proved.
  - The lemmas `PatchFields`, `PatchPhase` and `PatchKeepsRInv` give the
    effect of a patch on the phase.

- **`VMCreatedUnderFinalizer`** (`Spec => VMOnlyUnderFinalizer`) and
  **`FinalizerReleasedLast`** (`Spec => FinalizerReleasedAfterDeleting`), in
  `KubevirtMachineFinalizer_proofs.tla`.
  - Both are action properties. Each follows from the invariant `FinInv`
    (theorem `FinInvInvariant`) and a step lemma: `VMCreatedStep` and
    `FinalizerReleaseStep`. The argument closes with PTL.
  - `FinInv == RInv /\ NormalGuarded /\ CopyKeepsFinalizer /\ ReleaseMarked`:
    - `NormalGuarded`: in the steps before the VM exists (`Keys`, `Secret`,
      `VM`), the stored object exists and has the finalizer. Reconcile enters
      them only then (lines 140-144). Nothing writes the store until the VM
      step, and the user's delete of a finalized object only sets the
      timestamp.
    - `CopyKeepsFinalizer`: every copy in flight, before the deferred patch,
      has the finalizer.
    - `ReleaseMarked`: a copy without the finalizer reaches the deferred patch
      only when `VMProvisioned=Deleting` is stored. reconcileDelete drops the
      finalizer from its copy only after its own patch succeeded in full, and
      nothing writes the condition before the deferred patch.
  - `RInv` is needed so that the lifecycle lemmas can be reused. `FinInv` was
    checked with TLC on all four combinations of the two flags before it was
    proved.
  - The proofs use these lemmas:
    - `PatchCond`: a conditions call that reaches a live object stores the
      copy's condition.
    - `PatchFields`: the spec call alone moves the finalizer.
    - `ReconcileFin` and `NormalFin`, one per group of steps.

- **`QueueOnlyMapped`**: `Spec => []QueueMapped`, in
  `ClusterToMachines_proofs.tla`. The queue is always a subset of what the
  map function would return now. That result only grows: Machines are only
  created, and the owner is set once. Before the owner is set, the result is
  empty.

### Left to TLC

These stay with TLC:

- The liveness properties, and the liveness half of `ImplementsLifecycle`.
  The provers do not handle fairness and `ENABLED`.
- `ProviderIDStatusComplete` and the `EveryDependentRequested` violations.
  These are counterexamples, which TLC finds; there is nothing to prove.

## 6. Not modelled, and the plan

Not modelled:

- `updateUserDataUsers` and `usersCloudConfig`: dead code.
- The kubevirtci script: shell tooling.
- How the workload client is built (REST config parsing): pure I/O. It appears
  only as the nil client.

Planned:

- A composition of two KubevirtMachines with one shared KubevirtCluster and
  workqueue. This checks that the work of one machine never touches the other
  machine's secret or VM.
