--------------------------- MODULE KubevirtMachine ---------------------------
(***************************************************************************)
(* The reconciliation of one KubevirtMachine by KubevirtMachineReconciler *)
(* (src/controllers/kubevirtmachine_controller.go), together with the     *)
(* collaborators it reads and writes: the stored KubevirtMachine object,  *)
(* its owner Machine, the Cluster, the KubevirtCluster, the cluster SSH   *)
(* key secret, the derived "-userdata" bootstrap secret, the KubeVirt VM, *)
(* the workload-cluster kubeconfig secret and the workload node.          *)
(*                                                                         *)
(* One call of Reconcile is split into the steps between which the code   *)
(* performs external I/O, so that the other controllers, the user and a   *)
(* the patch failures interleave with it.  The reconciler works on a     *)
(* local copy (loc) of the object read at the start; the deferred patch   *)
(* writes it back.  The patch helper issues three independent API calls   *)
(* (conditions, then metadata+spec, then status), each of which can fail  *)
(* on its own: that is the partial failure the model keeps.               *)
(***************************************************************************)
EXTENDS Naturals

CONSTANTS
    IsControlPlane,     \* util.IsControlPlaneMachine(machine)
    IndexHitsMachine,   \* the Machine and the KubevirtMachine share a name
    MaxFaults           \* bound on injected API failures

ASSUME ConstantsAssumption ==
    /\ IsControlPlane \in BOOLEAN
    /\ IndexHitsMachine \in BOOLEAN
    /\ MaxFaults \in Nat

VARIABLES
    kvm,        \* the KubevirtMachine as stored by the API server
    machine,    \* the owner Machine: owner ref set, bootstrap dataSecretName set
    cluster,    \* the Cluster: InfrastructureReady, ControlPlaneInitialized
    kvcExists,  \* the KubevirtCluster exists
    sshKeys,    \* the cluster SSH key secret is persisted
    userdata,   \* the derived "<dataSecretName>-userdata" secret exists
    vm,         \* the KubeVirt VM: exists, booted, guest bootstrapped
    kubeconfig, \* the "<kubevirtCluster>-kubeconfig" secret is usable
    nodeUp,     \* the node is registered in the workload cluster
    pc,         \* the step of the reconcile in flight, "Idle" if none
    loc,        \* the reconciler's in-memory copy of the KubevirtMachine
    res,        \* the result the reconcile in flight will return
    queued,     \* a request for this object waits in the work queue
    faults      \* API failures injected so far

envVars == <<machine, cluster, kvcExists, sshKeys, kubeconfig, nodeUp>>
recVars == <<pc, loc, res>>
vars == <<kvm, machine, cluster, kvcExists, sshKeys, userdata, vm,
          kubeconfig, nodeUp, pc, loc, res, queued, faults>>

(***************************************************************************)
(* Conditions.  A condition is "Absent", "True", or the reason it is      *)
(* False with; the severity and message are left out.                     *)
(***************************************************************************)
VMProvisionedValues ==
    {"Absent", "True", "WaitingForClusterInfrastructure",
     "WaitingForControlPlaneAvailable", "WaitingForBootstrapData", "Deleting"}
BootstrapExecValues == {"Absent", "True", "Bootstrapping", "BootstrapFailed"}

KvmRecord ==
    [exists: BOOLEAN, finalizer: BOOLEAN, deleting: BOOLEAN,
     providerID: BOOLEAN, bootstrapped: BOOLEAN,
     ready: BOOLEAN, addresses: BOOLEAN,
     vmProv: VMProvisionedValues, bootExec: BootstrapExecValues]

NewKvm ==
    [exists |-> TRUE, finalizer |-> FALSE, deleting |-> FALSE,
     providerID |-> FALSE, bootstrapped |-> FALSE,
     ready |-> FALSE, addresses |-> FALSE,
     vmProv |-> "Absent", bootExec |-> "Absent"]

Steps == {"Idle", "Keys", "Secret", "VM", "PatchBootstrapping",
          "Bootstrap", "ProviderID", "Delete", "Patch"}
Results == {"None", "Done", "Requeue", "Error"}

TypeOK ==
    /\ kvm \in KvmRecord
    /\ machine \in [owned: BOOLEAN, dataSecret: BOOLEAN]
    /\ cluster \in [infraReady: BOOLEAN, cpInitialized: BOOLEAN]
    /\ kvcExists \in BOOLEAN
    /\ sshKeys \in BOOLEAN
    /\ userdata \in BOOLEAN
    /\ vm \in [exists: BOOLEAN, booted: BOOLEAN, bootstrapped: BOOLEAN]
    /\ kubeconfig \in BOOLEAN
    /\ nodeUp \in BOOLEAN
    /\ pc \in Steps
    /\ loc \in KvmRecord
    /\ res \in Results
    /\ queued \in BOOLEAN
    /\ faults \in 0..MaxFaults

Init ==
    /\ kvm = NewKvm
    /\ machine = [owned |-> FALSE, dataSecret |-> FALSE]
    /\ cluster \in [infraReady: {FALSE}, cpInitialized: BOOLEAN]
    /\ kvcExists \in BOOLEAN
    /\ sshKeys = FALSE
    /\ userdata = FALSE
    /\ vm = [exists |-> FALSE, booted |-> FALSE, bootstrapped |-> FALSE]
    /\ kubeconfig = FALSE
    /\ nodeUp = FALSE
    /\ pc = "Idle"
    /\ loc = NewKvm
    /\ res = "None"
    /\ queued = TRUE
    /\ faults = 0

-----------------------------------------------------------------------------
(***************************************************************************)
(* The patch helper.  An outcome says which of its three calls succeed;   *)
(* any failure is an injected fault.  A call writes the fields of its     *)
(* part from loc (nobody else writes them, so the diff the helper sends   *)
(* is loc's value).  When the spec call leaves a deleting object with no  *)
(* finalizer, the API server purges it and the status call finds nothing. *)
(***************************************************************************)
PatchOutcomes ==
    {o \in [cond: BOOLEAN, spec: BOOLEAN, status: BOOLEAN] :
        (o.cond /\ o.spec /\ o.status) \/ faults < MaxFaults}

AllSucceed(o) == o.cond /\ o.spec /\ o.status

Patched(l, o) ==
    LET c == IF o.cond
               THEN [kvm EXCEPT !.vmProv = l.vmProv, !.bootExec = l.bootExec]
               ELSE kvm
        s == IF o.spec
               THEN [c EXCEPT !.finalizer = l.finalizer,
                              !.providerID = l.providerID,
                              !.bootstrapped = l.bootstrapped]
               ELSE c
        gone == s.deleting /\ ~s.finalizer
        t == IF o.status /\ ~gone
               THEN [s EXCEPT !.ready = l.ready, !.addresses = l.addresses]
               ELSE s
    IN  IF kvm.exists THEN [t EXCEPT !.exists = ~gone] ELSE kvm

PatchSucceeded(o) == kvm.exists /\ AllSucceed(o)

FaultsAfter(o) == IF AllSucceed(o) THEN faults ELSE faults + 1

\* Any change of the stored object is a watch event on the For() kind.
ChangeEvent == kvm' # kvm /\ kvm'.exists

-----------------------------------------------------------------------------
Finish(l, r) == pc' = "Patch" /\ loc' = l /\ res' = r

(* Mutant: the provisioned short-circuit no longer forces Ready.          *)
ReconcileNormalStartNoReady(k) ==
    \/ /\ k.providerID
       /\ Finish([k EXCEPT !.vmProv = "True"], "Done")
    \/ /\ ~k.providerID /\ ~machine.dataSecret
       /\ Finish([k EXCEPT !.vmProv =
                    IF ~IsControlPlane /\ ~cluster.cpInitialized
                      THEN "WaitingForControlPlaneAvailable"
                      ELSE "WaitingForBootstrapData"], "Done")
    \/ /\ ~k.providerID /\ machine.dataSecret
       /\ pc' = "Keys" /\ loc' = k /\ res' = "None"

(***************************************************************************)
(* reconcileNormal, lines 162-183, on the copy k read at the start: a set *)
(* provider ID means provisioned (Ready and VMProvisioned are forced, for *)
(* objects moved without their status); without bootstrap data it waits  *)
(* for the control plane (a worker) or for the data, with no requeue.    *)
(***************************************************************************)
ReconcileNormalStart(k) ==
    \/ /\ k.providerID
       /\ Finish([k EXCEPT !.ready = TRUE, !.vmProv = "True"], "Done")
    \/ /\ ~k.providerID /\ ~machine.dataSecret
       /\ Finish([k EXCEPT !.vmProv =
                    IF ~IsControlPlane /\ ~cluster.cpInitialized
                      THEN "WaitingForControlPlaneAvailable"
                      ELSE "WaitingForBootstrapData"], "Done")
    \/ /\ ~k.providerID /\ machine.dataSecret
       /\ pc' = "Keys" /\ loc' = k /\ res' = "None"

\* The objects Reconcile needs are all there (lines 67-112).
Found == kvm.exists /\ machine.owned /\ kvcExists

(* Mutant: AddFinalizer without the return that follows it.               *)
ReconcileNoReturnAfterFinalizer ==
    /\ pc = "Idle"
    /\ queued
    /\ queued' = FALSE
    /\ \/ ~Found /\ UNCHANGED recVars
       \/ LET k == [kvm EXCEPT !.finalizer = TRUE] IN
          /\ Found
          /\ \/ /\ ~cluster.infraReady
                /\ Finish([k EXCEPT !.vmProv = "WaitingForClusterInfrastructure"], "Done")
             \/ /\ cluster.infraReady /\ k.deleting
                /\ pc' = "Delete" /\ loc' = k /\ res' = "None"
             \/ /\ cluster.infraReady /\ ~k.deleting
                /\ ReconcileNormalStart(k)
    /\ UNCHANGED <<kvm, envVars, userdata, vm, faults>>

(* Mutant: lines 140-144 left out, no finalizer is ever added.            *)
ReconcileNoFinalizer ==
    /\ pc = "Idle"
    /\ queued
    /\ queued' = FALSE
    /\ \/ ~Found /\ UNCHANGED recVars
       \/ /\ Found /\ ~cluster.infraReady
          /\ Finish([kvm EXCEPT !.vmProv = "WaitingForClusterInfrastructure"], "Done")
       \/ /\ Found /\ cluster.infraReady /\ kvm.deleting
          /\ pc' = "Delete" /\ loc' = kvm /\ res' = "None"
       \/ /\ Found /\ cluster.infraReady /\ ~kvm.deleting
          /\ ReconcileNormalStart(kvm)
    /\ UNCHANGED <<kvm, envVars, userdata, vm, faults>>

(***************************************************************************)
(* Reconcile, lines 64-160: read the object, its Machine, the Cluster and *)
(* the KubevirtCluster (a missing one ends the call with no requeue),     *)
(* install the deferred patch, add the finalizer and return, wait for the *)
(* cluster infrastructure, then branch on the deletion timestamp.         *)
(***************************************************************************)
Reconcile ==
    /\ pc = "Idle"
    /\ queued
    /\ queued' = FALSE
    /\ \/ ~Found /\ UNCHANGED recVars
       \/ /\ Found /\ ~kvm.finalizer
          /\ Finish([kvm EXCEPT !.finalizer = TRUE], "Done")
       \/ /\ Found /\ kvm.finalizer /\ ~cluster.infraReady
          /\ Finish([kvm EXCEPT !.vmProv = "WaitingForClusterInfrastructure"], "Done")
       \/ /\ Found /\ kvm.finalizer /\ cluster.infraReady /\ kvm.deleting
          /\ pc' = "Delete" /\ loc' = kvm /\ res' = "None"
       \/ /\ Found /\ kvm.finalizer /\ cluster.infraReady /\ ~kvm.deleting
          /\ ReconcileNormalStart(kvm)
    /\ UNCHANGED <<kvm, envVars, userdata, vm, faults>>

(* Lines 185-200: the SSH key secret, requeue after 10s if not persisted. *)
FetchSSHKeys ==
    /\ pc = "Keys"
    /\ \/ /\ ~sshKeys
          /\ Finish(loc, "Requeue")
          /\ UNCHANGED faults
       \/ /\ sshKeys /\ faults < MaxFaults
          /\ Finish(loc, "Error")
          /\ faults' = faults + 1
       \/ /\ sshKeys
          /\ pc' = "Secret"
          /\ UNCHANGED <<loc, res, faults>>
    /\ UNCHANGED <<kvm, envVars, userdata, vm, queued>>

(***************************************************************************)
(* Lines 202-206 with reconcileKubevirtBootstrapSecret, lines 395-460.    *)
(* An existing "-userdata" secret returns nil.  Otherwise the outer       *)
(* CreateOrUpdate runs its mutate function, whose inner CreateOrUpdate    *)
(* creates the secret; the outer Create of the same object then fails     *)
(* (resourceVersion set / already exists), so the function returns an     *)
(* error whether or not the inner create succeeded, and the caller marks  *)
(* WaitingForBootstrapData and returns with no requeue.                   *)
(***************************************************************************)
ReconcileBootstrapSecret ==
    /\ pc = "Secret"
    /\ \/ /\ userdata
          /\ pc' = "VM"
          /\ UNCHANGED <<loc, res, userdata, faults>>
       \/ /\ ~userdata
          /\ \/ userdata' = TRUE /\ UNCHANGED faults
             \/ /\ faults < MaxFaults /\ faults' = faults + 1
                /\ UNCHANGED userdata
          /\ Finish([loc EXCEPT !.vmProv = "WaitingForBootstrapData"], "Done")
    /\ UNCHANGED <<kvm, envVars, vm, queued>>

(***************************************************************************)
(* Lines 208-252: create the VM if it does not exist (an error aborts),   *)
(* requeue after 20s until it has booted, then mark VMProvisioned and,    *)
(* the first time, BootstrapExecSucceeded=False/Bootstrapping, which is   *)
(* patched at once.                                                       *)
(***************************************************************************)
ProvisionVM ==
    /\ pc = "VM"
    /\ \/ /\ ~vm.exists /\ faults < MaxFaults
          /\ Finish(loc, "Error")
          /\ faults' = faults + 1
          /\ UNCHANGED vm
       \/ /\ ~vm.exists
          /\ vm' = [vm EXCEPT !.exists = TRUE]
          /\ Finish(loc, "Requeue")
          /\ UNCHANGED faults
       \/ /\ vm.exists /\ ~vm.booted
          /\ Finish(loc, "Requeue")
          /\ UNCHANGED <<vm, faults>>
       \/ /\ vm.exists /\ vm.booted
          /\ loc' = [loc EXCEPT !.vmProv = "True",
                               !.bootExec = IF loc.bootExec = "Absent"
                                              THEN "Bootstrapping" ELSE @]
          /\ pc' = IF loc.bootExec = "Absent" THEN "PatchBootstrapping"
                                              ELSE "Bootstrap"
          /\ UNCHANGED <<res, vm, faults>>
    /\ UNCHANGED <<kvm, envVars, userdata, queued>>

(* Lines 249-251: the immediate patch; its failure aborts the reconcile. *)
PatchBootstrapping ==
    /\ pc = "PatchBootstrapping"
    /\ \E o \in PatchOutcomes :
          /\ kvm' = Patched(loc, o)
          /\ faults' = FaultsAfter(o)
          /\ queued' = (queued \/ ChangeEvent)
          /\ IF PatchSucceeded(o)
               THEN pc' = "Bootstrap" /\ UNCHANGED <<loc, res>>
               ELSE Finish(loc, "Error")
    /\ UNCHANGED <<envVars, userdata, vm>>

(* Mutant: BootstrapFailed marked on the VMProvisioned condition.         *)
WaitBootstrapWrongCondition ==
    /\ pc = "Bootstrap"
    /\ \/ /\ ~loc.bootstrapped /\ ~vm.bootstrapped
          /\ Finish([loc EXCEPT !.vmProv = "BootstrapFailed"], "Requeue")
       \/ /\ loc.bootstrapped \/ vm.bootstrapped
          /\ pc' = "ProviderID"
          /\ loc' = [loc EXCEPT !.bootstrapped = TRUE, !.bootExec = "True",
                                !.addresses = TRUE]
          /\ UNCHANGED res
    /\ UNCHANGED <<kvm, envVars, userdata, vm, queued, faults>>

(* Mutant: the guest is never probed before the sticky flag is set.       *)
WaitBootstrapNoProbe ==
    /\ pc = "Bootstrap"
    /\ pc' = "ProviderID"
    /\ loc' = [loc EXCEPT !.bootstrapped = TRUE, !.bootExec = "True",
                          !.addresses = TRUE]
    /\ UNCHANGED <<res, kvm, envVars, userdata, vm, queued, faults>>

(***************************************************************************)
(* Lines 254-281: unless the sticky Bootstrapped flag is set, probe the   *)
(* guest; not bootstrapped yet marks BootstrapFailed and requeues after   *)
(* 10s.  Then BootstrapExecSucceeded=True and the addresses are filled.   *)
(***************************************************************************)
WaitBootstrap ==
    /\ pc = "Bootstrap"
    /\ \/ /\ ~loc.bootstrapped /\ ~vm.bootstrapped
          /\ Finish([loc EXCEPT !.bootExec = "BootstrapFailed"], "Requeue")
       \/ /\ loc.bootstrapped \/ vm.bootstrapped
          /\ pc' = "ProviderID"
          /\ loc' = [loc EXCEPT !.bootstrapped = TRUE, !.bootExec = "True",
                                !.addresses = TRUE]
          /\ UNCHANGED res
    /\ UNCHANGED <<kvm, envVars, userdata, vm, queued, faults>>

(***************************************************************************)
(* Lines 283-310: build the workload cluster client (requeue after 10s    *)
(* when it cannot be built), set the provider ID on the node (requeue     *)
(* after 5s on failure), then set Spec.ProviderID and Ready.              *)
(***************************************************************************)
SetProviderID ==
    /\ pc = "ProviderID"
    /\ \/ /\ ~kubeconfig
          /\ Finish(loc, "Requeue")
       \/ /\ kubeconfig /\ ~nodeUp
          /\ Finish(loc, "Requeue")
       \/ /\ kubeconfig /\ nodeUp
          /\ Finish([loc EXCEPT !.providerID = TRUE, !.ready = TRUE,
                                !.vmProv = "True"], "Done")
    /\ UNCHANGED <<kvm, envVars, userdata, vm, queued, faults>>

(* Mutant: the error of the immediate Deleting patch is ignored.          *)
ReconcileDeleteIgnorePatchError ==
    /\ pc = "Delete"
    /\ LET marked == [loc EXCEPT !.vmProv = "Deleting"] IN
       \E o \in PatchOutcomes :
          /\ kvm' = Patched(marked, o)
          /\ faults' = FaultsAfter(o)
          /\ queued' = (queued \/ ChangeEvent)
          /\ Finish([marked EXCEPT !.finalizer = FALSE], "Done")
    /\ UNCHANGED <<envVars, userdata, vm>>

(* Mutant: the finalizer is never removed.                                 *)
ReconcileDeleteKeepsFinalizer ==
    /\ pc = "Delete"
    /\ LET marked == [loc EXCEPT !.vmProv = "Deleting"] IN
       \E o \in PatchOutcomes :
          /\ kvm' = Patched(marked, o)
          /\ faults' = FaultsAfter(o)
          /\ queued' = (queued \/ ChangeEvent)
          /\ Finish(marked, IF PatchSucceeded(o) THEN "Done" ELSE "Error")
    /\ UNCHANGED <<envVars, userdata, vm>>

(***************************************************************************)
(* reconcileDelete, lines 313-329: mark VMProvisioned=False/Deleting,     *)
(* patch at once (an error aborts), then drop the finalizer.              *)
(***************************************************************************)
ReconcileDelete ==
    /\ pc = "Delete"
    /\ LET marked == [loc EXCEPT !.vmProv = "Deleting"] IN
       \E o \in PatchOutcomes :
          /\ kvm' = Patched(marked, o)
          /\ faults' = FaultsAfter(o)
          /\ queued' = (queued \/ ChangeEvent)
          /\ IF PatchSucceeded(o)
               THEN Finish([marked EXCEPT !.finalizer = FALSE], "Done")
               ELSE Finish(marked, "Error")
    /\ UNCHANGED <<envVars, userdata, vm>>

(***************************************************************************)
(* The deferred patch, lines 130-138, run on every return once the patch  *)
(* helper exists.  A patch error becomes the returned error when there is *)
(* none.  The dispatcher requeues on an error or a RequeueAfter; a plain  *)
(* return waits for a watch event.                                        *)
(***************************************************************************)
DeferredPatch ==
    /\ pc = "Patch"
    /\ \E o \in PatchOutcomes :
          /\ kvm' = Patched(loc, o)
          /\ faults' = FaultsAfter(o)
          /\ queued' = (queued \/ ChangeEvent \/ res \in {"Requeue", "Error"}
                               \/ ~PatchSucceeded(o))
    /\ pc' = "Idle" /\ loc' = NewKvm /\ res' = "None"
    /\ UNCHANGED <<envVars, userdata, vm>>

ReconcileStep ==
    \/ Reconcile \/ FetchSSHKeys \/ ReconcileBootstrapSecret \/ ProvisionVM
    \/ PatchBootstrapping \/ WaitBootstrap \/ SetProviderID
    \/ ReconcileDelete \/ DeferredPatch

-----------------------------------------------------------------------------
(***************************************************************************)
(* The environment: the other controllers, the user, KubeVirt and the     *)
(* workload cluster.  queued' records the watch events SetupWithManager   *)
(* (lines 332-358) turns into requests for this KubevirtMachine: changes  *)
(* of the Machine, a Cluster whose infrastructure becomes ready, and a    *)
(* KubevirtCluster change, which KubevirtClusterToKubevirtMachines maps   *)
(* to the Machine's name (line 387), a hit only if the names coincide.    *)
(* Secrets, VMs and the workload cluster are not watched.                 *)
(***************************************************************************)
\* The Machine controller writes the owner reference into the
\* KubevirtMachine: an update the For() watch (line 338) queues.
SetOwnerRef ==
    /\ ~machine.owned
    /\ machine' = [machine EXCEPT !.owned = TRUE]
    /\ queued' = TRUE
    /\ UNCHANGED <<kvm, cluster, kvcExists, sshKeys, userdata, vm, kubeconfig,
                   nodeUp, recVars, faults>>

\* The bootstrap provider writes the data secret, then dataSecretName;
\* a worker's data waits for the control plane to be initialized.
SetBootstrapData ==
    /\ ~machine.dataSecret
    /\ IsControlPlane \/ cluster.cpInitialized
    /\ machine' = [machine EXCEPT !.dataSecret = TRUE]
    /\ queued' = TRUE
    /\ UNCHANGED <<kvm, cluster, kvcExists, sshKeys, userdata, vm, kubeconfig,
                   nodeUp, recVars, faults>>

CreateKubevirtCluster ==
    /\ ~kvcExists
    /\ kvcExists' = TRUE
    /\ queued' = (queued \/ IndexHitsMachine)
    /\ UNCHANGED <<kvm, machine, cluster, sshKeys, userdata, vm, kubeconfig,
                   nodeUp, recVars, faults>>

\* predicates.ClusterUnpausedAndInfrastructureReady passes this update.
ClusterInfrastructureReady ==
    /\ kvcExists /\ ~cluster.infraReady
    /\ cluster' = [cluster EXCEPT !.infraReady = TRUE]
    /\ queued' = TRUE
    /\ UNCHANGED <<kvm, machine, kvcExists, sshKeys, userdata, vm, kubeconfig,
                   nodeUp, recVars, faults>>

\* ... and filters this one out.
ControlPlaneInitialized ==
    /\ ~cluster.cpInitialized
    /\ cluster' = [cluster EXCEPT !.cpInitialized = TRUE]
    /\ UNCHANGED <<kvm, machine, kvcExists, sshKeys, userdata, vm, kubeconfig,
                   nodeUp, recVars, queued, faults>>

PersistSSHKeys ==
    /\ ~sshKeys
    /\ sshKeys' = TRUE
    /\ UNCHANGED <<kvm, machine, cluster, kvcExists, userdata, vm, kubeconfig,
                   nodeUp, recVars, queued, faults>>

VMBoots ==
    /\ vm.exists /\ ~vm.booted
    /\ vm' = [vm EXCEPT !.booted = TRUE]
    /\ UNCHANGED <<kvm, envVars, userdata, recVars, queued, faults>>

GuestBootstraps ==
    /\ vm.booted /\ userdata /\ ~vm.bootstrapped
    /\ vm' = [vm EXCEPT !.bootstrapped = TRUE]
    /\ UNCHANGED <<kvm, envVars, userdata, recVars, queued, faults>>

PublishKubeconfig ==
    /\ ~kubeconfig
    /\ kubeconfig' = TRUE
    /\ UNCHANGED <<kvm, machine, cluster, kvcExists, sshKeys, userdata, vm,
                   nodeUp, recVars, queued, faults>>

NodeRegisters ==
    /\ vm.bootstrapped /\ ~nodeUp
    /\ nodeUp' = TRUE
    /\ UNCHANGED <<kvm, machine, cluster, kvcExists, sshKeys, userdata, vm,
                   kubeconfig, recVars, queued, faults>>

\* The user deletes the object: with a finalizer the API server only sets
\* the deletion timestamp (an update event), without one it purges it.
DeleteKubevirtMachine ==
    /\ kvm.exists /\ ~kvm.deleting
    /\ kvm' = IF kvm.finalizer THEN [kvm EXCEPT !.deleting = TRUE]
                               ELSE [kvm EXCEPT !.exists = FALSE]
    /\ queued' = TRUE
    /\ UNCHANGED <<envVars, userdata, vm, recVars, faults>>

\* The informer's periodic resync enqueues every object.
Resync ==
    /\ ~queued
    /\ queued' = TRUE
    /\ UNCHANGED <<kvm, envVars, userdata, vm, recVars, faults>>

Progress ==
    \/ SetOwnerRef \/ SetBootstrapData \/ CreateKubevirtCluster
    \/ ClusterInfrastructureReady \/ ControlPlaneInitialized
    \/ PersistSSHKeys \/ VMBoots \/ GuestBootstraps
    \/ PublishKubeconfig \/ NodeRegisters

Next ==
    \/ ReconcileStep
    \/ Progress
    \/ DeleteKubevirtMachine
    \/ Resync

(***************************************************************************)
(* Fairness.  The dispatcher eventually serves a queued request and a     *)
(* reconcile in flight runs to its end (the controller's workers); the    *)
(* other controllers, KubeVirt and the workload cluster eventually make   *)
(* progress.  The user need not delete.  FairResync adds the informer's   *)
(* periodic resync; SpecNoResync relies on watch events and requeues only.*)
(***************************************************************************)
FairCore ==
    /\ WF_vars(ReconcileStep)
    /\ WF_vars(SetOwnerRef) /\ WF_vars(SetBootstrapData)
    /\ WF_vars(CreateKubevirtCluster) /\ WF_vars(ClusterInfrastructureReady)
    /\ WF_vars(ControlPlaneInitialized) /\ WF_vars(PersistSSHKeys)
    /\ WF_vars(VMBoots) /\ WF_vars(GuestBootstraps)
    /\ WF_vars(PublishKubeconfig) /\ WF_vars(NodeRegisters)

Spec == Init /\ [][Next]_vars /\ FairCore /\ WF_vars(Resync)

SpecNoResync == Init /\ [][Next]_vars /\ FairCore

-----------------------------------------------------------------------------
(***************************************************************************)
(* Properties.                                                            *)
(***************************************************************************)

(* The VM is created only while the stored KubevirtMachine carries the    *)
(* finalizer (lines 140-144 return right after AddFinalizer so that it is *)
(* persisted first): a deletion can never purge the object and leave the  *)
(* VM behind unnoticed, even when it races the creation.                  *)
VMOnlyUnderFinalizer ==
    [][~vm.exists /\ vm'.exists => kvm.exists /\ kvm.finalizer]_vars

(* reconcileDelete removes the finalizer only once VMProvisioned=False/   *)
(* Deleting is persisted: in the state before the finalizer disappears    *)
(* from the store, the stored condition already says Deleting, whatever   *)
(* part of the patches failed (lines 320-326).                            *)
FinalizerReleasedAfterDeleting ==
    [][kvm.finalizer /\ ~kvm'.finalizer => kvm.vmProv = "Deleting"]_vars

(* The stored sticky Bootstrapped flag is only set for a guest that      *)
(* really bootstrapped, and a stored provider ID is backed by that flag   *)
(* and by a registered node (lines 254-304), whatever the failed and      *)
(* partial patches in between: the flag is never re-probed, so a false    *)
(* one would hide an unbootstrapped VM for good.                          *)
BootstrapFlagsTruthful ==
    kvm.exists =>
        /\ kvm.bootstrapped => vm.bootstrapped
        /\ kvm.providerID => kvm.bootstrapped /\ nodeUp

(* Once a KubevirtMachine has a provider ID its status is complete: the   *)
(* addresses are published and BootstrapExecSucceeded is True, as the     *)
(* pass that set the provider ID computed them (lines 265-281).           *)
ProviderIDStatusComplete ==
    kvm.exists /\ kvm.providerID =>
        /\ kvm.addresses
        /\ kvm.bootExec = "True"

(* Every KubevirtMachine that is not deleted eventually gets its provider *)
(* ID and Ready: no wait of reconcileNormal is left without a later       *)
(* reconcile to end it.                                                   *)
EventuallyProvisioned ==
    <>(~kvm.exists \/ kvm.deleting \/ (kvm.providerID /\ kvm.ready))

(* A deleted KubevirtMachine is eventually purged: the delete path        *)
(* (lines 153-155, 313-329) eventually removes the finalizer.             *)
DeletionCompletes ==
    kvm.deleting ~> ~kvm.exists

-----------------------------------------------------------------------------
(***************************************************************************)
(* Refinement.  The phase of the abstract lifecycle is read off the       *)
(* stored object: gone, deleting (deletion timestamp set), provisioned   *)
(* (provider ID set) or pending.                                          *)
(***************************************************************************)
Phase ==
    IF ~kvm.exists THEN "Gone"
    ELSE IF kvm.deleting THEN "Deleting"
    ELSE IF kvm.providerID THEN "Provisioned"
    ELSE "Pending"

Lifecycle == INSTANCE MachineLifecycle WITH phase <- Phase

(* The reconciler implements the machine lifecycle: the provider ID,     *)
(* once stored, is never lost (the patches of lines 131, 249 and 321    *)
(* write it from a copy read after it was stored), a provisioned machine *)
(* is never purged without passing through deletion (the finalizer of    *)
(* lines 141-143 is on it), every machine not deleted is eventually      *)
(* provisioned and every deleted one eventually purged.                   *)
ImplementsLifecycle == Lifecycle!Spec

====
