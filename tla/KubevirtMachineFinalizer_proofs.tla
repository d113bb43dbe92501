------------------- MODULE KubevirtMachineFinalizer_proofs -------------------
(***************************************************************************)
(* The finalizer protocol of the KubevirtMachine reconciler, for every    *)
(* value of the constants: the VM is only created under the finalizer     *)
(* (lines 140-144), and the finalizer is only released once Deleting is   *)
(* stored (lines 320-326).  Both are action properties; each follows from *)
(* an inductive invariant about the step in flight and its copy.          *)
(***************************************************************************)
EXTENDS KubevirtMachineLifecycle_proofs

\* The steps of reconcileNormal before the VM exists, none of which patches.
PreVMSteps == {"Keys", "Secret", "VM"}

(***************************************************************************)
(* The inductive invariant.  Reconcile enters reconcileNormal only once   *)
(* the stored object carries the finalizer, and until the VM step nothing *)
(* writes the store; the user's delete of an object with a finalizer only *)
(* sets the timestamp.  Every copy in flight keeps the finalizer, except  *)
(* the one reconcileDelete hands to the deferred patch after its own      *)
(* Deleting patch went through in full.                                   *)
(***************************************************************************)
NormalGuarded == pc \in PreVMSteps => kvm.exists /\ kvm.finalizer

CopyKeepsFinalizer == pc \notin {"Idle", "Patch"} => loc.finalizer

ReleaseMarked == pc = "Patch" /\ ~loc.finalizer => kvm.vmProv = "Deleting"

FinInv == RInv /\ NormalGuarded /\ CopyKeepsFinalizer /\ ReleaseMarked

(* The conditions call of a patch that reaches a live object stores the  *)
(* copy's VMProvisioned condition.                                       *)
LEMMA PatchCond ==
    ASSUME kvm \in KvmRecord,
           NEW l \in KvmRecord,
           NEW o \in Outcome,
           kvm.exists, o.cond
    PROVE  Patched(l, o).vmProv = l.vmProv
<1> DEFINE c == [kvm EXCEPT !.vmProv = l.vmProv, !.bootExec = l.bootExec]
           s == IF o.spec
                  THEN [c EXCEPT !.finalizer = l.finalizer,
                                 !.providerID = l.providerID,
                                 !.bootstrapped = l.bootstrapped]
                  ELSE c
           gone == s.deleting /\ ~s.finalizer
           t == IF o.status /\ ~gone
                  THEN [s EXCEPT !.ready = l.ready, !.addresses = l.addresses]
                  ELSE s
<1>1. c \in KvmRecord /\ c.vmProv = l.vmProv
  BY CondUpdate DEF KvmRecord
<1>2. s \in KvmRecord /\ s.vmProv = l.vmProv
  BY <1>1, SpecUpdate DEF KvmRecord
<1>3. gone \in BOOLEAN
  BY <1>2 DEF KvmRecord
<1>4. t \in KvmRecord /\ t.vmProv = l.vmProv
  <2>1. CASE o.status /\ ~gone
    <3>1. t = [s EXCEPT !.ready = l.ready, !.addresses = l.addresses]
      BY <2>1
    <3>2. [s EXCEPT !.ready = l.ready, !.addresses = l.addresses] \in KvmRecord
      BY <1>2, StatusUpdate
    <3>3. [s EXCEPT !.ready = l.ready, !.addresses = l.addresses].vmProv
            = s.vmProv
      BY <1>2 DEF KvmRecord
    <3>. QED
      BY <1>2, <3>1, <3>2, <3>3
  <2>2. CASE ~(o.status /\ ~gone)
    BY <1>2, <2>2
  <2>. QED
    BY <2>1, <2>2
<1>5. Patched(l, o) = [t EXCEPT !.exists = ~gone]
  BY DEF Patched
<1>. QED
  BY <1>4, <1>5 DEF KvmRecord

(* A fresh KubevirtMachine has no reconcile in flight.                   *)
LEMMA FinInvInit == Init => FinInv
BY RInvInit DEF Init, FinInv, NormalGuarded, CopyKeepsFinalizer,
               ReleaseMarked, PreVMSteps

(* The step taken by Reconcile: a copy it hands on carries the finalizer, *)
(* and it enters reconcileNormal only for a live object with one.        *)
LEMMA ReconcileFin ==
    ASSUME FinInv, Reconcile
    PROVE  /\ kvm' = kvm
           /\ pc' = "Idle" \/ loc'.finalizer
           /\ pc' \in PreVMSteps => kvm.exists /\ kvm.finalizer
<1> USE DEF FinInv, RInv, TypeOK
<1>1. CASE ~Found /\ UNCHANGED recVars
  BY <1>1 DEF Reconcile, recVars, PreVMSteps
<1>2. CASE Found /\ ~kvm.finalizer
           /\ Finish([kvm EXCEPT !.finalizer = TRUE], "Done")
  BY <1>2 DEF Reconcile, Finish, KvmRecord, PreVMSteps
<1>3. CASE Found /\ kvm.finalizer /\ ~cluster.infraReady
           /\ Finish([kvm EXCEPT !.vmProv = "WaitingForClusterInfrastructure"],
                     "Done")
  BY <1>3 DEF Reconcile, Finish, KvmRecord, PreVMSteps
<1>4. CASE Found /\ kvm.finalizer /\ cluster.infraReady /\ kvm.deleting
           /\ pc' = "Delete" /\ loc' = kvm /\ res' = "None"
  BY <1>4 DEF Reconcile, PreVMSteps
<1>5. CASE Found /\ kvm.finalizer /\ cluster.infraReady /\ ~kvm.deleting
           /\ ReconcileNormalStart(kvm)
  BY <1>5 DEF Reconcile, ReconcileNormalStart, Finish, KvmRecord, Found,
              PreVMSteps
<1>. QED
  BY <1>1, <1>2, <1>3, <1>4, <1>5 DEF Reconcile

(* The steps of reconcileNormal that do not patch only move forward       *)
(* through PreVMSteps and keep the copy's finalizer.                      *)
LEMMA NormalFin ==
    ASSUME FinInv,
           FetchSSHKeys \/ ReconcileBootstrapSecret \/ ProvisionVM
             \/ WaitBootstrap \/ SetProviderID
    PROVE  /\ kvm' = kvm
           /\ pc \notin {"Idle", "Patch", "Delete"}
           /\ pc' \in PreVMSteps => pc \in PreVMSteps
           /\ loc'.finalizer = loc.finalizer
<1>1. /\ kvm' = kvm
      /\ loc'.finalizer = loc.finalizer
  BY NormalStepCopy DEF FinInv
<1>2. /\ pc \notin {"Idle", "Patch", "Delete"}
      /\ pc' \in PreVMSteps => pc \in PreVMSteps
  BY DEF FetchSSHKeys, ReconcileBootstrapSecret, ProvisionVM, WaitBootstrap,
         SetProviderID, Finish, PreVMSteps
<1>. QED
  BY <1>1, <1>2

(* Every step of the reconciler, the environment or the user keeps the   *)
(* finalizer invariant.                                                   *)
LEMMA FinInvStep == FinInv /\ [Next]_vars => FinInv'
<1> SUFFICES ASSUME FinInv, [Next]_vars PROVE FinInv'
  OBVIOUS
<1>0. RInv' /\ TypeOK'
  BY RInvStep DEF FinInv, RInv
<1>1. CASE Reconcile
  <2>1. /\ kvm' = kvm
        /\ pc' = "Idle" \/ loc'.finalizer
        /\ pc' \in PreVMSteps => kvm.exists /\ kvm.finalizer
    BY <1>1, ReconcileFin
  <2>. QED
    BY <1>0, <2>1 DEF FinInv, NormalGuarded, CopyKeepsFinalizer, ReleaseMarked
<1>2. CASE FetchSSHKeys \/ ReconcileBootstrapSecret \/ ProvisionVM
           \/ WaitBootstrap \/ SetProviderID
  <2>1. /\ kvm' = kvm
        /\ pc \notin {"Idle", "Patch", "Delete"}
        /\ pc' \in PreVMSteps => pc \in PreVMSteps
        /\ loc'.finalizer = loc.finalizer
    BY <1>2, NormalFin
  <2>2. loc.finalizer
    BY <2>1 DEF FinInv, CopyKeepsFinalizer
  <2>. QED
    BY <1>0, <2>1, <2>2
    DEF FinInv, NormalGuarded, CopyKeepsFinalizer, ReleaseMarked
<1>3. CASE PatchBootstrapping
  <2>1. /\ pc' \in {"Bootstrap", "Patch"}
        /\ loc' = loc
    BY <1>3 DEF PatchBootstrapping, Finish
  <2>2. loc.finalizer
    BY <1>3 DEF PatchBootstrapping, FinInv, CopyKeepsFinalizer
  <2>. QED
    BY <1>0, <2>1, <2>2
    DEF FinInv, NormalGuarded, CopyKeepsFinalizer, ReleaseMarked, PreVMSteps
<1>4. CASE ReconcileDelete
  <2> DEFINE marked == [loc EXCEPT !.vmProv = "Deleting"]
  <2>1. /\ marked \in KvmRecord
        /\ marked.vmProv = "Deleting"
        /\ marked.finalizer
    BY <1>4 DEF ReconcileDelete, FinInv, RInv, TypeOK, KvmRecord,
                VMProvisionedValues, CopyKeepsFinalizer
  <2>2. PICK o \in PatchOutcomes :
              /\ kvm' = Patched(marked, o)
              /\ IF PatchSucceeded(o)
                   THEN Finish([marked EXCEPT !.finalizer = FALSE], "Done")
                   ELSE Finish(marked, "Error")
    BY <1>4 DEF ReconcileDelete
  <2>3. o \in Outcome /\ kvm \in KvmRecord
    BY <2>2, OutcomeFacts DEF FinInv, RInv, TypeOK
  <2>4. CASE PatchSucceeded(o)
    <3>1. kvm'.vmProv = "Deleting"
      BY <2>1, <2>2, <2>3, <2>4, PatchCond DEF PatchSucceeded, AllSucceed
    <3>2. pc' = "Patch"
      BY <2>2, <2>4 DEF Finish
    <3>. QED
      BY <1>0, <3>1, <3>2
      DEF FinInv, NormalGuarded, CopyKeepsFinalizer, ReleaseMarked, PreVMSteps
  <2>5. CASE ~PatchSucceeded(o)
    <3>1. pc' = "Patch" /\ loc' = marked
      BY <2>2, <2>5 DEF Finish
    <3>. QED
      BY <1>0, <2>1, <3>1
      DEF FinInv, NormalGuarded, CopyKeepsFinalizer, ReleaseMarked, PreVMSteps
  <2>. QED
    BY <2>4, <2>5
<1>5. CASE DeferredPatch
  <2>1. pc' = "Idle"
    BY <1>5 DEF DeferredPatch
  <2>. QED
    BY <1>0, <2>1
    DEF FinInv, NormalGuarded, CopyKeepsFinalizer, ReleaseMarked, PreVMSteps
<1>6. CASE Progress
  BY <1>0, <1>6, ProgressFrame
  DEF FinInv, NormalGuarded, CopyKeepsFinalizer, ReleaseMarked
<1>7. CASE DeleteKubevirtMachine
  <2>1. UNCHANGED <<pc, loc>>
    BY <1>7 DEF DeleteKubevirtMachine, recVars
  <2>2. /\ kvm'.vmProv = kvm.vmProv
        /\ kvm.finalizer => kvm'.exists /\ kvm'.finalizer
    BY <1>7 DEF DeleteKubevirtMachine, FinInv, RInv, TypeOK, KvmRecord
  <2>. QED
    BY <1>0, <2>1, <2>2
    DEF FinInv, NormalGuarded, CopyKeepsFinalizer, ReleaseMarked
<1>8. CASE Resync
  BY <1>0, <1>8 DEF Resync, recVars, FinInv, NormalGuarded,
                    CopyKeepsFinalizer, ReleaseMarked
<1>9. CASE UNCHANGED vars
  BY <1>0, <1>9 DEF vars, FinInv, NormalGuarded, CopyKeepsFinalizer,
                    ReleaseMarked
<1>. QED
  BY <1>1, <1>2, <1>3, <1>4, <1>5, <1>6, <1>7, <1>8, <1>9
  DEF Next, ReconcileStep

(* In every reachable state the reconcile in flight respects the         *)
(* finalizer protocol of Reconcile and reconcileDelete (lines 140-144,   *)
(* 313-329): the pre-VM steps run under a stored finalizer, every copy   *)
(* keeps it, and a copy without it is handed to the deferred patch only  *)
(* once Deleting is stored.                                               *)
THEOREM FinInvInvariant == Spec => []FinInv
BY FinInvInit, FinInvStep, PTL DEF Spec
(* Only the VM step of reconcileNormal creates the VM; the VM's boot and  *)
(* the guest's bootstrap leave its existence alone.                      *)
LEMMA VMCreatedStep ==
    FinInv /\ [Next]_vars => (~vm.exists /\ vm'.exists => kvm.exists /\ kvm.finalizer)
<1> SUFFICES ASSUME FinInv, [Next]_vars, ~vm.exists, vm'.exists
             PROVE  kvm.exists /\ kvm.finalizer
  OBVIOUS
<1>0. vm \in [exists: BOOLEAN, booted: BOOLEAN, bootstrapped: BOOLEAN]
  BY DEF FinInv, RInv, TypeOK
<1>1. CASE ProvisionVM
  BY <1>1 DEF ProvisionVM, FinInv, NormalGuarded, PreVMSteps
<1>2. CASE VMBoots \/ GuestBootstraps
  BY <1>0, <1>2 DEF VMBoots, GuestBootstraps
<1>3. CASE ~ProvisionVM /\ ~VMBoots /\ ~GuestBootstraps
  <2>1. vm' = vm
    <3>1. CASE ReconcileStep
      BY <1>3, <3>1 DEF ReconcileStep, Reconcile, FetchSSHKeys,
         ReconcileBootstrapSecret, PatchBootstrapping, WaitBootstrap,
         SetProviderID, ReconcileDelete, DeferredPatch
    <3>2. CASE Progress
      BY <1>3, <3>2 DEF Progress, SetOwnerRef, SetBootstrapData,
         CreateKubevirtCluster, ClusterInfrastructureReady,
         ControlPlaneInitialized, PersistSSHKeys, PublishKubeconfig,
         NodeRegisters
    <3>3. CASE DeleteKubevirtMachine \/ Resync \/ UNCHANGED vars
      BY <3>3 DEF DeleteKubevirtMachine, Resync, vars
    <3>. QED
      BY <3>1, <3>2, <3>3 DEF Next
  <2>. QED
    BY <2>1
<1>. QED
  BY <1>1, <1>2, <1>3

(* The finalizer leaves the store only through the deferred patch of the *)
(* copy reconcileDelete released it in, after Deleting was stored.       *)
LEMMA FinalizerReleaseStep ==
    FinInv /\ [Next]_vars
      => (kvm.finalizer /\ ~kvm'.finalizer => kvm.vmProv = "Deleting")
<1> SUFFICES ASSUME FinInv, [Next]_vars, kvm.finalizer, ~kvm'.finalizer
             PROVE  kvm.vmProv = "Deleting"
  OBVIOUS
<1>0. kvm \in KvmRecord /\ loc \in KvmRecord /\ faults \in 0..MaxFaults
  BY DEF FinInv, RInv, TypeOK
<1>1. CASE PatchBootstrapping
  <2>1. PICK o \in PatchOutcomes : kvm' = Patched(loc, o)
    BY <1>1 DEF PatchBootstrapping
  <2>2. kvm'.finalizer = IF o.spec /\ kvm.exists THEN loc.finalizer
                                               ELSE kvm.finalizer
    BY <1>0, <2>1, OutcomeFacts, PatchFields
  <2>3. loc.finalizer
    BY <1>1 DEF PatchBootstrapping, FinInv, CopyKeepsFinalizer
  <2>. QED
    BY <2>2, <2>3
<1>2. CASE ReconcileDelete
  <2> DEFINE marked == [loc EXCEPT !.vmProv = "Deleting"]
  <2>1. marked \in KvmRecord /\ marked.finalizer
    BY <1>0, <1>2 DEF ReconcileDelete, FinInv, CopyKeepsFinalizer, KvmRecord,
                      VMProvisionedValues
  <2>2. PICK o \in PatchOutcomes : kvm' = Patched(marked, o)
    BY <1>2 DEF ReconcileDelete
  <2>3. kvm'.finalizer = IF o.spec /\ kvm.exists THEN marked.finalizer
                                               ELSE kvm.finalizer
    BY <1>0, <2>1, <2>2, OutcomeFacts, PatchFields
  <2>. QED
    BY <2>1, <2>3
<1>3. CASE DeferredPatch
  <2>1. PICK o \in PatchOutcomes : kvm' = Patched(loc, o)
    BY <1>3 DEF DeferredPatch
  <2>2. kvm'.finalizer = IF o.spec /\ kvm.exists THEN loc.finalizer
                                               ELSE kvm.finalizer
    BY <1>0, <2>1, OutcomeFacts, PatchFields
  <2>3. pc = "Patch" /\ ~loc.finalizer
    BY <1>3, <2>2 DEF DeferredPatch
  <2>. QED
    BY <2>3 DEF FinInv, ReleaseMarked
<1>4. CASE DeleteKubevirtMachine
  BY <1>0, <1>4 DEF DeleteKubevirtMachine, KvmRecord
<1>5. CASE ~PatchBootstrapping /\ ~ReconcileDelete /\ ~DeferredPatch
           /\ ~DeleteKubevirtMachine
  <2>1. kvm' = kvm
    <3>1. CASE Reconcile
      BY <3>1 DEF Reconcile
    <3>2. CASE FetchSSHKeys \/ ReconcileBootstrapSecret \/ ProvisionVM
               \/ WaitBootstrap \/ SetProviderID
      BY <3>2, NormalFin
    <3>3. CASE Progress
      BY <3>3, ProgressFrame
    <3>4. CASE Resync \/ UNCHANGED vars
      BY <3>4 DEF Resync, vars
    <3>. QED
      BY <1>5, <3>1, <3>2, <3>3, <3>4 DEF Next, ReconcileStep
  <2>. QED
    BY <2>1
<1>. QED
  BY <1>1, <1>2, <1>3, <1>4, <1>5

(* The KubevirtMachine reconciler creates the VM only while the stored   *)
(* object carries its finalizer (lines 140-144 persist the finalizer and *)
(* return before anything is created), for every value of the constants *)
(* and under every pattern of partial patch failures and user deletes.   *)
THEOREM VMCreatedUnderFinalizer == Spec => VMOnlyUnderFinalizer
<1>1. Spec => []FinInv
  BY FinInvInvariant
<1>. QED
  BY <1>1, VMCreatedStep, PTL DEF Spec, VMOnlyUnderFinalizer

(* reconcileDelete's finalizer removal (lines 320-326) reaches the store  *)
(* only after VMProvisioned=False/Deleting is stored: its own patch must *)
(* have gone through in full before the copy without the finalizer is    *)
(* handed to the deferred patch.                                          *)
THEOREM FinalizerReleasedLast == Spec => FinalizerReleasedAfterDeleting
<1>1. Spec => []FinInv
  BY FinInvInvariant
<1>. QED
  BY <1>1, FinalizerReleaseStep, PTL DEF Spec, FinalizerReleasedAfterDeleting
====
