-------------------- MODULE KubevirtMachineLifecycle_proofs --------------------
(***************************************************************************)
(* The KubevirtMachine reconciliation implements the safety part of the  *)
(* MachineLifecycle specification under the refinement mapping Phase.    *)
(***************************************************************************)
EXTENDS KubevirtMachine_proofs

(***************************************************************************)
(* The inductive invariant.  A stored provider ID on a live object is    *)
(* protected by the finalizer.  While a reconcile is in flight its copy  *)
(* holds at least the stored provider ID (it was read after the ID was   *)
(* stored, and nothing clears it), keeps the finalizer unless it is the  *)
(* copy of a deleting object, and is deleting only if the store is.      *)
(***************************************************************************)
StoreFin == kvm.exists /\ kvm.providerID /\ ~kvm.deleting => kvm.finalizer

CopyOK(l) ==
    /\ kvm.providerID => l.providerID
    /\ l.finalizer \/ l.deleting
    /\ l.deleting => kvm.deleting \/ ~kvm.exists

RInv ==
    /\ TypeOK
    /\ StoreFin
    /\ pc # "Idle" => CopyOK(loc)
    /\ pc = "Delete" => loc.deleting

(* What one patch does to the fields the lifecycle reads: the deletion   *)
(* timestamp is never written, an object once gone stays gone, a live    *)
(* object that is not deleting stays live, and the spec call, when it    *)
(* reaches a live object, copies the finalizer and the provider ID.      *)
LEMMA PatchFields ==
    ASSUME kvm \in KvmRecord,
           NEW l \in KvmRecord,
           NEW o \in Outcome,
           kvm' = Patched(l, o)
    PROVE  /\ kvm'.deleting = kvm.deleting
           /\ kvm'.exists => kvm.exists
           /\ kvm.exists /\ ~kvm.deleting => kvm'.exists
           /\ kvm'.providerID = IF o.spec /\ kvm.exists THEN l.providerID
                                                       ELSE kvm.providerID
           /\ kvm'.finalizer = IF o.spec /\ kvm.exists THEN l.finalizer
                                                      ELSE kvm.finalizer
<1> DEFINE c == IF o.cond
                  THEN [kvm EXCEPT !.vmProv = l.vmProv, !.bootExec = l.bootExec]
                  ELSE kvm
           s == IF o.spec
                  THEN [c EXCEPT !.finalizer = l.finalizer,
                                 !.providerID = l.providerID,
                                 !.bootstrapped = l.bootstrapped]
                  ELSE c
           gone == s.deleting /\ ~s.finalizer
           t == IF o.status /\ ~gone
                  THEN [s EXCEPT !.ready = l.ready, !.addresses = l.addresses]
                  ELSE s
<1>1. /\ c.deleting = kvm.deleting /\ c.providerID = kvm.providerID
      /\ c.finalizer = kvm.finalizer
  BY DEF KvmRecord
<1>2. /\ s.deleting = kvm.deleting
      /\ s.providerID = IF o.spec THEN l.providerID ELSE kvm.providerID
      /\ s.finalizer = IF o.spec THEN l.finalizer ELSE kvm.finalizer
  <2>1. c \in KvmRecord
    BY CondUpdate
  <2>. QED
    BY <1>1, <2>1 DEF KvmRecord
<1>3. /\ t.deleting = kvm.deleting
      /\ t.providerID = s.providerID
      /\ t.finalizer = s.finalizer
  <2>1. s \in KvmRecord
    BY CondUpdate, SpecUpdate
  <2>. QED
    BY <1>2, <2>1 DEF KvmRecord
<1>4. t \in KvmRecord
  BY CondUpdate, SpecUpdate, StatusUpdate
<1>5. CASE ~kvm.exists
  BY <1>5 DEF Patched
<1>6. CASE kvm.exists
  <2>1. kvm' = [t EXCEPT !.exists = ~gone]
    BY <1>6 DEF Patched
  <2>2. /\ kvm'.exists = ~gone
        /\ kvm'.deleting = t.deleting
        /\ kvm'.providerID = t.providerID
        /\ kvm'.finalizer = t.finalizer
    BY <1>4, <2>1 DEF KvmRecord
  <2>. QED
    BY <1>2, <1>3, <1>6, <2>2
<1>. QED
  BY <1>5, <1>6

(* A patch from a copy that holds at least the stored provider ID moves  *)
(* the phase forward along the lifecycle, or leaves it.                 *)
LEMMA PatchPhase ==
    ASSUME kvm \in KvmRecord,
           NEW l \in KvmRecord,
           NEW o \in Outcome,
           kvm.providerID => l.providerID,
           kvm' = Patched(l, o)
    PROVE  [Lifecycle!Next]_Phase
<1>1. /\ kvm'.deleting = kvm.deleting
      /\ kvm'.exists => kvm.exists
      /\ kvm.exists /\ ~kvm.deleting => kvm'.exists
      /\ kvm'.providerID = IF o.spec /\ kvm.exists THEN l.providerID
                                                  ELSE kvm.providerID
  BY PatchFields
<1>2. CASE ~kvm.exists
  BY <1>1, <1>2 DEF Phase
<1>3. CASE kvm.exists /\ kvm.deleting
  <2>1. Phase = "Deleting"
    BY <1>3 DEF Phase
  <2>2. Phase' \in {"Deleting", "Gone"}
    <3>1. CASE ~kvm'.exists
      BY <3>1 DEF Phase
    <3>2. CASE kvm'.exists
      BY <1>1, <1>3, <3>2 DEF Phase
    <3>. QED
      BY <3>1, <3>2
  <2>. QED
    BY <2>1, <2>2 DEF Lifecycle!Next, Lifecycle!Purge
<1>4. CASE kvm.exists /\ ~kvm.deleting
  <2>1. kvm'.exists /\ ~kvm'.deleting
    BY <1>1, <1>4
  <2>2. kvm.providerID => kvm'.providerID
    BY <1>1, <1>4
  <2>3. CASE kvm.providerID
    <3>1. Phase = "Provisioned"
      BY <1>4, <2>3 DEF Phase
    <3>2. Phase' = "Provisioned"
      BY <2>1, <2>2, <2>3 DEF Phase
    <3>. QED
      BY <3>1, <3>2
  <2>4. CASE ~kvm.providerID
    <3>1. Phase = "Pending" /\ Phase' \in {"Pending", "Provisioned"}
      BY <1>4, <2>1, <2>4 DEF Phase
    <3>. QED
      BY <3>1 DEF Lifecycle!Next, Lifecycle!Provision
  <2>. QED
    BY <2>3, <2>4
<1>. QED
  BY <1>2, <1>3, <1>4

(* A patch from a copy that satisfies CopyOK keeps the finalizer on a    *)
(* live provisioned object and keeps the copy's facts true of the store. *)
LEMMA PatchKeepsRInv ==
    ASSUME kvm \in KvmRecord,
           NEW l \in KvmRecord,
           NEW o \in Outcome,
           StoreFin, CopyOK(l),
           kvm' = Patched(l, o)
    PROVE  /\ StoreFin'
           /\ kvm'.providerID => l.providerID
           /\ l.deleting => kvm'.deleting \/ ~kvm'.exists
<1>1. /\ kvm'.deleting = kvm.deleting
      /\ kvm'.exists => kvm.exists
      /\ kvm'.providerID = IF o.spec /\ kvm.exists THEN l.providerID
                                                  ELSE kvm.providerID
      /\ kvm'.finalizer = IF o.spec /\ kvm.exists THEN l.finalizer
                                                 ELSE kvm.finalizer
  BY PatchFields
<1>2. StoreFin'
  BY <1>1 DEF StoreFin, CopyOK
<1>3. /\ kvm'.providerID => l.providerID
      /\ l.deleting => kvm'.deleting \/ ~kvm'.exists
  BY <1>1 DEF CopyOK
<1>. QED
  BY <1>2, <1>3
-----------------------------------------------------------------------------
(* The environment's steps leave the reconcile and the stored object alone. *)
LEMMA ProgressFrame ==
    ASSUME Progress
    PROVE  UNCHANGED <<kvm, pc, loc>>
<1>1. CASE SetOwnerRef
  BY <1>1 DEF SetOwnerRef, recVars
<1>2. CASE SetBootstrapData
  BY <1>2 DEF SetBootstrapData, recVars
<1>3. CASE CreateKubevirtCluster
  BY <1>3 DEF CreateKubevirtCluster, recVars
<1>4. CASE ClusterInfrastructureReady
  BY <1>4 DEF ClusterInfrastructureReady, recVars
<1>5. CASE ControlPlaneInitialized
  BY <1>5 DEF ControlPlaneInitialized, recVars
<1>6. CASE PersistSSHKeys
  BY <1>6 DEF PersistSSHKeys, recVars
<1>7. CASE VMBoots
  BY <1>7 DEF VMBoots, recVars
<1>8. CASE GuestBootstraps
  BY <1>8 DEF GuestBootstraps, recVars
<1>9. CASE PublishKubeconfig
  BY <1>9 DEF PublishKubeconfig, recVars
<1>10. CASE NodeRegisters
  BY <1>10 DEF NodeRegisters, recVars
<1>. QED
  BY <1>1, <1>2, <1>3, <1>4, <1>5, <1>6, <1>7, <1>8, <1>9, <1>10
  DEF Progress

(* The copy taken by Reconcile from the stored object, with the finalizer *)
(* it requires or adds, satisfies CopyOK; only a deleting copy is handed  *)
(* to the delete path.                                                    *)
LEMMA ReconcileCopy ==
    ASSUME RInv, Reconcile
    PROVE  \/ pc' = "Idle"
           \/ /\ loc'.providerID = kvm.providerID
              /\ loc'.finalizer
              /\ loc'.deleting = kvm.deleting
              /\ pc' = "Delete" => kvm.deleting
<1> USE DEF RInv, TypeOK
<1>1. CASE ~Found /\ UNCHANGED recVars
  BY <1>1 DEF Reconcile, recVars
<1>2. CASE Found /\ ~kvm.finalizer
           /\ Finish([kvm EXCEPT !.finalizer = TRUE], "Done")
  BY <1>2 DEF Finish, KvmRecord
<1>3. CASE Found /\ kvm.finalizer /\ ~cluster.infraReady
           /\ Finish([kvm EXCEPT !.vmProv = "WaitingForClusterInfrastructure"],
                     "Done")
  BY <1>3 DEF Finish, KvmRecord
<1>4. CASE Found /\ kvm.finalizer /\ cluster.infraReady /\ kvm.deleting
           /\ pc' = "Delete" /\ loc' = kvm /\ res' = "None"
  BY <1>4
<1>5. CASE Found /\ kvm.finalizer /\ cluster.infraReady /\ ~kvm.deleting
           /\ ReconcileNormalStart(kvm)
  BY <1>5 DEF ReconcileNormalStart, Finish, KvmRecord
<1>. QED
  BY <1>1, <1>2, <1>3, <1>4, <1>5 DEF Reconcile

(* The steps of reconcileNormal after the first keep the copy's provider *)
(* ID (or set it), finalizer and deletion timestamp, and the object.     *)
LEMMA NormalStepCopy ==
    ASSUME RInv,
           FetchSSHKeys \/ ReconcileBootstrapSecret \/ ProvisionVM
             \/ WaitBootstrap \/ SetProviderID
    PROVE  /\ kvm' = kvm
           /\ pc # "Idle" /\ pc' \notin {"Idle", "Delete"}
           /\ loc.providerID => loc'.providerID
           /\ loc'.finalizer = loc.finalizer
           /\ loc'.deleting = loc.deleting
<1> USE DEF RInv, TypeOK
<1>1. CASE FetchSSHKeys
  BY <1>1 DEF FetchSSHKeys, Finish
<1>2. CASE ReconcileBootstrapSecret
  BY <1>2 DEF ReconcileBootstrapSecret, Finish, KvmRecord
<1>3. CASE ProvisionVM
  BY <1>3 DEF ProvisionVM, Finish, KvmRecord
<1>4. CASE WaitBootstrap
  BY <1>4 DEF WaitBootstrap, Finish, KvmRecord
<1>5. CASE SetProviderID
  BY <1>5 DEF SetProviderID, Finish, KvmRecord
<1>. QED
  BY <1>1, <1>2, <1>3, <1>4, <1>5

LEMMA RInvInit == Init => RInv
BY TypeOKInit DEF Init, RInv, StoreFin, NewKvm

LEMMA RInvStep == RInv /\ [Next]_vars => RInv'
<1> SUFFICES ASSUME RInv, [Next]_vars PROVE RInv'
  OBVIOUS
<1>0. TypeOK'
  BY TypeOKStep DEF RInv
<1>1. CASE Reconcile
  <2>1. kvm' = kvm
    BY <1>1 DEF Reconcile
  <2>. QED
    BY <1>0, <1>1, <2>1, ReconcileCopy DEF RInv, StoreFin, CopyOK
<1>2. CASE FetchSSHKeys \/ ReconcileBootstrapSecret \/ ProvisionVM
           \/ WaitBootstrap \/ SetProviderID
  <2>1. /\ kvm' = kvm
        /\ pc # "Idle" /\ pc' \notin {"Idle", "Delete"}
        /\ loc.providerID => loc'.providerID
        /\ loc'.finalizer = loc.finalizer
        /\ loc'.deleting = loc.deleting
    BY <1>2, NormalStepCopy
  <2>. QED
    BY <1>0, <2>1 DEF RInv, StoreFin, CopyOK
<1>3. CASE PatchBootstrapping
  <2>1. PICK o \in PatchOutcomes :
              /\ kvm' = Patched(loc, o)
              /\ IF PatchSucceeded(o)
                   THEN pc' = "Bootstrap" /\ UNCHANGED <<loc, res>>
                   ELSE Finish(loc, "Error")
    BY <1>3 DEF PatchBootstrapping
  <2>2. loc' = loc /\ pc' \notin {"Idle", "Delete"}
    BY <2>1 DEF Finish
  <2>3. StoreFin' /\ CopyOK(loc)'
    <3>1. o \in Outcome /\ kvm \in KvmRecord /\ loc \in KvmRecord
      BY <2>1, OutcomeFacts DEF RInv, TypeOK
    <3>2. StoreFin /\ CopyOK(loc)
      BY <1>3 DEF PatchBootstrapping, RInv
    <3>3. /\ StoreFin'
          /\ kvm'.providerID => loc.providerID
          /\ loc.deleting => kvm'.deleting \/ ~kvm'.exists
      BY <2>1, <3>1, <3>2, PatchKeepsRInv
    <3>. QED
      BY <2>2, <3>2, <3>3 DEF CopyOK
  <2>. QED
    BY <1>0, <2>2, <2>3 DEF RInv, CopyOK
<1>4. CASE ReconcileDelete
  <2> DEFINE marked == [loc EXCEPT !.vmProv = "Deleting"]
  <2>1. /\ marked \in KvmRecord
        /\ marked.providerID = loc.providerID
        /\ marked.finalizer = loc.finalizer
        /\ marked.deleting = loc.deleting
    BY DEF RInv, TypeOK, KvmRecord, VMProvisionedValues
  <2>2. loc.deleting /\ CopyOK(marked)
    BY <1>4, <2>1 DEF ReconcileDelete, RInv, CopyOK
  <2>3. PICK o \in PatchOutcomes :
              /\ kvm' = Patched(marked, o)
              /\ IF PatchSucceeded(o)
                   THEN Finish([marked EXCEPT !.finalizer = FALSE], "Done")
                   ELSE Finish(marked, "Error")
    BY <1>4 DEF ReconcileDelete
  <2>4. /\ StoreFin'
        /\ kvm'.providerID => marked.providerID
        /\ marked.deleting => kvm'.deleting \/ ~kvm'.exists
    <3>1. o \in Outcome /\ kvm \in KvmRecord
      BY <2>3, OutcomeFacts DEF RInv, TypeOK
    <3>2. StoreFin
      BY DEF RInv
    <3>. QED
      BY <2>1, <2>2, <2>3, <3>1, <3>2, PatchKeepsRInv
  <2>5. /\ pc' = "Patch"
        /\ loc'.providerID = marked.providerID
        /\ loc'.deleting
    BY <2>1, <2>2, <2>3 DEF Finish, KvmRecord
  <2>. QED
    BY <1>0, <2>1, <2>2, <2>4, <2>5 DEF RInv, CopyOK
<1>5. CASE DeferredPatch
  <2>1. PICK o \in PatchOutcomes : kvm' = Patched(loc, o)
    BY <1>5 DEF DeferredPatch
  <2>2. StoreFin'
    BY <1>5, <2>1, OutcomeFacts, PatchKeepsRInv
    DEF DeferredPatch, RInv, TypeOK
  <2>3. pc' = "Idle"
    BY <1>5 DEF DeferredPatch
  <2>. QED
    BY <1>0, <2>2, <2>3 DEF RInv
<1>6. CASE Progress
  BY <1>0, <1>6, ProgressFrame DEF RInv, StoreFin, CopyOK
<1>7. CASE DeleteKubevirtMachine
  <2>1. UNCHANGED <<pc, loc>>
    BY <1>7 DEF DeleteKubevirtMachine, recVars
  <2>2. /\ kvm'.providerID = kvm.providerID
        /\ kvm.deleting => kvm'.deleting
        /\ kvm'.exists => kvm.exists
        /\ kvm'.deleting \/ ~kvm'.exists
    BY <1>7 DEF DeleteKubevirtMachine, RInv, TypeOK, KvmRecord
  <2>. QED
    BY <1>0, <2>1, <2>2 DEF RInv, StoreFin, CopyOK
<1>8. CASE Resync
  BY <1>0, <1>8 DEF Resync, recVars, RInv, StoreFin, CopyOK
<1>9. CASE UNCHANGED vars
  BY <1>0, <1>9 DEF vars, RInv, StoreFin, CopyOK
<1>. QED
  BY <1>1, <1>2, <1>3, <1>4, <1>5, <1>6, <1>7, <1>8, <1>9
  DEF Next, ReconcileStep

(* Every step of the reconciler is a step of the lifecycle or leaves the *)
(* phase alone.                                                          *)
LEMMA RefineStep == RInv /\ [Next]_vars => [Lifecycle!Next]_Phase
<1> SUFFICES ASSUME RInv, [Next]_vars PROVE [Lifecycle!Next]_Phase
  OBVIOUS
<1>1. CASE kvm' = kvm
  BY <1>1 DEF Phase
<1>2. CASE PatchBootstrapping
  <2>1. PICK o \in PatchOutcomes : kvm' = Patched(loc, o)
    BY <1>2 DEF PatchBootstrapping
  <2>. QED
    BY <1>2, <2>1, OutcomeFacts, PatchPhase
    DEF PatchBootstrapping, RInv, TypeOK, CopyOK
<1>3. CASE ReconcileDelete
  <2> DEFINE marked == [loc EXCEPT !.vmProv = "Deleting"]
  <2>1. marked \in KvmRecord /\ marked.providerID = loc.providerID
    BY DEF RInv, TypeOK, KvmRecord, VMProvisionedValues
  <2>2. PICK o \in PatchOutcomes : kvm' = Patched(marked, o)
    BY <1>3 DEF ReconcileDelete
  <2>. QED
    BY <1>3, <2>1, <2>2, OutcomeFacts, PatchPhase
    DEF ReconcileDelete, RInv, TypeOK, CopyOK
<1>4. CASE DeferredPatch
  <2>1. PICK o \in PatchOutcomes : kvm' = Patched(loc, o)
    BY <1>4 DEF DeferredPatch
  <2>. QED
    BY <1>4, <2>1, OutcomeFacts, PatchPhase
    DEF DeferredPatch, RInv, TypeOK, CopyOK
<1>5. CASE DeleteKubevirtMachine
  <2>1. Phase \in {"Pending", "Provisioned"}
    BY <1>5 DEF DeleteKubevirtMachine, Phase
  <2>2. CASE kvm.finalizer
    <3>1. Phase' = "Deleting"
      BY <1>5, <2>2 DEF DeleteKubevirtMachine, Phase, RInv, TypeOK, KvmRecord
    <3>. QED
      BY <2>1, <3>1 DEF Lifecycle!Next, Lifecycle!RequestDelete
  <2>3. CASE ~kvm.finalizer
    <3>1. Phase = "Pending"
      BY <1>5, <2>3 DEF DeleteKubevirtMachine, Phase, RInv, StoreFin
    <3>2. Phase' = "Gone"
      BY <1>5, <2>3 DEF DeleteKubevirtMachine, Phase, RInv, TypeOK, KvmRecord
    <3>. QED
      BY <3>1, <3>2 DEF Lifecycle!Next, Lifecycle!RequestDelete
  <2>. QED
    BY <2>2, <2>3
<1>6. CASE ~PatchBootstrapping /\ ~ReconcileDelete /\ ~DeferredPatch
           /\ ~DeleteKubevirtMachine
  <2>1. kvm' = kvm
    <3>1. CASE Reconcile
      BY <3>1 DEF Reconcile
    <3>2. CASE FetchSSHKeys \/ ReconcileBootstrapSecret \/ ProvisionVM
               \/ WaitBootstrap \/ SetProviderID
      BY <3>2, NormalStepCopy
    <3>3. CASE Progress
      BY <3>3, ProgressFrame
    <3>4. CASE Resync
      BY <3>4 DEF Resync
    <3>5. CASE UNCHANGED vars
      BY <3>5 DEF vars
    <3>. QED
      BY <1>6, <3>1, <3>2, <3>3, <3>4, <3>5 DEF Next, ReconcileStep
  <2>. QED
    BY <1>1, <2>1
<1>. QED
  BY <1>2, <1>3, <1>4, <1>5, <1>6

(* The reconciler implements the safety part of the machine lifecycle:  *)
(* starting Pending, the phase read off the stored object only moves    *)
(* forward, a stored provider ID is never lost by a patch written from  *)
(* a stale or partial copy, and a provisioned machine is purged only    *)
(* through Deleting (lines 131-138, 140-144, 313-329).                   *)
THEOREM RefinesLifecycle == Spec => Lifecycle!SafetySpec
<1>1. Init => Lifecycle!Init
  BY DEF Init, NewKvm, Phase, Lifecycle!Init
<1>2. Spec => []RInv
  BY RInvInit, RInvStep, PTL DEF Spec
<1>. QED
  BY <1>1, <1>2, RefineStep, PTL DEF Spec, Lifecycle!SafetySpec

====
