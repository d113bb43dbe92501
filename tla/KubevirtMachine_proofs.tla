------------------------ MODULE KubevirtMachine_proofs ------------------------
(***************************************************************************)
(* Proofs about the KubevirtMachine reconciliation, for every value of    *)
(* the constants that ConstantsAssumption allows.                         *)
(***************************************************************************)
EXTENDS KubevirtMachine, TLAPS

USE ConstantsAssumption

Outcome == [cond: BOOLEAN, spec: BOOLEAN, status: BOOLEAN]

(* Setting whether the object exists keeps it a KubevirtMachine record. *)
LEMMA ExistsUpdate ==
    ASSUME NEW r \in KvmRecord, NEW b \in BOOLEAN
    PROVE  [r EXCEPT !.exists = b] \in KvmRecord
BY DEF KvmRecord

(* Each call of the patch helper writes fields of KvmRecord with values  *)
(* of their types, so it keeps the object a KubevirtMachine record.      *)
LEMMA CondUpdate ==
    ASSUME NEW r \in KvmRecord, NEW l \in KvmRecord
    PROVE  [r EXCEPT !.vmProv = l.vmProv, !.bootExec = l.bootExec] \in KvmRecord
BY DEF KvmRecord

LEMMA SpecUpdate ==
    ASSUME NEW r \in KvmRecord, NEW l \in KvmRecord
    PROVE  [r EXCEPT !.finalizer = l.finalizer, !.providerID = l.providerID,
                     !.bootstrapped = l.bootstrapped] \in KvmRecord
BY DEF KvmRecord

LEMMA StatusUpdate ==
    ASSUME NEW r \in KvmRecord, NEW l \in KvmRecord
    PROVE  [r EXCEPT !.ready = l.ready, !.addresses = l.addresses] \in KvmRecord
BY DEF KvmRecord

(* The patch helper leaves a well-typed object whatever part of it fails. *)
LEMMA PatchedType ==
    ASSUME kvm \in KvmRecord,
           NEW l \in KvmRecord,
           NEW o \in Outcome
    PROVE  Patched(l, o) \in KvmRecord
<1> DEFINE c == IF o.cond
                  THEN [kvm EXCEPT !.vmProv = l.vmProv, !.bootExec = l.bootExec]
                  ELSE kvm
           s == IF o.spec
                  THEN [c EXCEPT !.finalizer = l.finalizer,
                                 !.providerID = l.providerID,
                                 !.bootstrapped = l.bootstrapped]
                  ELSE c
           gone == s.deleting /\ ~s.finalizer
           t == IF o.status /\ ~gone
                  THEN [s EXCEPT !.ready = l.ready, !.addresses = l.addresses]
                  ELSE s
<1>1. c \in KvmRecord
  BY CondUpdate
<1>2. s \in KvmRecord
  BY <1>1, SpecUpdate
<1>3. gone \in BOOLEAN
  BY <1>2 DEF KvmRecord
<1>4. t \in KvmRecord
  BY <1>2, StatusUpdate
<1>5. [t EXCEPT !.exists = ~gone] \in KvmRecord
  BY <1>3, <1>4, ExistsUpdate
<1>. QED
  BY <1>5 DEF Patched

(* A patch outcome is a triple of Booleans, and a failed call is only     *)
(* injected below the fault bound.                                        *)
LEMMA OutcomeFacts ==
    ASSUME faults \in 0..MaxFaults,
           NEW o \in PatchOutcomes
    PROVE  /\ o \in Outcome
           /\ FaultsAfter(o) \in 0..MaxFaults
BY DEF PatchOutcomes, FaultsAfter, AllSucceed, Outcome

(* The local copy stays a KubevirtMachine record through every step.      *)
LEMMA FinishType ==
    ASSUME NEW l \in KvmRecord, NEW r \in Results,
           Finish(l, r)
    PROVE  pc' \in Steps /\ loc' \in KvmRecord /\ res' \in Results
BY DEF Finish, Steps

(* The initial states are well typed.                                    *)
LEMMA TypeOKInit == Init => TypeOK
<1> SUFFICES ASSUME Init PROVE TypeOK
  OBVIOUS
<1>1. NewKvm \in KvmRecord
  BY DEF NewKvm, KvmRecord, VMProvisionedValues, BootstrapExecValues
<1>2. cluster \in [infraReady: BOOLEAN, cpInitialized: BOOLEAN]
  BY DEF Init
<1>3. vm \in [exists: BOOLEAN, booted: BOOLEAN, bootstrapped: BOOLEAN]
  BY DEF Init
<1>4. machine \in [owned: BOOLEAN, dataSecret: BOOLEAN]
  BY DEF Init
<1>5. faults \in 0..MaxFaults
  BY DEF Init
<1>6. kvm \in KvmRecord /\ loc \in KvmRecord
  BY <1>1 DEF Init
<1>7. pc \in Steps /\ res \in Results
  BY DEF Init, Steps, Results
<1>. QED
  BY <1>2, <1>3, <1>4, <1>5, <1>6, <1>7 DEF Init, TypeOK

(* Every step, of the reconciler or of its environment, keeps the types.  *)
LEMMA TypeOKStep == TypeOK /\ [Next]_vars => TypeOK'
<1> SUFFICES ASSUME TypeOK, [Next]_vars PROVE TypeOK'
  OBVIOUS
<1>. USE DEF TypeOK
<1>1. CASE Reconcile
  <2>1. ASSUME NEW k \in KvmRecord, ReconcileNormalStart(k)
        PROVE  pc' \in Steps /\ loc' \in KvmRecord /\ res' \in Results
    <3>1. [k EXCEPT !.ready = TRUE, !.vmProv = "True"] \in KvmRecord
      BY DEF KvmRecord, VMProvisionedValues
    <3>2. [k EXCEPT !.vmProv =
             IF ~IsControlPlane /\ ~cluster.cpInitialized
               THEN "WaitingForControlPlaneAvailable"
               ELSE "WaitingForBootstrapData"] \in KvmRecord
      BY DEF KvmRecord, VMProvisionedValues
    <3>. QED
      BY <2>1, <3>1, <3>2, FinishType DEF ReconcileNormalStart, Steps, Results
  <2>2. [kvm EXCEPT !.finalizer = TRUE] \in KvmRecord
    BY DEF KvmRecord
  <2>3. [kvm EXCEPT !.vmProv = "WaitingForClusterInfrastructure"] \in KvmRecord
    BY DEF KvmRecord, VMProvisionedValues
  <2>4. pc' \in Steps /\ loc' \in KvmRecord /\ res' \in Results
    <3>1. CASE ~Found /\ UNCHANGED recVars
      BY <3>1 DEF recVars
    <3>2. CASE Found /\ ~kvm.finalizer
               /\ Finish([kvm EXCEPT !.finalizer = TRUE], "Done")
      BY <3>2, <2>2, FinishType DEF Results
    <3>3. CASE Finish([kvm EXCEPT !.vmProv = "WaitingForClusterInfrastructure"], "Done")
      BY <3>3, <2>3, FinishType DEF Results
    <3>4. CASE pc' = "Delete" /\ loc' = kvm /\ res' = "None"
      BY <3>4 DEF Steps, Results
    <3>5. CASE ReconcileNormalStart(kvm)
      BY <3>5, <2>1
    <3>. QED
      BY <1>1, <3>1, <3>2, <3>3, <3>4, <3>5 DEF Reconcile
  <2>5. UNCHANGED <<kvm, envVars, userdata, vm, faults>> /\ queued' \in BOOLEAN
    BY <1>1 DEF Reconcile
  <2>. QED
    BY <2>4, <2>5 DEF envVars
<1>2. CASE FetchSSHKeys
  BY <1>2, FinishType DEF FetchSSHKeys, envVars, Steps, Results
<1>3. CASE ReconcileBootstrapSecret
  <2>1. [loc EXCEPT !.vmProv = "WaitingForBootstrapData"] \in KvmRecord
    BY DEF KvmRecord, VMProvisionedValues
  <2>2. pc' \in Steps /\ loc' \in KvmRecord /\ res' \in Results
    BY <1>3, <2>1, FinishType DEF ReconcileBootstrapSecret, Steps, Results
  <2>3. userdata' \in BOOLEAN /\ faults' \in 0..MaxFaults
    <3>1. CASE userdata' = userdata /\ faults' = faults
      BY <3>1
    <3>2. CASE userdata' = TRUE /\ faults' = faults
      BY <3>2
    <3>3. CASE userdata' = userdata /\ faults < MaxFaults /\ faults' = faults + 1
      BY <3>3
    <3>. QED
      BY <1>3, <3>1, <3>2, <3>3 DEF ReconcileBootstrapSecret
  <2>. QED
    BY <1>3, <2>2, <2>3 DEF ReconcileBootstrapSecret, envVars
<1>4. CASE ProvisionVM
  <2>1. [loc EXCEPT !.vmProv = "True",
                    !.bootExec = IF loc.bootExec = "Absent"
                                   THEN "Bootstrapping" ELSE @] \in KvmRecord
    BY DEF KvmRecord, VMProvisionedValues, BootstrapExecValues
  <2>2. pc' \in Steps /\ loc' \in KvmRecord /\ res' \in Results
    BY <1>4, <2>1, FinishType DEF ProvisionVM, Steps, Results
  <2>3. vm' \in [exists: BOOLEAN, booted: BOOLEAN, bootstrapped: BOOLEAN]
        /\ faults' \in 0..MaxFaults
    <3>1. CASE vm' = vm /\ faults' = faults
      BY <3>1
    <3>2. CASE vm' = [vm EXCEPT !.exists = TRUE] /\ faults' = faults
      BY <3>2
    <3>3. CASE vm' = vm /\ faults < MaxFaults /\ faults' = faults + 1
      BY <3>3
    <3>. QED
      BY <1>4, <3>1, <3>2, <3>3 DEF ProvisionVM
  <2>. QED
    BY <1>4, <2>2, <2>3 DEF ProvisionVM, envVars
<1>5. CASE PatchBootstrapping
  BY <1>5, PatchedType, OutcomeFacts, FinishType
  DEF PatchBootstrapping, envVars, Steps, Results
<1>6. CASE WaitBootstrap
  <2>1. [loc EXCEPT !.bootExec = "BootstrapFailed"] \in KvmRecord
    BY DEF KvmRecord, BootstrapExecValues
  <2>2. [loc EXCEPT !.bootstrapped = TRUE, !.bootExec = "True",
                    !.addresses = TRUE] \in KvmRecord
    BY DEF KvmRecord, BootstrapExecValues
  <2>. QED
    BY <1>6, <2>1, <2>2, FinishType DEF WaitBootstrap, envVars, Steps, Results
<1>7. CASE SetProviderID
  <2>1. [loc EXCEPT !.providerID = TRUE, !.ready = TRUE,
                    !.vmProv = "True"] \in KvmRecord
    BY DEF KvmRecord, VMProvisionedValues
  <2>. QED
    BY <1>7, <2>1, FinishType DEF SetProviderID, envVars, Steps, Results
<1>8. CASE ReconcileDelete
  <2> DEFINE marked == [loc EXCEPT !.vmProv = "Deleting"]
  <2>1. marked \in KvmRecord /\ [marked EXCEPT !.finalizer = FALSE] \in KvmRecord
    BY DEF KvmRecord, VMProvisionedValues
  <2>. QED
    BY <1>8, <2>1, PatchedType, OutcomeFacts, FinishType
    DEF ReconcileDelete, envVars, Steps, Results
<1>9. CASE DeferredPatch
  <2>1. NewKvm \in KvmRecord
    BY DEF NewKvm, KvmRecord, VMProvisionedValues, BootstrapExecValues
  <2>. QED
    BY <1>9, <2>1, PatchedType, OutcomeFacts
    DEF DeferredPatch, envVars, Steps, Results
<1>10. CASE Progress
  <2>1. CASE SetOwnerRef
    BY <2>1 DEF SetOwnerRef, envVars, recVars
  <2>2. CASE SetBootstrapData
    BY <2>2 DEF SetBootstrapData, envVars, recVars
  <2>3. CASE CreateKubevirtCluster
    BY <2>3 DEF CreateKubevirtCluster, envVars, recVars
  <2>4. CASE ClusterInfrastructureReady
    BY <2>4 DEF ClusterInfrastructureReady, envVars, recVars
  <2>5. CASE ControlPlaneInitialized
    BY <2>5 DEF ControlPlaneInitialized, envVars, recVars
  <2>6. CASE PersistSSHKeys
    BY <2>6 DEF PersistSSHKeys, envVars, recVars
  <2>7. CASE VMBoots
    BY <2>7 DEF VMBoots, envVars, recVars
  <2>8. CASE GuestBootstraps
    BY <2>8 DEF GuestBootstraps, envVars, recVars
  <2>9. CASE PublishKubeconfig
    BY <2>9 DEF PublishKubeconfig, envVars, recVars
  <2>10. CASE NodeRegisters
    BY <2>10 DEF NodeRegisters, envVars, recVars
  <2>. QED
    BY <1>10, <2>1, <2>2, <2>3, <2>4, <2>5, <2>6, <2>7, <2>8, <2>9, <2>10 DEF Progress
<1>11. CASE DeleteKubevirtMachine
  <2>1. kvm' \in KvmRecord
    BY <1>11, ExistsUpdate DEF DeleteKubevirtMachine, KvmRecord
  <2>. QED
    BY <1>11, <2>1 DEF DeleteKubevirtMachine, envVars, recVars
<1>12. CASE Resync
  BY <1>12 DEF Resync, envVars, recVars
<1>13. CASE UNCHANGED vars
  BY <1>13 DEF vars
<1>. QED
  BY <1>1, <1>2, <1>3, <1>4, <1>5, <1>6, <1>7, <1>8, <1>9, <1>10, <1>11,
     <1>12, <1>13 DEF Next, ReconcileStep

(* Every reachable state is well typed.                                   *)
THEOREM TypeCorrect == Spec => []TypeOK
BY TypeOKInit, TypeOKStep, PTL DEF Spec
-----------------------------------------------------------------------------
(***************************************************************************)
(* The sticky Bootstrapped flag and the provider ID.  The stored object   *)
(* is sound (StoreSound) only because the local copy it is patched from   *)
(* is sound too (LocalSound): the patch helper writes providerID and      *)
(* bootstrapped in the same metadata+spec call, so a partial patch takes  *)
(* both from the copy or neither.  SetProviderID relies on WaitBootstrap  *)
(* having set the local flag first.                                       *)
(***************************************************************************)
StoreSound ==
    /\ kvm.bootstrapped => vm.bootstrapped
    /\ kvm.providerID => kvm.bootstrapped /\ nodeUp

LocalSound ==
    /\ loc.bootstrapped => vm.bootstrapped
    /\ loc.providerID => loc.bootstrapped /\ nodeUp

IInv ==
    /\ TypeOK
    /\ StoreSound
    /\ LocalSound
    /\ pc = "ProviderID" => loc.bootstrapped

(* The metadata+spec call of the patch helper moves providerID and        *)
(* bootstrapped together: both keep the stored value or both take l's.    *)
LEMMA PatchedSpecFields ==
    ASSUME kvm \in KvmRecord,
           NEW l \in KvmRecord,
           NEW o \in Outcome
    PROVE  \/ /\ Patched(l, o).bootstrapped = kvm.bootstrapped
              /\ Patched(l, o).providerID = kvm.providerID
           \/ /\ Patched(l, o).bootstrapped = l.bootstrapped
              /\ Patched(l, o).providerID = l.providerID
BY DEF Patched, KvmRecord, Outcome

(* A patch from a sound copy leaves a sound store, whatever fails.        *)
LEMMA PatchKeepsStoreSound ==
    ASSUME kvm \in KvmRecord,
           NEW l \in KvmRecord,
           NEW o \in Outcome,
           StoreSound,
           l.bootstrapped => vm.bootstrapped,
           l.providerID => l.bootstrapped /\ nodeUp,
           kvm' = Patched(l, o), vm' = vm, nodeUp' = nodeUp
    PROVE  StoreSound'
BY PatchedSpecFields DEF StoreSound

THEOREM BootstrapFlagsSound == Spec => []BootstrapFlagsTruthful
<1>1. Init => IInv
  BY TypeOKInit DEF Init, IInv, StoreSound, LocalSound, NewKvm
<1>2. IInv /\ [Next]_vars => IInv'
  <2> SUFFICES ASSUME IInv, [Next]_vars PROVE IInv'
    OBVIOUS
  <2>. USE DEF IInv
  <2>0. TypeOK'
    BY TypeOKStep
  <2>1. CASE Reconcile
    <3>1. UNCHANGED <<kvm, vm, nodeUp>>
      BY <2>1 DEF Reconcile, envVars
    <3>2. StoreSound'
      BY <3>1 DEF StoreSound
    <3>3. /\ pc' # "ProviderID"
          /\ \/ loc' = loc
             \/ /\ loc'.bootstrapped = kvm.bootstrapped
                /\ loc'.providerID = kvm.providerID
      <4>1. CASE ~Found /\ UNCHANGED recVars
        BY <2>1, <4>1 DEF Reconcile, recVars
      <4>2. CASE Found /\ ~kvm.finalizer
                 /\ Finish([kvm EXCEPT !.finalizer = TRUE], "Done")
        BY <4>2 DEF Finish, TypeOK, KvmRecord
      <4>3. CASE Found /\ kvm.finalizer /\ ~cluster.infraReady
                 /\ Finish([kvm EXCEPT !.vmProv =
                              "WaitingForClusterInfrastructure"], "Done")
        BY <4>3 DEF Finish, TypeOK, KvmRecord
      <4>4. CASE Found /\ kvm.finalizer /\ cluster.infraReady /\ kvm.deleting
                 /\ pc' = "Delete" /\ loc' = kvm /\ res' = "None"
        BY <4>4
      <4>5. CASE Found /\ kvm.finalizer /\ cluster.infraReady /\ ~kvm.deleting
                 /\ ReconcileNormalStart(kvm)
        BY <4>5 DEF ReconcileNormalStart, Finish, TypeOK, KvmRecord
      <4>. QED
        BY <2>1, <4>1, <4>2, <4>3, <4>4, <4>5 DEF Reconcile
    <3>4. LocalSound'
      BY <3>1, <3>3 DEF LocalSound, StoreSound
    <3>. QED
      BY <2>0, <3>2, <3>3, <3>4
  <2>2. CASE FetchSSHKeys
    BY <2>2, <2>0 DEF FetchSSHKeys, Finish, StoreSound, LocalSound, envVars
  <2>3. CASE ReconcileBootstrapSecret
    BY <2>3, <2>0 DEF ReconcileBootstrapSecret, Finish, StoreSound,
                      LocalSound, envVars, TypeOK, KvmRecord
  <2>4. CASE ProvisionVM
    BY <2>4, <2>0 DEF ProvisionVM, Finish, StoreSound, LocalSound, envVars,
                      TypeOK, KvmRecord
  <2>5. CASE PatchBootstrapping
    <3>1. PICK o \in PatchOutcomes :
                /\ kvm' = Patched(loc, o)
                /\ IF PatchSucceeded(o)
                     THEN pc' = "Bootstrap" /\ UNCHANGED <<loc, res>>
                     ELSE Finish(loc, "Error")
      BY <2>5 DEF PatchBootstrapping
    <3>2. StoreSound'
      BY <2>5, <3>1, OutcomeFacts, PatchKeepsStoreSound
      DEF PatchBootstrapping, LocalSound, TypeOK, envVars
    <3>3. loc' = loc /\ pc' # "ProviderID"
      BY <3>1 DEF Finish
    <3>4. UNCHANGED <<vm, nodeUp>>
      BY <2>5 DEF PatchBootstrapping, envVars
    <3>5. LocalSound'
      BY <3>3, <3>4 DEF LocalSound
    <3>. QED
      BY <2>0, <3>2, <3>3, <3>5
  <2>6. CASE WaitBootstrap
    <3>1. UNCHANGED <<kvm, vm, nodeUp>>
      BY <2>6 DEF WaitBootstrap, envVars
    <3>2. StoreSound'
      BY <3>1 DEF StoreSound
    <3>3. LocalSound' /\ (pc' = "ProviderID" => loc'.bootstrapped)
      <4>1. CASE ~loc.bootstrapped /\ ~vm.bootstrapped
                 /\ Finish([loc EXCEPT !.bootExec = "BootstrapFailed"], "Requeue")
        BY <3>1, <4>1 DEF Finish, LocalSound, TypeOK, KvmRecord
      <4>2. CASE /\ loc.bootstrapped \/ vm.bootstrapped
                 /\ pc' = "ProviderID"
                 /\ loc' = [loc EXCEPT !.bootstrapped = TRUE, !.bootExec = "True",
                                       !.addresses = TRUE]
        <5>1. loc'.bootstrapped /\ loc'.providerID = loc.providerID
          BY <4>2 DEF TypeOK, KvmRecord
        <5>2. vm.bootstrapped
          BY <4>2 DEF LocalSound
        <5>. QED
          BY <3>1, <5>1, <5>2 DEF LocalSound
      <4>. QED
        BY <2>6, <4>1, <4>2 DEF WaitBootstrap
    <3>. QED
      BY <2>0, <3>2, <3>3
  <2>7. CASE SetProviderID
    <3>1. UNCHANGED <<kvm, vm, nodeUp>>
      BY <2>7 DEF SetProviderID, envVars
    <3>2. StoreSound'
      BY <3>1 DEF StoreSound
    <3>3. LocalSound' /\ (pc' = "ProviderID" => loc'.bootstrapped)
      <4>1. CASE ~kubeconfig /\ Finish(loc, "Requeue")
        BY <3>1, <4>1 DEF Finish, LocalSound
      <4>2. CASE kubeconfig /\ ~nodeUp /\ Finish(loc, "Requeue")
        BY <3>1, <4>2 DEF Finish, LocalSound
      <4>3. CASE kubeconfig /\ nodeUp
                 /\ Finish([loc EXCEPT !.providerID = TRUE, !.ready = TRUE,
                                       !.vmProv = "True"], "Done")
        <5>1. loc'.bootstrapped = loc.bootstrapped /\ loc'.providerID
              /\ pc' = "Patch"
          BY <4>3 DEF Finish, TypeOK, KvmRecord
        <5>2. loc.bootstrapped
          BY <2>7 DEF SetProviderID
        <5>. QED
          BY <3>1, <4>3, <5>1, <5>2 DEF LocalSound
      <4>. QED
        BY <2>7, <4>1, <4>2, <4>3 DEF SetProviderID
    <3>. QED
      BY <2>0, <3>2, <3>3
  <2>8. CASE ReconcileDelete
    <3> DEFINE marked == [loc EXCEPT !.vmProv = "Deleting"]
    <3>1. marked \in KvmRecord
          /\ marked.bootstrapped = loc.bootstrapped
          /\ marked.providerID = loc.providerID
      BY DEF TypeOK, KvmRecord, VMProvisionedValues
    <3>2. PICK o \in PatchOutcomes :
                /\ kvm' = Patched(marked, o)
                /\ IF PatchSucceeded(o)
                     THEN Finish([marked EXCEPT !.finalizer = FALSE], "Done")
                     ELSE Finish(marked, "Error")
      BY <2>8 DEF ReconcileDelete
    <3>3. StoreSound'
      BY <2>8, <3>1, <3>2, OutcomeFacts, PatchKeepsStoreSound
      DEF ReconcileDelete, LocalSound, TypeOK, envVars
    <3>4. LocalSound' /\ pc' # "ProviderID"
      BY <2>8, <3>1, <3>2 DEF ReconcileDelete, Finish, LocalSound, KvmRecord, envVars
    <3>. QED
      BY <2>0, <3>3, <3>4
  <2>9. CASE DeferredPatch
    <3>1. PICK o \in PatchOutcomes : kvm' = Patched(loc, o)
      BY <2>9 DEF DeferredPatch
    <3>2. StoreSound'
      BY <2>9, <3>1, OutcomeFacts, PatchKeepsStoreSound
      DEF DeferredPatch, LocalSound, TypeOK, envVars
    <3>3. loc' = NewKvm /\ pc' = "Idle"
      BY <2>9 DEF DeferredPatch
    <3>4. LocalSound'
      BY <3>3 DEF LocalSound, NewKvm
    <3>. QED
      BY <2>0, <3>2, <3>3, <3>4
  <2>10. CASE Progress
    <3>1. CASE SetOwnerRef
      BY <3>1, <2>0 DEF SetOwnerRef, StoreSound, LocalSound, envVars, recVars
    <3>2. CASE SetBootstrapData
      BY <3>2, <2>0 DEF SetBootstrapData, StoreSound, LocalSound, envVars, recVars
    <3>3. CASE CreateKubevirtCluster
      BY <3>3, <2>0 DEF CreateKubevirtCluster, StoreSound, LocalSound, envVars, recVars
    <3>4. CASE ClusterInfrastructureReady
      BY <3>4, <2>0 DEF ClusterInfrastructureReady, StoreSound, LocalSound, envVars, recVars
    <3>5. CASE ControlPlaneInitialized
      BY <3>5, <2>0 DEF ControlPlaneInitialized, StoreSound, LocalSound, envVars, recVars
    <3>6. CASE PersistSSHKeys
      BY <3>6, <2>0 DEF PersistSSHKeys, StoreSound, LocalSound, envVars, recVars
    <3>7. CASE VMBoots
      BY <3>7, <2>0 DEF VMBoots, StoreSound, LocalSound, envVars, recVars
    <3>8. CASE GuestBootstraps
      BY <3>8, <2>0 DEF GuestBootstraps, StoreSound, LocalSound, envVars, recVars
    <3>9. CASE PublishKubeconfig
      BY <3>9, <2>0 DEF PublishKubeconfig, StoreSound, LocalSound, envVars, recVars
    <3>10. CASE NodeRegisters
      BY <3>10, <2>0 DEF NodeRegisters, StoreSound, LocalSound, envVars, recVars
    <3>. QED
      BY <2>10, <3>1, <3>2, <3>3, <3>4, <3>5, <3>6, <3>7, <3>8, <3>9, <3>10 DEF Progress
  <2>11. CASE DeleteKubevirtMachine
    BY <2>11, <2>0 DEF DeleteKubevirtMachine, StoreSound, LocalSound,
                       envVars, recVars
  <2>12. CASE Resync
    BY <2>12, <2>0 DEF Resync, StoreSound, LocalSound, envVars, recVars
  <2>13. CASE UNCHANGED vars
    BY <2>13 DEF vars, StoreSound, LocalSound, TypeOK
  <2>. QED
    BY <2>1, <2>2, <2>3, <2>4, <2>5, <2>6, <2>7, <2>8, <2>9, <2>10, <2>11,
       <2>12, <2>13 DEF Next, ReconcileStep
<1>3. IInv => BootstrapFlagsTruthful
  BY DEF IInv, StoreSound, BootstrapFlagsTruthful
<1>. QED
  BY <1>1, <1>2, <1>3, PTL DEF Spec
====
