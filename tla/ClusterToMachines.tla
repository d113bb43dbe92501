------------------------- MODULE ClusterToMachines -------------------------
(***************************************************************************)
(* The KubevirtCluster watch of the KubevirtMachine controller (lines    *)
(* 346-349) and its map function KubevirtClusterToKubevirtMachines       *)
(* (lines 361-392).  A change of the KubevirtCluster is turned into      *)
(* requests for the KubevirtMachines of the cluster that owns it: the    *)
(* owner Cluster is looked up, the Machines labelled with its name are   *)
(* listed, and one request is built per Machine that has an              *)
(* infrastructure reference.  A map function cannot return an error: a   *)
(* failed lookup or list drops the event.                                *)
(***************************************************************************)
EXTENDS Naturals

CONSTANTS
    Machines,         \* names of Machine objects
    InfraNames,       \* names of KubevirtMachine objects
    Clusters,         \* names of Cluster objects
    NoRef,            \* an empty Spec.InfrastructureRef.Name
    MachineCluster,   \* the cluster label of each Machine
    MachineInfraRef,  \* Spec.InfrastructureRef.Name of each Machine
    OwnerCluster,     \* the Cluster that owns the KubevirtCluster
    MaxFaults,        \* bound on failed lookups and lists
    NoOwner           \* no owner reference set yet

\* What every instance satisfies; the proofs take it as their hypothesis.
MapperAssumption ==
    /\ NoRef \notin InfraNames
    /\ MachineCluster \in [Machines -> Clusters]
    /\ MachineInfraRef \in [Machines -> InfraNames \cup {NoRef}]
    /\ OwnerCluster \in Clusters
    /\ MaxFaults \in Nat
    /\ NoOwner \notin Clusters

VARIABLES
    created,   \* the Machines that exist
    kvcOwner,  \* the owner reference of the KubevirtCluster, or NoOwner
    gen,       \* flips on every change of the KubevirtCluster
    queue,     \* names with a request in the workqueue
    faults

vars == <<created, kvcOwner, gen, queue, faults>>

TypeOK ==
    /\ created \subseteq Machines
    /\ kvcOwner \in Clusters \cup {NoOwner}
    /\ gen \in BOOLEAN
    /\ queue \subseteq Machines \cup InfraNames
    /\ faults \in 0..MaxFaults

Init ==
    /\ created = {}
    /\ kvcOwner = NoOwner
    /\ gen = FALSE
    /\ queue = {}
    /\ faults = 0

(***************************************************************************)
(* KubevirtClusterToKubevirtMachines, lines 363-392, when the owner      *)
(* lookup and the list succeed: no owner Cluster yet gives no request;   *)
(* otherwise every listed Machine of the cluster with an infrastructure  *)
(* reference gives a request named after the Machine (line 387).         *)
(***************************************************************************)
KubevirtClusterToKubevirtMachines ==
    IF kvcOwner = NoOwner THEN {}
    ELSE {m \in created : /\ MachineCluster[m] = kvcOwner
                          /\ MachineInfraRef[m] # NoRef}

(***************************************************************************)
(* The watch of lines 346-349: a change of the KubevirtCluster enqueues  *)
(* the mapped requests, or nothing when the lookup of line 370 or the    *)
(* list of line 380 fails (lines 372-375, 380-382).                      *)
(***************************************************************************)
KubevirtClusterChanged ==
    /\ gen' = ~gen
    /\ \/ /\ queue' = queue \cup KubevirtClusterToKubevirtMachines
          /\ UNCHANGED faults
       \/ /\ kvcOwner # NoOwner /\ faults < MaxFaults
          /\ faults' = faults + 1
          /\ UNCHANGED queue
    /\ UNCHANGED <<created, kvcOwner>>

\* The machine controllers create a Machine.
CreateMachine ==
    /\ \E m \in Machines \ created : created' = created \cup {m}
    /\ UNCHANGED <<kvcOwner, gen, queue, faults>>

\* The Cluster controller sets itself as the KubevirtCluster's owner.
SetClusterOwner ==
    /\ kvcOwner = NoOwner
    /\ kvcOwner' = OwnerCluster
    /\ UNCHANGED <<created, gen, queue, faults>>

\* A worker takes a request off the queue.
Dispatch ==
    /\ \E n \in queue : queue' = queue \ {n}
    /\ UNCHANGED <<created, kvcOwner, gen, faults>>

Next ==
    \/ KubevirtClusterChanged
    \/ CreateMachine
    \/ SetClusterOwner
    \/ Dispatch

Spec == Init /\ [][Next]_vars

-----------------------------------------------------------------------------
\* The KubevirtMachines that depend on the KubevirtCluster.
Dependents ==
    {MachineInfraRef[m] :
        m \in {m \in created : /\ kvcOwner # NoOwner
                               /\ MachineCluster[m] = kvcOwner
                               /\ MachineInfraRef[m] # NoRef}}

(* Every change of the KubevirtCluster re-triggers the reconciliation of  *)
(* every KubevirtMachine of its cluster (the purpose the watch of lines   *)
(* 346-349 serves): after the step, each of them has a request queued.    *)
EveryDependentRequested ==
    [][gen' # gen => Dependents \subseteq queue']_vars
====
