----------------------- MODULE ClusterToMachines_proofs -----------------------
(***************************************************************************)
(* Proofs about the KubevirtCluster watch and its map function, for every *)
(* set of Machines, clusters and names that MapperAssumption allows; each *)
(* result takes MapperAssumption as its hypothesis.                       *)
(***************************************************************************)
EXTENDS ClusterToMachines, TLAPS

(***************************************************************************)
(* The inductive invariant: the queue holds only what the map function   *)
(* would return now.  The map's result only grows (Machines are created, *)
(* the owner is set once), and before the owner is set it is empty.      *)
(***************************************************************************)
QueueMapped ==
    /\ TypeOK
    /\ queue \subseteq KubevirtClusterToKubevirtMachines

(* Only names the map function of lines 363-392 can return are queued.   *)
LEMMA QueueMappedInit ==
    ASSUME MapperAssumption PROVE Init => QueueMapped
<1> SUFFICES ASSUME Init PROVE QueueMapped
  OBVIOUS
<1> USE DEF MapperAssumption
<1>1. faults \in 0..MaxFaults
  BY DEF Init
<1>2. created \subseteq Machines /\ queue \subseteq Machines \cup InfraNames
  BY DEF Init
<1>3. kvcOwner \in Clusters \cup {NoOwner} /\ gen \in BOOLEAN
  BY DEF Init
<1>4. queue \subseteq KubevirtClusterToKubevirtMachines
  BY DEF Init
<1>. QED
  BY <1>1, <1>2, <1>3, <1>4 DEF QueueMapped, TypeOK

(* Once set, the owner stays; a Machine once created stays: the mapped    *)
(* set of the next state contains the mapped set of this one.             *)
LEMMA MappedGrows ==
    ASSUME MapperAssumption, TypeOK, [Next]_vars, kvcOwner # NoOwner
    PROVE  KubevirtClusterToKubevirtMachines
             \subseteq KubevirtClusterToKubevirtMachines'
<1>1. kvcOwner' = kvcOwner /\ created \subseteq created'
  BY DEF Next, vars, KubevirtClusterChanged, CreateMachine, SetClusterOwner,
         Dispatch
<1>. QED
  BY <1>1 DEF KubevirtClusterToKubevirtMachines

(* Every step keeps the queue within the mapped set.                     *)
LEMMA QueueMappedStep ==
    ASSUME MapperAssumption PROVE QueueMapped /\ [Next]_vars => QueueMapped'
<1> SUFFICES ASSUME QueueMapped, [Next]_vars PROVE QueueMapped'
  OBVIOUS
<1> USE DEF QueueMapped, TypeOK, MapperAssumption
<1>1. CASE KubevirtClusterChanged
  <2>1. UNCHANGED <<created, kvcOwner>>
    BY <1>1 DEF KubevirtClusterChanged
  <2>2. queue' \subseteq queue \cup KubevirtClusterToKubevirtMachines
    BY <1>1 DEF KubevirtClusterChanged
  <2>3. faults' \in 0..MaxFaults
    BY <1>1 DEF KubevirtClusterChanged
  <2>4. KubevirtClusterToKubevirtMachines' = KubevirtClusterToKubevirtMachines
    BY <2>1 DEF KubevirtClusterToKubevirtMachines
  <2>5. KubevirtClusterToKubevirtMachines \subseteq Machines
    BY DEF KubevirtClusterToKubevirtMachines
  <2>. QED
    BY <1>1, <2>1, <2>2, <2>3, <2>4, <2>5 DEF KubevirtClusterChanged
<1>2. CASE CreateMachine
  <2>1. CASE kvcOwner = NoOwner
    BY <1>2, <2>1 DEF CreateMachine, KubevirtClusterToKubevirtMachines
  <2>2. CASE kvcOwner # NoOwner
    BY <1>2, <2>2, MappedGrows DEF CreateMachine
  <2>. QED
    BY <2>1, <2>2
<1>3. CASE SetClusterOwner
  BY <1>3 DEF SetClusterOwner, KubevirtClusterToKubevirtMachines
<1>4. CASE Dispatch
  <2>1. queue' \subseteq queue /\ UNCHANGED <<created, kvcOwner, gen, faults>>
    BY <1>4 DEF Dispatch
  <2>. QED
    BY <2>1 DEF KubevirtClusterToKubevirtMachines
<1>5. CASE UNCHANGED vars
  BY <1>5 DEF vars, KubevirtClusterToKubevirtMachines
<1>. QED
  BY <1>1, <1>2, <1>3, <1>4, <1>5 DEF Next

(* Whatever the names, the KubevirtCluster watch queues only the names of *)
(* Machines of the owner cluster that have an infrastructure reference   *)
(* (lines 378-389), and nothing before the owner is set (lines 370-376). *)
THEOREM QueueOnlyMapped ==
    ASSUME MapperAssumption PROVE Spec => []QueueMapped
BY QueueMappedInit, QueueMappedStep, PTL DEF Spec
====
