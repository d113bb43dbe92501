------------------------ MODULE MC_ClusterToMachines ------------------------
(***************************************************************************)
(* Two clusters; Machines of the owner cluster, one of them without an  *)
(* infrastructure reference yet, and one Machine of the other cluster.  *)
(* MCOwn...: the names differ, as when both are stamped from templates.*)
(***************************************************************************)
EXTENDS ClusterToMachines, TLC

CONSTANTS m1, m2, m3, m4, k1, k2, k3, c1, c2, none

MCClusters == {c1, c2}
MCMachineCluster == (m1 :> c1) @@ (m2 :> c1) @@ (m3 :> c2) @@ (m4 :> c1)


MCOwnMachines == {m1, m2, m3, m4}
MCOwnInfraNames == {k1, k2, k3}
MCOwnInfraRef == (m1 :> k1) @@ (m2 :> none) @@ (m3 :> k3) @@ (m4 :> k2)

MCNoFaults == 0
====
