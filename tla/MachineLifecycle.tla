-------------------------- MODULE MachineLifecycle --------------------------
(***************************************************************************)
(* What a KubevirtMachine promises its users, in four phases.  A machine *)
(* starts Pending; it becomes Provisioned when its provider ID is set;    *)
(* deleting it moves it to Deleting and finally Gone.  An object that    *)
(* never got the protection of a finalizer may vanish at once, but only  *)
(* while nothing was provisioned for it: a Provisioned machine always    *)
(* goes through Deleting, the phase in which its teardown runs.  The     *)
(* phases only move forward.                                             *)
(***************************************************************************)
VARIABLE phase

Phases == {"Pending", "Provisioned", "Deleting", "Gone"}

TypeOK == phase \in Phases

Init == phase = "Pending"

\* The provider ID is set: the machine is a node of the workload cluster.
Provision ==
    /\ phase = "Pending"
    /\ phase' = "Provisioned"

\* The user deletes the machine.
RequestDelete ==
    \/ phase = "Pending" /\ phase' \in {"Deleting", "Gone"}
    \/ phase = "Provisioned" /\ phase' = "Deleting"

\* The teardown ends and the object leaves the API server.
Purge ==
    /\ phase = "Deleting"
    /\ phase' = "Gone"

Next == Provision \/ RequestDelete \/ Purge

SafetySpec == Init /\ [][Next]_phase

(* A machine that is not deleted is eventually provisioned, and a deleted *)
(* one eventually disappears; nobody is obliged to delete.               *)
Spec == SafetySpec /\ WF_phase(Provision) /\ WF_phase(Purge)
=============================================================================
