------------------------- MODULE MC_KubevirtMachine -------------------------
(***************************************************************************)
(* Model-checking instance of KubevirtMachine: a worker machine whose     *)
(* KubevirtMachine name differs from its Machine's (the usual case for    *)
(* machines stamped from templates), and a small fault budget.           *)
(***************************************************************************)
EXTENDS KubevirtMachine

MCIsControlPlane == FALSE
MCIndexHitsMachine == FALSE
MCMaxFaults == 2
====
