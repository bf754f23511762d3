----------------------------- MODULE MCVmQuery -----------------------------
(* An instance of VmQuery for TLC: one query beside one other command. *)
EXTENDS VmQuery

CONSTANTS web, web2, p1

\* podvirt-web is part of podvirt-web2, not the other way round.
MCMatches == [v \in VMs |-> IF v = web THEN VMs ELSE {v}]
=============================================================================
