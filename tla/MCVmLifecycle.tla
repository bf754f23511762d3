--------------------------- MODULE MCVmLifecycle ---------------------------
(* Instances of VmLifecycle for TLC. *)
EXTENDS VmLifecycle, TLC

CONSTANTS web, web2, p1, p2

\* podvirt-web is part of podvirt-web2, not the other way round.
MCMatches == [v \in VMs |-> IF v = web THEN VMs ELSE {v}]

ProcSymmetry == Permutations(Procs)
=============================================================================
