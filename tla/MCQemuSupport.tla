--------------------------- MODULE MCQemuSupport ---------------------------
(* Instances of QemuSupport for TLC. *)
EXTENDS QemuSupport, TLC

\* Nothing distinguishes one VM name, image, inode or process from another.
Symmetry == Permutations(VMs) \cup Permutations(Images) \cup Permutations(Inodes)
            \cup Permutations(Procs)
=============================================================================
