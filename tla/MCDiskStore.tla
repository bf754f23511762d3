---------------------------- MODULE MCDiskStore ----------------------------
(* Instances of DiskStore for TLC. *)
EXTENDS DiskStore, TLC

CONSTANTS fedora, ubuntu, alpine, busybox

\* Four kinds of images: a qcow2 file under the name disk.img, a disk.qcow2,
\* a raw disk.img, and one that is no container disk.
MCShips ==
    LET all == fedora :> "qcow2 disk.img" @@ ubuntu :> "disk.qcow2"
               @@ alpine :> "raw disk.img" @@ busybox :> "nothing"
    IN  [m \in Images |-> all[m]]

MCKey == [m \in Images |-> m]

Symmetry == Permutations(VMs)

CleanOnly == {"clean"}
CopyOnly == {"cp"}
=============================================================================
