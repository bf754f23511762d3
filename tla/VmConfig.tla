------------------------------ MODULE VmConfig ------------------------------
(***************************************************************************)
(* The configuration of a VM (pkg/config) and what the flags of create do  *)
(* to it (cmd/create.go): types, defaults, merging, quantities and the     *)
(* checks of Validate, as operators over records.  A field that is only    *)
(* carried along (bus, boot, sockets, threads, names of networks) or never *)
(* read again (console) is left out.                                       *)
(***************************************************************************)
EXTENDS Integers, Sequences

CONSTANTS
    Text,         \* the strings of files and flags
    Word32,       \* number of values of a uint32
    Word64,       \* number of values of a uint64
    Multiplier,   \* what each suffix of a quantity multiplies by
    ValidNames,   \* the names that are DNS labels
    LocalFiles,   \* disk images of the user: [base, ext, spaced, magic, size]
    Images        \* containerdisk images: [magic, size] of the disk in each

\* A file has a name (base and ext: "qcow2", "QCOW2" or another; spaced: with a
\* space in it), begins with the qcow2 magic or not, and has a virtual size.
ASSUME WordAssumption == Word32 \in Nat \ {0} /\ Word64 \in Nat \ {0}
ASSUME TextAssumption ==
    {"", "masquerade", "disk0", "containerdisk", "podvirt"} \subseteq Text
ASSUME MultiplierAssumption ==
    /\ "Gi" \in DOMAIN Multiplier
    /\ \A s \in DOMAIN Multiplier : Multiplier[s] \in Nat \ {0}

-----------------------------------------------------------------------------
(* Types *)

\* Where a disk image lies: a file of the user, in the cache of a containerdisk
\* (id: the image), or a resized copy (id: the disk of this VM it was made for).
Path == [kind : {"none", "local", "cached", "sized"}, id : Text]
NoPath == [kind |-> "none", id |-> ""]
LocalFile(f) == [kind |-> "local", id |-> f]
CachedDisk(image) == [kind |-> "cached", id |-> image]
SizedDisk(disk) == [kind |-> "sized", id |-> disk]

\* num is 0 for a text that is not a positive number; no text is NoQuantity.
NoQuantity == [num |-> 0, suffix |-> "none"]
Quantity == [num : Nat, suffix : DOMAIN Multiplier] \cup {NoQuantity}
DefaultMemory == [num |-> 1, suffix |-> "Gi"]

DiskSpec == [name : Text, image : Path, containerImage : Text, size : Quantity]
PortForward == [hostPort : Int, vmPort : Int, protocol : Text]
NetworkSpec == [type : Text, ports : Seq(PortForward)]
CloudInitSpec == [set : BOOLEAN, user : Text, password : Text, keys : SUBSET Text]
VMSpec == [name : Text, cores : Nat, memory : Quantity, disks : Seq(DiskSpec),
           networks : Seq(NetworkSpec), cloudInit : CloudInitSpec]

\* The flags of create.  config: --config is given; a flag that was left alone
\* has its default, and the two flags with a default other than "" say so.
Options == [config : BOOLEAN, name : Text, cpus : Int, cpusChanged : BOOLEAN,
            memory : Quantity, memoryChanged : BOOLEAN, disk : Text, image : Text,
            diskSize : Quantity, ports : Seq(PortForward), keys : SUBSET Text,
            user : Text, password : Text]

NoCloudInit == [set |-> FALSE, user |-> "", password |-> "", keys |-> {}]
DefaultLogin == "podvirt"
EmptyVM == [name |-> "", cores |-> 0, memory |-> NoQuantity, disks |-> <<>>,
            networks |-> <<>>, cloudInit |-> NoCloudInit]

Default(text, fallback) == IF text = "" THEN fallback ELSE text
\* Mutant: a negative number stays one.
Unwrapped(n) == n
Uint32(n) == n % Word32

-----------------------------------------------------------------------------
(* Quantities *)

\* Not a positive number, or beyond what ParseUint takes.
Unparsable(q) == q.num = 0 \/ q.num >= Word64

\* The product is not checked: it wraps around.
ParseQuantityBytes(q) == (q.num * Multiplier[q.suffix]) % Word64

-----------------------------------------------------------------------------
(* Defaults, flags and files *)

ApplyDefaults(vm) ==
    [vm EXCEPT
        !.cores = IF vm.cores = 0 THEN 1 ELSE vm.cores,
        !.memory = IF vm.memory = NoQuantity THEN DefaultMemory ELSE vm.memory,
        !.networks = IF vm.networks = <<>> THEN <<[type |-> "masquerade", ports |-> <<>>]>>
                     ELSE vm.networks,
        !.cloudInit = IF ~vm.cloudInit.set THEN vm.cloudInit
                      ELSE [vm.cloudInit EXCEPT !.user = Default(@, DefaultLogin),
                                                !.password = Default(@, DefaultLogin)]]

\* Mutant: the size of the replaced disk is lost.
ReplaceFirstWhole(s, I, disk) ==
    IF I \cap DOMAIN s = {} THEN Append(s, disk)
    ELSE [i \in DOMAIN s |-> IF i \in I /\ \A j \in I \cap DOMAIN s : i <= j
                             THEN disk ELSE s[i]]

\* The first element of s at one of the places of I is replaced, which keeps
\* its size; without such a place the new disk comes last.
ReplaceFirst(s, I, disk) ==
    IF I \cap DOMAIN s = {} THEN Append(s, disk)
    ELSE [i \in DOMAIN s |-> IF i \in I /\ \A j \in I \cap DOMAIN s : i <= j
                             THEN [disk EXCEPT !.size = s[i].size] ELSE s[i]]

\* Mutant: the disk keeps the name from the file.
SetLocalDiskKeepingName(disks, path) ==
    LET I == {i \in DOMAIN disks : disks[i].image # NoPath}
    IN  IF path = "" THEN disks
        ELSE IF I = {} THEN Append(disks, [name |-> "disk0", image |-> LocalFile(path),
                                          containerImage |-> "", size |-> NoQuantity])
        ELSE [i \in DOMAIN disks |->
                IF i \in I /\ \A j \in I : i <= j
                THEN [disks[i] EXCEPT !.image = LocalFile(path), !.containerImage = ""]
                ELSE disks[i]]

SetLocalDisk(disks, path) ==
    IF path = "" THEN disks
    ELSE ReplaceFirst(disks, {i \in DOMAIN disks : disks[i].image # NoPath},
                      [name |-> "disk0", image |-> LocalFile(path),
                       containerImage |-> "", size |-> NoQuantity])

SetContainerDisk(disks, image) ==
    IF image = "" THEN disks
    ELSE ReplaceFirst(disks, {i \in DOMAIN disks : \/ disks[i].name = "containerdisk"
                                                   \/ disks[i].containerImage # ""},
                      [name |-> "containerdisk", image |-> NoPath,
                       containerImage |-> image, size |-> NoQuantity])

SetDisks(disks, o) == SetContainerDisk(SetLocalDisk(disks, o.disk), o.image)

LoadFromFlags(o) ==
    ApplyDefaults([EmptyVM EXCEPT
        !.name = o.name, !.cores = Uint32(o.cpus), !.memory = o.memory,
        !.disks = SetDisks(<<>>, o),
        !.networks = <<[type |-> "masquerade", ports |-> <<>>]>>])

CpusOverride(o) == IF o.cpusChanged THEN o.cpus ELSE 0
MemoryOverride(o) == IF o.memoryChanged THEN o.memory ELSE NoQuantity

\* A flag that was given wins, unless its value is that of one left alone.
MergeFlags(vm, o) ==
    [vm EXCEPT
        !.name = Default(o.name, @),
        !.memory = IF MemoryOverride(o) # NoQuantity THEN MemoryOverride(o) ELSE @,
        !.cores = IF CpusOverride(o) > 0 THEN Uint32(CpusOverride(o)) ELSE @,
        !.disks = SetDisks(@, o)]

LoadCreateVM(file, o) ==
    IF o.config THEN MergeFlags(ApplyDefaults(file), o) ELSE LoadFromFlags(o)

\* The ports go to the first masquerade network, or else to the first one,
\* which becomes one; no network is left without.
ApplyPortForwards(networks, pfs) ==
    LET masquerade == {i \in DOMAIN networks : networks[i].type = "masquerade"}
        gets == IF masquerade = {} THEN {1} ELSE masquerade
    IN  IF networks = <<>> THEN <<[type |-> "masquerade", ports |-> pfs]>>
        ELSE [i \in DOMAIN networks |->
                IF i \in gets /\ \A j \in gets : i <= j
                THEN [type |-> "masquerade", ports |-> networks[i].ports \o pfs]
                ELSE networks[i]]

\* Mutant: the keys of the flags replace those of the file.
ReplaceKeys(ci, o, keys) ==
    IF keys = {} /\ o.password = "" THEN ci
    ELSE [set |-> TRUE,
          keys |-> keys,
          password |-> Default(o.password, Default(ci.password, DefaultLogin)),
          user |-> Default(o.user, Default(ci.user, DefaultLogin))]

\* Without a key or a password nothing is done, and --user is not looked at.
ApplyCloudInitFlags(ci, o, keys) ==
    IF keys = {} /\ o.password = "" THEN ci
    ELSE [set |-> TRUE,
          keys |-> ci.keys \cup keys,
          password |-> Default(o.password, Default(ci.password, DefaultLogin)),
          user |-> Default(o.user, Default(ci.user, DefaultLogin))]

-----------------------------------------------------------------------------
(* Validate *)

\* Mutant: a disk without a source passes.
ValidDiskSourceless(d) ==
    /\ d.name # ""
    /\ d.image = NoPath \/ d.containerImage = ""
    /\ d.image.kind = "local" => d.image.id \in DOMAIN LocalFiles
    /\ d.size = NoQuantity \/ ~Unparsable(d.size)

ValidDisk(d) ==
    /\ d.name # ""
    /\ (d.image = NoPath) # (d.containerImage = "")
    /\ d.image.kind = "local" => d.image.id \in DOMAIN LocalFiles
    /\ d.size = NoQuantity \/ ~Unparsable(d.size)

MaxPort == 65535

\* Mutant: there is no upper bound.
PositivePort(p) == p > 0
ValidPort(p) == p \in 1..MaxPort

ValidNetwork(n) ==
    /\ n.type \in {"", "masquerade"}
    /\ \A i \in DOMAIN n.ports :
          /\ ValidPort(n.ports[i].hostPort)
          /\ ValidPort(n.ports[i].vmPort)
          /\ n.ports[i].protocol \in {"", "tcp", "udp"}

Valid(vm) ==
    /\ vm.name \in ValidNames
    /\ vm.cores \in 1..256
    /\ ~Unparsable(vm.memory)
    /\ \A i \in DOMAIN vm.disks : ValidDisk(vm.disks[i])
    /\ \A i \in DOMAIN vm.networks : ValidNetwork(vm.networks[i])
    /\ vm.cloudInit.set => vm.cloudInit.password # "" \/ vm.cloudInit.keys # {}
=============================================================================
