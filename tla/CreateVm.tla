------------------------------ MODULE CreateVm ------------------------------
(***************************************************************************)
(* runCreate (cmd/create.go) from the flags and the file to the container: *)
(* one action per call, with what it does to the configuration.  A call on *)
(* the host succeeds or fails as a whole here; DiskStore has its steps and *)
(* what else goes on meanwhile, VmLifecycle the commands beside it.        *)
(***************************************************************************)
EXTENDS Vmi, QemuWrapper, FiniteSets

CONSTANTS
    Inputs   \* [file, opts, home]: the configuration file, the flags and
             \* the first key found in ~/.ssh, as a set

\* A path in the file is one of the user's, and only a cloudInit section
\* sets its fields.
FileSpec ==
    {v \in VMSpec :
        /\ \A d \in DOMAIN v.disks :
              v.disks[d].image = NoPath \/ v.disks[d].image.kind = "local"
        /\ ~v.cloudInit.set => v.cloudInit = NoCloudInit}
Input == [file : FileSpec, opts : Options, home : SUBSET Text]
ASSUME InputsAssumption == Inputs \subseteq Input

VARIABLES
    input,
    pc,
    vm,      \* the configuration so far
    at,      \* the next disk of a loop over the disks
    made,    \* the resized copies made: where the bytes come from, and the size
    ctr      \* the container, or none yet

vars == <<input, pc, vm, at, made, ctr>>
opts == input.opts

NoContainer == [name |-> ""]
Labels == {"load", "ports", "cloudinit", "size", "extract", "validate", "client",
           "exists", "image", "sized", "convert", "created", "err"}

Init ==
    /\ input \in Inputs
    /\ pc = "load"
    /\ vm = EmptyVM
    /\ at = 1
    /\ made = [d \in {} |-> 0]
    /\ ctr = NoContainer

Goto(l) == pc' = l
Fail == pc' = "err" /\ UNCHANGED vm
Disk == vm.disks[at]
SetDisk(disk) == vm' = [vm EXCEPT !.disks[at] = disk]

-----------------------------------------------------------------------------
(* The configuration *)

\* The file cannot be read or parsed; or there is none, and no name.
Load ==
    /\ pc = "load"
    /\ \/ (opts.config \/ opts.name = "") /\ Fail
       \/ /\ opts.config \/ opts.name # ""
          /\ vm' = LoadCreateVM(input.file, opts)
          /\ Goto("ports")
    /\ UNCHANGED <<input, at, made, ctr>>

\* A port that is not written hostPort:vmPort[/proto] is an error.
ApplyCreatePorts ==
    /\ pc = "ports"
    /\ \/ opts.ports # <<>> /\ Fail
       \/ /\ vm' = IF opts.ports = <<>> THEN vm
                   ELSE [vm EXCEPT !.networks = ApplyPortForwards(@, opts.ports)]
          /\ Goto("cloudinit")
    /\ UNCHANGED <<input, at, made, ctr>>

\* A key file that was named must be readable; without one, what is found
\* under ~/.ssh will do.
ApplyCloudInit ==
    /\ pc = "cloudinit"
    /\ \/ opts.keys # {} /\ Fail
       \/ /\ vm' = [vm EXCEPT !.cloudInit =
                       ApplyCloudInitFlags(@, opts, IF opts.keys = {} THEN input.home ELSE opts.keys)]
          /\ Goto("size")
    /\ UNCHANGED <<input, at, made, ctr>>

ApplyCreateDiskSize ==
    /\ pc = "size"
    /\ \/ opts.diskSize # NoQuantity /\ vm.disks = <<>> /\ Fail
       \/ opts.diskSize = NoQuantity /\ Goto("extract") /\ UNCHANGED vm
       \/ /\ opts.diskSize # NoQuantity /\ vm.disks # <<>>
          /\ vm' = [vm EXCEPT !.disks[1].size = opts.diskSize]
          /\ Goto("extract")
    /\ UNCHANGED <<input, at, made, ctr>>

\* Mutant: the loop runs over copies of the disks.
ExtractContainerDiskOfCopy ==
    /\ pc = "extract"
    /\ at <= Len(vm.disks)
    /\ \/ Disk.containerImage = "" /\ at' = at + 1 /\ UNCHANGED <<pc, vm>>
       \/ Disk.containerImage # "" /\ at' = at /\ Fail
       \/ /\ Disk.containerImage \in DOMAIN Images \ {""}
          /\ at' = at + 1
          /\ UNCHANGED <<pc, vm>>
    /\ UNCHANGED <<input, made, ctr>>

\* One turn of extractContainerDisks: the disk of an image is found in the
\* cache or extracted to it, and takes the place of any local path.  The
\* cached disk is named by its image reference; that two references may have
\* one cache directory (the directory's name is the reference with every "/",
\* ":" and "@" turned into "_") is the business of DiskStore, its Key.
ExtractContainerDisk ==
    /\ pc = "extract"
    /\ at <= Len(vm.disks)
    /\ \/ Disk.containerImage = "" /\ at' = at + 1 /\ UNCHANGED <<pc, vm>>
       \/ Disk.containerImage # "" /\ at' = at /\ Fail
       \/ /\ Disk.containerImage \in DOMAIN Images \ {""}
          /\ SetDisk([Disk EXCEPT !.image = CachedDisk(Disk.containerImage),
                                  !.containerImage = ""])
          /\ at' = at + 1
          /\ UNCHANGED pc
    /\ UNCHANGED <<input, made, ctr>>

ExtractionDone ==
    /\ pc = "extract" /\ at > Len(vm.disks)
    /\ at' = 1
    /\ Goto("validate")
    /\ UNCHANGED <<input, vm, made, ctr>>

Validate ==
    /\ pc = "validate"
    /\ Goto(IF Valid(vm) THEN "client" ELSE "err")
    /\ UNCHANGED <<input, vm, at, made, ctr>>

-----------------------------------------------------------------------------
(* The host *)

\* newPodmanClient, ExistsVM and EnsureImage; each may end the command.
Reach ==
    /\ \/ pc = "client" /\ pc' \in {"exists", "err"}
       \/ pc = "exists" /\ pc' \in {"image", "err"}
       \/ pc = "image" /\ pc' \in {"sized", "err"}
    /\ UNCHANGED <<input, vm, at, made, ctr>>

\* One turn of prepareSizedDisks: a disk with a size becomes a qcow2 copy of
\* its image, enlarged; an earlier copy for a disk of that name goes.
PrepareSizedDisk ==
    LET bytes == ParseQuantityBytes(Disk.size)
    IN  /\ pc = "sized"
        /\ at <= Len(vm.disks)
        /\ \/ Disk.size = NoQuantity /\ at' = at + 1 /\ UNCHANGED <<pc, vm, made>>
           \/ Disk.size # NoQuantity /\ at' = at /\ Fail /\ UNCHANGED made
           \/ /\ Disk.size # NoQuantity
              /\ Disk.image # NoPath
              /\ bytes >= Attributes(Disk.image).size
              /\ made' = [d \in DOMAIN made \cup {Disk.name} |->
                            IF d = Disk.name THEN [from |-> Disk.image, bytes |-> bytes]
                            ELSE made[d]]
              /\ SetDisk([Disk EXCEPT !.image = SizedDisk(Disk.name)])
              /\ at' = at + 1
              /\ UNCHANGED pc
        /\ UNCHANGED <<input, ctr>>

SizedDisksDone ==
    /\ pc = "sized" /\ at > Len(vm.disks)
    /\ at' = 1
    /\ Goto("convert")
    /\ UNCHANGED <<input, vm, made, ctr>>

\* ToVMI fails on a disk without a source; CreateVM may fail.
ConvertAndCreateVM ==
    /\ pc = "convert"
    /\ \/ Goto("err") /\ UNCHANGED ctr
       \/ /\ \A d \in DOMAIN vm.disks : vm.disks[d].image # NoPath
          /\ ctr' = ContainerSpec(vm.name, ToVMI(vm))
          /\ Goto("created")
    /\ UNCHANGED <<input, vm, at, made>>

Next ==
    \/ Load \/ ApplyCreatePorts \/ ApplyCloudInit \/ ApplyCreateDiskSize
    \/ ExtractContainerDisk \/ ExtractionDone \/ Validate \/ Reach
    \/ PrepareSizedDisk \/ SizedDisksDone \/ ConvertAndCreateVM

Spec == Init /\ [][Next]_vars

-----------------------------------------------------------------------------
(* Properties *)

\* The types of the state.
TypeOK ==
    /\ input \in Input
    /\ pc \in Labels
    /\ vm \in VMSpec
    /\ at \in Nat \ {0}
    /\ \A d \in DOMAIN made : made[d] \in [from : Path, bytes : Nat]
    /\ pc = "created" <=> ctr # NoContainer

\* The labels past Validate.
Accepted == {"client", "exists", "image", "sized", "convert", "created"}

\* Once Validate has let a configuration pass, the checks behind it never
\* fail: every disk has a path and no image left to extract, a disk to be
\* resized is a file to copy, and no disk "has no source" for ToVMI.
Convertible ==
    pc \in Accepted =>
        \A d \in DOMAIN vm.disks : /\ vm.disks[d].image # NoPath
                                   /\ vm.disks[d].containerImage = ""
                                   /\ vm.disks[d].name # ""

\* The inductive invariant: the disks of images are replaced one by one before
\* anything is checked, and a container is made of the final configuration.
CreateInv ==
    /\ TypeOK
    /\ pc \in {"load", "ports", "cloudinit", "size"} => at = 1
    /\ pc \in {"extract", "validate"} =>
          \A d \in DOMAIN vm.disks :
              d < at \/ pc = "validate" => vm.disks[d].containerImage = ""
    /\ Convertible
    /\ pc = "created" => ctr = ContainerSpec(vm.name, ToVMI(vm))

\* The file's part of what the user asked for.
FileDisks == IF opts.config THEN input.file.disks ELSE <<>>
FilePorts == IF opts.config THEN Forwards(input.file.networks) ELSE {}

\* Where the bytes of disk d come from, and where those of a disk of the input
\* should.
Origin(d) ==
    LET image == vm.disks[d].image
    IN  IF image.kind = "sized" THEN made[image.id].from ELSE image
\* The file gives a disk both sources, image and containerImage.  Validate and
\* the documentation refuse that, but the extraction comes first and clears
\* containerImage, so the code takes the image and drops the path; no property
\* below counts that as right or as wrong.
Ambiguous(disk) == disk.image # NoPath /\ disk.containerImage # ""
Source(disk) ==
    IF disk.containerImage = "" THEN disk.image ELSE CachedDisk(disk.containerImage)

DistinctNames ==
    \A d, e \in DOMAIN vm.disks : vm.disks[d].name = vm.disks[e].name => d = e
DistinctImages ==
    \A d, e \in DOMAIN vm.disks : vm.disks[d].image = vm.disks[e].image => d = e

\* The configuration as the file and the flags give it; its networks with the
\* ports of the flags, the keys of the flags, and the size of disk d.
Loaded == LoadCreateVM(input.file, opts)
Forwarded ==
    IF opts.ports = <<>> THEN Loaded.networks
    ELSE ApplyPortForwards(Loaded.networks, opts.ports)
FlagKeys == IF opts.keys = {} THEN input.home ELSE opts.keys
FinalSize(d) ==
    IF d = 1 /\ opts.diskSize # NoQuantity THEN opts.diskSize ELSE Loaded.disks[d].size

\* How far the loops over the disks are: the image of disk d has been
\* extracted, its resized copy has been made.
Fetched(d) == (pc = "extract" /\ d < at) \/ pc = "validate" \/ pc \in Accepted
Copied(d) ==
    /\ FinalSize(d) # NoQuantity
    /\ (pc = "sized" /\ d < at) \/ pc \in {"convert", "created"}

DiskFollows(d) ==
    LET disk == vm.disks[d]
        from == Loaded.disks[d]
    IN  /\ disk.name = from.name
        /\ disk.size = IF pc \in {"ports", "cloudinit", "size"} THEN from.size
                       ELSE FinalSize(d)
        /\ ~Fetched(d) => /\ disk.image = from.image
                          /\ disk.containerImage = from.containerImage
        /\ Fetched(d) /\ Copied(d) => disk.image = SizedDisk(from.name)
        /\ Fetched(d) /\ ~Copied(d) => /\ disk.image.kind # "sized"
                                       /\ ~Ambiguous(from) => disk.image = Source(from)

CopyFollows(d) ==
    LET from == Loaded.disks[d]
        copy == made[from.name]
    IN  Copied(d) => /\ from.name \in DOMAIN made
                     /\ ~Ambiguous(from) => copy.from = Source(from)
                     /\ copy.bytes = ParseQuantityBytes(FinalSize(d))
                     /\ copy.bytes >= Attributes(copy.from).size

\* At every step the configuration is what the file and the flags say, as far
\* as runCreate has come: nothing that one step has put in is lost or changed
\* by a later one.  A disk that the file gives both sources is left out as far
\* as its source goes: the documentation wants it refused, which the code does
\* not do.  (Two disks of one name share one resized copy.)
FollowsInput ==
    pc \notin {"load", "err"} =>
        /\ opts.config \/ opts.name # ""
        /\ vm.name = Loaded.name /\ vm.cores = Loaded.cores /\ vm.memory = Loaded.memory
        /\ vm.networks = IF pc = "ports" THEN Loaded.networks ELSE Forwarded
        /\ vm.cloudInit = IF pc \in {"ports", "cloudinit"} THEN Loaded.cloudInit
                          ELSE ApplyCloudInitFlags(Loaded.cloudInit, opts, FlagKeys)
        /\ DOMAIN vm.disks = DOMAIN Loaded.disks
        /\ \A d \in DOMAIN vm.disks : DiskFollows(d)
        /\ DistinctNames => \A d \in DOMAIN vm.disks : CopyFollows(d)
        /\ pc \in {"validate", "client", "exists", "image"} => at = 1
        /\ pc \in Accepted => \A i \in DOMAIN vm.networks : ValidNetwork(vm.networks[i])

\* A flag that was given wins over the file and one left alone does not; a
\* disk flag takes the place of at most one disk of the file, and --disk and
\* --image given together both end up as disks of the VM.  Not promised: a
\* --cpus that is not positive or does not fit uint32 (the conversion keeps its
\* low 32 bits, so 2^32 + n counts as n), a --memory that is empty (it counts as
\* not given), and the source of a disk that the file gives two.
FlagsTakePrecedence ==
    LET file == input.file
        given == (IF opts.disk = "" THEN {} ELSE {LocalFile(opts.disk)})
                 \cup (IF opts.image = "" THEN {} ELSE {CachedDisk(opts.image)})
    IN  pc = "created" /\ DistinctNames =>
            /\ ctr.name = Default(opts.name, file.name)
            /\ opts.config /\ ~opts.cpusChanged =>
                  ctr.vmi.cores = IF file.cores = 0 THEN 1 ELSE file.cores
            /\ opts.cpusChanged /\ opts.cpus \in 1..(Word32 - 1) =>
                  ctr.vmi.cores = opts.cpus
            /\ opts.config /\ ~opts.memoryChanged /\ file.memory # NoQuantity =>
                  ctr.vmi.memory = file.memory
            /\ opts.memoryChanged /\ opts.memory # NoQuantity =>
                  ctr.vmi.memory = opts.memory
            /\ given \subseteq {Origin(d) : d \in DOMAIN vm.disks}
            /\ Cardinality({d \in DOMAIN FileDisks :
                              /\ ~Ambiguous(FileDisks[d])
                              /\ Origin(d) # Source(FileDisks[d])})
                  <= Cardinality(given)

\* Every port forward of the file and of the flags reaches Podman as often as
\* it was asked for and with its own ports, which the conversion to uint16
\* must not change; none is invented.  (What becomes of them inside the
\* container is another matter: see UserNet in QemuWrapper.)
PortsKept ==
    LET Plain(pf) == [hostPort |-> pf.hostPort, containerPort |-> pf.vmPort,
                      protocol |-> Default(pf.protocol, "tcp")]
        FilePort(f) == Plain(input.file.networks[f[1]].ports[f[2]])
        Asked(m) == Cardinality({f \in FilePorts : FilePort(f) = m})
                    + Cardinality({j \in DOMAIN opts.ports : Plain(opts.ports[j]) = m})
        Mapped(m) == Cardinality({f \in DOMAIN ctr.ports : ctr.ports[f] = m})
    IN  pc = "created" =>
            \A m \in {FilePort(f) : f \in FilePorts}
                     \cup {Plain(opts.ports[j]) : j \in DOMAIN opts.ports}
                     \cup {ctr.ports[f] : f \in DOMAIN ctr.ports} :
                Mapped(m) = Asked(m)

\* The path that a volume of the VMI names is where exactly one mount puts a
\* file, and that file is the disk's own.  (Two disks with one name or one
\* image have no such promise: the mounts are a map, DiskOrCreate does the rest.)
VolumesMounted ==
    pc = "created" /\ DistinctNames /\ DistinctImages =>
        \A d \in DOMAIN vm.disks :
            {m \in ctr.mounts : m.destination = ctr.vmi.volumes[d]}
                = {[source |-> vm.disks[d].image, destination |-> ctr.vmi.volumes[d]]}

\* A file whose name does not mislead the wrapper.
Plainly(file) ==
    /\ ~file.spaced
    /\ file.magic => file.ext # "QCOW2"
    /\ ~file.magic => file.ext # "qcow2"

\* From the configuration to QEMU: on the command line that the wrapper makes
\* of libvirt's, disk d of the guest reads the file of disk d, through a qcow2
\* node iff that file is a qcow2 image; every node is defined once and before
\* it is used, and nothing of -sandbox is left.
GuestDisks ==
    LET File(d) == Attributes(vm.disks[d].image)
        args == Rewrite(LaunchArgs(ctr.vmi.volumes,
                                   [d \in DOMAIN vm.disks |-> File(d).spaced]))
        defs == {j \in DOMAIN args : After(args, j, "-blockdev")}
        uses == {j \in DOMAIN args : After(args, j, "-device")}
        Reads(j, d) ==
            \E f \in defs :
                /\ f < j
                /\ args[f].text = "file" /\ args[f].disk = d
                /\ IF File(d).magic
                   THEN \E q \in defs : /\ f < q /\ q < j
                                        /\ args[q].text = "qcow2"
                                        /\ args[q].ref = args[f].node
                                        /\ args[j].ref = args[q].node
                   ELSE args[j].ref = args[f].node
    IN  pc = "created" /\ (\A d \in DOMAIN vm.disks : Plainly(File(d))) =>
            /\ \A d \in DOMAIN vm.disks : \E j \in uses : args[j].disk = d /\ Reads(j, d)
            /\ \A j, k \in defs : args[j].node = args[k].node => j = k
            /\ \A j \in DOMAIN args : args[j].text \notin {"-sandbox", "on"}

\* The size that --disk-size asks of the first disk, or the file of any.
AskedSize(d) ==
    IF d = 1 /\ opts.diskSize # NoQuantity THEN opts.diskSize
    ELSE IF d \in DOMAIN FileDisks THEN FileDisks[d].size ELSE NoQuantity

\* A disk with a size is a copy, never smaller than what it is copied from, and
\* one without is no copy.  The copy has exactly the bytes asked for, unless
\* number times suffix goes beyond uint64: the parser does not see that product
\* wrap around, and promises nothing then.  Disks of one name are left out, they
\* share one copy.
SizeAsAsked ==
    pc = "created" /\ DistinctNames =>
        \A d \in DOMAIN vm.disks :
            LET bytes == AskedSize(d).num * Multiplier[AskedSize(d).suffix]
            IN  IF AskedSize(d) = NoQuantity THEN vm.disks[d].image.kind # "sized"
                ELSE /\ vm.disks[d].image = SizedDisk(vm.disks[d].name)
                     /\ bytes < Word64 => made[vm.disks[d].name].bytes = bytes
                     /\ made[vm.disks[d].name].bytes >= Attributes(Origin(d)).size

\* What ssh will use later is what the guest is told: the label with the user
\* is that of the user data, no key of the file or of the flags is lost, and
\* whoever has a key label has a key.  --user and --password win when there is
\* a key or a password.
LoginAsAsked ==
    LET login == ctr.vmi.userData
        flagKeys == IF opts.keys = {} THEN input.home ELSE opts.keys
        fileKeys == IF opts.config THEN input.file.cloudInit.keys ELSE {}
        changed == flagKeys # {} \/ opts.password # ""
    IN  pc = "created" =>
            /\ ctr.sshUser = IF login.set THEN login.user ELSE ""
            /\ ctr.sshKeys <=> login.keys # {}
            /\ login.keys = flagKeys \cup fileKeys
            /\ opts.password # "" => login.password = opts.password
            /\ changed /\ opts.user # "" => login.user = opts.user
            /\ login.set <=> changed \/ (opts.config /\ input.file.cloudInit.set)
=============================================================================
