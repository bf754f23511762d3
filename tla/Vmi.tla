-------------------------------- MODULE Vmi --------------------------------
(***************************************************************************)
(* From a validated configuration to what virt-launcher is given: the VMI  *)
(* (pkg/converter), and the container with its mounts, port mappings and   *)
(* labels (CreateVM of pkg/podman/container.go).  The mounts of the QEMU   *)
(* support directory are QemuSupport's.                                    *)
(***************************************************************************)
EXTENDS VmConfig

\* What the name and the contents of the file at a path are.  The cache keeps
\* a containerdisk under a name that tells its format; a resized copy is named
\* after its disk.  `spaced` is about the name of the user's file alone: names of
\* disks, which are part of the path of a resized copy and of every path inside
\* the container, are taken to have no space (Validate does not look).
Attributes(path) ==
    CASE path.kind = "local" -> LocalFiles[path.id]
      [] path.kind = "cached" ->
            [base |-> "disk", ext |-> IF Images[path.id].magic THEN "qcow2" ELSE "img",
             spaced |-> FALSE, magic |-> Images[path.id].magic, size |-> Images[path.id].size]
      [] OTHER -> [base |-> path.id, ext |-> "qcow2", spaced |-> FALSE,
                   magic |-> TRUE, size |-> 0]

\* Mutant: every name is kept.
KeptExtension(path) == Attributes(path).ext

\* The name inside the container tells a qcow2 image, in lower case unless the
\* file has that extension in another case already.
ContainerExtension(path) ==
    IF Attributes(path).magic /\ Attributes(path).ext \notin {"qcow2", "QCOW2"}
    THEN "qcow2" ELSE Attributes(path).ext

\* Mutant: the disks have no directories of their own.
FlatContainerPath(disk) ==
    [disk |-> "", base |-> Attributes(disk.image).base,
     ext |-> ContainerExtension(disk.image)]

\* filepath.Join of a fixed directory, the disk's name and a file name.  Join
\* cleans the path, so that names like "a/../b" would collide: names are taken to
\* be single path elements, and different names then give different paths.
ContainerPath(disk) ==
    [disk |-> disk.name, base |-> Attributes(disk.image).base,
     ext |-> ContainerExtension(disk.image)]

\* The mounts are a map keyed by the path on the host: of several disks of one
\* image the last one gets the mount.
HostMounts(disks) ==
    [path \in {disks[i].image : i \in DOMAIN disks} |->
        ContainerPath(disks[CHOOSE i \in DOMAIN disks :
            disks[i].image = path /\ \A j \in DOMAIN disks : disks[j].image = path => j <= i])]

\* The places of the port forwards, in order; the map of a function over them
\* stands for the list.
Forwards(networks) ==
    UNION {{<<i, j>> : j \in DOMAIN networks[i].ports} : i \in DOMAIN networks}

EffectiveLogin(text) == Default(text, DefaultLogin)

\* What cloud-init is told: never an empty user or password, and the keys.
BuildUserData(ci) ==
    [ci EXCEPT !.user = EffectiveLogin(@), !.password = EffectiveLogin(@)]

ToVMI(vm) ==
    [cores |-> vm.cores,
     memory |-> vm.memory,
     volumes |-> [i \in DOMAIN vm.disks |-> ContainerPath(vm.disks[i])],
     hostMounts |-> HostMounts(vm.disks),
     portForwards |-> [f \in Forwards(vm.networks) |-> vm.networks[f[1]].ports[f[2]]],
     userData |-> BuildUserData(vm.cloudInit),
     sshUser |-> IF vm.cloudInit.set THEN EffectiveLogin(vm.cloudInit.user) ELSE "",
     sshKeysConfigured |-> vm.cloudInit.set /\ vm.cloudInit.keys # {}]

\* Mutant: the two ports change places.
SwappedPortMapping(pf) ==
    [hostPort |-> pf.vmPort % 65536, containerPort |-> pf.hostPort % 65536,
     protocol |-> Default(pf.protocol, "tcp")]

PortMapping(pf) ==
    [hostPort |-> pf.hostPort % 65536, containerPort |-> pf.vmPort % 65536,
     protocol |-> Default(pf.protocol, "tcp")]

\* The container that CreateVM asks Podman for.
ContainerSpec(name, vmi) ==
    [name |-> name,
     vmi |-> vmi,
     mounts |-> {[source |-> path, destination |-> vmi.hostMounts[path]] :
                    path \in DOMAIN vmi.hostMounts},
     ports |-> [f \in DOMAIN vmi.portForwards |-> PortMapping(vmi.portForwards[f])],
     sshUser |-> vmi.sshUser,
     sshKeys |-> vmi.sshKeysConfigured]
=============================================================================
