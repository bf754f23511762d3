# podvirt in TLA+

podvirt runs virtual machines as Podman containers: a VM `web` is the container
`podvirt-web`, made from KubeVirt's virt-launcher image, and inside it the
libvirt domain `default_web`.  podvirt is a command-line program without a
daemon and without a state file.  What it knows it asks of the Podman service
and of `virsh` (run inside the container), call by call; what it leaves behind
is the containers and a cache directory, `~/.cache/podvirt`.  Nothing is locked.
So the questions worth asking are: what happens when commands overlap, when one
is interrupted, and when a call fails or its answer is lost.

## Inventory

| Component | State | Operations | Interacts with |
|---|---|---|---|
| Life cycle commands (`cmd/create.go`, `start.go`, `stop.go`, `delete.go`) | none but their locals: the name, flags, a deadline, an answer | `runCreate`, `runStart`, `runStop`, `runDelete` | Podman client, libvirt client, the user (prompt) |
| Podman client (`pkg/podman/container.go`, `client.go`, `image.go`) | the VM containers (in Podman) | `CreateVM`, `StartVM`, `StopVM`, `RemoveVM`, `InspectVM`, `ExistsVM`, `ListVMs`, `EnsureImage` | Podman service |
| QEMU support directory (`container.go`) | `qemu-support/` (wrapper, `qemu.conf`, `qemu-kvm-real` and its stamp), `qemu-caps/`, `libvirt-logs/`; mounted by every VM | `writeQemuSupport`, `libvirtLogsDir`, `ensureQemuBinary`, `restoreRuntimeSupport`, `buildMounts` | Podman (temporary container, archive), clean-cache |
| One-shot helpers (`pkg/podman/oneshot.go`) | a helper container, three channels | `RunOneShotContainer`, `collectContainerLogs` | Podman; called by create for `qemu-img` |
| libvirt client (`pkg/libvirt`) | none | `virsh`, `GetState`, `GetInfo`, `Shutdown`, `Destroy`, `ListDomains` | Podman exec |
| clean-cache (`cmd/cleancache.go`) | the cache directories | `doCleanCache` | support directory, disk cache |
| Disk cache (`cmd/create.go`, `pkg/util/disk.go`) | `containerdisks/<image>/`, `resized-disks/<vm>/` | `extractContainerDisks`, `pullAndExtract`, `findExtractedDisk`, `prepareSizedDisks`, `buildSizedDiskImage` | `podman` executable, one-shot helpers |
| Configuration (`pkg/config`) | none | load, merge flags, defaults, quantities, `Validate` | create |
| Converter (`pkg/converter`) | none | `ToVMI` | create |
| Queries (`cmd/list.go`, `status.go`, `ssh.go`, `console.go`) | none | read only | Podman, libvirt, `ssh` |
| QEMU wrapper (`scripts/qemu-wrapper.sh`) | none | rewrites one QEMU command line | libvirt |
| Pre-flight (`pkg/util/preflight.go`) | none | `CheckKVM`, `CheckPodmanSocket` | every command |

What is hard, and what makes each part correct:

* **Life cycle commands.** Every command looks first and acts later (exists,
  then create; inspect, then stop, then remove), with a prompt that stays open
  as long as the user likes and polling loops in between.  Correct means: each
  command takes effect at most once and atomically as seen through Podman;
  success is reported only for what was done; nothing is removed without
  consent; every command ends.
* **QEMU support directory.** One directory serves all VMs and all launcher
  images while running VMs have its files mounted.  Correct means: a VM is
  launched with the whole binary of its own image, every mount source exists,
  and no VM that runs loses its binary.
* **One-shot helpers.** Two goroutines with bounded channels.  Correct means:
  no output lost, nobody waits forever, no error swallowed.
* **Disk cache.** A cache that is filled by non-atomic copies and that holds
  the only copy of a guest's data.  Correct means: a disk in use is never
  removed, replaced or taken from a partial copy.
* **Configuration and converter.** A configuration goes through a dozen steps of
  create that rewrite it, with the check in the middle of them.  Correct means:
  what Podman and QEMU get is what file and flags asked for; no disk, port, size
  or key is dropped, exchanged or invented.
* **Queries.** They look at several things one after the other while commands
  change them.  Correct means: what they say of a VM that did not change is
  true, and they end.
* **QEMU wrapper.** It decides by file names what the converter decided by
  contents.  Correct means: every guest disk is read from its own file in that
  file's format.

`PROJECT.json` lists the hazards of the code line by line, and which property
covers each.

## Modules

| Module | Models |
|---|---|
| `VmStore` | abstract specification: a VM is absent, stopped, launched or up; a command is one atomic operation on it |
| `VmLifecycle` | the four life cycle commands as processes over Podman and libvirt |
| `VmLifecycleProofs` | its invariant, the consent property, the refinement of `VmStore` and the patience of `stop --graceful` |
| `QemuSupport` | the QEMU support directory, create/start up to the container, clean-cache |
| `QemuSupportProofs` | its invariant and what it means for a VM that is launched |
| `OneShot` | `RunOneShotContainer` and `collectContainerLogs` |
| `OneShotProofs` | its invariant and the completeness of the output |
| `DiskStore` | container disks and resized disks, create with one disk step by step, delete, clean-cache of disks |
| `DiskStoreProofs` | the source of a copy is never written; the cache and the VMs' disks are right, and create takes none away |
| `VmQuery` | list, status, ssh and console beside the commands of `VmLifecycle` |
| `VmQueryProofs` | a list is right about the VMs that stay as they are |
| `VmConfig` | types, defaults, quantities, merging of flags and `Validate` as operators |
| `Vmi` | the converter: volumes, mounts, port mappings, login; the container create asks for |
| `QemuWrapper` | the rewriting of a QEMU command line |
| `CreateVm` | `runCreate` from flags and file to the container; composes the three above |
| `CreateVmProofs` | its invariant, and that every volume has its mount |
| `CreateVmDataProofs` | what was asked for arrives: flags and file, sizes, ports, login |
| `QemuWrapperProofs` | where the wrapper puts each argument; each disk reads its own file |
| `MCVmLifecycle`, `MCVmQuery`, `MCQemuSupport`, `MCOneShot`, `MCDiskStore`, `MCCreateVm` | instances for TLC |

### VmLifecycle

`ctr[v]` is the state of the container as Podman lists it, `dom[v]` that of the
domain inside.  A process has a program counter `pc` (the next call it makes),
its command, VM, one flag (`--wait`, `--graceful` without `--force`, or the
consent of delete) and `left`, the polls before its deadline.  One action is one
call of the Podman API or of virsh, with the local code up to the next call.
The outcomes of a call come from the code and the API: `ExistsVM` reads every
status but 2xx as "absent"; create, start, stop and remove may take effect and
still report an error (a lost reply); Podman refuses a name in use and accepts a
start of what runs; a virsh that dies silently counts as success because its
exit status is not read (`pkg/libvirt/client.go:66`), and one given up after 30s
may have taken effect.  `Kill` is Ctrl-C between two calls: no command catches
signals.  `Boot`, `GuestChange` and `ContainerExit` are the guest and
virt-launcher, and are external.  `Matches` is Podman's name filter, which is
not anchored: `InspectVM("web")` may answer for `web2`.

The configuration, the disks and the support directory are steps that succeed or
fail (`CLoad`, `PrepareSizedDisks`, `RestoreRuntimeSupport`).

### VmStore and the refinement

`VmStore` says what the commands promise together: create turns an absent VM
into a stopped one, start launches, `start --wait` succeeds only if the guest
was seen running, stop leaves it not running, delete makes it absent; each takes
effect at most once, an error may hide an effect, and a VM changes only by a
command that names it or by its own guest.  `ImplementsStore` instantiates it
with `Condition`, `Op` and `Result` computed from the detailed state.

### QemuSupport

A binary is an inode, so that unlinking the path (harmless to containers that
have it mounted) and truncating the file (not harmless) differ.  `from[i]` is
the set of images whose bytes inode `i` holds, `whole[i]` whether all are there,
`stamp` the contents of `qemu-kvm-real.image`, `mount[v]` the inode a running VM
has mounted.  Each file operation of `writeQemuSupport` and `ensureQemuBinary`
is an action, with its error path and the deferred removal of the temporary
container.  `owned` are the processes that have still to remove theirs; `litter`
says that one exists which nobody will remove, because Podman's answer to its
creation was lost, because its removal failed (`container.go:143` drops that
error) or because the command was interrupted.  Five constants say what else may
happen: `Concurrent` commands, `Kills`, `StampFaults` (the stamp cannot be
written), `TempFaults` (creation or removal of the temporary container goes
wrong in one of those ways) and `PartialCleans` (clean-cache fails or is
interrupted inside a directory).  Capability XML files
are left out (libvirt validates them), and so are the contents of `qemu.conf`.

### OneShot

The caller and the logger goroutine, the two output channels with capacity `Cap`
(128 in the code), the channel `done` with capacity `DoneCap` (1), and the
helper container.  A receive, a send and a close are one action each.

### DiskStore

A file is where its bytes come from (`of`), whether all are there (`whole`),
whether it begins with the qcow2 magic (`magic`, which decides whether
`findExtractedDisk` renames `disk.img`) and whether `qemu-img resize` enlarged it
(`grown`).  `ctr[v]` is the path the container of `v` mounts and what create was
asked for.  Create runs from step to step: find, pull, copy, find again,
validate, exists, image, inspect, remove, convert, resize, create; each step may
fail and each may be the last (`Kill`).  `Key[m]` is the cache directory of an
image, so that collisions are a matter of the instance, and `Ships[m]` says what
its `/disk` holds.  `Hazards` names what else may happen: `"cp"` (podman cp cut
short), `"exists"` (the check for an existing VM fails and reads as "absent"),
`"clean"` (clean-cache, possibly cut short) and `"alias"` (the source is a
resized disk).  There is one create at a time, with one disk; guests' writes and
the temporary container are left out.

### VmQuery

One query at a time beside the processes of `VmLifecycle`; it changes none of
their variables (`QueryStep ... /\ UNCHANGED vars`), and any step of theirs may
come between two of its calls (`WorldStep`).  `todo` is what is left of the
snapshot that `ListVMs` took, `rows` the states printed so far.  `steady` is a
history variable: the VMs whose container and domain have not changed since the
snapshot.  `GetInfo` answers as `GetState` does; its numbers are only printed.

### CreateVm, VmConfig, Vmi and QemuWrapper

`VmConfig` and `Vmi` are the functions of `pkg/config`, `cmd/create.go` and
`pkg/converter` as operators over records.  `CreateVm` runs them in the order of
`runCreate`, one action per call, with the loops over the disks turned into one
action per disk (`at`) and every error a way to `"err"`.  `made` is the directory
of resized disks, by disk name: what each copy was made of and its size.  The
container at the end is a record, `ctr`.

Data are reduced to what decides something.  A path is a file of the user, the
cached disk of an image or the resized disk of a name; a file has a base name,
an extension, a space in its name or not, the qcow2 magic or not, and a virtual
size.  A quantity is a number and a suffix; numbers are taken modulo `Word32`,
`Word64` and 2^16 where the code converts.  Port texts are parsed or refused.
`Text` stands for the strings; names of disks are taken to have no space or
slash (a space would split the wrapper's arguments, and `filepath.Join` cleans
`..` away, so that two names could give one path), and a cached disk is named by
its image reference (that references share cache directories is in `DiskStore`).  An argument of the wrapper is what sort it is, which disk it is about,
the block node it defines and the one it refers to; unquoted command
substitutions split arguments at spaces (`SplitWords`).  libvirt's command line
(`LaunchArgs`) is external, with one `-blockdev` and one `-device` per volume as
the comments of the script show it; the cloud-init disk is left out.

Ports are followed up to the port mappings that Podman is given.  Inside the
container the wrapper's own `-netdev` forwards port 22 of the guest and no other
(`qemu-wrapper.sh:71`), whatever the configuration says; a forward to another
port of the guest ends in the container as far as this script goes.  That
`hostfwd` is not in the model, and `PortsKept` says nothing about it.

## Runs

| Run | Checks | Bounds |
|---|---|---|
| `vm_lifecycle` | `Inv`, `ConsentBeforeRemoval` | 2 VMs (one name part of the other), 2 processes, deadline up to 1 poll |
| `vm_live` | `ImplementsStore`, `CommandsTerminate` | 1 VM, 2 processes, up to 2 polls |
| `queries` | `LookInv`, `ListAccurate`, `WatchEnds`, `GracefulWaitsOut` | 2 VMs (one name part of the other), 1 process and 1 query, 1 poll, 2 filters, virsh answers |
| `graceful_faults` | `GracefulWaitsOut` is violated | 2 VMs, 1 process, up to 3 polls, virsh may fail |
| `qemu_support` | `SupportInv`, `BinaryReady`, `MountsReady`, `MountedIntact` | 2 VMs, 2 images, 3 inodes, commands one after the other, partial cleans, temporary containers that stay |
| `qemu_one_image` | `BinaryReady`, `MountedIntact` | 2 VMs, 1 image, 3 inodes, interrupts, stamp faults, temporary containers that stay |
| `qemu_race` | `KeptBinaryIsRight` is violated | 2 processes, 1 VM, 1 image |
| `one_shot` | `Inv`, `InTransit`, `OkIsComplete`, `Returns` | up to 4 frames of 2 contents, channel capacity 1 |
| `disks` | `DiskInv`, `NoWrongDisk`, `SourceUntouched`, `DiskKept` | 2 VMs, 3 images (one renamed, one raw, one without a disk), 1 local file, clean-cache |
| `disk_clean` | `DiskThere` is violated | 1 VM, 1 image, clean-cache |
| `disk_copy` | `NoWrongDisk` is violated | 1 VM, 1 image, copies cut short |
| `create_vm` | `CreateInv`, `FollowsInput`, `Convertible`, `FlagsTakePrecedence`, `PortsKept`, `VolumesMounted`, `GuestDisks`, `SizeAsAsked`, `LoginAsAsked` | five families of inputs, up to 3 disks and 2 networks in the file, 2^32 and 2^64 replaced by 512 and 64 |

Why the bounds are enough.  The life cycle commands interact through the state
of one VM; two processes show every conflict of a pair (two creates, a delete
against a create or a poll), and a second VM is needed only for the name
filter.  One poll before the deadline already gives both ends of a loop; the
timing runs use more.  In `queries` there is a single process because a second
one that restarts the VM while the first is stopping it makes "the guest still
runs" mean another guest.  Three inodes let two VMs run on different files while
a third is written.  Capacity 1 makes each channel block after a single frame,
which 128 does only after a long output.  Processes (in `QemuSupport` VMs,
images and inodes too, in `DiskStore` VMs) are symmetric except under liveness
properties.

Disks meet in two places, the directory of an image and the resized disk of a
name, so two VMs and two images (a third ships no disk) make every pair; sizes are compared with the
source's only.

The inputs of `create_vm` vary one part of the configuration at a time, for the
steps of create touch the parts independently: disks (every pair of eight disks
with either flag, duplicates and odd files included), flags without a file,
numbers, ports, logins.  A third disk makes a replaced one neither first nor
last.  `Word64` = 64 leaves room for sizes that fit and for a product that wraps
around to an innocent one; `Word32` = 512 is more than the 256 CPUs Validate
allows and lets a larger number wrap into that range.

In `queries` the second VM changes while the list asks about the first; the
process beside it runs any life cycle command on either.

`OneShot` ends, so its run does not look for deadlocks: `Returns` says where it
may stop.  `CreateVm` ends too, with a container or an error.

### Fairness

`CommandsTerminate` assumes weak fairness of the steps of a process that do not
wait for the user (`Step`): the Podman service answers or fails every request,
virsh is given up after 30s (`virshTimeout`), and `time.Sleep` returns.  The
prompt gets no fairness, nor does the guest.  `Returns` assumes that the Go
scheduler runs both goroutines and that a finite log ends; waiting for the
helper (`containers.Wait`) is assumed to return, for there is no timeout in the
code.  `WatchEnds` assumes the same of the query's own steps as
`CommandsTerminate` does of a command's; an open ssh or console session gets no
fairness, nor do the commands beside it.

### Findings

* `graceful_faults`: `stop --graceful` treats one failed `virsh domstate` as the
  end of the wait and forces a running guest with time left (`cmd/stop.go:57`).
* `qemu_race`: two commands that both find no stamp extract one after the other;
  while the second writes the file anew, the stamp of the first makes a third
  command keep it.
* `disk_clean`: the cache holds the only copy of the disks of VMs, so it is not
  "safe to delete" while they exist (`cmd/cleancache.go:48`).
* `disk_copy`: an interrupted `podman cp` leaves a partial disk that the next
  create takes for the cached one (`cmd/create.go:557`).

More weaknesses have no run of their own.  Each is excluded by a constant or by
a precondition of a property, and TLC finds the violation when it is dropped.

The support directory: the stamp survives the binary it vouches for
(`container.go:113`), so that with two images an interrupted extraction for one
leaves a partial binary that a VM of the other accepts (`KeptBinaryIsRight` with
`Kills` and two images).  With one image `qemu_one_image` shows that interrupts
do no harm, unless clean-cache itself was cut short between the binary and its
stamp.

The disk cache:

* image references that differ only in `/ : @ _` share a cache directory
  (`cmd/create.go:505`): with one `Key` for two images `NoWrongDisk` fails;
* a create from the resized disk that a deleted VM of the same name left behind
  removes that disk before copying it (`cmd/create.go:341`): with `"alias"` in
  `Hazards`, `SourceUntouched` fails;
* `ExistsVM` reads an error status as "absent", and create then removes the
  resized disk of the existing VM before Podman refuses the name: with
  `"exists"`, `DiskKept` and `NoWrongDisk` fail.

Create, where the documents ask for what nothing checks:

* disk names need not be unique (`docs/configuration.md:68` says "Unique name"), and `--disk` and
  `--image` may add a second `disk0` or `containerdisk`; two disks of one image
  file are accepted too.  The mounts are a map by host path (`vmi.go:196`), so
  one volume is left without a mount and `DiskOrCreate` makes an empty disk
  there (`VolumesMounted`); of two resized disks with one name the second
  replaces the first (`SizeAsAsked`);
* a disk with both `image` and `containerImage` is accepted, because extraction
  replaces the one by the other before `Validate` looks (`create.go:521`).  It
  should be refused: `docs/configuration.md:74` and `:307` say "Exactly one",
  `validator.go:42` has the check, and `TestValidate_DiskBothSources` tests
  `Validate` by itself.  The properties leave such a disk out (`Ambiguous`) as far
  as its source goes; asked whether `pc \in Accepted` excludes it, TLC finds a
  configuration that gets there;
* a VM without a disk is accepted (`docs/configuration.md:64` and `:305` ask for
  at least one), and so is a memory below 128Mi (`:57` and `:303`): `Validate` has
  neither check, and `Valid` in the model accepts what it does;
* `ParseQuantityBytes` does not see its product wrap around (`quantity.go:38`):
  the disk then has another size than asked for (`SizeAsAsked` without
  `bytes < Word64`), though never one below its source's;
* `--cpus` of 2^32 + n is n (`parser.go:36`), and `--cpus 0` with a file is
  ignored, as is an empty `--memory`; `FlagsTakePrecedence` leaves these out;
* `--user` without a key or a password does nothing (`create.go:254`;
  `LoginAsAsked` without `changed`);
* the wrapper splits file names at spaces, opens a qcow2 image called `.QCOW2` as
  raw and a raw file called `.qcow2` as qcow2 (`GuestDisks` without `Plainly`);
* a disk may be called `cloudinitdisk`, the name of the volume the converter
  adds; `spec.console` is checked and never read.

Queries: `status --watch` of a deleted VM goes on with another one whose name
contains its name, and `ssh` may reach that one (`container.go:324`;
`WatchEnds` without `Matches[v] = {v}`).  `list --state stopped` shows nothing:
the states are Podman's and libvirt's words, and neither says "stopped" of a
container that has exited.

## Proofs

All theorems hold for any finite or infinite sets of VMs, processes, images,
inodes and frames, and rest only on the named assumptions of the modules.

* `VmLifecycleProofs!Invariance`: `Spec => []Inv`.  `TypeOK` alone is not
  inductive enough for what follows: `DomainInContainer` ties the domain to its
  container, and `OwnCalls` ties each program counter to the command and flag
  that got there (delete is past its prompt only with consent, start polls only
  under `--wait`).  One lemma per group of actions.
* `VmLifecycleProofs!Consent`: `Spec => ConsentBeforeRemoval`, from `OwnCalls`:
  only `RemoveVM` makes a container absent, and it stands at `d_remove`.
* `VmLifecycleProofs!Refinement`: `Spec => ImplementsStore`, the initial
  condition and one step lemma per action that shows which abstract operation,
  or stutter, it is.
* `VmLifecycleProofs!GracefulWait`: `Spec /\ []OneCommandPerVM =>
  GracefulWaitsOut` if virsh answers (`~VirshFaults`).  Both conditions are
  needed: `graceful_faults` is the run without the first, and without the second
  another command may start the guest again while the first is waiting, so that
  "still runs" is about another guest.  The property is about one step, from the
  last look at the guest to its destruction; what has to be known before it is
  `WaitInv`: a stop that is past its loop either used up its time or has seen the
  guest down, and by `OneCommandPerVM` nobody else raises it.  `VmQueryProofs!GracefulBesideQuery`
  carries it over to the system with queries, whose steps are steps of
  `VmLifecycle` or leave its variables alone.
* `QemuSupportProofs!SupportSound`: under `Quiet` (no concurrency, no
  interrupts, the stamp can be written; clean-cache may still fail halfway),
  `Spec => []SupportInv`.  `BinaryReady` is not inductive: one has to know at
  every step of `ensureQemuBinary` what is at the path and in the stamp
  (`BinaryState`, `StampTrue`), that the file written is mounted by nobody, that
  no other command is active (`Serial`), and that the directory is still there
  (`FilesReady`).  About temporary containers it says that no process returns
  before it has asked for the removal of its own, and that one stays behind only
  under `TempFaults` or `Kills` (`NoTempLeft`).  `LaunchSound`, `BinaryAlwaysReady` and `MountsAlwaysReady` draw
  the conclusions.  `qemu_race` shows that the first condition is needed.
* `OneShotProofs!HandOff`: `Spec => []Inv` for any capacities; `InTransit` (sent
  = received followed by buffered) needs `LoggerOrder` (when each channel is
  closed and where the error is) to survive the last receive.
  `NothingLost` and `CompleteOutput` draw the conclusions.
* `DiskStoreProofs!SourceSafe`: `Spec => SourceUntouched` unless `"alias"`; all
  that is needed is that the path a copy is made of is never a resized disk.
* `DiskStoreProofs!CacheSound`: `Spec => []DiskInv` under `Careful` (of the
  hazards only clean-cache, and no two images with one key).  `NoWrongDisk` is
  not inductive: it is conditional on the file being there, so one has to know
  what may come back at a path that a container names.  For container disks
  that is `CachedWhole` with the key (`OwnDisk` ties a container's path to its
  source), for the user's files `LocalsKept`, and for resized disks
  `ResizedRight`, which survives because create works only on the disk of a VM
  that does not exist (`OwnDisk`).  `PathOfSource` carries what create knows from
  step to step.  `DisksSound` concludes `NoWrongDisk`.  The run `disk_copy` shows
  that the condition on `podman cp` is needed.
* `DiskStoreProofs!DisksKept`: `Spec => DiskKept` under `Careful`.  Create
  removes only the resized disk of a VM that does not exist, which by `DiskInv` no
  container names.  The other way to lose a file is findExtractedDisk, which
  renames a `disk.img` that begins with the qcow2 magic; `ImgMagic` and `RawImg`
  say that no container names such a one.
* `CreateVmProofs!CreateInvariant`: `Spec => []CreateInv`, for any inputs with
  any number of disks and networks, any word sizes and any suffixes.  One lemma
  per helper says that it keeps the type of a configuration (`ReplaceFirst`,
  `SetDisks`, `MergeFlags`, `ApplyPortForwards`, ...), one per action that it
  keeps the invariant.  `Convertible` alone is not inductive: that no image is
  left to extract at `Validate` needs the loop invariant of the extraction
  (disks before `at` are done).  `AlwaysConvertible` and `AlwaysMounted`
  (`VolumesMounted`, from `ctr = ContainerSpec(...)` and what `HostMounts` of
  distinct paths is) draw the conclusions.
* `VmQueryProofs!Looking`: `QuerySpec => []LookInv` if there is a VM at all.
  `ListAccurate` speaks of the end of a list; on the way there one has to know
  that for steady VMs the snapshot still holds if they are to come and the row
  is right if they are done.  That a step of the world keeps this is by the
  definition of `steady`; that a row shows `Own` needs the types of the VMs'
  states, which come from the invariant of `VmLifecycle`.  `ListRight` draws the
  conclusion.

* `CreateVmDataProofs!Follows`: `Spec => []FollowsInput`.  The promises about the
  container speak of the end of `runCreate` and of its input, with ten steps in
  between, so none of them is inductive.  `FollowsInput` is what they have in
  common: at every step each part of the configuration is what file and flags
  say, as far as the command has come, and each disk is before or after its
  extraction and its copy according to `at`.  Together with `CreateInv` it is
  inductive; the run checks it too.  What is said about the copies is
  conditional on `DistinctNames`, for two disks of one name share one file; what
  is said about the source of a disk leaves out those with two (`Ambiguous`).
  Inputs are those the parser can deliver (`FileSpec`: a path in the file is a
  user's path, and without a `cloudInit` section its fields are empty).
* From `FollowsInput` at `"created"` the rest is about operators:
  `CreateVmDataProofs!Login` (`LoginAsAsked`) about `ApplyCloudInitFlags` and
  the user data; `Sizes` (`SizeAsAsked`) about `ParseQuantityBytes`, which is
  exact for products below 2^64 and only bounded by the source's size beyond; `Precedence` (`FlagsTakePrecedence`) about `MergeFlags` and where
  `ReplaceFirst` puts a disk (`Puts`); `Ports` (`PortsKept`) about
  `ApplyPortForwards`, whose additions are counted network by network (`Adds`,
  `ForwardsFinite`), and ports that `Validate` leaves below 2^16.
  Where an argument needs induction over positions, it takes a least
  counterexample (`Least`: a nonempty set of naturals has a least element).
* `QemuWrapperProofs!DisksReadTheirFiles`: `Spec => []GuestDisks`, for any number
  of disks.  `LaunchArgs` and every pass of the script are a `FlattenSeq` of
  pieces of different lengths, so the first part says what that is: the
  recursive function in its definition exists (`PartGrows`, by a least
  counterexample) and lays the pieces one after the other (`FlattenLays`).  The
  second part carries a description of the command line through the passes:
  `Launched` (libvirt's), `Stripped` (without `-sandbox`), `Injected` (with the
  format nodes, after which disk i has four or six arguments at a place `b[i]`
  that depends on the disks before it), and that nothing is split at spaces
  (`NothingSplit`) for names without any; `Rewritten` puts them together.  From
  that, `DeviceReads`, `DefinedOnce` and `SandboxGone` are the three parts of
  `GuestDisks`, and `ExtensionTells` connects the name in the container with the
  format of the file.  The condition `Plainly` is needed: see the misleading
  names above.

Only model-checked: the liveness properties (`CommandsTerminate`, `Returns`,
`WatchEnds`), which are out of the prover's reach, and the runs with interrupts
and stamp faults.

## Not modelled, and the plan

In this order:

1. `DiskStore` further: two creates at a time (of one name: the second removes
   the first's resized disk; of one image: both extract into one directory),
   several disks of one VM, and what guests write to a shared container disk.
   Composes with `VmLifecycle` through the containers that mount a disk.
2. Digests of images: the stamp names a reference, and a tag that is pulled anew
   keeps the old binary.

Left out for good: the command-line root, version, messages and layout, the
JSON of the VMI, what happens inside an ssh or console session, device checks,
`ListDomains` (which nothing calls), and the contents of `qemu.conf`.
