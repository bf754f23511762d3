---------------------------- MODULE QemuSupport ----------------------------
(***************************************************************************)
(* The QEMU support directory that every VM container mounts               *)
(* (pkg/podman/container.go): the wrapper, qemu.conf, the QEMU binary      *)
(* qemu-kvm-real extracted from the launcher image, and qemu-kvm-real.image*)
(* that names the image the binary came from.  create and start bring it   *)
(* up to date (restoreRuntimeSupport, ensureQemuBinary) and then create or *)
(* start the container; clean-cache removes it.  There is one directory    *)
(* for all VMs and images, and nothing locks it.                           *)
(*                                                                         *)
(* A binary is a file (an inode), reached through its path or through the  *)
(* bind mount of a running container: removing the path leaves the mounts, *)
(* truncating the file does not.  Its bytes are abstracted to the images   *)
(* they came from and whether they are all there.  Left out: the           *)
(* capability XML files (a cache that libvirt validates itself) and the    *)
(* disks.                                                                  *)
(***************************************************************************)
CONSTANTS
    Procs,        \* podvirt processes
    VMs,          \* VM names
    Images,       \* launcher image references
    Inodes,       \* file identities for qemu-kvm-real
    None,         \* not an image, not an inode
    Concurrent,   \* TRUE: several commands run at the same time
    Kills,        \* TRUE: a command may be interrupted
    StampFaults,  \* TRUE: writing the stamp may fail (disk full)
    TempFaults,   \* TRUE: Podman may refuse to remove the temporary container,
                  \* and its answer to the creation of one may be lost
    PartialCleans \* TRUE: clean-cache may fail, or be interrupted, in the
                  \* middle of a directory

ASSUME NoneAssumption == None \notin Images /\ None \notin Inodes
ASSUME ModesAssumption ==
    /\ Concurrent \in BOOLEAN /\ Kills \in BOOLEAN /\ StampFaults \in BOOLEAN
    /\ TempFaults \in BOOLEAN /\ PartialCleans \in BOOLEAN

VARIABLES
    files,   \* which of the paths other than the binary and its stamp exist
    stamp,   \* the image qemu-kvm-real.image names; None: no file, or torn
    bin,     \* the inode at qemu-kvm-real
    from,    \* from[i]: the images whose bytes inode i holds
    last,    \* last[i]: the process that truncated i last
    whole,   \* whole[i]: all the bytes are there
    pc,      \* next step of each process
    cmd, vm, img, debug,   \* its command, VM, launcher image and PODVIRT_DEBUG
    present, \* the directories that a clean-cache has still to remove
    fd,      \* the inode a process writes
    owned,   \* processes with a temporary container that they have to remove
    litter,  \* a temporary container exists that no process will remove
    image,   \* image[v]: launcher image of v's container, None without one
    logs,    \* logs[v]: the container mounts libvirt-logs
    mount    \* mount[v]: the inode mounted by the running container of v

disk == <<files, stamp, bin, from, last, whole>>
request == <<cmd, vm, img, debug>>
locals == <<request, present>>
temps == <<owned, litter>>
ctrs == <<image, logs, mount>>
vars == <<disk, pc, locals, fd, temps, ctrs>>

Paths == {"caps", "support", "wrapper", "conf", "logs"}
\* The steps of ensureQemuBinary between the decision to extract the binary
\* and the removal of the temporary container.
Extracting == {"remove", "temp", "archive", "open", "copy", "mark"}
Labels == {"idle", "dirs", "wrapper", "conf", "logs", "stamp", "stat"}
          \cup Extracting
          \cup {"clean_ok", "clean_err", "create", "start",
                "clean"}

Init ==
    /\ files = {}
    /\ stamp = None
    /\ bin = None
    /\ from = [i \in Inodes |-> {}]
    /\ last = [i \in Inodes |-> None]
    /\ whole = [i \in Inodes |-> FALSE]
    /\ pc = [p \in Procs |-> "idle"]
    /\ cmd = [p \in Procs |-> "create"]
    /\ vm \in [Procs -> VMs]
    /\ img \in [Procs -> Images]
    /\ debug = [p \in Procs |-> FALSE]
    /\ present = [p \in Procs |-> {}]
    /\ fd = [p \in Procs |-> None]
    /\ owned = {}
    /\ litter = FALSE
    /\ image = [v \in VMs |-> None]
    /\ logs = [v \in VMs |-> FALSE]
    /\ mount = [v \in VMs |-> None]

At(p, l) == pc[p] = l
Goto(p, l) == pc' = [pc EXCEPT ![p] = l]
MayBegin(p) == At(p, "idle") /\ (~Concurrent => \A q \in Procs : At(q, "idle"))

-----------------------------------------------------------------------------
(* The commands up to restoreRuntimeSupport *)

BeginCreate(p) ==
    /\ MayBegin(p)
    /\ \E v \in VMs, i \in Images, d \in BOOLEAN :
          /\ image[v] = None
          /\ vm' = [vm EXCEPT ![p] = v]
          /\ img' = [img EXCEPT ![p] = i]
          /\ debug' = [debug EXCEPT ![p] = d]
    /\ cmd' = [cmd EXCEPT ![p] = "create"]
    /\ Goto(p, "dirs")
    /\ UNCHANGED <<disk, present, fd, temps, ctrs>>

\* StartVM takes the image from the container it inspects.
BeginStart(p) ==
    /\ MayBegin(p)
    /\ \E v \in VMs :
          /\ image[v] # None
          /\ vm' = [vm EXCEPT ![p] = v]
          /\ img' = [img EXCEPT ![p] = image[v]]
    /\ debug' = [debug EXCEPT ![p] = FALSE]
    /\ cmd' = [cmd EXCEPT ![p] = "start"]
    /\ Goto(p, "dirs")
    /\ UNCHANGED <<disk, present, fd, temps, ctrs>>

Fail(p) == Goto(p, "idle")

\* writeQemuSupport makes the directories, then writes the wrapper unless it
\* is there unchanged, then qemu.conf; each may fail, and the files cannot be
\* written once the directory is gone.
MakeDirs(p) ==
    /\ At(p, "dirs")
    /\ \/ files' = files \cup {"support", "caps"} /\ Goto(p, "wrapper")
       \/ \E made \in {{}, {"support"}} : files' = files \cup made /\ Fail(p)
    /\ UNCHANGED <<stamp, bin, from, last, whole, locals, fd, temps, ctrs>>

WriteSupportFile(p) ==
    /\ \/ /\ At(p, "wrapper") /\ "support" \in files
          /\ files' = files \cup {"wrapper"} /\ Goto(p, "conf")
       \/ /\ At(p, "conf") /\ "support" \in files
          /\ files' = files \cup {"conf"} /\ Goto(p, "logs")
       \/ At(p, "wrapper") /\ Fail(p) /\ UNCHANGED files
       \/ At(p, "conf") /\ Fail(p) /\ UNCHANGED files
    /\ UNCHANGED <<stamp, bin, from, last, whole, locals, fd, temps, ctrs>>

\* Mutant: the logs directory is made only for a VM created with PODVIRT_DEBUG.
MakeLogsDirDebug(p) ==
    /\ At(p, "logs")
    /\ \/ files' = files \cup (IF debug[p] THEN {"logs"} ELSE {}) /\ Goto(p, "stamp")
       \/ UNCHANGED files /\ Fail(p)
    /\ UNCHANGED <<stamp, bin, from, last, whole, locals, fd, temps, ctrs>>

\* libvirtLogsDir, called whether or not the logs are mounted.
MakeLogsDir(p) ==
    /\ At(p, "logs")
    /\ \/ files' = files \cup {"logs"} /\ Goto(p, "stamp")
       \/ UNCHANGED files /\ Fail(p)
    /\ UNCHANGED <<stamp, bin, from, last, whole, locals, fd, temps, ctrs>>

-----------------------------------------------------------------------------
(* ensureQemuBinary *)

\* Mutant: a stamp of any image will do.
ReadStampAny(p) ==
    /\ At(p, "stamp")
    /\ Goto(p, IF stamp # None THEN "stat" ELSE "remove")
    /\ UNCHANGED <<disk, locals, fd, temps, ctrs>>

\* The binary is kept if the stamp names the image and the path exists; then
\* restoreRuntimeSupport returns to CreateVM or StartVM.
ReadStamp(p) ==
    /\ At(p, "stamp")
    /\ Goto(p, IF stamp = img[p] THEN "stat" ELSE "remove")
    /\ UNCHANGED <<disk, locals, fd, temps, ctrs>>

StatBinary(p) ==
    /\ At(p, "stat")
    /\ Goto(p, IF bin # None THEN cmd[p] ELSE "remove")
    /\ UNCHANGED <<disk, locals, fd, temps, ctrs>>

\* Mutant: the old binary is written over.
RemoveBinaryNot(p) ==
    /\ At(p, "remove")
    /\ Goto(p, "temp")
    /\ UNCHANGED <<disk, locals, fd, temps, ctrs>>

\* The old binary is removed; its stamp stays.  (The error of os.Remove is
\* ignored: the directory is the user's and was written to a moment before.)
RemoveBinary(p) ==
    /\ At(p, "remove")
    /\ bin' = None
    /\ Goto(p, "temp")
    /\ UNCHANGED <<files, stamp, from, last, whole, locals, fd, temps, ctrs>>

\* The temporary container whose root file system is read, not run.  When the
\* answer is lost the container exists, but its ID is not known and the
\* removal is not deferred yet.
CreateTemp(p) ==
    /\ At(p, "temp")
    /\ \/ owned' = owned \cup {p} /\ Goto(p, "archive") /\ UNCHANGED litter
       \/ Fail(p) /\ UNCHANGED temps
       \/ TempFaults /\ Fail(p) /\ litter' = TRUE /\ UNCHANGED owned
    /\ UNCHANGED <<disk, locals, fd, ctrs>>

\* The archive is requested and read up to the entry qemu-kvm, which may be
\* missing or unreadable.
ReadArchive(p) ==
    /\ At(p, "archive")
    /\ \E l \in {"open", "clean_err"} : Goto(p, l)
    /\ UNCHANGED <<disk, locals, fd, temps, ctrs>>

InUse(i) ==
    i = bin \/ (\E q \in Procs : fd[q] = i) \/ (\E v \in VMs : mount[v] = i)

\* Mutant: the stamp is written before the binary.
OpenBinaryStamped(p) ==
    /\ At(p, "open")
    /\ \/ /\ "support" \in files
          /\ \E i \in Inodes :
                /\ IF bin = None THEN ~InUse(i) ELSE i = bin
                /\ bin' = i
                /\ fd' = [fd EXCEPT ![p] = i]
                /\ from' = [from EXCEPT ![i] = {img[p]}]
                /\ last' = [last EXCEPT ![i] = p]
                /\ whole' = [whole EXCEPT ![i] = FALSE]
          /\ stamp' = img[p]
          /\ Goto(p, "copy")
       \/ Goto(p, "clean_err") /\ UNCHANGED <<stamp, bin, fd, from, last, whole>>
    /\ UNCHANGED <<files, locals, temps, ctrs>>

\* O_CREATE|O_TRUNC: a new file, or the one another process has put there.
\* Whoever else is writing that file goes on writing it.
OpenBinary(p) ==
    /\ At(p, "open")
    /\ \/ /\ "support" \in files
          /\ \E i \in Inodes :
                /\ IF bin = None THEN ~InUse(i) ELSE i = bin
                /\ bin' = i
                /\ fd' = [fd EXCEPT ![p] = i]
                /\ from' = [from EXCEPT ![i] =
                      {img[p]} \cup {img[q] : q \in {r \in Procs : fd[r] = i}}]
                /\ last' = [last EXCEPT ![i] = p]
                /\ whole' = [whole EXCEPT ![i] = FALSE]
          /\ Goto(p, "copy")
       \/ Goto(p, "clean_err") /\ UNCHANGED <<bin, fd, from, last, whole>>
    /\ UNCHANGED <<files, stamp, locals, temps, ctrs>>

\* Mutant: what an interrupted copy left is not removed.
CopyBinaryLeft(p) ==
    /\ At(p, "copy")
    /\ \/ /\ whole' = [whole EXCEPT ![fd[p]] = @ \/ last[fd[p]] = p]
          /\ Goto(p, "mark")
       \/ /\ Goto(p, "clean_err")
          /\ UNCHANGED whole
    /\ fd' = [fd EXCEPT ![p] = None]
    /\ UNCHANGED <<files, stamp, bin, from, last, locals, temps, ctrs>>

\* io.Copy to the end of the entry; on an error the path is removed, whatever
\* file it names by then.
CopyBinary(p) ==
    /\ At(p, "copy")
    /\ \/ /\ whole' = [whole EXCEPT ![fd[p]] = @ \/ last[fd[p]] = p]
          /\ Goto(p, "mark")
          /\ UNCHANGED bin
       \/ /\ bin' = None
          /\ Goto(p, "clean_err")
          /\ UNCHANGED whole
    /\ fd' = [fd EXCEPT ![p] = None]
    /\ UNCHANGED <<files, stamp, from, last, locals, temps, ctrs>>

\* The stamp is truncated and written.
WriteStamp(p) ==
    /\ At(p, "mark")
    /\ \/ "support" \in files /\ stamp' = img[p] /\ Goto(p, "clean_ok")
       \/ /\ StampFaults \/ "support" \notin files
          /\ stamp' \in IF "support" \in files THEN {stamp, None} ELSE {stamp}
          /\ Goto(p, "clean_err")
    /\ UNCHANGED <<files, bin, from, last, whole, locals, fd, temps, ctrs>>

\* The deferred removal of the temporary container.  Its error is ignored: a
\* container that Podman does not remove stays for good.
RemoveTemp(p) ==
    /\ \/ At(p, "clean_ok") /\ Goto(p, cmd[p])
       \/ At(p, "clean_err") /\ Fail(p)
    /\ owned' = owned \ {p}
    /\ UNCHANGED litter \/ (TempFaults /\ litter' = TRUE)
    /\ UNCHANGED <<disk, locals, fd, ctrs>>

-----------------------------------------------------------------------------
(* What the commands do next, and what else happens to VMs and files *)

\* buildMounts: the sources a container mounts besides the binary.
Sources(v) == {"support", "wrapper", "conf", "caps"}
              \cup IF logs[v] THEN {"logs"} ELSE {}

\* CreateWithSpec, which refuses a name in use.
CreateContainer(p) ==
    /\ At(p, "create")
    /\ \/ /\ image[vm[p]] = None
          /\ image' = [image EXCEPT ![vm[p]] = img[p]]
          /\ logs' = [logs EXCEPT ![vm[p]] = debug[p]]
       \/ UNCHANGED <<image, logs>>
    /\ Goto(p, "idle")
    /\ UNCHANGED <<disk, locals, fd, temps, mount>>

\* containers.Start mounts what the paths name now, and fails without them; a
\* container that runs stays as it is.
StartContainer(p) ==
    /\ At(p, "start")
    /\ \/ /\ image[vm[p]] # None /\ mount[vm[p]] = None
          /\ Sources(vm[p]) \subseteq files /\ bin # None
          /\ mount' = [mount EXCEPT ![vm[p]] = bin]
       \/ UNCHANGED mount
    /\ Goto(p, "idle")
    /\ UNCHANGED <<disk, locals, fd, temps, image, logs>>

\* stop, or the container exits; delete.
StopContainer(v) ==
    /\ mount[v] # None
    /\ mount' = [mount EXCEPT ![v] = None]
    /\ UNCHANGED <<disk, pc, locals, fd, temps, image, logs>>

DeleteContainer(v) ==
    /\ image[v] # None /\ mount[v] = None
    /\ image' = [image EXCEPT ![v] = None]
    /\ logs' = [logs EXCEPT ![v] = FALSE]
    /\ UNCHANGED <<disk, pc, locals, fd, temps, mount>>

\* clean-cache looks which directories there are and, once the user agrees,
\* removes those, in this order.  The first error ends the command and leaves
\* that directory with some of its files.
BeginCleanCache(p) ==
    /\ MayBegin(p)
    /\ LET found == files \cap {"caps", "support", "logs"}
       IN  found # {} /\ present' = [present EXCEPT ![p] = found]
    /\ Goto(p, "clean")
    /\ UNCHANGED <<disk, request, fd, temps, ctrs>>

RemoveDir(p, d) ==
    /\ files' = files \ (IF d = "support" THEN {"support", "wrapper", "conf"} ELSE {d})
    /\ IF d = "support" THEN stamp' = None /\ bin' = None ELSE UNCHANGED <<stamp, bin>>
    /\ present' = [present EXCEPT ![p] = @ \ {d}]
    /\ Goto(p, IF present[p] = {d} THEN "idle" ELSE "clean")

RemoveDirPartly(p, d) ==
    /\ PartialCleans
    /\ \E kept \in SUBSET {"wrapper", "conf"} :
          files' = IF d = "support" THEN files \ ({"wrapper", "conf"} \ kept) ELSE files
    /\ stamp' \in IF d = "support" THEN {stamp, None} ELSE {stamp}
    /\ bin' \in IF d = "support" THEN {bin, None} ELSE {bin}
    /\ present' = [present EXCEPT ![p] = {}]
    /\ Fail(p)

CleanCache(p) ==
    /\ At(p, "clean")
    /\ \E d \in present[p] :
          /\ d = "support" => "caps" \notin present[p]
          /\ d = "logs" => present[p] = {"logs"}
          /\ RemoveDir(p, d) \/ RemoveDirPartly(p, d)
    /\ UNCHANGED <<from, last, whole, request, fd, temps, ctrs>>

\* Ctrl-C: deferred calls do not run, files and containers stay as they are.
Kill(p) ==
    /\ Kills
    /\ ~At(p, "idle")
    /\ Goto(p, "idle")
    /\ fd' = [fd EXCEPT ![p] = None]
    /\ present' = [present EXCEPT ![p] = {}]
    /\ stamp' \in IF At(p, "mark") THEN {stamp, None} ELSE {stamp}
    /\ owned' = owned \ {p}
    /\ litter' = (litter \/ p \in owned)
    /\ UNCHANGED <<files, bin, from, last, whole, request, ctrs>>

Restore(p) ==
    \/ MakeDirs(p) \/ WriteSupportFile(p) \/ MakeLogsDir(p)
    \/ ReadStamp(p) \/ StatBinary(p) \/ RemoveBinary(p) \/ CreateTemp(p)
    \/ ReadArchive(p) \/ OpenBinary(p) \/ CopyBinary(p) \/ WriteStamp(p)
    \/ RemoveTemp(p)

Next ==
    \/ \E p \in Procs :
          \/ BeginCreate(p) \/ BeginStart(p) \/ BeginCleanCache(p)
          \/ Restore(p) \/ CreateContainer(p) \/ StartContainer(p)
          \/ CleanCache(p) \/ Kill(p)
    \/ \E v \in VMs : StopContainer(v) \/ DeleteContainer(v)

Spec == Init /\ [][Next]_vars

-----------------------------------------------------------------------------
(* Properties *)

\* The types of the state.
TypeOK ==
    /\ files \in SUBSET Paths
    /\ stamp \in Images \cup {None}
    /\ bin \in Inodes \cup {None}
    /\ from \in [Inodes -> SUBSET Images]
    /\ last \in [Inodes -> Procs \cup {None}]
    /\ whole \in [Inodes -> BOOLEAN]
    /\ pc \in [Procs -> Labels]
    /\ cmd \in [Procs -> {"create", "start"}]
    /\ vm \in [Procs -> VMs]
    /\ img \in [Procs -> Images]
    /\ debug \in [Procs -> BOOLEAN]
    /\ present \in [Procs -> SUBSET {"caps", "support", "logs"}]
    /\ fd \in [Procs -> Inodes \cup {None}]
    /\ owned \in SUBSET Procs
    /\ litter \in BOOLEAN
    /\ image \in [VMs -> Images \cup {None}]
    /\ logs \in [VMs -> BOOLEAN]
    /\ mount \in [VMs -> Inodes \cup {None}]

Good(i, m) == i \in Inodes /\ whole[i] /\ from[i] = {m}

\* When ensureQemuBinary has returned without an error, and until the container
\* is created or started, qemu-kvm-real is the whole binary of the image.
BinaryReady == \A p \in Procs : pc[p] \in {"create", "start"} => Good(bin, img[p])

\* The comment on the fast path, "Re-extract if the binary is missing or was
\* extracted from a different image": a binary that is kept is all there and
\* from the image asked for, at the moment it is looked at.
KeptBinaryIsRight ==
    [][\A p \in Procs : pc[p] = "stat" /\ pc'[p] \in {"create", "start"} =>
          Good(bin, img[p])]_vars

\* When start calls containers.Start, every source that the container mounts
\* exists, also after a clean-cache and for a VM created with PODVIRT_DEBUG=1.
MountsReady == \A p \in Procs : pc[p] = "start" => Sources(vm[p]) \subseteq files

\* A running VM keeps the whole binary of its own image, whatever images the
\* VMs started after it need.
MountedIntact == \A v \in VMs : mount[v] # None => Good(mount[v], image[v])

\* ensureQemuBinary does not return, on any error path, before it has asked
\* Podman to remove its temporary container (the deferred containers.Remove,
\* whose error is ignored).  A temporary container stays behind only if Podman
\* did not remove it or did not answer its creation, or the command was
\* interrupted.
NoTempLeft ==
    /\ \A p \in owned : pc[p] \in {"archive", "open", "copy", "mark",
                                   "clean_ok", "clean_err"}
    /\ litter => TempFaults \/ Kills

-----------------------------------------------------------------------------
(* The inductive invariant of commands that run one after the other, are    *)
(* not interrupted and can write the stamp.                                 *)

Ensuring == {"stamp", "stat", "clean_ok", "clean_err", "create", "start"}
            \cup Extracting

Serial == \A p, q \in Procs : pc[p] # "idle" /\ pc[q] # "idle" => p = q

\* What writeQemuSupport and libvirtLogsDir have made is there until the
\* container is started.
FilesReady ==
    \A p \in Procs :
        /\ pc[p] \in {"wrapper", "conf", "logs"} \cup Ensuring =>
              {"support", "caps"} \subseteq files
        /\ pc[p] \in {"conf", "logs"} \cup Ensuring => "wrapper" \in files
        /\ pc[p] \in {"logs"} \cup Ensuring => "conf" \in files
        /\ pc[p] \in Ensuring => "logs" \in files

\* What ensureQemuBinary knows at each step: the binary it extracts is a file
\* of its own, which no container mounts.
BinaryState ==
    \A p \in Procs :
        /\ fd[p] # None => pc[p] = "copy"
        /\ pc[p] = "stat" => stamp = img[p]
        /\ pc[p] \in {"temp", "archive", "open", "clean_err"} => bin = None
        /\ pc[p] = "copy" =>
              /\ bin \in Inodes /\ fd[p] = bin
              /\ last[bin] = p /\ from[bin] = {img[p]}
              /\ \A v \in VMs : mount[v] # bin
        /\ pc[p] \in {"mark", "clean_ok", "create", "start"} => Good(bin, img[p])

\* Unless it is being extracted, the binary is the one its stamp names, if
\* there is a stamp.
StampTrue ==
    \/ bin = None \/ stamp = None
    \/ \E p \in Procs : pc[p] \in {"copy", "mark"}
    \/ Good(bin, stamp)

\* start was given the image of its container, which can only be deleted.
OwnImage ==
    \A p \in Procs :
        /\ pc[p] \in {"create", "start"} => cmd[p] = pc[p]
        /\ pc[p] \in {"dirs", "wrapper", "conf", "logs"} \cup Ensuring
              /\ cmd[p] = "start" => image[vm[p]] \in {img[p], None}

SupportInv ==
    /\ TypeOK /\ Serial /\ FilesReady /\ BinaryState /\ StampTrue /\ OwnImage
    /\ MountedIntact /\ NoTempLeft
=============================================================================
