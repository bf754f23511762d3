----------------------------- MODULE DiskStore -----------------------------
(***************************************************************************)
(* The disks of VMs (cmd/create.go): container disks, extracted once per   *)
(* image into containerdisks/<key>, and resized copies, one per VM, in     *)
(* resized-disks/<vm>.  create finds or makes the disk of its VM and then  *)
(* creates a container that mounts it by path; delete removes the          *)
(* container and leaves the disk; clean-cache removes both directories.    *)
(*                                                                         *)
(* One create at a time, with one disk, that may fail or be interrupted at *)
(* every step.  A file is abstracted to where its bytes come from, whether *)
(* they are all there, whether they begin with the qcow2 magic and whether *)
(* the disk was enlarged.  What guests write is left out, and so is the    *)
(* temporary container that an image is copied from.                       *)
(***************************************************************************)
CONSTANTS
    VMs,       \* VM names
    Images,    \* references of container disk images
    Locals,    \* disk files of the user outside the cache
    Key,       \* Key[m]: the image reference with / : @ replaced by _
    Ships,     \* Ships[m]: what /disk of the image holds
    None,      \* not a file, not a container
    Hazards    \* what else may happen, see below

\* "cp": podman cp fails or is interrupted half-way
\* "exists": the check for an existing VM fails with a status of the service
\* "clean": clean-cache
\* "alias": --disk names a resized disk of the cache
AllHazards == {"cp", "exists", "clean", "alias"}

ASSUME HazardsAssumption == Hazards \subseteq AllHazards
ASSUME ShipsAssumption ==
    Ships \in [Images -> {"raw disk.img", "qcow2 disk.img", "disk.qcow2", "nothing"}]

VARIABLES
    file,   \* file[f]: what path f holds
    ctr,    \* ctr[v]: the disk the container of v was created with
    pc,     \* next step of create
    vm,     \* the VM it creates
    src,    \* the source on its command line
    size,   \* --disk-size, compared with the virtual size of the source
    path    \* disk.Source.Image

request == <<vm, src, size>>
vars == <<file, ctr, pc, request, path>>

Keys == {Key[m] : m \in Images}
Img(k) == <<"disk.img", k>>
Qcow2(k) == <<"disk.qcow2", k>>
Sized(v) == <<"resized", v>>
Local(u) == <<"local", u>>
Extracted == {Img(k) : k \in Keys} \cup {Qcow2(k) : k \in Keys}
Resized == {Sized(v) : v \in VMs}
LocalPaths == {Local(u) : u \in Locals}
Paths == Extracted \cup Resized \cup LocalPaths

Origins == Images \cup Locals
Contents == [of : Origins, whole : BOOLEAN, magic : BOOLEAN, grown : BOOLEAN]
Disk(o, whole, magic) == [of |-> o, whole |-> whole, magic |-> magic, grown |-> FALSE]

ASSUME NoneAssumption == None \notin Contents

Sizes == {"none", "smaller", "same", "larger"}
\* The steps that make the resized copy.
Sizing == {"inspect", "remove", "convert", "resize"}
\* The steps before the path of a container disk is known.
Extracting == {"find", "pull", "copy", "copying", "refind"}
Labels == {"idle", "validate", "exists", "image", "vm"} \cup Extracting \cup Sizing

Init ==
    /\ file = [f \in Paths |->
                 IF f[1] = "local" THEN Disk(f[2], TRUE, FALSE) ELSE None]
    /\ ctr = [v \in VMs |-> None]
    /\ pc = "idle"
    /\ vm = None /\ src = None /\ size = "none" /\ path = None

Go(l) == pc' = l /\ UNCHANGED <<request, path>>
Use(f, l) == path' = f /\ pc' = l /\ UNCHANGED request

\* create ends, by an error or when it is done; its locals go, and whatever it
\* has left in the cache stays.
End == pc' = "idle" /\ vm' = None /\ src' = None /\ size' = "none" /\ path' = None

-----------------------------------------------------------------------------
(* Container disks *)

\* A source is an image or a path; with "alias" a path in the cache, too.
Create ==
    /\ pc = "idle"
    /\ \E v \in VMs, s \in Sizes,
          i \in Images \cup LocalPaths
                \cup IF "alias" \in Hazards THEN Resized ELSE {} :
          /\ vm' = v /\ src' = i /\ size' = s
          /\ IF i \in Images THEN pc' = "find" /\ path' = None
             ELSE pc' = "validate" /\ path' = i
    /\ UNCHANGED <<file, ctr>>

\* findExtractedDisk: disk.qcow2, or disk.img, which is renamed if it is a
\* qcow2 file; called before and after the extraction.
FindExtractedDisk ==
    LET q == Qcow2(Key[src])
        i == Img(Key[src])
    IN  /\ pc \in {"find", "refind"}
        /\ \/ file[q] # None /\ Use(q, "validate") /\ UNCHANGED file
           \/ /\ file[q] = None /\ file[i] # None /\ file[i].magic
              /\ \/ /\ file' = [file EXCEPT ![q] = file[i], ![i] = None]
                    /\ Use(q, "validate")
                 \/ End /\ UNCHANGED file
           \/ /\ file[q] = None /\ file[i] # None /\ ~file[i].magic
              /\ Use(i, "validate") /\ UNCHANGED file
           \/ /\ file[q] = None /\ file[i] = None
              /\ IF pc = "find" THEN Go("pull") ELSE End
              /\ UNCHANGED file
        /\ UNCHANGED ctr

\* podman pull, and podman create of the container that is copied from.
Pull ==
    /\ pc = "pull"
    /\ Go("copy") \/ End
    /\ UNCHANGED <<file, ctr>>

\* The file that podman cp writes: the qcow2 magic is there once the first
\* bytes are.
ShippedAs(m) == IF Ships[m] = "disk.qcow2" THEN Qcow2(Key[m]) ELSE Img(Key[m])
Shipped(m) == Disk(m, TRUE, Ships[m] # "raw disk.img")

StartCopy ==
    /\ pc = "copy"
    /\ \/ /\ Ships[src] # "nothing"
          /\ \E magic \in {FALSE, Shipped(src).magic} :
                file' = [file EXCEPT ![ShippedAs(src)] = Disk(src, FALSE, magic)]
          /\ Go("copying")
       \/ Ships[src] = "nothing" /\ Go("refind") /\ UNCHANGED file
       \/ End /\ UNCHANGED file
    /\ UNCHANGED ctr

\* Mutant: the error of podman cp is not looked at.
EndCopyUnchecked ==
    /\ pc = "copying"
    /\ Go("refind")
    /\ UNCHANGED <<file, ctr>>

\* Nothing cleans up after a podman cp that fails.
EndCopy ==
    /\ pc = "copying"
    /\ \/ file' = [file EXCEPT ![ShippedAs(src)] = Shipped(src)] /\ Go("refind")
       \/ "cp" \in Hazards /\ End /\ UNCHANGED file
    /\ UNCHANGED ctr

-----------------------------------------------------------------------------
(* The checks before the VM is made *)

\* Validate: the disk must be there; other parts of the configuration may be
\* wrong.
Validate ==
    /\ pc = "validate"
    /\ \/ file[path] # None /\ Go("exists")
       \/ End
    /\ UNCHANGED <<file, ctr>>

\* Mutant: create does not look for a VM of this name.
ExistsVMUnchecked ==
    /\ pc = "exists"
    /\ Go("image")
    /\ UNCHANGED <<file, ctr>>

\* ExistsVM; a status that is neither "found" nor "not found" reads as the
\* latter.
ExistsVM ==
    /\ pc = "exists"
    /\ \/ /\ ctr[vm] = None \/ "exists" \in Hazards
          /\ Go("image")
       \/ End
    /\ UNCHANGED <<file, ctr>>

\* EnsureImage, of the launcher image.
EnsureImage ==
    /\ pc = "image"
    /\ Go(IF size = "none" THEN "vm" ELSE "inspect") \/ End
    /\ UNCHANGED <<file, ctr>>

-----------------------------------------------------------------------------
(* prepareSizedDisks and buildSizedDiskImage *)

\* qemu-img info on the source, and the size compared with its virtual size.
InspectDiskImage ==
    /\ pc = "inspect"
    /\ \/ file[path] # None /\ size # "smaller" /\ Go("remove")
       \/ End
    /\ UNCHANGED <<file, ctr>>

\* A previous resized disk of a VM of this name is removed.
RemovePrevious ==
    /\ pc = "remove"
    /\ \/ file' = [file EXCEPT ![Sized(vm)] = None] /\ Go("convert")
       \/ End /\ UNCHANGED file
    /\ UNCHANGED ctr

\* qemu-img convert to a qcow2 file; it fails without a source, and an error
\* leaves a part of the copy, or none.
Convert ==
    /\ pc = "convert"
    /\ \/ /\ file[path] # None
          /\ file' = [file EXCEPT ![Sized(vm)] = [file[path] EXCEPT !.magic = TRUE]]
          /\ IF size = "larger" THEN Go("resize") ELSE Use(Sized(vm), "vm")
       \/ /\ file[path] # None
          /\ file' = [file EXCEPT ![Sized(vm)] = Disk(file[path].of, FALSE, TRUE)]
          /\ End
       \/ End /\ UNCHANGED file
    /\ UNCHANGED ctr

\* Mutant: qemu-img resize is given the source.
ResizeInPlace ==
    /\ pc = "resize"
    /\ file' = [file EXCEPT ![path].grown = TRUE]
    /\ Use(Sized(vm), "vm")
    /\ UNCHANGED ctr

\* qemu-img resize of the copy, which is then the disk of the VM.
Resize ==
    /\ pc = "resize"
    /\ \/ /\ file' = [file EXCEPT ![Sized(vm)].grown = TRUE]
          /\ Use(Sized(vm), "vm")
       \/ End /\ UNCHANGED file
    /\ UNCHANGED ctr

-----------------------------------------------------------------------------
(* The container, and what else happens to disks *)

\* CreateVM: the container mounts the path; Podman refuses a name in use, and
\* the support directory or the call may fail.
CreateVM ==
    /\ pc = "vm"
    /\ \/ /\ ctr[vm] = None
          /\ ctr' = [ctr EXCEPT ![vm] =
                       [path |-> path, src |-> src, grown |-> size = "larger"]]
       \/ UNCHANGED ctr
    /\ End
    /\ UNCHANGED file

\* The container goes, its disk stays.
Delete(v) ==
    /\ ctr[v] # None
    /\ ctr' = [ctr EXCEPT ![v] = None]
    /\ UNCHANGED <<file, pc, request, path>>

\* containerdisks, then resized-disks; an error or an interrupt leaves a part.
CleanCache ==
    /\ "clean" \in Hazards
    /\ pc = "idle"
    /\ \E gone \in SUBSET (Extracted \cup Resized) :
          /\ gone \cap Resized # {} => Extracted \subseteq gone
          /\ file' = [f \in Paths |-> IF f \in gone THEN None ELSE file[f]]
    /\ UNCHANGED <<ctr, pc, request, path>>

\* Ctrl-C; in the middle of podman cp it is a half-way copy.
Kill ==
    /\ pc # "idle"
    /\ pc = "copying" => "cp" \in Hazards
    /\ End
    /\ UNCHANGED <<file, ctr>>

Next ==
    \/ Create \/ FindExtractedDisk \/ Pull \/ StartCopy \/ EndCopy
    \/ Validate \/ ExistsVM \/ EnsureImage
    \/ InspectDiskImage \/ RemovePrevious \/ Convert \/ Resize \/ CreateVM
    \/ CleanCache \/ Kill
    \/ \E v \in VMs : Delete(v)

Spec == Init /\ [][Next]_vars

-----------------------------------------------------------------------------
(* Properties *)

\* The types of the state.
TypeOK ==
    /\ file \in [Paths -> Contents \cup {None}]
    /\ ctr \in [VMs -> [path : Paths, src : Images \cup Paths, grown : BOOLEAN]
                         \cup {None}]
    /\ pc \in Labels
    /\ vm \in VMs \cup {None}
    /\ src \in Images \cup Paths \cup {None}
    /\ size \in Sizes
    /\ path \in Paths \cup {None}

\* d is all of the disk that source s names.
IsDiskOf(d, s) == d.whole /\ s \in {d.of, Local(d.of)}

\* The disk that a VM mounts is, as long as it is there, all of the image or
\* file that create was given, and of the size that was asked for: not the
\* rest of an interrupted create, not the disk of another image, and not
\* replaced by a later create ("cached by image reference").
NoWrongDisk ==
    pc # "copying" =>
        \A v \in VMs :
            LET c == ctr[v] IN
            c # None /\ file[c.path] # None =>
                IsDiskOf(file[c.path], c.src) /\ (c.grown => file[c.path].grown)

\* A container disk in the cache is all of the image it is named after, but for
\* the file that podman cp is writing.
CachedWhole ==
    \A m \in Images : \A f \in {Img(Key[m]), Qcow2(Key[m])} :
        /\ file[f] # None => file[f].of = m
        /\ file[f] # None /\ ~file[f].whole =>
              pc = "copying" /\ src = m /\ f = ShippedAs(m)

\* Where the disk of a source may be: in the cache, or where the user has it.
FilesOf(s) == IF s \in Images THEN {Img(Key[s]), Qcow2(Key[s])} ELSE {s}

\* Once create has a path it holds the disk that was asked for, and so does the
\* copy that is made of it.
PathOfSource ==
    /\ pc # "idle" => vm \in VMs
    /\ pc \in Extracting => src \in Images
    /\ pc \in Labels \ (Extracting \cup {"idle"}) =>
          /\ src \in Images \cup LocalPaths
          /\ path \in FilesOf(src) \cup {Sized(vm)}
          /\ file[path] # None => IsDiskOf(file[path], src)
    /\ pc \in Labels \ (Extracting \cup {"idle", "vm"}) => path \in FilesOf(src)
    /\ pc = "resize" => file[Sized(vm)] # None /\ IsDiskOf(file[Sized(vm)], src)
    /\ pc = "vm" /\ size = "larger" =>
          path = Sized(vm) /\ file[path] # None /\ file[path].grown

\* A container has the disk of its source or the resized disk of its name, which
\* an enlarged disk always is; create works on the resized disk of a VM that
\* does not exist.
OwnDisk ==
    /\ \A v \in VMs : ctr[v] # None =>
          /\ ctr[v].src \in Images \cup LocalPaths
          /\ ctr[v].path \in FilesOf(ctr[v].src) \cup {Sized(v)}
          /\ ctr[v].grown => ctr[v].path = Sized(v)
    /\ pc \in Sizing \cup {"image", "vm"} => ctr[vm] = None

\* The resized disk that a VM has is whole and as large as was asked for.
ResizedRight ==
    \A v \in VMs :
        LET c == ctr[v] IN
        c # None /\ c.path = Sized(v) /\ file[Sized(v)] # None =>
            IsDiskOf(file[Sized(v)], c.src) /\ (c.grown => file[Sized(v)].grown)

\* The user's own disk files stay as they are.
LocalsKept == \A u \in Locals : file[Local(u)] = Disk(u, TRUE, FALSE)

\* What commands run one at a time keep, when podman cp is not cut short and no
\* two images share a cache directory.
DiskInv ==
    /\ TypeOK
    /\ CachedWhole
    /\ PathOfSource
    /\ OwnDisk
    /\ LocalsKept
    /\ ResizedRight

\* The disk.img of an image begins with the qcow2 magic, once all of it is
\* written, iff the image ships a qcow2 file.
ImgMagic ==
    \A m \in Images :
        LET d == file[Img(Key[m])] IN
        d # None => /\ d.magic => Ships[m] # "raw disk.img"
                    /\ d.whole /\ ~d.magic => Ships[m] = "raw disk.img"

\* findExtractedDisk renames such a file before it is used: what create uses,
\* and what a VM mounts, as disk.img is never renamed.
RawImg ==
    \A m \in Images :
        /\ pc \notin Extracting \cup {"idle"} /\ path = Img(Key[m]) =>
              Ships[m] = "raw disk.img"
        /\ \A v \in VMs : ctr[v] # None /\ ctr[v].path = Img(Key[m]) =>
              Ships[m] = "raw disk.img"

\* Every VM has its disk ("safe to delete; they will be recreated as needed").
DiskThere == \A v \in VMs : ctr[v] # None => file[ctr[v].path] # None

\* Making a resized copy leaves the source as it is ("The source image is
\* never modified in place").
SourceUntouched == [][(pc \in Sizing) => file'[path] = file[path]]_vars

\* create, wherever it fails or is interrupted, never takes away the disk of a
\* VM that exists, be it of the same name or of the same image.
DiskKept ==
    [][pc # "idle" =>
          \A v \in VMs :
              ctr[v] # None /\ file[ctr[v].path] # None => file'[ctr[v].path] # None]_vars
=============================================================================
