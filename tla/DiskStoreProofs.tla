-------------------------- MODULE DiskStoreProofs --------------------------
(***************************************************************************)
(* Proofs about DiskStore for any VMs, images, files and cache keys.       *)
(***************************************************************************)
EXTENDS DiskStore, TLAPS

\* No two image references have one cache directory.
KeysApart == \A m, n \in Images : Key[m] = Key[n] => m = n

\* The circumstances under which DiskInv holds: podman cp runs to its end, the
\* check for an existing VM tells the truth, and no source is a disk of the
\* cache.  The run disk_copy shows that podman cp matters.
Careful == Hazards \subseteq {"clean"} /\ KeysApart

\* The kinds of paths do not overlap, and a path tells its key, VM or name.
LEMMA PathsApart ==
  /\ \A m \in Images : {Img(Key[m]), Qcow2(Key[m])} \subseteq Extracted
  /\ \A v \in VMs : Sized(v) \in Resized
  /\ \A u \in Locals : Local(u) \in LocalPaths
  /\ \A v \in VMs : Sized(v) \notin Extracted \cup LocalPaths
  /\ Extracted \cap LocalPaths = {} /\ Extracted \cap Resized = {}
  /\ LocalPaths \cap Resized = {}
  /\ \A k, l : Img(k) # Qcow2(l)
  /\ \A k, l : (Img(k) = Img(l) \/ Qcow2(k) = Qcow2(l)) => k = l
  /\ \A v, w : Sized(v) = Sized(w) => v = w
  BY DEF Img, Qcow2, Sized, Local, Extracted, Resized, LocalPaths, Keys

-----------------------------------------------------------------------------
(* The source of a resized copy *)

\* Without "alias" the path that a resized copy is made of is not a resized
\* disk.
SourceInv ==
    /\ file = [f \in Paths |-> file[f]]
    /\ pc \in Extracting => src \in Images
    /\ pc \in Labels \ (Extracting \cup {"idle", "vm"}) =>
          path \in Extracted \cup LocalPaths
    /\ pc \in Labels

\* Nothing is under way at first.
LEMMA SourceInit == Init => SourceInv
  BY DEF Init, SourceInv, Labels, Extracting, Sizing

\* create gets its path from the command line or from findExtractedDisk.
LEMMA SourceStep ==
  ASSUME SourceInv, [Next]_vars, "alias" \notin Hazards
  PROVE  SourceInv'
  <1> USE DEF SourceInv, Labels, Extracting, Sizing
  <1>1. CASE Create
    BY <1>1 DEF Create
  <1>2. CASE FindExtractedDisk
    <2>1. src \in Images
      BY <1>2 DEF FindExtractedDisk
    <2>2. {Img(Key[src]), Qcow2(Key[src])} \subseteq Extracted
      BY <2>1, PathsApart
    <2> QED BY <1>2, <2>1, <2>2 DEF FindExtractedDisk, Use, Go, End, request
  <1>3. CASE Pull \/ StartCopy \/ EndCopy
    BY <1>3 DEF Pull, StartCopy, EndCopy, Go, End, request
  <1>4. CASE Validate \/ ExistsVM \/ EnsureImage \/ InspectDiskImage \/ RemovePrevious
    BY <1>4 DEF Validate, ExistsVM, EnsureImage, InspectDiskImage, RemovePrevious,
                Go, End, request
  <1>5. CASE Convert \/ Resize
    BY <1>5 DEF Convert, Resize, Use, Go, End, request
  <1>6. CASE CreateVM \/ CleanCache \/ Kill \/ \E v \in VMs : Delete(v)
    BY <1>6 DEF CreateVM, CleanCache, Kill, Delete, End, request
  <1>7. CASE UNCHANGED vars
    BY <1>7 DEF vars, request
  <1> QED BY <1>1, <1>2, <1>3, <1>4, <1>5, <1>6, <1>7 DEF Next

\* Only the resized disk of the VM is written while a copy is made.
LEMMA SourceKept ==
  ASSUME SourceInv, Next, pc \in Sizing
  PROVE  file'[path] = file[path]
  <1>1. path \in Extracted \cup LocalPaths
    BY DEF SourceInv, Labels, Extracting, Sizing
  <1>2. path \in Paths /\ path # Sized(vm)
    BY <1>1 DEF Paths, Extracted, LocalPaths, Img, Qcow2, Local, Sized
  <1>3. ~Create /\ ~FindExtractedDisk /\ ~Pull /\ ~StartCopy /\ ~EndCopy
        /\ ~Validate /\ ~ExistsVM /\ ~EnsureImage /\ ~CreateVM /\ ~CleanCache
    BY DEF Sizing, Create, FindExtractedDisk, Pull, StartCopy, EndCopy, Validate,
           ExistsVM, EnsureImage, CreateVM, CleanCache
  <1>4. CASE InspectDiskImage \/ Kill \/ \E v \in VMs : Delete(v)
    BY <1>4 DEF InspectDiskImage, Kill, Delete
  <1>5. CASE RemovePrevious \/ Convert \/ Resize
    BY <1>2, <1>5 DEF RemovePrevious, Convert, Resize, SourceInv
  <1> QED BY <1>3, <1>4, <1>5 DEF Next

\* buildSizedDiskImage never changes the image it copies, whatever fails or is
\* interrupted and whatever clean-cache removed before, unless the source is
\* itself a disk of resized-disks ("The source image is never modified in
\* place").
THEOREM SourceSafe == "alias" \notin Hazards => (Spec => SourceUntouched)
  <1> SUFFICES ASSUME "alias" \notin Hazards PROVE Spec => SourceUntouched
    OBVIOUS
  <1>1. Init => SourceInv
    BY SourceInit
  <1>2. SourceInv /\ [Next]_vars => SourceInv'
    BY SourceStep
  <1>3. SourceInv /\ [Next]_vars
          => [(pc \in Sizing) => file'[path] = file[path]]_vars
    BY SourceKept DEF vars
  <1> QED BY <1>1, <1>2, <1>3, PTL DEF Spec, SourceUntouched

-----------------------------------------------------------------------------
(* The right disk for every VM *)

\* The cache is empty and there is no VM at first.
LEMMA InitInv == Init => DiskInv
  <1> SUFFICES ASSUME Init PROVE DiskInv
    OBVIOUS
  <1>1. \A u \in Locals : file[Local(u)] = Disk(u, TRUE, FALSE)
    BY DEF Init, Local, Paths, LocalPaths
  <1>2. \A f \in Extracted \cup Resized : file[f] = None
    <2>1. \A k \in Keys : file[Img(k)] = None /\ file[Qcow2(k)] = None
      BY DEF Init, Paths, Extracted, Img, Qcow2
    <2>2. \A v \in VMs : file[Sized(v)] = None
      BY DEF Init, Paths, Resized, Sized
    <2> QED BY <2>1, <2>2 DEF Extracted, Resized
  <1>3. TypeOK
    <2>1. file \in [Paths -> Contents \cup {None}]
      <3>1. \A u \in Locals : Disk(u, TRUE, FALSE) \in Contents
        BY DEF Contents, Origins, Disk
      <3>2. \A f \in Paths : file[f] \in Contents \cup {None}
        BY <1>1, <1>2, <3>1 DEF Paths, LocalPaths
      <3>3. file = [f \in Paths |-> file[f]]
        BY DEF Init
      <3> QED BY <3>2, <3>3
    <2> QED BY <2>1 DEF Init, TypeOK, Labels, Sizes
  <1>4. CachedWhole
    BY <1>2, PathsApart DEF CachedWhole
  <1>5. PathOfSource /\ OwnDisk /\ LocalsKept /\ ResizedRight
    BY <1>1 DEF Init, PathOfSource, OwnDisk, LocalsKept, ResizedRight,
                Extracting, Sizing
  <1> QED BY <1>3, <1>4, <1>5 DEF DiskInv

\* create begins.
LEMMA CreateInv ==
  ASSUME DiskInv, Careful, Create
  PROVE  DiskInv'
  <1>1. PICK v \in VMs, s \in Sizes, i \in Images \cup LocalPaths :
           /\ vm' = v /\ src' = i /\ size' = s
           /\ IF i \in Images THEN pc' = "find" /\ path' = None
              ELSE pc' = "validate" /\ path' = i
    BY DEF Create, Careful
  <1>2. pc = "idle" /\ UNCHANGED <<file, ctr>>
    BY DEF Create
  <1>3. TypeOK'
    BY <1>1, <1>2 DEF DiskInv, TypeOK, Labels, Extracting, Paths
  <1>4. PathOfSource'
    <2>1. ASSUME pc' = "validate"
          PROVE  IsDiskOf(file[path'], src')
      <3>1. PICK u \in Locals : i = Local(u)
        BY <1>1, <2>1 DEF LocalPaths
      <3>2. file[i] = Disk(u, TRUE, FALSE)
        BY <3>1 DEF DiskInv, LocalsKept
      <3> QED BY <1>1, <2>1, <3>1, <3>2 DEF IsDiskOf, Disk
    <2> QED BY <1>1, <1>2, <2>1 DEF PathOfSource, FilesOf, Labels, Extracting, Sizing, Paths
  <1>5. CachedWhole' /\ LocalsKept' /\ ResizedRight' /\ OwnDisk'
    BY <1>1, <1>2 DEF DiskInv, CachedWhole, LocalsKept, ResizedRight, OwnDisk, Sizing
  <1> QED BY <1>3, <1>4, <1>5 DEF DiskInv

\* Where nothing is written, CachedWhole, LocalsKept and the disks of containers
\* depend on the step of create only while it copies.
LEMMA QuietStep ==
  ASSUME DiskInv, UNCHANGED <<file, ctr>>, pc # "copying"
  PROVE  CachedWhole' /\ LocalsKept' /\ ResizedRight'
  BY DEF DiskInv, CachedWhole, LocalsKept, ResizedRight

\* create ends without a change to files or containers.
LEMMA EndInv ==
  ASSUME DiskInv, End, UNCHANGED <<file, ctr>>, pc # "copying"
  PROVE  DiskInv'
  <1>1. TypeOK' /\ PathOfSource' /\ OwnDisk'
    BY DEF End, DiskInv, TypeOK, PathOfSource, OwnDisk, Labels, Extracting, Sizing,
           Sizes
  <1> QED BY <1>1, QuietStep DEF DiskInv

\* The steps that only look: a pull, the checks, the inspection of the source.
LEMMA LookInv ==
  ASSUME DiskInv, Careful,
         Pull \/ Validate \/ ExistsVM \/ EnsureImage \/ InspectDiskImage
  PROVE  DiskInv'
  <1>1. UNCHANGED <<file, ctr>> /\ pc # "copying"
    BY DEF Pull, Validate, ExistsVM, EnsureImage, InspectDiskImage
  <1>2. CASE End
    BY <1>1, <1>2, EndInv
  <1>3. CASE ~End
    <2>1. UNCHANGED <<vm, src, size, path>>
      BY <1>3 DEF Pull, Validate, ExistsVM, EnsureImage, InspectDiskImage, Go, request
    <2>2. \/ pc = "pull" /\ pc' = "copy"
          \/ pc = "validate" /\ pc' = "exists"
          \/ pc = "exists" /\ pc' = "image" /\ ctr[vm] = None
          \/ pc = "image" /\ pc' = "vm" /\ size = "none"
          \/ pc = "image" /\ pc' = "inspect"
          \/ pc = "inspect" /\ pc' = "remove"
      BY <1>3 DEF Pull, Validate, ExistsVM, EnsureImage, InspectDiskImage, Go, Careful
    <2>3. TypeOK'
      BY <1>1, <2>1, <2>2 DEF DiskInv, TypeOK, Labels, Extracting, Sizing
    <2>4. PathOfSource'
      BY <1>1, <2>1, <2>2 DEF DiskInv, PathOfSource, Labels, Extracting, Sizing
    <2>5. OwnDisk'
      BY <1>1, <2>1, <2>2 DEF DiskInv, OwnDisk, Sizing
    <2> QED BY <1>1, <2>3, <2>4, <2>5, QuietStep DEF DiskInv
  <1> QED BY <1>2, <1>3

\* The disks of the containers are right outside of a copy: the cache and the
\* user's files are as they should be, and so are the resized disks.
LEMMA RightDisks == DiskInv => NoWrongDisk
  <1> SUFFICES ASSUME DiskInv, pc # "copying",
                      NEW v \in VMs, ctr[v] # None, file[ctr[v].path] # None
               PROVE  /\ IsDiskOf(file[ctr[v].path], ctr[v].src)
                      /\ ctr[v].grown => file[ctr[v].path].grown
    BY DEF NoWrongDisk
  <1> DEFINE c == ctr[v]
  <1>1. CASE c.path = Sized(v)
    BY <1>1 DEF DiskInv, ResizedRight
  <1>2. CASE c.path # Sized(v) /\ c.src \in Images
    <2>1. c.path \in {Img(Key[c.src]), Qcow2(Key[c.src])} /\ ~c.grown
      BY <1>2 DEF DiskInv, OwnDisk, FilesOf
    <2>2. file[c.path].of = c.src /\ file[c.path].whole
      BY <1>2, <2>1 DEF DiskInv, CachedWhole
    <2> QED BY <2>1, <2>2 DEF IsDiskOf
  <1>3. CASE c.path # Sized(v) /\ c.src \notin Images
    <2>1. c.path = c.src /\ c.src \in LocalPaths /\ ~c.grown
      BY <1>3 DEF DiskInv, OwnDisk, FilesOf
    <2>2. PICK u \in Locals : c.src = Local(u)
      BY <2>1 DEF LocalPaths
    <2>3. file[c.path] = Disk(u, TRUE, FALSE)
      BY <2>1, <2>2 DEF DiskInv, LocalsKept
    <2> QED BY <2>1, <2>2, <2>3 DEF IsDiskOf, Disk
  <1> QED BY <1>1, <1>2, <1>3

\* findExtractedDisk: the rename moves a whole disk within its directory.
LEMMA FindInv ==
  ASSUME DiskInv, Careful, FindExtractedDisk
  PROVE  DiskInv'
  <1> DEFINE q == Qcow2(Key[src])
             i == Img(Key[src])
  <1>1. pc \in {"find", "refind"} /\ UNCHANGED ctr /\ src \in Images /\ vm \in VMs
    BY DEF FindExtractedDisk, DiskInv, PathOfSource, Extracting
  <1>2. q \in Extracted /\ i \in Extracted /\ q # i /\ {q, i} = FilesOf(src)
    BY <1>1, PathsApart DEF FilesOf
  <1>3. \A f \in {q, i} : file[f] # None => IsDiskOf(file[f], src)
    BY <1>1 DEF DiskInv, CachedWhole, IsDiskOf
  <1>4. CASE End /\ UNCHANGED file
    BY <1>1, <1>4, EndInv
  <1>5. CASE Go("pull") /\ UNCHANGED file
    <2>1. TypeOK'
      BY <1>1, <1>5 DEF DiskInv, TypeOK, Go, request, Labels, Extracting
    <2>2. PathOfSource' /\ OwnDisk'
      BY <1>1, <1>5 DEF DiskInv, PathOfSource, OwnDisk, Go, request, Labels, Extracting,
                        Sizing
    <2> QED BY <1>1, <1>5, <2>1, <2>2, QuietStep DEF DiskInv
  <1>6. ASSUME NEW f \in {q, i}, file[f] # None, Use(f, "validate"), UNCHANGED file
        PROVE  DiskInv'
    <2>1. TypeOK'
      BY <1>1, <1>2, <1>6 DEF DiskInv, TypeOK, Use, request, Labels, Paths
    <2>2. OwnDisk'
      BY <1>1, <1>6 DEF DiskInv, OwnDisk, Use, Sizing
    <2>3. PathOfSource'
      BY <1>1, <1>2, <1>3, <1>6 DEF PathOfSource, Use, request, Labels, Extracting, Sizing
    <2> QED BY <1>1, <1>6, <2>1, <2>2, <2>3, QuietStep DEF DiskInv
  <1>7. CASE /\ file[q] = None /\ file[i] # None
             /\ file' = [file EXCEPT ![q] = file[i], ![i] = None]
             /\ Use(q, "validate")
    <2>0. file \in [Paths -> Contents \cup {None}] /\ q \in Paths /\ i \in Paths
      BY <1>2 DEF DiskInv, TypeOK, Paths
    <2>1. /\ file'[q] = file[i] /\ file'[i] = None
          /\ \A f \in Paths \ {q, i} : file'[f] = file[f]
          /\ file' \in [Paths -> Contents \cup {None}]
      BY <1>2, <1>7, <2>0
    <2>2. TypeOK'
      BY <1>1, <1>7, <2>0, <2>1 DEF DiskInv, TypeOK, Use, request, Labels
    <2>3. OwnDisk'
      BY <1>1, <1>7 DEF DiskInv, OwnDisk, Use, Sizing
    <2>4. PathOfSource'
      <3>1. pc' = "validate" /\ path' = q /\ src' = src /\ vm' = vm
        BY <1>7 DEF Use, request
      <3>2. q \in FilesOf(src) /\ IsDiskOf(file'[q], src)
        BY <1>2, <1>3, <1>7, <2>1
      <3> QED BY <1>1, <3>1, <3>2 DEF PathOfSource, Labels, Extracting, Sizing
    <2>5. LocalsKept'
      <3>1. \A u \in Locals : Local(u) \in Paths \ {q, i}
        BY <1>2, PathsApart DEF Paths
      <3> QED BY <2>1, <3>1 DEF DiskInv, LocalsKept
    <2>6. CachedWhole'
      <3> SUFFICES ASSUME NEW m \in Images, NEW f \in {Img(Key[m]), Qcow2(Key[m])},
                          file'[f] # None
                   PROVE  file'[f].of = m /\ file'[f].whole
        BY DEF CachedWhole
      <3>1. CASE f \in {q, i}
        <4>1. f = q /\ Key[m] = Key[src]
          BY <3>1, <2>1, PathsApart
        <4>2. m = src
          BY <4>1, <1>1 DEF Careful, KeysApart
        <4> QED BY <4>1, <4>2, <1>1, <1>7, <2>1 DEF DiskInv, CachedWhole
      <3>2. CASE f \notin {q, i}
        <4>1. f \in Paths
          BY PathsApart DEF Paths
        <4>2. file'[f] = file[f]
          BY <3>2, <4>1, <2>1
        <4> QED BY <4>2, <1>1 DEF DiskInv, CachedWhole
      <3> QED BY <3>1, <3>2
    <2>7. ResizedRight'
      <3>1. \A v \in VMs : file'[Sized(v)] = file[Sized(v)]
        BY <1>2, <2>1, PathsApart DEF Paths
      <3> QED BY <1>1, <3>1 DEF DiskInv, ResizedRight
    <2> QED BY <2>2, <2>3, <2>4, <2>5, <2>6, <2>7 DEF DiskInv
  <1> QED BY <1>1, <1>4, <1>5, <1>6, <1>7 DEF FindExtractedDisk

\* Writing one file of the directory of src leaves the directories of other
\* images, the user's files and the resized disks alone.
LEMMA ShippedApart ==
  ASSUME DiskInv, Careful, src \in Images,
         NEW d, file' = [file EXCEPT ![ShippedAs(src)] = d]
  PROVE  /\ ShippedAs(src) \in Paths
         /\ file'[ShippedAs(src)] = d
         /\ \A u \in Locals : file'[Local(u)] = file[Local(u)]
         /\ \A v \in VMs : file'[Sized(v)] = file[Sized(v)]
         /\ \A m \in Images : \A f \in {Img(Key[m]), Qcow2(Key[m])} :
               file'[f] # file[f] => m = src /\ f = ShippedAs(src)
  <1> DEFINE g == ShippedAs(src)
  <1>1. g \in {Img(Key[src]), Qcow2(Key[src])}
    BY DEF ShippedAs
  <1>2. g \in Extracted /\ g \in Paths
    BY <1>1, PathsApart DEF Paths
  <1>3. file' = [file EXCEPT ![g] = d] /\ file \in [Paths -> Contents \cup {None}]
    BY DEF DiskInv, TypeOK
  <1> HIDE DEF g
  <1>4. file'[g] = d /\ \A f \in Paths \ {g} : file'[f] = file[f]
    BY <1>2, <1>3
  <1>5. /\ \A u \in Locals : Local(u) \in Paths \ {g}
        /\ \A v \in VMs : Sized(v) \in Paths \ {g}
    BY <1>2, PathsApart DEF Paths
  <1>6. ASSUME NEW m \in Images, NEW f \in {Img(Key[m]), Qcow2(Key[m])},
               file'[f] # file[f]
        PROVE  m = src /\ f = g
    <2>1. f \in Paths
      BY PathsApart DEF Paths
    <2>2. f = g
      BY <1>4, <1>6, <2>1
    <2>3. Key[m] = Key[src]
      BY <1>1, <2>2, PathsApart
    <2> QED BY <2>2, <2>3 DEF Careful, KeysApart
  <1> QED BY <1>2, <1>4, <1>5, <1>6 DEF g

\* podman cp begins to write.
LEMMA StartCopyInv ==
  ASSUME DiskInv, Careful, StartCopy
  PROVE  DiskInv'
  <1>1. pc = "copy" /\ UNCHANGED ctr /\ src \in Images /\ vm \in VMs
    BY DEF StartCopy, DiskInv, PathOfSource, Extracting
  <1>2. CASE End /\ UNCHANGED file
    BY <1>1, <1>2, EndInv
  <1>3. ASSUME Go("refind") \/ Go("copying")
        PROVE  PathOfSource' /\ OwnDisk'
    BY <1>1, <1>3 DEF DiskInv, PathOfSource, OwnDisk, Go, request, Labels, Extracting,
                      Sizing
  <1>4. CASE Go("refind") /\ UNCHANGED file
    <2>1. TypeOK'
      BY <1>1, <1>4 DEF DiskInv, TypeOK, Go, request, Labels, Extracting
    <2> QED BY <1>1, <1>3, <1>4, <2>1, QuietStep DEF DiskInv
  <1>5. ASSUME NEW magic \in BOOLEAN, Go("copying"),
               file' = [file EXCEPT ![ShippedAs(src)] = Disk(src, FALSE, magic)]
        PROVE  DiskInv'
    <2> DEFINE d == Disk(src, FALSE, magic)
    <2>1. d \in Contents /\ d.of = src /\ ~d.whole
      BY <1>1 DEF Disk, Contents, Origins
    <2>2. pc' = "copying" /\ src' = src
      BY <1>5 DEF Go, request
    <2>3. /\ ShippedAs(src) \in Paths
          /\ file'[ShippedAs(src)] = d
          /\ \A u \in Locals : file'[Local(u)] = file[Local(u)]
          /\ \A v \in VMs : file'[Sized(v)] = file[Sized(v)]
          /\ \A m \in Images : \A f \in {Img(Key[m]), Qcow2(Key[m])} :
                file'[f] # file[f] => m = src /\ f = ShippedAs(src)
      BY <1>1, <1>5, ShippedApart
    <2>4. TypeOK'
      <3>1. file' \in [Paths -> Contents \cup {None}]
        BY <1>5, <2>1, <2>3 DEF DiskInv, TypeOK
      <3> QED BY <1>1, <1>5, <3>1 DEF DiskInv, TypeOK, Go, request, Labels, Extracting
    <2>5. CachedWhole'
      BY <1>1, <2>1, <2>2, <2>3 DEF DiskInv, CachedWhole
    <2>6. LocalsKept' /\ ResizedRight'
      BY <1>1, <2>3 DEF DiskInv, LocalsKept, ResizedRight
    <2> QED BY <1>3, <1>5, <2>4, <2>5, <2>6 DEF DiskInv
  <1>6. Shipped(src).magic \in BOOLEAN
    BY DEF Shipped, Disk
  <1> QED BY <1>1, <1>2, <1>4, <1>5, <1>6 DEF StartCopy

\* podman cp ends; the file it wrote is the whole disk.
LEMMA EndCopyInv ==
  ASSUME DiskInv, Careful, EndCopy
  PROVE  DiskInv'
  <1>1. /\ pc = "copying" /\ UNCHANGED ctr /\ src \in Images /\ vm \in VMs
        /\ Go("refind") /\ file' = [file EXCEPT ![ShippedAs(src)] = Shipped(src)]
    BY DEF EndCopy, DiskInv, PathOfSource, Extracting, Careful
  <1>2. Shipped(src) \in Contents /\ Shipped(src).of = src /\ Shipped(src).whole
    BY <1>1 DEF Shipped, Disk, Contents, Origins
  <1>3. /\ ShippedAs(src) \in Paths
        /\ file'[ShippedAs(src)] = Shipped(src)
        /\ \A u \in Locals : file'[Local(u)] = file[Local(u)]
        /\ \A v \in VMs : file'[Sized(v)] = file[Sized(v)]
        /\ \A m \in Images : \A f \in {Img(Key[m]), Qcow2(Key[m])} :
              file'[f] # file[f] => m = src /\ f = ShippedAs(src)
    BY <1>1, ShippedApart
  <1>4. PathOfSource' /\ OwnDisk'
    BY <1>1 DEF DiskInv, PathOfSource, OwnDisk, Go, request, Labels, Extracting, Sizing
  <1>5. TypeOK'
    <2>1. file' \in [Paths -> Contents \cup {None}]
      BY <1>1, <1>2, <1>3 DEF DiskInv, TypeOK
    <2> QED BY <1>1, <2>1 DEF DiskInv, TypeOK, Go, request, Labels, Extracting
  <1>6. CachedWhole'
    BY <1>1, <1>2, <1>3 DEF DiskInv, CachedWhole
  <1>7. LocalsKept' /\ ResizedRight'
    BY <1>1, <1>3 DEF DiskInv, LocalsKept, ResizedRight
  <1> QED BY <1>4, <1>5, <1>6, <1>7 DEF DiskInv

\* The steps that make a resized copy write the resized disk of a VM that does
\* not exist, and no other file.
LEMMA ResizedApart ==
  ASSUME DiskInv, vm \in VMs, ctr[vm] = None, pc # "copying", UNCHANGED ctr,
         NEW d \in Contents \cup {None}, file' = [file EXCEPT ![Sized(vm)] = d]
  PROVE  /\ file' \in [Paths -> Contents \cup {None}]
         /\ file'[Sized(vm)] = d
         /\ \A f \in Extracted \cup LocalPaths : file'[f] = file[f]
         /\ CachedWhole' /\ LocalsKept' /\ ResizedRight'
  <1>1. Sized(vm) \in Paths /\ file \in [Paths -> Contents \cup {None}]
    BY PathsApart DEF DiskInv, TypeOK, Paths
  <1>2. /\ file' \in [Paths -> Contents \cup {None}]
        /\ file'[Sized(vm)] = d
        /\ \A f \in Paths \ {Sized(vm)} : file'[f] = file[f]
    BY <1>1
  <1>3. \A f \in Extracted \cup LocalPaths : file'[f] = file[f]
    BY <1>2, PathsApart DEF Paths
  <1>4. CachedWhole'
    <2>1. \A m \in Images : \A f \in {Img(Key[m]), Qcow2(Key[m])} : file'[f] = file[f]
      BY <1>3, PathsApart
    <2> QED BY <2>1 DEF DiskInv, CachedWhole
  <1>5. LocalsKept'
    <2>1. \A u \in Locals : file'[Local(u)] = file[Local(u)]
      BY <1>3, PathsApart
    <2> QED BY <2>1 DEF DiskInv, LocalsKept
  <1>6. ResizedRight'
    <2>1. \A v \in VMs \ {vm} : file'[Sized(v)] = file[Sized(v)]
      BY <1>2, PathsApart DEF Paths
    <2> QED BY <2>1 DEF DiskInv, ResizedRight
  <1> QED BY <1>2, <1>3, <1>4, <1>5, <1>6

\* The state of create while it makes a resized copy.
LEMMA SizingFacts ==
  ASSUME DiskInv, pc \in Sizing
  PROVE  /\ vm \in VMs /\ ctr[vm] = None /\ pc # "copying"
         /\ src \in Images \cup LocalPaths /\ path \in FilesOf(src)
         /\ path \in Extracted \cup LocalPaths /\ path \in Paths
         /\ file[path] # None => file[path] \in Contents /\ IsDiskOf(file[path], src)
  <1>1. pc \in Labels \ (Extracting \cup {"idle", "vm"})
    BY DEF Labels, Extracting, Sizing
  <1>2. /\ vm \in VMs /\ src \in Images \cup LocalPaths /\ path \in FilesOf(src)
        /\ file[path] # None => IsDiskOf(file[path], src)
    BY <1>1 DEF DiskInv, PathOfSource
  <1>3. path \in Extracted \cup LocalPaths /\ path \in Paths
    BY <1>2, PathsApart DEF FilesOf, Paths
  <1>4. ctr[vm] = None /\ pc # "copying"
    BY DEF DiskInv, OwnDisk, Sizing
  <1> QED BY <1>2, <1>3, <1>4 DEF DiskInv, TypeOK

\* Ending, or going on, after a write to the resized disk.
LEMMA SizingEnd ==
  ASSUME DiskInv, pc \in Sizing, End, UNCHANGED ctr,
         NEW d \in Contents \cup {None}, file' = [file EXCEPT ![Sized(vm)] = d]
  PROVE  DiskInv'
  <1>1. /\ file' \in [Paths -> Contents \cup {None}]
        /\ CachedWhole' /\ LocalsKept' /\ ResizedRight'
    BY SizingFacts, ResizedApart
  <1>2. TypeOK' /\ PathOfSource' /\ OwnDisk'
    BY <1>1 DEF End, DiskInv, TypeOK, PathOfSource, OwnDisk, Labels, Extracting, Sizing,
                Sizes
  <1> QED BY <1>1, <1>2 DEF DiskInv

\* A previous resized disk is removed.
LEMMA RemovePreviousInv ==
  ASSUME DiskInv, RemovePrevious
  PROVE  DiskInv'
  <1>1. pc = "remove" /\ pc \in Sizing /\ UNCHANGED ctr
    BY DEF RemovePrevious, Sizing
  <1>2. CASE End /\ UNCHANGED file
    BY <1>1, <1>2, EndInv
  <1>3. CASE file' = [file EXCEPT ![Sized(vm)] = None] /\ Go("convert")
    <2>1. /\ file' \in [Paths -> Contents \cup {None}] /\ file'[path] = file[path]
          /\ CachedWhole' /\ LocalsKept' /\ ResizedRight'
      BY <1>1, <1>3, SizingFacts, ResizedApart
    <2>2. pc' = "convert" /\ UNCHANGED <<vm, src, size, path>>
      BY <1>3 DEF Go, request
    <2>3. TypeOK' /\ OwnDisk'
      BY <1>1, <2>1, <2>2 DEF DiskInv, TypeOK, OwnDisk, Labels, Sizing
    <2>4. PathOfSource'
      BY <1>1, <2>1, <2>2, SizingFacts DEF PathOfSource, Labels, Extracting, Sizing
    <2> QED BY <2>1, <2>3, <2>4 DEF DiskInv
  <1> QED BY <1>1, <1>2, <1>3 DEF RemovePrevious

\* The copy, which is then the disk of the VM, or is resized first.
LEMMA ConvertInv ==
  ASSUME DiskInv, Convert
  PROVE  DiskInv'
  <1>1. pc = "convert" /\ pc \in Sizing /\ UNCHANGED ctr
    BY DEF Convert, Sizing
  <1>2. CASE End /\ UNCHANGED file
    BY <1>1, <1>2, EndInv
  <1>3. CASE /\ file[path] # None /\ End
             /\ file' = [file EXCEPT ![Sized(vm)] = Disk(file[path].of, FALSE, TRUE)]
    <2>1. Disk(file[path].of, FALSE, TRUE) \in Contents
      BY <1>1, <1>3, SizingFacts DEF Disk, Contents
    <2> QED BY <1>1, <1>3, <2>1, SizingEnd
  <1>4. CASE /\ file[path] # None
             /\ file' = [file EXCEPT ![Sized(vm)] = [file[path] EXCEPT !.magic = TRUE]]
             /\ IF size = "larger" THEN Go("resize") ELSE Use(Sized(vm), "vm")
    <2> DEFINE d == [file[path] EXCEPT !.magic = TRUE]
    <2>1. d \in Contents /\ IsDiskOf(d, src)
      BY <1>1, <1>4, SizingFacts DEF Contents, IsDiskOf
    <2> HIDE DEF d
    <2>2. file' = [file EXCEPT ![Sized(vm)] = d]
      BY <1>4 DEF d
    <2>3. /\ file' \in [Paths -> Contents \cup {None}] /\ file'[Sized(vm)] = d
          /\ file'[path] = file[path]
          /\ CachedWhole' /\ LocalsKept' /\ ResizedRight'
      BY <1>1, <2>1, <2>2, SizingFacts, ResizedApart
    <2>4. /\ UNCHANGED <<vm, src, size>>
          /\ \/ pc' = "resize" /\ path' = path
             \/ pc' = "vm" /\ path' = Sized(vm) /\ size # "larger"
      BY <1>4 DEF Go, Use, request
    <2>5. TypeOK' /\ OwnDisk'
      <3>1. path' \in Paths
        BY <1>1, <2>4, SizingFacts, PathsApart DEF Paths
      <3> QED BY <1>1, <2>3, <2>4, <3>1 DEF DiskInv, TypeOK, OwnDisk, Labels, Sizing
    <2>6. PathOfSource'
      <3>1. d # None
        BY <2>1, NoneAssumption
      <3>2. CASE pc' = "resize"
        BY <1>1, <2>1, <2>3, <2>4, <3>1, <3>2, SizingFacts
        DEF PathOfSource, Labels, Extracting, Sizing
      <3>3. CASE pc' = "vm"
        BY <1>1, <2>1, <2>3, <2>4, <3>1, <3>3, SizingFacts
        DEF PathOfSource, Labels, Extracting, Sizing
      <3> QED BY <2>4, <3>2, <3>3
    <2> QED BY <2>3, <2>5, <2>6 DEF DiskInv
  <1> QED BY <1>1, <1>2, <1>3, <1>4 DEF Convert

\* The copy grows and is then the disk of the VM.
LEMMA ResizeInv ==
  ASSUME DiskInv, Resize
  PROVE  DiskInv'
  <1>1. pc = "resize" /\ pc \in Sizing /\ UNCHANGED ctr
    BY DEF Resize, Sizing
  <1>2. CASE End /\ UNCHANGED file
    BY <1>1, <1>2, EndInv
  <1>3. CASE file' = [file EXCEPT ![Sized(vm)].grown = TRUE] /\ Use(Sized(vm), "vm")
    <2> DEFINE d == [file[Sized(vm)] EXCEPT !.grown = TRUE]
    <2>1. file[Sized(vm)] # None /\ IsDiskOf(file[Sized(vm)], src) /\ Sized(vm) \in Paths
      BY <1>1, SizingFacts, PathsApart DEF DiskInv, PathOfSource, Paths
    <2>2. d \in Contents /\ IsDiskOf(d, src) /\ d.grown
      BY <2>1 DEF DiskInv, TypeOK, Contents, IsDiskOf
    <2>3. file' = [file EXCEPT ![Sized(vm)] = d]
      BY <1>3
    <2> HIDE DEF d
    <2>4. /\ file' \in [Paths -> Contents \cup {None}] /\ file'[Sized(vm)] = d
          /\ CachedWhole' /\ LocalsKept' /\ ResizedRight'
      BY <1>1, <2>2, <2>3, SizingFacts, ResizedApart
    <2>5. pc' = "vm" /\ path' = Sized(vm) /\ UNCHANGED <<vm, src, size>>
      BY <1>3 DEF Use, request
    <2>6. TypeOK' /\ OwnDisk'
      BY <1>1, <2>1, <2>4, <2>5 DEF DiskInv, TypeOK, OwnDisk, Labels, Sizing
    <2>7. PathOfSource'
      BY <1>1, <2>2, <2>4, <2>5, SizingFacts, NoneAssumption
      DEF PathOfSource, Labels, Extracting, Sizing
    <2> QED BY <2>4, <2>6, <2>7 DEF DiskInv
  <1> QED BY <1>1, <1>2, <1>3 DEF Resize

\* The container mounts the path that create has found or made.
LEMMA CreateVMInv ==
  ASSUME DiskInv, CreateVM
  PROVE  DiskInv'
  <1>1. pc = "vm" /\ End /\ UNCHANGED file
    BY DEF CreateVM
  <1>2. CASE UNCHANGED ctr
    BY <1>1, <1>2, EndInv
  <1> DEFINE c == [path |-> path, src |-> src, grown |-> size = "larger"]
  <1>3. CASE ctr' = [ctr EXCEPT ![vm] = c]
    <2>1. /\ vm \in VMs /\ src \in Images \cup LocalPaths
          /\ path \in FilesOf(src) \cup {Sized(vm)}
          /\ file[path] # None => IsDiskOf(file[path], src)
          /\ size = "larger" => path = Sized(vm) /\ file[path].grown
      BY <1>1 DEF DiskInv, PathOfSource, Labels, Extracting
    <2>2. path \in Paths /\ src \in Images \cup Paths
      BY <2>1, PathsApart DEF FilesOf, Paths
    <2>3. ctr'[vm] = c /\ \A v \in VMs \ {vm} : ctr'[v] = ctr[v]
      BY <1>3, <2>1 DEF DiskInv, TypeOK
    <2>4. TypeOK'
      <3>1. ctr' \in [VMs -> [path : Paths, src : Images \cup Paths, grown : BOOLEAN]
                               \cup {None}]
        BY <1>3, <2>1, <2>2 DEF DiskInv, TypeOK
      <3> QED BY <1>1, <3>1 DEF DiskInv, TypeOK, End, Labels, Sizes
    <2>5. c.path = path /\ c.src = src /\ (c.grown <=> size = "larger")
      OBVIOUS
    <2> HIDE DEF c
    <2>6. OwnDisk'
      <3>1. \A v \in VMs : ctr'[v] # None =>
              /\ ctr'[v].src \in Images \cup LocalPaths
              /\ ctr'[v].path \in FilesOf(ctr'[v].src) \cup {Sized(v)}
              /\ ctr'[v].grown => ctr'[v].path = Sized(v)
        BY <2>5, <2>1, <2>3 DEF DiskInv, OwnDisk
      <3> QED BY <1>1, <3>1 DEF OwnDisk, End, Sizing
    <2>7. ResizedRight'
      <3>1. ASSUME NEW v \in VMs, ctr'[v] # None, ctr'[v].path = Sized(v),
                   file[Sized(v)] # None
            PROVE  /\ IsDiskOf(file[Sized(v)], ctr'[v].src)
                   /\ ctr'[v].grown => file[Sized(v)].grown
        <4>1. CASE v = vm
          BY <2>5, <2>1, <2>3, <3>1, <4>1
        <4>2. CASE v # vm
          BY <2>3, <3>1, <4>2 DEF DiskInv, ResizedRight
        <4> QED BY <4>1, <4>2
      <3> QED BY <1>1, <3>1 DEF ResizedRight
    <2>8. PathOfSource' /\ CachedWhole' /\ LocalsKept'
      BY <1>1 DEF DiskInv, PathOfSource, CachedWhole, LocalsKept, End, Extracting
    <2> QED BY <2>4, <2>6, <2>7, <2>8 DEF DiskInv
  <1> QED BY <1>2, <1>3 DEF CreateVM

\* A container goes.
LEMMA DeleteInv ==
  ASSUME DiskInv, NEW v \in VMs, Delete(v)
  PROVE  DiskInv'
  <1>1. /\ ctr' = [ctr EXCEPT ![v] = None]
        /\ UNCHANGED <<file, pc, vm, src, size, path>>
    BY DEF Delete, request
  <1>2. ctr'[v] = None /\ \A w \in VMs \ {v} : ctr'[w] = ctr[w]
    BY <1>1 DEF DiskInv, TypeOK
  <1>3. TypeOK'
    BY <1>1 DEF DiskInv, TypeOK
  <1>4. OwnDisk'
    <2>1. pc # "idle" => vm \in VMs
      BY DEF DiskInv, PathOfSource
    <2> QED BY <1>1, <1>2, <2>1 DEF DiskInv, OwnDisk, Sizing
  <1>5. ResizedRight'
    BY <1>1, <1>2 DEF DiskInv, ResizedRight
  <1>6. PathOfSource' /\ CachedWhole' /\ LocalsKept'
    BY <1>1 DEF DiskInv, PathOfSource, CachedWhole, LocalsKept
  <1> QED BY <1>3, <1>4, <1>5, <1>6 DEF DiskInv

\* clean-cache removes files of the cache and no others.
LEMMA CleanCacheInv ==
  ASSUME DiskInv, CleanCache
  PROVE  DiskInv'
  <1>1. pc = "idle" /\ UNCHANGED <<ctr, pc, vm, src, size, path>>
    BY DEF CleanCache, request
  <1>2. PICK gone \in SUBSET (Extracted \cup Resized) :
           file' = [f \in Paths |-> IF f \in gone THEN None ELSE file[f]]
    BY DEF CleanCache
  <1>3. \A f \in Paths : file'[f] \in {file[f], None}
    BY <1>2
  <1>4. TypeOK'
    BY <1>1, <1>2 DEF DiskInv, TypeOK
  <1>5. CachedWhole'
    <2>1. \A m \in Images : {Img(Key[m]), Qcow2(Key[m])} \subseteq Paths
      BY PathsApart DEF Paths
    <2> QED BY <1>1, <1>3, <2>1 DEF DiskInv, CachedWhole
  <1>6. LocalsKept'
    <2>1. \A u \in Locals : Local(u) \in Paths \ gone
      BY <1>2, PathsApart DEF Paths
    <2> QED BY <1>2, <2>1 DEF DiskInv, LocalsKept
  <1>7. ResizedRight'
    <2>1. \A v \in VMs : Sized(v) \in Paths
      BY PathsApart DEF Paths
    <2> QED BY <1>1, <1>3, <2>1 DEF DiskInv, ResizedRight
  <1>8. PathOfSource' /\ OwnDisk'
    BY <1>1 DEF DiskInv, PathOfSource, OwnDisk, Labels, Extracting, Sizing
  <1> QED BY <1>4, <1>5, <1>6, <1>7, <1>8 DEF DiskInv

\* Every step keeps DiskInv.
LEMMA StepInv ==
  ASSUME DiskInv, Careful, [Next]_vars
  PROVE  DiskInv'
  <1>1. CASE Create
    BY <1>1, CreateInv
  <1>2. CASE FindExtractedDisk
    BY <1>2, FindInv
  <1>3. CASE StartCopy
    BY <1>3, StartCopyInv
  <1>4. CASE EndCopy
    BY <1>4, EndCopyInv
  <1>5. CASE Pull \/ Validate \/ ExistsVM \/ EnsureImage \/ InspectDiskImage
    BY <1>5, LookInv
  <1>6. CASE RemovePrevious
    BY <1>6, RemovePreviousInv
  <1>7. CASE Convert
    BY <1>7, ConvertInv
  <1>8. CASE Resize
    BY <1>8, ResizeInv
  <1>9. CASE CreateVM
    BY <1>9, CreateVMInv
  <1>10. CASE CleanCache
    BY <1>10, CleanCacheInv
  <1>11. CASE Kill
    <2>1. pc # "copying" /\ End /\ UNCHANGED <<file, ctr>>
      BY <1>11 DEF Kill, Careful
    <2> QED BY <2>1, EndInv
  <1>12. CASE \E v \in VMs : Delete(v)
    BY <1>12, DeleteInv
  <1>13. CASE UNCHANGED vars
    BY <1>13
    DEF vars, request, DiskInv, TypeOK, CachedWhole, PathOfSource, OwnDisk,
        LocalsKept, ResizedRight
  <1> QED BY <1>1, <1>2, <1>3, <1>4, <1>5, <1>6, <1>7, <1>8, <1>9, <1>10, <1>11,
             <1>12, <1>13 DEF Next

\* With commands one at a time, a podman cp that is not cut short and image
\* references with directories of their own, the cache holds whole disks under
\* the right names and resized disks belong to their VMs, wherever create fails
\* or is interrupted and whatever clean-cache removes.
THEOREM CacheSound == Careful => (Spec => []DiskInv)
  <1> SUFFICES ASSUME Careful PROVE Spec => []DiskInv
    OBVIOUS
  <1>1. Init => DiskInv
    BY InitInv
  <1>2. DiskInv /\ [Next]_vars => DiskInv'
    BY StepInv
  <1> QED BY <1>1, <1>2, PTL DEF Spec

\* Under the same conditions a VM's disk, while it is there, is all of what was
\* given to create and as large as was asked for.
THEOREM DisksSound == Careful => (Spec => []NoWrongDisk)
  <1> SUFFICES ASSUME Careful PROVE Spec => []NoWrongDisk
    OBVIOUS
  <1>1. Spec => []DiskInv
    BY CacheSound
  <1> QED BY <1>1, RightDisks, PTL

-----------------------------------------------------------------------------
(* create takes no VM's disk away *)

\* Only podman cp and the rename write into containerdisks while create runs.
LEMMA ImgStep ==
  ASSUME DiskInv, [Next]_vars, NEW m \in Images, ~EndCopy, ~StartCopy
  PROVE  file'[Img(Key[m])] \in {file[Img(Key[m])], None}
  <1> DEFINE i == Img(Key[m])
  <1>1. i \in Extracted /\ i \in Paths
    BY PathsApart DEF Paths
  <1>2. \A v \in VMs : Sized(v) # i
    BY <1>1, PathsApart
  <1>3. \A n : Qcow2(n) # i
    BY PathsApart
  <1>4. file \in [Paths -> Contents \cup {None}]
    BY DEF DiskInv, TypeOK
  <1> HIDE DEF i
  <1>5. CASE FindExtractedDisk
    <2>1. \/ file' = file
          \/ file' = [file EXCEPT ![Qcow2(Key[src])] = file[Img(Key[src])],
                                  ![Img(Key[src])] = None]
      BY <1>5 DEF FindExtractedDisk
    <2> QED BY <1>1, <1>3, <1>4, <2>1 DEF i
  <1>6. CASE RemovePrevious \/ Convert \/ Resize
    <2>1. pc \in Sizing
      BY <1>6 DEF RemovePrevious, Convert, Resize, Sizing
    <2>2. vm \in VMs
      BY <2>1, SizingFacts
    <2>3. file' = file \/ \E d : file' = [file EXCEPT ![Sized(vm)] = d]
      BY <1>6 DEF RemovePrevious, Convert, Resize
    <2> QED BY <1>1, <1>2, <1>4, <2>2, <2>3 DEF i
  <1>7. CASE CleanCache
    <2>1. PICK gone : file' = [f \in Paths |-> IF f \in gone THEN None ELSE file[f]]
      BY <1>7 DEF CleanCache
    <2> QED BY <1>1, <2>1 DEF i
  <1>8. CASE UNCHANGED file
    BY <1>8 DEF i
  <1>9. ~FindExtractedDisk /\ ~RemovePrevious /\ ~Convert /\ ~Resize /\ ~CleanCache
          => UNCHANGED file
    BY DEF Next, vars, Create, Pull, Validate, ExistsVM, EnsureImage,
           InspectDiskImage, CreateVM, Kill, Delete
  <1> QED BY <1>5, <1>6, <1>7, <1>8, <1>9

\* podman cp writes what the image ships, from its first bytes on.
LEMMA MagicStep ==
  ASSUME DiskInv, Careful, ImgMagic, [Next]_vars
  PROVE  ImgMagic'
  <1> SUFFICES ASSUME NEW m \in Images, file'[Img(Key[m])] # None
               PROVE  LET d == file'[Img(Key[m])] IN
                      /\ d.magic => Ships[m] # "raw disk.img"
                      /\ d.whole /\ ~d.magic => Ships[m] = "raw disk.img"
    BY DEF ImgMagic
  <1>1. CASE file'[Img(Key[m])] = file[Img(Key[m])]
    BY <1>1 DEF ImgMagic
  <1>2. CASE file'[Img(Key[m])] # file[Img(Key[m])]
    <2>1. StartCopy \/ EndCopy
      BY <1>2, ImgStep
    <2>2. src \in Images
      BY <2>1 DEF StartCopy, EndCopy, DiskInv, PathOfSource, Extracting
    <2>3. \E d \in {Disk(src, FALSE, FALSE), Disk(src, FALSE, Shipped(src).magic),
                    Shipped(src)} : file' = [file EXCEPT ![ShippedAs(src)] = d]
      BY <1>2, <2>1 DEF StartCopy, EndCopy
    <2>4. m = src /\ file'[Img(Key[m])] \in
            {Disk(src, FALSE, FALSE), Disk(src, FALSE, Shipped(src).magic), Shipped(src)}
      BY <1>2, <2>2, <2>3, ShippedApart
    <2>5. CASE Ships[m] = "raw disk.img"
      <3>1. (Ships[src] # "raw disk.img") = FALSE
        BY <2>4, <2>5
      <3>2. Shipped(src) = Disk(src, TRUE, FALSE)
        BY Zenon, <3>1 DEF Shipped
      <3>3. Shipped(src).magic = FALSE
        BY <3>2 DEF Disk
      <3>4. file'[Img(Key[m])] \in {Disk(src, FALSE, FALSE), Disk(src, TRUE, FALSE)}
        BY Zenon, <2>4, <3>2, <3>3
      <3>5. file'[Img(Key[m])].magic = FALSE
        BY <3>4 DEF Disk
      <3> QED BY Zenon, <2>5, <3>5
    <2>6. CASE Ships[m] # "raw disk.img"
      <3>1. (Ships[src] # "raw disk.img") = TRUE
        BY <2>4, <2>6
      <3>2. Shipped(src) = Disk(src, TRUE, TRUE)
        BY Zenon, <3>1 DEF Shipped
      <3>3. Shipped(src).magic = TRUE
        BY <3>2 DEF Disk
      <3>4. file'[Img(Key[m])] \in {Disk(src, FALSE, FALSE), Disk(src, FALSE, TRUE),
                                    Disk(src, TRUE, TRUE)}
        BY Zenon, <2>4, <3>2, <3>3
      <3>5. file'[Img(Key[m])].whole = FALSE \/ file'[Img(Key[m])].magic = TRUE
        BY <3>4 DEF Disk
      <3> QED BY Zenon, <2>6, <3>5
    <2> QED BY <2>5, <2>6
  <1> QED BY <1>1, <1>2

\* A disk.img that create uses has been found without the magic.
LEMMA RawStep ==
  ASSUME DiskInv, Careful, ImgMagic, RawImg, [Next]_vars
  PROVE  RawImg'
  <1> SUFFICES ASSUME NEW m \in Images
               PROVE  /\ pc' \notin Extracting \cup {"idle"} /\ path' = Img(Key[m]) =>
                            Ships[m] = "raw disk.img"
                      /\ \A v \in VMs : ctr'[v] # None /\ ctr'[v].path = Img(Key[m]) =>
                            Ships[m] = "raw disk.img"
    BY DEF RawImg
  <1>1. /\ Img(Key[m]) \in Extracted
        /\ \A k : Qcow2(k) # Img(Key[m])
        /\ \A v \in VMs : Sized(v) # Img(Key[m])
        /\ \A n \in Images : Img(Key[n]) = Img(Key[m]) => n = m
    BY PathsApart DEF Careful, KeysApart
  <1>2. ASSUME pc' \notin Extracting \cup {"idle"}, path' = Img(Key[m])
        PROVE  Ships[m] = "raw disk.img"
    <2>1. CASE Create
      <3>1. pc' = "find" \/ path' \in LocalPaths
        BY <2>1 DEF Create, Careful
      <3> QED BY <1>1, <1>2, <3>1, PathsApart DEF Extracting
    <2>2. CASE FindExtractedDisk
      <3>1. src \in Images /\ pc # "copying"
        BY <2>2 DEF FindExtractedDisk, DiskInv, PathOfSource, Extracting
      <3>2. path' = Img(Key[src]) /\ file[path'] # None /\ ~file[path'].magic
        BY <1>1, <1>2, <2>2 DEF FindExtractedDisk, Use, Go, End, Extracting
      <3>3. m = src
        BY <1>1, <1>2, <3>1, <3>2
      <3>4. file[Img(Key[m])].whole
        BY <3>1, <3>2, <3>3 DEF DiskInv, CachedWhole
      <3> QED BY <3>2, <3>3, <3>4 DEF ImgMagic
    <2>3. CASE Convert \/ Resize
      <3>1. pc \in Sizing /\ vm \in VMs
        BY <2>3, SizingFacts DEF Convert, Resize, Sizing
      <3>2. path' = path
        BY <1>1, <1>2, <2>3, <3>1 DEF Convert, Resize, Use, Go, End
      <3> QED BY <1>2, <3>1, <3>2 DEF RawImg, Sizing, Extracting
    <2>4. CASE Pull \/ StartCopy \/ EndCopy
      BY <1>2, <2>4 DEF Pull, StartCopy, EndCopy, Go, End, Extracting
    <2>5. CASE Validate \/ ExistsVM \/ EnsureImage \/ InspectDiskImage
               \/ RemovePrevious
      BY <1>2, <2>5 DEF Validate, ExistsVM, EnsureImage, InspectDiskImage,
         RemovePrevious, Go, End, RawImg, Extracting
    <2>6. CASE CreateVM \/ Kill
      BY <1>2, <2>6 DEF CreateVM, Kill, End
    <2>7. CASE CleanCache \/ (\E v \in VMs : Delete(v)) \/ UNCHANGED vars
      BY <1>2, <2>7 DEF CleanCache, Delete, vars, RawImg
    <2> QED BY <2>1, <2>2, <2>3, <2>4, <2>5, <2>6, <2>7 DEF Next
  <1>3. ASSUME NEW v \in VMs, ctr'[v] # None, ctr'[v].path = Img(Key[m])
        PROVE  Ships[m] = "raw disk.img"
    <2>1. ctr \in [VMs -> [path : Paths, src : Images \cup Paths, grown : BOOLEAN]
                            \cup {None}]
      BY DEF DiskInv, TypeOK
    <2>2. CASE ctr'[v] = ctr[v]
      BY <1>3, <2>2 DEF RawImg
    <2>3. CASE ctr'[v] # ctr[v]
      <3>1. CreateVM \/ \E w \in VMs : Delete(w)
        BY <2>3 DEF Next, vars, Create, FindExtractedDisk, Pull, StartCopy, EndCopy,
           Validate, ExistsVM, EnsureImage, InspectDiskImage, RemovePrevious, Convert,
           Resize, CleanCache, Kill
      <3>2. CASE CreateVM
        <4>1. pc = "vm" /\ ctr'[v].path = path
          BY <2>1, <2>3, <3>2 DEF CreateVM
        <4> QED BY <1>3, <4>1 DEF RawImg, Extracting
      <3>3. CASE \E w \in VMs : Delete(w)
        BY <1>3, <2>1, <2>3, <3>3 DEF Delete
      <3> QED BY <3>1, <3>2, <3>3
    <2> QED BY <2>2, <2>3
  <1> QED BY <1>2, <1>3

\* What create writes: the resized disk of the VM it makes, which does not
\* exist yet, what podman cp fetches, and, in the rename, a disk.img with the
\* magic, which no VM has.
LEMMA KeptStep ==
  ASSUME DiskInv, Careful, ImgMagic, RawImg, Next, pc # "idle",
         NEW v \in VMs, ctr[v] # None, file[ctr[v].path] # None
  PROVE  file'[ctr[v].path] # None
  <1> DEFINE f == ctr[v].path
  <1>1. f \in Paths /\ file \in [Paths -> Contents \cup {None}]
    BY DEF DiskInv, TypeOK
  <1>2. /\ ctr[v].src \in Images \cup LocalPaths
        /\ f \in FilesOf(ctr[v].src) \cup {Sized(v)}
    BY DEF DiskInv, OwnDisk
  <1>3. f \in Extracted \cup LocalPaths \cup {Sized(v)}
    BY <1>2, PathsApart DEF FilesOf
  <1> HIDE DEF f
  <1>4. CASE FindExtractedDisk
    <2>1. CASE file' = file
      BY <2>1 DEF f
    <2>2. CASE /\ file[Img(Key[src])] # None /\ file[Img(Key[src])].magic
               /\ file' = [file EXCEPT ![Qcow2(Key[src])] = file[Img(Key[src])],
                                       ![Img(Key[src])] = None]
      <3>1. src \in Images
        BY <1>4 DEF FindExtractedDisk, DiskInv, PathOfSource, Extracting
      <3>2. f # Img(Key[src])
        BY <2>2, <3>1 DEF ImgMagic, RawImg, f
      <3> QED BY <1>1, <2>2, <3>2 DEF f
    <2> QED BY <1>4, <2>1, <2>2 DEF FindExtractedDisk
  <1>5. CASE StartCopy \/ EndCopy
    <2>1. src \in Images
      BY <1>5 DEF StartCopy, EndCopy, DiskInv, PathOfSource, Extracting
    <2>2. \/ file' = file
          \/ \E d \in Contents : file' = [file EXCEPT ![ShippedAs(src)] = d]
      BY <1>5, <2>1 DEF StartCopy, EndCopy, Shipped, Disk, Contents, Origins
    <2> QED BY <1>1, <2>2, NoneAssumption DEF f
  <1>6. CASE RemovePrevious \/ Convert \/ Resize
    <2>1. pc \in Sizing
      BY <1>6 DEF RemovePrevious, Convert, Resize, Sizing
    <2>2. vm \in VMs /\ vm # v
      BY <2>1, SizingFacts
    <2>3. f # Sized(vm)
      BY <1>3, <2>2, PathsApart
    <2>4. file' = file \/ \E d : file' = [file EXCEPT ![Sized(vm)] = d]
      BY <1>6 DEF RemovePrevious, Convert, Resize
    <2> QED BY <1>1, <2>3, <2>4 DEF f
  <1>7. CASE UNCHANGED file
    BY <1>7 DEF f
  <1>8. ~CleanCache
    BY DEF CleanCache
  <1> QED BY <1>4, <1>5, <1>6, <1>7, <1>8 DEF Next, Create, Pull, Validate, ExistsVM,
             EnsureImage, InspectDiskImage, CreateVM, Kill, Delete

\* For any VMs, images and files: a create, wherever it fails or is interrupted,
\* takes no disk away from a VM that exists, be it of the same name or of the
\* same image, and however often the cache was emptied and filled again.
THEOREM DisksKept == Careful => (Spec => DiskKept)
  <1> SUFFICES ASSUME Careful PROVE Spec => DiskKept
    OBVIOUS
  <1> DEFINE Kept == pc # "idle" =>
               \A v \in VMs : ctr[v] # None /\ file[ctr[v].path] # None =>
                                  file'[ctr[v].path] # None
  <1>1. Init => DiskInv /\ ImgMagic /\ RawImg
    <2>1. Init => \A m \in Images : file[Img(Key[m])] = None
      BY PathsApart DEF Init, Paths, Img
    <2> QED BY <2>1, InitInv DEF Init, ImgMagic, RawImg
  <1>2. DiskInv /\ ImgMagic /\ RawImg /\ [Next]_vars => (DiskInv /\ ImgMagic /\ RawImg)'
    BY StepInv, MagicStep, RawStep
  <1>3. DiskInv /\ ImgMagic /\ RawImg /\ [Next]_vars => [Kept]_vars
    BY KeptStep
  <1> QED BY <1>1, <1>2, <1>3, PTL DEF Spec, DiskKept
=============================================================================
