------------------------ MODULE CreateVmDataProofs ------------------------
(***************************************************************************)
(* What create makes of its input, for every file, all flags and any       *)
(* number of disks and networks: the configuration follows the input step  *)
(* by step, and the container has the names, sizes, sources, ports and     *)
(* login that were asked for.                                              *)
(***************************************************************************)
EXTENDS CreateVmProofs, FiniteSetTheorems

-----------------------------------------------------------------------------
(* Numbers *)

\* A number below the modulus is its own remainder.
LEMMA SmallMod ==
  ASSUME NEW n \in Nat, NEW w \in Nat \ {0}, n < w
  PROVE  n % w = n
  OBVIOUS

\* The numbers are well-founded.
LEMMA LessThan == IsWellFoundedOn({ss \in Nat \X Nat : ss[1] < ss[2]}, Nat)
  BY Zenon, NatLessThanWellFounded DEF OpToRel

LEMMA Minimal ==
  ASSUME NEW R, NEW S, S \subseteq Nat, S # {}, IsWellFoundedOn(R, Nat)
  PROVE  \E m \in S : \A n \in S : ~(<<n, m>> \in R)
  BY Zenon, WFMin

\* Every set of numbers that is not empty has a least one.
LEMMA Least ==
  ASSUME NEW S, S \subseteq Nat, S # {}
  PROVE  \E m \in S : \A n \in S : m <= n
  <1> DEFINE R == {ss \in Nat \X Nat : ss[1] < ss[2]}
  <1>1. IsWellFoundedOn(R, Nat)
    BY LessThan
  <1>2. \A m, n \in Nat : <<n, m>> \in R <=> n < m
    OBVIOUS
  <1> HIDE DEF R
  <1>3. PICK m \in S : \A n \in S : ~(<<n, m>> \in R)
    BY <1>1, Minimal
  <1>4. ASSUME NEW n \in S PROVE m <= n
    <2>1. m \in Nat /\ n \in Nat
      OBVIOUS
    <2>2. ~(n < m)
      BY <1>2, <1>3, <2>1
    <2> QED BY <2>1, <2>2
  <1> QED BY <1>4

-----------------------------------------------------------------------------
(* The disks of the input *)

\* The list r is s with one disk put at place p: that of a disk of s, which
\* keeps its size, or a new one behind the others.
Puts(s, r, p, disk) ==
    /\ p \in DOMAIN r /\ DOMAIN r = DOMAIN s \cup {p}
    /\ r[p].name = disk.name /\ r[p].image = disk.image
    /\ r[p].containerImage = disk.containerImage
    /\ r[p].size = IF p \in DOMAIN s THEN s[p].size ELSE NoQuantity
    /\ \A d \in DOMAIN s : d # p => r[d] = s[d]

LEMMA Replaced ==
  ASSUME NEW s \in Seq(DiskSpec), NEW I, NEW disk \in DiskSpec, disk.size = NoQuantity
  PROVE  \E p : (p \in DOMAIN s => p \in I) /\ Puts(s, ReplaceFirst(s, I, disk), p, disk)
  <1> DEFINE r == ReplaceFirst(s, I, disk)
             places == I \cap DOMAIN s
  <1>0. DOMAIN s = 1..Len(s) /\ Len(s) \in Nat
    OBVIOUS
  <1>1. CASE places = {}
    <2> DEFINE p == Len(s) + 1
    <2>1. r = Append(s, disk)
      BY <1>1 DEF ReplaceFirst
    <2> HIDE DEF r
    <2>2. /\ DOMAIN r = 1..p /\ r[p] = disk
          /\ \A d \in 1..Len(s) : r[d] = s[d]
      BY <2>1
    <2>3. p \in DOMAIN r /\ p \notin DOMAIN s /\ DOMAIN r = DOMAIN s \cup {p}
      BY <1>0, <2>2
    <2> HIDE DEF p
    <2>4. Puts(s, r, p, disk)
      BY <1>0, <2>2, <2>3 DEF Puts
    <2> QED BY <2>3, <2>4 DEF r
  <1>2. CASE places # {}
    <2>1. r = [i \in DOMAIN s |-> IF i \in I /\ \A j \in places : i <= j
                                 THEN [disk EXCEPT !.size = s[i].size] ELSE s[i]]
      BY <1>2 DEF ReplaceFirst
    <2>2. places \subseteq Nat
      BY <1>0
    <2>3. PICK p \in places : \A j \in places : p <= j
      BY <1>2, <2>2, Least
    <2>4. p \in I /\ p \in DOMAIN s /\ DOMAIN r = DOMAIN s
      BY <2>1, <2>3
    <2>5. \A d \in DOMAIN s : (d \in I /\ \A j \in places : d <= j) <=> d = p
      BY <2>2, <2>3
    <2> HIDE DEF r, places
    <2>6. r[p] = [disk EXCEPT !.size = s[p].size] /\ \A d \in DOMAIN s : d # p => r[d] = s[d]
      BY <2>1, <2>4, <2>5
    <2>7. /\ r[p].name = disk.name /\ r[p].image = disk.image
          /\ r[p].containerImage = disk.containerImage /\ r[p].size = s[p].size
      BY <2>6 DEF DiskSpec
    <2>8. Puts(s, r, p, disk)
      BY <2>4, <2>6, <2>7 DEF Puts
    <2> QED BY <2>4, <2>8 DEF r
  <1> QED BY <1>1, <1>2

\* What --disk and --image put.
LocalDisk(path) ==
    [name |-> "disk0", image |-> LocalFile(path), containerImage |-> "", size |-> NoQuantity]
ContainerDisk(image) ==
    [name |-> "containerdisk", image |-> NoPath, containerImage |-> image, size |-> NoQuantity]

LEMMA LocalDiskSet ==
  ASSUME NEW disks \in Seq(DiskSpec), NEW path \in Text, path # ""
  PROVE  /\ SetLocalDisk(disks, path) \in Seq(DiskSpec)
         /\ \E p : Puts(disks, SetLocalDisk(disks, path), p, LocalDisk(path))
  <1> DEFINE I == {i \in DOMAIN disks : disks[i].image # NoPath}
  <1>1. LocalDisk(path) \in DiskSpec /\ LocalDisk(path).size = NoQuantity
    BY TextAssumption DEF LocalDisk, DiskSpec, Path, LocalFile, Quantity
  <1>2. SetLocalDisk(disks, path) = ReplaceFirst(disks, I, LocalDisk(path))
    BY DEF SetLocalDisk, LocalDisk
  <1> HIDE DEF I
  <1> QED BY <1>1, <1>2, Replaced, ReplaceFirstType

\* The place that --image takes is not one that --disk has taken.
LEMMA ContainerDiskSet ==
  ASSUME NEW disks \in Seq(DiskSpec), NEW image \in Text, image # ""
  PROVE  /\ SetContainerDisk(disks, image) \in Seq(DiskSpec)
         /\ \E p : /\ Puts(disks, SetContainerDisk(disks, image), p, ContainerDisk(image))
                   /\ p \in DOMAIN disks => \/ disks[p].name = "containerdisk"
                                            \/ disks[p].containerImage # ""
  <1> DEFINE I == {i \in DOMAIN disks : \/ disks[i].name = "containerdisk"
                                        \/ disks[i].containerImage # ""}
  <1>1. ContainerDisk(image) \in DiskSpec /\ ContainerDisk(image).size = NoQuantity
    BY TextAssumption DEF ContainerDisk, DiskSpec, Path, NoPath, Quantity
  <1>2. SetContainerDisk(disks, image) = ReplaceFirst(disks, I, ContainerDisk(image))
    BY DEF SetContainerDisk, ContainerDisk
  <1>3. \A p \in I : disks[p].name = "containerdisk" \/ disks[p].containerImage # ""
    OBVIOUS
  <1> HIDE DEF I
  <1> QED BY <1>1, <1>2, <1>3, Replaced, ReplaceFirstType

\* The disks of the input: those of the file, with the two of the flags.
LEMMA LoadedDisks ==
  ASSUME input \in Input
  PROVE  /\ Loaded.disks = SetDisks(FileDisks, opts)
         /\ FileDisks \in Seq(DiskSpec)
         /\ opts.disk \in Text /\ opts.image \in Text
  <1>1. input.file \in VMSpec /\ opts \in Options
    BY InputType
  <1>2. opts.disk \in Text /\ opts.image \in Text
    BY <1>1 DEF Options
  <1>3. CASE opts.config
    <2> DEFINE base == ApplyDefaults(input.file)
    <2>1. base \in VMSpec
      BY <1>1, ApplyDefaultsType
    <2>2. base.disks = input.file.disks
      BY <1>1 DEF ApplyDefaults, VMSpec
    <2>3. Loaded = MergeFlags(base, opts)
      BY <1>3 DEF Loaded, LoadCreateVM
    <2> HIDE DEF base
    <2>4. Loaded.disks = SetDisks(base.disks, opts)
      BY <2>1, <2>3 DEF MergeFlags, VMSpec
    <2> QED BY <1>1, <1>2, <1>3, <2>2, <2>4 DEF FileDisks, VMSpec
  <1>4. CASE ~opts.config
    <2> DEFINE new == [EmptyVM EXCEPT
                !.name = opts.name, !.cores = Uint32(opts.cpus), !.memory = opts.memory,
                !.disks = SetDisks(<<>>, opts),
                !.networks = <<[type |-> "masquerade", ports |-> <<>>]>>]
    <2>1. Loaded = ApplyDefaults(new)
      BY <1>4, Zenon DEF Loaded, LoadCreateVM, LoadFromFlags
    <2>2. new.disks = SetDisks(<<>>, opts)
      BY DEF EmptyVM
    <2>3. DOMAIN new = {"name", "cores", "memory", "disks", "networks", "cloudInit"}
      BY DEF EmptyVM
    <2> HIDE DEF new
    <2>4. Loaded.disks = new.disks
      BY <2>1, <2>3 DEF ApplyDefaults
    <2>5. <<>> \in Seq(DiskSpec)
      OBVIOUS
    <2> QED BY <1>2, <1>4, <2>2, <2>4, <2>5 DEF FileDisks
  <1> QED BY <1>3, <1>4

\* A disk whose path, if any, is one of the user's.
OwnFile(disk) == disk.image = NoPath \/ disk.image.kind = "local"

\* The sizes stay where they were.
SameSizes(s, r) ==
    /\ DOMAIN s \subseteq DOMAIN r
    /\ \A d \in DOMAIN r : r[d].size = IF d \in DOMAIN s THEN s[d].size ELSE NoQuantity
    /\ (\A d \in DOMAIN s : OwnFile(s[d])) => (\A d \in DOMAIN r : OwnFile(r[d]))

LEMMA PutSizes ==
  ASSUME NEW s, NEW r, NEW p, NEW disk, Puts(s, r, p, disk), OwnFile(disk)
  PROVE  SameSizes(s, r)
  BY DEF Puts, OwnFile, SameSizes

LEMMA LoadedSizes ==
  ASSUME input \in Input
  PROVE  \A d \in DOMAIN Loaded.disks :
            /\ Loaded.disks[d].size = IF d \in DOMAIN FileDisks THEN FileDisks[d].size
                                      ELSE NoQuantity
            /\ OwnFile(Loaded.disks[d])
  <1> DEFINE mid == SetLocalDisk(FileDisks, opts.disk)
             last == SetContainerDisk(mid, opts.image)
  <1>1. /\ Loaded.disks = last /\ FileDisks \in Seq(DiskSpec)
        /\ opts.disk \in Text /\ opts.image \in Text
    BY LoadedDisks DEF SetDisks
  <1>2. \A path : OwnFile(LocalDisk(path)) /\ OwnFile(ContainerDisk(path))
    BY DEF OwnFile, LocalDisk, ContainerDisk, LocalFile, NoPath
  <1>3. \A disks : SameSizes(disks, disks)
    BY DEF SameSizes
  <1>4. mid \in Seq(DiskSpec) /\ SameSizes(FileDisks, mid)
    <2>1. CASE opts.disk = ""
      <3>1. mid = FileDisks
        BY <2>1 DEF SetLocalDisk
      <3> QED BY <1>1, <1>3, <3>1
    <2>2. CASE opts.disk # ""
      BY <1>1, <1>2, <2>2, LocalDiskSet, PutSizes
    <2> QED BY <2>1, <2>2
  <1>5. SameSizes(mid, last)
    <2>1. CASE opts.image = ""
      <3>1. last = mid
        BY <2>1 DEF SetContainerDisk
      <3> QED BY <1>3, <3>1
    <2> HIDE DEF mid
    <2>2. CASE opts.image # ""
      BY <1>1, <1>2, <1>4, <2>2, ContainerDiskSet, PutSizes
    <2> QED BY <2>1, <2>2
  <1>6. \A d \in DOMAIN FileDisks : OwnFile(FileDisks[d])
    BY DEF FileDisks, OwnFile, Input, FileSpec
  <1> HIDE DEF mid, last
  <1>7. SameSizes(FileDisks, last)
    BY <1>4, <1>5 DEF SameSizes
  <1> QED BY <1>1, <1>6, <1>7 DEF SameSizes

\* Neither a disk of the user nor one from the cache is a resized copy.
LEMMA SourceKind ==
  ASSUME input \in Input, NEW d \in DOMAIN Loaded.disks
  PROVE  Source(Loaded.disks[d]).kind # "sized"
  <1> DEFINE from == Loaded.disks[d]
  <1>1. OwnFile(from)
    BY LoadedSizes
  <1>2. CachedDisk(from.containerImage).kind = "cached" /\ NoPath.kind = "none"
    BY DEF CachedDisk, NoPath
  <1> HIDE DEF from
  <1>3. Source(from).kind # "sized"
    BY <1>1, <1>2 DEF Source, OwnFile
  <1> QED BY <1>3 DEF from

-----------------------------------------------------------------------------
(* The configuration follows the input *)

LEMMA LoadedType ==
  ASSUME input \in Input
  PROVE  Loaded \in VMSpec /\ Loaded.disks \in Seq(DiskSpec)
  <1>1. Loaded \in VMSpec
    BY InputType, LoadCreateVMType DEF Loaded
  <1> QED BY <1>1 DEF VMSpec

\* What the input asks for does not depend on how far runCreate is.
LEMMA SameInput ==
  ASSUME input' = input
  PROVE  /\ opts' = opts /\ Loaded' = Loaded /\ Forwarded' = Forwarded
         /\ FlagKeys' = FlagKeys /\ \A d : FinalSize(d)' = FinalSize(d)
  BY DEF opts, Loaded, Forwarded, FlagKeys, FinalSize

\* Before the loops nothing has been fetched or copied.
LEMMA NotYet ==
  ASSUME NEW d \in Nat \ {0},
         pc' \in {"ports", "cloudinit", "size", "extract"}, at' = 1
  PROVE  ~Fetched(d)' /\ ~Copied(d)'
  BY DEF Fetched, Copied, Accepted

LEMMA PrepareFollows ==
  ASSUME CreateInv, FollowsInput,
         Load \/ ApplyCreatePorts \/ ApplyCloudInit \/ ApplyCreateDiskSize
  PROVE  FollowsInput'
  <1>0. TypeOK /\ vm \in VMSpec /\ input \in Input
    BY DEF CreateInv, TypeOK
  <1>1. input' = input /\ made' = made /\ at' = 1
    BY DEF CreateInv, Load, ApplyCreatePorts, ApplyCloudInit, ApplyCreateDiskSize
  <1>2. /\ opts' = opts /\ Loaded' = Loaded /\ Forwarded' = Forwarded
        /\ FlagKeys' = FlagKeys /\ \A d : FinalSize(d)' = FinalSize(d)
    BY <1>1, SameInput
  <1>3. pc' \in {"ports", "cloudinit", "size", "extract", "err"}
    BY DEF Load, ApplyCreatePorts, ApplyCloudInit, ApplyCreateDiskSize, Goto, Fail
  <1>4. CASE pc' = "err"
    BY <1>4 DEF FollowsInput
  <1> SUFFICES ASSUME pc' # "err" PROVE FollowsInput'
    BY <1>4
  <1>5. /\ vm.disks \in Seq(DiskSpec) /\ vm.networks \in Seq(NetworkSpec)
        /\ \A d \in DOMAIN vm.disks : d \in Nat \ {0}
        /\ Loaded.disks \in Seq(DiskSpec)
        /\ \A d \in DOMAIN Loaded.disks : d \in Nat \ {0}
    <2>1. /\ vm.disks \in Seq(DiskSpec) /\ vm.networks \in Seq(NetworkSpec)
          /\ Loaded.disks \in Seq(DiskSpec)
      BY <1>0, LoadedType DEF VMSpec
    <2> QED BY <2>1, Places
  <1>6. ASSUME NEW d \in Nat \ {0} PROVE ~Fetched(d)' /\ ~Copied(d)'
    BY <1>1, <1>3, NotYet
  <1>7. CASE Load
    <2>1. pc' = "ports" /\ vm' = Loaded /\ (opts.config \/ opts.name # "")
      BY <1>7 DEF Load, Fail, Goto, Loaded
    <2>2. ASSUME NEW d \in DOMAIN vm'.disks
          PROVE  DiskFollows(d)' /\ CopyFollows(d)'
      BY <1>2, <1>5, <1>6, <2>1 DEF DiskFollows, CopyFollows
    <2> QED BY <1>2, <2>1, <2>2 DEF FollowsInput, Accepted
  <1>8. CASE ApplyCreatePorts \/ ApplyCloudInit
    <2>1. /\ (pc = "ports" /\ pc' = "cloudinit") \/ (pc = "cloudinit" /\ pc' = "size")
          /\ pc \notin {"load", "err"}
      BY <1>8 DEF ApplyCreatePorts, ApplyCloudInit, Fail, Goto
    <2>2. /\ vm'.name = vm.name /\ vm'.cores = vm.cores /\ vm'.memory = vm.memory
          /\ vm'.disks = vm.disks
      BY <1>0, <1>8 DEF ApplyCreatePorts, ApplyCloudInit, Fail, VMSpec
    <2>3. ASSUME NEW d \in DOMAIN vm'.disks
          PROVE  DiskFollows(d)' /\ CopyFollows(d)'
      <3>1. ~Fetched(d) /\ ~Fetched(d)' /\ ~Copied(d)'
        BY <1>5, <1>6, <2>1, <2>2 DEF Fetched, Accepted
      <3>2. DiskFollows(d)
        BY <2>1, <2>2 DEF FollowsInput
      <3> QED BY <1>2, <2>1, <2>2, <3>1, <3>2 DEF DiskFollows, CopyFollows
    <2>4. vm'.networks = Forwarded
      <3>1. CASE pc = "ports"
        <4>1. vm.networks = Loaded.networks
          BY <3>1 DEF FollowsInput
        <4> QED BY <1>0, <1>8, <2>1, <3>1, <4>1
             DEF ApplyCreatePorts, ApplyCloudInit, Fail, Forwarded, VMSpec
      <3>2. CASE pc = "cloudinit"
        <4>1. vm.networks = Forwarded
          BY <3>2 DEF FollowsInput
        <4> QED BY <1>0, <1>8, <2>1, <3>2, <4>1
             DEF ApplyCreatePorts, ApplyCloudInit, Fail, VMSpec
      <3> QED BY <2>1, <3>1, <3>2
    <2>5. vm'.cloudInit = IF pc' = "cloudinit" THEN Loaded.cloudInit
                          ELSE ApplyCloudInitFlags(Loaded.cloudInit, opts, FlagKeys)
      <3>1. vm.cloudInit = Loaded.cloudInit
        BY <2>1 DEF FollowsInput
      <3>2. CASE pc = "ports"
        BY <1>0, <1>8, <2>1, <3>1, <3>2
           DEF ApplyCreatePorts, ApplyCloudInit, Fail, VMSpec
      <3>3. CASE pc = "cloudinit"
        <4>1. vm' = [vm EXCEPT !.cloudInit = ApplyCloudInitFlags(vm.cloudInit, opts, FlagKeys)]
          BY <1>8, <2>1, <3>3 DEF ApplyCreatePorts, ApplyCloudInit, Fail, FlagKeys
        <4> QED BY <1>0, <2>1, <3>1, <3>3, <4>1 DEF VMSpec
      <3> QED BY <2>1, <3>2, <3>3
    <2> QED BY <1>2, <2>1, <2>2, <2>3, <2>4, <2>5 DEF FollowsInput, Accepted
  <1>9. CASE ApplyCreateDiskSize
    <2>1. pc = "size" /\ pc' = "extract"
      BY <1>9 DEF ApplyCreateDiskSize, Fail, Goto
    <2>2. /\ vm'.name = vm.name /\ vm'.cores = vm.cores /\ vm'.memory = vm.memory
          /\ vm'.networks = vm.networks /\ vm'.cloudInit = vm.cloudInit
          /\ DOMAIN vm'.disks = DOMAIN vm.disks
          /\ \A d \in DOMAIN vm.disks :
                vm'.disks[d] = IF d = 1 /\ opts.diskSize # NoQuantity
                               THEN [vm.disks[d] EXCEPT !.size = opts.diskSize]
                               ELSE vm.disks[d]
      <3>1. CASE opts.diskSize = NoQuantity
        BY <1>9, <2>1, <3>1 DEF ApplyCreateDiskSize, Fail
      <3>2. CASE opts.diskSize # NoQuantity
        <4> DEFINE disk == [vm.disks[1] EXCEPT !.size = opts.diskSize]
        <4>1. vm.disks # <<>> /\ vm' = [vm EXCEPT !.disks = [vm.disks EXCEPT ![1] = disk]]
          BY <1>9, <2>1, <3>2 DEF ApplyCreateDiskSize, Fail
        <4>2. 1 \in DOMAIN vm.disks
          BY <1>5, <4>1, Places
        <4>3. \A d \in DOMAIN vm.disks : d = 1 => disk = [vm.disks[d] EXCEPT !.size = opts.diskSize]
          OBVIOUS
        <4> HIDE DEF disk
        <4> QED BY <1>0, <1>5, <3>2, <4>1, <4>2, <4>3 DEF VMSpec
      <3> QED BY <3>1, <3>2
    <2>3. ASSUME NEW d \in DOMAIN vm'.disks
          PROVE  DiskFollows(d)' /\ CopyFollows(d)'
      <3>1. ~Fetched(d) /\ ~Fetched(d)' /\ ~Copied(d)'
        BY <1>5, <1>6, <2>1, <2>2 DEF Fetched, Accepted
      <3>2. DiskFollows(d) /\ vm.disks[d] \in DiskSpec
        <4>1. d \in DOMAIN vm.disks
          BY <2>2
        <4> QED BY <1>5, <2>1, <4>1, Places DEF FollowsInput
      <3>3. /\ vm'.disks[d].name = vm.disks[d].name
            /\ vm'.disks[d].image = vm.disks[d].image
            /\ vm'.disks[d].containerImage = vm.disks[d].containerImage
            /\ vm'.disks[d].size = IF d = 1 /\ opts.diskSize # NoQuantity
                                   THEN opts.diskSize ELSE vm.disks[d].size
        BY <2>2, <3>2 DEF DiskSpec
      <3> QED BY <1>2, <2>1, <3>1, <3>2, <3>3 DEF DiskFollows, CopyFollows, FinalSize
    <2> QED BY <1>2, <2>1, <2>2, <2>3 DEF FollowsInput, Accepted
  <1> QED BY <1>7, <1>8, <1>9

\* Replacing a disk leaves the rest of the configuration alone.
LEMMA SetDiskKeeps ==
  ASSUME vm \in VMSpec, NEW disk, SetDisk(disk)
  PROVE  /\ vm'.name = vm.name /\ vm'.cores = vm.cores /\ vm'.memory = vm.memory
         /\ vm'.networks = vm.networks /\ vm'.cloudInit = vm.cloudInit
  BY DEF SetDisk, VMSpec

\* The image that is fetched, or the local path, is the source of the input.
LEMMA ExtractFollows ==
  ASSUME CreateInv, FollowsInput, ExtractContainerDisk
  PROVE  FollowsInput'
  <1>0. TypeOK /\ vm \in VMSpec /\ at \in Nat \ {0} /\ pc = "extract" /\ at <= Len(vm.disks)
    BY DEF CreateInv, TypeOK, ExtractContainerDisk
  <1>1. input' = input /\ made' = made
    BY DEF ExtractContainerDisk
  <1>2. /\ opts' = opts /\ Loaded' = Loaded /\ Forwarded' = Forwarded
        /\ FlagKeys' = FlagKeys /\ \A d : FinalSize(d)' = FinalSize(d)
    BY <1>1, SameInput
  <1>3. vm.disks \in Seq(DiskSpec)
    BY <1>0 DEF VMSpec
  <1>4. at \in DOMAIN vm.disks /\ Disk \in DiskSpec /\ Disk = vm.disks[at]
    <2>1. at \in DOMAIN vm.disks
      BY <1>0, <1>3
    <2> QED BY <1>3, <2>1, Places DEF Disk
  <1>5. CASE at' = at /\ Fail
    BY <1>5 DEF Fail, FollowsInput
  <1>6. ASSUME at' = at + 1, pc' = pc, DOMAIN vm'.disks = DOMAIN vm.disks,
               /\ vm'.name = vm.name /\ vm'.cores = vm.cores /\ vm'.memory = vm.memory
               /\ vm'.networks = vm.networks /\ vm'.cloudInit = vm.cloudInit,
               NEW disk,
               \A d \in DOMAIN vm.disks : vm'.disks[d] = IF d = at THEN disk ELSE vm.disks[d],
               disk.name = Disk.name, disk.size = Disk.size, disk.image = Source(Disk)
        PROVE  FollowsInput'
    <2>1. ASSUME NEW d \in DOMAIN vm.disks
          PROVE  DiskFollows(d)' /\ CopyFollows(d)'
      <3>1. DiskFollows(d)
        BY <1>0 DEF FollowsInput
      <3>2. ~Copied(d) /\ ~Copied(d)'
        BY <1>0, <1>6 DEF Copied
      <3>3. (Fetched(d) <=> d < at) /\ (Fetched(d)' <=> d < at + 1) /\ d \in Nat
        BY <1>0, <1>3, <1>6, Places DEF Fetched, Accepted
      <3>4. pc' = "extract"
        BY <1>0, <1>6
      <3>5. CASE d = at
        <4>1. ~Fetched(d) /\ Fetched(d)' /\ vm'.disks[d] = disk
          BY <1>6, <3>3, <3>5
        <4>2. Source(Disk) = Source(Loaded.disks[d])
          BY <1>4, <3>1, <3>5, <4>1 DEF DiskFollows, Source
        <4>3. Disk.name = Loaded.disks[d].name /\ Disk.size = FinalSize(d)
          BY <1>0, <1>4, <3>1, <3>5 DEF DiskFollows
        <4>4. Source(Loaded.disks[d])' = Source(Loaded.disks[d])
          BY <1>2, <3>5 DEF Source
        <4>5. Source(Loaded.disks[d]).kind # "sized"
          BY <1>0, SourceKind DEF TypeOK, FollowsInput
        <4> QED BY <1>2, <1>6, <3>2, <3>4, <4>1, <4>2, <4>3, <4>4, <4>5
                DEF DiskFollows, CopyFollows
      <3>6. CASE d # at
        <4>1. vm'.disks[d] = vm.disks[d] /\ (Fetched(d)' <=> Fetched(d))
          BY <1>0, <1>6, <3>3, <3>6
        <4>2. /\ Source(Loaded.disks[d])' = Source(Loaded.disks[d])
              /\ Ambiguous(Loaded.disks[d])' <=> Ambiguous(Loaded.disks[d])
          BY <1>2 DEF Source, Ambiguous
        <4> QED BY <1>0, <1>2, <3>1, <3>2, <3>4, <4>1, <4>2 DEF DiskFollows, CopyFollows
      <3> QED BY <3>5, <3>6
    <2> QED BY <1>0, <1>2, <1>6, <2>1 DEF FollowsInput, Accepted
  <1>7. CASE Disk.containerImage = "" /\ at' = at + 1 /\ UNCHANGED <<pc, vm>>
    <2>1. Disk.image = Source(Disk)
      BY <1>7 DEF Source
    <2>2. \A d \in DOMAIN vm.disks : vm'.disks[d] = IF d = at THEN Disk ELSE vm.disks[d]
      BY <1>4, <1>7
    <2> QED BY <1>6, <1>7, <2>1, <2>2
  <1>8. CASE /\ Disk.containerImage \in DOMAIN Images \ {""}
             /\ SetDisk([Disk EXCEPT !.image = CachedDisk(Disk.containerImage),
                                     !.containerImage = ""])
             /\ at' = at + 1
             /\ UNCHANGED pc
    <2> DEFINE disk == [Disk EXCEPT !.image = CachedDisk(Disk.containerImage),
                                    !.containerImage = ""]
    <2>1. /\ disk \in DiskSpec /\ disk.name = Disk.name /\ disk.size = Disk.size
          /\ disk.image = CachedDisk(Disk.containerImage)
      BY <1>4, TextAssumption DEF DiskSpec, Path, CachedDisk
    <2>2. Source(Disk) = CachedDisk(Disk.containerImage)
      BY <1>8 DEF Source
    <2>3. SetDisk(disk)
      BY <1>8
    <2> HIDE DEF disk
    <2>4. /\ DOMAIN vm'.disks = DOMAIN vm.disks
          /\ \A d \in DOMAIN vm.disks : vm'.disks[d] = IF d = at THEN disk ELSE vm.disks[d]
      BY <1>0, <1>4, <2>1, <2>3, SetDiskType
    <2>5. /\ vm'.name = vm.name /\ vm'.cores = vm.cores /\ vm'.memory = vm.memory
          /\ vm'.networks = vm.networks /\ vm'.cloudInit = vm.cloudInit
      BY <1>0, <2>3, SetDiskKeeps
    <2> QED BY <1>6, <1>8, <2>1, <2>2, <2>4, <2>5
  <1> QED BY <1>5, <1>7, <1>8 DEF ExtractContainerDisk

\* Between the loops the configuration stays as it is.
LEMMA HostFollows ==
  ASSUME CreateInv, FollowsInput,
         ExtractionDone \/ Validate \/ Reach \/ SizedDisksDone \/ ConvertAndCreateVM
  PROVE  FollowsInput'
  <1>0. TypeOK /\ vm \in VMSpec /\ at \in Nat \ {0} /\ vm.disks \in Seq(DiskSpec)
    BY DEF CreateInv, TypeOK, VMSpec
  <1>1. input' = input /\ made' = made /\ vm' = vm
    BY DEF ExtractionDone, Validate, Reach, SizedDisksDone, ConvertAndCreateVM
  <1>2. /\ opts' = opts /\ Loaded' = Loaded /\ Forwarded' = Forwarded
        /\ FlagKeys' = FlagKeys /\ \A d : FinalSize(d)' = FinalSize(d)
    BY <1>1, SameInput
  <1>3. \A d : /\ Source(Loaded.disks[d])' = Source(Loaded.disks[d])
               /\ Ambiguous(Loaded.disks[d])' <=> Ambiguous(Loaded.disks[d])
    BY <1>2 DEF Source, Ambiguous
  <1>4. CASE pc' = "err"
    BY <1>4 DEF FollowsInput
  <1> SUFFICES ASSUME pc' # "err" PROVE FollowsInput'
    BY <1>4
  <1>5. \/ pc = "extract" /\ pc' = "validate" /\ at' = 1 /\ at > Len(vm.disks)
        \/ pc = "validate" /\ pc' = "client" /\ at' = at /\ Valid(vm)
        \/ pc = "client" /\ pc' = "exists" /\ at' = at
        \/ pc = "exists" /\ pc' = "image" /\ at' = at
        \/ pc = "image" /\ pc' = "sized" /\ at' = at
        \/ pc = "sized" /\ pc' = "convert" /\ at' = 1 /\ at > Len(vm.disks)
        \/ pc = "convert" /\ pc' = "created"
    BY DEF ExtractionDone, Validate, Reach, SizedDisksDone, ConvertAndCreateVM, Goto
  <1>6. pc \in {"validate", "client", "exists", "image"} => at = 1
    BY DEF FollowsInput
  <1>7. ASSUME NEW d \in DOMAIN vm.disks
        PROVE  (Fetched(d)' <=> Fetched(d)) /\ (Copied(d)' <=> Copied(d))
    <2>1. d \in Nat \ {0} /\ d <= Len(vm.disks) /\ Len(vm.disks) \in Nat
      BY <1>0
    <2>2. Fetched(d)' <=> Fetched(d)
      BY <1>0, <1>5, <2>1 DEF Fetched, Accepted
    <2>3. Copied(d)' <=> Copied(d)
      BY <1>0, <1>2, <1>5, <1>6, <2>1 DEF Copied
    <2> QED BY <2>2, <2>3
  <1>8. ASSUME NEW d \in DOMAIN vm.disks
        PROVE  /\ DiskFollows(d) => DiskFollows(d)'
               /\ CopyFollows(d) => CopyFollows(d)'
    <2>1. pc \notin {"ports", "cloudinit", "size"} /\ pc' \notin {"ports", "cloudinit", "size"}
      BY <1>5
    <2>2. DiskFollows(d) => DiskFollows(d)'
      BY <1>1, <1>2, <1>3, <1>7, <2>1 DEF DiskFollows
    <2>3. CopyFollows(d) => CopyFollows(d)'
      BY <1>1, <1>2, <1>3, <1>7 DEF CopyFollows, ParseQuantityBytes, Attributes
    <2> QED BY <2>2, <2>3
  <1>9. pc \notin {"load", "err", "ports", "cloudinit"} /\ pc' \notin {"ports", "cloudinit"}
    BY <1>5
  <1>10. pc' \in Accepted => \A i \in DOMAIN vm.networks : ValidNetwork(vm.networks[i])
    <2>1. CASE pc = "validate"
      BY <1>5, <2>1 DEF Valid
    <2>2. CASE pc # "validate"
      <3>1. pc' \in Accepted => pc \in Accepted
        BY <1>5, <2>2 DEF Accepted
      <3> QED BY <1>9, <3>1 DEF FollowsInput
    <2> QED BY <2>1, <2>2
  <1>11. (\A i \in DOMAIN vm.networks : ValidNetwork(vm.networks[i]))
         => (\A i \in DOMAIN vm.networks : ValidNetwork(vm.networks[i]))'
    BY <1>1
  <1>12. DistinctNames' => DistinctNames
    BY <1>1 DEF DistinctNames
  <1>13. pc' \in {"validate", "client", "exists", "image"} => at' = 1
    BY <1>5, <1>6
  <1> QED BY <1>1, <1>2, <1>8, <1>9, <1>10, <1>11, <1>12, <1>13 DEF FollowsInput

\* A resized copy is made of the source of the input, and as long as no two
\* disks have one name it is not replaced by the copy for another disk.
LEMMA SizedFollows ==
  ASSUME CreateInv, FollowsInput, PrepareSizedDisk
  PROVE  FollowsInput'
  <1>0. TypeOK /\ vm \in VMSpec /\ at \in Nat \ {0} /\ pc = "sized" /\ at <= Len(vm.disks)
    BY DEF CreateInv, TypeOK, PrepareSizedDisk
  <1>1. input' = input
    BY DEF PrepareSizedDisk
  <1>2. /\ opts' = opts /\ Loaded' = Loaded /\ Forwarded' = Forwarded
        /\ FlagKeys' = FlagKeys /\ \A d : FinalSize(d)' = FinalSize(d)
    BY <1>1, SameInput
  <1>3. vm.disks \in Seq(DiskSpec)
    BY <1>0 DEF VMSpec
  <1>4. at \in DOMAIN vm.disks /\ Disk \in DiskSpec /\ Disk = vm.disks[at]
    <2>1. at \in DOMAIN vm.disks
      BY <1>0, <1>3
    <2> QED BY <1>3, <2>1, Places DEF Disk
  <1>5. \A d : /\ Source(Loaded.disks[d])' = Source(Loaded.disks[d])
               /\ Ambiguous(Loaded.disks[d])' <=> Ambiguous(Loaded.disks[d])
    BY <1>2 DEF Source, Ambiguous
  <1>6. CASE at' = at /\ Fail /\ UNCHANGED made
    BY <1>6 DEF Fail, FollowsInput
  <1>7. ASSUME NEW d \in DOMAIN vm.disks, at' = at + 1, pc' = pc
        PROVE  /\ Fetched(d) /\ Fetched(d)' /\ DiskFollows(d)
               /\ d # at => (Copied(d)' <=> Copied(d))
               /\ d = at => (Copied(d)' <=> FinalSize(d) # NoQuantity) /\ ~Copied(d)
               /\ vm.disks[d].size = FinalSize(d)
    <2>1. d \in Nat
      BY <1>3, Places
    <2>2. Fetched(d) /\ Fetched(d)'
      BY <1>0, <1>7 DEF Fetched, Accepted
    <2>3. DiskFollows(d)
      BY <1>0 DEF FollowsInput
    <2>4. vm.disks[d].size = FinalSize(d)
      BY <1>0, <2>3 DEF DiskFollows
    <2>5. /\ d # at => (Copied(d)' <=> Copied(d))
          /\ d = at => (Copied(d)' <=> FinalSize(d) # NoQuantity) /\ ~Copied(d)
      BY <1>0, <1>2, <1>7, <2>1 DEF Copied
    <2> QED BY <2>2, <2>3, <2>4, <2>5
  <1>8. ASSUME at' = at + 1, pc' = pc, DOMAIN vm'.disks = DOMAIN vm.disks,
               /\ vm'.name = vm.name /\ vm'.cores = vm.cores /\ vm'.memory = vm.memory
               /\ vm'.networks = vm.networks /\ vm'.cloudInit = vm.cloudInit,
               \A d \in DOMAIN vm.disks : DiskFollows(d)',
               DistinctNames' => \A d \in DOMAIN vm.disks : CopyFollows(d)'
        PROVE  FollowsInput'
    <2>1. \A i \in DOMAIN vm.networks : ValidNetwork(vm.networks[i])
      BY <1>0 DEF FollowsInput, Accepted
    <2> QED BY <1>0, <1>2, <1>8, <2>1 DEF FollowsInput
  <1>9. CASE Disk.size = NoQuantity /\ at' = at + 1 /\ UNCHANGED <<pc, vm, made>>
    <2>1. ASSUME NEW d \in DOMAIN vm.disks
          PROVE  /\ Copied(d)' <=> Copied(d)
                 /\ DiskFollows(d)'
                 /\ CopyFollows(d) => CopyFollows(d)'
      <3>1. Copied(d)' <=> Copied(d)
        <4>1. d = at => FinalSize(d) = NoQuantity
          BY <1>4, <1>7, <1>9
        <4> QED BY <1>7, <1>9, <4>1
      <3>2. DiskFollows(d)'
        <4>1. pc' = pc /\ vm' = vm /\ Fetched(d) /\ Fetched(d)' /\ DiskFollows(d)
          BY <1>7, <1>9
        <4> QED BY <1>0, <1>2, <1>5, <3>1, <4>1 DEF DiskFollows
      <3>3. CopyFollows(d) => CopyFollows(d)'
        <4>1. made' = made
          BY <1>9
        <4> QED BY <1>2, <1>5, <3>1, <4>1 DEF CopyFollows, ParseQuantityBytes, Attributes
      <3> QED BY <3>1, <3>2, <3>3
    <2>2. DistinctNames' => DistinctNames
      BY <1>9 DEF DistinctNames
    <2>3. DistinctNames' => \A d \in DOMAIN vm.disks : CopyFollows(d)'
      BY <1>0, <2>1, <2>2 DEF FollowsInput
    <2> QED BY <1>8, <1>9, <2>1, <2>3
  <1>10. CASE /\ Disk.size # NoQuantity
              /\ ParseQuantityBytes(Disk.size) >= Attributes(Disk.image).size
              /\ made' = [d \in DOMAIN made \cup {Disk.name} |->
                            IF d = Disk.name
                            THEN [from |-> Disk.image, bytes |-> ParseQuantityBytes(Disk.size)]
                            ELSE made[d]]
              /\ SetDisk([Disk EXCEPT !.image = SizedDisk(Disk.name)])
              /\ at' = at + 1
              /\ UNCHANGED pc
    <2> DEFINE disk == [Disk EXCEPT !.image = SizedDisk(Disk.name)]
    <2>1. /\ disk \in DiskSpec /\ disk.name = Disk.name /\ disk.size = Disk.size
          /\ disk.image = SizedDisk(Disk.name)
      BY <1>4 DEF DiskSpec, Path, SizedDisk
    <2>2. SetDisk(disk)
      BY <1>10
    <2> HIDE DEF disk
    <2>3. /\ DOMAIN vm'.disks = DOMAIN vm.disks
          /\ \A d \in DOMAIN vm.disks : vm'.disks[d] = IF d = at THEN disk ELSE vm.disks[d]
      BY <1>0, <1>4, <2>1, <2>2, SetDiskType
    <2>4. /\ vm'.name = vm.name /\ vm'.cores = vm.cores /\ vm'.memory = vm.memory
          /\ vm'.networks = vm.networks /\ vm'.cloudInit = vm.cloudInit
      BY <1>0, <2>2, SetDiskKeeps
    <2>5. /\ Disk.name = Loaded.disks[at].name /\ Disk.size = FinalSize(at)
          /\ ~Ambiguous(Loaded.disks[at]) => Disk.image = Source(Loaded.disks[at])
          /\ FinalSize(at) # NoQuantity
      <3>1. Fetched(at) /\ DiskFollows(at) /\ ~Copied(at) /\ Disk.size = FinalSize(at)
        BY <1>4, <1>7, <1>10
      <3>2. FinalSize(at) # NoQuantity
        BY <1>10, <3>1
      <3> QED BY <1>4, <3>1, <3>2 DEF DiskFollows
    <2>6. ASSUME NEW d \in DOMAIN vm.disks PROVE DiskFollows(d)'
      <3>1. CASE d = at
        <4>1. Fetched(d)' /\ Copied(d)' /\ vm'.disks[d] = disk
          BY <1>7, <1>10, <2>3, <2>5, <3>1
        <4> QED BY <1>0, <1>2, <1>10, <2>1, <2>5, <3>1, <4>1 DEF DiskFollows
      <3>2. CASE d # at
        <4>1. /\ Fetched(d) /\ Fetched(d)' /\ DiskFollows(d) /\ (Copied(d)' <=> Copied(d))
              /\ vm'.disks[d] = vm.disks[d] /\ pc' = pc
          BY <1>7, <1>10, <2>3, <3>2
        <4> QED BY <1>0, <1>2, <1>5, <4>1 DEF DiskFollows
      <3> QED BY <3>1, <3>2
    <2>7. ASSUME NEW d \in DOMAIN vm.disks, DistinctNames'
          PROVE  CopyFollows(d)'
      <3>1. ASSUME NEW e \in DOMAIN vm.disks PROVE vm'.disks[e].name = vm.disks[e].name
        <4>1. vm'.disks[e] = IF e = at THEN disk ELSE vm.disks[e]
          BY <2>3
        <4>2. disk.name = vm.disks[at].name
          BY <1>4, <2>1
        <4> QED BY <4>1, <4>2
      <3>2. DistinctNames
        BY <2>3, <2>7, <3>1 DEF DistinctNames
      <3>3. CopyFollows(d)
        BY <1>0, <3>2 DEF FollowsInput
      <3>4. CASE d = at
        <4>1. /\ Loaded.disks[d].name \in DOMAIN made'
              /\ made'[Loaded.disks[d].name]
                   = [from |-> Disk.image, bytes |-> ParseQuantityBytes(FinalSize(d))]
          BY <1>10, <2>5, <3>4
        <4>2. ParseQuantityBytes(FinalSize(d)) >= Attributes(Disk.image).size
          BY <1>10, <2>5, <3>4
        <4>3. ~Ambiguous(Loaded.disks[d]) => Disk.image = Source(Loaded.disks[d])
          BY <2>5, <3>4
        <4> QED BY <1>2, <1>5, <4>1, <4>2, <4>3 DEF CopyFollows
      <3>5. CASE d # at
        <4>1. vm.disks[d].name = Loaded.disks[d].name
          BY <1>7, <1>10 DEF DiskFollows
        <4>2. Loaded.disks[d].name # Disk.name
          BY <1>4, <3>2, <3>5, <4>1 DEF DistinctNames
        <4>3. /\ Loaded.disks[d].name \in DOMAIN made => Loaded.disks[d].name \in DOMAIN made'
              /\ Loaded.disks[d].name \in DOMAIN made =>
                    made'[Loaded.disks[d].name] = made[Loaded.disks[d].name]
          BY <1>10, <4>2
        <4>4. Copied(d)' <=> Copied(d)
          BY <1>7, <1>10, <3>5
        <4> QED BY <1>2, <1>5, <3>3, <4>3, <4>4 DEF CopyFollows
      <3> QED BY <3>4, <3>5
    <2> QED BY <1>8, <1>10, <2>3, <2>4, <2>6, <2>7
  <1> QED BY <1>6, <1>9, <1>10 DEF PrepareSizedDisk

LEMMA NextFollows == CreateInv /\ FollowsInput /\ [Next]_vars => FollowsInput'
  <1>1. ASSUME FollowsInput, UNCHANGED vars PROVE FollowsInput'
    <2>1. vm' = vm /\ input' = input /\ made' = made /\ at' = at /\ pc' = pc
      BY <1>1 DEF vars
    <2>2. /\ opts' = opts /\ Loaded' = Loaded /\ Forwarded' = Forwarded
          /\ FlagKeys' = FlagKeys /\ \A d : FinalSize(d)' = FinalSize(d)
      BY <2>1, SameInput
    <2>3. \A d : /\ Source(Loaded.disks[d])' = Source(Loaded.disks[d])
                 /\ Ambiguous(Loaded.disks[d])' <=> Ambiguous(Loaded.disks[d])
                 /\ Fetched(d)' <=> Fetched(d)
                 /\ Copied(d)' <=> Copied(d)
      BY <2>1, <2>2 DEF Source, Ambiguous, Fetched, Copied
    <2>4. \A d : (DiskFollows(d) => DiskFollows(d)') /\ (CopyFollows(d) => CopyFollows(d)')
      BY <2>1, <2>2, <2>3 DEF DiskFollows, CopyFollows
    <2>5. DistinctNames' => DistinctNames
      BY <2>1 DEF DistinctNames
    <2> QED BY <1>1, <2>1, <2>2, <2>4, <2>5 DEF FollowsInput
  <1> QED BY <1>1, PrepareFollows, ExtractFollows, HostFollows, SizedFollows DEF Next

\* At every step of runCreate the configuration is what the file and the flags
\* say, as far as the command has come, for any number of disks: each keeps its
\* place, its name and its size, and the bytes of one with a single source come
\* from that source.
THEOREM Follows == Spec => []FollowsInput
  <1>1. Init => FollowsInput
    BY DEF Init, FollowsInput
  <1>2. CreateInv /\ FollowsInput /\ [Next]_vars => FollowsInput'
    BY NextFollows
  <1> QED BY <1>1, <1>2, CreateInvariant, PTL DEF Spec

-----------------------------------------------------------------------------
(* The container *)

\* The parts of the container that CreateVM makes of the configuration.
LEMMA Built ==
  ASSUME CreateInv, pc = "created"
  PROVE  /\ ctr.name = vm.name /\ ctr.vmi.cores = vm.cores /\ ctr.vmi.memory = vm.memory
         /\ ctr.vmi.userData = BuildUserData(vm.cloudInit)
         /\ ctr.sshUser = IF vm.cloudInit.set THEN EffectiveLogin(vm.cloudInit.user) ELSE ""
         /\ ctr.ports = [f \in Forwards(vm.networks) |->
                            PortMapping(vm.networks[f[1]].ports[f[2]])]
  <1> DEFINE vmi == ToVMI(vm)
             forwards == [f \in Forwards(vm.networks) |-> vm.networks[f[1]].ports[f[2]]]
  <1>1. ctr = ContainerSpec(vm.name, vmi)
    BY DEF CreateInv
  <1>2. /\ vmi.cores = vm.cores /\ vmi.memory = vm.memory
        /\ vmi.userData = BuildUserData(vm.cloudInit)
        /\ vmi.sshUser = IF vm.cloudInit.set THEN EffectiveLogin(vm.cloudInit.user) ELSE ""
    BY DEF ToVMI
  <1>3. vmi.portForwards = forwards
    BY DEF ToVMI
  <1> HIDE DEF vmi
  <1>4. /\ ctr.name = vm.name /\ ctr.vmi = vmi /\ ctr.sshUser = vmi.sshUser
        /\ ctr.ports = [f \in DOMAIN vmi.portForwards |-> PortMapping(vmi.portForwards[f])]
    BY <1>1 DEF ContainerSpec
  <1>5. DOMAIN forwards = Forwards(vm.networks)
        /\ \A f \in Forwards(vm.networks) : forwards[f] = vm.networks[f[1]].ports[f[2]]
    OBVIOUS
  <1> HIDE DEF forwards
  <1>6. ctr.ports = [f \in Forwards(vm.networks) |->
                       PortMapping(vm.networks[f[1]].ports[f[2]])]
    BY <1>3, <1>4, <1>5
  <1> QED BY <1>2, <1>4, <1>6

\* The label of the keys says whether there are any.
LEMMA KeysLabel ==
  ASSUME CreateInv, pc = "created"
  PROVE  ctr.sshKeys <=> vm.cloudInit.set /\ vm.cloudInit.keys # {}
  <1> DEFINE Label(b) ==
        [cores |-> vm.cores,
         memory |-> vm.memory,
         volumes |-> [i \in DOMAIN vm.disks |-> ContainerPath(vm.disks[i])],
         hostMounts |-> HostMounts(vm.disks),
         portForwards |-> [f \in Forwards(vm.networks) |-> vm.networks[f[1]].ports[f[2]]],
         userData |-> BuildUserData(vm.cloudInit),
         sshUser |-> IF vm.cloudInit.set THEN EffectiveLogin(vm.cloudInit.user) ELSE "",
         sshKeysConfigured |-> b]
  <1>1. ctr.sshKeys = ToVMI(vm).sshKeysConfigured
    BY DEF CreateInv, ContainerSpec
  <1>2. \A b : Label(b).sshKeysConfigured = b
    OBVIOUS
  <1>3. CASE vm.cloudInit.set /\ vm.cloudInit.keys # {}
    <2>1. (vm.cloudInit.set /\ vm.cloudInit.keys # {}) = TRUE
      BY <1>3, Zenon
    <2>2. ToVMI(vm) = Label(TRUE)
      BY <2>1, Zenon DEF ToVMI
    <2> HIDE DEF Label
    <2>3. ctr.sshKeys = TRUE
      BY <1>1, <1>2, <2>2
    <2> QED BY <1>3, <2>3, Zenon
  <1>4. CASE ~(vm.cloudInit.set /\ vm.cloudInit.keys # {})
    <2>1. (vm.cloudInit.set /\ vm.cloudInit.keys # {}) = FALSE
      BY <1>4, Zenon
    <2>2. ToVMI(vm) = Label(FALSE)
      BY <2>1, Zenon DEF ToVMI
    <2> HIDE DEF Label
    <2>3. ctr.sshKeys = FALSE
      BY <1>1, <1>2, <2>2
    <2> QED BY <1>4, <2>3, Zenon
  <1> QED BY <1>3, <1>4

\* The login of the file; without a cloudInit section there is none.
LEMMA LoadedLogin ==
  ASSUME input \in Input
  PROVE  /\ Loaded.cloudInit \in CloudInitSpec
         /\ Loaded.cloudInit.keys = IF opts.config THEN input.file.cloudInit.keys ELSE {}
         /\ Loaded.cloudInit.set <=> opts.config /\ input.file.cloudInit.set
         /\ ~Loaded.cloudInit.set => Loaded.cloudInit.keys = {}
  <1> DEFINE file == input.file
             login == file.cloudInit
  <1>1. file \in VMSpec /\ opts \in Options /\ login \in CloudInitSpec
    BY InputType DEF VMSpec
  <1>2. ~login.set => login = NoCloudInit
    BY DEF Input, FileSpec
  <1>3. Loaded.cloudInit \in CloudInitSpec
    BY LoadedType DEF VMSpec
  <1>4. CASE opts.config
    <2> DEFINE base == ApplyDefaults(file)
    <2>1. base \in VMSpec
      BY <1>1, ApplyDefaultsType
    <2>2. base.cloudInit = IF ~login.set THEN login
                           ELSE [login EXCEPT !.user = Default(@, DefaultLogin),
                                              !.password = Default(@, DefaultLogin)]
      BY <1>1 DEF ApplyDefaults, VMSpec
    <2>3. base.cloudInit.keys = login.keys /\ base.cloudInit.set = login.set
      BY <1>1, <2>2 DEF CloudInitSpec
    <2> HIDE DEF base
    <2>4. Loaded.cloudInit = base.cloudInit
      BY <1>4, <2>1 DEF Loaded, LoadCreateVM, MergeFlags, VMSpec, base
    <2>5. ~login.set => login.keys = {}
      <3>1. NoCloudInit.keys = {}
        BY DEF NoCloudInit
      <3> QED BY <1>2, <3>1, Zenon
    <2> QED BY <1>3, <1>4, <2>3, <2>4, <2>5
  <1>5. CASE ~opts.config
    <2> DEFINE new == [EmptyVM EXCEPT
                !.name = opts.name, !.cores = Uint32(opts.cpus), !.memory = opts.memory,
                !.disks = SetDisks(<<>>, opts),
                !.networks = <<[type |-> "masquerade", ports |-> <<>>]>>]
    <2>1. Loaded = ApplyDefaults(new)
      BY <1>5, Zenon DEF Loaded, LoadCreateVM, LoadFromFlags
    <2>2. new.cloudInit = NoCloudInit /\ ~NoCloudInit.set /\ NoCloudInit.keys = {}
      BY DEF EmptyVM, NoCloudInit
    <2>3. DOMAIN new = {"name", "cores", "memory", "disks", "networks", "cloudInit"}
      BY DEF EmptyVM
    <2> HIDE DEF new
    <2>4. Loaded.cloudInit = NoCloudInit
      BY <2>1, <2>2, <2>3 DEF ApplyDefaults
    <2> QED BY <1>3, <1>5, <2>2, <2>4
  <1> QED BY <1>4, <1>5

\* The guest is told every key and the login that were asked for, and the labels
\* that ssh reads say what the guest is told.
THEOREM Login == Spec => []LoginAsAsked
  <1>1. CreateInv /\ FollowsInput => LoginAsAsked
    <2> DEFINE ci == vm.cloudInit
               loaded == Loaded.cloudInit
               login == ctr.vmi.userData
               changed == FlagKeys # {} \/ opts.password # ""
               fileKeys == IF opts.config THEN input.file.cloudInit.keys ELSE {}
    <2> SUFFICES ASSUME CreateInv, FollowsInput, pc = "created"
                 PROVE  /\ ctr.sshUser = IF login.set THEN login.user ELSE ""
                        /\ ctr.sshKeys <=> login.keys # {}
                        /\ login.keys = FlagKeys \cup fileKeys
                        /\ opts.password # "" => login.password = opts.password
                        /\ (changed /\ opts.user # "" => login.user = opts.user)
                        /\ login.set <=> changed \/ (opts.config /\ input.file.cloudInit.set)
      BY Zenon DEF LoginAsAsked, FlagKeys
    <2>1. ci = ApplyCloudInitFlags(loaded, opts, FlagKeys)
      BY DEF FollowsInput
    <2>2. input \in Input /\ ci \in CloudInitSpec
      BY DEF CreateInv, TypeOK, VMSpec
    <2>3. /\ loaded \in CloudInitSpec /\ loaded.keys = fileKeys
          /\ loaded.set <=> opts.config /\ input.file.cloudInit.set
          /\ ~loaded.set => loaded.keys = {}
      BY <2>2, LoadedLogin
    <2>4. login = BuildUserData(ci)
          /\ ctr.sshUser = IF ci.set THEN EffectiveLogin(ci.user) ELSE ""
      BY Built
    <2>5. /\ login.set = ci.set /\ login.keys = ci.keys
          /\ login.user = EffectiveLogin(ci.user)
          /\ login.password = EffectiveLogin(ci.password)
      BY <2>2, <2>4 DEF BuildUserData, CloudInitSpec
    <2>6. ctr.sshKeys <=> ci.set /\ ci.keys # {}
      BY KeysLabel
    <2> HIDE DEF ci, loaded, login, fileKeys
    <2>7. CASE changed
      <3>1. /\ ci.set = TRUE /\ ci.keys = loaded.keys \cup FlagKeys
            /\ ci.password = Default(opts.password, Default(loaded.password, DefaultLogin))
            /\ ci.user = Default(opts.user, Default(loaded.user, DefaultLogin))
        BY <2>1, <2>7 DEF ApplyCloudInitFlags
      <3>2. opts.password # "" => login.password = opts.password
        BY <2>5, <3>1 DEF Default, EffectiveLogin
      <3>3. opts.user # "" => login.user = opts.user
        BY <2>5, <3>1 DEF Default, EffectiveLogin
      <3>4. login.keys = FlagKeys \cup fileKeys
        BY <2>3, <2>5, <3>1
      <3>5. ci.set /\ login.set
        BY <2>5, <3>1
      <3> QED BY <2>4, <2>5, <2>6, <2>7, <3>2, <3>3, <3>4, <3>5
    <2>8. CASE ~changed
      <3>1. ci = loaded
        BY <2>1, <2>8 DEF ApplyCloudInitFlags
      <3>2. FlagKeys = {} /\ opts.password = ""
        BY <2>8
      <3>3. login.keys = FlagKeys \cup fileKeys
        BY <2>3, <2>5, <3>1, <3>2
      <3>4. ci.set <=> opts.config /\ input.file.cloudInit.set
        BY <2>3, <3>1
      <3>5. ctr.sshKeys <=> login.keys # {}
        BY <2>3, <2>5, <2>6, <3>1
      <3>6. login.set <=> changed \/ (opts.config /\ input.file.cloudInit.set)
        BY <2>5, <2>8, <3>4
      <3> QED BY <2>4, <2>5, <2>8, <3>2, <3>3, <3>5, <3>6
    <2> QED BY <2>7, <2>8
  <1> QED BY <1>1, CreateInvariant, Follows, PTL

-----------------------------------------------------------------------------
(* The disks of the container *)

\* In the end the bytes of disk d come from the source of disk d of the input,
\* if that has only one.
LEMMA Origins ==
  ASSUME CreateInv, FollowsInput, pc = "created", DistinctNames, NEW d \in DOMAIN vm.disks
  PROVE  /\ d \in DOMAIN Loaded.disks
         /\ vm.disks[d].name = Loaded.disks[d].name
         /\ ~Ambiguous(Loaded.disks[d]) => Origin(d) = Source(Loaded.disks[d])
         /\ FinalSize(d) = NoQuantity => vm.disks[d].image.kind # "sized"
         /\ FinalSize(d) # NoQuantity =>
               /\ vm.disks[d].image = SizedDisk(vm.disks[d].name)
               /\ made[vm.disks[d].name].bytes = ParseQuantityBytes(FinalSize(d))
               /\ made[vm.disks[d].name].bytes >= Attributes(Origin(d)).size
  <1> DEFINE from == Loaded.disks[d]
  <1>1. Fetched(d) /\ (Copied(d) <=> FinalSize(d) # NoQuantity)
    BY DEF Fetched, Copied, Accepted
  <1>2. d \in DOMAIN Loaded.disks /\ DiskFollows(d) /\ CopyFollows(d)
    BY DEF FollowsInput
  <1>3. vm.disks[d].name = from.name
    BY <1>2 DEF DiskFollows
  <1>4. /\ FinalSize(d) = NoQuantity =>
              /\ vm.disks[d].image.kind # "sized"
              /\ ~Ambiguous(from) => vm.disks[d].image = Source(from)
        /\ FinalSize(d) # NoQuantity => vm.disks[d].image = SizedDisk(from.name)
    BY <1>1, <1>2 DEF DiskFollows
  <1>5. FinalSize(d) # NoQuantity =>
            /\ ~Ambiguous(from) => made[from.name].from = Source(from)
            /\ made[from.name].bytes = ParseQuantityBytes(FinalSize(d))
            /\ made[from.name].bytes >= Attributes(made[from.name].from).size
    BY <1>1, <1>2 DEF CopyFollows
  <1>6. SizedDisk(from.name).kind = "sized" /\ SizedDisk(from.name).id = from.name
    BY DEF SizedDisk
  <1> HIDE DEF from
  <1>7. Origin(d) = IF FinalSize(d) = NoQuantity THEN vm.disks[d].image
                    ELSE made[from.name].from
    BY <1>4, <1>6 DEF Origin
  <1> QED BY <1>2, <1>3, <1>4, <1>5, <1>7 DEF from

\* Every disk for which the file or --disk-size asks a size is a copy, never
\* smaller than what it was copied from, and of exactly that size if the product
\* of number and suffix is below 2^64; for any number of disks, of distinct
\* names.
THEOREM Sizes == Spec => []SizeAsAsked
  <1>1. CreateInv /\ FollowsInput => SizeAsAsked
    <2> SUFFICES ASSUME CreateInv, FollowsInput, pc = "created", DistinctNames,
                        NEW d \in DOMAIN vm.disks
                 PROVE  LET bytes == AskedSize(d).num * Multiplier[AskedSize(d).suffix]
                        IN  IF AskedSize(d) = NoQuantity THEN vm.disks[d].image.kind # "sized"
                            ELSE /\ vm.disks[d].image = SizedDisk(vm.disks[d].name)
                                 /\ bytes < Word64 => made[vm.disks[d].name].bytes = bytes
                                 /\ made[vm.disks[d].name].bytes >= Attributes(Origin(d)).size
      BY DEF SizeAsAsked
    <2> DEFINE size == FinalSize(d)
               bytes == size.num * Multiplier[size.suffix]
    <2>1. input \in Input
      BY DEF CreateInv, TypeOK
    <2>2. d \in DOMAIN Loaded.disks
      BY Origins
    <2>3. AskedSize(d) = size
      BY <2>1, <2>2, LoadedSizes DEF AskedSize, FinalSize
    <2>4. size \in Quantity
      <3>1. opts.diskSize \in Quantity
        BY <2>1, InputType DEF Options
      <3>2. Loaded.disks[d] \in DiskSpec
        BY <2>1, <2>2, LoadedType, Places
      <3> QED BY <3>1, <3>2 DEF FinalSize, DiskSpec
    <2> HIDE DEF size
    <2>5. CASE size = NoQuantity
      <3>1. vm.disks[d].image.kind # "sized"
        BY <2>5, Origins DEF size
      <3> QED BY <2>3, <2>5, <3>1
    <2>6. CASE size # NoQuantity
      <3>1. /\ vm.disks[d].image = SizedDisk(vm.disks[d].name)
            /\ made[vm.disks[d].name].bytes = ParseQuantityBytes(size)
            /\ made[vm.disks[d].name].bytes >= Attributes(Origin(d)).size
        BY <2>6, Origins DEF size
      <3>2. ParseQuantityBytes(size) = bytes % Word64
        BY DEF ParseQuantityBytes
      <3>3. bytes \in Nat
        <4>1. size.num \in Nat /\ Multiplier[size.suffix] \in Nat
          BY <2>4, <2>6, MultiplierAssumption DEF Quantity
        <4> HIDE DEF size
        <4> QED BY <4>1
      <3> HIDE DEF bytes
      <3>4. bytes < Word64 => bytes % Word64 = bytes
        BY <3>3, SmallMod, WordAssumption
      <3> QED BY <2>3, <2>6, <3>1, <3>2, <3>4 DEF bytes
    <2> QED BY <2>5, <2>6
  <1> QED BY <1>1, CreateInvariant, Follows, PTL

-----------------------------------------------------------------------------
(* The flags *)

\* What the file and the flags make of the name, the cores and the memory.
LEMMA LoadedFields ==
  ASSUME input \in Input
  PROVE  /\ (opts.config \/ opts.name # "" =>
                Loaded.name = Default(opts.name, input.file.name))
         /\ opts.config /\ ~opts.cpusChanged =>
               Loaded.cores = IF input.file.cores = 0 THEN 1 ELSE input.file.cores
         /\ (opts.cpusChanged /\ opts.cpus \in 1..(Word32 - 1) => Loaded.cores = opts.cpus)
         /\ (opts.config /\ ~opts.memoryChanged /\ input.file.memory # NoQuantity =>
                Loaded.memory = input.file.memory)
         /\ (opts.memoryChanged /\ opts.memory # NoQuantity => Loaded.memory = opts.memory)
  <1> DEFINE file == input.file
  <1>1. file \in VMSpec /\ opts \in Options
    BY InputType
  <1>2. opts.cpus \in Int /\ opts.memory \in Quantity
    BY <1>1 DEF Options
  <1>3. opts.cpus \in 1..(Word32 - 1) => Uint32(opts.cpus) = opts.cpus /\ opts.cpus > 0
    <2>1. ASSUME opts.cpus \in 1..(Word32 - 1)
          PROVE  opts.cpus \in Nat /\ opts.cpus < Word32 /\ opts.cpus > 0
      BY <2>1, WordAssumption
    <2> QED BY <2>1, SmallMod, WordAssumption DEF Uint32
  <1>4. CASE opts.config
    <2> DEFINE base == ApplyDefaults(file)
    <2>1. base \in VMSpec
      BY <1>1, ApplyDefaultsType
    <2>2. /\ base.name = file.name
          /\ base.cores = IF file.cores = 0 THEN 1 ELSE file.cores
          /\ base.memory = IF file.memory = NoQuantity THEN DefaultMemory ELSE file.memory
      BY <1>1 DEF ApplyDefaults, VMSpec
    <2>3. Loaded = MergeFlags(base, opts)
      BY <1>4 DEF Loaded, LoadCreateVM
    <2> HIDE DEF base
    <2>4. /\ Loaded.name = Default(opts.name, base.name)
          /\ Loaded.memory = IF MemoryOverride(opts) # NoQuantity THEN MemoryOverride(opts)
                             ELSE base.memory
          /\ Loaded.cores = IF CpusOverride(opts) > 0 THEN Uint32(CpusOverride(opts))
                            ELSE base.cores
      BY <2>1, <2>3 DEF MergeFlags, VMSpec
    <2>5. /\ opts.cpusChanged => CpusOverride(opts) = opts.cpus
          /\ ~opts.cpusChanged => CpusOverride(opts) = 0
          /\ opts.memoryChanged => MemoryOverride(opts) = opts.memory
          /\ ~opts.memoryChanged => MemoryOverride(opts) = NoQuantity
      BY DEF CpusOverride, MemoryOverride
    <2>6. ~(0 > 0)
      OBVIOUS
    <2> QED BY <1>3, <2>2, <2>4, <2>5, <2>6
  <1>5. CASE ~opts.config
    <2> DEFINE new == [EmptyVM EXCEPT
                !.name = opts.name, !.cores = Uint32(opts.cpus), !.memory = opts.memory,
                !.disks = SetDisks(<<>>, opts),
                !.networks = <<[type |-> "masquerade", ports |-> <<>>]>>]
    <2>1. Loaded = ApplyDefaults(new)
      BY <1>5, Zenon DEF Loaded, LoadCreateVM, LoadFromFlags
    <2>2. new.name = opts.name /\ new.cores = Uint32(opts.cpus) /\ new.memory = opts.memory
      BY DEF EmptyVM
    <2>3. DOMAIN new = {"name", "cores", "memory", "disks", "networks", "cloudInit"}
      BY DEF EmptyVM
    <2> HIDE DEF new
    <2>4. /\ Loaded.name = new.name
          /\ Loaded.cores = IF new.cores = 0 THEN 1 ELSE new.cores
          /\ Loaded.memory = IF new.memory = NoQuantity THEN DefaultMemory ELSE new.memory
      BY <2>1, <2>3 DEF ApplyDefaults
    <2>5. opts.name # "" => Loaded.name = Default(opts.name, file.name)
      BY <2>2, <2>4 DEF Default
    <2>6. opts.cpus \in 1..(Word32 - 1) => Loaded.cores = opts.cpus
      BY <1>2, <1>3, <2>2, <2>4
    <2> QED BY <1>5, <2>2, <2>4, <2>5, <2>6
  <1> QED BY <1>4, <1>5

\* The sources that the flags give.
Given ==
    (IF opts.disk = "" THEN {} ELSE {LocalFile(opts.disk)})
    \cup (IF opts.image = "" THEN {} ELSE {CachedDisk(opts.image)})

\* The only source of a disk is x.
Only(disk, x) == ~Ambiguous(disk) /\ Source(disk) = x

LEMMA Pair ==
  ASSUME NEW a, NEW b
  PROVE  /\ IsFiniteSet({a, b})
         /\ Cardinality({a, b}) = IF a = b THEN 1 ELSE 2
  <1>1. IsFiniteSet({a}) /\ Cardinality({a}) = 1
    BY FS_Singleton
  <1>2. {a, b} = {a} \cup {b}
    OBVIOUS
  <1>3. b \in {a} <=> a = b
    OBVIOUS
  <1> QED BY <1>1, <1>2, <1>3, FS_AddElement

\* Each disk flag is at a place of its own, and no other place has changed.
LEMMA GivenPlaces ==
  ASSUME input \in Input
  PROVE  /\ DOMAIN FileDisks \subseteq DOMAIN Loaded.disks
         /\ \A x \in Given : \E d \in DOMAIN Loaded.disks : Only(Loaded.disks[d], x)
         /\ \E X : /\ IsFiniteSet(X) /\ Cardinality(X) <= Cardinality(Given)
                   /\ \A d \in DOMAIN FileDisks : d \notin X => Loaded.disks[d] = FileDisks[d]
  <1> DEFINE file == FileDisks
             path == opts.disk
             image == opts.image
             mid == SetLocalDisk(file, path)
             last == SetContainerDisk(mid, image)
             local == LocalFile(path)
             cached == CachedDisk(image)
  <1>1. /\ Loaded.disks = last /\ file \in Seq(DiskSpec)
        /\ path \in Text /\ image \in Text
    BY LoadedDisks DEF SetDisks
  <1>2. local # cached
    <2>1. local.kind = "local" /\ cached.kind = "cached"
      BY DEF LocalFile, CachedDisk
    <2> QED BY <2>1
  <1>3. /\ path = "" => mid = file
        /\ image = "" => last = mid
    BY DEF SetLocalDisk, SetContainerDisk
  <1>4. mid \in Seq(DiskSpec)
    BY <1>1, <1>3, LocalDiskSet
  <1>5. path # "" => \E p : Puts(file, mid, p, LocalDisk(path))
    BY <1>1, LocalDiskSet
  <1> HIDE DEF mid, path, image
  <1>6. image # "" =>
          \E p : /\ Puts(mid, last, p, ContainerDisk(image))
                 /\ p \in DOMAIN mid => \/ mid[p].name = "containerdisk"
                                        \/ mid[p].containerImage # ""
    BY <1>1, <1>4, ContainerDiskSet
  <1> HIDE DEF last, file, local, cached
  <1>7. \A p : Puts(file, mid, p, LocalDisk(path)) =>
          /\ p \in DOMAIN mid /\ DOMAIN file \subseteq DOMAIN mid
          /\ mid[p].name = "disk0" /\ mid[p].containerImage = "" /\ Only(mid[p], local)
          /\ \A d \in DOMAIN file : d # p => mid[d] = file[d]
    BY DEF Puts, LocalDisk, Only, Ambiguous, Source, local
  <1>8. Given = (IF path = "" THEN {} ELSE {local})
                \cup (IF image = "" THEN {} ELSE {cached})
    BY DEF Given, local, cached, path, image
  <1> SUFFICES /\ DOMAIN file \subseteq DOMAIN last
               /\ \A x \in Given : \E d \in DOMAIN last : Only(last[d], x)
               /\ \E X : /\ IsFiniteSet(X) /\ Cardinality(X) <= Cardinality(Given)
                         /\ \A d \in DOMAIN file : d \notin X => last[d] = file[d]
    BY <1>1 DEF file
  <1>9. CASE path = "" /\ image = ""
    <2>1. Given = {} /\ last = file
      BY <1>3, <1>8, <1>9
    <2>2. IsFiniteSet({}) /\ Cardinality({}) = 0
      BY FS_EmptySet
    <2>3. IsFiniteSet({}) /\ Cardinality({}) <= Cardinality(Given)
      BY <2>1, <2>2
    <2> QED BY <2>1, <2>3
  <1>10. CASE path # "" /\ image = ""
    <2>1. Given = {local} /\ last = mid
      BY <1>3, <1>8, <1>10
    <2>2. PICK p : Puts(file, mid, p, LocalDisk(path))
      BY <1>5, <1>10
    <2>3. IsFiniteSet({p}) /\ Cardinality({p}) <= Cardinality(Given)
      <3>1. IsFiniteSet({p}) /\ Cardinality({p}) = 1 /\ Cardinality(Given) = 1
        BY <2>1, FS_Singleton
      <3> QED BY <3>1
    <2>4. /\ p \in DOMAIN last /\ DOMAIN file \subseteq DOMAIN last /\ Only(last[p], local)
          /\ \A d \in DOMAIN file : d \notin {p} => last[d] = file[d]
      BY <1>7, <2>1, <2>2
    <2> QED BY <2>1, <2>3, <2>4
  <1>11. CASE path = "" /\ image # ""
    <2>1. Given = {cached} /\ mid = file
      BY <1>3, <1>8, <1>11
    <2>2. PICK p : Puts(mid, last, p, ContainerDisk(image))
      BY <1>6, <1>11
    <2>3. IsFiniteSet({p}) /\ Cardinality({p}) <= Cardinality(Given)
      <3>1. IsFiniteSet({p}) /\ Cardinality({p}) = 1 /\ Cardinality(Given) = 1
        BY <2>1, FS_Singleton
      <3> QED BY <3>1
    <2>4. /\ p \in DOMAIN last /\ DOMAIN file \subseteq DOMAIN last /\ Only(last[p], cached)
          /\ \A d \in DOMAIN file : d \notin {p} => last[d] = file[d]
      <3>1. image # ""
        BY <1>11
      <3>2. /\ p \in DOMAIN last /\ DOMAIN mid \subseteq DOMAIN last
            /\ Only(last[p], cached)
            /\ \A d \in DOMAIN mid : d # p => last[d] = mid[d]
        BY <2>2, <3>1 DEF Puts, ContainerDisk, Only, Ambiguous, Source, cached
      <3> QED BY <2>1, <3>2
    <2> QED BY <2>1, <2>3, <2>4
  <1>12. CASE path # "" /\ image # ""
    <2>1. Given = {local, cached}
      BY <1>8, <1>12
    <2>2. PICK p : Puts(file, mid, p, LocalDisk(path))
      BY <1>5, <1>12
    <2>3. PICK c : /\ Puts(mid, last, c, ContainerDisk(image))
                   /\ c \in DOMAIN mid => \/ mid[c].name = "containerdisk"
                                          \/ mid[c].containerImage # ""
      BY <1>6, <1>12
    <2>4. /\ p \in DOMAIN mid /\ DOMAIN file \subseteq DOMAIN mid
          /\ mid[p].name = "disk0" /\ mid[p].containerImage = "" /\ Only(mid[p], local)
          /\ \A d \in DOMAIN file : d # p => mid[d] = file[d]
      BY <1>7, <2>2
    <2>5. /\ c \in DOMAIN last /\ DOMAIN mid \subseteq DOMAIN last
          /\ Only(last[c], cached)
          /\ \A d \in DOMAIN mid : d # c => last[d] = mid[d]
      <3>1. image # ""
        BY <1>12
      <3>2. Puts(mid, last, c, ContainerDisk(image))
        BY <2>3
      <3> QED BY <3>1, <3>2 DEF Puts, ContainerDisk, Only, Ambiguous, Source, cached
    <2>6. p # c
      <3>1. "disk0" # "containerdisk"
        OBVIOUS
      <3> QED BY <2>3, <2>4, <3>1
    <2>7. p \in DOMAIN last /\ Only(last[p], local)
      BY <2>4, <2>5, <2>6
    <2>8. \A d \in DOMAIN file : d \notin {p, c} => last[d] = file[d]
      BY <2>4, <2>5
    <2>9. IsFiniteSet({p, c}) /\ Cardinality({p, c}) <= Cardinality(Given)
      <3>1. IsFiniteSet({p, c}) /\ Cardinality({p, c}) = 2
        BY <2>6, Pair
      <3>2. Cardinality(Given) = 2
        BY <1>2, <2>1, Pair
      <3> QED BY <3>1, <3>2
    <2>10. DOMAIN file \subseteq DOMAIN last
      BY <2>4, <2>5
    <2> QED BY <2>1, <2>5, <2>7, <2>8, <2>9, <2>10
  <1> QED BY <1>9, <1>10, <1>11, <1>12

\* The flags win over the file in what the container is given, whatever the
\* file says; a disk flag changes the source of at most one disk, and both
\* disks given by flags are disks of the VM.  (For what the property leaves out,
\* see FlagsTakePrecedence.)
THEOREM Precedence == Spec => []FlagsTakePrecedence
  <1>1. CreateInv /\ FollowsInput => FlagsTakePrecedence
    <2> DEFINE file == input.file
    <2> SUFFICES ASSUME CreateInv, FollowsInput, pc = "created", DistinctNames
                 PROVE  /\ ctr.name = Default(opts.name, file.name)
                        /\ opts.config /\ ~opts.cpusChanged =>
                              ctr.vmi.cores = IF file.cores = 0 THEN 1 ELSE file.cores
                        /\ opts.cpusChanged /\ opts.cpus \in 1..(Word32 - 1) =>
                              ctr.vmi.cores = opts.cpus
                        /\ opts.config /\ ~opts.memoryChanged /\ file.memory # NoQuantity =>
                              ctr.vmi.memory = file.memory
                        /\ opts.memoryChanged /\ opts.memory # NoQuantity =>
                              ctr.vmi.memory = opts.memory
                        /\ Given \subseteq {Origin(d) : d \in DOMAIN vm.disks}
                        /\ Cardinality({d \in DOMAIN FileDisks :
                                           /\ ~Ambiguous(FileDisks[d])
                                           /\ Origin(d) # Source(FileDisks[d])})
                              <= Cardinality(Given)
      BY Zenon DEF FlagsTakePrecedence, Given
    <2>1. input \in Input /\ (opts.config \/ opts.name # "")
      BY DEF CreateInv, TypeOK, FollowsInput
    <2>2. ctr.name = Loaded.name /\ ctr.vmi.cores = Loaded.cores /\ ctr.vmi.memory = Loaded.memory
      BY Built DEF FollowsInput
    <2>3. DOMAIN vm.disks = DOMAIN Loaded.disks
      BY DEF FollowsInput
    <2>4. \A d \in DOMAIN Loaded.disks :
            ~Ambiguous(Loaded.disks[d]) => Origin(d) = Source(Loaded.disks[d])
      BY <2>3, Origins
    <2>5. Given \subseteq {Origin(d) : d \in DOMAIN vm.disks}
      BY <2>1, <2>3, <2>4, GivenPlaces DEF Only
    <2>6. Cardinality({d \in DOMAIN FileDisks : /\ ~Ambiguous(FileDisks[d])
                                                /\ Origin(d) # Source(FileDisks[d])})
            <= Cardinality(Given)
      <3> DEFINE Y == {d \in DOMAIN FileDisks : /\ ~Ambiguous(FileDisks[d])
                                                /\ Origin(d) # Source(FileDisks[d])}
      <3>1. PICK X : /\ IsFiniteSet(X) /\ Cardinality(X) <= Cardinality(Given)
                     /\ \A d \in DOMAIN FileDisks : d \notin X => Loaded.disks[d] = FileDisks[d]
        BY <2>1, GivenPlaces
      <3>2. DOMAIN FileDisks \subseteq DOMAIN Loaded.disks
        BY <2>1, GivenPlaces
      <3>3. Y \in SUBSET X
        BY <2>4, <3>1, <3>2
      <3>4. Cardinality(X) \in Nat /\ Cardinality(Given) \in Nat
        <4>1. IsFiniteSet(Given)
          BY FS_Singleton, FS_EmptySet, FS_Union DEF Given
        <4> QED BY <3>1, <4>1, FS_CardinalityType
      <3>5. Cardinality(Y) <= Cardinality(X) /\ IsFiniteSet(Y)
        BY <3>1, <3>3, FS_Subset
      <3>6. Cardinality(Y) \in Nat
        BY <3>5, FS_CardinalityType
      <3> HIDE DEF Y
      <3>7. Cardinality(Y) <= Cardinality(Given)
        BY <3>1, <3>4, <3>5, <3>6
      <3> QED BY <3>7 DEF Y
    <2> QED BY <2>1, <2>2, <2>5, <2>6, LoadedFields
  <1> QED BY <1>1, CreateInvariant, Follows, PTL

-----------------------------------------------------------------------------
(* The ports *)

LEMMA ImageFinite ==
  ASSUME NEW S, IsFiniteSet(S), NEW f, DOMAIN f = S, f = [x \in S |-> f[x]]
  PROVE  IsFiniteSet({f[x] : x \in S})
  <1> DEFINE T == {f[x] : x \in S}
  <1>1. f \in [S -> T]
    OBVIOUS
  <1>2. \A t \in T : \E x \in S : f[x] = t
    OBVIOUS
  <1> HIDE DEF T
  <1>3. f \in Surjection(S, T)
    BY <1>1, <1>2 DEF Surjection
  <1> QED BY <1>3, FS_Surjection DEF T

LEMMA ForwardsPlaces ==
  ASSUME NEW nets, NEW f
  PROVE  f \in Forwards(nets) <=> \E i \in DOMAIN nets : \E j \in DOMAIN nets[i].ports : f = <<i, j>>
  BY DEF Forwards

LEMMA PlacesFinite ==
  ASSUME NEW S, NEW s \in Seq(S)
  PROVE  IsFiniteSet(DOMAIN s)
  <1>1. DOMAIN s = 1..Len(s) /\ Len(s) \in Int /\ 1 \in Int
    OBVIOUS
  <1> QED BY <1>1, FS_Interval

LEMMA ForwardsFinite ==
  ASSUME NEW nets \in Seq(NetworkSpec)
  PROVE  IsFiniteSet(Forwards(nets))
  <1> DEFINE Row(i) == {<<i, j>> : j \in DOMAIN nets[i].ports}
             rows == [i \in DOMAIN nets |-> Row(i)]
  <1>1. ASSUME NEW i \in DOMAIN nets PROVE IsFiniteSet(Row(i))
    <2> DEFINE row == [j \in DOMAIN nets[i].ports |-> <<i, j>>]
    <2>1. nets[i] \in NetworkSpec
      BY Places
    <2>2. nets[i].ports \in Seq(PortForward)
      BY <2>1 DEF NetworkSpec
    <2>3. IsFiniteSet(DOMAIN nets[i].ports)
      BY <2>2, PlacesFinite
    <2>4. /\ DOMAIN row = DOMAIN nets[i].ports
          /\ row = [j \in DOMAIN nets[i].ports |-> row[j]]
          /\ Row(i) = {row[j] : j \in DOMAIN nets[i].ports}
      OBVIOUS
    <2> HIDE DEF row, Row
    <2> QED BY <2>3, <2>4, ImageFinite
  <1>2. IsFiniteSet(DOMAIN nets)
    BY PlacesFinite
  <1>3. DOMAIN rows = DOMAIN nets /\ rows = [i \in DOMAIN nets |-> rows[i]]
    OBVIOUS
  <1>4. \A i \in DOMAIN nets : rows[i] = Row(i)
    OBVIOUS
  <1>5. Forwards(nets) = UNION {rows[i] : i \in DOMAIN nets}
    BY DEF Forwards
  <1> HIDE DEF rows, Row
  <1>6. IsFiniteSet({rows[i] : i \in DOMAIN nets})
    BY <1>2, <1>3, ImageFinite
  <1>7. \A T \in {rows[i] : i \in DOMAIN nets} : IsFiniteSet(T)
    BY <1>1, <1>4
  <1> QED BY <1>5, <1>6, <1>7, FS_UNION

\* The port forward at place f.
PortAt(nets, f) == nets[f[1]].ports[f[2]]

\* The ports pfs are behind the n-th of network g: no port forward of nets is
\* at another place, and the new ones are at places of their own.
Adds(nets, new, pfs, g, n) ==
    /\ n \in Nat
    /\ Forwards(new) = Forwards(nets) \cup {<<g, n + j>> : j \in DOMAIN pfs}
    /\ \A j \in DOMAIN pfs : <<g, n + j>> \notin Forwards(nets)
    /\ \A f \in Forwards(nets) : PortAt(new, f) = PortAt(nets, f)
    /\ \A j \in DOMAIN pfs : PortAt(new, <<g, n + j>>) = pfs[j]

LEMMA AddedPorts ==
  ASSUME NEW nets \in Seq(NetworkSpec), nets # <<>>, NEW pfs \in Seq(PortForward)
  PROVE  \E g, n : Adds(nets, ApplyPortForwards(nets, pfs), pfs, g, n)
  <1> DEFINE masquerade == {i \in DOMAIN nets : nets[i].type = "masquerade"}
             gets == IF masquerade = {} THEN {1} ELSE masquerade
             new == ApplyPortForwards(nets, pfs)
             more(i) == [type |-> "masquerade", ports |-> nets[i].ports \o pfs]
  <1>1. new = [i \in DOMAIN nets |->
                 IF i \in gets /\ \A j \in gets : i <= j THEN more(i) ELSE nets[i]]
    BY DEF ApplyPortForwards
  <1>2. gets # {} /\ gets \subseteq DOMAIN nets /\ gets \subseteq Nat
    <2>1. 1 \in DOMAIN nets /\ DOMAIN nets \subseteq Nat
      BY Places
    <2> QED BY <2>1
  <1> HIDE DEF gets, new, more
  <1>3. PICK g \in gets : \A j \in gets : g <= j
    BY <1>2, Least
  <1>4. \A i \in DOMAIN nets : (i \in gets /\ \A j \in gets : i <= j) <=> i = g
    BY <1>2, <1>3
  <1>5. /\ g \in DOMAIN nets /\ DOMAIN new = DOMAIN nets
        /\ new[g] = more(g)
        /\ \A i \in DOMAIN nets : i # g => new[i] = nets[i]
    BY <1>1, <1>2, <1>4
  <1> DEFINE old == nets[g].ports
             n == Len(old)
  <1>6. old \in Seq(PortForward) /\ n \in Nat /\ DOMAIN old = 1..n
    <2>1. nets[g] \in NetworkSpec
      BY <1>5, Places
    <2>2. old \in Seq(PortForward)
      BY <2>1 DEF NetworkSpec
    <2> QED BY <2>2
  <1>7. new[g].ports = old \o pfs
    BY <1>5 DEF more
  <1>8. DOMAIN pfs = 1..Len(pfs) /\ Len(pfs) \in Nat
    OBVIOUS
  <1> HIDE DEF old, n
  <1>9. /\ DOMAIN (old \o pfs) = 1..(n + Len(pfs))
        /\ \A j \in 1..n : (old \o pfs)[j] = old[j]
        /\ \A j \in DOMAIN pfs : (old \o pfs)[n + j] = pfs[j]
    BY <1>6, <1>8 DEF n
  <1>10. \A f : f \in Forwards(new) <=>
                  f \in Forwards(nets) \/ \E j \in DOMAIN pfs : f = <<g, n + j>>
    <2>1. ASSUME NEW f, f \in Forwards(nets) PROVE f \in Forwards(new)
      <3>1. PICK i \in DOMAIN nets : \E j \in DOMAIN nets[i].ports : f = <<i, j>>
        BY <2>1, ForwardsPlaces
      <3>2. PICK j \in DOMAIN nets[i].ports : f = <<i, j>>
        BY <3>1
      <3>3. j \in DOMAIN new[i].ports
        <4>1. CASE i = g
          <5>1. j \in 1..n
            BY <1>6, <3>2, <4>1 DEF old
          <5> QED BY <1>6, <1>7, <1>8, <1>9, <4>1, <5>1
        <4>2. CASE i # g
          BY <1>5, <3>2, <4>2
        <4> QED BY <4>1, <4>2
      <3> QED BY <1>5, <3>2, <3>3, ForwardsPlaces
    <2>2. ASSUME NEW j \in DOMAIN pfs PROVE <<g, n + j>> \in Forwards(new)
      <3>1. n + j \in DOMAIN new[g].ports
        BY <1>6, <1>7, <1>8, <1>9
      <3> QED BY <1>5, <3>1, ForwardsPlaces
    <2>3. ASSUME NEW f, f \in Forwards(new), f \notin Forwards(nets)
          PROVE  \E j \in DOMAIN pfs : f = <<g, n + j>>
      <3>1. PICK i \in DOMAIN nets : \E j \in DOMAIN new[i].ports : f = <<i, j>>
        BY <1>5, <2>3, ForwardsPlaces
      <3>2. PICK j \in DOMAIN new[i].ports : f = <<i, j>>
        BY <3>1
      <3>3. j \notin DOMAIN nets[i].ports
        BY <2>3, <3>2, ForwardsPlaces
      <3>4. i = g
        BY <1>5, <3>2, <3>3
      <3>5. j \in 1..(n + Len(pfs)) /\ j \notin 1..n
        BY <1>6, <1>7, <1>9, <3>2, <3>3, <3>4 DEF old
      <3>6. j - n \in DOMAIN pfs /\ n + (j - n) = j
        BY <1>6, <1>8, <3>5
      <3> QED BY <3>2, <3>4, <3>6
    <2> QED BY <2>1, <2>2, <2>3
  <1>11. Forwards(new) = Forwards(nets) \cup {<<g, n + j>> : j \in DOMAIN pfs}
    BY <1>10
  <1>12. ASSUME NEW j \in DOMAIN pfs PROVE <<g, n + j>> \notin Forwards(nets)
    <2>1. n + j \notin 1..n
      BY <1>6, <1>8
    <2>2. n + j \notin DOMAIN nets[g].ports
      BY <1>6, <2>1 DEF old
    <2>3. \A i, k : <<g, n + j>> = <<i, k>> => g = i /\ n + j = k
      OBVIOUS
    <2> QED BY <2>2, <2>3, ForwardsPlaces
  <1>13. ASSUME NEW f \in Forwards(nets) PROVE PortAt(new, f) = PortAt(nets, f)
    <2>1. PICK i \in DOMAIN nets : \E j \in DOMAIN nets[i].ports : f = <<i, j>>
      BY ForwardsPlaces
    <2>2. PICK j \in DOMAIN nets[i].ports : f = <<i, j>>
      BY <2>1
    <2>3. f[1] = i /\ f[2] = j
      BY <2>2
    <2>4. CASE i = g
      <3>1. j \in 1..n /\ nets[i].ports = old
        BY <1>6, <2>2, <2>4 DEF old
      <3> QED BY <1>7, <1>9, <2>3, <2>4, <3>1 DEF PortAt
    <2>5. CASE i # g
      BY <1>5, <2>3, <2>5 DEF PortAt
    <2> QED BY <2>4, <2>5
  <1>14. ASSUME NEW j \in DOMAIN pfs PROVE PortAt(new, <<g, n + j>>) = pfs[j]
    BY <1>7, <1>9 DEF PortAt
  <1>15. Adds(nets, new, pfs, g, n)
    BY <1>6, <1>11, <1>12, <1>13, <1>14 DEF Adds
  <1> QED BY <1>15 DEF new

\* The port forwards of the input are those of the file.
LEMMA LoadedPorts ==
  ASSUME input \in Input
  PROVE  /\ Loaded.networks \in Seq(NetworkSpec) /\ Loaded.networks # <<>>
         /\ opts.ports \in Seq(PortForward)
         /\ Forwards(Loaded.networks) = FilePorts
         /\ \A f \in FilePorts : PortAt(Loaded.networks, f) = PortAt(input.file.networks, f)
  <1> DEFINE file == input.file
             net == <<[type |-> "masquerade", ports |-> <<>>]>>
  <1>1. file \in VMSpec /\ opts \in Options
    BY InputType
  <1>2. Loaded.networks \in Seq(NetworkSpec) /\ opts.ports \in Seq(PortForward)
    BY <1>1, LoadedType DEF VMSpec, Options
  <1>3. net # <<>> /\ Forwards(net) = {} /\ Forwards(<<>>) = {}
    <2>1. DOMAIN net = {1} /\ DOMAIN net[1].ports = {}
      OBVIOUS
    <2>2. net # <<>>
      OBVIOUS
    <2> HIDE DEF net
    <2> QED BY <2>1, <2>2 DEF Forwards
  <1>4. CASE opts.config
    <2> DEFINE base == ApplyDefaults(file)
    <2>1. base \in VMSpec
      BY <1>1, ApplyDefaultsType
    <2>2. base.networks = IF file.networks = <<>> THEN net ELSE file.networks
      BY <1>1 DEF ApplyDefaults, VMSpec
    <2>3. Loaded = MergeFlags(base, opts)
      BY <1>4 DEF Loaded, LoadCreateVM
    <2> HIDE DEF base
    <2>4. Loaded.networks = base.networks
      BY <2>1, <2>3 DEF MergeFlags, VMSpec
    <2>5. FilePorts = Forwards(file.networks)
      BY <1>4 DEF FilePorts
    <2> HIDE DEF net
    <2>6. CASE file.networks = <<>>
      BY <1>2, <1>3, <2>2, <2>4, <2>5, <2>6
    <2>7. CASE file.networks # <<>>
      BY <1>2, <2>2, <2>4, <2>5, <2>7
    <2> QED BY <2>6, <2>7
  <1>5. CASE ~opts.config
    <2> DEFINE new == [EmptyVM EXCEPT
                !.name = opts.name, !.cores = Uint32(opts.cpus), !.memory = opts.memory,
                !.disks = SetDisks(<<>>, opts), !.networks = net]
    <2>1. Loaded = ApplyDefaults(new)
      BY <1>5, Zenon DEF Loaded, LoadCreateVM, LoadFromFlags
    <2>2. new.networks = net
      BY DEF EmptyVM
    <2>3. DOMAIN new = {"name", "cores", "memory", "disks", "networks", "cloudInit"}
      BY DEF EmptyVM
    <2> HIDE DEF new
    <2>4. Loaded.networks = IF new.networks = <<>> THEN net ELSE new.networks
      BY <2>1, <2>3 DEF ApplyDefaults
    <2>5. FilePorts = {}
      BY <1>5 DEF FilePorts
    <2> HIDE DEF net
    <2> QED BY <1>2, <1>3, <2>2, <2>4, <2>5
  <1> QED BY <1>4, <1>5

\* Places behind the n-th are as many as the numbers they are made of.
Behind(J, g, n) == {<<g, n + j>> : j \in J}

LEMMA BehindCount ==
  ASSUME NEW J, IsFiniteSet(J), J \subseteq Nat, NEW g, NEW n \in Nat
  PROVE  IsFiniteSet(Behind(J, g, n)) /\ Cardinality(Behind(J, g, n)) = Cardinality(J)
  <1> DEFINE B == Behind(J, g, n)
             f == [j \in J |-> <<g, n + j>>]
  <1>1. f \in [J -> B] /\ \A b \in B : \E j \in J : f[j] = b
    BY DEF Behind
  <1>2. ASSUME NEW a \in J, NEW b \in J, f[a] = f[b] PROVE a = b
    <2>1. <<g, n + a>> = <<g, n + b>>
      BY <1>2
    <2>2. n + a = n + b
      BY <2>1
    <2>3. a \in Nat /\ b \in Nat
      OBVIOUS
    <2> QED BY <2>2, <2>3
  <1>3. DOMAIN f = J
    OBVIOUS
  <1> HIDE DEF f, B
  <1>4. f \in Bijection(J, B)
    BY <1>1, <1>2, <1>3 DEF Bijection, Injection, Surjection, IsInjective
  <1> QED BY <1>4, FS_Bijection DEF ExistsBijection, B

\* A port forward as it was asked for.
Plain(pf) ==
    [hostPort |-> pf.hostPort, containerPort |-> pf.vmPort,
     protocol |-> Default(pf.protocol, "tcp")]

\* Nothing of a port that Validate lets pass is lost in a uint16.
LEMMA ValidPortFits == \A p : ValidPort(p) => p \in Nat /\ p < 65536
  <1>1. MaxPort \in Nat /\ MaxPort < 65536
    BY DEF MaxPort
  <1> QED BY <1>1 DEF ValidPort

LEMMA Uint16 ==
  ASSUME NEW p \in Nat, p < 65536
  PROVE  p % 65536 = p
  OBVIOUS

LEMMA ValidPortMapping ==
  ASSUME NEW pf, pf.hostPort % 65536 = pf.hostPort, pf.vmPort % 65536 = pf.vmPort
  PROVE  PortMapping(pf) = Plain(pf)
  BY DEF PortMapping, Plain

\* Podman publishes every port forward of the file and of the flags as often as
\* it was asked for and unchanged, and no other, for any number of networks and
\* ports.
THEOREM Ports == Spec => []PortsKept
  <1>1. CreateInv /\ FollowsInput => PortsKept
    <2> DEFINE FilePort(f) == Plain(input.file.networks[f[1]].ports[f[2]])
    <2> SUFFICES ASSUME CreateInv, FollowsInput, pc = "created", NEW m
                 PROVE  Cardinality({f \in DOMAIN ctr.ports : ctr.ports[f] = m})
                         = Cardinality({f \in FilePorts : FilePort(f) = m})
                           + Cardinality({j \in DOMAIN opts.ports : Plain(opts.ports[j]) = m})
      BY DEF PortsKept, Plain
    <2> DEFINE nets == Loaded.networks
               new == Forwarded
               pfs == opts.ports
               A == {f \in Forwards(nets) : Plain(PortAt(nets, f)) = m}
               J == {j \in DOMAIN pfs : Plain(pfs[j]) = m}
               M == {f \in Forwards(new) : Plain(PortAt(new, f)) = m}
    <2>1. input \in Input
      BY DEF CreateInv, TypeOK
    <2>2. /\ nets \in Seq(NetworkSpec) /\ nets # <<>> /\ pfs \in Seq(PortForward)
          /\ Forwards(nets) = FilePorts
          /\ \A f \in FilePorts : PortAt(nets, f) = PortAt(input.file.networks, f)
      BY <2>1, LoadedPorts
    <2>3. vm.networks = new /\ \A i \in DOMAIN new : ValidNetwork(new[i])
      BY DEF FollowsInput, Accepted
    <2>4. ctr.ports = [f \in Forwards(new) |-> PortMapping(PortAt(new, f))]
      BY <2>3, Built DEF PortAt
    <2> HIDE DEF new
    <2>5. ASSUME NEW f \in Forwards(new) PROVE PortMapping(PortAt(new, f)) = Plain(PortAt(new, f))
      <3>1. PICK i \in DOMAIN new : \E j \in DOMAIN new[i].ports : f = <<i, j>>
        BY ForwardsPlaces
      <3>2. PICK j \in DOMAIN new[i].ports : f = <<i, j>>
        BY <3>1
      <3>3. ValidNetwork(new[i]) /\ PortAt(new, f) = new[i].ports[j]
        BY <2>3, <3>2 DEF PortAt
      <3>4. ValidPort(PortAt(new, f).hostPort) /\ ValidPort(PortAt(new, f).vmPort)
        BY <3>2, <3>3 DEF ValidNetwork
      <3>5. /\ PortAt(new, f).hostPort % 65536 = PortAt(new, f).hostPort
            /\ PortAt(new, f).vmPort % 65536 = PortAt(new, f).vmPort
        BY <3>4, ValidPortFits, Uint16
      <3> QED BY <3>5, ValidPortMapping
    <2>6. {f \in DOMAIN ctr.ports : ctr.ports[f] = m} = M
      BY <2>4, <2>5
    <2>7. {f \in FilePorts : FilePort(f) = m} = A
      BY <2>2 DEF PortAt
    <2>8. IsFiniteSet(A) /\ IsFiniteSet(J)
      <3>1. IsFiniteSet(Forwards(nets)) /\ IsFiniteSet(DOMAIN pfs)
        BY <2>2, ForwardsFinite, PlacesFinite
      <3>2. A \in SUBSET Forwards(nets) /\ J \in SUBSET DOMAIN pfs
        OBVIOUS
      <3> HIDE DEF A, J, nets, pfs
      <3> QED BY <3>1, <3>2, FS_Subset
    <2>9. J \subseteq DOMAIN pfs /\ DOMAIN pfs \subseteq Nat
      BY <2>2, Places
    <2>10. Cardinality(A) \in Nat /\ Cardinality(J) \in Nat
      BY <2>8, FS_CardinalityType
    <2>11. CASE pfs = <<>>
      <3>1. new = nets
        BY <2>11 DEF new, Forwarded
      <3>2. J = {}
        <4>1. DOMAIN pfs = {}
          BY <2>11
        <4> QED BY <4>1
      <3>3. M = A
        BY <3>1
      <3>4. Cardinality(J) = 0
        BY <3>2, FS_EmptySet
      <3> HIDE DEF A, J, M
      <3>5. Cardinality(M) = Cardinality(A) + Cardinality(J)
        BY <2>10, <3>3, <3>4
      <3> QED BY <2>6, <2>7, <3>5 DEF J
    <2>12. CASE pfs # <<>>
      <3>1. new = ApplyPortForwards(nets, pfs)
        BY <2>12 DEF new, Forwarded
      <3>0. PICK g, n : Adds(nets, new, pfs, g, n)
        BY <2>2, <3>1, AddedPorts
      <3>2. /\ n \in Nat
            /\ Forwards(new) = Forwards(nets) \cup {<<g, n + j>> : j \in DOMAIN pfs}
            /\ \A j \in DOMAIN pfs : <<g, n + j>> \notin Forwards(nets)
            /\ \A f \in Forwards(nets) : PortAt(new, f) = PortAt(nets, f)
            /\ \A j \in DOMAIN pfs : PortAt(new, <<g, n + j>>) = pfs[j]
        BY <3>0 DEF Adds
      <3> DEFINE B == Behind(J, g, n)
      <3>3. IsFiniteSet(B) /\ Cardinality(B) = Cardinality(J)
        <4>1. IsFiniteSet(J) /\ J \subseteq Nat /\ n \in Nat
          BY <2>8, <2>9, <3>2
        <4> HIDE DEF J
        <4> QED BY <4>1, BehindCount
      <3>4. M = A \cup B
        <4>1. ASSUME NEW f, f \in M PROVE f \in A \/ f \in B
          <5>1. CASE f \in Forwards(nets)
            BY <3>2, <4>1, <5>1
          <5>2. CASE f \notin Forwards(nets)
            <6>1. PICK j \in DOMAIN pfs : f = <<g, n + j>>
              BY <3>2, <4>1, <5>2
            <6>2. PortAt(new, f) = pfs[j]
              BY <3>2, <6>1
            <6> QED BY <4>1, <6>1, <6>2 DEF Behind
          <5> QED BY <5>1, <5>2
        <4>2. ASSUME NEW f, f \in A PROVE f \in M
          BY <3>2, <4>2
        <4>3. ASSUME NEW j \in J PROVE <<g, n + j>> \in M
          BY <3>2
        <4> HIDE DEF A, J, M
        <4> QED BY <4>1, <4>2, <4>3 DEF Behind
      <3>5. A \cap B = {}
        BY <3>2 DEF Behind
      <3> HIDE DEF A, B, J, M
      <3>6. Cardinality(A \cup B) = Cardinality(A) + Cardinality(B) - Cardinality(A \cap B)
        BY <2>8, <3>3, FS_Union
      <3>7. Cardinality(A \cap B) = 0
        BY <3>5, FS_EmptySet
      <3>8. Cardinality(M) = Cardinality(A) + Cardinality(J)
        BY <2>10, <3>3, <3>4, <3>6, <3>7
      <3> QED BY <2>6, <2>7, <3>8 DEF J
    <2> QED BY <2>11, <2>12
  <1> QED BY <1>1, CreateInvariant, Follows, PTL

=============================================================================
