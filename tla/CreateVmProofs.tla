--------------------------- MODULE CreateVmProofs ---------------------------
(***************************************************************************)
(* Proofs about CreateVm for every configuration file, all flags, every    *)
(* set of disk images and all word sizes.                                  *)
(***************************************************************************)
EXTENDS CreateVm, SequenceTheorems, TLAPS

-----------------------------------------------------------------------------
(* The operators of VmConfig keep the types *)

LEMMA DefaultType ==
  ASSUME NEW text \in Text, NEW fallback \in Text
  PROVE  Default(text, fallback) \in Text
  BY DEF Default

\* A function over the places of a sequence is a sequence.
LEMMA MapIsSeq ==
  ASSUME NEW S, NEW T, NEW s \in Seq(T), NEW f, DOMAIN f = DOMAIN s,
         f = [d \in DOMAIN s |-> f[d]], \A d \in DOMAIN s : f[d] \in S
  PROVE  f \in Seq(S)
  <1>1. DOMAIN s = 1..Len(s) /\ Len(s) \in Nat
    OBVIOUS
  <1>2. f \in [1..Len(s) -> S]
    BY <1>1
  <1> QED BY <1>1, <1>2, IsASeq

LEMMA Places ==
  ASSUME NEW S, NEW s \in Seq(S)
  PROVE  /\ \A d \in DOMAIN s : d \in Nat \ {0} /\ s[d] \in S
         /\ s # <<>> => 1 \in DOMAIN s
         /\ \A d \in DOMAIN s, x \in S : [s EXCEPT ![d] = x] \in Seq(S)
  <1>1. DOMAIN s = 1..Len(s) /\ Len(s) \in Nat
    OBVIOUS
  <1>2. \A d \in DOMAIN s : d \in Nat \ {0} /\ s[d] \in S
    BY <1>1
  <1>3. s # <<>> => Len(s) # 0
    BY EmptySeq
  <1>4. \A d \in DOMAIN s, x \in S : [s EXCEPT ![d] = x] \in Seq(S)
    OBVIOUS
  <1> QED BY <1>1, <1>2, <1>3, <1>4

LEMMA ReplaceFirstType ==
  ASSUME NEW s \in Seq(DiskSpec), NEW I, NEW disk \in DiskSpec
  PROVE  ReplaceFirst(s, I, disk) \in Seq(DiskSpec)
  <1>1. CASE I \cap DOMAIN s = {}
    BY <1>1 DEF ReplaceFirst
  <1>2. CASE I \cap DOMAIN s # {}
    <2> DEFINE f == ReplaceFirst(s, I, disk)
    <2>1. ASSUME NEW d \in DOMAIN s
          PROVE  [disk EXCEPT !.size = s[d].size] \in DiskSpec /\ s[d] \in DiskSpec
      <3>1. s[d] \in DiskSpec
        OBVIOUS
      <3> QED BY <3>1 DEF DiskSpec
    <2>2. f = [i \in DOMAIN s |-> IF i \in I /\ \A j \in I \cap DOMAIN s : i <= j
                                  THEN [disk EXCEPT !.size = s[i].size] ELSE s[i]]
      BY <1>2 DEF ReplaceFirst
    <2>3. DOMAIN f = DOMAIN s /\ \A d \in DOMAIN s : f[d] \in DiskSpec
      BY <2>1, <2>2
    <2> QED BY <2>2, <2>3, MapIsSeq
  <1> QED BY <1>1, <1>2

LEMMA SetDisksType ==
  ASSUME NEW disks \in Seq(DiskSpec), NEW o \in Options
  PROVE  SetDisks(disks, o) \in Seq(DiskSpec)
  <1>1. SetLocalDisk(disks, o.disk) \in Seq(DiskSpec)
    <2>1. [name |-> "disk0", image |-> LocalFile(o.disk), containerImage |-> "",
           size |-> NoQuantity] \in DiskSpec
      BY TextAssumption DEF Options, DiskSpec, Path, LocalFile, Quantity
    <2> QED BY <2>1, ReplaceFirstType DEF SetLocalDisk
  <1>2. [name |-> "containerdisk", image |-> NoPath, containerImage |-> o.image,
         size |-> NoQuantity] \in DiskSpec
    BY TextAssumption DEF Options, DiskSpec, Path, NoPath, Quantity
  <1> QED BY <1>1, <1>2, ReplaceFirstType DEF SetDisks, SetContainerDisk

LEMMA MasqueradeType ==
  ASSUME NEW ports \in Seq(PortForward)
  PROVE  <<[type |-> "masquerade", ports |-> ports]>> \in Seq(NetworkSpec)
  <1>1. [type |-> "masquerade", ports |-> ports] \in NetworkSpec
    BY TextAssumption DEF NetworkSpec
  <1> QED BY <1>1

LEMMA ApplyDefaultsType ==
  ASSUME NEW v \in VMSpec
  PROVE  ApplyDefaults(v) \in VMSpec
  <1>1. DefaultMemory \in Quantity
    BY MultiplierAssumption DEF DefaultMemory, Quantity
  <1>2. <<>> \in Seq(PortForward)
    OBVIOUS
  <1>3. \A u \in Text : Default(u, DefaultLogin) \in Text
    BY DefaultType, TextAssumption DEF DefaultLogin
  <1>4. \A ci \in CloudInitSpec :
          [ci EXCEPT !.user = Default(@, DefaultLogin),
                     !.password = Default(@, DefaultLogin)] \in CloudInitSpec
    BY <1>3 DEF CloudInitSpec
  <1>5. <<[type |-> "masquerade", ports |-> <<>>]>> \in Seq(NetworkSpec)
    BY <1>2, MasqueradeType
  <1> DEFINE net == <<[type |-> "masquerade", ports |-> <<>>]>>
             cores == IF v.cores = 0 THEN 1 ELSE v.cores
             memory == IF v.memory = NoQuantity THEN DefaultMemory ELSE v.memory
             networks == IF v.networks = <<>> THEN net ELSE v.networks
             login == IF ~v.cloudInit.set THEN v.cloudInit
                      ELSE [v.cloudInit EXCEPT !.user = Default(@, DefaultLogin),
                                               !.password = Default(@, DefaultLogin)]
  <1>6. /\ cores \in Nat /\ memory \in Quantity
        /\ networks \in Seq(NetworkSpec) /\ login \in CloudInitSpec
    BY <1>1, <1>4, <1>5 DEF VMSpec
  <1>7. ApplyDefaults(v) = [v EXCEPT !.cores = cores, !.memory = memory,
                                     !.networks = networks, !.cloudInit = login]
    BY Zenon DEF ApplyDefaults
  <1> HIDE DEF cores, memory, networks, login
  <1> QED BY <1>6, <1>7 DEF VMSpec

LEMMA LoadCreateVMType ==
  ASSUME NEW file \in VMSpec, NEW o \in Options
  PROVE  LoadCreateVM(file, o) \in VMSpec
  <1> DEFINE base == ApplyDefaults(file)
             new == [EmptyVM EXCEPT
                !.name = o.name, !.cores = Uint32(o.cpus), !.memory = o.memory,
                !.disks = SetDisks(<<>>, o),
                !.networks = <<[type |-> "masquerade", ports |-> <<>>]>>]
  <1>1. \A n \in Int : Uint32(n) \in Nat
    BY WordAssumption DEF Uint32
  <1>2. o.name \in Text /\ o.cpus \in Int /\ o.memory \in Quantity
    BY DEF Options
  <1>3. base \in VMSpec
    BY ApplyDefaultsType
  <1>4. MergeFlags(base, o) \in VMSpec
    <2>1. Default(o.name, base.name) \in Text /\ CpusOverride(o) \in Int
          /\ MemoryOverride(o) \in Quantity
      BY <1>2, <1>3, DefaultType DEF VMSpec, CpusOverride, MemoryOverride, Quantity
    <2>2. SetDisks(base.disks, o) \in Seq(DiskSpec)
      BY <1>3, SetDisksType DEF VMSpec
    <2> HIDE DEF base
    <2> QED BY <1>1, <1>3, <2>1, <2>2 DEF MergeFlags, VMSpec
  <1>5. new \in VMSpec
    <2>0. <<>> \in Seq(DiskSpec) /\ <<>> \in Seq(PortForward)
      OBVIOUS
    <2>1. SetDisks(<<>>, o) \in Seq(DiskSpec)
      BY <2>0, SetDisksType
    <2>2. <<[type |-> "masquerade", ports |-> <<>>]>> \in Seq(NetworkSpec)
      BY <2>0, MasqueradeType
    <2>3. NoCloudInit \in CloudInitSpec
      BY TextAssumption DEF NoCloudInit, CloudInitSpec
    <2> QED BY <1>1, <1>2, <2>1, <2>2, <2>3 DEF EmptyVM, VMSpec
  <1>6. LoadFromFlags(o) \in VMSpec
    BY <1>5, ApplyDefaultsType DEF LoadFromFlags
  <1> QED BY <1>4, <1>6 DEF LoadCreateVM

LEMMA ApplyPortForwardsType ==
  ASSUME NEW networks \in Seq(NetworkSpec), NEW pfs \in Seq(PortForward)
  PROVE  ApplyPortForwards(networks, pfs) \in Seq(NetworkSpec)
  <1>1. CASE networks = <<>>
    BY <1>1, MasqueradeType DEF ApplyPortForwards
  <1>2. CASE networks # <<>>
    <2> DEFINE masquerade == {i \in DOMAIN networks : networks[i].type = "masquerade"}
               gets == IF masquerade = {} THEN {1} ELSE masquerade
               f == ApplyPortForwards(networks, pfs)
    <2>1. f = [i \in DOMAIN networks |->
                 IF i \in gets /\ \A j \in gets : i <= j
                 THEN [type |-> "masquerade", ports |-> networks[i].ports \o pfs]
                 ELSE networks[i]]
      BY <1>2 DEF ApplyPortForwards
    <2>2. ASSUME NEW i \in DOMAIN networks
          PROVE  /\ networks[i] \in NetworkSpec
                 /\ [type |-> "masquerade", ports |-> networks[i].ports \o pfs] \in NetworkSpec
      <3>1. networks[i] \in NetworkSpec
        OBVIOUS
      <3>2. networks[i].ports \o pfs \in Seq(PortForward)
        BY <3>1 DEF NetworkSpec
      <3> QED BY <3>1, <3>2, TextAssumption DEF NetworkSpec
    <2> HIDE DEF gets
    <2>3. DOMAIN f = DOMAIN networks /\ \A i \in DOMAIN networks : f[i] \in NetworkSpec
      BY <2>1, <2>2
    <2> QED BY <2>1, <2>3, MapIsSeq
  <1> QED BY <1>1, <1>2

LEMMA ApplyCloudInitFlagsType ==
  ASSUME NEW ci \in CloudInitSpec, NEW o \in Options, NEW keys \in SUBSET Text
  PROVE  ApplyCloudInitFlags(ci, o, keys) \in CloudInitSpec
  <1>1. /\ ci.user \in Text /\ ci.password \in Text /\ ci.keys \in SUBSET Text
        /\ o.user \in Text /\ o.password \in Text /\ DefaultLogin \in Text
    BY TextAssumption DEF CloudInitSpec, Options, DefaultLogin
  <1>2. /\ Default(o.password, Default(ci.password, DefaultLogin)) \in Text
        /\ Default(o.user, Default(ci.user, DefaultLogin)) \in Text
    BY <1>1, DefaultType
  <1> QED BY <1>1, <1>2 DEF ApplyCloudInitFlags, CloudInitSpec

\* What becomes of the disks when one of them is replaced.
LEMMA SetDiskType ==
  ASSUME vm \in VMSpec, at \in DOMAIN vm.disks, NEW disk \in DiskSpec, SetDisk(disk)
  PROVE  /\ vm' \in VMSpec
         /\ DOMAIN vm'.disks = DOMAIN vm.disks
         /\ \A d \in DOMAIN vm.disks : vm'.disks[d] = IF d = at THEN disk ELSE vm.disks[d]
  <1>1. vm.disks \in Seq(DiskSpec)
    BY DEF VMSpec
  <1>2. [vm.disks EXCEPT ![at] = disk] \in Seq(DiskSpec)
    BY <1>1
  <1>3. vm' = [vm EXCEPT !.disks = [vm.disks EXCEPT ![at] = disk]]
    BY DEF SetDisk
  <1>4. vm'.disks = [vm.disks EXCEPT ![at] = disk]
    BY <1>3 DEF VMSpec
  <1> QED BY <1>1, <1>2, <1>3, <1>4 DEF VMSpec

LEMMA InputType ==
  ASSUME input \in Input
  PROVE  input.file \in VMSpec /\ opts \in Options /\ input.home \in SUBSET Text
  BY DEF Input, FileSpec, opts

-----------------------------------------------------------------------------
(* The inductive invariant *)

LEMMA InitInv == Init => CreateInv
  <1> SUFFICES ASSUME Init PROVE CreateInv
    OBVIOUS
  <1>1. EmptyVM \in VMSpec
    <2>1. NoCloudInit \in CloudInitSpec /\ NoQuantity \in Quantity
      BY TextAssumption DEF NoCloudInit, CloudInitSpec, Quantity
    <2>2. <<>> \in Seq(DiskSpec) /\ <<>> \in Seq(NetworkSpec)
      OBVIOUS
    <2> QED BY <2>1, <2>2, TextAssumption DEF EmptyVM, VMSpec
  <1>2. TypeOK
    BY <1>1, InputsAssumption DEF Init, TypeOK, Labels
  <1> QED BY <1>2 DEF Init, CreateInv, Convertible, Accepted

\* Up to the extraction nothing is promised but types.
LEMMA PrepareInv ==
  ASSUME CreateInv, Load \/ ApplyCreatePorts \/ ApplyCloudInit \/ ApplyCreateDiskSize
  PROVE  CreateInv'
  <1>0. TypeOK /\ vm \in VMSpec /\ input \in Input
    BY DEF CreateInv, TypeOK
  <1>1. input' = input /\ at' = at /\ made' = made /\ ctr' = ctr
    BY DEF Load, ApplyCreatePorts, ApplyCloudInit, ApplyCreateDiskSize
  <1>2. at = 1 /\ pc # "created"
    BY DEF CreateInv, Load, ApplyCreatePorts, ApplyCloudInit, ApplyCreateDiskSize
  <1>3. pc' \in {"ports", "cloudinit", "size", "extract", "err"}
    BY DEF Load, ApplyCreatePorts, ApplyCloudInit, ApplyCreateDiskSize, Goto, Fail
  <1>4. vm' \in VMSpec
    <2>1. CASE Load
      BY <1>0, <2>1, LoadCreateVMType, InputType DEF Load, Fail
    <2>2. CASE ApplyCreatePorts
      <3>1. vm.networks \in Seq(NetworkSpec) /\ opts.ports \in Seq(PortForward)
        BY <1>0, InputType DEF VMSpec, Options
      <3>2. ApplyPortForwards(vm.networks, opts.ports) \in Seq(NetworkSpec)
        BY <3>1, ApplyPortForwardsType
      <3> QED BY <1>0, <2>2, <3>2 DEF ApplyCreatePorts, Fail, VMSpec
    <2>3. CASE ApplyCloudInit
      <3> DEFINE keys == IF opts.keys = {} THEN input.home ELSE opts.keys
      <3>1. vm.cloudInit \in CloudInitSpec /\ keys \in SUBSET Text
        BY <1>0, InputType DEF VMSpec, Options
      <3>2. ApplyCloudInitFlags(vm.cloudInit, opts, keys) \in CloudInitSpec
        BY <1>0, <3>1, InputType, ApplyCloudInitFlagsType
      <3> QED BY <1>0, <2>3, <3>2 DEF ApplyCloudInit, Fail, VMSpec
    <2>4. CASE ApplyCreateDiskSize
      <3>1. CASE UNCHANGED vm
        BY <1>0, <3>1
      <3>2. CASE vm.disks # <<>> /\ vm' = [vm EXCEPT !.disks[1].size = opts.diskSize]
        <4>1. vm.disks \in Seq(DiskSpec) /\ opts.diskSize \in Quantity
          BY <1>0, InputType DEF VMSpec, Options
        <4>2. 1 \in DOMAIN vm.disks /\ vm.disks[1] \in DiskSpec
          BY <3>2, <4>1, Places
        <4> DEFINE disk == [vm.disks[1] EXCEPT !.size = opts.diskSize]
        <4>3. disk \in DiskSpec
          BY <4>1, <4>2 DEF DiskSpec
        <4>4. vm' = [vm EXCEPT !.disks = [vm.disks EXCEPT ![1] = disk]]
          BY <3>2
        <4> HIDE DEF disk
        <4>5. [vm.disks EXCEPT ![1] = disk] \in Seq(DiskSpec)
          BY <4>1, <4>2, <4>3, Places
        <4> QED BY <1>0, <4>4, <4>5 DEF VMSpec
      <3> QED BY <2>4, <3>1, <3>2 DEF ApplyCreateDiskSize, Fail
    <2> QED BY <2>1, <2>2, <2>3, <2>4
  <1>5. TypeOK'
    BY <1>0, <1>1, <1>2, <1>3, <1>4 DEF TypeOK, Labels
  <1>6. \A d \in DOMAIN vm'.disks : d \in Nat \ {0}
    <2>1. vm'.disks \in Seq(DiskSpec)
      BY <1>4 DEF VMSpec
    <2> QED BY <2>1, Places
  <1>7. \A d \in DOMAIN vm'.disks : ~(d < at')
    <2>1. at' = 1
      BY <1>1, <1>2
    <2> QED BY <2>1, <1>6
  <1> QED BY <1>1, <1>2, <1>3, <1>5, <1>7 DEF CreateInv, Convertible, Accepted

\* The loop of extractContainerDisks leaves no image behind it.
LEMMA ExtractInv ==
  ASSUME CreateInv, ExtractContainerDisk
  PROVE  CreateInv'
  <1>0. TypeOK /\ vm \in VMSpec /\ at \in Nat \ {0} /\ pc = "extract"
    BY DEF CreateInv, TypeOK, ExtractContainerDisk
  <1>1. input' = input /\ made' = made /\ ctr' = ctr
    BY DEF ExtractContainerDisk
  <1>2. \A d \in DOMAIN vm.disks : d < at => vm.disks[d].containerImage = ""
    BY <1>0 DEF CreateInv
  <1>3. vm.disks \in Seq(DiskSpec)
    BY <1>0 DEF VMSpec
  <1>4. at \in DOMAIN vm.disks /\ Disk \in DiskSpec /\ at + 1 \in Nat \ {0}
    <2>1. at <= Len(vm.disks)
      BY DEF ExtractContainerDisk
    <2>2. at \in DOMAIN vm.disks
      BY <1>0, <1>3, <2>1
    <2> QED BY <1>0, <1>3, <2>2, Places DEF Disk
  <1>5. CASE Disk.containerImage = "" /\ at' = at + 1 /\ UNCHANGED <<pc, vm>>
    <2>1. ASSUME NEW d \in DOMAIN vm.disks, d < at + 1
          PROVE  vm.disks[d].containerImage = ""
      <3>1. d < at \/ d = at
        BY <1>0, <1>3, <2>1, Places
      <3> QED BY <1>2, <1>5, <3>1 DEF Disk
    <2>2. TypeOK'
      BY <1>0, <1>1, <1>4, <1>5 DEF TypeOK
    <2> QED BY <1>0, <1>1, <1>5, <2>1, <2>2 DEF CreateInv, Convertible, Accepted
  <1>6. CASE at' = at /\ Fail
    <2>1. TypeOK'
      BY <1>0, <1>1, <1>6 DEF TypeOK, Fail, Labels
    <2> QED BY <1>6, <2>1 DEF CreateInv, Convertible, Accepted, Fail
  <1>7. CASE /\ SetDisk([Disk EXCEPT !.image = CachedDisk(Disk.containerImage),
                                     !.containerImage = ""])
             /\ at' = at + 1
             /\ UNCHANGED pc
    <2> DEFINE disk == [Disk EXCEPT !.image = CachedDisk(Disk.containerImage),
                                    !.containerImage = ""]
    <2>1. disk \in DiskSpec /\ disk.containerImage = ""
      BY <1>4, TextAssumption DEF DiskSpec, Path, CachedDisk
    <2> HIDE DEF disk
    <2>2. /\ vm' \in VMSpec
          /\ DOMAIN vm'.disks = DOMAIN vm.disks
          /\ \A d \in DOMAIN vm.disks : vm'.disks[d] = IF d = at THEN disk ELSE vm.disks[d]
      BY <1>0, <1>4, <1>7, <2>1, SetDiskType DEF disk
    <2>3. ASSUME NEW d \in DOMAIN vm'.disks, d < at'
          PROVE  vm'.disks[d].containerImage = ""
      <3>1. d < at \/ d = at
        BY <1>0, <1>3, <1>7, <2>2, <2>3, Places
      <3> QED BY <1>2, <2>1, <2>2, <3>1
    <2>4. TypeOK'
      BY <1>0, <1>1, <1>4, <1>7, <2>2 DEF TypeOK
    <2> QED BY <1>0, <1>1, <1>7, <2>3, <2>4 DEF CreateInv, Convertible, Accepted
  <1> QED BY <1>5, <1>6, <1>7 DEF ExtractContainerDisk

\* Validate takes a disk with exactly one source, which is a path by now.
LEMMA ValidateInv ==
  ASSUME CreateInv, ExtractionDone \/ Validate
  PROVE  CreateInv'
  <1>0. TypeOK /\ vm \in VMSpec /\ at \in Nat \ {0}
    BY DEF CreateInv, TypeOK
  <1>1. vm' = vm /\ input' = input /\ made' = made /\ ctr' = ctr
    BY DEF ExtractionDone, Validate
  <1>2. CASE ExtractionDone
    <2>1. vm.disks \in Seq(DiskSpec)
      BY <1>0 DEF VMSpec
    <2>2. \A d \in DOMAIN vm.disks : d < at
      BY <1>0, <1>2, <2>1 DEF ExtractionDone
    <2>3. \A d \in DOMAIN vm.disks : vm.disks[d].containerImage = ""
      BY <1>2, <2>2 DEF CreateInv, ExtractionDone
    <2>4. TypeOK'
      BY <1>0, <1>1, <1>2 DEF TypeOK, ExtractionDone, Goto, Labels
    <2> QED BY <1>1, <1>2, <2>3, <2>4
         DEF CreateInv, Convertible, Accepted, ExtractionDone, Goto
  <1>3. CASE Validate
    <2>1. TypeOK'
      BY <1>0, <1>1, <1>3 DEF TypeOK, Validate, Goto, Labels
    <2>2. CASE Valid(vm)
      <3>1. \A d \in DOMAIN vm.disks : vm.disks[d].containerImage = ""
        BY <1>3 DEF CreateInv, Validate
      <3>2. \A d \in DOMAIN vm.disks : vm.disks[d].image # NoPath /\ vm.disks[d].name # ""
        BY <2>2, <3>1 DEF Valid, ValidDisk
      <3> QED BY <1>1, <1>3, <2>1, <2>2, <3>1, <3>2
           DEF CreateInv, Convertible, Accepted, Validate, Goto
    <2>3. CASE ~Valid(vm)
      BY <1>3, <2>1, <2>3 DEF CreateInv, Convertible, Accepted, Validate, Goto
    <2> QED BY <2>2, <2>3
  <1> QED BY <1>2, <1>3

\* The calls that leave the configuration alone once it has been accepted.
LEMMA ReachInv ==
  ASSUME CreateInv, Reach \/ SizedDisksDone
  PROVE  CreateInv'
  <1>1. vm' = vm /\ input' = input /\ made' = made /\ ctr' = ctr
    BY DEF Reach, SizedDisksDone
  <1>2. pc \in Accepted \ {"created"} /\ pc' \in {"exists", "image", "sized", "convert", "err"}
    BY DEF Reach, SizedDisksDone, Goto, Accepted
  <1>3. TypeOK'
    <2>1. at' \in Nat \ {0}
      <3>1. at \in Nat \ {0}
        BY DEF CreateInv, TypeOK
      <3>2. at' = at \/ at' = 1
        BY DEF Reach, SizedDisksDone
      <3> QED BY <3>1, <3>2
    <2>2. pc' \in Labels /\ pc # "created" /\ pc' # "created"
      BY <1>2 DEF Labels
    <2> QED BY <1>1, <2>1, <2>2 DEF CreateInv, TypeOK
  <1> QED BY <1>1, <1>2, <1>3 DEF CreateInv, Convertible, Accepted

LEMMA QuantityBytes ==
  ASSUME NEW q \in Quantity, q # NoQuantity
  PROVE  ParseQuantityBytes(q) \in Nat
  <1>1. q.num \in Nat /\ Multiplier[q.suffix] \in Nat
    BY MultiplierAssumption DEF Quantity
  <1>2. \A a, b \in Nat : a * b \in Nat
    OBVIOUS
  <1>3. \A a \in Nat : a % Word64 \in Nat
    BY WordAssumption
  <1> QED BY <1>1, <1>2, <1>3 DEF ParseQuantityBytes

\* The loop of prepareSizedDisks puts paths in the place of paths.
LEMMA SizedInv ==
  ASSUME CreateInv, PrepareSizedDisk
  PROVE  CreateInv'
  <1>0. TypeOK /\ vm \in VMSpec /\ at \in Nat \ {0} /\ pc = "sized" /\ Convertible
    BY DEF CreateInv, TypeOK, PrepareSizedDisk
  <1>1. input' = input /\ ctr' = ctr
    BY DEF PrepareSizedDisk
  <1>3. vm.disks \in Seq(DiskSpec)
    BY <1>0 DEF VMSpec
  <1>4. at \in DOMAIN vm.disks /\ Disk \in DiskSpec /\ at + 1 \in Nat \ {0}
    <2>1. at <= Len(vm.disks)
      BY DEF PrepareSizedDisk
    <2>2. at \in DOMAIN vm.disks
      BY <1>0, <1>3, <2>1
    <2> QED BY <1>0, <1>3, <2>2, Places DEF Disk
  <1>5. CASE at' = at + 1 /\ UNCHANGED <<pc, vm, made>>
    <2>1. TypeOK'
      BY <1>0, <1>1, <1>4, <1>5 DEF TypeOK
    <2> QED BY <1>0, <1>5, <2>1 DEF CreateInv, Convertible, Accepted
  <1>6. CASE at' = at /\ Fail /\ UNCHANGED made
    <2>1. TypeOK'
      BY <1>0, <1>1, <1>6 DEF TypeOK, Fail, Labels
    <2> QED BY <1>6, <2>1 DEF CreateInv, Convertible, Accepted, Fail
  <1>7. CASE /\ Disk.size # NoQuantity
             /\ made' = [d \in DOMAIN made \cup {Disk.name} |->
                            IF d = Disk.name
                            THEN [from |-> Disk.image, bytes |-> ParseQuantityBytes(Disk.size)]
                            ELSE made[d]]
             /\ SetDisk([Disk EXCEPT !.image = SizedDisk(Disk.name)])
             /\ at' = at + 1
             /\ UNCHANGED pc
    <2> DEFINE disk == [Disk EXCEPT !.image = SizedDisk(Disk.name)]
    <2>1. /\ disk \in DiskSpec
          /\ disk.image # NoPath /\ disk.containerImage = Disk.containerImage
          /\ disk.name = Disk.name
      BY <1>4 DEF DiskSpec, Path, SizedDisk, NoPath
    <2> HIDE DEF disk
    <2>2. /\ vm' \in VMSpec
          /\ DOMAIN vm'.disks = DOMAIN vm.disks
          /\ \A d \in DOMAIN vm.disks : vm'.disks[d] = IF d = at THEN disk ELSE vm.disks[d]
      BY <1>0, <1>4, <1>7, <2>1, SetDiskType DEF disk
    <2>3. \A d \in DOMAIN vm'.disks : /\ vm'.disks[d].image # NoPath
                                      /\ vm'.disks[d].containerImage = ""
                                      /\ vm'.disks[d].name # ""
      BY <1>0, <1>4, <2>1, <2>2 DEF Convertible, Accepted, Disk
    <2>4. ASSUME NEW d \in DOMAIN made' PROVE made'[d] \in [from : Path, bytes : Nat]
      <3>1. Disk.image \in Path /\ Disk.size \in Quantity
        BY <1>4 DEF DiskSpec
      <3>2. ParseQuantityBytes(Disk.size) \in Nat
        BY <1>7, <3>1, QuantityBytes
      <3>3. d \in DOMAIN made => made[d] \in [from : Path, bytes : Nat]
        BY <1>0 DEF TypeOK
      <3> QED BY <1>7, <3>1, <3>2, <3>3
    <2>5. TypeOK'
      BY <1>0, <1>1, <1>4, <1>7, <2>2, <2>4 DEF TypeOK
    <2> QED BY <1>0, <1>7, <2>3, <2>5 DEF CreateInv, Convertible
  <1> QED BY <1>5, <1>6, <1>7 DEF PrepareSizedDisk

LEMMA ConvertInv ==
  ASSUME CreateInv, ConvertAndCreateVM
  PROVE  CreateInv'
  <1>1. vm' = vm /\ input' = input /\ made' = made /\ at' = at /\ pc = "convert"
    BY DEF ConvertAndCreateVM
  <1>2. CASE Goto("err") /\ UNCHANGED ctr
    BY <1>1, <1>2 DEF CreateInv, TypeOK, Convertible, Accepted, Goto, Labels
  <1>3. CASE ctr' = ContainerSpec(vm.name, ToVMI(vm)) /\ Goto("created")
    <2>1. ctr' # NoContainer
      <3>1. "vmi" \in DOMAIN ctr' /\ "vmi" \notin DOMAIN NoContainer
        BY <1>3 DEF ContainerSpec, NoContainer
      <3> QED BY <3>1
    <2>2. TypeOK'
      BY <1>1, <1>3, <2>1 DEF CreateInv, TypeOK, Goto, Labels
    <2>3. ContainerSpec(vm.name, ToVMI(vm))' = ContainerSpec(vm.name, ToVMI(vm))
      BY <1>1
    <2> QED BY <1>1, <1>3, <2>2, <2>3 DEF CreateInv, Convertible, Accepted, Goto
  <1> QED BY <1>2, <1>3 DEF ConvertAndCreateVM

LEMMA NextInv == CreateInv /\ [Next]_vars => CreateInv'
  <1>1. ASSUME CreateInv, UNCHANGED vars PROVE CreateInv'
    <2>1. vm' = vm /\ input' = input /\ made' = made /\ at' = at /\ pc' = pc /\ ctr' = ctr
      BY <1>1 DEF vars
    <2> QED BY <1>1, <2>1 DEF CreateInv, TypeOK, Convertible
  <1> QED BY <1>1, PrepareInv, ExtractInv, ValidateInv, ReachInv, SizedInv, ConvertInv DEF Next

\* The inductive invariant of create holds for all files, flags and images:
\* the configuration keeps its types through every step of runCreate.
THEOREM CreateInvariant == Spec => []CreateInv
  BY InitInv, NextInv, PTL DEF Spec

\* The error paths behind Validate that speak of a disk without a source are
\* dead code: what Validate accepts can be resized and converted.
THEOREM AlwaysConvertible == Spec => []Convertible
  <1>1. CreateInv => Convertible
    BY DEF CreateInv
  <1> QED BY <1>1, CreateInvariant, PTL

-----------------------------------------------------------------------------
(* Mounts *)

\* Of disks with images of their own each is the one that its image's mount
\* was made for.
LEMMA OwnMount ==
  ASSUME NEW disks \in Seq(DiskSpec), NEW d \in DOMAIN disks,
         \A e, f \in DOMAIN disks : disks[e].image = disks[f].image => e = f
  PROVE  /\ disks[d].image \in DOMAIN HostMounts(disks)
         /\ HostMounts(disks)[disks[d].image] = ContainerPath(disks[d])
  <1> DEFINE path == disks[d].image
             last(i) == disks[i].image = path
                        /\ \A j \in DOMAIN disks : disks[j].image = path => j <= i
  <1>1. d \in Nat
    BY Places
  <1>2. last(d)
    BY <1>1
  <1>3. (CHOOSE i \in DOMAIN disks : last(i)) = d
    BY <1>2
  <1> QED BY <1>3 DEF HostMounts

\* Every volume of the VMI is a mount of that disk's own file, provided that
\* no two disks share a name or an image.
THEOREM AlwaysMounted == Spec => []VolumesMounted
  <1>1. CreateInv => VolumesMounted
    <2> SUFFICES ASSUME CreateInv, pc = "created", DistinctNames, DistinctImages,
                        NEW d \in DOMAIN vm.disks
                 PROVE  {m \in ctr.mounts : m.destination = ctr.vmi.volumes[d]}
                         = {[source |-> vm.disks[d].image,
                             destination |-> ctr.vmi.volumes[d]]}
      BY DEF VolumesMounted
    <2> DEFINE disks == vm.disks
               mounts == HostMounts(disks)
    <2>1. disks \in Seq(DiskSpec)
      BY DEF CreateInv, TypeOK, VMSpec
    <2>2. ctr = ContainerSpec(vm.name, ToVMI(vm))
      BY DEF CreateInv
    <2>3. ctr.vmi.volumes[d] = ContainerPath(disks[d])
      BY <2>2 DEF ContainerSpec, ToVMI
    <2>4. ctr.mounts = {[source |-> path, destination |-> mounts[path]] :
                          path \in DOMAIN mounts}
      BY <2>2 DEF ContainerSpec, ToVMI
    <2>5. DOMAIN mounts = {disks[e].image : e \in DOMAIN disks}
      BY DEF HostMounts
    <2>6. \A e \in DOMAIN disks : /\ disks[e].image \in DOMAIN mounts
                                  /\ mounts[disks[e].image] = ContainerPath(disks[e])
      BY <2>1, OwnMount DEF DistinctImages
    <2>7. ASSUME NEW e \in DOMAIN disks, ContainerPath(disks[e]) = ContainerPath(disks[d])
          PROVE  e = d
      <3>1. ContainerPath(disks[e]).disk = disks[e].name
            /\ ContainerPath(disks[d]).disk = disks[d].name
        BY DEF ContainerPath
      <3> QED BY <2>7, <3>1 DEF DistinctNames
    <2> HIDE DEF mounts, disks
    <2>8. ASSUME NEW m \in ctr.mounts, m.destination = ContainerPath(disks[d])
          PROVE  m = [source |-> disks[d].image, destination |-> ContainerPath(disks[d])]
      <3>1. PICK e \in DOMAIN disks :
               m = [source |-> disks[e].image, destination |-> mounts[disks[e].image]]
        BY <2>4, <2>5, <2>8
      <3>2. m.destination = ContainerPath(disks[e])
        BY <2>6, <3>1
      <3>3. e = d
        BY <2>7, <2>8, <3>2
      <3> QED BY <2>6, <3>1, <3>3
    <2>9. [source |-> disks[d].image, destination |-> ContainerPath(disks[d])] \in ctr.mounts
      <3>1. d \in DOMAIN disks
        BY DEF disks
      <3> QED BY <2>4, <2>6, <3>1
    <2> QED BY <2>3, <2>8, <2>9 DEF disks
  <1> QED BY <1>1, CreateInvariant, PTL
=============================================================================
